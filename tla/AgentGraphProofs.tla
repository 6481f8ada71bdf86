-------------------------- MODULE AgentGraphProofs --------------------------
(***************************************************************************)
(* AgentGraph, for every number of invocations, tools and steps.            *)
(***************************************************************************)
EXTENDS AgentGraph, SequenceTheorems, TLAPS

(* What a model response holds.                                             *)
LEMMA ResponseIsSeq ==
  ASSUME NEW r \in Requests, NEW calls \in LlmResponses(r)
  PROVE  /\ calls \in Seq(Calls)
         /\ r \in Followers =>
               calls \in Seq({call \in Calls : FitsSchema(call)})
<1>1. ASSUME NEW S, calls \in Responses(S) PROVE calls \in Seq(S)
  BY <1>1, AgentAssumption DEF Responses
<1>2. calls \in Seq({call \in Calls : FitsSchema(call)}) => calls \in Seq(Calls)
  OBVIOUS
<1> QED BY <1>1, <1>2 DEF LlmResponses, AnyResponse, FittingResponse

(* The messages the graph adds are messages.                                *)
LEMMA MessagesTyped ==
  /\ SystemMessage \in Message
  /\ HumanMessage \in Message
  /\ \A calls \in Seq(Calls) : AiMessage(calls) \in Message
  /\ \A k \in Nat, name \in Names, data \in Data :
        ToolMessage(k, name, data) \in Message
BY DEF Message, SystemMessage, HumanMessage, AiMessage, ToolMessage

(* Overwriting one entry of a results dict gives a results dict.            *)
LEMMA OverwriteTyped ==
  ASSUME NEW res, IsResults(res), NEW name \in Names, NEW data \in Data
  PROVE  IsResults(SetItem(res, name, data))
BY DEF IsResults, SetItem

(* Adding one message is appending it.                                      *)
LEMMA AddOne ==
  ASSUME NEW msgs \in Seq(Message), NEW m \in Message
  PROVE  AddMessages(msgs, <<m>>) = Append(msgs, m)
BY AppendIsConcat DEF AddMessages

(* A result that a call returns is data, and its name a tool's name.        *)
LEMMA AnswerTyped ==
  ASSUME NEW r \in Requests, NEW data \in ToolAnswers(r)
  PROVE  data \in Data /\ NextCall(r).name \in Names
BY AgentAssumption DEF ToolAnswers, Data

-----------------------------------------------------------------------------
(* TypeOK is inductive.                                                     *)
LEMMA TypeStep == TypeOK /\ [Next]_vars => TypeOK'
<1> SUFFICES ASSUME TypeOK, [Next]_vars PROVE TypeOK'
  OBVIOUS
<1> USE DEF TypeOK
<1>1. ASSUME NEW r \in Requests, NEW customer \in Customers, Invoke(r, customer)
      PROVE  TypeOK'
  BY <1>1, MessagesTyped DEF Invoke, BuildInitialMessages
<1>2. ASSUME NEW r \in Requests, NEW calls \in LlmResponses(r), AgentNode(r, calls)
      PROVE  TypeOK'
  <2>1. AiMessage(calls) \in Message
    BY MessagesTyped, ResponseIsSeq
  <2>2. messages' \in [Requests -> Seq(Message)]
    BY <1>2, <2>1 DEF AgentNode, AddMessages
  <2>3. steps' \in [Requests -> 0..RecursionLimit]
    BY <1>2, AgentAssumption DEF AgentNode
  <2>4. pc' \in [Requests ->
            {"idle", "agent", "tools", "waiting", "answered", "failed"}]
    BY <1>2 DEF AgentNode, RouteAfterAgent, AsksForTools
  <2>5. /\ batch' \in [Requests -> Seq(Message)]
        /\ DOMAIN results' = Requests
        /\ \A q \in Requests : IsResults(results'[q])
    <3>1. CASE UNCHANGED <<batch, results>>
      BY <3>1
    <3>2. CASE /\ batch' = [batch EXCEPT ![r] = <<>>]
               /\ results' = [results EXCEPT ![r] = toolResults[r]]
      BY <3>2
    <3> QED BY <1>2, <3>1, <3>2 DEF AgentNode, RouteAfterAgent, AsksForTools
  <2> QED BY <1>2, <2>2, <2>3, <2>4, <2>5 DEF AgentNode
<1>3. ASSUME NEW r \in Requests, NEW data \in Data, ToolReturns(r, data)
      PROVE  TypeOK'
  <2>1. NextCall(r).name \in Names
    BY <1>3, AnswerTyped DEF ToolReturns
  <2>2. IsResults(SetItem(results[r], NextCall(r).name, data))
    BY <2>1, OverwriteTyped
  <2>3. ToolMessage(Len(batch[r]) + 1, NextCall(r).name, data) \in Message
    BY <2>1, MessagesTyped
  <2>4. batch' \in [Requests -> Seq(Message)]
    BY <1>3, <2>3 DEF ToolReturns
  <2>5. DOMAIN results' = Requests /\ \A q \in Requests : IsResults(results'[q])
    BY <1>3, <2>2 DEF ToolReturns
  <2> QED BY <1>3, <2>4, <2>5 DEF ToolReturns
<1>4. ASSUME NEW r \in Requests, ReturnFromTools(r) PROVE TypeOK'
  <2>1. messages' \in [Requests -> Seq(Message)]
    BY <1>4 DEF ReturnFromTools, AddMessages
  <2>2. steps' \in [Requests -> 0..RecursionLimit]
    BY <1>4, AgentAssumption DEF ReturnFromTools
  <2> QED BY <1>4, <2>1, <2>2 DEF ReturnFromTools
<1>5. ASSUME NEW r \in Requests,
             LlmRaises(r) \/ SendCall(r) \/ ToolRaises(r) \/ OutOfSteps(r)
      PROVE  TypeOK'
  BY <1>5 DEF LlmRaises, SendCall, ToolRaises, OutOfSteps
<1>6. CASE UNCHANGED vars
  BY <1>6 DEF vars
<1> QED BY <1>1, <1>2, <1>3, <1>4, <1>5, <1>6 DEF Next, Advance

(* Every variable of every invocation keeps its type.                       *)
THEOREM TypeCorrect == Spec => []TypeOK
<1>1. Init => TypeOK
  BY AgentAssumption DEF Init, TypeOK, IsResults, NoResults
<1> QED BY <1>1, TypeStep, PTL DEF Spec

-----------------------------------------------------------------------------
(* Conversations, as plain sequences.                                       *)

LEMMA ToolMessageFields ==
  ASSUME NEW k, NEW name, NEW data
  PROVE  /\ ToolMessage(k, name, data).kind = "tool"
         /\ ToolMessage(k, name, data).id = k
         /\ ToolMessage(k, name, data).name = name
         /\ ToolMessage(k, name, data).data = data
BY DEF ToolMessage

LEMMA AiMessageFields ==
  ASSUME NEW calls
  PROVE  AiMessage(calls).kind = "ai" /\ AiMessage(calls).calls = calls
BY DEF AiMessage

(* A model response carries a sequence of calls.                            *)
LEMMA AiMessageTyped ==
  ASSUME NEW m \in Message, m.kind = "ai"
  PROVE  m.calls \in Seq(Calls)
BY DEF Message, SystemMessage, HumanMessage

(* The next response may follow anything that is not itself a response.     *)
LEMMA PairedThenAi ==
  ASSUME NEW msgs \in Seq(Message), NEW calls \in Seq(Calls),
         WellPaired(msgs), msgs # <<>>, msgs[Len(msgs)].kind # "ai"
  PROVE  WellPaired(Append(msgs, AiMessage(calls)))
<1> DEFINE new == Append(msgs, AiMessage(calls))
<1>1. /\ Len(new) = Len(msgs) + 1
      /\ \A i \in 1..Len(msgs) : new[i] = msgs[i]
      /\ new[Len(msgs) + 1].kind = "ai"
  BY MessagesTyped, AiMessageFields
<1> SUFFICES ASSUME NEW i \in 1..(Len(new) - 1), new[i].kind = "ai"
             PROVE  LET n == Len(new[i].calls) IN
                    /\ n > 0
                    /\ i + n <= Len(new)
                    /\ AnswersCalls(new, i, new[i].calls, n)
                    /\ i + n < Len(new) => new[i + n + 1].kind = "ai"
  BY DEF WellPaired
<1> HIDE DEF new
<1> DEFINE asked == msgs[i].calls
           n == Len(asked)
<1>2. /\ i \in 1..(Len(msgs) - 1)
      /\ new[i].calls = asked
      /\ n \in Nat
  BY <1>1, AiMessageTyped
<1>3. /\ n > 0
      /\ i + n <= Len(msgs)
      /\ AnswersCalls(msgs, i, asked, n)
      /\ i + n < Len(msgs) => msgs[i + n + 1].kind = "ai"
  <2>1. msgs[i].kind = "ai"
    BY <1>1, <1>2
  <2> QED BY <1>2, <2>1 DEF WellPaired
<1> SUFFICES /\ n > 0
             /\ i + n <= Len(new)
             /\ AnswersCalls(new, i, asked, n)
             /\ i + n < Len(new) => new[i + n + 1].kind = "ai"
  BY <1>2
<1> HIDE DEF n, asked
<1>4. AnswersCalls(new, i, asked, n)
  <2> SUFFICES ASSUME NEW k \in 1..n
               PROVE  new[i + k] = msgs[i + k]
    BY <1>3 DEF AnswersCalls
  <2> QED BY <1>1, <1>2, <1>3
<1>5. new[i + n + 1].kind = "ai"
  <2>1. CASE i + n = Len(msgs)
    BY <2>1, <1>1
  <2>2. CASE i + n < Len(msgs)
    <3>1. i + n + 1 \in 1..Len(msgs)
      BY <2>2, <1>2
    <3>2. new[i + n + 1] = msgs[i + n + 1]
      BY <3>1, <1>1
    <3> QED BY <2>2, <3>2, <1>3
  <2> QED BY <2>1, <2>2, <1>2, <1>3
<1> QED BY <1>1, <1>2, <1>3, <1>4, <1>5

(* A complete batch may follow the response that asked for it.              *)
LEMMA PairedThenBatch ==
  ASSUME NEW msgs \in Seq(Message), NEW answers \in Seq(Message),
         WellPaired(msgs), msgs # <<>>, msgs[Len(msgs)].kind = "ai",
         msgs[Len(msgs)].calls # <<>>,
         Len(answers) = Len(msgs[Len(msgs)].calls),
         AnswersCalls(answers, 0, msgs[Len(msgs)].calls, Len(answers))
  PROVE  /\ WellPaired(msgs \o answers)
         /\ msgs \o answers # <<>>
         /\ (msgs \o answers)[Len(msgs \o answers)].kind # "ai"
<1> DEFINE new == msgs \o answers
           at == Len(msgs)
           last == msgs[at].calls
<1>1. /\ new \in Seq(Message)
      /\ Len(new) = at + Len(answers)
      /\ at \in Nat \ {0}
      /\ \A i \in 1..at : new[i] = msgs[i]
      /\ \A k \in 1..Len(answers) : new[at + k] = answers[k]
  OBVIOUS
<1>2. last \in Seq(Calls) /\ Len(last) > 0 /\ Len(answers) = Len(last)
  BY <1>1, AiMessageTyped, EmptySeq
<1>3. \A k \in 1..Len(answers) :
         /\ answers[k].kind = "tool"
         /\ answers[k].id = k
         /\ answers[k].name = last[k].name
  BY DEF AnswersCalls
<1> HIDE DEF new
<1>4. AnswersCalls(new, at, last, Len(last))
  BY <1>1, <1>2, <1>3 DEF AnswersCalls
<1>5. ASSUME NEW i \in 1..(Len(new) - 1), new[i].kind = "ai"
      PROVE  LET n == Len(new[i].calls) IN
             /\ n > 0
             /\ i + n <= Len(new)
             /\ AnswersCalls(new, i, new[i].calls, n)
             /\ i + n < Len(new) => new[i + n + 1].kind = "ai"
  <2>1. i \in 1..at
    <3> SUFFICES ASSUME i > at PROVE FALSE
      BY <1>1
    <3>1. i - at \in 1..Len(answers) /\ i = at + (i - at)
      BY <1>1, <1>2
    <3> QED BY <3>1, <1>1, <1>3, <1>5
  <2>2. CASE i = at
    BY <2>2, <1>1, <1>2, <1>4
  <2>3. CASE i # at
    <3> DEFINE asked == msgs[i].calls
               n == Len(asked)
    <3>1. /\ i \in 1..(at - 1)
          /\ msgs[i].kind = "ai"
          /\ new[i].calls = asked
          /\ n \in Nat
      BY <2>1, <2>3, <1>1, <1>5, AiMessageTyped
    <3>2. /\ n > 0
          /\ i + n <= at
          /\ AnswersCalls(msgs, i, asked, n)
          /\ i + n < at => msgs[i + n + 1].kind = "ai"
      BY <3>1 DEF WellPaired
    <3> SUFFICES /\ n > 0
                 /\ i + n <= Len(new)
                 /\ AnswersCalls(new, i, asked, n)
                 /\ i + n < Len(new) => new[i + n + 1].kind = "ai"
      BY <3>1
    <3> HIDE DEF n, asked
    <3>3. i + n # at
      <4>1. n \in 1..n
        BY <3>1, <3>2
      <4>2. msgs[i + n].kind = "tool"
        BY <4>1, <3>2 DEF AnswersCalls
      <4> QED BY <4>2
    <3>4. AnswersCalls(new, i, asked, n)
      <4> SUFFICES ASSUME NEW k \in 1..n
                   PROVE  new[i + k] = msgs[i + k]
        BY <3>2 DEF AnswersCalls
      <4> QED BY <1>1, <3>1, <3>2
    <3>5. new[i + n + 1].kind = "ai"
      <4>1. i + n < at /\ i + n + 1 \in 1..at
        BY <1>1, <3>1, <3>2, <3>3
      <4>2. new[i + n + 1] = msgs[i + n + 1]
        BY <4>1, <1>1
      <4> QED BY <4>1, <4>2, <3>2
    <3> QED BY <1>1, <1>2, <3>1, <3>2, <3>4, <3>5
  <2> QED BY <2>2, <2>3
<1>6. new # <<>> /\ new[Len(new)].kind # "ai"
  BY <1>1, <1>2, <1>3
<1> QED BY <1>5, <1>6 DEF WellPaired, new

LEMMA AppendToConcat ==
  ASSUME NEW s \in Seq(Message), NEW t \in Seq(Message), NEW e \in Message
  PROVE  s \o Append(t, e) = Append(s \o t, e)
<1> DEFINE u == s \o Append(t, e)
           v == Append(s \o t, e)
<1>1. u \in Seq(Message) /\ v \in Seq(Message) /\ Len(u) = Len(v)
  OBVIOUS
<1>2. ASSUME NEW i \in 1..Len(u) PROVE u[i] = v[i]
  <2>1. CASE i <= Len(s)
    BY <2>1
  <2>2. CASE i > Len(s) /\ i <= Len(s) + Len(t)
    BY <2>2
  <2>3. CASE i = Len(s) + Len(t) + 1
    BY <2>3
  <2> QED BY <2>1, <2>2, <2>3
<1> HIDE DEF u, v
<1>3. u = v
  BY <1>1, <1>2, SeqEqual
<1> QED BY <1>3 DEF u, v

(* Appending something that is not a tool message leaves the latest answers *)
(* what they were; appending a tool message makes its data the latest.      *)
LEMMA LatestThenOther ==
  ASSUME NEW msgs \in Seq(Message), NEW m \in Message, NEW res,
         m.kind # "tool", LatestAnswers(res, msgs)
  PROVE  LatestAnswers(res, Append(msgs, m))
<1> DEFINE new == Append(msgs, m)
<1>1. /\ Len(new) = Len(msgs) + 1
      /\ Len(msgs) \in Nat
      /\ \A i \in 1..Len(msgs) : new[i] = msgs[i]
      /\ new[Len(msgs) + 1] = m
  OBVIOUS
<1> HIDE DEF new
<1>2. \A i \in 1..Len(new) : new[i].kind = "tool" => i \in 1..Len(msgs)
  BY <1>1
<1>3. \A i \in 1..Len(new) : new[i].kind = "tool" => new[i].name \in DOMAIN res
  BY <1>1, <1>2 DEF LatestAnswers
<1>4. ASSUME NEW t \in DOMAIN res
      PROVE  \E i \in 1..Len(new) :
                /\ new[i].kind = "tool"
                /\ new[i].name = t
                /\ new[i].data = res[t]
                /\ \A j \in (i + 1)..Len(new) :
                      new[j].kind = "tool" => new[j].name # t
  <2>1. PICK i \in 1..Len(msgs) :
           /\ msgs[i].kind = "tool"
           /\ msgs[i].name = t
           /\ msgs[i].data = res[t]
           /\ \A j \in (i + 1)..Len(msgs) :
                 msgs[j].kind = "tool" => msgs[j].name # t
    BY DEF LatestAnswers
  <2>2. \A j \in (i + 1)..Len(new) : new[j].kind = "tool" => new[j].name # t
    BY <2>1, <1>1, <1>2
  <2> QED BY <2>1, <2>2, <1>1
<1> QED BY <1>3, <1>4 DEF LatestAnswers, new

LEMMA LatestThenAnswer ==
  ASSUME NEW msgs \in Seq(Message), NEW res, LatestAnswers(res, msgs),
         NEW k, NEW name, NEW data
  PROVE  LatestAnswers(SetItem(res, name, data),
                       Append(msgs, ToolMessage(k, name, data)))
<1> DEFINE new == Append(msgs, ToolMessage(k, name, data))
           dict == SetItem(res, name, data)
           last == Len(msgs) + 1
<1>1. /\ Len(new) = last
      /\ Len(msgs) \in Nat
      /\ \A i \in 1..Len(msgs) : new[i] = msgs[i]
      /\ new[last].kind = "tool"
      /\ new[last].name = name
      /\ new[last].data = data
  BY ToolMessageFields
<1>2. /\ DOMAIN dict = DOMAIN res \cup {name}
      /\ dict[name] = data
      /\ \A t \in DOMAIN res : t # name => dict[t] = res[t]
  BY DEF SetItem
<1> HIDE DEF new, dict
<1>3. \A i \in 1..Len(new) : new[i].kind = "tool" => new[i].name \in DOMAIN dict
  BY <1>1, <1>2 DEF LatestAnswers
<1>4. ASSUME NEW t \in DOMAIN dict
      PROVE  \E i \in 1..Len(new) :
                /\ new[i].kind = "tool"
                /\ new[i].name = t
                /\ new[i].data = dict[t]
                /\ \A j \in (i + 1)..Len(new) :
                      new[j].kind = "tool" => new[j].name # t
  <2>1. CASE t = name
    BY <2>1, <1>1, <1>2
  <2>2. CASE t # name
    <3>1. PICK i \in 1..Len(msgs) :
             /\ msgs[i].kind = "tool"
             /\ msgs[i].name = t
             /\ msgs[i].data = res[t]
             /\ \A j \in (i + 1)..Len(msgs) :
                   msgs[j].kind = "tool" => msgs[j].name # t
      BY <2>2, <1>2 DEF LatestAnswers
    <3>2. \A j \in (i + 1)..Len(new) : new[j].kind = "tool" => new[j].name # t
      BY <2>2, <3>1, <1>1
    <3> QED BY <2>2, <3>1, <3>2, <1>1, <1>2
  <2> QED BY <2>1, <2>2
<1> QED BY <1>3, <1>4 DEF LatestAnswers, new, dict

-----------------------------------------------------------------------------
(* LoopInv is inductive: first, an invocation that does not move.           *)
LEMMA LoopFrame ==
  ASSUME NEW q \in Requests, LoopOK(q),
         pc'[q] = pc[q], messages'[q] = messages[q],
         toolResults'[q] = toolResults[q],
         batch'[q] = batch[q], results'[q] = results[q]
  PROVE  LoopOK(q)'
BY DEF LoopOK, PhaseOK, InTools, LastMessage, PendingCalls

LEMMA LoopStep == TypeOK /\ LoopInv /\ [Next]_vars => LoopInv'
<1> SUFFICES ASSUME TypeOK, LoopInv, [Next]_vars,
                    NEW q \in Requests
             PROVE  LoopOK(q)'
  BY DEF LoopInv
<1>0. /\ LoopOK(q)
      /\ messages \in [Requests -> Seq(Message)]
      /\ batch \in [Requests -> Seq(Message)]
      /\ pc \in [Requests ->
            {"idle", "agent", "tools", "waiting", "answered", "failed"}]
      /\ DOMAIN toolResults = Requests
      /\ DOMAIN results = Requests
  BY DEF TypeOK, LoopInv
<1>1. ASSUME NEW r \in Requests, NEW customer \in Customers, Invoke(r, customer)
      PROVE  LoopOK(q)'
  <2>1. CASE q # r
    BY <1>0, <1>1, <2>1, LoopFrame DEF Invoke
  <2>2. CASE q = r
    <3>1. /\ messages'[q] = <<SystemMessage, HumanMessage>>
          /\ pc'[q] = "agent"
          /\ DOMAIN toolResults'[q] = {}
      BY <1>0, <1>1, <2>2 DEF Invoke, BuildInitialMessages, LoopOK, PhaseOK
    <3>2. WellPaired(messages'[q])
      BY <3>1 DEF WellPaired, SystemMessage, HumanMessage
    <3>3. LatestAnswers(toolResults'[q], messages'[q])
      BY <3>1 DEF LatestAnswers, SystemMessage, HumanMessage
    <3>4. messages'[q] # <<>> /\ messages'[q][Len(messages'[q])].kind # "ai"
      BY <3>1 DEF HumanMessage
    <3> QED BY <3>1, <3>2, <3>3, <3>4 DEF LoopOK, PhaseOK, InTools, LastMessage
  <2> QED BY <2>1, <2>2
<1>2. ASSUME NEW r \in Requests, NEW calls \in LlmResponses(r), AgentNode(r, calls)
      PROVE  LoopOK(q)'
  <2>1. CASE q # r
    BY <1>0, <1>2, <2>1, LoopFrame DEF AgentNode, RouteAfterAgent, AsksForTools
  <2>2. CASE q = r
    <3> DEFINE new == Append(messages[q], AiMessage(calls))
    <3>1. /\ calls \in Seq(Calls)
          /\ messages[q] \in Seq(Message)
          /\ AiMessage(calls) \in Message
          /\ messages[q] # <<>>
          /\ messages[q][Len(messages[q])].kind # "ai"
      BY <1>0, <1>2, <2>2, ResponseIsSeq, MessagesTyped
         DEF AgentNode, LoopOK, PhaseOK, LastMessage
    <3>2. messages'[q] = new /\ toolResults'[q] = toolResults[q]
      BY <1>0, <1>2, <2>2, <3>1, AddOne DEF AgentNode
    <3>3. WellPaired(new)
      BY <1>0, <3>1, PairedThenAi DEF LoopOK
    <3>4. LatestAnswers(toolResults[q], new)
      BY <1>0, <3>1, LatestThenOther, AiMessageFields DEF LoopOK
    <3>5. /\ new # <<>>
          /\ new \in Seq(Message)
          /\ new[Len(new)].kind = "ai"
          /\ new[Len(new)].calls = calls
      BY <3>1, AiMessageFields
    <3>6. PhaseOK(q)'
      <4>1. CASE calls = <<>> /\ pc'[q] = "answered"
        BY <4>1, <3>2, <3>5 DEF PhaseOK, InTools, LastMessage
      <4>2. CASE /\ calls # <<>>
                 /\ pc'[q] = "tools"
                 /\ batch'[q] = <<>>
                 /\ results'[q] = toolResults[q]
        <5>1. messages'[q] \o batch'[q] = new
          BY <4>2, <3>2, <3>5, ConcatEmptySeq
        <5> HIDE DEF new
        <5>2. LatestAnswers(results'[q], messages'[q] \o batch'[q])
          BY <5>1, <4>2, <3>4
        <5>3. Len(batch'[q]) = 0 /\ Len(calls) \in Nat
          BY <4>2, <3>1
        <5>4. AnswersCalls(batch'[q], 0, calls, 0)
          BY DEF AnswersCalls
        <5> QED BY <4>2, <5>2, <5>3, <5>4, <3>2, <3>5
                DEF PhaseOK, InTools, LastMessage, PendingCalls
      <4> QED BY <4>1, <4>2, <1>0, <1>2, <2>2 DEF AgentNode, RouteAfterAgent, AsksForTools
    <3> QED BY <3>2, <3>3, <3>4, <3>6 DEF LoopOK
  <2> QED BY <2>1, <2>2
<1>3. ASSUME NEW r \in Requests, NEW data \in Data, ToolReturns(r, data)
      PROVE  LoopOK(q)'
  <2>1. CASE q # r
    BY <1>0, <1>3, <2>1, LoopFrame DEF ToolReturns
  <2>2. CASE q = r
    <3> DEFINE b == batch[q]
               m == ToolMessage(Len(b) + 1, NextCall(q).name, data)
               asked == PendingCalls(q)
    <3>1. /\ pc[q] = "waiting"
          /\ pc'[q] = "tools"
          /\ messages'[q] = messages[q]
          /\ toolResults'[q] = toolResults[q]
          /\ batch'[q] = Append(b, m)
          /\ results'[q] = SetItem(results[q], NextCall(q).name, data)
      BY <1>0, <1>3, <2>2 DEF ToolReturns
    <3>2. /\ b \in Seq(Message)
          /\ messages[q] \in Seq(Message)
          /\ messages[q] # <<>>
          /\ LastMessage(q).kind = "ai"
          /\ asked # <<>>
          /\ Len(b) < Len(asked)
          /\ AnswersCalls(b, 0, asked, Len(b))
          /\ LatestAnswers(results[q], messages[q] \o b)
      BY <1>0, <3>1 DEF LoopOK, PhaseOK, InTools
    <3>3. asked \in Seq(Calls)
      BY <3>2, AiMessageTyped DEF LastMessage, PendingCalls
    <3>4. /\ m \in Message
          /\ m.kind = "tool"
          /\ m.id = Len(b) + 1
          /\ m.name = asked[Len(b) + 1].name
      <4>1. NextCall(q).name \in Names
        BY <1>3, <2>2, AnswerTyped DEF ToolReturns
      <4> QED BY <4>1, <3>2, MessagesTyped, ToolMessageFields DEF NextCall
    <3>5. LatestAnswers(results'[q], messages[q] \o Append(b, m))
      <4>1. messages[q] \o Append(b, m) = Append(messages[q] \o b, m)
        <5> HIDE DEF b, m
        <5> QED BY <3>2, <3>4, AppendToConcat
      <4>2. messages[q] \o b \in Seq(Message)
        BY <3>2
      <4>3. LatestAnswers(SetItem(results[q], NextCall(q).name, data),
                          Append(messages[q] \o b, m))
        BY <3>2, <4>2, LatestThenAnswer
      <4> QED BY <3>1, <4>1, <4>3
    <3>6. AnswersCalls(Append(b, m), 0, asked, Len(b) + 1)
      <4> HIDE DEF m
      <4> SUFFICES ASSUME NEW k \in 1..(Len(b) + 1)
                   PROVE  /\ Append(b, m)[k].kind = "tool"
                          /\ Append(b, m)[k].id = k
                          /\ Append(b, m)[k].name = asked[k].name
        BY DEF AnswersCalls
      <4>1. CASE k \in 1..Len(b)
        BY <4>1, <3>2, <3>4 DEF AnswersCalls
      <4>2. CASE k = Len(b) + 1
        BY <4>2, <3>2, <3>4
      <4> QED BY <4>1, <4>2, <3>2
    <3>7. Len(Append(b, m)) = Len(b) + 1 /\ Len(b) + 1 <= Len(asked)
      BY <3>2, <3>3, <3>4
    <3>8. LastMessage(q)' = LastMessage(q) /\ PendingCalls(q)' = asked
      BY <3>1 DEF LastMessage, PendingCalls
    <3>9. PhaseOK(q)'
      <4> HIDE DEF m, b, asked
      <4> QED BY <3>1, <3>2, <3>5, <3>6, <3>7, <3>8 DEF PhaseOK, InTools
    <3> QED BY <1>0, <3>1, <3>9 DEF LoopOK
  <2> QED BY <2>1, <2>2
<1>4. ASSUME NEW r \in Requests, ReturnFromTools(r) PROVE LoopOK(q)'
  <2>1. CASE q # r
    BY <1>0, <1>4, <2>1, LoopFrame DEF ReturnFromTools
  <2>2. CASE q = r
    <3>1. /\ pc[q] = "tools"
          /\ pc'[q] = "agent"
          /\ messages'[q] = messages[q] \o batch[q]
          /\ toolResults'[q] = results[q]
          /\ Len(batch[q]) = Len(PendingCalls(q))
      BY <1>0, <1>4, <2>2 DEF ReturnFromTools, AddMessages
    <3>2. /\ messages[q] \in Seq(Message)
          /\ batch[q] \in Seq(Message)
          /\ WellPaired(messages[q])
          /\ messages[q] # <<>>
          /\ LastMessage(q).kind = "ai"
          /\ PendingCalls(q) # <<>>
          /\ AnswersCalls(batch[q], 0, PendingCalls(q), Len(batch[q]))
          /\ LatestAnswers(results[q], messages[q] \o batch[q])
      BY <1>0, <3>1 DEF LoopOK, PhaseOK, InTools
    <3>3. /\ WellPaired(messages[q] \o batch[q])
          /\ messages[q] \o batch[q] # <<>>
          /\ (messages[q] \o batch[q])[Len(messages[q] \o batch[q])].kind # "ai"
      BY <3>1, <3>2, PairedThenBatch DEF LastMessage, PendingCalls
    <3> QED BY <3>1, <3>2, <3>3 DEF LoopOK, PhaseOK, InTools, LastMessage
  <2> QED BY <2>1, <2>2
<1>5. ASSUME NEW r \in Requests,
             LlmRaises(r) \/ ToolRaises(r) \/ OutOfSteps(r)
      PROVE  LoopOK(q)'
  <2>1. CASE q # r
    BY <1>0, <1>5, <2>1, LoopFrame DEF LlmRaises, ToolRaises, OutOfSteps
  <2>2. CASE q = r
    BY <1>0, <1>5, <2>2
       DEF LlmRaises, ToolRaises, OutOfSteps, LoopOK, PhaseOK, InTools
  <2> QED BY <2>1, <2>2
<1>6. ASSUME NEW r \in Requests, SendCall(r) PROVE LoopOK(q)'
  <2>1. CASE q # r
    BY <1>0, <1>6, <2>1, LoopFrame DEF SendCall
  <2>2. CASE q = r
    <3>1. /\ pc[q] = "tools"
          /\ pc'[q] = "waiting"
          /\ Len(batch[q]) < Len(PendingCalls(q))
          /\ UNCHANGED <<messages, toolResults, batch, results>>
      BY <1>0, <1>6, <2>2 DEF SendCall
    <3> QED BY <1>0, <3>1 DEF LoopOK, PhaseOK, InTools, LastMessage, PendingCalls
  <2> QED BY <2>1, <2>2
<1>7. CASE UNCHANGED vars
  BY <1>0, <1>7, LoopFrame DEF vars
<1> QED BY <1>1, <1>2, <1>3, <1>4, <1>5, <1>6, <1>7 DEF Next, Advance

LEMMA LoopInvariant == Spec => [](TypeOK /\ LoopInv)
<1>1. Init => LoopInv
  <2> SUFFICES ASSUME Init, NEW r \in Requests PROVE LoopOK(r)
    BY DEF LoopInv
  <2>1. /\ pc[r] = "idle"
        /\ messages[r] = <<>>
        /\ DOMAIN toolResults[r] = {}
        /\ DOMAIN results[r] = {}
    BY DEF Init, NoResults
  <2>2. WellPaired(messages[r]) /\ LatestAnswers(toolResults[r], messages[r])
    BY <2>1 DEF WellPaired, LatestAnswers
  <2> QED BY <2>1, <2>2 DEF LoopOK, PhaseOK, InTools
<1> QED BY <1>1, TypeCorrect, LoopStep, PTL DEF Spec

(* Every response that asked for tools is followed by the answers to        *)
(* exactly its calls, whatever the model asks for.                          *)
THEOREM Transcript == Spec => []TranscriptOK
<1>1. LoopInv => TranscriptOK
  BY DEF LoopInv, LoopOK, TranscriptOK
<1> QED BY <1>1, LoopInvariant, PTL

(* tool_results holds, for exactly the tools the conversation has answers   *)
(* of, the latest answer.                                                   *)
THEOREM Results == Spec => []ResultsAgree
<1>1. LoopInv => ResultsAgree
  BY DEF LoopInv, LoopOK, ResultsAgree
<1> QED BY <1>1, LoopInvariant, PTL

(* An invocation that ended normally ended on a response without calls.     *)
THEOREM FinalAnswer == Spec => []AnswerIsFinal
<1>1. LoopInv => AnswerIsFinal
  BY DEF LoopInv, LoopOK, PhaseOK, AnswerIsFinal
<1> QED BY <1>1, LoopInvariant, PTL

-----------------------------------------------------------------------------
(* A model that follows the bound schemas.                                  *)

(* The schemas leave such a model no argument to give, so the customer of   *)
(* the invocation is the one the tool runs on.                              *)
LEMMA OwnAnswer ==
  ASSUME NEW r \in Requests, FitsSchema(NextCall(r)),
         NEW data \in ToolAnswers(r)
  PROVE  data.who = customerId[r] /\ NextCall(r).name \in ExposedTools
<1>1. PICK t \in Tools \cap ExposedTools :
         /\ NextCall(r).name = t
         /\ DOMAIN NextCall(r).args \subseteq StripHiddenArgs({Param(t)})
  BY DEF FitsSchema, BuildAgentTools
<1>2. Param(t) = "customer_id"
  BY <1>1 DEF Param, ExposedTools
<1>3. "customer_id" \notin DOMAIN NextCall(r).args
  BY <1>1, <1>2 DEF StripHiddenArgs, HiddenArgs
<1>4. Arguments(customerId[r], NextCall(r).args)["customer_id"] = customerId[r]
  BY <1>3 DEF Arguments
<1> QED BY <1>1, <1>2, <1>4 DEF ToolAnswers

LEMMA OwnFrame ==
  ASSUME NEW q \in Requests, OwnOK(q),
         pc'[q] = pc[q], customerId'[q] = customerId[q],
         messages'[q] = messages[q], toolResults'[q] = toolResults[q],
         batch'[q] = batch[q], results'[q] = results[q]
  PROVE  OwnOK(q)'
BY DEF OwnOK, InTools, LastMessage, PendingCalls

LEMMA OwnStep ==
  TypeOK /\ OwnInv /\ [Next]_vars => OwnInv'
<1> SUFFICES ASSUME TypeOK, OwnInv, [Next]_vars,
                    NEW q \in Followers
             PROVE  OwnOK(q)'
  BY DEF OwnInv
<1>0. /\ q \in Requests
      /\ OwnOK(q)
      /\ customerId \in [Requests -> Customers \cup {None}]
      /\ messages \in [Requests -> Seq(Message)]
      /\ batch \in [Requests -> Seq(Message)]
      /\ pc \in [Requests ->
            {"idle", "agent", "tools", "waiting", "answered", "failed"}]
      /\ DOMAIN toolResults = Requests
      /\ DOMAIN results = Requests
  BY AgentAssumption DEF TypeOK, OwnInv
<1>1. ASSUME NEW r \in Requests, NEW customer \in Customers, Invoke(r, customer)
      PROVE  OwnOK(q)'
  <2>1. CASE q # r
    BY <1>0, <1>1, <2>1, OwnFrame DEF Invoke
  <2>2. CASE q = r
    <3>1. /\ messages'[q] = <<SystemMessage, HumanMessage>>
          /\ pc'[q] = "agent"
          /\ DOMAIN toolResults'[q] = {}
          /\ DOMAIN results'[q] = {}
      BY <1>0, <1>1, <2>2 DEF Invoke, BuildInitialMessages, OwnOK
    <3> QED BY <3>1 DEF OwnOK, InTools, SystemMessage, HumanMessage
  <2> QED BY <2>1, <2>2
<1>2. ASSUME NEW r \in Requests, NEW calls \in LlmResponses(r), AgentNode(r, calls)
      PROVE  OwnOK(q)'
  <2>1. CASE q # r
    BY <1>0, <1>2, <2>1, OwnFrame DEF AgentNode, RouteAfterAgent, AsksForTools
  <2>2. CASE q = r
    <3> DEFINE new == Append(messages[q], AiMessage(calls))
    <3>1. /\ calls \in Seq(Calls)
          /\ calls \in Seq({call \in Calls : FitsSchema(call)})
          /\ messages[q] \in Seq(Message)
          /\ AiMessage(calls) \in Message
      BY <1>0, <1>2, <2>2, ResponseIsSeq, MessagesTyped
    <3>2. /\ messages'[q] = new
          /\ toolResults'[q] = toolResults[q]
          /\ customerId'[q] = customerId[q]
      BY <1>0, <1>2, <2>2, <3>1, AddOne DEF AgentNode
    <3>3. /\ new # <<>>
          /\ Len(new) = Len(messages[q]) + 1
          /\ new[Len(new)].kind = "ai"
          /\ new[Len(new)].calls = calls
          /\ \A i \in 1..Len(messages[q]) : new[i] = messages[q][i]
      BY <3>1, AiMessageFields
    <3>4. \A k \in 1..Len(calls) : FitsSchema(calls[k])
      BY <3>1
    <3> HIDE DEF new
    <3>5. \A i \in 1..Len(new) :
             new[i].kind = "tool" => IsOwn(new[i], customerId[q])
      <4>1. \A i \in 1..Len(messages[q]) :
               messages[q][i].kind = "tool" => IsOwn(messages[q][i], customerId[q])
        BY <1>0 DEF OwnOK
      <4>2. \A i \in 1..Len(new) : i \in 1..Len(messages[q]) \/ i = Len(new)
        BY <3>1, <3>3
      <4> QED BY <4>1, <4>2, <3>3
    <3>6. CASE pc'[q] = "answered" /\ results'[q] = results[q]
      BY <1>0, <3>6, <3>2, <3>5 DEF OwnOK, InTools
    <3>7. CASE /\ pc'[q] = "tools"
               /\ batch'[q] = <<>>
               /\ results'[q] = toolResults[q]
      <4>1. LastMessage(q)' = new[Len(new)] /\ PendingCalls(q)' = calls
        BY <3>2, <3>3 DEF LastMessage, PendingCalls
      <4> QED BY <1>0, <3>7, <3>2, <3>3, <3>4, <3>5, <4>1 DEF OwnOK, InTools
    <3> QED BY <3>6, <3>7, <1>0, <1>2, <2>2 DEF AgentNode, RouteAfterAgent, AsksForTools
  <2> QED BY <2>1, <2>2
<1>3. ASSUME NEW r \in Requests, NEW data \in Data, ToolReturns(r, data)
      PROVE  OwnOK(q)'
  <2>1. CASE q # r
    BY <1>0, <1>3, <2>1, OwnFrame DEF ToolReturns
  <2>2. CASE q = r
    <3> DEFINE b == batch[q]
               name == NextCall(q).name
               m == ToolMessage(Len(b) + 1, name, data)
    <3>1. /\ pc[q] = "waiting"
          /\ pc'[q] = "tools"
          /\ messages'[q] = messages[q]
          /\ customerId'[q] = customerId[q]
          /\ toolResults'[q] = toolResults[q]
          /\ batch'[q] = Append(b, m)
          /\ results'[q] = SetItem(results[q], name, data)
          /\ data \in ToolAnswers(q)
      BY <1>0, <1>3, <2>2 DEF ToolReturns
    <3>2. /\ b \in Seq(Message)
          /\ messages[q] # <<>>
          /\ messages[q] \in Seq(Message)
          /\ LastMessage(q).kind = "ai"
          /\ Len(b) < Len(PendingCalls(q))
          /\ \A k \in 1..Len(PendingCalls(q)) : FitsSchema(PendingCalls(q)[k])
      BY <1>0, <3>1 DEF OwnOK, InTools
    <3>3. PendingCalls(q) \in Seq(Calls)
      BY <3>2, AiMessageTyped DEF LastMessage, PendingCalls
    <3>4. FitsSchema(NextCall(q))
      BY <3>2, <3>3 DEF NextCall
    <3>5. data.who = customerId[q] /\ name \in ExposedTools /\ name \in Names
      BY <1>0, <3>1, <3>4, OwnAnswer, AnswerTyped
    <3>6. m \in Message /\ m.data = data /\ m.name = name
      <4>1. Len(b) + 1 \in Nat
        BY <3>2
      <4> HIDE DEF b, name
      <4> QED BY <4>1, <3>5, MessagesTyped, ToolMessageFields
    <3>7. \A t \in DOMAIN results'[q] :
             results'[q][t].who = customerId[q] /\ t \in ExposedTools
      BY <1>0, <3>1, <3>5 DEF SetItem, OwnOK
    <3>8. \A i \in 1..Len(batch'[q]) :
             batch'[q][i].kind = "tool" => IsOwn(batch'[q][i], customerId[q])
      <4> HIDE DEF m, name
      <4>1. \A i \in 1..Len(b) : b[i].kind = "tool" => IsOwn(b[i], customerId[q])
        BY <1>0, <3>1 DEF OwnOK, InTools
      <4>2. IsOwn(m, customerId[q])
        BY <3>5, <3>6 DEF IsOwn
      <4> QED BY <4>1, <4>2, <3>1, <3>2, <3>6
    <3>9. LastMessage(q)' = LastMessage(q) /\ PendingCalls(q)' = PendingCalls(q)
      BY <3>1 DEF LastMessage, PendingCalls
    <3> HIDE DEF m, b, name
    <3> QED BY <1>0, <3>1, <3>2, <3>7, <3>8, <3>9 DEF OwnOK, InTools
  <2> QED BY <2>1, <2>2
<1>4. ASSUME NEW r \in Requests, ReturnFromTools(r) PROVE OwnOK(q)'
  <2>1. CASE q # r
    BY <1>0, <1>4, <2>1, OwnFrame DEF ReturnFromTools
  <2>2. CASE q = r
    <3>1. /\ pc[q] = "tools"
          /\ pc'[q] = "agent"
          /\ messages'[q] = messages[q] \o batch[q]
          /\ customerId'[q] = customerId[q]
          /\ toolResults'[q] = results[q]
          /\ results'[q] = results[q]
      BY <1>0, <1>4, <2>2 DEF ReturnFromTools, AddMessages
    <3>2. ASSUME NEW i \in 1..Len(messages'[q]), messages'[q][i].kind = "tool"
          PROVE  IsOwn(messages'[q][i], customerId[q])
      <4>1. CASE i <= Len(messages[q])
        BY <1>0, <3>1, <3>2, <4>1 DEF OwnOK
      <4>2. CASE i > Len(messages[q])
        <5>1. /\ i - Len(messages[q]) \in 1..Len(batch[q])
              /\ messages'[q][i] = batch[q][i - Len(messages[q])]
          BY <1>0, <3>1, <4>2
        <5> QED BY <1>0, <3>1, <3>2, <5>1 DEF OwnOK, InTools
      <4> QED BY <4>1, <4>2, <1>0, <3>1
    <3> QED BY <1>0, <3>1, <3>2 DEF OwnOK, InTools
  <2> QED BY <2>1, <2>2
<1>5. ASSUME NEW r \in Requests,
             LlmRaises(r) \/ ToolRaises(r) \/ OutOfSteps(r)
      PROVE  OwnOK(q)'
  <2>1. CASE q # r
    BY <1>0, <1>5, <2>1, OwnFrame DEF LlmRaises, ToolRaises, OutOfSteps
  <2>2. CASE q = r
    BY <1>0, <1>5, <2>2
       DEF LlmRaises, ToolRaises, OutOfSteps, OwnOK, InTools
  <2> QED BY <2>1, <2>2
<1>6. ASSUME NEW r \in Requests, SendCall(r) PROVE OwnOK(q)'
  <2>1. CASE q # r
    BY <1>0, <1>6, <2>1, OwnFrame DEF SendCall
  <2>2. CASE q = r
    <3>1. /\ pc[q] = "tools"
          /\ pc'[q] = "waiting"
          /\ Len(batch[q]) < Len(PendingCalls(q))
          /\ UNCHANGED <<customerId, messages, toolResults, batch, results>>
      BY <1>0, <1>6, <2>2 DEF SendCall
    <3> QED BY <1>0, <3>1 DEF OwnOK, InTools, LastMessage, PendingCalls
  <2> QED BY <2>1, <2>2
<1>7. CASE UNCHANGED vars
  BY <1>0, <1>7, OwnFrame DEF vars
<1> QED BY <1>1, <1>2, <1>3, <1>4, <1>5, <1>6, <1>7 DEF Next, Advance

LEMMA OwnInvariant ==
  Spec => []OwnInv
<1>1. Init => OwnInv
  <2> SUFFICES ASSUME Init, NEW r \in Followers PROVE OwnOK(r)
    BY DEF OwnInv
  <2>1. /\ pc[r] = "idle"
        /\ messages[r] = <<>>
        /\ DOMAIN toolResults[r] = {}
        /\ DOMAIN results[r] = {}
    BY AgentAssumption DEF Init, NoResults
  <2> QED BY <2>1 DEF OwnOK, InTools
<1>2. TypeOK /\ OwnInv /\ [Next]_vars => OwnInv'
  BY OwnStep
<1> QED BY <1>1, <1>2, TypeCorrect, PTL DEF Spec

(* When the model follows the schemas it was given, every result belongs to *)
(* the invocation's customer.                                               *)
THEOREM Own ==
  Spec => []OwnData
<1>1. OwnInv => OwnData
  BY DEF OwnInv, OwnOK, OwnData, HoldsOwnData, IsOwn
<1> QED BY <1>1, OwnInvariant, PTL

(* ... and comes from a tool of the allowlist.                              *)
THEOREM Exposed ==
  Spec => []ExposedOnly
<1>1. OwnInv => ExposedOnly
  BY DEF OwnInv, OwnOK, ExposedOnly, IsOwn
<1> QED BY <1>1, OwnInvariant, PTL

-----------------------------------------------------------------------------
(* How far an invocation can still go.  What EveryInvocationEnds needs      *)
(* beside fairness: a number that each of its steps lowers.                 *)

(* One round of the loop: a model response, a send and an answer per call.  *)
Round == 2 * MaxCalls + 1

StepsLeft(r) ==
  CASE pc[r] = "agent" -> Round * (RecursionLimit - steps[r]) + 1
    [] pc[r] = "tools" -> Round * (RecursionLimit - steps[r])
                            + 2 * (Len(PendingCalls(r)) - Len(batch[r])) + 1
    [] pc[r] = "waiting" -> Round * (RecursionLimit - steps[r])
                              + 2 * (Len(PendingCalls(r)) - Len(batch[r]))
    [] OTHER -> 0

(* A response asks for MaxCalls calls at most, and has cost a step.         *)
FewCalls ==
  \A r \in Requests :
     InTools(r) => Len(PendingCalls(r)) <= MaxCalls /\ steps[r] >= 1

(* Only a response brings calls, and never more than it may.                *)
LEMMA FewCallsStep == TypeOK /\ LoopInv /\ FewCalls /\ [Next]_vars => FewCalls'
<1> SUFFICES ASSUME TypeOK, LoopInv, FewCalls, [Next]_vars, NEW q \in Requests, InTools(q)'
             PROVE  Len(PendingCalls(q)') <= MaxCalls /\ steps'[q] >= 1
  BY DEF FewCalls
<1>1. CASE /\ pc'[q] = pc[q] /\ messages'[q] = messages[q] /\ steps'[q] = steps[q]
  BY <1>1 DEF FewCalls, InTools, PendingCalls, LastMessage
<1>2. CASE UNCHANGED vars
  BY <1>1, <1>2 DEF vars
<1>3. ASSUME NEW r \in Requests, NEW customer \in Customers, Invoke(r, customer)
      PROVE  Len(PendingCalls(q)') <= MaxCalls /\ steps'[q] >= 1
  <2>1. r # q
    BY <1>3 DEF Invoke, TypeOK, InTools
  <2> QED
    BY <1>1, <1>3, <2>1 DEF Invoke, TypeOK
<1>4. ASSUME NEW r \in Requests, Advance(r), r # q
      PROVE  Len(PendingCalls(q)') <= MaxCalls /\ steps'[q] >= 1
  BY <1>1, <1>4
     DEF Advance, AgentNode, RouteAfterAgent, LlmRaises, SendCall, ToolReturns, ToolRaises,
         ReturnFromTools, OutOfSteps, TypeOK
<1>5. ASSUME NEW calls \in LlmResponses(q), AgentNode(q, calls)
      PROVE  Len(PendingCalls(q)') <= MaxCalls /\ steps'[q] >= 1
  <2>1. messages[q] \in Seq(Message) /\ AiMessage(calls) \in Message
    BY MessagesTyped, ResponseIsSeq DEF TypeOK
  <2>2. messages'[q] = Append(messages[q], AiMessage(calls))
    BY <1>5, <2>1, AddOne DEF AgentNode, TypeOK
  <2>3. messages'[q][Len(messages'[q])] = AiMessage(calls)
    BY <2>1, <2>2
  <2>4. PendingCalls(q)' = calls
    BY <2>3, AiMessageFields DEF PendingCalls, LastMessage
  <2>5. Len(calls) <= MaxCalls
    BY AgentAssumption DEF LlmResponses, AnyResponse, FittingResponse, Responses
  <2>6. steps'[q] = steps[q] + 1 /\ steps[q] \in Nat
    BY <1>5, AgentAssumption DEF AgentNode, TypeOK
  <2> QED
    BY <2>4, <2>5, <2>6
<1>6. CASE SendCall(q) \/ (\E data \in Data : ToolReturns(q, data))
  <2>1. pc[q] \in {"tools", "waiting"} /\ messages'[q] = messages[q] /\ steps'[q] = steps[q]
    BY <1>6 DEF SendCall, ToolReturns
  <2> QED
    BY <2>1 DEF FewCalls, InTools, PendingCalls, LastMessage
<1>7. CASE LlmRaises(q) \/ ToolRaises(q) \/ ReturnFromTools(q) \/ OutOfSteps(q)
  BY <1>7 DEF LlmRaises, ToolRaises, ReturnFromTools, OutOfSteps, TypeOK, InTools
<1> QED
  BY <1>2, <1>3, <1>4, <1>5, <1>6, <1>7 DEF Next, Advance

(* All that the budget rests on, in every state.                            *)
LEMMA Bounded == Spec => [](TypeOK /\ LoopInv /\ FewCalls)
<1>1. Init => FewCalls
  BY DEF Init, FewCalls, InTools
<1> QED
  BY <1>1, FewCallsStep, LoopInvariant, PTL DEF Spec

(* Arithmetic of the rounds that are left.                                  *)
LEMMA RoundsAddUp ==
  ASSUME NEW k \in 0..RecursionLimit
  PROVE  /\ Round * (RecursionLimit - k) \in Nat /\ Round \in Nat \ {0}
         /\ k >= 1 => Round * (RecursionLimit - k) + Round <= Round * RecursionLimit
         /\ k < RecursionLimit =>
              Round * (RecursionLimit - k) = Round * (RecursionLimit - (k + 1)) + Round
<1>1. Round \in Nat \ {0} /\ RecursionLimit \in Nat
  BY AgentAssumption DEF Round
<1> QED
  BY <1>1

(* The calls asked for and those answered can be counted.                   *)
LEMMA PendingTyped ==
  ASSUME TypeOK, LoopInv, NEW r \in Requests, InTools(r)
  PROVE  Len(PendingCalls(r)) \in Nat /\ Len(batch[r]) \in Nat
<1>1. messages[r] \in Seq(Message) /\ messages[r] # <<>> /\ LastMessage(r).kind = "ai"
  BY DEF TypeOK, LoopInv, LoopOK, PhaseOK
<1>2. LastMessage(r) \in Message
  BY <1>1 DEF LastMessage
<1>3. PendingCalls(r) \in Seq(Calls)
  BY <1>1, <1>2, AiMessageTyped DEF PendingCalls
<1> QED
  BY <1>3 DEF TypeOK

(* The steps left in one state, in terms of where the invocation is.        *)
LEMMA StepsLeftIs ==
  ASSUME NEW r
  PROVE  /\ pc[r] = "agent" => StepsLeft(r) = Round * (RecursionLimit - steps[r]) + 1
         /\ pc[r] = "tools" => StepsLeft(r) = Round * (RecursionLimit - steps[r])
                                 + 2 * (Len(PendingCalls(r)) - Len(batch[r])) + 1
         /\ pc[r] = "waiting" => StepsLeft(r) = Round * (RecursionLimit - steps[r])
                                 + 2 * (Len(PendingCalls(r)) - Len(batch[r]))
         /\ pc[r] \in {"idle", "answered", "failed"} => StepsLeft(r) = 0
  BY DEF StepsLeft

(* Each invocation has a budget that its steps use up.                      *)
Budget == Round * RecursionLimit + 1

(* The steps left are a number within the budget.                           *)
LEMMA StepsAreCounted ==
  ASSUME TypeOK, LoopInv, FewCalls, NEW r \in Requests
  PROVE  StepsLeft(r) \in 0..Budget
<1> DEFINE k == steps[r]
           w == Round * (RecursionLimit - k)
           n == Len(PendingCalls(r)) - Len(batch[r])
<1>1. k \in 0..RecursionLimit
  BY DEF TypeOK
<1>2. /\ w \in Nat /\ Round \in Nat \ {0}
      /\ k >= 1 => w + Round <= Round * RecursionLimit
      /\ w <= Round * RecursionLimit /\ Round * RecursionLimit \in Nat
  <2>1. RecursionLimit \in Nat /\ Round \in Nat \ {0}
    BY AgentAssumption DEF Round
  <2>2. w <= Round * RecursionLimit /\ Round * RecursionLimit \in Nat
    BY <1>1, <2>1
  <2> QED
    BY <1>1, <2>2, RoundsAddUp
<1>3. InTools(r) => n \in 0..MaxCalls /\ k >= 1
  <2> SUFFICES ASSUME InTools(r) PROVE n \in 0..MaxCalls /\ k >= 1
    OBVIOUS
  <2>1. Len(PendingCalls(r)) \in Nat /\ Len(batch[r]) \in Nat
    BY PendingTyped
  <2>2. Len(PendingCalls(r)) <= MaxCalls /\ k >= 1
    BY DEF FewCalls
  <2>3. Len(batch[r]) <= Len(PendingCalls(r))
    BY DEF LoopInv, LoopOK, PhaseOK
  <2>4. MaxCalls \in Nat
    BY AgentAssumption
  <2> QED
    BY <2>1, <2>2, <2>3, <2>4
<1>4. MaxCalls \in Nat /\ Round = 2 * MaxCalls + 1
  BY AgentAssumption DEF Round
<1>5. /\ pc[r] = "agent" => StepsLeft(r) = w + 1
      /\ pc[r] = "tools" => StepsLeft(r) = w + 2 * n + 1
      /\ pc[r] = "waiting" => StepsLeft(r) = w + 2 * n
      /\ pc[r] \in {"idle", "answered", "failed"} => StepsLeft(r) = 0
  BY StepsLeftIs
<1>6. pc[r] \in {"idle", "agent", "tools", "waiting", "answered", "failed"}
  BY DEF TypeOK
<1>7. Budget = Round * RecursionLimit + 1
  BY DEF Budget
<1>8. pc[r] \in {"tools", "waiting"} => InTools(r)
  BY DEF InTools
<1> DEFINE W == Round * RecursionLimit
<1> HIDE DEF k, w, n, W
<1> QED
  BY <1>1, <1>2, <1>3, <1>4, <1>5, <1>6, <1>7, <1>8 DEF W

(* Each step of an invocation leaves fewer.                                 *)
LEMMA EveryStepCosts ==
  ASSUME TypeOK, LoopInv, FewCalls, FewCalls', NEW r \in Requests, Advance(r)
  PROVE  StepsLeft(r)' < StepsLeft(r)
<1> DEFINE k == steps[r]
           L == Len(PendingCalls(r))
           b == Len(batch[r])
           w == Round * (RecursionLimit - k)
           v == Round * (RecursionLimit - (k + 1))
<1>1. k \in 0..RecursionLimit /\ MaxCalls \in Nat /\ RecursionLimit \in Nat
  BY AgentAssumption DEF TypeOK
<1>2. w \in Nat /\ Round = 2 * MaxCalls + 1
  BY <1>1, RoundsAddUp DEF Round
<1>3. k < RecursionLimit => w = v + Round /\ v \in Int
  <2>1. k < RecursionLimit => k + 1 \in 0..RecursionLimit
    BY <1>1
  <2> QED
    BY <1>1, <2>1, RoundsAddUp
<1>4. /\ pc[r] = "agent" => StepsLeft(r) = w + 1
      /\ pc[r] = "tools" => StepsLeft(r) = w + 2 * (L - b) + 1
      /\ pc[r] = "waiting" => StepsLeft(r) = w + 2 * (L - b)
  BY StepsLeftIs
<1>5. InTools(r) => L \in Nat /\ b \in Nat /\ b <= L
  BY PendingTyped DEF LoopInv, LoopOK, PhaseOK
<1>6. pc[r] = "waiting" => b < L
  BY DEF LoopInv, LoopOK, PhaseOK
<1>7. pc[r] \in {"tools", "waiting"} => InTools(r)
  BY DEF InTools
<1>8. CASE LlmRaises(r) \/ ToolRaises(r) \/ OutOfSteps(r)
  <2>1. pc'[r] = "failed" /\ pc[r] \in {"agent", "tools", "waiting"}
    BY <1>8 DEF LlmRaises, ToolRaises, OutOfSteps, TypeOK
  <2>2. StepsLeft(r)' = 0
    BY <2>1 DEF StepsLeft
  <2> HIDE DEF k, L, b, w
  <2>3. StepsLeft(r) >= 1 /\ StepsLeft(r) \in Int
    BY <1>2, <1>4, <1>5, <1>6, <1>7, <2>1
  <2> QED
    BY <2>2, <2>3
<1>9. CASE SendCall(r)
  <2>1. /\ pc[r] = "tools" /\ pc'[r] = "waiting"
        /\ UNCHANGED <<messages, steps, batch>>
    BY <1>9 DEF SendCall, TypeOK
  <2>2. StepsLeft(r)' = w + 2 * (L - b)
    BY <2>1 DEF StepsLeft, PendingCalls, LastMessage
  <2> HIDE DEF k, L, b, w
  <2> QED
    BY <1>2, <1>4, <1>5, <1>7, <2>1, <2>2
<1>10. ASSUME NEW data \in Data, ToolReturns(r, data) PROVE StepsLeft(r)' < StepsLeft(r)
  <2>1. /\ pc[r] = "waiting" /\ pc'[r] = "tools"
        /\ UNCHANGED <<messages, steps>>
    BY <1>10 DEF ToolReturns, TypeOK
  <2>2. Len(batch'[r]) = b + 1
    <3>1. batch[r] \in Seq(Message) /\ batch'[r] = Append(batch[r], ToolMessage(Len(batch[r]) + 1, NextCall(r).name, data))
      BY <1>10 DEF ToolReturns, TypeOK
    <3>2. ToolMessage(Len(batch[r]) + 1, NextCall(r).name, data) \in Message
      BY <1>10, <3>1, AnswerTyped, MessagesTyped DEF ToolReturns
    <3> HIDE DEF b
    <3> QED
      BY <3>1, <3>2 DEF b
  <2>3. StepsLeft(r)' = w + 2 * (L - (b + 1)) + 1
    BY <2>1, <2>2 DEF StepsLeft, PendingCalls, LastMessage
  <2> HIDE DEF k, L, b, w
  <2> QED
    BY <1>2, <1>4, <1>5, <1>7, <2>1, <2>3
<1>11. CASE ReturnFromTools(r)
  <2>1. /\ pc[r] = "tools" /\ pc'[r] = "agent" /\ k < RecursionLimit
        /\ steps'[r] = k + 1 /\ b = L
    BY <1>11 DEF ReturnFromTools, TypeOK
  <2>2. StepsLeft(r)' = v + 1
    BY <2>1 DEF StepsLeft
  <2> HIDE DEF k, L, b, w, v
  <2> QED
    BY <1>1, <1>2, <1>3, <1>4, <1>5, <1>7, <2>1, <2>2
<1>12. ASSUME NEW calls \in LlmResponses(r), AgentNode(r, calls)
       PROVE  StepsLeft(r)' < StepsLeft(r)
  <2>1. /\ pc[r] = "agent" /\ k < RecursionLimit /\ steps'[r] = k + 1
        /\ \/ pc'[r] = "answered"
           \/ pc'[r] = "tools" /\ batch'[r] = <<>>
    BY <1>12 DEF AgentNode, RouteAfterAgent, TypeOK
  <2>2. CASE pc'[r] = "answered"
    <3>1. StepsLeft(r)' = 0
      BY <2>2 DEF StepsLeft
    <3> HIDE DEF k, w
    <3> QED
      BY <1>2, <1>4, <2>1, <3>1
  <2>3. CASE pc'[r] = "tools" /\ batch'[r] = <<>>
    <3>1. messages'[r] = Append(messages[r], AiMessage(calls)) /\ messages[r] \in Seq(Message)
          /\ AiMessage(calls) \in Message
      <4>1. messages[r] \in Seq(Message) /\ AiMessage(calls) \in Message
        BY MessagesTyped, ResponseIsSeq DEF TypeOK
      <4> QED
        BY <1>12, <4>1, AddOne DEF AgentNode, TypeOK
    <3>2. PendingCalls(r)' = calls
      BY <3>1, AiMessageFields DEF PendingCalls, LastMessage
    <3>3. calls \in Seq(Calls) /\ Len(calls) <= MaxCalls
      BY ResponseIsSeq, AgentAssumption DEF LlmResponses, AnyResponse, FittingResponse, Responses
    <3>4. StepsLeft(r)' = v + 2 * (Len(calls) - 0) + 1
      <4>1. Len(batch'[r]) = 0
        BY <2>3
      <4> QED
        BY <2>1, <2>3, <3>2, <4>1 DEF StepsLeft
    <3>5. Len(calls) \in Nat
      BY <3>3
    <3> HIDE DEF k, w, v
    <3> QED
      BY <1>1, <1>2, <1>3, <1>4, <2>1, <3>3, <3>4, <3>5
  <2> QED
    BY <2>1, <2>2, <2>3
<1> QED
  BY <1>8, <1>9, <1>10, <1>11, <1>12 DEF Advance

(* An invocation costs itself and nobody else.                              *)
LEMMA OthersKeepSteps ==
  ASSUME TypeOK, NEW r \in Requests, Advance(r), NEW q \in Requests, q # r
  PROVE  StepsLeft(q)' = StepsLeft(q)
<1>1. /\ pc'[q] = pc[q] /\ messages'[q] = messages[q]
      /\ steps'[q] = steps[q] /\ batch'[q] = batch[q]
  BY DEF Advance, AgentNode, RouteAfterAgent, LlmRaises, SendCall, ToolReturns, ToolRaises,
         ReturnFromTools, OutOfSteps, TypeOK
<1> QED
  BY <1>1 DEF StepsLeft, PendingCalls, LastMessage

(* Every invocation has a budget of steps: RecursionLimit rounds of a model *)
(* response and its calls (nodes.py:116-140, graph.py:20-46).               *)
THEOREM StepsAreFew == Spec => [](\A r \in Requests : StepsLeft(r) \in 0..Budget)
<1>1. TypeOK /\ LoopInv /\ FewCalls => \A r \in Requests : StepsLeft(r) \in 0..Budget
  BY StepsAreCounted
<1> QED
  BY <1>1, Bounded, PTL

(* Everything an invocation does lowers what is left of its own budget, and *)
(* of no other's, whatever the model asks for and the tools answer          *)
(* (nodes.py:116-140).                                                      *)
EveryStepIsSpent ==
  [][\A r \in Requests :
       Advance(r) => /\ StepsLeft(r)' < StepsLeft(r)
                     /\ \A q \in Requests \ {r} : StepsLeft(q)' = StepsLeft(q)]_vars

(* So no invocation goes on for ever: its loop of responses and calls runs  *)
(* out of steps (nodes.py:116-140, graph.py:20-46).                         *)
THEOREM StepsRunOut == Spec => EveryStepIsSpent
<1>1. TypeOK /\ LoopInv /\ FewCalls /\ FewCalls' /\ [Next]_vars
        => [\A r \in Requests :
              Advance(r) => /\ StepsLeft(r)' < StepsLeft(r)
                            /\ \A q \in Requests \ {r} : StepsLeft(q)' = StepsLeft(q)]_vars
  BY EveryStepCosts, OthersKeepSteps
<1> QED
  BY <1>1, Bounded, PTL DEF Spec, EveryStepIsSpent

=============================================================================
