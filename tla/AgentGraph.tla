------------------------------ MODULE AgentGraph ------------------------------
(***************************************************************************)
(* The LangGraph tool-calling loop that answers one chat question           *)
(* (app/agent/graph.py, app/agent/nodes.py, app/agent/state.py):            *)
(*                                                                         *)
(*      agent --[the model asked for tools]--> call_tools --> agent ...     *)
(*            --[it did not]-----------------> END                          *)
(*                                                                         *)
(* Any number of invocations of the compiled graph run at once on the       *)
(* application's event loop; each has its own AgentState and no             *)
(* checkpointer, so nothing but the MCP connection is shared.  What the     *)
(* language model asks for and what the tools answer is chosen by the       *)
(* environment.                                                             *)
(***************************************************************************)
EXTENDS Integers, Sequences

CONSTANTS
  Requests,          \* invocations of the graph
  Customers,         \* customers an invocation can be about
  Names,             \* tool names the language model may produce
  Tools,             \* tools the MCP server advertises (Client.list_tools)
  Books,             \* versions of the bank's data a tool may read
  RecursionLimit,    \* nodes LangGraph runs before it gives up
  MaxCalls,          \* most tool calls in one model response
  Followers,         \* invocations whose model keeps to the bound schemas
  None               \* no customer yet

ASSUME AgentAssumption ==
  /\ Tools \subseteq Names
  /\ RecursionLimit \in Nat \ {0}
  /\ MaxCalls \in Nat
  /\ Followers \subseteq Requests
  /\ None \notin Customers

VARIABLES
  pc,          \* where each invocation is
  customerId,  \* AgentState["customer_id"]
  messages,    \* AgentState["messages"], append-only through add_messages
  toolResults, \* AgentState["tool_results"], a dict keyed by tool name
  steps,       \* nodes this invocation has completed
  batch,       \* call_tools' local tool_messages
  results      \* call_tools' local copy of tool_results

vars == <<pc, customerId, messages, toolResults, steps, batch, results>>

-----------------------------------------------------------------------------
(* The tools as the model sees them.                                        *)

ParamNames == {"customer_id", "loan_id"}

(* The one parameter each tool function of server.py declares.              *)
Param(tool) == IF tool = "get_loan_by_id" THEN "loan_id" ELSE "customer_id"

HiddenArgs == {"customer_id"}

ExposedTools ==
  {"get_active_loans", "get_overdue_payments", "calculate_dti",
   "get_customer_profile"}

(* Variants, which nothing below uses, stand before what they vary: a       *)
(* plausible slip in the code, named for what it does.                      *)
StripNothing(params) == params

StripHiddenArgs(params) == params \ HiddenArgs

(* The schemas bound to the model: the allowlisted tools that the server    *)
(* advertises, without the parameters the model must not see.               *)
BuildAgentTools ==
  {[name |-> t, params |-> StripHiddenArgs({Param(t)})] :
      t \in Tools \cap ExposedTools}

(* A value of a parameter stands for the customer it leads to: a customer   *)
(* id for itself, a loan id for the loan's owner.                           *)
Args == UNION {[D -> Customers] : D \in SUBSET ParamNames}

Calls == [name : Names, args : Args]

FitsSchema(call) ==
  \E schema \in BuildAgentTools :
     /\ call.name = schema.name
     /\ DOMAIN call.args \subseteq schema.params

Responses(calls) == UNION {[1..n -> calls] : n \in 0..MaxCalls}

AnyResponse == Responses(Calls)

FittingResponse == Responses({call \in Calls : FitsSchema(call)})

(* What the language model can ask for.                                     *)
LlmResponses(r) == IF r \in Followers THEN FittingResponse ELSE AnyResponse

(* {"customer_id": customer_id, **call["args"]}: a key that the model's     *)
(* arguments also hold keeps the model's value.                             *)
Arguments(customer, args) ==
  [p \in DOMAIN args \cup {"customer_id"} |->
     IF p \in DOMAIN args THEN args[p] ELSE customer]

-----------------------------------------------------------------------------
(* Messages and results.                                                    *)

SystemMessage == [kind |-> "system"]
HumanMessage == [kind |-> "human"]
AiMessage(calls) == [kind |-> "ai", calls |-> calls]

(* tool_call_id is the call's position among the response's calls.          *)
ToolMessage(k, name, data) ==
  [kind |-> "tool", id |-> k, name |-> name, data |-> data]

BuildInitialMessages == <<SystemMessage, HumanMessage>>

Data == [tool : Tools, who : Customers, book : Books]

Message ==
  {SystemMessage, HumanMessage}
    \cup [kind : {"ai"}, calls : Seq(Calls)]
    \cup [kind : {"tool"}, id : Nat, name : Names, data : Data]

NoResults == [t \in {} |-> None]

(* Variant: the first value stays.                                          *)
SetDefault(d, key, value) ==
  [k \in DOMAIN d \cup {key} |-> IF k \in DOMAIN d THEN d[k] ELSE value]

(* d[key] = value on a Python dict.                                         *)
SetItem(d, key, value) ==
  [k \in DOMAIN d \cup {key} |-> IF k = key THEN value ELSE d[k]]

(* LangGraph's add_messages, for messages that are all new.                 *)
AddMessages(old, new) == old \o new

LastMessage(r) == messages[r][Len(messages[r])]
PendingCalls(r) == LastMessage(r).calls

NextCall(r) == PendingCalls(r)[Len(batch[r]) + 1]

-----------------------------------------------------------------------------
Init ==
  /\ pc = [r \in Requests |-> "idle"]
  /\ customerId = [r \in Requests |-> None]
  /\ messages = [r \in Requests |-> <<>>]
  /\ toolResults = [r \in Requests |-> NoResults]
  /\ steps = [r \in Requests |-> 0]
  /\ batch = [r \in Requests |-> <<>>]
  /\ results = [r \in Requests |-> NoResults]

(* agent.ainvoke({"customer_id": ..., "messages": [system, human]}).        *)
Invoke(r, customer) ==
  /\ pc[r] = "idle"
  /\ pc' = [pc EXCEPT ![r] = "agent"]
  /\ customerId' = [customerId EXCEPT ![r] = customer]
  /\ messages' = [messages EXCEPT ![r] = BuildInitialMessages]
  /\ UNCHANGED <<toolResults, steps, batch, results>>

(* bool(last_message.tool_calls)                                            *)
AsksForTools(calls) == calls # <<>>

(* _route_after_agent: where the graph goes after a model response.  Going  *)
(* to call_tools copies the results dict and starts an empty message list.  *)
RouteAfterAgent(r, calls) ==
  \/ /\ ~AsksForTools(calls)
     /\ pc' = [pc EXCEPT ![r] = "answered"]
     /\ UNCHANGED <<batch, results>>
  \/ /\ AsksForTools(calls)
     /\ pc' = [pc EXCEPT ![r] = "tools"]
     /\ batch' = [batch EXCEPT ![r] = <<>>]
     /\ results' = [results EXCEPT ![r] = toolResults[r]]

(* agent_node: the model's response is appended to the conversation.        *)
AgentNode(r, calls) ==
  /\ pc[r] = "agent"
  /\ steps[r] < RecursionLimit
  /\ messages' = [messages EXCEPT ![r] = AddMessages(@, <<AiMessage(calls)>>)]
  /\ steps' = [steps EXCEPT ![r] = @ + 1]
  /\ RouteAfterAgent(r, calls)
  /\ UNCHANGED <<customerId, toolResults>>

(* The model call raises (no key, quota, network): ainvoke raises.          *)
LlmRaises(r) ==
  /\ pc[r] = "agent"
  /\ steps[r] < RecursionLimit
  /\ pc' = [pc EXCEPT ![r] = "failed"]
  /\ UNCHANGED <<customerId, messages, toolResults, steps, batch, results>>

(* call_tools awaits mcp_client.call_tool for its next call.                *)
SendCall(r) ==
  /\ pc[r] = "tools"
  /\ steps[r] < RecursionLimit
  /\ Len(batch[r]) < Len(PendingCalls(r))
  /\ pc' = [pc EXCEPT ![r] = "waiting"]
  /\ UNCHANGED <<customerId, messages, toolResults, steps, batch, results>>

(* What the tool reads for this call: the named tool of the server, run on  *)
(* the merged arguments, over whichever version of the data it sees.        *)
ToolAnswers(r) ==
  LET call == NextCall(r)
      arguments == Arguments(customerId[r], call.args)
  IN  {data \in Data : /\ data.tool = call.name
                       /\ Param(call.name) \in DOMAIN arguments
                       /\ data.who = arguments[Param(call.name)]}

(* The call returns: its result replaces an earlier one of the same tool in *)
(* the local dict, and its message joins the local list.                    *)
ToolReturns(r, data) ==
  /\ pc[r] = "waiting"
  /\ data \in ToolAnswers(r)
  /\ pc' = [pc EXCEPT ![r] = "tools"]
  /\ results' = [results EXCEPT ![r] = SetItem(@, NextCall(r).name, data)]
  /\ batch' = [batch EXCEPT ![r] =
                 Append(@, ToolMessage(Len(@) + 1, NextCall(r).name, data))]
  /\ UNCHANGED <<customerId, messages, toolResults, steps>>

(* Variant: the answers so far are kept.                                    *)
ToolRaisesKeepsBatch(r) ==
  /\ pc[r] = "waiting"
  /\ pc' = [pc EXCEPT ![r] = "failed"]
  /\ messages' = [messages EXCEPT ![r] = AddMessages(@, batch[r])]
  /\ UNCHANGED <<customerId, toolResults, steps, batch, results>>

(* Variant: the same call is made again.                                    *)
ToolRaisesRetries(r) ==
  /\ pc[r] = "waiting"
  /\ pc' = [pc EXCEPT ![r] = "tools"]
  /\ UNCHANGED <<customerId, messages, toolResults, steps, batch, results>>

(* The call raises (client not started, transport closed, tool error): the  *)
(* exception leaves call_tools and the whole invocation with it.            *)
ToolRaises(r) ==
  /\ pc[r] = "waiting"
  /\ pc' = [pc EXCEPT ![r] = "failed"]
  /\ UNCHANGED <<customerId, messages, toolResults, steps, batch, results>>

(* call_tools returns: only now do the batch's messages and results reach   *)
(* the graph's state; the edge leads back to the agent node.                *)
ReturnFromTools(r) ==
  /\ pc[r] = "tools"
  /\ steps[r] < RecursionLimit
  /\ Len(batch[r]) = Len(PendingCalls(r))
  /\ messages' = [messages EXCEPT ![r] = AddMessages(@, batch[r])]
  /\ toolResults' = [toolResults EXCEPT ![r] = results[r]]
  /\ steps' = [steps EXCEPT ![r] = @ + 1]
  /\ pc' = [pc EXCEPT ![r] = "agent"]
  /\ UNCHANGED <<customerId, batch, results>>

(* LangGraph refuses to start another node: GraphRecursionError.            *)
OutOfSteps(r) ==
  /\ pc[r] \in {"agent", "tools"}
  /\ steps[r] >= RecursionLimit
  /\ pc' = [pc EXCEPT ![r] = "failed"]
  /\ UNCHANGED <<customerId, messages, toolResults, steps, batch, results>>

(* Everything an invocation does once it has started.                       *)
Advance(r) ==
  \/ \E calls \in LlmResponses(r) : AgentNode(r, calls)
  \/ LlmRaises(r)
  \/ SendCall(r)
  \/ \E data \in Data : ToolReturns(r, data)
  \/ ToolRaises(r)
  \/ ReturnFromTools(r)
  \/ OutOfSteps(r)

Next ==
  \E r \in Requests :
     \/ \E customer \in Customers : Invoke(r, customer)
     \/ Advance(r)

Spec == Init /\ [][Next]_vars

(* The event loop, the model's API and the MCP server keep answering.       *)
FairSpec == Spec /\ \A r \in Requests : WF_vars(Advance(r))

-----------------------------------------------------------------------------
(* Properties.                                                              *)

IsResults(f) == DOMAIN f \subseteq Names /\ f \in [DOMAIN f -> Data]

(* Every variable keeps its type.                                           *)
TypeOK ==
  /\ pc \in [Requests ->
       {"idle", "agent", "tools", "waiting", "answered", "failed"}]
  /\ customerId \in [Requests -> Customers \cup {None}]
  /\ messages \in [Requests -> Seq(Message)]
  /\ DOMAIN toolResults = Requests
  /\ \A r \in Requests : IsResults(toolResults[r])
  /\ steps \in [Requests -> 0..RecursionLimit]
  /\ batch \in [Requests -> Seq(Message)]
  /\ DOMAIN results = Requests
  /\ \A r \in Requests : IsResults(results[r])

(* The messages msgs[at+1], ... that answer the first n calls.              *)
AnswersCalls(msgs, at, calls, n) ==
  \A k \in 1..n : /\ msgs[at + k].kind = "tool"
                  /\ msgs[at + k].id = k
                  /\ msgs[at + k].name = calls[k].name

(* Chat providers reject a conversation in which a tool call has no answer: *)
(* whenever the model is consulted, and at the end, every response that     *)
(* asked for tools is followed by the answers to exactly its calls, in      *)
(* order (nodes.py:127-140), and then by the next response.                 *)
WellPaired(msgs) ==
  \A i \in 1..(Len(msgs) - 1) :
     msgs[i].kind = "ai" =>
        LET n == Len(msgs[i].calls) IN
        /\ n > 0
        /\ i + n <= Len(msgs)
        /\ AnswersCalls(msgs, i, msgs[i].calls, n)
        /\ i + n < Len(msgs) => msgs[i + n + 1].kind = "ai"

TranscriptOK == \A r \in Requests : WellPaired(messages[r])

(* dict res holds, for exactly the tools msgs has answers of, the data of   *)
(* the last answer.                                                         *)
LatestAnswers(res, msgs) ==
  /\ \A i \in 1..Len(msgs) :
        msgs[i].kind = "tool" => msgs[i].name \in DOMAIN res
  /\ \A t \in DOMAIN res :
        \E i \in 1..Len(msgs) :
           /\ msgs[i].kind = "tool"
           /\ msgs[i].name = t
           /\ msgs[i].data = res[t]
           /\ \A j \in (i + 1)..Len(msgs) :
                 msgs[j].kind = "tool" => msgs[j].name # t

(* tool_results, which the endpoint returns as `data` and whose keys it     *)
(* returns as `tools_used`, always says what the conversation says: a batch *)
(* of which a call failed leaves no trace in either (nodes.py:124-140).     *)
ResultsAgree ==
  \A r \in Requests : LatestAnswers(toolResults[r], messages[r])

(* An invocation that ended normally ends on a model response without tool  *)
(* calls: messages[-1] is the text chat.py:35-38 returns.                   *)
AnswerIsFinal ==
  \A r \in Requests :
     pc[r] = "answered" =>
        /\ LastMessage(r).kind = "ai"
        /\ LastMessage(r).calls = <<>>

HoldsOwnData(r) ==
  /\ \A t \in DOMAIN toolResults[r] : toolResults[r][t].who = customerId[r]
  /\ \A t \in DOMAIN results[r] : results[r][t].who = customerId[r]
  /\ \A i \in 1..Len(messages[r]) :
        messages[r][i].kind = "tool" =>
           messages[r][i].data.who = customerId[r]

(* While the model keeps to its schemas, every tool result, committed or    *)
(* not, belongs to the customer the invocation is about (nodes.py:121-126). *)
OwnData == \A r \in Followers : HoldsOwnData(r)

(* "injecting customer_id server-side (never model-controlled)"             *)
(* (nodes.py:7-8): the same of every invocation, whatever its model asks.   *)
NeverModelControlled == \A r \in Requests : HoldsOwnData(r)

(* "Only these MCP tools are reachable by the agent" (nodes.py:41): while   *)
(* the model keeps to its schemas, nothing the conversation or the results  *)
(* hold comes from another tool.                                            *)
ExposedOnly ==
  \A r \in Followers :
     /\ DOMAIN toolResults[r] \cup DOMAIN results[r] \subseteq ExposedTools
     /\ \A i \in 1..Len(messages[r]) :
           messages[r][i].kind = "tool" => messages[r][i].name \in ExposedTools

(* Every started invocation ends, with an answer or an exception.           *)
EveryInvocationEnds ==
  \A r \in Requests :
     pc[r] = "agent" ~> pc[r] \in {"answered", "failed"}

-----------------------------------------------------------------------------
(* What makes the invariants above inductive.                               *)

InTools(r) == pc[r] \in {"tools", "waiting"}

(* call_tools works through the calls of the last response, in order: its   *)
(* local messages answer the first ones, and its local dict is what the     *)
(* conversation will say once they are appended.  Before the first response *)
(* and after a batch the model is asked, and there is nothing yet before.   *)
PhaseOK(r) ==
  /\ pc[r] = "idle" =>
        /\ messages[r] = <<>>
        /\ DOMAIN toolResults[r] = {}
        /\ DOMAIN results[r] = {}
  /\ pc[r] = "agent" => messages[r] # <<>> /\ LastMessage(r).kind # "ai"
  /\ InTools(r) =>
        /\ messages[r] # <<>>
        /\ LastMessage(r).kind = "ai"
        /\ PendingCalls(r) # <<>>
        /\ Len(batch[r]) <= Len(PendingCalls(r))
        /\ AnswersCalls(batch[r], 0, PendingCalls(r), Len(batch[r]))
        /\ LatestAnswers(results[r], messages[r] \o batch[r])
  /\ pc[r] = "waiting" => Len(batch[r]) < Len(PendingCalls(r))
  /\ pc[r] = "answered" =>
        /\ messages[r] # <<>>
        /\ LastMessage(r).kind = "ai"
        /\ LastMessage(r).calls = <<>>

LoopOK(r) ==
  /\ WellPaired(messages[r])
  /\ LatestAnswers(toolResults[r], messages[r])
  /\ PhaseOK(r)

LoopInv == \A r \in Requests : LoopOK(r)

(* With a model that follows the schemas: every call it still waits for     *)
(* fits them, and whatever was answered is the customer's and exposed.      *)
IsOwn(m, customer) == m.data.who = customer /\ m.name \in ExposedTools

OwnOK(r) ==
  /\ pc[r] = "idle" => /\ messages[r] = <<>>
                      /\ DOMAIN toolResults[r] = {}
                      /\ DOMAIN results[r] = {}
  /\ InTools(r) =>
        /\ messages[r] # <<>>
        /\ LastMessage(r).kind = "ai"
        /\ \A k \in 1..Len(PendingCalls(r)) : FitsSchema(PendingCalls(r)[k])
        /\ \A i \in 1..Len(batch[r]) :
              batch[r][i].kind = "tool" => IsOwn(batch[r][i], customerId[r])
  /\ pc[r] = "waiting" => Len(batch[r]) < Len(PendingCalls(r))
  /\ \A t \in DOMAIN toolResults[r] :
        toolResults[r][t].who = customerId[r] /\ t \in ExposedTools
  /\ \A t \in DOMAIN results[r] :
        results[r][t].who = customerId[r] /\ t \in ExposedTools
  /\ \A i \in 1..Len(messages[r]) :
        messages[r][i].kind = "tool" => IsOwn(messages[r][i], customerId[r])

OwnInv == \A r \in Followers : OwnOK(r)

=============================================================================
