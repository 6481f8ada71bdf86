-------------------------- MODULE ChatServiceProofs --------------------------
(***************************************************************************)
(* ChatService, for every set of requests and questions of the UI.          *)
(* AgentGraphProofs and McpClientProofs carry over: a step of ChatService   *)
(* is a step of each part, or leaves it alone.                              *)
(***************************************************************************)
EXTENDS ChatService, FiniteSetTheorems, TLAPS

AP == INSTANCE AgentGraphProofs WITH Requests <- Tasks
MP == INSTANCE McpClientProofs
        WITH Callers <- Tasks, HttpCallers <- Http, ServerTools <- Tools

-----------------------------------------------------------------------------
(* The parts' assumptions hold.                                             *)

LEMMA PartAssumptions == AP!AgentAssumption /\ MP!McpAssumption
BY ChatAssumption DEF AP!AgentAssumption, MP!McpAssumption, Tasks

(* ChatService and the theorems speak of the same parts.                    *)

LEMMA SameMcp ==
  /\ mcpVars = MP!vars
  /\ Mcp!Init => MP!Init
  /\ Mcp!Shutdown => MP!Next
  /\ ProcessStep => MP!Next
  /\ ChildStep => MP!Next
  /\ ProcessEnds => MP!Next
  /\ \A r \in Tasks : Mcp!CallTool(r) \/ Mcp!CallReturns(r) \/ Mcp!CallRaises(r) => MP!Next
<1> USE DEF MP!Next, MP!fields, Mcp!fields, MP!Launches, Mcp!Launches, MP!Running, Mcp!Running
<1>1. mcpVars = MP!vars
  BY DEF mcpVars, MP!vars
<1>2. Mcp!Init => MP!Init
  BY DEF Mcp!Init, MP!Init
<1>3. Mcp!Shutdown => MP!Next
  BY DEF Mcp!Shutdown, MP!Shutdown
<1>4. ProcessStep => MP!Next
  <2> USE DEF MP!LifespanStep
  <2>1. Mcp!Launch => MP!Next
    BY DEF Mcp!Launch, MP!Launch
  <2>2. Mcp!StartSpawns => MP!Next
    BY DEF Mcp!StartSpawns, MP!StartSpawns
  <2>3. Mcp!StartSpawnRaises => MP!Next
    BY DEF Mcp!StartSpawnRaises, MP!StartSpawnRaises
  <2>4. Mcp!StartLists => MP!Next
    BY DEF Mcp!StartLists, MP!StartLists, Mcp!Publish, MP!Publish
  <2>5. Mcp!StartListRaises => MP!Next
    BY DEF Mcp!StartListRaises, MP!StartListRaises
  <2>6. Mcp!StartAborts => MP!Next
    BY DEF Mcp!StartAborts, MP!StartAborts
  <2>7. Mcp!EnterHttp => MP!Next
    BY DEF Mcp!EnterHttp, MP!EnterHttp
  <2>8. Mcp!EnterHttpRaises => MP!Next
    BY DEF Mcp!EnterHttpRaises, MP!EnterHttpRaises
  <2> USE DEF Mcp!Unwinds, MP!Unwinds, Mcp!Top, MP!Top, Mcp!Pop, MP!Pop, Mcp!Clear, MP!Clear
  <2>9. Mcp!UnwindHttp => MP!Next
    BY DEF Mcp!UnwindHttp, MP!UnwindHttp
  <2>10. Mcp!StopCloses => MP!Next
    BY DEF Mcp!StopCloses, MP!StopCloses
  <2>11. Mcp!StopClears => MP!Next
    BY DEF Mcp!StopClears, MP!StopClears
  <2>12. Mcp!StopRaises => MP!Next
    BY DEF Mcp!StopRaises, MP!StopRaises
  <2> QED
    BY <2>1, <2>2, <2>3, <2>4, <2>5, <2>6, <2>7, <2>8, <2>9, <2>10, <2>11, <2>12
       DEF ProcessStep
<1>5. ChildStep => MP!Next
  BY DEF ChildStep, Mcp!ChildDies, Mcp!ChildSeesEof, Mcp!ChildExits,
         MP!ChildDies, MP!ChildSeesEof, MP!ChildExits
<1>6. ProcessEnds => MP!Next
  BY DEF ProcessEnds, Mcp!LifespanEnds, Mcp!Crash, Mcp!Exit, Mcp!Clear,
         MP!LifespanStep, MP!LifespanEnds, MP!Crash, MP!Exit, MP!Clear
<1>7. ASSUME NEW r \in Tasks, Mcp!CallTool(r) \/ Mcp!CallReturns(r) \/ Mcp!CallRaises(r)
      PROVE  MP!Next
  BY <1>7 DEF Mcp!CallTool, Mcp!CallReturns, Mcp!CallRaises, Mcp!Serves,
              MP!CallTool, MP!CallEnds, MP!CallReturns, MP!CallRaises, MP!Serves
<1> QED
  BY <1>1, <1>2, <1>3, <1>4, <1>5, <1>6, <1>7

LEMMA SameAgent ==
  /\ agentVars = AP!vars
  /\ Agent!Init => AP!Init
  /\ \A r \in Tasks :
       /\ \A c \in Customers : Agent!Invoke(r, c) => AP!Next
       /\ \A response \in Agent!LlmResponses(r) : Agent!AgentNode(r, response) => AP!Next
       /\ Agent!LlmRaises(r) => AP!Next
       /\ Agent!SendCall(r) => AP!Next
       /\ \A data \in Agent!Data : Agent!ToolReturns(r, data) => AP!Next
       /\ Agent!ToolRaises(r) => AP!Next
       /\ Agent!ReturnFromTools(r) => AP!Next
       /\ Agent!OutOfSteps(r) => AP!Next
<1>1. agentVars = AP!vars
  BY DEF agentVars, AP!vars
<1>2. Agent!Init => AP!Init
  BY DEF Agent!Init, AP!Init, Agent!NoResults, AP!NoResults
<1>3. \A r \in Tasks : Agent!LlmResponses(r) = AP!LlmResponses(r)
  <2>1. Agent!Calls = AP!Calls
    BY DEF Agent!Calls, AP!Calls, Agent!Args, AP!Args, Agent!ParamNames, AP!ParamNames
  <2>2. Agent!BuildAgentTools = AP!BuildAgentTools
    BY DEF Agent!BuildAgentTools, AP!BuildAgentTools, Agent!StripHiddenArgs, AP!StripHiddenArgs,
           Agent!HiddenArgs, AP!HiddenArgs, Agent!Param, AP!Param,
           Agent!ExposedTools, AP!ExposedTools
  <2>3. \A call : Agent!FitsSchema(call) <=> AP!FitsSchema(call)
    BY <2>2 DEF Agent!FitsSchema, AP!FitsSchema
  <2>4. Agent!AnyResponse = AP!AnyResponse
    BY <2>1 DEF Agent!AnyResponse, AP!AnyResponse, Agent!Responses, AP!Responses
  <2>5. {c \in Agent!Calls : Agent!FitsSchema(c)} = {c \in AP!Calls : AP!FitsSchema(c)}
    BY <2>1, <2>3
  <2>6. Agent!FittingResponse = AP!FittingResponse
    BY <2>5 DEF Agent!FittingResponse, AP!FittingResponse, Agent!Responses, AP!Responses
  <2> QED
    BY <2>4, <2>6 DEF Agent!LlmResponses, AP!LlmResponses
<1>4. Agent!Data = AP!Data
  BY DEF Agent!Data, AP!Data
<1> USE DEF AP!Next, AP!Advance
<1> SUFFICES ASSUME NEW r \in Tasks
    PROVE /\ \A c \in Customers : Agent!Invoke(r, c) => AP!Next
          /\ \A response \in Agent!LlmResponses(r) : Agent!AgentNode(r, response) => AP!Next
          /\ Agent!LlmRaises(r) => AP!Next
          /\ Agent!SendCall(r) => AP!Next
          /\ \A data \in Agent!Data : Agent!ToolReturns(r, data) => AP!Next
          /\ Agent!ToolRaises(r) => AP!Next
          /\ Agent!ReturnFromTools(r) => AP!Next
          /\ Agent!OutOfSteps(r) => AP!Next
  BY <1>1, <1>2
<1>5. ASSUME NEW c \in Customers, Agent!Invoke(r, c) PROVE AP!Next
  <2>1. AP!Invoke(r, c)
    BY <1>5 DEF Agent!Invoke, AP!Invoke, Agent!BuildInitialMessages, AP!BuildInitialMessages,
       Agent!SystemMessage, AP!SystemMessage, Agent!HumanMessage, AP!HumanMessage
  <2> QED
    BY <2>1
<1>6. ASSUME NEW response \in Agent!LlmResponses(r), Agent!AgentNode(r, response) PROVE AP!Next
  <2>1. AP!AgentNode(r, response)
    BY <1>6 DEF Agent!AgentNode, AP!AgentNode, Agent!AddMessages, AP!AddMessages,
       Agent!AiMessage, AP!AiMessage, Agent!RouteAfterAgent, AP!RouteAfterAgent,
       Agent!AsksForTools, AP!AsksForTools
  <2> QED
    BY <1>3, <2>1
<1>7. ASSUME Agent!LlmRaises(r) PROVE AP!Next
  <2>1. AP!LlmRaises(r)
    BY <1>7 DEF Agent!LlmRaises, AP!LlmRaises
  <2> QED
    BY <2>1
<1>8. Agent!PendingCalls(r) = AP!PendingCalls(r) /\ Agent!NextCall(r) = AP!NextCall(r)
  BY DEF Agent!PendingCalls, AP!PendingCalls, Agent!LastMessage, AP!LastMessage,
         Agent!NextCall, AP!NextCall
<1>9. ASSUME Agent!SendCall(r) PROVE AP!Next
  <2>1. AP!SendCall(r)
    BY <1>8, <1>9 DEF Agent!SendCall, AP!SendCall
  <2> QED
    BY <2>1
<1>10. ASSUME NEW data \in Agent!Data, Agent!ToolReturns(r, data) PROVE AP!Next
  <2>1. Agent!ToolAnswers(r) = AP!ToolAnswers(r)
    BY <1>4, <1>8 DEF Agent!ToolAnswers, AP!ToolAnswers, Agent!Arguments, AP!Arguments,
       Agent!Param, AP!Param
  <2>2. AP!ToolReturns(r, data)
    BY <1>8, <1>10, <2>1 DEF Agent!ToolReturns, AP!ToolReturns, Agent!SetItem, AP!SetItem,
       Agent!ToolMessage, AP!ToolMessage
  <2> QED
    BY <1>4, <2>2
<1>11. ASSUME Agent!ToolRaises(r) PROVE AP!Next
  <2>1. AP!ToolRaises(r)
    BY <1>11 DEF Agent!ToolRaises, AP!ToolRaises
  <2> QED
    BY <2>1
<1>12. ASSUME Agent!ReturnFromTools(r) PROVE AP!Next
  <2>1. AP!ReturnFromTools(r)
    BY <1>8, <1>12 DEF Agent!ReturnFromTools, AP!ReturnFromTools,
       Agent!AddMessages, AP!AddMessages
  <2> QED
    BY <2>1
<1>13. ASSUME Agent!OutOfSteps(r) PROVE AP!Next
  <2>1. AP!OutOfSteps(r)
    BY <1>13 DEF Agent!OutOfSteps, AP!OutOfSteps
  <2> QED
    BY <2>1
<1> QED
  BY <1>5, <1>6, <1>7, <1>9, <1>10, <1>11, <1>12, <1>13

-----------------------------------------------------------------------------
(* Projections.                                                             *)

(* What a task does outside its invocation leaves both parts alone.         *)
Alone(r) ==
  \/ AgentCached(r) \/ AgentMissed(r) \/ AgentBuilt(r) \/ BuildRaises(r)
  \/ InvalidBody(r) \/ Query(r) \/ Checkout(r) \/ CheckoutTimesOut(r)
  \/ LookupRaises(r) \/ CustomerMissing(r) \/ Answer(r) \/ Fail(r) \/ CloseSession(r)

LEMMA AloneFrame ==
  /\ \A r \in Tasks : Alone(r) => UNCHANGED agentVars /\ UNCHANGED mcpVars
  /\ \A r \in Tasks : \A c \in Customers :
        Ask(r, c) => UNCHANGED agentVars /\ UNCHANGED mcpVars
BY DEF Alone, AgentCached, AgentMissed, AgentBuilt, BuildRaises, InvalidBody, Query,
       Checkout, CheckoutTimesOut, LookupRaises, CustomerMissing, Answer, Fail,
       CloseSession, Decide, Ask

LEMMA Steps ==
  Next <=> \/ \E r \in Tasks : \E c \in Customers : Ask(r, c)
           \/ \E r \in Tasks : Alone(r) \/ StartAgent(r) \/ RunAgent(r)
           \/ Shutdown \/ ProcessStep \/ ChildStep \/ ProcessEnds
BY DEF Next, TaskStep, Alone

(* Only a task with a customer starts the agent.                            *)
LEMMA AloneMoves ==
  ASSUME NEW r \in Tasks, Alone(r) \/ StartAgent(r)
  PROVE  /\ about' = about
         /\ route[r] \notin Ended
         /\ \E place \in Places \ {"idle", "lost"} : Goto(r, place)
<1> USE DEF Places, Ended
<1>1. CASE StartAgent(r)
  BY <1>1 DEF StartAgent, MayInvoke
<1>2. CASE AgentCached(r) \/ AgentMissed(r) \/ AgentBuilt(r)
  BY <1>2 DEF AgentCached, AgentMissed, AgentBuilt, MayBuild
<1>3. ASSUME NEW code, Decide(r, code)
      PROVE  about' = about /\ Goto(r, "leaving")
  BY <1>3 DEF Decide
<1>4. CASE \/ BuildRaises(r) \/ InvalidBody(r) \/ CheckoutTimesOut(r) \/ LookupRaises(r)
           \/ CustomerMissing(r) \/ Answer(r) \/ Fail(r)
  BY <1>3, <1>4 DEF BuildRaises, MayBuild, InvalidBody, CheckoutTimesOut, LookupRaises,
                    CustomerMissing, Answer, Fail
<1>5. CASE Query(r) \/ Checkout(r) \/ CloseSession(r)
  BY <1>5 DEF Query, Checkout, CloseSession
<1> QED
  BY <1>1, <1>2, <1>4, <1>5 DEF Alone

Asked ==
  /\ about \in [Tasks -> Customers \cup {None}]
  /\ route \in [Tasks -> Places]
  /\ AboutOK

LEMMA AboutStep == Asked /\ [Next]_vars => Asked'
<1> SUFFICES ASSUME Asked, [Next]_vars PROVE Asked'
  OBVIOUS
<1> USE DEF Asked, AboutOK
<1>1. ASSUME NEW r \in Tasks, NEW c \in Customers, Ask(r, c) PROVE Asked'
  BY <1>1 DEF Ask, Goto, Places
<1>2. ASSUME NEW r \in Tasks, Alone(r) \/ StartAgent(r) PROVE Asked'
  BY <1>2, AloneMoves DEF Goto, Ended
<1>3. ASSUME NEW r \in Tasks, RunAgent(r) PROVE Asked'
  BY <1>3 DEF RunAgent, chatVars
<1>4. CASE Shutdown \/ ProcessStep \/ ChildStep \/ UNCHANGED vars
  BY <1>4 DEF Shutdown, ProcessStep, ChildStep, vars, chatVars
<1>5. CASE ProcessEnds
  BY <1>5 DEF ProcessEnds, InProgress, Ended, Places
<1> QED
  BY <1>1, <1>2, <1>3, <1>4, <1>5, Steps

LEMMA McpProjection == [Next]_vars => [MP!Next]_(MP!vars)
<1> SUFFICES ASSUME [Next]_vars PROVE MP!Next \/ UNCHANGED mcpVars
  BY DEF mcpVars, MP!vars
<1>1. ASSUME NEW r \in Tasks, StartAgent(r) PROVE UNCHANGED mcpVars
  BY <1>1 DEF StartAgent
<1>2. ASSUME NEW r \in Tasks, RunAgent(r) PROVE MP!Next \/ UNCHANGED mcpVars
  <2>1. Think(r) => UNCHANGED mcpVars
    BY DEF Think
  <2> QED
    BY <1>2, <2>1, SameMcp DEF RunAgent, SendCall, ToolReturns, ToolRaises
<1>3. Shutdown => MP!Next
  BY SameMcp DEF Shutdown
<1>4. CASE UNCHANGED vars
  BY <1>4 DEF vars
<1> QED
  BY <1>1, <1>2, <1>3, <1>4, Steps, AloneFrame, SameMcp

LEMMA AgentProjection == AboutOK /\ [Next]_vars => [AP!Next]_(AP!vars)
<1> SUFFICES ASSUME AboutOK, [Next]_vars PROVE AP!Next \/ UNCHANGED agentVars
  BY DEF agentVars, AP!vars
<1>1. ASSUME NEW r \in Tasks, StartAgent(r) PROVE AP!Next
  <2>1. about[r] \in Customers
    BY <1>1 DEF AboutOK, StartAgent, MayInvoke
  <2> QED
    BY <1>1, <2>1, SameAgent DEF StartAgent
<1>2. ASSUME NEW r \in Tasks, RunAgent(r) PROVE AP!Next
  <2>1. Think(r) => AP!Next
    BY SameAgent DEF Think
  <2>2. SendCall(r) \/ ToolReturns(r) \/ ToolRaises(r) => AP!Next
    BY SameAgent DEF SendCall, ToolReturns, ToolRaises
  <2> QED
    BY <1>2, <2>1, <2>2 DEF RunAgent
<1>3. Shutdown \/ ProcessStep \/ ChildStep \/ ProcessEnds => UNCHANGED agentVars
  BY DEF Shutdown, ProcessStep, ChildStep, ProcessEnds
<1>4. CASE UNCHANGED vars
  BY <1>4 DEF vars
<1> QED
  BY <1>1, <1>2, <1>3, <1>4, Steps, AloneFrame

(* Each part behaves as its own module says.                                *)
THEOREM RunsMcpClient == Spec => MP!Spec
<1>1. Init => MP!Init
  BY SameMcp DEF Init
<1> QED
  BY <1>1, McpProjection, PTL DEF Spec, MP!Spec

LEMMA AskedAlways == Spec => []Asked
<1>1. Init => Asked
  BY DEF Init, Asked, AboutOK, Places
<1> QED
  BY <1>1, AboutStep, PTL DEF Spec

THEOREM RunsAgentGraph == Spec => AP!Spec
<1>1. Init => AP!Init
  BY SameAgent DEF Init
<1>2. Asked /\ [Next]_vars => [AP!Next]_(AP!vars)
  BY AgentProjection DEF Asked
<1> QED
  BY <1>1, <1>2, AskedAlways, PTL DEF Spec, AP!Spec

-----------------------------------------------------------------------------
(* What the parts' theorems say here.                                       *)

McpFacts ==
  /\ lifespan = "serving" => client = launch /\ tools = Tools
  /\ tools \in {{}, Tools}
  /\ calls \in [Tasks -> {"idle", "sent", "refused"}]

AgentFacts ==
  /\ pc \in [Tasks -> {"idle", "agent", "tools", "waiting", "answered", "failed"}]
  /\ customerId \in [Tasks -> Customers \cup {None}]
  /\ DOMAIN toolResults = Tasks
  /\ \A r \in Tasks : DOMAIN toolResults[r] \subseteq Names
                       /\ toolResults[r] \in [DOMAIN toolResults[r] -> Agent!Data]

LEMMA PartFacts == Spec => [](McpFacts /\ AgentFacts)
<1>1. MP!TypeOK /\ MP!ServingIsReady => McpFacts
  BY DEF MP!TypeOK, MP!ServingIsReady, McpFacts
<1>2. AP!TypeOK => AgentFacts
  BY DEF AP!TypeOK, AP!IsResults, AgentFacts, AP!Data, Agent!Data
<1>3. MP!Spec => []MP!TypeOK
  BY MP!TypeCorrect, PartAssumptions
<1>4. MP!Spec => []MP!ServingIsReady
  BY MP!Ready, PartAssumptions
<1>5. AP!Spec => []AP!TypeOK
  BY AP!TypeCorrect, PartAssumptions
<1> QED
  BY <1>1, <1>2, <1>3, <1>4, <1>5, RunsMcpClient, RunsAgentGraph, PTL

-----------------------------------------------------------------------------
(* What the steps of the parts do to what the invariant looks at.           *)

LEMMA RunMoves ==
  ASSUME NEW r \in Tasks, RunAgent(r)
  PROVE  /\ route[r] = "running"
         /\ UNCHANGED chatVars /\ customerId' = customerId /\ lifespan' = lifespan
         /\ \/ /\ pc[r] # "waiting" /\ calls' = calls
               /\ \E place \in {"agent", "tools", "answered", "failed"} :
                     pc' = [pc EXCEPT ![r] = place]
            \/ /\ pc' = [pc EXCEPT ![r] = "waiting"]
               /\ \E call \in {"sent", "refused"} : calls' = [calls EXCEPT ![r] = call]
            \/ /\ \E place \in {"tools", "failed"} : pc' = [pc EXCEPT ![r] = place]
               /\ calls' = [calls EXCEPT ![r] = "idle"]
<1>1. CASE Think(r)
  <2>1. UNCHANGED mcpVars
    BY <1>1 DEF Think
  <2>2. ASSUME NEW response, Agent!AgentNode(r, response)
        PROVE  /\ pc[r] = "agent" /\ customerId' = customerId
               /\ \/ pc' = [pc EXCEPT ![r] = "answered"]
                  \/ pc' = [pc EXCEPT ![r] = "tools"]
    BY <2>2 DEF Agent!AgentNode, Agent!RouteAfterAgent
  <2>3. ASSUME Agent!LlmRaises(r) \/ Agent!ReturnFromTools(r) \/ Agent!OutOfSteps(r)
        PROVE  /\ pc[r] \in {"agent", "tools"} /\ customerId' = customerId
               /\ \/ pc' = [pc EXCEPT ![r] = "failed"]
                  \/ pc' = [pc EXCEPT ![r] = "agent"]
    BY <2>3 DEF Agent!LlmRaises, Agent!ReturnFromTools, Agent!OutOfSteps
  <2>4. \/ \E response : Agent!AgentNode(r, response)
        \/ Agent!LlmRaises(r) \/ Agent!ReturnFromTools(r) \/ Agent!OutOfSteps(r)
    BY <1>1 DEF Think
  <2> QED
    BY <2>1, <2>2, <2>3, <2>4 DEF RunAgent, mcpVars
<1>2. CASE SendCall(r)
  BY <1>2 DEF SendCall, Agent!SendCall, Mcp!CallTool, RunAgent
<1>3. CASE ToolReturns(r)
  BY <1>3 DEF ToolReturns, Agent!ToolReturns, Mcp!CallReturns, RunAgent
<1>4. CASE ToolRaises(r)
  BY <1>4 DEF ToolRaises, Agent!ToolRaises, Mcp!CallRaises, RunAgent
<1> QED
  BY <1>1, <1>2, <1>3, <1>4 DEF RunAgent

LEMMA ProcessMoves ==
  ASSUME ProcessStep \/ ChildStep
  PROVE  /\ UNCHANGED agentVars /\ UNCHANGED chatVars /\ calls' = calls
         /\ lifespan = "serving" => lifespan' = "serving"
         /\ lifespan' \in Early => lifespan \in Early
         /\ lifespan' = "serving" => lifespan \in Early \cup {"serving"}
<1> USE DEF Early
<1>1. CASE ChildStep
  BY <1>1 DEF ChildStep, Mcp!ChildDies, Mcp!ChildSeesEof, Mcp!ChildExits
<1>2. CASE ProcessStep
  BY <1>2 DEF ProcessStep, Mcp!Launch, Mcp!Running, Mcp!StartSpawns, Mcp!StartSpawnRaises,
     Mcp!StartLists, Mcp!StartListRaises, Mcp!StartAborts, Mcp!EnterHttp, Mcp!EnterHttpRaises,
     Mcp!UnwindHttp, Mcp!StopCloses, Mcp!StopClears, Mcp!StopRaises, Mcp!Unwinds
<1> QED
  BY <1>1, <1>2

LEMMA ShutdownMoves ==
  ASSUME Shutdown
  PROVE  /\ UNCHANGED agentVars /\ UNCHANGED chatVars /\ calls' = calls
         /\ lifespan' = "unwinding" /\ \A r \in Http : ~InProgress(r)
BY DEF Shutdown, Mcp!Shutdown

LEMMA EndMoves ==
  ASSUME ProcessEnds
  PROVE  /\ UNCHANGED agentVars /\ calls' = [r \in Tasks |-> "idle"]
         /\ lifespan' = "down"
BY DEF ProcessEnds, Mcp!LifespanEnds, Mcp!Crash, Mcp!Exit

-----------------------------------------------------------------------------
(* The invariant, part by part.                                             *)

Inv == TypeOK /\ ChatInv

LEMMA TypeStep == TypeOK /\ McpFacts /\ [Next]_vars => TypeOK'
<1> SUFFICES ASSUME TypeOK, McpFacts, [Next]_vars PROVE TypeOK'
  OBVIOUS
<1> USE DEF TypeOK, Places, Goto
<1>1. ASSUME NEW r \in Tasks, NEW c \in Customers, Ask(r, c) PROVE TypeOK'
  BY <1>1 DEF Ask
<1>2. ASSUME NEW r \in Tasks, AgentCached(r) \/ AgentMissed(r) PROVE TypeOK'
  <2>1. CASE AgentCached(r)
    <3>1. cache \in Nat
      OBVIOUS
    <3> QED
      BY <2>1, <3>1 DEF AgentCached
  <2>2. CASE AgentMissed(r)
    BY <2>2 DEF AgentMissed
  <2> QED
    BY <1>2, <2>1, <2>2
<1>3. ASSUME NEW r \in Tasks, AgentBuilt(r) PROVE TypeOK'
  <2>1. /\ agents' \in Seq({{}, Tools}) /\ Len(agents') = Len(agents) + 1
    BY <1>3 DEF AgentBuilt, McpFacts
  <2>2. Len(agents) \in Nat
    OBVIOUS
  <2> QED
    BY <1>3, <2>1, <2>2 DEF AgentBuilt
<1>4. ASSUME NEW r \in Tasks, NEW code \in {200, 404, 422, 500}, Decide(r, code) PROVE TypeOK'
  BY <1>4 DEF Decide
<1>5. ASSUME NEW r \in Tasks,
             \/ BuildRaises(r) \/ InvalidBody(r) \/ CheckoutTimesOut(r) \/ LookupRaises(r)
             \/ CustomerMissing(r) \/ Answer(r) \/ Fail(r)
      PROVE  TypeOK'
  BY <1>4, <1>5 DEF BuildRaises, InvalidBody, CheckoutTimesOut, LookupRaises,
                    CustomerMissing, Answer, Fail
<1>6. ASSUME NEW r \in Tasks, Query(r) \/ Checkout(r) \/ CloseSession(r) \/ StartAgent(r)
      PROVE  TypeOK'
  <2>1. CASE Query(r)
    BY <2>1 DEF Query
  <2>2. CASE Checkout(r)
    BY <2>2 DEF Checkout
  <2>3. CASE CloseSession(r)
    BY <2>3 DEF CloseSession
  <2>4. CASE StartAgent(r)
    BY <2>4 DEF StartAgent
  <2> QED
    BY <1>6, <2>1, <2>2, <2>3, <2>4
<1>7. ASSUME NEW r \in Tasks, RunAgent(r) PROVE TypeOK'
  BY <1>7 DEF RunAgent, chatVars
<1>8. CASE Shutdown \/ ProcessStep \/ ChildStep \/ UNCHANGED vars
  BY <1>8 DEF Shutdown, ProcessStep, ChildStep, vars, chatVars
<1>9. CASE ProcessEnds
  BY <1>9 DEF ProcessEnds, Fresh
<1> QED
  BY <1>1, <1>2, <1>3, <1>5, <1>6, <1>7, <1>8, <1>9, Steps DEF Alone

(* A status is decided once.                                                *)
LEMMA StatusStep == TypeOK /\ StatusOK /\ [Next]_vars => StatusOK'
<1> SUFFICES ASSUME TypeOK, StatusOK, [Next]_vars PROVE StatusOK'
  OBVIOUS
<1> USE DEF TypeOK, StatusOK, Goto, Undecided
<1>0. None \notin {200, 404, 422, 500}
  BY ChatAssumption
<1>1. ASSUME NEW r \in Tasks, NEW c \in Customers, Ask(r, c) PROVE StatusOK'
  BY <1>1 DEF Ask
<1>2. ASSUME NEW r \in Tasks,
             \/ AgentCached(r) \/ AgentMissed(r) \/ AgentBuilt(r) \/ Query(r) \/ Checkout(r)
             \/ StartAgent(r)
      PROVE  StatusOK'
  BY <1>2 DEF AgentCached, AgentMissed, AgentBuilt, MayBuild, Query, Checkout, StartAgent,
              MayInvoke
<1>3. ASSUME NEW r \in Tasks, NEW code \in {200, 404, 422, 500}, Decide(r, code) PROVE StatusOK'
  BY <1>0, <1>3 DEF Decide
<1>4. ASSUME NEW r \in Tasks,
             \/ BuildRaises(r) \/ InvalidBody(r) \/ CheckoutTimesOut(r) \/ LookupRaises(r)
             \/ CustomerMissing(r) \/ Answer(r) \/ Fail(r)
      PROVE  StatusOK'
  BY <1>3, <1>4 DEF BuildRaises, InvalidBody, CheckoutTimesOut, LookupRaises,
                    CustomerMissing, Answer, Fail
<1>5. ASSUME NEW r \in Tasks, CloseSession(r) PROVE StatusOK'
  BY <1>5 DEF CloseSession
<1>6. ASSUME NEW r \in Tasks, RunAgent(r) PROVE StatusOK'
  BY <1>6 DEF RunAgent, chatVars
<1>7. CASE Shutdown \/ ProcessStep \/ ChildStep \/ UNCHANGED vars
  BY <1>7 DEF Shutdown, ProcessStep, ChildStep, vars, chatVars
<1>8. CASE ProcessEnds
  BY <1>8 DEF ProcessEnds
<1> QED
  BY <1>1, <1>2, <1>4, <1>5, <1>6, <1>7, <1>8, Steps DEF Alone

(* A request begins while the process serves, and keeps it serving.         *)
LEMMA ServingStep == TypeOK /\ ServingOK /\ [Next]_vars => ServingOK'
<1> SUFFICES ASSUME TypeOK, ServingOK, [Next]_vars PROVE ServingOK'
  OBVIOUS
<1> USE DEF TypeOK, ServingOK, InProgress, Ended
<1>0. Http \subseteq Tasks
  BY DEF Tasks
<1>1. ASSUME NEW r \in Tasks, NEW c \in Customers, Ask(r, c) PROVE ServingOK'
  <2>1. lifespan' = lifespan /\ (r \in Http => lifespan = "serving")
    BY <1>1 DEF Ask, Mcp!Serves, mcpVars
  <2> QED
    BY <1>0, <1>1, <2>1 DEF Ask, Goto
<1>2. ASSUME NEW r \in Tasks, Alone(r) \/ StartAgent(r) PROVE ServingOK'
  <2>1. lifespan' = lifespan
    BY <1>2, AloneFrame DEF mcpVars, StartAgent
  <2> QED
    BY <1>0, <1>2, <2>1, AloneMoves DEF Goto
<1>3. ASSUME NEW r \in Tasks, RunAgent(r) PROVE ServingOK'
  BY <1>3, RunMoves DEF chatVars
<1>4. CASE Shutdown
  BY <1>4, ShutdownMoves DEF chatVars
<1>5. CASE ProcessStep \/ ChildStep
  BY <1>5, ProcessMoves DEF chatVars
<1>6. CASE ProcessEnds
  BY <1>0, <1>6 DEF ProcessEnds
<1>7. CASE UNCHANGED vars
  BY <1>7 DEF vars, chatVars, mcpVars
<1> QED
  BY <1>1, <1>2, <1>3, <1>4, <1>5, <1>6, <1>7, Steps

(* Every agent a request runs knows the tools.                              *)
LEMMA AgentsStep == TypeOK /\ McpFacts /\ AgentsOK /\ [Next]_vars => AgentsOK'
<1> SUFFICES ASSUME TypeOK, McpFacts, AgentsOK, [Next]_vars PROVE AgentsOK'
  OBVIOUS
<1> USE DEF TypeOK, AgentsOK, InProgress, Ended, HasAgent
<1>1. ASSUME NEW r \in Tasks, NEW c \in Customers, Ask(r, c) PROVE AgentsOK'
  <2>1. lifespan' = lifespan /\ lifespan \notin Early
    BY <1>1 DEF Ask, Mcp!Serves, mcpVars, Early
  <2> QED
    BY <1>1, <2>1 DEF Ask, Goto
<1>2. ASSUME NEW r \in Tasks, Alone(r) \/ StartAgent(r) PROVE lifespan' = lifespan /\ lifespan \notin Early
  BY <1>2, AloneFrame, AloneMoves DEF mcpVars, StartAgent
<1>3. ASSUME NEW r \in Tasks, AgentBuilt(r) PROVE AgentsOK'
  <2>1. lifespan' = lifespan /\ lifespan \notin Early
    BY <1>2, <1>3 DEF Alone
  <2>2. /\ Len(agents) \in Nat /\ Len(agents') = Len(agents) + 1
        /\ \A i \in 1..Len(agents) : agents'[i] = agents[i]
        /\ agents'[Len(agents) + 1] = tools
        /\ agent' = [agent EXCEPT ![r] = Len(agents')]
        /\ route' = [route EXCEPT ![r] = "bound"]
    BY <1>3 DEF AgentBuilt, Goto, McpFacts
  <2>3. ASSUME lifespan = "serving", NEW i \in 1..Len(agents') PROVE agents'[i] = Tools
    <3>1. CASE i = Len(agents) + 1
      BY <2>2, <2>3, <3>1 DEF McpFacts
    <3>2. CASE i \in 1..Len(agents)
      BY <2>2, <2>3, <3>2
    <3> QED
      BY <2>2, <3>1, <3>2
  <2>4. ASSUME NEW q \in Tasks, route'[q] \in {"bound", "querying", "reading", "running"}
        PROVE  agent'[q] \in 1..Len(agents')
    <3>1. CASE q = r
      BY <2>2, <3>1
    <3>2. CASE q # r
      BY <2>2, <2>4, <3>2
    <3> QED
      BY <3>1, <3>2
  <2> QED
    BY <2>1, <2>3, <2>4
<1>4. ASSUME NEW r \in Tasks, AgentCached(r) PROVE AgentsOK'
  <2>1. lifespan' = lifespan /\ lifespan \notin Early
    BY <1>2, <1>4 DEF Alone
  <2>2. cache \in 1..Len(agents)
    BY <1>4 DEF AgentCached
  <2> QED
    BY <1>4, <2>1, <2>2 DEF AgentCached, Goto
<1>5. ASSUME NEW r \in Tasks, Alone(r) \/ StartAgent(r), ~AgentBuilt(r), ~AgentCached(r)
      PROVE  AgentsOK'
  <2>1. lifespan' = lifespan /\ lifespan \notin Early
    BY <1>2, <1>5
  <2>2. ASSUME NEW code, Decide(r, code)
        PROVE  agents' = agents /\ agent' = agent /\ route' = [route EXCEPT ![r] = "leaving"]
    BY <2>2 DEF Decide, Goto
  <2>3. CASE \/ BuildRaises(r) \/ InvalidBody(r) \/ CheckoutTimesOut(r) \/ LookupRaises(r)
             \/ CustomerMissing(r) \/ Answer(r) \/ Fail(r)
    <3>1. agents' = agents /\ agent' = agent /\ route' = [route EXCEPT ![r] = "leaving"]
      BY <2>2, <2>3 DEF BuildRaises, InvalidBody, CheckoutTimesOut, LookupRaises,
                        CustomerMissing, Answer, Fail
    <3> QED
      BY <2>1, <3>1
  <2>4. CASE AgentMissed(r) \/ Query(r) \/ Checkout(r) \/ CloseSession(r) \/ StartAgent(r)
    BY <2>1, <2>4 DEF AgentMissed, Query, Checkout, CloseSession, StartAgent, MayInvoke, Goto
  <2> QED
    BY <1>5, <2>3, <2>4 DEF Alone
<1>6. ASSUME NEW r \in Tasks, RunAgent(r) PROVE AgentsOK'
  BY <1>6, RunMoves DEF chatVars
<1>7. CASE Shutdown
  BY <1>7, ShutdownMoves DEF chatVars, Early
<1>8. CASE ProcessStep \/ ChildStep
  <2>1. /\ agents' = agents /\ route' = route /\ agent' = agent
        /\ lifespan' \in Early => lifespan \in Early
        /\ lifespan' = "serving" => lifespan \in Early \cup {"serving"}
    BY <1>8, ProcessMoves DEF chatVars
  <2> QED
    BY <2>1
<1>9. CASE ProcessEnds
  BY <1>9, EndMoves DEF ProcessEnds, Fresh
<1>10. CASE UNCHANGED vars
  BY <1>10 DEF vars, chatVars, mcpVars
<1> QED
  BY <1>1, <1>3, <1>4, <1>5, <1>6, <1>7, <1>8, <1>9, <1>10, Steps

(* A task waits exactly while its call is in flight.                        *)
LEMMA CallsStep ==
  TypeOK /\ McpFacts /\ AgentFacts /\ CallsMatch /\ [Next]_vars => CallsMatch'
<1> SUFFICES ASSUME TypeOK, McpFacts, AgentFacts, CallsMatch, [Next]_vars PROVE CallsMatch'
  OBVIOUS
<1> USE DEF TypeOK, McpFacts, AgentFacts, CallsMatch
<1>1. ASSUME NEW r \in Tasks, NEW c \in Customers, Ask(r, c) PROVE CallsMatch'
  BY <1>1 DEF Ask, Goto, agentVars, mcpVars
<1>2. ASSUME NEW r \in Tasks, Alone(r) PROVE CallsMatch'
  <2>1. calls' = calls /\ pc' = pc
    BY <1>2, AloneFrame DEF agentVars, mcpVars
  <2>2. PICK place \in Places : route' = [route EXCEPT ![r] = place]
    BY <1>2, AloneMoves DEF Goto
  <2>3. calls[r] = "idle" /\ place # "running"
    <3>1. CASE route[r] = "running"
      BY <1>2, <3>1, <2>2 DEF Alone, AgentCached, AgentMissed, AgentBuilt, MayBuild, BuildRaises,
         InvalidBody, Query, Checkout, CheckoutTimesOut, LookupRaises, CustomerMissing,
         CloseSession, Answer, Fail, Decide, Goto
    <3>2. CASE route[r] # "running"
      BY <1>2, <3>2, <2>2 DEF Alone, AgentCached, AgentMissed, AgentBuilt, MayBuild, BuildRaises,
         InvalidBody, Query, Checkout, CheckoutTimesOut, LookupRaises, CustomerMissing,
         CloseSession, Answer, Fail, Decide, Goto
    <3> QED
      BY <3>1, <3>2
  <2> QED
    BY <2>1, <2>2, <2>3
<1>3. ASSUME NEW r \in Tasks, StartAgent(r) PROVE CallsMatch'
  <2>1. /\ calls' = calls /\ pc' = [pc EXCEPT ![r] = "agent"] /\ route[r] # "running"
        /\ route' = [route EXCEPT ![r] = "running"]
    BY <1>3 DEF StartAgent, MayInvoke, Agent!Invoke, Goto, mcpVars
  <2> QED
    BY <2>1
<1>4. ASSUME NEW r \in Tasks, RunAgent(r) PROVE CallsMatch'
  <2>1. route' = route /\ route[r] = "running"
    BY <1>4, RunMoves DEF chatVars
  <2>2. CASE /\ pc[r] # "waiting" /\ calls' = calls
             /\ \E place \in {"agent", "tools", "answered", "failed"} :
                   pc' = [pc EXCEPT ![r] = place]
    BY <2>1, <2>2
  <2>3. CASE /\ pc' = [pc EXCEPT ![r] = "waiting"]
             /\ \E call \in {"sent", "refused"} : calls' = [calls EXCEPT ![r] = call]
    BY <2>1, <2>3
  <2>4. CASE /\ \E place \in {"tools", "failed"} : pc' = [pc EXCEPT ![r] = place]
             /\ calls' = [calls EXCEPT ![r] = "idle"]
    BY <2>1, <2>4
  <2> QED
    BY <1>4, <2>2, <2>3, <2>4, RunMoves
<1>5. CASE Shutdown \/ ProcessStep \/ ChildStep
  BY <1>5, ShutdownMoves, ProcessMoves DEF chatVars, agentVars
<1>6. CASE ProcessEnds
  <2>1. \A r \in Tasks : route'[r] # "running" /\ calls'[r] = "idle"
    BY <1>6, EndMoves DEF ProcessEnds, InProgress, Ended
  <2> QED
    BY <2>1
<1>7. CASE UNCHANGED vars
  BY <1>7 DEF vars, chatVars, mcpVars, agentVars
<1> QED
  BY <1>1, <1>2, <1>3, <1>4, <1>5, <1>6, <1>7, Steps

(* The invocation is about the task's customer.                             *)
LEMMA CustomerStep == TypeOK /\ AgentFacts /\ CustomerOK /\ [Next]_vars => CustomerOK'
<1> SUFFICES ASSUME TypeOK, AgentFacts, CustomerOK, [Next]_vars PROVE CustomerOK'
  OBVIOUS
<1> USE DEF TypeOK, AgentFacts, CustomerOK
<1>1. ASSUME NEW r \in Tasks, NEW c \in Customers, Ask(r, c) PROVE CustomerOK'
  BY <1>1 DEF Ask, Goto, agentVars
<1>2. ASSUME NEW r \in Tasks, Alone(r) PROVE CustomerOK'
  <2>1. customerId' = customerId /\ about' = about
    BY <1>2, AloneFrame, AloneMoves DEF agentVars
  <2>2. PICK place \in Places : route' = [route EXCEPT ![r] = place] /\ place # "running"
    BY <1>2 DEF Alone, AgentCached, AgentMissed, AgentBuilt, MayBuild, BuildRaises,
       InvalidBody, Query, Checkout, CheckoutTimesOut, LookupRaises, CustomerMissing,
       CloseSession, Answer, Fail, Decide, Goto, Places
  <2> QED
    BY <2>1, <2>2
<1>3. ASSUME NEW r \in Tasks, StartAgent(r) PROVE CustomerOK'
  <2>1. /\ customerId' = [customerId EXCEPT ![r] = about[r]] /\ about' = about
        /\ route' = [route EXCEPT ![r] = "running"]
    BY <1>3 DEF StartAgent, Agent!Invoke, Goto
  <2> QED
    BY <2>1
<1>4. ASSUME NEW r \in Tasks, RunAgent(r) PROVE CustomerOK'
  BY <1>4, RunMoves DEF chatVars
<1>5. CASE Shutdown \/ ProcessStep \/ ChildStep
  BY <1>5, ShutdownMoves, ProcessMoves DEF chatVars, agentVars
<1>6. CASE ProcessEnds
  BY <1>6, EndMoves DEF ProcessEnds, InProgress, Ended, agentVars
<1>7. CASE UNCHANGED vars
  BY <1>7 DEF vars, chatVars, agentVars
<1> QED
  BY <1>1, <1>2, <1>3, <1>4, <1>5, <1>6, <1>7, Steps

(* Only requests look their customer up.                                    *)
LEMMA HttpStep == TypeOK /\ HttpOK /\ [Next]_vars => HttpOK'
<1> SUFFICES ASSUME TypeOK, HttpOK, [Next]_vars PROVE HttpOK'
  OBVIOUS
<1> USE DEF TypeOK, HttpOK, Goto
<1>1. ASSUME NEW r \in Tasks, NEW c \in Customers, Ask(r, c) PROVE HttpOK'
  BY <1>1 DEF Ask
<1>2. ASSUME NEW r \in Tasks, Alone(r) \/ StartAgent(r) PROVE HttpOK'
  <2>1. PICK place \in Places : route' = [route EXCEPT ![r] = place]
    BY <1>2, AloneMoves
  <2>2. place \in {"querying", "reading"} => r \in Http
    BY <1>2, <2>1 DEF Alone, AgentCached, AgentMissed, AgentBuilt, MayBuild, BuildRaises,
       InvalidBody, Query, Checkout, CheckoutTimesOut, LookupRaises, CustomerMissing,
       CloseSession, Answer, Fail, Decide, StartAgent
  <2> QED
    BY <2>1, <2>2
<1>3. ASSUME NEW r \in Tasks, RunAgent(r) PROVE HttpOK'
  BY <1>3 DEF RunAgent, chatVars
<1>4. CASE Shutdown \/ ProcessStep \/ ChildStep \/ UNCHANGED vars
  BY <1>4 DEF Shutdown, ProcessStep, ChildStep, vars, chatVars
<1>5. CASE ProcessEnds
  BY <1>5 DEF ProcessEnds
<1> QED
  BY <1>1, <1>2, <1>3, <1>4, <1>5, Steps

(* A connection is lent to a session at most once, and not beyond the pool. *)
LEMMA ConnStep == TypeOK /\ HttpOK /\ ConnOK /\ [Next]_vars => ConnOK'
<1> SUFFICES ASSUME TypeOK, HttpOK, ConnOK, [Next]_vars PROVE ConnOK'
  OBVIOUS
<1> USE DEF TypeOK, Goto
<1> DEFINE Lent == {r \in Http : conn[r]}
<1>0. /\ IsFiniteSet(Lent) /\ Cardinality(Lent) \in Nat /\ PoolSize \in Nat
      /\ Http \subseteq Tasks
  <2>1. IsFiniteSet(Lent)
    BY ChatAssumption, FS_Subset
  <2> QED
    BY <2>1, ChatAssumption, FS_CardinalityType DEF Tasks
<1>1. ASSUME conn' = conn,
             \A r \in Tasks : conn[r] => route'[r] \in {"reading", "running", "leaving"}
      PROVE  ConnOK'
  BY <1>1 DEF ConnOK
<1>2. ASSUME conn' \in [Tasks -> BOOLEAN],
             \A r \in Tasks : conn'[r] => conn[r] /\ route'[r] = route[r]
      PROVE  ConnOK'
  <2>1. Lent' \subseteq Lent
    BY <1>0, <1>2
  <2>2. Cardinality(Lent') <= Cardinality(Lent)
    BY <1>0, <2>1, FS_Subset
  <2>3. IsFiniteSet(Lent') /\ Cardinality(Lent') \in Nat
    BY <1>0, <2>1, FS_Subset, FS_CardinalityType
  <2> QED
    BY <1>0, <1>2, <2>2, <2>3 DEF ConnOK
<1>3. ASSUME NEW r \in Tasks, NEW c \in Customers, Ask(r, c) PROVE ConnOK'
  BY <1>1, <1>3 DEF Ask, ConnOK
<1>4. ASSUME NEW r \in Tasks,
             AgentCached(r) \/ AgentMissed(r) \/ AgentBuilt(r) \/ Query(r) \/ StartAgent(r)
      PROVE  ConnOK'
  <2>1. CASE AgentCached(r)
    BY <1>1, <2>1 DEF ConnOK, AgentCached
  <2>2. CASE AgentMissed(r)
    BY <1>1, <2>2 DEF ConnOK, AgentMissed
  <2>3. CASE AgentBuilt(r)
    BY <1>1, <2>3 DEF ConnOK, AgentBuilt, MayBuild
  <2>4. CASE Query(r)
    BY <1>1, <2>4 DEF ConnOK, Query
  <2>5. CASE StartAgent(r)
    BY <1>1, <2>5 DEF ConnOK, StartAgent
  <2> QED
    BY <1>4, <2>1, <2>2, <2>3, <2>4, <2>5
<1>5. ASSUME NEW r \in Tasks, NEW code, Decide(r, code) PROVE ConnOK'
  BY <1>1, <1>5 DEF ConnOK, Decide
<1>6. ASSUME NEW r \in Tasks,
             \/ BuildRaises(r) \/ InvalidBody(r) \/ CheckoutTimesOut(r) \/ LookupRaises(r)
             \/ CustomerMissing(r) \/ Answer(r) \/ Fail(r)
      PROVE  ConnOK'
  BY <1>5, <1>6 DEF BuildRaises, InvalidBody, CheckoutTimesOut, LookupRaises,
                    CustomerMissing, Answer, Fail
<1>7. ASSUME NEW r \in Tasks, Checkout(r) PROVE ConnOK'
  <2>0. r \in Http
    BY <1>7 DEF Checkout, HttpOK
  <2>1. Lent' = Lent \cup {r}
    BY <1>0, <1>7, <2>0 DEF Checkout
  <2>2. ~(Cardinality(Lent) >= PoolSize)
    BY <1>7 DEF Checkout, PoolFull
  <2> HIDE DEF Lent
  <2>3. Cardinality(Lent \cup {r}) <= PoolSize
    <3>1. Cardinality(Lent \cup {r}) = IF r \in Lent THEN Cardinality(Lent)
                                       ELSE Cardinality(Lent) + 1
      BY <1>0, FS_AddElement
    <3> QED
      BY <1>0, <2>2, <3>1
  <2>4. Cardinality(Lent') <= PoolSize
    BY <2>1, <2>3
  <2> QED
    BY <1>7, <2>0, <2>4 DEF ConnOK, Checkout, Lent
<1>8. ASSUME NEW r \in Tasks, CloseSession(r) PROVE ConnOK'
  BY <1>2, <1>8 DEF CloseSession
<1>9. ASSUME NEW r \in Tasks, RunAgent(r) PROVE ConnOK'
  BY <1>1, <1>9 DEF RunAgent, chatVars, ConnOK
<1>10. CASE Shutdown \/ ProcessStep \/ ChildStep \/ UNCHANGED vars
  BY <1>1, <1>10 DEF Shutdown, ProcessStep, ChildStep, vars, chatVars, ConnOK
<1>11. CASE ProcessEnds
  BY <1>2, <1>11 DEF ProcessEnds
<1> QED
  BY <1>3, <1>4, <1>6, <1>7, <1>8, <1>9, <1>10, <1>11, Steps DEF Alone

-----------------------------------------------------------------------------
(* The invariant always holds.                                              *)

LEMMA Invariance == Spec => [](McpFacts /\ AgentFacts /\ Inv)
<1>1. Init => Inv
  <2> SUFFICES ASSUME Init PROVE Inv
    OBVIOUS
  <2> USE DEF Init, Fresh
  <2>1. TypeOK
    BY DEF TypeOK, Places
  <2>2. AboutOK /\ HttpOK /\ CustomerOK
    BY DEF AboutOK, HttpOK, CustomerOK
  <2>3. StatusOK /\ ServingOK
    BY DEF StatusOK, ServingOK, InProgress, Ended, Tasks
  <2>4. AgentsOK
    BY DEF AgentsOK, HasAgent, InProgress, Ended, Mcp!Init
  <2>5. CallsMatch
    BY DEF CallsMatch, Mcp!Init
  <2>6. ConnOK
    <3>1. {r \in Http : conn[r]} = {}
      BY DEF Tasks
    <3>2. Cardinality({}) = 0 /\ PoolSize >= 0
      BY FS_EmptySet, ChatAssumption
    <3> QED
      BY <3>1, <3>2 DEF ConnOK
  <2> QED
    BY <2>1, <2>2, <2>3, <2>4, <2>5, <2>6 DEF Inv, ChatInv
<1>2. McpFacts /\ AgentFacts /\ Asked /\ Inv /\ [Next]_vars => TypeOK'
  BY TypeStep DEF Inv
<1>3. McpFacts /\ AgentFacts /\ Asked /\ Asked' /\ Inv /\ [Next]_vars => ChatInv'
  BY StatusStep, ServingStep, AgentsStep, CallsStep, CustomerStep, HttpStep, ConnStep
     DEF Inv, ChatInv, Asked
<1>4. McpFacts /\ AgentFacts /\ Asked /\ Asked' /\ Inv /\ [Next]_vars => Inv'
  BY <1>2, <1>3 DEF Inv
<1> QED
  BY <1>1, <1>4, PartFacts, AskedAlways, PTL DEF Spec

(* Every variable keeps its type.                                           *)
THEOREM TypeCorrect == Spec => []TypeOK
<1>1. Inv => TypeOK
  BY DEF Inv
<1> QED
  BY <1>1, Invariance, PTL

(* A task waits for a tool exactly while the MCP client has a call of its   *)
(* in flight (nodes.py:130, mcp_client.py:78).                              *)
THEOREM WaitingIsCalling == Spec => []CallsMatch
<1>1. Inv => CallsMatch
  BY DEF Inv, ChatInv
<1> QED
  BY <1>1, Invariance, PTL

(* However a request ends, its connection is back in the pool, which never  *)
(* lends more than it has (session.py:18-20, deps.py:13-15).                *)
THEOREM PoolIsKept == Spec => []ConnectionsReturn
<1>1. Inv => ConnectionsReturn
  <2> SUFFICES ASSUME Inv PROVE ConnectionsReturn
    OBVIOUS
  <2>1. {r \in Tasks : conn[r]} = {r \in Http : conn[r]}
    BY DEF Inv, ChatInv, ConnOK, Tasks
  <2> QED
    BY <2>1 DEF Inv, ChatInv, ConnOK, ConnectionsReturn, InProgress, Ended
<1> QED
  BY <1>1, Invariance, PTL

(* A request never runs an agent that was built before the MCP client knew  *)
(* its tools (deps.py:18-21, nodes.py:66-82).                               *)
THEOREM AgentsAreEquipped == Spec => []RequestsKnowTools
<1>1. Inv => RequestsKnowTools
  BY DEF Inv, ChatInv, ServingOK, AgentsOK, HasAgent, RequestsKnowTools, InProgress, Ended, Tasks
<1> QED
  BY <1>1, Invariance, PTL

-----------------------------------------------------------------------------
(* What POST /chat promises, when the model follows its schemas.            *)

OwnFacts ==
  \A r \in Followers :
     /\ DOMAIN toolResults[r] \subseteq Agent!ExposedTools
     /\ \A t \in DOMAIN toolResults[r] : toolResults[r][t].who = customerId[r]

LEMMA OwnResultsOnly ==
  Spec => []OwnFacts
<1>1. AP!OwnData /\ AP!ExposedOnly => OwnFacts
  BY DEF AP!OwnData, AP!HoldsOwnData, AP!ExposedOnly, OwnFacts, AP!ExposedTools, Agent!ExposedTools
<1>2. AP!Spec => []AP!OwnData
  BY AP!Own, PartAssumptions
<1>3. AP!Spec => []AP!ExposedOnly
  BY AP!Exposed, PartAssumptions
<1> QED
  BY <1>1, <1>2, <1>3, RunsAgentGraph, PTL

(* A task's step leaves the others' part of the state alone.                *)
SeenSame(q) ==
  /\ route'[q] = route[q] /\ about'[q] = about[q] /\ status'[q] = status[q]
  /\ toolResults'[q] = toolResults[q]

LEMMA OthersSame ==
  ASSUME TypeOK, AgentFacts, NEW r \in Tasks,
         (\E c \in Customers : Ask(r, c)) \/ Alone(r) \/ StartAgent(r) \/ RunAgent(r)
  PROVE  \A q \in Tasks \ {r} : SeenSame(q)
<1> USE DEF TypeOK, SeenSame, Goto, agentVars
<1>1. CASE \E c \in Customers : Ask(r, c)
  BY <1>1 DEF Ask
<1>2. CASE AgentCached(r) \/ AgentMissed(r) \/ AgentBuilt(r) \/ Query(r) \/ Checkout(r)
           \/ CloseSession(r)
  BY <1>2 DEF AgentCached, AgentMissed, AgentBuilt, Query, Checkout, CloseSession
<1>3. ASSUME NEW code, Decide(r, code) PROVE \A q \in Tasks \ {r} : SeenSame(q)
  BY <1>3 DEF Decide
<1>4. CASE \/ BuildRaises(r) \/ InvalidBody(r) \/ CheckoutTimesOut(r) \/ LookupRaises(r)
           \/ CustomerMissing(r) \/ Answer(r) \/ Fail(r)
  BY <1>3, <1>4 DEF BuildRaises, InvalidBody, CheckoutTimesOut, LookupRaises,
                    CustomerMissing, Answer, Fail
<1>5. CASE StartAgent(r)
  BY <1>5 DEF StartAgent, Agent!Invoke
<1>6. CASE RunAgent(r)
  <2>1. \A q \in Tasks \ {r} : toolResults'[q] = toolResults[q]
    <3>1. CASE Think(r)
      <4>1. ASSUME NEW response, Agent!AgentNode(r, response) PROVE toolResults' = toolResults
        BY <4>1 DEF Agent!AgentNode
      <4>2. ASSUME Agent!LlmRaises(r) \/ Agent!OutOfSteps(r) PROVE toolResults' = toolResults
        BY <4>2 DEF Agent!LlmRaises, Agent!OutOfSteps
      <4>3. ASSUME Agent!ReturnFromTools(r)
            PROVE  \A q \in Tasks \ {r} : toolResults'[q] = toolResults[q]
        BY <4>3 DEF Agent!ReturnFromTools, AgentFacts
      <4> QED
        BY <3>1, <4>1, <4>2, <4>3 DEF Think
    <3>2. CASE SendCall(r) \/ ToolReturns(r) \/ ToolRaises(r)
      BY <3>2 DEF SendCall, Agent!SendCall, ToolReturns, Agent!ToolReturns, ToolRaises,
                  Agent!ToolRaises
    <3> QED
      BY <1>6, <3>1, <3>2 DEF RunAgent
  <2> QED
    BY <1>6, <2>1 DEF RunAgent, chatVars
<1> QED
  BY <1>1, <1>2, <1>4, <1>5, <1>6 DEF Alone

(* What the client sees of each request.                                    *)
ViewSame(q) == StateOf(q)' = StateOf(q) /\ DataOf(q)' = DataOf(q)
               /\ about'[q] = about[q] /\ status'[q] = status[q]

LEMMA SameView ==
  ASSUME NEW q \in Tasks, SeenSame(q) PROVE ViewSame(q)
BY DEF SeenSame, ViewSame, StateOf, DataOf, InProgress, Agent!NoResults

LEMMA Stutter ==
  ASSUME \A q \in Http : ViewSame(q) PROVE UNCHANGED Contract!vars
BY DEF ViewSame, Contract!vars

LEMMA AskRefines ==
  ASSUME Inv, AgentFacts, NEW r \in Http, NEW c \in Customers, Ask(r, c)
  PROVE  Contract!Ask(r, c)
<1> USE DEF Inv, TypeOK, Ask, Goto, agentVars
<1>1. r \in Tasks /\ Http \subseteq Tasks
  BY DEF Tasks
<1>2. \A q \in Http \ {r} : ViewSame(q)
  BY <1>1, OthersSame, SameView
<1>3. StateOf(r) = "new" /\ status[r] = None
  BY <1>1 DEF StateOf, InProgress, Ended, ChatInv, StatusOK
<1>4. StateOf(r)' = "asked" /\ DataOf(r)' = DataOf(r) /\ about'[r] = c /\ status'[r] = status[r]
  BY <1>1, <1>3, ChatAssumption DEF StateOf, DataOf, InProgress, Ended, Agent!NoResults
<1>5. /\ [q \in Http |-> StateOf(q)'] = [[q \in Http |-> StateOf(q)] EXCEPT ![r] = "asked"]
      /\ [q \in Http |-> about'[q]] = [[q \in Http |-> about[q]] EXCEPT ![r] = c]
      /\ [q \in Http |-> status'[q]] = [q \in Http |-> status[q]]
      /\ [q \in Http |-> DataOf(q)'] = [q \in Http |-> DataOf(q)]
  BY ONLY <1>2, <1>4 DEF ViewSame
<1> QED
  BY <1>3, <1>5 DEF Contract!Ask

(* The outcome is the reply.                                                *)
LEMMA DecideRefines ==
  ASSUME Inv, AgentFacts, NEW r \in Http, NEW code \in {200, 404, 422, 500}, Decide(r, code),
         Alone(r), route[r] \in Undecided,
         code = 200 => toolResults[r] \in Contract!OwnResults(about[r])
  PROVE  Contract!Next
<1> USE DEF Inv, TypeOK, Decide, Goto, agentVars
<1>1. r \in Tasks /\ Http \subseteq Tasks /\ None \notin {200, 404, 422, 500}
  BY ChatAssumption DEF Tasks
<1>2. \A q \in Http \ {r} : ViewSame(q)
  BY <1>1, OthersSame, SameView
<1>3. StateOf(r) = "asked"
  BY <1>1 DEF StateOf, InProgress, Ended, ChatInv, StatusOK, Undecided
<1> DEFINE sent == IF code = 200 THEN toolResults[r] ELSE Contract!NoData
<1>4. /\ StateOf(r)' = "replied" /\ about'[r] = about[r] /\ status'[r] = code
      /\ DataOf(r)' = sent
  BY <1>1 DEF StateOf, DataOf, Agent!NoResults, Contract!NoData
<1>5. ASSUME code = 200 PROVE sent \in Contract!OwnResults([q \in Http |-> about[q]][r])
  <2>1. [q \in Http |-> about[q]][r] = about[r]
    OBVIOUS
  <2> QED
    BY <1>5, <2>1
<1>6. ASSUME code # 200 PROVE sent = Contract!NoData /\ code \in {404, 422, 500}
  BY <1>6
<1> HIDE DEF sent
<1>7. /\ [q \in Http |-> StateOf(q)'] = [[q \in Http |-> StateOf(q)] EXCEPT ![r] = "replied"]
      /\ [q \in Http |-> about'[q]] = [q \in Http |-> about[q]]
      /\ [q \in Http |-> status'[q]] = [[q \in Http |-> status[q]] EXCEPT ![r] = code]
      /\ [q \in Http |-> DataOf(q)'] = [[q \in Http |-> DataOf(q)] EXCEPT ![r] = sent]
  BY ONLY <1>2, <1>4 DEF ViewSame
<1>8. CASE code = 200
  <2>1. PICK given \in Contract!OwnResults([q \in Http |-> about[q]][r]) : given = sent
    BY <1>5, <1>8
  <2>2. Contract!Reply(r, 200, given)
    BY <1>3, <1>7, <1>8, <2>1 DEF Contract!Reply
  <2> QED
    BY <2>2 DEF Contract!Next
<1>9. CASE code # 200
  <2>1. PICK other \in {404, 422, 500} : other = code
    BY <1>6, <1>9
  <2>2. Contract!Reply(r, other, Contract!NoData)
    BY <1>3, <1>6, <1>7, <1>9, <2>1 DEF Contract!Reply
  <2> QED
    BY <2>2 DEF Contract!Next
<1> QED
  BY <1>8, <1>9

LEMMA LoseRefines ==
  ASSUME Inv, ProcessEnds
  PROVE  Contract!Lose
<1> USE DEF Inv, TypeOK, ProcessEnds
<1>1. \A q \in Http :
         /\ StateOf(q)' = IF StateOf(q) = "asked" THEN "lost" ELSE StateOf(q)
         /\ DataOf(q)' = DataOf(q) /\ about'[q] = about[q] /\ status'[q] = status[q]
  BY DEF StateOf, DataOf, InProgress, Ended, Tasks, agentVars, Agent!NoResults
<1> QED
  BY <1>1 DEF Contract!Lose

LEMMA AnswerIsOwn ==
  ASSUME Inv, AgentFacts, OwnFacts, NEW r \in Followers, route[r] = "running"
  PROVE  toolResults[r] \in Contract!OwnResults(about[r])
<1> DEFINE D == DOMAIN toolResults[r]
<1>0. r \in Tasks
  BY ChatAssumption
<1>1. D \in SUBSET Agent!ExposedTools
  BY DEF OwnFacts
<1>2. toolResults[r] \in [D -> Agent!Data]
  BY <1>0 DEF AgentFacts
<1>3. \A t \in D : toolResults[r][t] \in {d \in Agent!Data : d.who = about[r]}
  BY <1>0, <1>2 DEF OwnFacts, Inv, ChatInv, CustomerOK
<1>4. toolResults[r] \in [D -> {d \in Agent!Data : d.who = about[r]}]
  BY <1>2, <1>3
<1> QED
  BY <1>1, <1>4 DEF Contract!OwnResults

(* A client of POST /chat gets one reply, and in a 200 only results of      *)
(* exposed tools about the customer it asked for, provided the models of    *)
(* the requests follow the schemas they are given (chat.py:20-40).          *)
THEOREM Implements ==
  ASSUME Http \subseteq Followers
  PROVE  Spec => KeepsContract
<1>1. Init => Contract!Init
  <2> SUFFICES ASSUME Init PROVE Contract!Init
    OBVIOUS
  <2>1. \A q \in Http : status[q] = None /\ about[q] = None /\ route[q] = "idle" /\ None # 200
    BY ChatAssumption DEF Init, Tasks
  <2>2. \A q \in Http : StateOf(q) = "new" /\ DataOf(q) = Contract!NoData
    BY <2>1 DEF StateOf, DataOf, InProgress, Ended, Agent!NoResults, Contract!NoData
  <2> QED
    BY <2>1, <2>2 DEF Contract!Init
<1>2. McpFacts /\ AgentFacts /\ Inv /\ OwnFacts /\ [Next]_vars
        => [Contract!Next]_(Contract!vars)
  <2> SUFFICES ASSUME AgentFacts, Inv, OwnFacts, [Next]_vars
               PROVE  Contract!Next \/ UNCHANGED Contract!vars
    BY DEF Contract!vars
  <2>0. Http \subseteq Tasks
    BY DEF Tasks
  <2>1. ASSUME NEW r \in Tasks \ Http,
               (\E c \in Customers : Ask(r, c)) \/ Alone(r) \/ StartAgent(r) \/ RunAgent(r)
        PROVE  UNCHANGED Contract!vars
    BY <2>0, <2>1, OthersSame, SameView, Stutter DEF Inv
  <2>2. ASSUME NEW r \in Http, NEW c \in Customers, Ask(r, c) PROVE Contract!Next
    BY <2>2, AskRefines DEF Contract!Next
  <2>3. ASSUME NEW r \in Http, Answer(r) PROVE Contract!Next
    BY <2>0, <2>3, DecideRefines, AnswerIsOwn DEF Answer, Alone, Undecided
  <2>4. ASSUME NEW r \in Http,
               \/ BuildRaises(r) \/ InvalidBody(r) \/ CheckoutTimesOut(r) \/ LookupRaises(r)
               \/ CustomerMissing(r) \/ Fail(r)
        PROVE  Contract!Next
    <3>1. route[r] \in Undecided /\ Alone(r)
      BY <2>4 DEF BuildRaises, MayBuild, InvalidBody, CheckoutTimesOut, LookupRaises,
                  CustomerMissing, Fail, Alone, Undecided
    <3>2. Decide(r, 404) \/ Decide(r, 422) \/ Decide(r, 500)
      BY <2>4 DEF BuildRaises, InvalidBody, CheckoutTimesOut, LookupRaises,
                  CustomerMissing, Fail
    <3> QED
      BY <3>1, <3>2, DecideRefines
  <2>5. ASSUME NEW r \in Http,
               \/ AgentCached(r) \/ AgentMissed(r) \/ AgentBuilt(r) \/ Query(r) \/ Checkout(r)
               \/ CloseSession(r) \/ StartAgent(r) \/ RunAgent(r)
        PROVE  UNCHANGED Contract!vars
    <3>1. \A q \in Http \ {r} : ViewSame(q)
      BY <2>0, <2>5, OthersSame, SameView DEF Inv, Alone
    <3>2. /\ about' = about /\ status' = status
          /\ \/ route[r] \in Undecided /\ route'[r] \in Undecided
             \/ route[r] = "leaving" /\ route'[r] = "done" /\ toolResults' = toolResults
      <4> USE DEF Undecided, Goto, Inv, TypeOK
      <4>1. CASE RunAgent(r)
        BY <4>1 DEF RunAgent, chatVars
      <4>2. CASE CloseSession(r)
        BY <2>0, <4>2 DEF CloseSession, agentVars
      <4>3. CASE StartAgent(r)
        BY <2>0, <4>3 DEF StartAgent, MayInvoke
      <4>4. CASE AgentCached(r) \/ AgentMissed(r) \/ AgentBuilt(r) \/ Query(r) \/ Checkout(r)
        BY <2>0, <4>4 DEF AgentCached, AgentMissed, AgentBuilt, MayBuild, Query, Checkout
      <4> QED
        BY <2>5, <4>1, <4>2, <4>3, <4>4
    <3>3. CASE route[r] \in Undecided /\ route'[r] \in Undecided
      <4>1. status[r] = None /\ status'[r] = None /\ None # 200
        BY <2>0, <3>2, <3>3, ChatAssumption DEF Inv, ChatInv, StatusOK
      <4>2. ViewSame(r)
        BY <3>2, <3>3, <4>1 DEF ViewSame, StateOf, DataOf, InProgress, Ended, Undecided,
                                 Agent!NoResults
      <4> QED
        BY <3>1, <4>2, Stutter
    <3>4. CASE route[r] = "leaving" /\ route'[r] = "done" /\ toolResults' = toolResults
      <4>1. status[r] # None
        BY <2>0, <3>4 DEF Inv, ChatInv, StatusOK
      <4>2. ViewSame(r)
        BY <3>2, <3>4, <4>1 DEF ViewSame, StateOf, DataOf, Agent!NoResults
      <4> QED
        BY <3>1, <4>2, Stutter
    <3> QED
      BY <3>2, <3>3, <3>4
  <2>6. CASE Shutdown \/ ProcessStep \/ ChildStep \/ UNCHANGED vars
    <3>1. UNCHANGED <<route, about, status, toolResults>>
      BY <2>6 DEF Shutdown, ProcessStep, ChildStep, vars, chatVars, agentVars
    <3>2. \A q \in Http : ViewSame(q)
      BY <2>0, <3>1, SameView DEF SeenSame
    <3> QED
      BY <3>2, Stutter
  <2>7. CASE ProcessEnds
    BY <2>7, LoseRefines DEF Contract!Next
  <2> QED
    BY <2>1, <2>2, <2>3, <2>4, <2>5, <2>6, <2>7, Steps DEF Alone
<1> QED
  BY <1>1, <1>2, Invariance, OwnResultsOnly, PTL DEF Spec, KeepsContract, Contract!Spec

=============================================================================
