----------------------------- MODULE ChatService -----------------------------
(***************************************************************************)
(* Questions to a process of the application: POST /chat                    *)
(* (app/api/routes/chat.py, app/api/deps.py, app/database/session.py) and   *)
(* the UI's questions (_respond in app/ui.py), each running an invocation   *)
(* of the agent (AgentGraph), all calling tools over the process's one MCP  *)
(* connection under its lifespan (McpClient).                               *)
(*                                                                         *)
(* A task is one question.  FastAPI resolves get_db and get_agent before it *)
(* validates the body and runs the endpoint; get_agent is synchronous, so   *)
(* FastAPI calls it in a thread, and functools.lru_cache does not hold a    *)
(* lock while it builds.                                                    *)
(***************************************************************************)
EXTENDS Integers, Sequences, FiniteSets

CONSTANTS
  Http,   \* requests to POST /chat
  Ui,     \* questions of the Gradio page
  Customers, Names, Tools, Books, RecursionLimit, MaxCalls,
  MaxLaunches, HttpApp,
  Followers, \* questions whose model keeps to the bound schemas
  PoolSize,  \* connections of the engine, overflow included
  None

Tasks == Http \cup Ui

ASSUME ChatAssumption ==
  /\ Http \cap Ui = {}
  /\ IsFiniteSet(Http)
  /\ PoolSize \in Nat \ {0}
  /\ None \notin Customers \cup Nat
  /\ Tools # {} /\ Tools \subseteq Names
  /\ RecursionLimit \in Nat \ {0}
  /\ MaxCalls \in Nat
  /\ Followers \subseteq Tasks
  /\ MaxLaunches \in Nat
  /\ HttpApp \in BOOLEAN

VARIABLES
  pc, customerId, messages, toolResults, steps, batch, results,
  launch, lifespan, stack, localStack, exitStack, client, tools, httpUp,
  child, calls,
  route,   \* where each task is, "lost" when its process ended under it
  about,   \* the customer_id it came with
  status,  \* the HTTP status decided for it, None before
  conn,    \* whether its session holds a connection
  agents,  \* the agents this process has built, as the tools bound to each
  cache,   \* get_agent's lru_cache: an index of agents, 0 when empty
  agent    \* the agent each task was given

Agent == INSTANCE AgentGraph WITH Requests <- Tasks
Mcp == INSTANCE McpClient
         WITH Callers <- Tasks, HttpCallers <- Http, ServerTools <- Tools

agentVars == <<pc, customerId, messages, toolResults, steps, batch, results>>
mcpVars == <<launch, lifespan, stack, localStack, exitStack, client, tools,
             httpUp, child, calls>>
chatVars == <<route, about, status, conn, agents, cache, agent>>
vars == <<agentVars, mcpVars, chatVars>>

Places == {"idle", "deps", "building", "bound", "querying", "reading", "running",
           "leaving", "done", "lost"}
Ended == {"idle", "done", "lost"}
InProgress(r) == route[r] \notin Ended

Goto(r, place) == route' = [route EXCEPT ![r] = place]

(* Variants, which nothing below uses, stand before what they vary: a       *)
(* plausible slip in the code, named for what it does.  This one is a       *)
(* constant of the module instead of the cache.                             *)
BuiltAtImport == [agents |-> <<{}>>, cache |-> 1]

(* What get_agent's cache is in a new process.                              *)
Fresh == [agents |-> <<>>, cache |-> 0]

Init ==
  /\ Agent!Init
  /\ Mcp!Init
  /\ route = [r \in Tasks |-> "idle"]
  /\ about = [r \in Tasks |-> None]
  /\ status = [r \in Tasks |-> None]
  /\ conn = [r \in Tasks |-> FALSE]
  /\ agents = Fresh.agents
  /\ cache = Fresh.cache
  /\ agent = [r \in Tasks |-> 0]

-----------------------------------------------------------------------------
(* From the question to the agent.                                          *)

(* A question arrives; get_db opens a session, which has no connection yet. *)
Ask(r, customer) ==
  /\ Mcp!Serves(r)
  /\ route[r] = "idle"
  /\ Goto(r, "deps")
  /\ about' = [about EXCEPT ![r] = customer]
  /\ UNCHANGED <<status, conn, agents, cache, agent, agentVars, mcpVars>>

(* get_agent: the cache has one.                                            *)
AgentCached(r) ==
  /\ route[r] = "deps"
  /\ cache # 0
  /\ agent' = [agent EXCEPT ![r] = cache]
  /\ Goto(r, "bound")
  /\ UNCHANGED <<about, status, conn, agents, cache, agentVars, mcpVars>>

(* get_agent, in a thread: the cache has none.                              *)
AgentMissed(r) ==
  /\ r \in Http
  /\ route[r] = "deps"
  /\ cache = 0
  /\ Goto(r, "building")
  /\ UNCHANGED <<about, status, conn, agents, cache, agent, agentVars, mcpVars>>

(* _respond calls get_agent on the event loop, in one step.                 *)
MayBuild(r) ==
  IF r \in Http THEN route[r] = "building" ELSE route[r] = "deps" /\ cache = 0

(* build_agent_graph binds the tools the client lists now.  The cache takes *)
(* the agent unless another thread was faster.                              *)
AgentBuilt(r) ==
  /\ MayBuild(r)
  /\ agents' = Append(agents, tools)
  /\ agent' = [agent EXCEPT ![r] = Len(agents')]
  /\ cache' = IF cache = 0 THEN Len(agents') ELSE cache
  /\ Goto(r, "bound")
  /\ UNCHANGED <<about, status, conn, agentVars, mcpVars>>

(* The outcome of a task is decided.                                        *)
Decide(r, code) ==
  /\ status' = [status EXCEPT ![r] = code]
  /\ Goto(r, "leaving")
  /\ UNCHANGED <<about, conn, agents, cache, agent, agentVars, mcpVars>>

(* Variant: it is tried again.                                              *)
BuildRetries(r) ==
  /\ MayBuild(r)
  /\ Goto(r, "deps")
  /\ UNCHANGED <<about, status, conn, agents, cache, agent, agentVars, mcpVars>>

(* There is no model to build with: no API key.  Nothing is cached.         *)
BuildRaises(r) == MayBuild(r) /\ Decide(r, 500)

(* The body does not fit ChatRequest.                                       *)
InvalidBody(r) == r \in Http /\ route[r] = "bound" /\ Decide(r, 422)

-----------------------------------------------------------------------------
(* The endpoint.                                                            *)

(* The session's first statement asks the engine's pool for a connection.   *)
Query(r) ==
  /\ r \in Http
  /\ route[r] = "bound"
  /\ Goto(r, "querying")
  /\ UNCHANGED <<about, status, conn, agents, cache, agent, agentVars, mcpVars>>

PoolFull == Cardinality({r \in Http : conn[r]}) >= PoolSize

Checkout(r) ==
  /\ route[r] = "querying"
  /\ ~PoolFull
  /\ conn' = [conn EXCEPT ![r] = TRUE]
  /\ Goto(r, "reading")
  /\ UNCHANGED <<about, status, agents, cache, agent, agentVars, mcpVars>>

(* No connection within the pool's timeout.                                 *)
CheckoutTimesOut(r) == route[r] = "querying" /\ PoolFull /\ Decide(r, 500)

(* get_customer_profile raises, or finds no customer ...                    *)
LookupRaises(r) == route[r] = "reading" /\ Decide(r, 500)
CustomerMissing(r) == route[r] = "reading" /\ Decide(r, 404)

(* Where agent.ainvoke begins: for POST /chat the customer was found, and   *)
(* the session keeps its connection; _respond does not look it up.          *)
MayInvoke(r) ==
  IF r \in Http THEN route[r] = "reading" ELSE route[r] = "bound"

(* Variant: another task's customer.                                        *)
StartAgentForAnyone(r) ==
  /\ MayInvoke(r)
  /\ \E s \in Tasks : about[s] # None /\ Agent!Invoke(r, about[s])
  /\ Goto(r, "running")
  /\ UNCHANGED <<about, status, conn, agents, cache, agent, mcpVars>>

StartAgent(r) ==
  /\ MayInvoke(r)
  /\ Agent!Invoke(r, about[r])
  /\ Goto(r, "running")
  /\ UNCHANGED <<about, status, conn, agents, cache, agent, mcpVars>>

(* The endpoint returns the results, or the exception leaves it.            *)
Answer(r) == route[r] = "running" /\ pc[r] = "answered" /\ Decide(r, 200)
Fail(r) == route[r] = "running" /\ pc[r] = "failed" /\ Decide(r, 500)

(* Variant: an exception leaves the session open.                           *)
CloseSessionOnReturn(r) ==
  /\ route[r] = "leaving"
  /\ conn' = [conn EXCEPT ![r] = conn[r] /\ status[r] # 200]
  /\ Goto(r, "done")
  /\ UNCHANGED <<about, status, agents, cache, agent, agentVars, mcpVars>>

(* get_db closes the session after the endpoint, however it ended.          *)
CloseSession(r) ==
  /\ route[r] = "leaving"
  /\ conn' = [conn EXCEPT ![r] = FALSE]
  /\ Goto(r, "done")
  /\ UNCHANGED <<about, status, agents, cache, agent, agentVars, mcpVars>>

-----------------------------------------------------------------------------
(* The agent's invocation, over the MCP connection.                         *)

(* The model knows the tools that were bound to the task's agent.           *)
Think(r) ==
  /\ \/ \E response \in Agent!LlmResponses(r) :
           /\ \A k \in DOMAIN response : response[k].name \in agents[agent[r]]
           /\ Agent!AgentNode(r, response)
     \/ Agent!LlmRaises(r)
     \/ Agent!ReturnFromTools(r)
     \/ Agent!OutOfSteps(r)
  /\ UNCHANGED mcpVars

SendCall(r) == Agent!SendCall(r) /\ Mcp!CallTool(r)
ToolReturns(r) ==
  (\E data \in Agent!Data : Agent!ToolReturns(r, data)) /\ Mcp!CallReturns(r)

ToolRaises(r) == Agent!ToolRaises(r) /\ Mcp!CallRaises(r)

RunAgent(r) ==
  /\ route[r] = "running"
  /\ Think(r) \/ SendCall(r) \/ ToolReturns(r) \/ ToolRaises(r)
  /\ UNCHANGED chatVars

-----------------------------------------------------------------------------
(* The process.                                                             *)

(* External: uvicorn lets the requests it has accepted finish.              *)
Shutdown ==
  /\ \A r \in Http : ~InProgress(r)
  /\ Mcp!Shutdown
  /\ UNCHANGED <<agentVars, chatVars>>

ProcessStep ==
  /\ \/ Mcp!Launch
     \/ Mcp!StartSpawns \/ Mcp!StartSpawnRaises \/ Mcp!StartLists
     \/ Mcp!StartListRaises \/ Mcp!StartAborts
     \/ Mcp!EnterHttp \/ Mcp!EnterHttpRaises
     \/ Mcp!UnwindHttp \/ Mcp!StopCloses \/ Mcp!StopClears \/ Mcp!StopRaises
  /\ UNCHANGED <<agentVars, chatVars>>

ChildStep ==
  /\ Mcp!ChildDies \/ \E n \in Mcp!Launches : Mcp!ChildSeesEof(n)
  /\ UNCHANGED <<agentVars, chatVars>>

(* Everything in memory is gone; the database closes the connections.  The  *)
(* AgentState of a lost task is no more, its last value stays in the model. *)
ProcessEnds ==
  /\ Mcp!LifespanEnds \/ Mcp!Crash
  /\ route' = [r \in Tasks |-> IF InProgress(r) THEN "lost" ELSE route[r]]
  /\ conn' = [r \in Tasks |-> FALSE]
  /\ agents' = Fresh.agents
  /\ cache' = Fresh.cache
  /\ UNCHANGED <<about, status, agent, agentVars>>

(* What a task does by itself.                                              *)
TaskStep(r) ==
  \/ AgentCached(r) \/ AgentMissed(r) \/ AgentBuilt(r) \/ BuildRaises(r)
  \/ InvalidBody(r) \/ Query(r) \/ Checkout(r) \/ CheckoutTimesOut(r)
  \/ LookupRaises(r) \/ CustomerMissing(r) \/ StartAgent(r)
  \/ RunAgent(r) \/ Answer(r) \/ Fail(r) \/ CloseSession(r)

Next ==
  \/ \E r \in Tasks, c \in Customers : Ask(r, c)
  \/ \E r \in Tasks : TaskStep(r)
  \/ Shutdown \/ ProcessStep \/ ChildStep \/ ProcessEnds

Spec == Init /\ [][Next]_vars

(* The server is up and has not answered the task's call.                   *)
Unanswered(r) == calls[r] = "sent" /\ child[launch] = "up"

(* The event loop, its threads, the database and the model's API go on; but *)
(* a server that is up need never answer, as nothing limits the wait        *)
(* (mcp_client.py:78).                                                      *)
Fairness == \A r \in Tasks : WF_vars(TaskStep(r) /\ ~Unanswered(r))

FairSpec == Spec /\ Fairness

-----------------------------------------------------------------------------
(* Properties.                                                              *)

(* Every variable of this module keeps its type.                            *)
TypeOK ==
  /\ route \in [Tasks -> Places]
  /\ about \in [Tasks -> Customers \cup {None}]
  /\ status \in [Tasks -> {200, 404, 422, 500, None}]
  /\ conn \in [Tasks -> BOOLEAN]
  /\ agents \in Seq({{}, Tools})
  /\ cache \in 0..Len(agents)
  /\ agent \in [Tasks -> Nat]

(* A task waits for a tool exactly while the MCP client has a call of its   *)
(* in flight: no call outlives its invocation, and shutdown, which looks at *)
(* requests, misses none (nodes.py:130, mcp_client.py:78).                  *)
CallsMatch ==
  \A r \in Tasks :
     calls[r] # "idle" <=> route[r] = "running" /\ pc[r] = "waiting"

(* However a request ends, its connection is back in the pool, which never  *)
(* lends more than it has (session.py:18-20, deps.py:13-15).                *)
ConnectionsReturn ==
  /\ \A r \in Tasks : conn[r] => r \in Http /\ InProgress(r)
  /\ Cardinality({r \in Tasks : conn[r]}) <= PoolSize

(* get_agent keeps an agent for the life of the process, and its tools are  *)
(* those listed while it was built: a request never runs one that was built *)
(* before the MCP client knew its tools (deps.py:18-21, nodes.py:66-82).    *)
RequestsKnowTools ==
  \A r \in Http :
     route[r] \in {"bound", "querying", "reading", "running"} =>
        agents[agent[r]] = Tools

(* Every question is decided and its session closed, unless its process     *)
(* ends or the server leaves that question's own call unanswered for ever:  *)
(* also with the server dead, the build failing, or the pool's connection   *)
(* held by another question that waits for ever (deps.py:13-21,             *)
(* chat.py:20-40, mcp_client.py:78).                                        *)
EveryQuestionEnds ==
  \A r \in Tasks :
     []<>~Unanswered(r) => (route[r] = "deps" ~> ~InProgress(r))

(* A request as its client sees it.                                         *)
StateOf(r) ==
  IF status[r] # None THEN "replied"
  ELSE IF InProgress(r) THEN "asked"
  ELSE IF route[r] = "lost" THEN "lost" ELSE "new"
DataOf(r) == IF status[r] = 200 THEN toolResults[r] ELSE Agent!NoResults

Contract == INSTANCE ChatContract WITH
    Questions <- Http,
    Exposed <- Agent!ExposedTools,
    Data <- Agent!Data,
    state <- [r \in Http |-> StateOf(r)],
    about <- [r \in Http |-> about[r]],
    status <- [r \in Http |-> status[r]],
    data <- [r \in Http |-> DataOf(r)]

(* What a client of POST /chat may rely on (ChatContract): one reply, and   *)
(* in a 200 only results about the customer asked for (chat.py:20-40).      *)
KeepsContract == Contract!Spec

-----------------------------------------------------------------------------
(* What makes the invariants above inductive.                               *)

AboutOK == \A r \in Tasks : route[r] # "idle" => about[r] \in Customers

Undecided == {"deps", "building", "bound", "querying", "reading", "running"}
StatusOK ==
  \A r \in Tasks :
     /\ route[r] \in {"idle"} \cup Undecided => status[r] = None
     /\ route[r] \in {"leaving", "done"} => status[r] # None

ServingOK == \A r \in Http : InProgress(r) => lifespan = "serving"

(* Nobody asks before the process first serves, so every agent there is     *)
(* then has been built with the tools the client lists.                     *)
Early == {"down", "starting", "listing", "aborting", "entering"}
HasAgent == {"bound", "querying", "reading", "running"}
AgentsOK ==
  /\ lifespan \in Early => agents = <<>> /\ \A r \in Tasks : ~InProgress(r)
  /\ lifespan = "serving" => \A i \in 1..Len(agents) : agents[i] = Tools
  /\ \A r \in Tasks : route[r] \in HasAgent => agent[r] \in 1..Len(agents)

CustomerOK ==
  \A r \in Tasks : route[r] = "running" => customerId[r] = about[r]

HttpOK == \A r \in Tasks : route[r] \in {"querying", "reading"} => r \in Http

ConnOK ==
  /\ \A r \in Tasks :
        conn[r] => r \in Http /\ route[r] \in {"reading", "running", "leaving"}
  /\ Cardinality({r \in Http : conn[r]}) <= PoolSize

ChatInv == AboutOK /\ StatusOK /\ ServingOK /\ AgentsOK /\ CallsMatch /\ CustomerOK
           /\ HttpOK /\ ConnOK

=============================================================================
