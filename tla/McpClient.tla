------------------------------ MODULE McpClient ------------------------------
(***************************************************************************)
(* The application's one MCP connection (app/services/mcp_client.py) under  *)
(* the FastAPI lifespan that owns it (app/main.py).  A process of the       *)
(* application starts the MCP server as a child process, keeps its tool     *)
(* list, calls its tools for every question, and closes it on shutdown.     *)
(*                                                                         *)
(* Launch n is the n-th process of the application; its child is child[n].  *)
(* start and stop await between their steps, so tool calls interleave with  *)
(* them; each may fail, the child may exit at any moment, and the process   *)
(* may be killed.                                                           *)
(***************************************************************************)
EXTENDS Integers, Sequences

CONSTANTS
  Callers,      \* tasks that call tools
  HttpCallers,  \* those uvicorn waits for before it shuts the lifespan down
  ServerTools,  \* the tools the server advertises
  MaxLaunches,  \* processes of the application considered
  HttpApp,      \* settings.mcp_http_token is set
  None          \* Python's None

ASSUME McpAssumption ==
  /\ HttpCallers \subseteq Callers
  /\ MaxLaunches \in Nat
  /\ HttpApp \in BOOLEAN
  /\ ServerTools # {}
  /\ None \notin Nat

VARIABLES
  launch,     \* the current process, 0 before the first
  lifespan,   \* where its lifespan is, "down" when no process runs
  stack,      \* lifespan's AsyncExitStack, last entry exits first
  localStack, \* the child held by the exit_stack inside a running start()
  exitStack,  \* MCPClient._exit_stack: the child it would close
  client,     \* MCPClient._client: the child it talks to
  tools,      \* MCPClient._tools
  httpUp,     \* the MCP HTTP application's own lifespan is entered
  child,      \* each process's MCP server
  calls       \* each task's tool call

vars == <<launch, lifespan, stack, localStack, exitStack, client, tools,
          httpUp, child, calls>>
fields == <<exitStack, client, tools>>

Launches == 1..MaxLaunches
Running == lifespan # "down"

(* The last lines of start().                                               *)
Publish ==
  /\ exitStack' = localStack
  /\ client' = localStack
  /\ tools' = ServerTools

(* The fields of a fresh MCPClient, and the last lines of stop().           *)
Clear ==
  /\ exitStack' = None
  /\ client' = None
  /\ tools' = {}

-----------------------------------------------------------------------------
Init ==
  /\ launch = 0
  /\ lifespan = "down"
  /\ stack = <<>>
  /\ localStack = None
  /\ exitStack = None
  /\ client = None
  /\ tools = {}
  /\ httpUp = FALSE
  /\ child = [n \in Launches |-> "none"]
  /\ calls = [c \in Callers |-> "idle"]

(* A new process: a fresh MCPClient, and lifespan awaits its start().       *)
Launch ==
  /\ ~Running
  /\ launch < MaxLaunches
  /\ launch' = launch + 1
  /\ lifespan' = "starting"
  /\ UNCHANGED <<stack, localStack, fields, httpUp, child, calls>>

(* start(): entering the Client's context spawns the server.                *)
StartSpawns ==
  /\ lifespan = "starting"
  /\ exitStack = None
  /\ child' = [child EXCEPT ![launch] = "up"]
  /\ localStack' = launch
  /\ lifespan' = "listing"
  /\ UNCHANGED <<launch, stack, fields, httpUp, calls>>

(* start(): the context cannot be entered; start() re-raises.               *)
StartSpawnRaises ==
  /\ lifespan = "starting"
  /\ exitStack = None
  /\ lifespan' = "unwinding"
  /\ UNCHANGED <<launch, stack, localStack, fields, httpUp, child, calls>>

(* start(): list_tools returned.  The three fields are published and        *)
(* lifespan registers stop() without an await in between.                   *)
StartLists ==
  /\ lifespan = "listing"
  /\ child[launch] = "up"
  /\ Publish
  /\ localStack' = None
  /\ stack' = Append(stack, "stop")
  /\ lifespan' = "entering"
  /\ UNCHANGED <<launch, httpUp, child, calls>>

(* Variants, which nothing below uses, stand before what they vary: a       *)
(* plausible slip in the code, named for what it does.                      *)
(* Variant: start() does not catch it.                                      *)
StartListRaisesUncaught ==
  /\ lifespan = "listing"
  /\ lifespan' = "unwinding"
  /\ localStack' = None
  /\ UNCHANGED <<launch, stack, fields, httpUp, child, calls>>

(* start(): list_tools raises, or the task is cancelled.                    *)
StartListRaises ==
  /\ lifespan = "listing"
  /\ lifespan' = "aborting"
  /\ UNCHANGED <<launch, stack, localStack, fields, httpUp, child, calls>>

(* start(): the except clause closes what was opened, then re-raises.       *)
StartAborts ==
  /\ lifespan = "aborting"
  /\ child' = [child EXCEPT ![localStack] = "exited"]
  /\ localStack' = None
  /\ lifespan' = "unwinding"
  /\ UNCHANGED <<launch, stack, fields, httpUp, calls>>

(* lifespan enters the MCP HTTP application's lifespan, if there is one.    *)
EnterHttp ==
  /\ lifespan = "entering"
  /\ stack' = IF HttpApp THEN Append(stack, "http") ELSE stack
  /\ httpUp' = HttpApp
  /\ lifespan' = "serving"
  /\ UNCHANGED <<launch, localStack, fields, child, calls>>

EnterHttpRaises ==
  /\ lifespan = "entering"
  /\ HttpApp
  /\ lifespan' = "unwinding"
  /\ UNCHANGED <<launch, stack, localStack, fields, httpUp, child, calls>>

(* External: uvicorn got its signal and has waited for the requests that    *)
(* are calling a tool.                                                      *)
Shutdown ==
  /\ lifespan = "serving"
  /\ \A c \in HttpCallers : calls[c] = "idle"
  /\ lifespan' = "unwinding"
  /\ UNCHANGED <<launch, stack, localStack, fields, httpUp, child, calls>>

-----------------------------------------------------------------------------
(* Leaving the lifespan runs the registered exits, last one first.          *)

Top == stack[Len(stack)]
Pop == SubSeq(stack, 1, Len(stack) - 1)
Unwinds(exit) == lifespan = "unwinding" /\ stack # <<>> /\ Top = exit

(* Variant: the first exit is the only one.                                 *)
UnwindHttpOnly ==
  /\ Unwinds("http")
  /\ stack' = <<>>
  /\ httpUp' = FALSE
  /\ UNCHANGED <<launch, lifespan, localStack, fields, child, calls>>

UnwindHttp ==
  /\ Unwinds("http")
  /\ stack' = Pop
  /\ httpUp' = FALSE
  /\ UNCHANGED <<launch, lifespan, localStack, fields, child, calls>>

(* Variant: stop() first waits until nobody calls a tool.                   *)
StopWaits ==
  /\ Unwinds("stop")
  /\ exitStack # None
  /\ \A c \in Callers : calls[c] = "idle"
  /\ child' = [child EXCEPT ![exitStack] = "exited"]
  /\ lifespan' = "closing"
  /\ UNCHANGED <<launch, stack, localStack, fields, httpUp, calls>>

(* stop(): aclose() ends the child, the fields are still set.               *)
StopCloses ==
  /\ Unwinds("stop")
  /\ exitStack # None
  /\ child' = [child EXCEPT ![exitStack] = "exited"]
  /\ lifespan' = "closing"
  /\ UNCHANGED <<launch, stack, localStack, fields, httpUp, calls>>

(* stop(): aclose() returned.                                               *)
StopClears ==
  /\ lifespan = "closing"
  /\ Clear
  /\ stack' = Pop
  /\ lifespan' = "unwinding"
  /\ UNCHANGED <<launch, localStack, httpUp, child, calls>>

(* stop(): aclose() raised, nothing is cleared.                             *)
StopRaises ==
  /\ lifespan = "closing"
  /\ stack' = Pop
  /\ lifespan' = "unwinding"
  /\ UNCHANGED <<launch, localStack, fields, httpUp, child, calls>>

(* The process is gone, and with it every field and every task.             *)
Exit ==
  /\ lifespan' = "down"
  /\ stack' = <<>>
  /\ localStack' = None
  /\ Clear
  /\ httpUp' = FALSE
  /\ calls' = [c \in Callers |-> "idle"]
  /\ UNCHANGED <<launch, child>>

LifespanEnds ==
  /\ lifespan = "unwinding"
  /\ stack = <<>>
  /\ Exit

Crash ==
  /\ Running
  /\ Exit

ChildExits(n) ==
  /\ child[n] = "up"
  /\ child' = [child EXCEPT ![n] = "exited"]
  /\ UNCHANGED <<launch, lifespan, stack, localStack, fields, httpUp, calls>>

(* The MCP server exits on its own; nothing in the process notices ...      *)
ChildDies == Running /\ launch \in Launches /\ ChildExits(launch)

(* ... or it exits because the process that held its standard input did.    *)
ChildSeesEof(n) == ~(Running /\ n = launch) /\ ChildExits(n)

-----------------------------------------------------------------------------
(* call_tool, by the tasks that live from the first request on.  uvicorn's  *)
(* requests are over when the lifespan unwinds; Gradio's queued events are  *)
(* not waited for.                                                          *)
Serves(c) ==
  \/ lifespan = "serving"
  \/ lifespan \in {"unwinding", "closing"} /\ c \notin HttpCallers

CallTool(c) ==
  /\ Serves(c)
  /\ calls[c] = "idle"
  /\ calls' = [calls EXCEPT ![c] = IF client = None THEN "refused" ELSE "sent"]
  /\ UNCHANGED <<launch, lifespan, stack, localStack, fields, httpUp, child>>

(* A result that is not an error comes back.                                *)
CallReturns(c) ==
  /\ calls[c] = "sent"
  /\ child[launch] = "up"
  /\ calls' = [calls EXCEPT ![c] = "idle"]
  /\ UNCHANGED <<launch, lifespan, stack, localStack, fields, httpUp, child>>

(* RuntimeError: not started, or an error result; or the connection closed. *)
CallRaises(c) ==
  /\ calls[c] # "idle"
  /\ calls' = [calls EXCEPT ![c] = "idle"]
  /\ UNCHANGED <<launch, lifespan, stack, localStack, fields, httpUp, child>>

-----------------------------------------------------------------------------
(* What the code does by itself once it may run.                            *)
LifespanStep ==
  \/ StartSpawns \/ StartSpawnRaises \/ StartLists \/ StartListRaises
  \/ StartAborts \/ EnterHttp \/ EnterHttpRaises
  \/ UnwindHttp \/ StopCloses \/ StopClears \/ StopRaises \/ LifespanEnds

CallEnds(c) == CallReturns(c) \/ CallRaises(c)

Next ==
  \/ Launch \/ Shutdown \/ Crash
  \/ LifespanStep
  \/ ChildDies
  \/ \E n \in Launches : ChildSeesEof(n)
  \/ \E c \in Callers : CallTool(c) \/ CallEnds(c)

Spec == Init /\ [][Next]_vars

(* The event loop runs the lifespan when it can; a server whose standard    *)
(* input is closed exits.  A tool call need never be answered: it has no    *)
(* timeout (mcp_client.py:78).                                              *)
FairSpec ==
  /\ Spec
  /\ WF_vars(LifespanStep)
  /\ \A n \in Launches : WF_vars(ChildSeesEof(n))

-----------------------------------------------------------------------------
(* Properties.                                                              *)

(* Every variable keeps its type.                                           *)
TypeOK ==
  /\ launch \in 0..MaxLaunches
  /\ lifespan \in {"down", "starting", "listing", "aborting", "entering",
                   "serving", "unwinding", "closing"}
  /\ stack \in Seq({"stop", "http"})
  /\ localStack \in Launches \cup {None}
  /\ exitStack \in Launches \cup {None}
  /\ client \in Launches \cup {None}
  /\ tools \in {{}, ServerTools}
  /\ httpUp \in BOOLEAN
  /\ child \in [Launches -> {"none", "up", "exited"}]
  /\ calls \in [Callers -> {"idle", "sent", "refused"}]

(* The three fields of MCPClient are set and cleared together, at every     *)
(* await of start() and stop() (mcp_client.py:45-68): a task that sees a    *)
(* client also sees its tools, and stop() would close that same child.      *)
FieldsAgree ==
  /\ client = exitStack
  /\ tools = IF client = None THEN {} ELSE ServerTools

(* A live server always has someone who will close it: a start() that has   *)
(* not handed it over yet, or a stop() registered with the lifespan         *)
(* (mcp_client.py:50-61, main.py:65-71).  Otherwise its process is gone.    *)
ChildHasOwner ==
  \A n \in Launches :
     child[n] = "up" /\ Running /\ n = launch =>
        \/ localStack = n
        \/ exitStack = n /\ (\E i \in DOMAIN stack : stack[i] = "stop")

(* While requests are served the client is set, its tools are listed and    *)
(* the MCP endpoint, if configured, is up (main.py:63-72).                  *)
ServingIsReady ==
  lifespan = "serving" =>
     /\ client = launch
     /\ tools = ServerTools
     /\ httpUp = HttpApp

(* Whatever failed on the way, the lifespan gives everything back before    *)
(* its process ends: the server is closed and the MCP endpoint left.        *)
EndsClean ==
  lifespan = "unwinding" /\ stack = <<>> =>
     /\ child[launch] # "up"
     /\ ~httpUp

(* A request that uvicorn lets in never finds the client unset              *)
(* (main.py:63-72, mcp_client.py:74-77).                                    *)
NoRefusedRequest == \A c \in HttpCallers : calls[c] # "refused"

(* A process that begins to shut down ends, and its server with it, also    *)
(* when that server leaves a queued question's call unanswered for ever     *)
(* (mcp_client.py:63-68, 78).                                               *)
ShutdownCompletes ==
  \A n \in Launches :
     launch = n /\ lifespan = "unwinding" ~>
        ~(launch = n /\ Running) /\ child[n] # "up"

-----------------------------------------------------------------------------
(* What makes the invariants above inductive.  Where the lifespan is fixes  *)
(* what is registered, what is published and who holds the child.           *)

Registered(exit) == \E i \in DOMAIN stack : stack[i] = exit

StackOK ==
  /\ stack \in {<<>>, <<"stop">>, <<"stop", "http">>}
  /\ httpUp => stack = <<"stop", "http">>
  /\ lifespan \in {"down", "starting", "listing", "aborting"} => stack = <<>>
  /\ lifespan = "entering" => stack = <<"stop">>
  /\ lifespan = "closing" => stack = <<"stop">>
  /\ lifespan = "serving" =>
        stack = IF HttpApp THEN <<"stop", "http">> ELSE <<"stop">>
  /\ lifespan = "serving" => httpUp = HttpApp

FieldsOK ==
  /\ client = exitStack
  /\ tools = IF client = None THEN {} ELSE ServerTools
  /\ lifespan \in {"down", "starting", "listing", "aborting"} => client = None
  /\ Running => launch \in Launches
  /\ stack # <<>> => client = launch
  /\ client # None => client = launch

ChildOK ==
  /\ lifespan \in {"listing", "aborting"} <=> localStack # None
  /\ localStack # None => localStack = launch
  /\ lifespan = "starting" => child[launch] = "none"
  /\ lifespan = "closing" => child[launch] # "up"
  /\ \A n \in Launches : n > launch => child[n] = "none"
  /\ Running /\ child[launch] = "up" => localStack = launch \/ stack # <<>>

CallsOK ==
  \A c \in HttpCallers :
     /\ calls[c] # "refused"
     /\ lifespan # "serving" => calls[c] = "idle"

McpInv == StackOK /\ FieldsOK /\ ChildOK /\ CallsOK

=============================================================================
