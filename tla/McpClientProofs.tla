--------------------------- MODULE McpClientProofs ---------------------------
(***************************************************************************)
(* McpClient, for every number of processes, tasks and tools, with and      *)
(* without the MCP endpoint.                                                *)
(***************************************************************************)
EXTENDS McpClient, SequenceTheorems, TLAPS

None1 == <<>>
Stop1 == <<"stop">>
Stop2 == <<"stop", "http">>

(* The three things the lifespan's exit stack can hold.                     *)
LEMMA StackFacts ==
  /\ Append(None1, "stop") = Stop1
  /\ Append(Stop1, "http") = Stop2
  /\ SubSeq(Stop1, 1, Len(Stop1) - 1) = None1
  /\ SubSeq(Stop2, 1, Len(Stop2) - 1) = Stop1
  /\ Stop1[Len(Stop1)] = "stop"
  /\ Stop2[Len(Stop2)] = "http"
  /\ None1 # Stop1 /\ None1 # Stop2 /\ Stop1 # Stop2
  /\ Stop1[1] = "stop" /\ 1 \in DOMAIN Stop1
  /\ Stop2[1] = "stop" /\ 1 \in DOMAIN Stop2
  /\ {None1, Stop1, Stop2} \subseteq Seq({"stop", "http"})
<1> DEFINE Exits == {"stop", "http"}
<1>2. /\ Len(Stop1) = 1 /\ Len(Stop2) = 2
      /\ Stop1[1] = "stop" /\ Stop2[1] = "stop" /\ Stop2[2] = "http"
      /\ DOMAIN Stop1 = 1..1 /\ DOMAIN Stop2 = 1..2
  BY DEF Stop1, Stop2
<1>3. None1 \in Seq(Exits) /\ Stop1 \in Seq(Exits) /\ Stop2 \in Seq(Exits)
  BY DEF None1, Stop1, Stop2
<1>1. /\ Append(None1, "stop") = Stop1
      /\ Append(Stop1, "http") = Stop2
  <2>1. Append(None1, "stop") \in Seq(Exits) /\ Append(Stop1, "http") \in Seq(Exits)
    BY <1>3
  <2>2. /\ Len(Append(None1, "stop")) = 1
        /\ Append(None1, "stop")[1] = "stop"
    BY DEF None1
  <2>3. /\ Len(Append(Stop1, "http")) = 2
        /\ Append(Stop1, "http")[1] = "stop"
        /\ Append(Stop1, "http")[2] = "http"
    BY DEF Stop1
  <2>4. Append(None1, "stop") = Stop1
    BY <1>2, <1>3, <2>1, <2>2, SeqEqual
  <2>5. Append(Stop1, "http") = Stop2
    BY <1>2, <1>3, <2>1, <2>3, SeqEqual
  <2> QED BY <2>4, <2>5
<1>4. SubSeq(Stop1, 1, 0) = None1
  BY <1>3, <1>2, SubSeqEmpty DEF None1
<1>5. SubSeq(Stop2, 1, 1) = Stop1
  <2>1. /\ SubSeq(Stop2, 1, 1) \in Seq(Exits)
        /\ Len(SubSeq(Stop2, 1, 1)) = 1
        /\ SubSeq(Stop2, 1, 1)[1] = "stop"
    BY <1>2, <1>3
  <2> QED BY <1>2, <1>3, <2>1, SeqEqual
<1>6. None1 # Stop1 /\ None1 # Stop2 /\ Stop1 # Stop2
  BY <1>2 DEF None1
<1> QED BY <1>1, <1>2, <1>3, <1>4, <1>5, <1>6

(* A process's number is never None.                                        *)
LEMMA LaunchFacts == None \notin Launches /\ Launches \subseteq Nat
  BY McpAssumption DEF Launches

-----------------------------------------------------------------------------
Inv == TypeOK /\ McpInv

(* A process that serves has its stop() registered, hence a client.         *)
LEMMA ServingClient ==
  ASSUME Inv, lifespan = "serving"
  PROVE  client = launch /\ client # None /\ tools = ServerTools /\ httpUp = HttpApp
<1>1. stack # <<>>
  BY StackFacts DEF Inv, McpInv, StackOK, None1, Stop1, Stop2
<1>2. client = launch /\ launch \in Launches
  BY <1>1 DEF Inv, McpInv, FieldsOK, Running
<1>3. client # None
  BY <1>2, LaunchFacts
<1> QED BY <1>2, <1>3 DEF Inv, McpInv, FieldsOK, StackOK

LEMMA InvInit == Init => Inv
<1> SUFFICES ASSUME Init PROVE Inv
  OBVIOUS
<1>1. TypeOK
  <2>1. stack \in Seq({"stop", "http"})
    BY StackFacts DEF Init, None1
  <2>2. launch \in 0..MaxLaunches
    BY McpAssumption DEF Init
  <2> QED BY <2>1, <2>2 DEF Init, TypeOK
<1>2. StackOK /\ FieldsOK /\ CallsOK
  BY McpAssumption DEF Init, StackOK, FieldsOK, CallsOK, Running
<1>3. ChildOK
  BY McpAssumption DEF Init, ChildOK, Running
<1> QED BY <1>1, <1>2, <1>3 DEF Inv, McpInv

(* Starting: the child belongs to start() until the fields are published.   *)
LEMMA InvStart ==
  ASSUME Inv,
         Launch \/ StartSpawns \/ StartSpawnRaises \/ StartLists
           \/ StartListRaises \/ StartAborts \/ EnterHttp \/ EnterHttpRaises
  PROVE  Inv'
<1> USE McpAssumption DEF Launches, fields
<1>0. TypeOK /\ StackOK /\ FieldsOK /\ ChildOK /\ CallsOK
  BY DEF Inv, McpInv
<1>1. CASE Launch
  BY <1>0, <1>1 DEF Launch, Inv, McpInv, TypeOK, StackOK, FieldsOK, ChildOK,
                    CallsOK, Running
<1>2. CASE StartSpawns
  BY <1>0, <1>2 DEF StartSpawns, Inv, McpInv, TypeOK, StackOK, FieldsOK,
                    ChildOK, CallsOK, Running
<1>3. CASE StartSpawnRaises
  BY <1>0, <1>3 DEF StartSpawnRaises, Inv, McpInv, TypeOK, StackOK, FieldsOK,
                    ChildOK, CallsOK, Running
<1>4. CASE StartLists
  <2>1. stack = None1 /\ stack' = Stop1
    BY <1>0, <1>4, StackFacts DEF StartLists, StackOK, None1
  <2> QED BY <1>0, <1>4, <2>1, StackFacts
          DEF StartLists, Publish, Inv, McpInv, TypeOK, StackOK, FieldsOK,
              ChildOK, CallsOK, Running, Stop1
<1>5. CASE StartListRaises
  BY <1>0, <1>5 DEF StartListRaises, Inv, McpInv, TypeOK, StackOK, FieldsOK,
                    ChildOK, CallsOK, Running
<1>6. CASE StartAborts
  BY <1>0, <1>6 DEF StartAborts, Inv, McpInv, TypeOK, StackOK, FieldsOK,
                    ChildOK, CallsOK, Running
<1>7. CASE EnterHttp
  <2>1. stack = Stop1 /\ stack' = IF HttpApp THEN Stop2 ELSE Stop1
    BY <1>0, <1>7, StackFacts DEF EnterHttp, StackOK, Stop1
  <2> QED BY <1>0, <1>7, <2>1, StackFacts
          DEF EnterHttp, Inv, McpInv, TypeOK, StackOK, FieldsOK,
              ChildOK, CallsOK, Running, Stop1, Stop2, None1
<1>8. CASE EnterHttpRaises
  BY <1>0, <1>8 DEF EnterHttpRaises, Inv, McpInv, TypeOK, StackOK, FieldsOK,
                    ChildOK, CallsOK, Running
<1> QED BY <1>1, <1>2, <1>3, <1>4, <1>5, <1>6, <1>7, <1>8

(* Stopping: what is registered is undone, the last first.                  *)
LEMMA InvStop ==
  ASSUME Inv,
         Shutdown \/ UnwindHttp \/ StopCloses \/ StopClears \/ StopRaises
           \/ LifespanEnds \/ Crash
  PROVE  Inv'
<1> USE McpAssumption DEF Launches, fields
<1>0. TypeOK /\ StackOK /\ FieldsOK /\ ChildOK /\ CallsOK
  BY DEF Inv, McpInv
<1>1. CASE Shutdown
  BY <1>0, <1>1 DEF Shutdown, Inv, McpInv, TypeOK, StackOK, FieldsOK, ChildOK,
                    CallsOK, Running
<1>2. CASE UnwindHttp
  <2>1. stack = Stop2 /\ stack' = Stop1
    BY <1>0, <1>2, StackFacts
       DEF UnwindHttp, Unwinds, Top, Pop, StackOK, None1, Stop1, Stop2
  <2> QED BY <1>0, <1>2, <2>1, StackFacts
          DEF UnwindHttp, Unwinds, Inv, McpInv, TypeOK, StackOK, FieldsOK,
              ChildOK, CallsOK, Running, None1, Stop1, Stop2
<1>3. CASE StopCloses
  <2>1. stack = Stop1
    BY <1>0, <1>3, StackFacts
       DEF StopCloses, Unwinds, Top, StackOK, None1, Stop1, Stop2
  <2> QED BY <1>0, <1>3, <2>1, StackFacts
          DEF StopCloses, Unwinds, Inv, McpInv, TypeOK, StackOK, FieldsOK,
              ChildOK, CallsOK, Running, None1, Stop1, Stop2
<1>4. CASE StopClears \/ StopRaises
  <2>1. stack = Stop1 /\ stack' = None1
    BY <1>0, <1>4, StackFacts DEF StopClears, StopRaises, Pop, StackOK, Stop1
  <2> QED BY <1>0, <1>4, <2>1, StackFacts
          DEF StopClears, StopRaises, Clear, Inv, McpInv, TypeOK, StackOK,
              FieldsOK, ChildOK, CallsOK, Running, None1, Stop1, Stop2
<1>5. CASE LifespanEnds \/ Crash
  <2>1. Exit
    BY <1>5 DEF LifespanEnds, Crash
  <2>2. stack' \in Seq({"stop", "http"})
    BY <2>1, StackFacts DEF Exit, None1
  <2>3. TypeOK'
    BY <1>0, <2>1, <2>2 DEF Exit, Clear, TypeOK
  <2>4. StackOK' /\ FieldsOK' /\ CallsOK'
    BY <2>1 DEF Exit, Clear, StackOK, FieldsOK, CallsOK, Running
  <2>5. ChildOK'
    BY <1>0, <2>1 DEF Exit, ChildOK, Running
  <2> QED BY <2>3, <2>4, <2>5 DEF Inv, McpInv
<1> QED BY <1>1, <1>2, <1>3, <1>4, <1>5

(* The child's own steps and the calls.                                     *)
LEMMA InvCalls ==
  ASSUME Inv,
         \/ ChildDies
         \/ \E n \in Launches : ChildSeesEof(n)
         \/ \E c \in Callers : CallTool(c) \/ CallEnds(c)
  PROVE  Inv'
<1> USE McpAssumption DEF Launches, fields
<1>0. TypeOK /\ StackOK /\ FieldsOK /\ ChildOK /\ CallsOK
  BY DEF Inv, McpInv
<1>1. ASSUME NEW n \in Launches, ChildExits(n) PROVE Inv'
  BY <1>0, <1>1 DEF ChildExits, Inv, McpInv, TypeOK, StackOK, FieldsOK,
                    ChildOK, CallsOK, Running
<1>2. ASSUME NEW c \in Callers, CallTool(c) PROVE Inv'
  <2>1. lifespan = "serving" => client # None
    BY ServingClient
  <2> QED BY <1>0, <1>2, <2>1
          DEF CallTool, Serves, Inv, McpInv, TypeOK, StackOK, FieldsOK,
              ChildOK, CallsOK, Running
<1>3. ASSUME NEW c \in Callers, CallEnds(c) PROVE Inv'
  BY <1>0, <1>3 DEF CallEnds, CallReturns, CallRaises, Inv, McpInv, TypeOK,
                    StackOK, FieldsOK, ChildOK, CallsOK, Running
<1> QED BY <1>1, <1>2, <1>3 DEF ChildDies, ChildSeesEof

LEMMA Invariance == Spec => []Inv
<1>1. Inv /\ [Next]_vars => Inv'
  <2>1. Inv /\ Next => Inv'
    BY InvStart, InvStop, InvCalls DEF Next, LifespanStep
  <2>2. Inv /\ UNCHANGED vars => Inv'
    BY DEF vars, Inv, McpInv, TypeOK, StackOK, FieldsOK, ChildOK, CallsOK,
           Running
  <2> QED BY <2>1, <2>2
<1> QED BY InvInit, <1>1, PTL DEF Spec

(* Every variable keeps its type.                                           *)
THEOREM TypeCorrect == Spec => []TypeOK
<1>1. Inv => TypeOK
  BY DEF Inv
<1> QED BY <1>1, Invariance, PTL

(* MCPClient's fields are set and cleared together.                         *)
THEOREM FieldsTogether == Spec => []FieldsAgree
<1>1. Inv => FieldsAgree
  BY DEF Inv, McpInv, FieldsOK, FieldsAgree
<1> QED BY <1>1, Invariance, PTL

(* A live server of the running process has someone who will close it.      *)
THEOREM NoOrphan == Spec => []ChildHasOwner
<1>1. Inv => ChildHasOwner
  <2> SUFFICES ASSUME Inv, Running, child[launch] = "up", localStack # launch
               PROVE  exitStack = launch /\ \E i \in DOMAIN stack : stack[i] = "stop"
    BY DEF ChildHasOwner
  <2>1. stack # <<>> /\ client = launch /\ exitStack = client
    BY DEF Inv, McpInv, ChildOK, FieldsOK
  <2>2. stack = Stop1 \/ stack = Stop2
    BY <2>1 DEF Inv, McpInv, StackOK, Stop1, Stop2
  <2> QED BY <2>1, <2>2, StackFacts
<1> QED BY <1>1, Invariance, PTL

(* A process that serves is connected, with its tools and its endpoint.     *)
THEOREM Ready == Spec => []ServingIsReady
<1>1. Inv => ServingIsReady
  BY ServingClient DEF ServingIsReady
<1> QED BY <1>1, Invariance, PTL

(* Whatever failed, a lifespan leaves neither a server nor an endpoint up.  *)
THEOREM Clean == Spec => []EndsClean
<1>1. Inv => EndsClean
  <2> SUFFICES ASSUME Inv, lifespan = "unwinding", stack = <<>>
               PROVE  child[launch] # "up" /\ ~httpUp
    BY DEF EndsClean
  <2>1. ~httpUp
    BY StackFacts DEF Inv, McpInv, StackOK, None1, Stop2
  <2>2. localStack = None /\ launch \in Launches /\ Running
    BY DEF Inv, McpInv, ChildOK, FieldsOK, Running
  <2>3. localStack # launch
    BY <2>2, LaunchFacts
  <2> QED BY <2>1, <2>2, <2>3 DEF Inv, McpInv, ChildOK
<1> QED BY <1>1, Invariance, PTL

(* No request that uvicorn lets in meets an unset client (main.py:63-72).   *)
THEOREM NeverRefused == Spec => []NoRefusedRequest
<1>1. Inv => NoRefusedRequest
  BY DEF Inv, McpInv, CallsOK, NoRefusedRequest
<1> QED BY <1>1, Invariance, PTL

-----------------------------------------------------------------------------
(* Shutting down.  What ShutdownCompletes needs beside fairness.            *)

(* Where the lifespan goes on by itself, it always can: start() finds no    *)
(* exit_stack, and the exit on top is one that can run (mcp_client.py:46-68,*)
(* main.py:63-72).                                                          *)
LifespanGoesOn ==
  /\ lifespan = "starting" => exitStack = None
  /\ lifespan = "unwinding" =>
        stack = <<>> \/ Top = "http" \/ (Top = "stop" /\ exitStack # None)

(* The steps a process's lifespan has still to make, at most.               *)
StepsToEnd ==
  CASE lifespan = "starting" -> 9
    [] lifespan = "listing" -> 8
    [] lifespan = "entering" -> 7
    [] lifespan = "serving" -> 6
    [] lifespan = "aborting" -> 2
    [] lifespan = "unwinding" -> 2 * Len(stack) + 1
    [] lifespan = "closing" -> 2 * Len(stack)
    [] lifespan = "down" -> 0

(* Each step of the lifespan, or its crash, brings its end nearer, and no   *)
(* call and no server's death puts it off (main.py:63-72).                  *)
EveryExitIsSpent ==
  [][/\ LifespanStep \/ Shutdown \/ Crash => StepsToEnd' < StepsToEnd
     /\ ~Launch => StepsToEnd' <= StepsToEnd]_vars

(* A shutdown never finds that the exit it has to run cannot, whatever of   *)
(* start() and stop() has failed before (mcp_client.py:46-68).              *)
THEOREM ShutdownNeverSticks == Spec => []LifespanGoesOn
<1>1. Inv => LifespanGoesOn
  <2> SUFFICES ASSUME Inv PROVE LifespanGoesOn
    OBVIOUS
  <2>1. lifespan = "starting" => exitStack = None
    BY DEF Inv, McpInv, FieldsOK
  <2>2. ASSUME lifespan = "unwinding", stack # <<>>
        PROVE  Top = "http" \/ (Top = "stop" /\ exitStack # None)
    <3>1. stack \in {Stop1, Stop2}
      BY <2>2 DEF Inv, McpInv, StackOK, Stop1, Stop2
    <3>2. exitStack = launch /\ launch \in Launches
      BY <2>2 DEF Inv, McpInv, FieldsOK, Running
    <3>3. exitStack # None
      BY <3>2, LaunchFacts
    <3> QED
      BY <3>1, <3>3, StackFacts DEF Top
  <2> QED
    BY <2>1, <2>2 DEF LifespanGoesOn
<1> QED BY <1>1, Invariance, PTL

(* StepsToEnd, one case at a time.                                          *)
LEMMA StepsToEndIs ==
  /\ lifespan = "starting" => StepsToEnd = 9
  /\ lifespan = "listing" => StepsToEnd = 8
  /\ lifespan = "entering" => StepsToEnd = 7
  /\ lifespan = "serving" => StepsToEnd = 6
  /\ lifespan = "aborting" => StepsToEnd = 2
  /\ lifespan = "unwinding" => StepsToEnd = 2 * Len(stack) + 1
  /\ lifespan = "closing" => StepsToEnd = 2 * Len(stack)
  /\ lifespan = "down" => StepsToEnd = 0
BY DEF StepsToEnd

(* How many exits are registered.                                           *)
LEMMA StackLength ==
  ASSUME Inv
  PROVE  /\ Len(stack) \in 0..2
         /\ lifespan \in {"starting", "listing", "aborting"} => Len(stack) = 0
         /\ lifespan \in {"entering", "closing"} => Len(stack) = 1
         /\ stack # <<>> => Len(Pop) = Len(stack) - 1
<1>1. Len(None1) = 0 /\ Len(Stop1) = 1 /\ Len(Stop2) = 2
  BY DEF None1, Stop1, Stop2
<1>2. /\ stack \in {None1, Stop1, Stop2}
      /\ lifespan \in {"starting", "listing", "aborting"} => stack = None1
      /\ lifespan \in {"entering", "closing"} => stack = Stop1
  BY DEF Inv, McpInv, StackOK, None1, Stop1, Stop2
<1> QED
  BY <1>1, <1>2, StackFacts DEF Pop, None1

(* Nine steps at most, and one at least while a process runs.               *)
LEMMA StepsAreBounded ==
  ASSUME Inv
  PROVE  StepsToEnd \in 0..9 /\ (lifespan # "down" => StepsToEnd >= 1)
<1>1. lifespan \in {"down", "starting", "listing", "aborting", "entering",
                    "serving", "unwinding", "closing"}
  BY DEF Inv, TypeOK
<1>2. Len(stack) \in 0..2 /\ (lifespan = "closing" => Len(stack) = 1)
  BY StackLength
<1> DEFINE n == Len(stack)
<1>3. lifespan = "unwinding" => StepsToEnd = 2 * n + 1
  BY StepsToEndIs
<1>4. lifespan = "closing" => StepsToEnd = 2 * n
  BY StepsToEndIs
<1> HIDE DEF n
<1>5. n \in 0..2 /\ (lifespan = "closing" => n = 1)
  BY <1>2 DEF n
<1> QED
  BY <1>1, <1>3, <1>4, <1>5, StepsToEndIs

(* Each step of the lifespan leaves fewer.                                  *)
LEMMA LifespanCosts ==
  ASSUME Inv, LifespanStep \/ Shutdown \/ Crash
  PROVE  StepsToEnd' < StepsToEnd
<1>1. CASE \/ StartSpawns \/ StartSpawnRaises \/ StartLists \/ StartListRaises
           \/ StartAborts \/ EnterHttp
  <2>1. \/ lifespan = "starting" /\ lifespan' = "listing"
        \/ lifespan = "starting" /\ lifespan' = "unwinding" /\ stack' = stack
        \/ lifespan = "listing" /\ lifespan' \in {"entering", "aborting"}
        \/ lifespan = "aborting" /\ lifespan' = "unwinding" /\ stack' = stack
        \/ lifespan = "entering" /\ lifespan' = "serving"
    BY <1>1 DEF StartSpawns, StartSpawnRaises, StartLists, StartListRaises, StartAborts,
                EnterHttp
  <2> QED
    BY <2>1, StackLength, StepsToEndIs DEF StepsToEnd
<1>2. CASE EnterHttpRaises \/ Shutdown
  <2>1. lifespan \in {"entering", "serving"} /\ lifespan' = "unwinding" /\ stack' = stack
    BY <1>2 DEF EnterHttpRaises, Shutdown
  <2>2. StepsToEnd \in {6, 7}
    BY <2>1, StepsToEndIs
  <2> DEFINE n == Len(stack)
  <2>3. StepsToEnd' = 2 * n + 1
    BY <2>1 DEF StepsToEnd
  <2> HIDE DEF n
  <2>4. n \in 0..2
    BY StackLength DEF n
  <2> QED
    BY <2>2, <2>3, <2>4
<1>3. CASE UnwindHttp
  <2>1. /\ lifespan = "unwinding" /\ lifespan' = "unwinding"
        /\ stack # <<>> /\ stack' = Pop
    BY <1>3 DEF UnwindHttp, Unwinds
  <2>2. StepsToEnd' = 2 * Len(stack') + 1 /\ StepsToEnd = 2 * Len(stack) + 1
    BY <2>1, StepsToEndIs DEF StepsToEnd
  <2>3. Len(stack') = Len(stack) - 1 /\ Len(stack) \in Int
    BY <2>1, StackLength
  <2> QED
    BY <2>2, <2>3
<1>4. CASE StopCloses
  <2>1. lifespan = "unwinding" /\ lifespan' = "closing" /\ stack' = stack
    BY <1>4 DEF StopCloses, Unwinds
  <2>2. StepsToEnd' = 2 * Len(stack')
    BY <2>1 DEF StepsToEnd
  <2> QED
    BY <2>1, <2>2, StackLength, StepsToEndIs
<1>5. CASE StopClears \/ StopRaises
  <2>1. lifespan = "closing" /\ lifespan' = "unwinding" /\ stack' = Pop
    BY <1>5 DEF StopClears, StopRaises
  <2>2. StepsToEnd' = 2 * Len(stack') + 1
    BY <2>1 DEF StepsToEnd
  <2>3. Len(stack) = 1 /\ stack # <<>>
    BY <2>1, StackLength, StackFacts DEF Inv, McpInv, StackOK, None1, Stop1
  <2>4. Len(stack') = 0
    BY <2>1, <2>3, StackLength
  <2>5. StepsToEnd' = 1
    BY <2>2, <2>4
  <2>6. StepsToEnd = 2
    BY <2>1, <2>3, StepsToEndIs
  <2> QED
    BY <2>5, <2>6
<1>6. CASE LifespanEnds \/ Crash
  <2>1. lifespan # "down" /\ lifespan' = "down"
    BY <1>6 DEF LifespanEnds, Crash, Exit, Running
  <2>2. StepsToEnd' = 0
    BY <2>1 DEF StepsToEnd
  <2>3. StepsToEnd \in 1..9
    BY <2>1, StepsAreBounded
  <2> QED
    BY <2>2, <2>3
<1> QED
  BY <1>1, <1>2, <1>3, <1>4, <1>5, <1>6 DEF LifespanStep

(* So a lifespan that unwinds reaches its end, and one that starts serves   *)
(* or ends (main.py:63-72).                                                 *)
THEOREM ExitsRunOut == Spec => EveryExitIsSpent
<1>1. ASSUME Inv, [Next]_vars, ~(LifespanStep \/ Shutdown \/ Crash \/ Launch)
      PROVE  StepsToEnd' = StepsToEnd
  <2>1. UNCHANGED <<lifespan, stack>>
    BY <1>1 DEF Next, ChildDies, ChildSeesEof, ChildExits, CallTool, CallEnds, CallReturns,
                CallRaises, vars
  <2> QED
    BY <2>1 DEF StepsToEnd
<1>2. Inv => StepsToEnd \in 0..9
  BY StepsAreBounded
<1>3. (Inv => StepsToEnd \in 0..9)'
  BY <1>2, PTL
<1>4. Inv /\ Inv' /\ [Next]_vars
        => [/\ LifespanStep \/ Shutdown \/ Crash => StepsToEnd' < StepsToEnd
            /\ ~Launch => StepsToEnd' <= StepsToEnd]_vars
  <2> SUFFICES ASSUME Inv, Inv', [Next]_vars
               PROVE  /\ LifespanStep \/ Shutdown \/ Crash => StepsToEnd' < StepsToEnd
                      /\ ~Launch => StepsToEnd' <= StepsToEnd
    OBVIOUS
  <2>1. CASE LifespanStep \/ Shutdown \/ Crash
    BY <1>2, <1>3, <2>1, LifespanCosts
  <2>2. CASE ~(LifespanStep \/ Shutdown \/ Crash)
    BY <1>1, <1>2, <2>2
  <2> QED
    BY <2>1, <2>2
<1> QED
  BY <1>4, Invariance, PTL DEF Spec, EveryExitIsSpent

=============================================================================
