--------------------------- MODULE McpAccessProofs ---------------------------
(***************************************************************************)
(* Who is let in to the MCP server over HTTP.  First OAuth, for any         *)
(* connectors, bounds and faults: what the provider's memory holds is tied  *)
(* to what has happened - a code in _codes was issued by this start, has    *)
(* been given once, and was never exchanged.  Then Deployment, for any      *)
(* tokens: a status answers for the settings its program still runs with.   *)
(***************************************************************************)
EXTENDS OAuth, Deployment, TLAPS

(* A code in _codes was issued to that client by this start of the server.  *)
Backed(k) ==
  \E i \in issued :
     /\ i.code = k.code
     /\ i.client = k.client
     /\ i.start = starts
     /\ i.at <= now
     /\ k.expires_at = i.at + TTL

Old(n) == n <= drawn

CodesOK ==
  /\ \A k \in codes : Backed(k) /\ Old(k.code)
  /\ \A k, m \in codes : k.code = m.code => k = m

GrantsOK ==
  \A i \in DOMAIN grants :
     /\ Old(grants[i].code)
     /\ \A k \in codes : k.code # grants[i].code

IInv == TypeOK /\ CodesOK /\ GrantsOK /\ CodeOnce /\ GrantsJustified

LEMMA InvInit == Init => IInv
  BY OAuthAssumption
  DEF Init, IInv, TypeOK, CodesOK, GrantsOK, CodeOnce, GrantsJustified, Code, Issue

-----------------------------------------------------------------------------
(* The types.                                                               *)

LEMMA LostTypes ==
  ASSUME TypeOK, Lost
  PROVE  /\ faults' \in 0..MaxFaults
         /\ id' = id /\ code' = code /\ held' = held
  BY OAuthAssumption DEF TypeOK, Lost, connectors

LEMMA TypeNext == TypeOK /\ [Next]_vars => TypeOK'
<1> SUFFICES ASSUME TypeOK, [Next]_vars PROVE TypeOK'
  OBVIOUS
<1> USE OAuthAssumption
<1>1. ASSUME NEW c \in Connectors, Register(c) PROVE TypeOK'
  BY <1>1 DEF TypeOK, Register, Draw, Arrives, Lost, connectors, Code
<1>2. ASSUME NEW c \in Connectors, Authorize(c) PROVE TypeOK'
  <2>1. drawn' \in 1..MaxDrawn /\ id[c] \in 1..MaxDrawn
    BY <1>2 DEF TypeOK, Authorize, Draw
  <2>2. /\ [code |-> drawn', client |-> id[c], expires_at |-> ExpiresAt] \in Code
        /\ [code |-> drawn', client |-> id[c], at |-> now, start |-> starts] \in Issue
    BY <2>1 DEF TypeOK, ExpiresAt, Code, Issue
  <2>3. codes' \subseteq Code /\ \A k \in codes' : k.client \in clients'
    BY <1>2, <2>2 DEF TypeOK, Authorize
  <2>4. CASE Arrives /\ code' = [code EXCEPT ![c] = drawn'] /\ UNCHANGED <<id, held>>
    BY <1>2, <2>1, <2>2, <2>3, <2>4 DEF TypeOK, Authorize, Draw, Arrives
  <2>5. CASE Lost
    BY <1>2, <2>1, <2>2, <2>3, <2>5, LostTypes DEF TypeOK, Authorize, Draw
  <2> QED
    BY <1>2, <2>4, <2>5 DEF Authorize
<1>3. ASSUME NEW c \in Connectors, Unknown(c) PROVE TypeOK'
  BY <1>3 DEF TypeOK, Unknown, server
<1>4. ASSUME NEW c \in Connectors, Exchange(c) PROVE TypeOK'
  <2>1. PICK k \in Redeemable(c) :
          /\ codes' = Pop(k)
          /\ grants' = Append(grants, [code |-> k.code, client |-> id[c],
                                       at |-> now, start |-> starts])
    BY <1>4 DEF Exchange
  <2>2. [code |-> k.code, client |-> id[c], at |-> now, start |-> starts] \in Issue
    BY <1>4 DEF TypeOK, Exchange, Redeemable, Code, Issue
  <2>3. grants' \in Seq(Issue) /\ codes' \subseteq codes
    BY <2>1, <2>2 DEF TypeOK, Pop
  <2>4. CASE /\ Arrives
             /\ held' = [held EXCEPT ![c] = token]
             /\ code' = [code EXCEPT ![c] = 0]
             /\ UNCHANGED id
    BY <1>4, <2>3, <2>4 DEF TypeOK, Exchange, Arrives
  <2>5. CASE Lost
    BY <1>4, <2>3, <2>5, LostTypes DEF TypeOK, Exchange
  <2> QED
    BY <1>4, <2>4, <2>5 DEF Exchange
<1>5. ASSUME NEW c \in Connectors, InvalidGrant(c) PROVE TypeOK'
  BY <1>5 DEF TypeOK, InvalidGrant, server
<1>6. ASSUME NEW c \in Connectors, Unauthorized(c) PROVE TypeOK'
  BY <1>6 DEF TypeOK, Unauthorized, server
<1>7. CASE Restart
  BY <1>7 DEF TypeOK, Restart, LoseMemory, connectors
<1>8. CASE Tick
  BY <1>8 DEF TypeOK, Tick, server, connectors
<1>9. CASE UNCHANGED vars
  BY <1>9 DEF TypeOK, vars, server, connectors
<1> QED
  BY <1>1, <1>2, <1>3, <1>4, <1>5, <1>6, <1>7, <1>8, <1>9 DEF Next, Connect

-----------------------------------------------------------------------------
(* What keeps codes and grants apart.                                       *)

LEMMA Numbers ==
  ASSUME TypeOK
  PROVE  /\ \A k \in codes : k.code \in Nat /\ k.expires_at \in Nat
         /\ \A i \in issued : i.code \in Nat /\ i.at \in Nat /\ i.start \in Nat
         /\ \A n \in DOMAIN grants : grants[n].code \in Nat
         /\ drawn \in Nat /\ now \in Nat
<1>1. \A n \in DOMAIN grants : grants[n] \in Issue
  BY DEF TypeOK
<1> QED
  BY <1>1, OAuthAssumption DEF TypeOK, Code, Issue

(* Steps that leave the codes and the grants alone and take nothing back.   *)
LEMMA Untouched ==
  ASSUME IInv, TypeOK', UNCHANGED <<codes, grants, issued, starts>>,
         drawn' \in Nat, now' \in Nat, drawn <= drawn', now <= now'
  PROVE  IInv'
<1>1. CodesOK' /\ GrantsOK'
  BY Numbers, drawn' \in Nat, now' \in Nat
     DEF IInv, CodesOK, GrantsOK, Backed, Old
<1> QED
  BY <1>1 DEF IInv, CodeOnce, GrantsJustified

LEMMA AuthorizeKeeps ==
  ASSUME IInv, TypeOK', NEW c \in Connectors, Authorize(c)
  PROVE  IInv'
<1> DEFINE k == [code |-> drawn', client |-> id[c], expires_at |-> ExpiresAt]
           i == [code |-> drawn', client |-> id[c], at |-> now, start |-> starts]
<1>1. /\ codes' = codes \cup {k}
      /\ issued' = issued \cup {i}
      /\ drawn' = drawn + 1
      /\ UNCHANGED <<grants, now, starts>>
  BY DEF Authorize, Draw
<1>2. /\ codes \subseteq Code /\ issued \subseteq Issue /\ grants \in Seq(Issue)
      /\ drawn \in Nat /\ now \in Nat
  BY OAuthAssumption DEF IInv, TypeOK
<1>3. \A m \in codes : m.code < drawn'
  BY <1>1, Numbers DEF IInv, CodesOK, Old
<1>4. \A n \in DOMAIN grants : grants[n].code < drawn'
  BY <1>1, Numbers DEF IInv, GrantsOK, Old
<1>5. \A m \in codes' : Backed(m)' /\ Old(m.code)'
  <2>1. ASSUME NEW m \in codes', m = k PROVE Backed(m)' /\ Old(m.code)'
    <3>1. i \in issued' /\ i.at <= now' /\ i.start = starts'
      BY <1>1, <1>2
    <3>2. m.code = i.code /\ m.client = i.client /\ m.expires_at = i.at + TTL
      BY <2>1 DEF ExpiresAt
    <3>3. m.code <= drawn'
      BY <2>1, <1>1, <1>2
    <3> HIDE DEF i, k
    <3> QED
      BY <3>1, <3>2, <3>3 DEF Backed, Old
  <2>2. ASSUME NEW m \in codes PROVE Backed(m)' /\ Old(m.code)'
    BY <1>1, <1>3, Numbers DEF IInv, CodesOK, Backed, Old
  <2> QED
    BY <2>1, <2>2, <1>1
<1>6. CodesOK'
  BY <1>1, <1>3, <1>5 DEF IInv, CodesOK
<1>7. GrantsOK'
  BY <1>1, <1>4, Numbers DEF IInv, GrantsOK, Old
<1>8. CodeOnce' /\ GrantsJustified'
  BY <1>1 DEF IInv, CodeOnce, GrantsJustified
<1> QED
  BY <1>6, <1>7, <1>8 DEF IInv

LEMMA ExchangeKeeps ==
  ASSUME IInv, TypeOK', NEW c \in Connectors, Exchange(c)
  PROVE  IInv'
<1>1. PICK k \in Redeemable(c) :
        /\ codes' = Pop(k)
        /\ grants' = Append(grants, [code |-> k.code, client |-> id[c],
                                     at |-> now, start |-> starts])
  BY DEF Exchange
<1> DEFINE g == [code |-> k.code, client |-> id[c], at |-> now, start |-> starts]
           n == Len(grants)
<1>2. UNCHANGED <<now, drawn, issued, starts>>
  BY DEF Exchange
<1>3. k \in codes /\ k.client = id[c] /\ k.expires_at >= now
  BY DEF Redeemable
<1>4. /\ codes \subseteq Code /\ issued \subseteq Issue /\ grants \in Seq(Issue)
      /\ drawn \in Nat /\ now \in Nat /\ TTL \in Nat
  BY OAuthAssumption DEF IInv, TypeOK
<1>5. /\ DOMAIN grants = 1..n
      /\ DOMAIN grants' = 1..(n + 1)
      /\ \A j \in 1..n : grants'[j] = grants[j]
      /\ grants'[n + 1] = g
      /\ n \in Nat
  BY <1>1, <1>4
<1>6. codes' \subseteq codes /\ k \notin codes'
  BY <1>1 DEF Pop
<1>7. \A m \in codes' : m.code # k.code
  BY <1>3, <1>6 DEF IInv, CodesOK
<1>8. CodesOK'
  BY <1>2, <1>6 DEF IInv, CodesOK, Backed, Old
<1>9. GrantsOK'
  <2>1. \A j \in 1..n : grants'[j].code <= drawn' /\ \A m \in codes' : m.code # grants'[j].code
    BY <1>2, <1>5, <1>6 DEF IInv, GrantsOK, Old
  <2>2. grants'[n + 1].code <= drawn' /\ \A m \in codes' : m.code # grants'[n + 1].code
    BY <1>2, <1>3, <1>5, <1>7 DEF IInv, CodesOK, Old
  <2> QED
    BY <2>1, <2>2, <1>5 DEF GrantsOK, Old
<1>10. CodeOnce'
  <2>1. \A j \in 1..n : grants'[j].code # grants'[n + 1].code
    BY <1>3, <1>5 DEF IInv, GrantsOK
  <2> QED
    BY <2>1, <1>5 DEF IInv, CodeOnce
<1>11. GrantsJustified'
  <2>1. PICK i \in issued : /\ i.code = k.code
                            /\ i.client = k.client
                            /\ i.start = starts
                            /\ i.at <= now
                            /\ k.expires_at = i.at + TTL
    BY <1>3 DEF IInv, CodesOK, Backed
  <2>2. now - i.at \in 0..TTL
    BY <2>1, <1>3, <1>4 DEF Issue, Code
  <2> QED
    BY <2>1, <2>2, <1>2, <1>3, <1>5 DEF IInv, GrantsJustified
<1> QED
  BY <1>8, <1>9, <1>10, <1>11 DEF IInv

LEMMA RestartKeeps == ASSUME IInv, TypeOK', Restart PROVE IInv'
  BY DEF IInv, Restart, LoseMemory, CodesOK, GrantsOK, Old, CodeOnce, GrantsJustified

LEMMA InvNext == IInv /\ [Next]_vars => IInv'
<1> SUFFICES ASSUME IInv, [Next]_vars PROVE IInv'
  OBVIOUS
<1>1. TypeOK'
  BY TypeNext DEF IInv
<1>2. drawn \in Nat /\ now \in Nat
  BY OAuthAssumption DEF IInv, TypeOK
<1>3. ASSUME NEW c \in Connectors, Connect(c) PROVE IInv'
  <2>1. CASE Authorize(c)
    BY <1>1, <2>1, AuthorizeKeeps
  <2>2. CASE Exchange(c)
    BY <1>1, <2>2, ExchangeKeeps
  <2>3. CASE Register(c)
    BY <1>1, <1>2, <2>3, Untouched DEF Register, Draw
  <2>4. CASE Unknown(c) \/ InvalidGrant(c) \/ Unauthorized(c)
    BY <1>1, <1>2, <2>4, Untouched DEF Unknown, InvalidGrant, Unauthorized, server
  <2> QED
    BY <1>3, <2>1, <2>2, <2>3, <2>4 DEF Connect
<1>4. CASE Restart
  BY <1>1, <1>4, RestartKeeps
<1>5. CASE Tick
  BY <1>1, <1>2, <1>5, Untouched DEF Tick, server
<1>6. CASE UNCHANGED vars
  BY <1>1, <1>2, <1>6, Untouched DEF vars, server
<1> QED
  BY <1>3, <1>4, <1>5, <1>6 DEF Next

-----------------------------------------------------------------------------
LEMMA Inductive == Spec => []IInv
  BY InvInit, InvNext, PTL DEF Spec

(* The provider's memory and the connectors' keep their types, and a code   *)
(* that can be exchanged is a known client's (oauth_provider.py:42-63).     *)
THEOREM OAuthTypes == Spec => []TypeOK
<1>1. IInv => TypeOK
  BY DEF IInv
<1> QED
  BY <1>1, Inductive, PTL

(* A code is exchanged once at most, whichever replies were lost and        *)
(* however often the request is made again (oauth_provider.py:65-74).       *)
THEOREM CodesAreSingleUse == Spec => []CodeOnce
<1>1. IInv => CodeOnce
  BY DEF IInv
<1> QED
  BY <1>1, Inductive, PTL

(* The token is given only for a code that this start has issued to this    *)
(* client in the last TTL (oauth_provider.py:52-74).                        *)
THEOREM TokensAreJustified == Spec => []GrantsJustified
<1>1. IInv => GrantsJustified
  BY DEF IInv
<1> QED
  BY <1>1, Inductive, PTL

-----------------------------------------------------------------------------
(* Deployment: the settings of both programs, their restarts and requests.  *)

(* The last request went to a program that still runs, and its status is    *)
(* what that program's settings say; a restart in between has cleared it.   *)
ReplyOK ==
  reply # NoReply =>
     \E p \in Programs, path \in Paths, bearer \in Tokens \cup {None} :
        /\ run[p] # None
        /\ reply = [program |-> p, path |-> path, bearer |-> bearer,
                    status |-> Status(p, path, bearer)]

DeploymentInv ==
  /\ env \in [Programs -> Settings]
  /\ run \in [Programs -> Settings \cup {None}]
  /\ run["mcp_service"] # None => HttpAuth(run["mcp_service"]) # None
  /\ ReplyOK

LEMMA DeploymentInvInit == DeploymentInit => DeploymentInv
  BY DEF DeploymentInit, Programs, DeploymentInv, ReplyOK

LEMMA DeploymentInvNext == DeploymentInv /\ [DeploymentNext]_deploymentVars => DeploymentInv'
<1> SUFFICES ASSUME DeploymentInv, [DeploymentNext]_deploymentVars PROVE DeploymentInv'
  OBVIOUS
<1> USE DEF DeploymentInv
<1>1. ASSUME NEW p \in Programs, Stop(p) PROVE DeploymentInv'
  BY <1>1 DEF Stop, ReplyOK, Programs
<1>2. ASSUME NEW p \in Programs, NEW s \in Settings, Set(p, s)
      PROVE  DeploymentInv'
  <2>1. ReplyOK'
    BY <1>2 DEF Set, ReplyOK, Status
  <2> QED
    BY <1>2, <2>1 DEF Set
<1>3. CASE StartApp
  BY <1>3 DEF StartApp, ReplyOK, Programs
<1>4. CASE StartService
  BY <1>4 DEF StartService, ReplyOK, Programs
<1>5. ASSUME NEW p \in Programs, NEW path \in Paths,
             NEW bearer \in Tokens \cup {None}, Request(p, path, bearer)
      PROVE  DeploymentInv'
  <2>1. ReplyOK'
    BY <1>5 DEF Request, ReplyOK, Status
  <2> QED
    BY <1>5, <2>1 DEF Request
<1>6. CASE UNCHANGED deploymentVars
  <2>1. ReplyOK'
    BY <1>6 DEF deploymentVars, ReplyOK, Status
  <2> QED
    BY <1>6, <2>1 DEF deploymentVars
<1> QED
  BY <1>1, <1>2, <1>3, <1>4, <1>5, <1>6 DEF DeploymentNext

LEMMA DeploymentInductive == DeploymentSpec => []DeploymentInv
  BY DeploymentInvInit, DeploymentInvNext, PTL DEF DeploymentSpec

(* What a status says about the settings it was computed from, program by   *)
(* program.                                                                 *)
LEMMA ServiceStatuses ==
  ASSUME NEW s \in Settings, HttpAuth(s) # None, NEW bearer \in Tokens \cup {None}
  PROVE  /\ ServiceStatus(s, "/mcp", bearer) = 200 => s.token # None /\ bearer = s.token
         /\ ServiceStatus(s, "/mcp", bearer) = 401 => bearer # s.token
  BY DEF Settings, HttpAuth, ServiceStatus, McpStatus

LEMMA AppStatuses ==
  ASSUME NEW s \in Settings, NEW bearer \in Tokens \cup {None}
  PROVE  /\ AppStatus(s, "/mcp", bearer) = 200 => s.token # None /\ bearer = s.token
         /\ AppStatus(s, "/mcp", bearer) = 401 => bearer # s.token
  BY DEF Settings, HttpAuth, AppStatus, Gate, McpStatus

LEMMA McpStatuses ==
  ASSUME DeploymentInv, reply # NoReply, reply.path = "/mcp"
  PROVE  /\ reply.status = 200 =>
               run[reply.program].token # None /\ reply.bearer = run[reply.program].token
         /\ reply.status = 401 => reply.bearer # run[reply.program].token
<1>1. PICK p \in Programs, bearer \in Tokens \cup {None} :
        /\ run[p] # None
        /\ reply = [program |-> p, path |-> "/mcp", bearer |-> bearer,
                    status |-> Status(p, "/mcp", bearer)]
  BY DEF DeploymentInv, ReplyOK
<1>2. run[p] \in Settings
  BY <1>1 DEF DeploymentInv
<1>3. CASE p = "app"
  BY <1>1, <1>2, <1>3, AppStatuses DEF Status
<1>4. CASE p = "mcp_service"
  BY <1>1, <1>2, <1>4, ServiceStatuses DEF DeploymentInv, Status
<1> QED
  BY <1>3, <1>4 DEF Programs

(* The tools answer only a caller with the token of the running program,    *)
(* however settings change between restarts (settings.py:23-26,             *)
(* main.py:64-86, server.py:83-93).                                         *)
THEOREM ToolsAreGated == DeploymentSpec => []ToolsNeedToken
<1>1. DeploymentInv => ToolsNeedToken
  BY McpStatuses DEF ToolsNeedToken, Answered
<1> QED
  BY <1>1, DeploymentInductive, PTL

(* Who has the token is never turned away: the two gates of the application *)
(* agree (main.py:86, server.py:91).                                        *)
THEOREM TokenIsEnough == DeploymentSpec => []TokenSuffices
<1>1. DeploymentInv => TokenSuffices
  BY McpStatuses DEF TokenSuffices, Answered
<1> QED
  BY <1>1, DeploymentInductive, PTL

=============================================================================
