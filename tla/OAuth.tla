-------------------------------- MODULE OAuth --------------------------------
(***************************************************************************)
(* The OAuth wrapper around MCP_HTTP_TOKEN (app/mcp_servers/                *)
(* oauth_provider.py), the handlers of the MCP SDK that call it, and the    *)
(* connectors that go through it: each registers, has a code authorized,    *)
(* exchanges it for the token, and calls with that.  The provider keeps     *)
(* clients and codes in memory, so a restart loses them; the token comes    *)
(* from the environment and may be another one after a restart.  A reply    *)
(* may get lost after the server has acted, and a code be kept too long.    *)
(***************************************************************************)
EXTENDS Integers, Sequences

CONSTANTS
  Connectors,
  TTL,        \* _CODE_TTL_SECONDS, in units of the clock
  MaxNow,     \* how far the clock goes
  MaxFaults,  \* how many replies are lost and restarts happen
  MaxDrawn    \* how many client ids and codes are drawn

ASSUME OAuthAssumption ==
  /\ TTL \in Nat
  /\ MaxNow \in Nat
  /\ MaxFaults \in Nat
  /\ MaxDrawn \in Nat

VARIABLES
  \* the server
  clients,  \* _clients: the ids
  codes,    \* _codes
  token,    \* _token
  now,      \* time.time()
  drawn,    \* how many ids and codes were drawn; the last one is this number
  \* the connectors
  id,       \* each one's client id, or 0
  code,     \* the code it has to exchange, or 0
  held,     \* the token it calls with, or 0
  \* what happened
  issued,   \* every code that was issued, for whom, and when
  grants,   \* every exchange: of which code, for whom, and when
  starts,   \* how often the server was started
  faults    \* lost replies and restarts

server == <<clients, codes, token>>
connectors == <<id, code, held>>
vars == <<server, now, drawn, connectors, issued, grants, starts, faults>>

Init ==
  /\ clients = {}
  /\ codes = {}
  /\ token = 1
  /\ now = 0
  /\ drawn = 0
  /\ id = [c \in Connectors |-> 0]
  /\ code = [c \in Connectors |-> 0]
  /\ held = [c \in Connectors |-> 0]
  /\ issued = {}
  /\ grants = <<>>
  /\ starts = 1
  /\ faults = 0

(* uuid4 and secrets.token_urlsafe: never drawn before.                     *)
Draw == drawn < MaxDrawn /\ drawn' = drawn + 1

(* The reply comes, or it gets lost and the connector knows no more than    *)
(* before.                                                                  *)
Arrives == UNCHANGED faults
Lost == faults < MaxFaults /\ faults' = faults + 1 /\ UNCHANGED connectors

-----------------------------------------------------------------------------
(* POST /register                                                           *)
Register(c) ==
  /\ id[c] = 0
  /\ Draw
  /\ clients' = clients \cup {drawn'}
  /\ \/ /\ Arrives
        /\ id' = [id EXCEPT ![c] = drawn']
        /\ UNCHANGED <<code, held>>
     \/ Lost
  /\ UNCHANGED <<codes, token, now, issued, grants, starts>>

(* Variants, which nothing below uses, stand before what they vary: a       *)
(* plausible slip in the code, named for what it does.                      *)
(* Variant: a code for ever.                                                *)
NeverExpires == now + MaxNow

ExpiresAt == now + TTL

(* GET /authorize: approved without a question.                             *)
Authorize(c) ==
  /\ id[c] \in clients
  /\ code[c] = 0
  /\ held[c] = 0
  /\ Draw
  /\ codes' = codes \cup {[code |-> drawn', client |-> id[c], expires_at |-> ExpiresAt]}
  /\ issued' = issued \cup {[code |-> drawn', client |-> id[c], at |-> now, start |-> starts]}
  /\ \/ /\ Arrives
        /\ code' = [code EXCEPT ![c] = drawn']
        /\ UNCHANGED <<id, held>>
     \/ Lost
  /\ UNCHANGED <<clients, token, now, grants, starts>>

(* /authorize or /token does not know the client, which has to register.    *)
Unknown(c) ==
  /\ id[c] \notin clients \cup {0}
  /\ held[c] = 0
  /\ id' = [id EXCEPT ![c] = 0]
  /\ code' = [code EXCEPT ![c] = 0]
  /\ UNCHANGED <<server, now, drawn, held, issued, grants, starts, faults>>

(* What load_authorization_code finds and the SDK's handler lets pass.      *)
Redeemable(c) ==
  {k \in codes : k.code = code[c] /\ k.client = id[c] /\ k.expires_at >= now}

(* Variant: the code stays.                                                 *)
Keep(k) == codes

Pop(k) == codes \ {k}

(* POST /token: no coroutine between the look at the code and its removal   *)
(* gives way to another request.                                            *)
Exchange(c) ==
  /\ id[c] \in clients
  /\ \E k \in Redeemable(c) :
        /\ codes' = Pop(k)
        /\ grants' = Append(grants, [code |-> k.code, client |-> id[c], at |-> now, start |-> starts])
  /\ \/ /\ Arrives
        /\ held' = [held EXCEPT ![c] = token]
        /\ code' = [code EXCEPT ![c] = 0]
        /\ UNCHANGED id
     \/ Lost
  /\ UNCHANGED <<clients, token, now, drawn, issued, starts>>

(* Variant: a refusal that does not say that the code is no good.           *)
RefusalWithoutReason(c) ==
  /\ id[c] \in clients
  /\ code[c] # 0
  /\ Redeemable(c) = {}
  /\ UNCHANGED vars

(* invalid_grant: the code is gone or too old, another one has to be asked  *)
(* for.                                                                     *)
InvalidGrant(c) ==
  /\ id[c] \in clients
  /\ code[c] # 0
  /\ Redeemable(c) = {}
  /\ code' = [code EXCEPT ![c] = 0]
  /\ UNCHANGED <<server, now, drawn, id, held, issued, grants, starts, faults>>

(* A call with a token that is not the server's: load_access_token is None. *)
Unauthorized(c) ==
  /\ held[c] \notin {0, token}
  /\ held' = [held EXCEPT ![c] = 0]
  /\ UNCHANGED <<server, now, drawn, id, code, issued, grants, starts, faults>>

-----------------------------------------------------------------------------
LoseMemory == clients' = {} /\ codes' = {}

(* The service restarts, perhaps with another MCP_HTTP_TOKEN.               *)
Restart ==
  /\ faults < MaxFaults
  /\ faults' = faults + 1
  /\ LoseMemory
  /\ token' \in {token, token + 1}
  /\ starts' = starts + 1
  /\ UNCHANGED <<now, drawn, connectors, issued, grants>>

Tick ==
  /\ now < MaxNow
  /\ now' = now + 1
  /\ UNCHANGED <<server, drawn, connectors, issued, grants, starts, faults>>

Connect(c) ==
  \/ Register(c) \/ Authorize(c) \/ Unknown(c)
  \/ Exchange(c) \/ InvalidGrant(c) \/ Unauthorized(c)

Next == Restart \/ Tick \/ \E c \in Connectors : Connect(c)

Spec == Init /\ [][Next]_vars

(* A connector goes on trying; the bounds end losses, restarts and waiting. *)
FairSpec == Spec /\ \A c \in Connectors : WF_vars(Connect(c))

-----------------------------------------------------------------------------
Code == [code : 1..MaxDrawn, client : 1..MaxDrawn, expires_at : Nat]
Issue == [code : 1..MaxDrawn, client : 1..MaxDrawn, at : Nat, start : Nat]

(* Every variable has its type; a code that can be exchanged is a known     *)
(* client's.                                                                *)
TypeOK ==
  /\ clients \subseteq 1..MaxDrawn
  /\ codes \subseteq Code
  /\ token \in Nat \ {0}
  /\ now \in Nat
  /\ drawn \in 0..MaxDrawn
  /\ id \in [Connectors -> 0..MaxDrawn]
  /\ code \in [Connectors -> 0..MaxDrawn]
  /\ held \in [Connectors -> Nat]
  /\ issued \subseteq Issue
  /\ grants \in Seq(Issue)
  /\ starts \in Nat
  /\ faults \in 0..MaxFaults
  /\ \A k \in codes : k.client \in clients

(* A code is good for one token response, however often the connector whose *)
(* reply got lost comes back with it ("single-use", oauth_provider.py:73).  *)
CodeOnce ==
  \A i, j \in DOMAIN grants : grants[i].code = grants[j].code => i = j

(* Every token response is for a code that this very start of the server    *)
(* issued to that client, no longer ago than a code lives.                  *)
GrantsJustified ==
  \A i \in DOMAIN grants : \E k \in issued :
     /\ k.code = grants[i].code
     /\ k.client = grants[i].client
     /\ k.start = grants[i].start
     /\ grants[i].at - k.at \in 0..TTL

(* Whatever restarts, new tokens, lost replies and codes kept too long come *)
(* between, every connector gets to hold the server's token and keeps it.   *)
Connected == \A c \in Connectors : <>[](held[c] = token)

=============================================================================
