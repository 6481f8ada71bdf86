---------------------------- MODULE ChatContract ----------------------------
(***************************************************************************)
(* What POST /chat promises (app/api/routes/chat.py, app/schemas/chat.py):  *)
(* a question gets one reply, and a reply with status 200 carries results   *)
(* of exposed tools about the customer asked for, nothing else.  A question *)
(* whose process ends gets no reply any more.                               *)
(***************************************************************************)
CONSTANTS
  Questions,  \* requests to POST /chat
  Customers,
  Exposed,    \* the tools whose results a reply may carry
  Data,       \* tool results, records with fields tool and who
  None

VARIABLES
  state,   \* "new", "asked", "replied" or "lost"
  about,   \* ChatRequest.customer_id
  status,  \* the reply's HTTP status
  data     \* ChatResponse.data

vars == <<state, about, status, data>>

(* ChatResponse.data: results by tool name.                                 *)
OwnResults(customer) ==
  UNION {[D -> {d \in Data : d.who = customer}] : D \in SUBSET Exposed}

NoData == [t \in {} |-> None]

Init ==
  /\ state = [q \in Questions |-> "new"]
  /\ about = [q \in Questions |-> None]
  /\ status = [q \in Questions |-> None]
  /\ data = [q \in Questions |-> NoData]

Ask(q, customer) ==
  /\ state[q] = "new"
  /\ state' = [state EXCEPT ![q] = "asked"]
  /\ about' = [about EXCEPT ![q] = customer]
  /\ UNCHANGED <<status, data>>

Reply(q, code, results) ==
  /\ state[q] = "asked"
  /\ IF code = 200 THEN results \in OwnResults(about[q]) ELSE results = NoData
  /\ state' = [state EXCEPT ![q] = "replied"]
  /\ status' = [status EXCEPT ![q] = code]
  /\ data' = [data EXCEPT ![q] = results]
  /\ UNCHANGED about

(* The process ends, and with it every question it was working on.          *)
Lose ==
  /\ state' = [q \in Questions |-> IF state[q] = "asked" THEN "lost" ELSE state[q]]
  /\ UNCHANGED <<about, status, data>>

Next ==
  \/ \E q \in Questions, c \in Customers : Ask(q, c)
  \/ \E q \in Questions :
        \E code \in {404, 422, 500} : Reply(q, code, NoData)
  \/ \E q \in Questions : \E results \in OwnResults(about[q]) : Reply(q, 200, results)
  \/ Lose

Spec == Init /\ [][Next]_vars

=============================================================================
