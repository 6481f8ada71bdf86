---------------------------- MODULE MCAgentGraph ----------------------------
(* AgentGraph for TLC.  The server has a tool of the allowlist and one of   *)
(* the two others of server.py, which it reaches by loan id; a model that   *)
(* keeps to no schema may also produce a name the server does not have.     *)
(* Invocations share nothing, so a behaviour has one, of either model.      *)
EXTENDS AgentGraph

FewTools == {"calculate_dti", "get_loan_by_id"}

FewNames == FewTools \cup {"no_such_tool"}

CustomerTools == {"calculate_dti", "get_active_loans"}

OneInvocation ==
  \A r \in Requests :
     pc[r] = "idle" /\ pc'[r] # "idle" => \A q \in Requests : pc[q] = "idle"

(* A model gives a call at most one argument, and none to an unknown tool.  *)
Modest(call) ==
  /\ \A p, q \in DOMAIN call.args : p = q
  /\ call.name \notin Tools => DOMAIN call.args = {}

ModestModel ==
  \A r \in Requests :
     pc[r] = "agent" /\ pc'[r] = "tools" =>
        \A k \in DOMAIN PendingCalls(r)' : Modest(PendingCalls(r)'[k])

OneSpec ==
  /\ Init
  /\ [][Next /\ OneInvocation /\ ModestModel]_vars
  /\ \A r \in Requests : WF_vars(Advance(r))

=============================================================================
