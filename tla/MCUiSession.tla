---------------------------- MODULE MCUiSession ----------------------------
(* UiSession for TLC.  One page asks three questions, or a single one while *)
(* the other, which may have chosen between two customers before, asks its  *)
(* own.                                                                     *)
EXTENDS UiSession

CONSTANTS p1, p2, c1, c2, b1

Turns(p) == Len(turns[p])

Untouched(p) == dropdown[p] = None /\ textbox[p] = "" /\ Turns(p) = 0

Small ==
  /\ dropdown[p1] # c2
  /\ Turns(p2) <= 1
  /\ ~Untouched(p2) => Turns(p1) <= 1
  /\ dropdown[p2] = c2 => Turns(p2) = 0 /\ Untouched(p1)

SmallSpec ==
  /\ Init
  /\ [][Next /\ Small']_vars
  /\ \A p \in Pages : WF_vars(Load(p)) /\ WF_vars(Render(p)) /\ WF_vars(Clear(p))
  /\ \A p \in Pages, l \in Listeners : WF_vars(Respond(p, l))

=============================================================================
