------------------------------- MODULE MCBoot -------------------------------
(* Model values for Boot: launches and a reset by hand.                     *)
EXTENDS Boot
CONSTANTS l1, l2, r1, r2
=============================================================================
