------------------------------- MODULE MCOAuth -------------------------------
(* Model values for OAuth.                                                  *)
EXTENDS OAuth
CONSTANTS c1, c2
=============================================================================
