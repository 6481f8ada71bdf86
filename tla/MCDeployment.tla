---------------------------- MODULE MCDeployment ----------------------------
(* Model values for Deployment: a token and the next one.                   *)
EXTENDS Deployment
CONSTANTS t1, t2
=============================================================================
