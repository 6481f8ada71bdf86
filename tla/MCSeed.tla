------------------------------- MODULE MCSeed -------------------------------
(* Seed for TLC: with and without --reset, all overlapping.                 *)
EXTENDS Seed
=============================================================================
