------------------------------ MODULE MCLpCall ------------------------------
(***************************************************************************)
(* A small instance of LpCall for TLC.                                     *)
(***************************************************************************)
EXTENDS LpCall

CONSTANTS t0, t1, t2, c1, c2, c3, lez, verifier

=============================================================================
