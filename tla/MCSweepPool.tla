----------------------------- MODULE MCSweepPool -----------------------------
(***************************************************************************)
(* SweepPool for TLC: more versions than tokens, a browser without         *)
(* versions between two that have some, and a second round of the loop.    *)
(***************************************************************************)
EXTENDS SweepPool, TLC

Matrix == <<3, 0, 2>>
==============================================================================
