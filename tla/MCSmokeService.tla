--------------------------- MODULE MCSmokeService ---------------------------
(***************************************************************************)
(* SmokeService for TLC. Requests differ only in what happens to them, so  *)
(* their permutations are a symmetry of the safety runs.                   *)
(***************************************************************************)
EXTENDS SmokeService, TLC

Interchangeable == Permutations(Requests)
==============================================================================
