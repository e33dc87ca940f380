----------------------------- MODULE MCImageBuild -----------------------------
(***************************************************************************)
(* ImageBuild and VersionArchive for TLC: two majors of one Ubuntu release *)
(* and two patch levels of each.                                           *)
(***************************************************************************)
EXTENDS ImageBuild

TwoMajors == {78, 79}
TwoPatches == {1, 2}
==============================================================================
