--------------------------- MODULE MCVersionArchive ---------------------------
(***************************************************************************)
(* VersionArchive for TLC: three majors, so that a range can leave some    *)
(* out on either side, and two patch levels of each.                       *)
(***************************************************************************)
EXTENDS VersionArchive, TLC

ThreeMajors == {70, 71, 72}
TwoPatches == {1, 2}
==============================================================================
