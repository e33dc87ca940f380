---------------------------- MODULE MCVersionStack ----------------------------
(***************************************************************************)
(* VersionStack for TLC: a few passes of one version, with a Job that may  *)
(* retry once.                                                             *)
(***************************************************************************)
EXTENDS VersionStack, TLC
==============================================================================
