---------------------------- MODULE MCAnubisSweep ----------------------------
(***************************************************************************)
(* AnubisSweep for TLC. Policies are numbered in name order.               *)
(***************************************************************************)
EXTENDS AnubisSweep, TLC

TwoPolicies == {1, 2}
OnePolicy == {1}
==============================================================================
