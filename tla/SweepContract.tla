---------------------------- MODULE SweepContract ----------------------------
(***************************************************************************)
(* What a sweep promises to whoever asked for it, with nothing of how: it  *)
(* is asked for a matrix of keys, rows come in the order of the matrix and *)
(* are never taken back, and it ends with a report that has them all, or   *)
(* with an error.                                                          *)
(***************************************************************************)
EXTENDS Naturals, Sequences

CONSTANT Keys    \* what a row is about

VARIABLES wanted, \* the matrix of this sweep, as a sequence of keys
          given,  \* the keys of the rows so far
          answer  \* what its caller knows

contractVars == <<wanted, given, answer>>

Init ==
  /\ wanted \in Seq(Keys) /\ given = <<>>
  /\ answer \in {"none", "running"}

Ask ==
  /\ answer # "running" /\ answer' = "running"
  /\ wanted' \in Seq(Keys) /\ given' = <<>>

Give ==
  /\ answer = "running" /\ UNCHANGED <<wanted, answer>>
  /\ \E n \in (Len(given) + 1)..Len(wanted) : given' = SubSeq(wanted, 1, n)

Report ==
  /\ answer = "running" /\ answer' = "report"
  /\ given' = wanted /\ UNCHANGED wanted

Fail ==
  /\ answer = "running" /\ answer' = "error"
  /\ UNCHANGED <<wanted, given>>

Next == Ask \/ Give \/ Report \/ Fail

SafetySpec == Init /\ [][Next]_contractVars

Spec == SafetySpec /\ WF_contractVars(Report \/ Fail)
==============================================================================
