SPECIFICATION Spec
CONSTANTS
  MaxPasses = 2
  MaxCrashes = 1
  BackoffLimit = 1
  Flaky = {TRUE, FALSE}
INVARIANTS
  VerdictIsOwn
  JobHasItsStack
  TeardownTriesEverything
PROPERTIES
  SweepOneEnds
\* The passes come to an end.
CHECK_DEADLOCK FALSE
