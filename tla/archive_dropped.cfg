SPECIFICATION Spec
CONSTANTS
  Majors <- ThreeMajors
  Patches <- TwoPatches
  FetchFaults = TRUE
  MaxRuns = 2
PROPERTIES
  EntriesSurvive
\* The runs come to an end.
CHECK_DEADLOCK FALSE
