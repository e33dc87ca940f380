SPECIFICATION Spec
CONSTANTS
  Versions <- Matrix
  Parallelisms = {0, 2}
  Unset = Unset
INVARIANTS
  TypeOK
  PoolBounded
  ReportHasNoHole
PROPERTIES
  PoolContract
\* The loop ends; that it does not stop earlier is what PoolContract says.
CHECK_DEADLOCK FALSE
