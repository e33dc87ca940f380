SPECIFICATION BuildSpec
CONSTANTS
  Majors <- TwoMajors
  Patches <- TwoPatches
  FetchFaults = TRUE
  DockerFaults = TRUE
  MaxRuns = 2
INVARIANTS
  EntriesAreStored
  ImagesAreAsRecorded
  SuccessMeansPushed
  AGoodArchiveBuilds
PROPERTIES
  OnlyAFailedFetchDrops
\* The runs come to an end.
CHECK_DEADLOCK FALSE
