SPECIFICATION SafetySpec
CONSTANTS
  Policies <- TwoPolicies
  Rules = {ruleA, ruleBad}
  BadRules = {ruleBad}
  DefaultRules = builtin
  NoRules = NoRules
  ManifestImage = manifest
  LiveImages = {drifted}
  OverrideImage = candidate
  NoImage = NoImage
  Browsers = 2
  Faults = TRUE
  MaxRuns = 2
  MaxCrashes = 1
INVARIANTS
  TypeOK
  MeasuredUnderItsPolicy
  OverrideIsMeasured
  ReportIsComplete
  LeftAsFound
\* Anubis at rest after the last run.
CHECK_DEADLOCK FALSE
