SPECIFICATION Spec
CONSTANTS
  Policies <- OnePolicy
  Rules = {ruleA, ruleBad}
  BadRules = {ruleBad}
  DefaultRules = builtin
  NoRules = NoRules
  ManifestImage = manifest
  LiveImages = {manifest}
  OverrideImage = candidate
  NoImage = NoImage
  Browsers = 2
  Faults = FALSE
  MaxRuns = 2
  MaxCrashes = 1
\* Anubis at rest after the last run.
CHECK_DEADLOCK FALSE
PROPERTIES
  RunContract
  AnubisComesBack
