SPECIFICATION SafetySpec
CONSTANTS
  Policies <- TwoPolicies
  Rules = {ruleA, ruleB}
  BadRules = {}
  DefaultRules = builtin
  NoRules = NoRules
  ManifestImage = manifest
  LiveImages = {manifest}
  OverrideImage = candidate
  NoImage = NoImage
  Browsers = 1
  Faults = FALSE
  MaxRuns = 2
  MaxCrashes = 0
CHECK_DEADLOCK FALSE
INVARIANTS
  RequestsHitTheNewRuleset
