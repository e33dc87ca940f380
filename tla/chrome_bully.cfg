SPECIFICATION Spec
CONSTANTS
  MaxFaults = 1
  ScanLimit = 4
  TextLimit = 2
  TextSizes = {1, 9}
  UrlSizes = {1}
  Products <- PlainAndDashed
  MaxCaptures = 2
  MaxEvents = 1
INVARIANTS
  LogTellsTheOutcome
  ShotAfterText
  NoMessageIsMissed
  IntervalOutlivesFailures
PROPERTIES
  BrowserComesBack
  RunsEnd
\* Runs come to an end, and browsers may serve for ever.
CHECK_DEADLOCK FALSE
