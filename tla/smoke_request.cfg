SPECIFICATION Spec
CONSTANTS
  MaxBreaks = 1
  MaxComment = 14
  NoteSize = 3
  HeadSize = 2
  LinkSize = 3
  Half = 128
  MinChrome = 70
  MinFirefox = 101
  MaxName = 49
  AllowedRepos = {"allowed"}
  Invocations <- MCInvocations
  MaxOdd = 1
INVARIANTS
  SweptAsTyped
  TalliesAgree
  BundleHoldsWhatIsShown
  ExitTellsTheOutcome
  SubmitIsAnswered
  StacksAreApart
PROPERTIES
  ServiceComesBack
  CallEnds
\* One call, which comes to an end.
CHECK_DEADLOCK FALSE
