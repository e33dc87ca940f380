SPECIFICATION SafetySpec
CONSTANTS
  Requests = {r1, r2, r3}
  NoOwner = NoOwner
  MaxCrashes = 1
SYMMETRY Interchangeable
INVARIANTS
  OneSweepAtATime
  SlotMatchesHolder
  FramesWhileInUse
  ThreadReadsInOrder
