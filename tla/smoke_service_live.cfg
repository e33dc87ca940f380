SPECIFICATION Spec
CONSTANTS
  Requests = {r1, r2}
  NoOwner = NoOwner
  MaxCrashes = 1
PROPERTIES
  AcceptedIsClosed
  SlotSpec
