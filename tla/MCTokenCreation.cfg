SPECIFICATION FairSpec
CONSTANTS
  Requests = {r1, r2, r3}
  Keys = {k1, k2}
  Bodies = {b1, b2}
  NoInput = NoInput
  NoRow = NoRow
  NoResource = NoResource
INVARIANTS OneHolder
PROPERTIES KeysSettle ImplementsCreate
CHECK_DEADLOCK FALSE
