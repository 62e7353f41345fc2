\* Rider and driver, one of whom comes back, perhaps before the old socket is
\* noticed to be gone; everything may fail.
CONSTANTS
  Role = {rider, driver}
  Conn = {c1, c2, c3}
  None = None
  MaxMessages = 1
  MaxEvents = 2
  MaxFaults = 1
SPECIFICATION Spec
SYMMETRY Symmetry
INVARIANTS
  OneLiveRoom
  RoomHasHandler
  LiveInOrder
  ReceiptCoversShown
  MemberUnlessReplaced
