\* Capacity 2: chunks of one byte, of just the capacity, and one byte larger.
CONSTANTS
  Directions = {"server", "client"}
  Capacity = 2
  Chunks = {1, 2, 3}
  Transfers = 2
SPECIFICATION TwoWaySpec
INVARIANTS
  TwoWayTypeOK
  RoomIsSafe
  TwoWayInv
  NoComplaint
PROPERTY EndsIfChunkFits
\* The programs end.
CHECK_DEADLOCK FALSE
