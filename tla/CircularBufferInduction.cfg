\* Capacity 3 (four cells): the stream of 7 bytes laps the ring almost twice, and
\* a transfer of two or three bytes wraps at every position.
CONSTANTS
  BufferSize = 36
  Word = 128
  MaxBytes = 7
SPECIFICATION BufferSpec
INVARIANTS
  TypeOK
  DeliveredInOrder
  NoDataRace
  FreeNeverOverstated
  AvailableNeverOverstated
  CountsAddUp
  RingInv
PROPERTY ImplementsStream
