\* Capacity 3 and six bytes to each stream: one lap and a half; a restart at
\* every step.
CONSTANTS
  BufferSize = 36
  Word = 128
  MaxBytes = 6
SPECIFICATION SettlingSpec
INVARIANTS
  DeliveredInOrder
  NoDataRace
  LeftoverIsReal
  GoodAsNew
  RestartInv
PROPERTIES
  NoByteSkipped
  CountReturnsUnlessTornAndEmpty
