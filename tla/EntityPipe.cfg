\* Capacity 2: a request that fits and wraps, and one that takes two chunks; a timeout
\* of zero too.
CONSTANTS
  BufferSize = 35
  Word = 128
  MaxBytes = 4
  Requests = {2, 3}
  Limits = {0, 1}
SPECIFICATION FairSpec
INVARIANTS
  EntityTypeOK
  WriteResultIsExact
  ReadResultIsExact
  EntityInv
PROPERTIES
  KeepsTheBargain
  ImplementsPipe
  ReturnsUnlessTorn
  OneTransferCompletes
