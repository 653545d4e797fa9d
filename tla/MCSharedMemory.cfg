\* Two objects: the named one, and one that a mutant may create beside it.
CONSTANTS
  Servers = {s1, s2}
  Clients = {c1, c2}
  Observers = {b1}
  Objects = {o1, o2}
  None = None
  BufferSize = 40
SPECIFICATION HistorySpec
INVARIANTS
  SharedTypeOK
  OneMemory
  OneServer
  AgreeInOrder
  StampsTellInOrder
  HistoryInv
SYMMETRY Symmetry
