CONSTANTS
  Servers = {s1}
  Clients = {c1}
  Observers = {}
  Objects = {o1, o2}
  None = None
  BufferSize = 40
SPECIFICATION OrderedSpec
INVARIANT BuffersFitAllocation
