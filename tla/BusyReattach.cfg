\* Four cells; the client restarts without limit.
CONSTANTS
  BufferSize = 36
  Word = 128
SPECIFICATION BusySpec
INVARIANT ServerStaysInRing
