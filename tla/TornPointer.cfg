\* Capacity 4; a pointer in two parts that divide inside the ring, at 2 or 3 values
\* of the lower one, or, at 5, beyond it.
CONSTANTS
  BufferSize = 37
  Word = 128
  Lows = {2, 3, 5}
SPECIFICATION TornSpec
INVARIANT TornCountIsSafe
