\* Capacity 2, and a header as large; payloads empty and larger than the buffer.
CONSTANTS
  Directions = {"client", "server"}
  Capacity = 2
  Header = 2
  Sizes = {0, 3}
  Commands = 3
SPECIFICATION CommandSpec
INVARIANTS
  CommandTypeOK
  SameFrames
PROPERTIES
  ProgramsEnd
  AllCarriedOut
\* The programs end.
CHECK_DEADLOCK FALSE
