CONSTANTS
  BufferSize = 34
  Word = 128
  MaxBytes = 2
  Requests = {1, 2}
  Limits = {1}
SPECIFICATION TimedSpec
PROPERTY TimeoutDetectsDisconnection
