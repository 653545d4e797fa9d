--------------------------- MODULE RingArithmetic ---------------------------
(***************************************************************************)
(* The pointer arithmetic of cCircularBuffer and of its two subclasses:    *)
(* how far a pointer advances, how many bytes are free and how many are    *)
(* available, all computed on unsigned 64-bit integers.                    *)
(*                                                                         *)
(* A pointer is the offset of a byte in m_Buffer.  The ring never fills    *)
(* completely: producer = consumer means empty, so at most                 *)
(* EffectiveBufferSize - 1 bytes are in flight.                            *)
(***************************************************************************)
EXTENDS Integers

CONSTANTS
  BufferSize,  \* m_BufferSize, what the constructors are given
  Word         \* 2^64 in the program: U64 is unsigned __int64

\* Four U64 pointers live at the end of the buffer's memory.
SizeOfU64    == 8
RESERVE_SIZE == 4 * SizeOfU64

\* The constructors check nothing.  A buffer no larger than its reserve has no
\* cell (the subtraction wraps, or AdvanceProducer divides by zero), and sums
\* of two offsets must not wrap: both are what every caller respects.
ASSUME BufferAssumption ==
  /\ BufferSize \in Nat
  /\ Word \in Nat
  /\ BufferSize > RESERVE_SIZE
  /\ 2 * BufferSize <= Word

\* Unsigned arithmetic wraps.
U64(x) == x % Word

EffectiveBufferSize == U64(BufferSize - RESERVE_SIZE)

\* The offsets of the cells of the ring.
Offsets == 0 .. EffectiveBufferSize - 1

-----------------------------------------------------------------------------
\* Plausible mistakes, for the mutants of the project.
AdvanceOffByOne(pointer, amount) ==
  LET moved == U64(pointer + amount)
  IN  IF moved > EffectiveBufferSize THEN moved % EffectiveBufferSize ELSE moved

FreeWithoutGap(producer, consumer) ==
  IF consumer > producer THEN U64(consumer - producer)
                         ELSE U64(consumer + EffectiveBufferSize - producer)

AvailableSwapped(producer, consumer) ==
  IF producer > consumer THEN U64(producer - consumer)
                         ELSE U64(producer + EffectiveBufferSize - consumer)

-----------------------------------------------------------------------------
\* AdvanceProducer and AdvanceConsumer compute the same new value.
Advance(pointer, amount) ==
  LET moved == U64(pointer + amount)
  IN  IF moved >= EffectiveBufferSize THEN moved % EffectiveBufferSize ELSE moved

\* What NumberOfBytesFreeToWrite returns, once the consumer pointer is read.
FreeToWrite(producer, consumer) ==
  IF consumer > producer
  THEN U64(consumer - producer - 1)
  ELSE U64(consumer + EffectiveBufferSize - producer - 1)

\* What NumberOfBytesAvailableToRead returns, once the producer pointer is read.
AvailableToRead(producer, consumer) ==
  IF producer >= consumer
  THEN U64(producer - consumer)
  ELSE U64(producer + EffectiveBufferSize - consumer)

\* numberOfBytesBeforeWraparound of WriteData and of ReadData.
WriteBeforeWraparound(producer) == U64(EffectiveBufferSize - producer)
ReadBeforeWraparound(consumer)  == U64(BufferSize - consumer - RESERVE_SIZE)
=============================================================================
