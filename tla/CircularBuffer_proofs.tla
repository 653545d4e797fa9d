----------------------- MODULE CircularBuffer_proofs ------------------------
(***************************************************************************)
(* Proofs about CircularBuffer, for a ring of any size and a stream of any *)
(* length.  The plan:                                                      *)
(*                                                                         *)
(*  1. the machine arithmetic never wraps, and the two counts are a        *)
(*     distance around the ring (Ahead) and its complement;                *)
(*  2. how such a distance changes when a pointer advances by a segment,   *)
(*     so that no later step meets a modulus or a wraparound;              *)
(*  3. every action keeps RingInv, a lemma per action;                     *)
(*  4. RingInv implies the invariants of CircularBuffer;                   *)
(*  5. CircularBuffer implements ByteStream: read from shared memory at    *)
(*     any moment, the bytes in flight are a bounded FIFO stream, to which *)
(*     only a store of the producer pointer appends, and from the front of *)
(*     which only a store of the consumer pointer takes.                   *)
(***************************************************************************)
EXTENDS CircularBufferInduction, Sequences, TLAPS

-----------------------------------------------------------------------------
(* Numbers.                                                                *)

\* A remainder is known without a division up to twice the modulus.
LEMMA ModBelow ==
  ASSUME NEW x \in Nat, NEW m \in Nat, x < m
  PROVE  x % m = x
BY SMT

\* ... and there it is what is left of the number.
LEMMA ModOneTurn ==
  ASSUME NEW x \in Nat, NEW m \in Nat, m <= x, x < 2 * m
  PROVE  x % m = x - m
BY SMT

\* dataSink before a segment of k bytes is copied to offset a, of which none is.
LEMMA CellsBeforeSegment ==
  ASSUME NEW a \in Nat, NEW k \in Nat
  PROVE  0 .. a - 1 = {x \in 0 .. a + k - 1 : x - a \notin 0 .. k - 1}
BY SMT

\* The size of the ring, and that no sum of two offsets reaches the word size.
LEMMA RingSize ==
  /\ EffectiveBufferSize \in Nat /\ BufferSize \in Nat /\ Word \in Nat
  /\ EffectiveBufferSize > 0
  /\ EffectiveBufferSize = BufferSize - RESERVE_SIZE
  /\ BufferSize + BufferSize <= Word
  /\ RESERVE_SIZE = 32
BY BufferAssumption, ModBelow DEF EffectiveBufferSize, U64, RESERVE_SIZE, SizeOfU64

\* A number that fits in a word is not changed by the unsigned arithmetic.
LEMMA U64Identity ==
  ASSUME NEW x \in Nat, x < Word
  PROVE  U64(x) = x
BY BufferAssumption, ModBelow DEF U64

-----------------------------------------------------------------------------
(* The pointer arithmetic, free of machine words.                          *)

\* A distance around the ring is less than its size.
LEMMA AheadType ==
  ASSUME NEW a \in Offsets, NEW b \in Offsets
  PROVE  Ahead(a, b) \in Offsets
BY RingSize DEF Ahead, Offsets

\* NumberOfBytesAvailableToRead returns how far the producer is ahead.
LEMMA AvailableIsAhead ==
  ASSUME NEW p \in Offsets, NEW c \in Offsets
  PROVE  AvailableToRead(p, c) = Ahead(c, p)
<1>1. p >= c => U64(p - c) = p - c
  BY RingSize, U64Identity DEF Offsets
<1>2. ~(p >= c) => U64(p + EffectiveBufferSize - c) = p + EffectiveBufferSize - c
  BY RingSize, U64Identity DEF Offsets
<1> QED
  BY <1>1, <1>2 DEF AvailableToRead, Ahead

\* NumberOfBytesFreeToWrite returns the rest, less the cell that stays empty.
LEMMA FreeIsRest ==
  ASSUME NEW p \in Offsets, NEW c \in Offsets
  PROVE  FreeToWrite(p, c) = EffectiveBufferSize - 1 - Ahead(c, p)
<1>1. c > p => U64(c - p - 1) = c - p - 1
  BY RingSize, U64Identity DEF Offsets
<1>2. ~(c > p) => U64(c + EffectiveBufferSize - p - 1) = c + EffectiveBufferSize - p - 1
  BY RingSize, U64Identity DEF Offsets
<1>3. c > p => Ahead(c, p) = p + EffectiveBufferSize - c
  BY DEF Ahead, Offsets
<1>4. ~(c > p) => Ahead(c, p) = p - c
  BY DEF Ahead, Offsets
<1> QED
  BY <1>1, <1>2, <1>3, <1>4, RingSize DEF FreeToWrite, Offsets

\* WriteData and ReadData compute what is left up to the wraparound.
LEMMA BeforeWraparound ==
  ASSUME NEW p \in Offsets
  PROVE  /\ WriteBeforeWraparound(p) = EffectiveBufferSize - p
         /\ ReadBeforeWraparound(p) = EffectiveBufferSize - p
<1>1. BufferSize - p - RESERVE_SIZE = EffectiveBufferSize - p
  BY RingSize DEF Offsets
<1>2. U64(EffectiveBufferSize - p) = EffectiveBufferSize - p
  BY RingSize, U64Identity DEF Offsets
<1> QED
  BY <1>1, <1>2 DEF WriteBeforeWraparound, ReadBeforeWraparound

\* Advancing to the end of the ring wraps to its start; a segment goes no further.
LEMMA AdvanceWraps ==
  ASSUME NEW p \in Offsets, NEW k \in Nat, p + k <= EffectiveBufferSize
  PROVE  Advance(p, k) = IF p + k = EffectiveBufferSize THEN 0 ELSE p + k
<1>1. U64(p + k) = p + k
  BY RingSize, U64Identity DEF Offsets
<1>2. EffectiveBufferSize % EffectiveBufferSize = 0
  BY RingSize, ModOneTurn
<1> QED
  BY <1>1, <1>2, RingSize DEF Advance, Offsets

-----------------------------------------------------------------------------
(* Distances around the ring.                                              *)

\* What is ahead of a moves on with the pointer, as long as it is not lapped.
LEMMA AheadAdvances ==
  ASSUME NEW a \in Offsets, NEW p \in Offsets, NEW k \in Nat,
         p + k <= EffectiveBufferSize, Ahead(a, p) + k < EffectiveBufferSize
  PROVE  /\ Advance(p, k) \in Offsets
         /\ Ahead(a, Advance(p, k)) = Ahead(a, p) + k
<1>1. CASE p + k = EffectiveBufferSize
  <2>1. Advance(p, k) = 0
    BY <1>1, AdvanceWraps
  <2> QED
    BY <1>1, <2>1, RingSize DEF Ahead, Offsets
<1>2. CASE p + k < EffectiveBufferSize
  <2>1. Advance(p, k) = p + k
    BY <1>2, AdvanceWraps, RingSize DEF Offsets
  <2> QED
    BY <1>2, <2>1, RingSize DEF Ahead, Offsets
<1> QED
  BY <1>1, <1>2, RingSize DEF Offsets

\* A pointer that advances towards b comes as much nearer to it.
LEMMA AheadShrinks ==
  ASSUME NEW p \in Offsets, NEW b \in Offsets, NEW k \in Nat,
         p + k <= EffectiveBufferSize, k <= Ahead(p, b)
  PROVE  /\ Advance(p, k) \in Offsets
         /\ Ahead(Advance(p, k), b) = Ahead(p, b) - k
<1>1. CASE p + k = EffectiveBufferSize
  <2>1. Advance(p, k) = 0
    BY <1>1, AdvanceWraps
  <2> QED
    BY <1>1, <2>1, RingSize DEF Ahead, Offsets
<1>2. CASE p + k < EffectiveBufferSize
  <2>1. Advance(p, k) = p + k
    BY <1>2, AdvanceWraps, RingSize DEF Offsets
  <2> QED
    BY <1>2, <2>1, RingSize DEF Ahead, Offsets
<1> QED
  BY <1>1, <1>2, RingSize DEF Offsets

\* What is beyond a pointer after its advance was as much further before it.
LEMMA AheadReached ==
  ASSUME NEW p \in Offsets, NEW b \in Offsets, NEW i \in Offsets, NEW k \in Nat,
         p + k <= EffectiveBufferSize, k <= Ahead(p, b),
         Ahead(Advance(p, k), i) < Ahead(p, b) - k
  PROVE  Ahead(p, i) = Ahead(Advance(p, k), i) + k
<1>1. CASE p + k = EffectiveBufferSize
  <2>1. Advance(p, k) = 0
    BY <1>1, AdvanceWraps
  <2> QED
    BY <1>1, <2>1, RingSize DEF Ahead, Offsets
<1>2. CASE p + k < EffectiveBufferSize
  <2>1. Advance(p, k) = p + k
    BY <1>2, AdvanceWraps, RingSize DEF Offsets
  <2> QED
    BY <1>2, <2>1, RingSize DEF Ahead, Offsets
<1> QED
  BY <1>1, <1>2, RingSize DEF Offsets

\* The cells of a segment that starts at p are ahead of a in their order.
LEMMA AheadInSegment ==
  ASSUME NEW a \in Offsets, NEW p \in Offsets, NEW o \in Nat,
         p + o < EffectiveBufferSize, Ahead(a, p) + o < EffectiveBufferSize
  PROVE  /\ p + o \in Offsets
         /\ Ahead(a, p + o) = Ahead(a, p) + o
BY RingSize DEF Ahead, Offsets

\* Two cells as far ahead of a are the same cell.
LEMMA AheadInjective ==
  ASSUME NEW a \in Offsets, NEW i \in Offsets, NEW j \in Offsets,
         Ahead(a, i) = Ahead(a, j)
  PROVE  i = j
BY RingSize DEF Ahead, Offsets

\* Nothing is ahead of itself.
LEMMA AheadSelf ==
  ASSUME NEW a \in Offsets
  PROVE  Ahead(a, a) = 0
BY DEF Ahead, Offsets

\* The types the arithmetic needs, without the sets of cells.
LEMMA NumbersAreInts ==
  ASSUME RingInv
  PROVE  /\ producer \in Nat /\ secondProducer \in Nat /\ consumer \in Nat /\ secondConsumer \in Nat
         /\ freeBytes \in Nat /\ wseg \in Nat /\ wrest \in Nat /\ woff \in Nat /\ wstart \in Nat
         /\ availableBytes \in Nat /\ rseg \in Nat /\ rrest \in Nat /\ roff \in Nat /\ rstart \in Nat
         /\ sent \in Nat /\ sent <= MaxBytes /\ rcvd \in Nat
         /\ sentSecond \in Int /\ rcvdSecond \in Int
         /\ rcvdSecond <= rcvd /\ sentSecond <= sent
         /\ writePending \in Nat /\ readPending \in Nat
<1>1. /\ producer \in Nat /\ secondProducer \in Nat /\ consumer \in Nat /\ secondConsumer \in Nat
      /\ freeBytes \in Nat /\ wseg \in Nat /\ wrest \in Nat /\ woff \in Nat /\ wstart \in Nat
      /\ availableBytes \in Nat /\ rseg \in Nat /\ rrest \in Nat /\ roff \in Nat /\ rstart \in Nat
      /\ sent \in Nat /\ sent <= MaxBytes /\ rcvd \in Nat
  BY MaxBytesAssumption DEF RingInv, TypeOK, Offsets
<1>2. Ahead(secondProducer, producer) \in Nat /\ Ahead(secondConsumer, consumer) \in Nat
  <2>1. /\ secondProducer \in Offsets /\ producer \in Offsets
        /\ secondConsumer \in Offsets /\ consumer \in Offsets
    BY DEF RingInv, TypeOK
  <2>2. Ahead(secondProducer, producer) \in Offsets /\ Ahead(secondConsumer, consumer) \in Offsets
    BY <2>1, AheadType
  <2> QED
    BY <2>2, RingSize DEF Offsets
<1>3. sentSecond \in Int /\ rcvdSecond \in Int /\ rcvdSecond <= rcvd /\ sentSecond <= sent
  BY <1>1, <1>2 DEF sentSecond, rcvdSecond
<1> QED
  BY <1>1, <1>3 DEF writePending, readPending

\* How far each second copy lags behind.
LEMMA SecondCopiesLag ==
  ASSUME RingInv
  PROVE  /\ Ahead(secondProducer, producer) = sent - sentSecond
         /\ Ahead(secondConsumer, consumer) = rcvd - rcvdSecond
<1>1. /\ secondProducer \in Offsets /\ producer \in Offsets
      /\ secondConsumer \in Offsets /\ consumer \in Offsets
  BY DEF RingInv, TypeOK
<1>2. Ahead(secondProducer, producer) \in Int /\ Ahead(secondConsumer, consumer) \in Int
  BY <1>1, AheadType DEF Offsets
<1> QED
  BY <1>2, NumbersAreInts DEF sentSecond, rcvdSecond

-----------------------------------------------------------------------------
(* The writer's steps keep the invariant.                                  *)

\* The snapshot is where the second copy is.
LEMMA LoadSecondConsumerKeeps ==
  ASSUME RingInv, LoadSecondConsumer
  PROVE  RingInv'
<1> USE DEF RingInv, LoadSecondConsumer, sharedVars, readerVars
<1>1. TypeOK'
  BY DEF TypeOK, PC
<1>2. sentSecond' = sentSecond /\ rcvdSecond' = rcvdSecond
      /\ writePending' = writePending /\ readPending' = readPending
  BY DEF sentSecond, rcvdSecond, writePending, readPending, Ahead
<1>3. PointersFollowStream' /\ BudgetsFit'
  BY <1>2 DEF PointersFollowStream, BudgetsFit, Ahead
<1>4. SnapshotsAreBehind'
  <2>1. Ahead(wsnap, producer)' = sent - rcvdSecond
    BY DEF PointersFollowStream, Ahead
  <2>2. sent - rcvdSecond \in Int
    BY NumbersAreInts
  <2> QED
    BY <1>2, <2>1, <2>2 DEF SnapshotsAreBehind, Ahead
<1>5. SegmentsEndAtWraparound' /\ SegmentsFollowStream'
  BY DEF SegmentsEndAtWraparound, SegmentsFollowStream
<1>6. CellsHoldStream' /\ SinkHoldsStream'
  BY DEF CellsHoldStream, SinkHoldsStream, Ahead
<1> QED
  BY <1>1, <1>3, <1>4, <1>5, <1>6

\* The count leaves room for what the reader has not given back.
LEMMA LoadConsumerKeeps ==
  ASSUME RingInv, LoadConsumer
  PROVE  RingInv'
<1> USE DEF RingInv, LoadConsumer, sharedVars, readerVars
<1>1. Ahead(wsnap, producer) \in Offsets
  <2>1. wsnap \in Offsets /\ producer \in Offsets
    BY DEF TypeOK
  <2> QED
    BY <2>1, AheadType
<1>2. consumer = wsnap => freeBytes' = EffectiveBufferSize - 1 - Ahead(wsnap, producer)
  BY FreeIsRest DEF TypeOK
<1>3. freeBytes' \in Offsets
  <2>1. EffectiveBufferSize - 1 - Ahead(wsnap, producer) \in Offsets
    BY <1>1, RingSize DEF Offsets
  <2> QED
    BY <1>2, <2>1 DEF TypeOK
<1>4. TypeOK'
  BY <1>3 DEF TypeOK, PC
<1>5. sentSecond' = sentSecond /\ rcvdSecond' = rcvdSecond
      /\ writePending' = 0 /\ writePending = 0 /\ readPending' = readPending
  BY DEF sentSecond, rcvdSecond, writePending, readPending, Ahead
<1>6. PointersFollowStream' /\ SnapshotsAreBehind'
  BY <1>5 DEF PointersFollowStream, SnapshotsAreBehind, Ahead
<1>7. BudgetsFit'
  <2>1. sent - rcvdSecond \in Int
    BY NumbersAreInts
  <2>2. freeBytes' + (sent - rcvdSecond) <= EffectiveBufferSize - 1
    <3>1. CASE consumer = wsnap
      BY <1>1, <1>2, <2>1, <3>1, RingSize DEF SnapshotsAreBehind, Offsets
    <3>2. CASE consumer # wsnap
      BY <1>5, <2>1, <3>2, RingSize DEF TypeOK, BudgetsFit, Offsets
    <3> QED
      BY <3>1, <3>2
  <2> QED
    BY <1>3, <1>5, <2>1, <2>2 DEF TypeOK, BudgetsFit, Offsets
<1>8. SegmentsEndAtWraparound' /\ SegmentsFollowStream'
  BY DEF SegmentsEndAtWraparound, SegmentsFollowStream
<1>9. CellsHoldStream' /\ SinkHoldsStream'
  BY DEF CellsHoldStream, SinkHoldsStream, Ahead
<1> QED
  BY <1>4, <1>6, <1>7, <1>8, <1>9

\* The segment ends at the wraparound at the latest.
LEMMA BeginWriteDataKeeps ==
  ASSUME RingInv,
         NEW off \in {0, sent - wstart}, NEW n \in 0 .. freeBytes, sent + n <= MaxBytes,
         BeginWriteData(off, n)
  PROVE  RingInv'
<1> USE DEF RingInv, BeginWriteData, sharedVars, readerVars
<1>1. n \in Nat /\ sent \in Nat /\ wstart \in Nat /\ wstart <= sent /\ producer \in Offsets
      /\ freeBytes \in Offsets /\ wpc = "idle"
  <2>1. n \in Nat
    BY NumbersAreInts
  <2> QED
    BY <2>1, NumbersAreInts DEF TypeOK, SegmentsFollowStream
<1>2. off \in Nat
  BY <1>1
<1>3. /\ wseg' \in Nat /\ wrest' \in Nat /\ wseg' + wrest' = n
      /\ producer + wseg' <= EffectiveBufferSize
      /\ wrest' > 0 => producer + wseg' = EffectiveBufferSize
  <2>1. WriteBeforeWraparound(producer) = EffectiveBufferSize - producer
    BY <1>1, BeforeWraparound
  <2>2. EffectiveBufferSize - producer \in Nat /\ producer \in Nat
    BY <1>1, RingSize DEF Offsets
  <2> QED
    BY <1>1, <2>1, <2>2, RingSize
<1>4. TypeOK'
  <2>1. wstart' \in Nat
    BY <1>1 DEF SegmentsFollowStream
  <2>2. freeBytes' \in Offsets
    BY <1>1, RingSize DEF Offsets
  <2> QED
    BY <1>2, <1>1, <1>3, <2>1, <2>2 DEF TypeOK, PC
<1>5. sentSecond' = sentSecond /\ rcvdSecond' = rcvdSecond
      /\ writePending' = n /\ writePending = 0 /\ readPending' = readPending
  BY <1>1, <1>3 DEF sentSecond, rcvdSecond, writePending, readPending, Ahead
<1>6. PointersFollowStream' /\ SnapshotsAreBehind'
  BY <1>5 DEF PointersFollowStream, SnapshotsAreBehind, Ahead
<1>7. BudgetsFit'
  <2>1. n \in Nat /\ n <= freeBytes /\ freeBytes' = freeBytes - n
    BY <1>1, NumbersAreInts
  <2> QED
    BY <1>5, <2>1, NumbersAreInts, RingSize DEF BudgetsFit
<1>8. SegmentsEndAtWraparound'
  BY <1>3 DEF SegmentsEndAtWraparound
<1>9. SegmentsFollowStream'
  BY <1>1 DEF SegmentsFollowStream
<1>10. CellsHoldStream' /\ SinkHoldsStream'
  BY <1>3 DEF CellsHoldStream, SinkHoldsStream, Ahead
<1> QED
  BY <1>4, <1>6, <1>7, <1>8, <1>9, <1>10

\* The cells of the segment being written are not those of the bytes in flight.
LEMMA SegmentBeyondStream ==
  ASSUME RingInv, wpc = "copy", NEW o \in 0 .. wseg - 1
  PROVE  /\ producer + o \in Offsets
         /\ Ahead(consumer, producer + o) = sent - rcvd + o
<1>1. consumer \in Offsets /\ producer \in Offsets /\ o \in Nat /\ wseg \in Nat /\ wrest \in Nat
      /\ sent \in Nat /\ rcvd \in Nat /\ rseg \in Nat /\ freeBytes \in Nat
  BY DEF RingInv, TypeOK, Offsets
<1>2. producer + o < EffectiveBufferSize
  BY <1>1, RingSize DEF RingInv, SegmentsEndAtWraparound, Offsets
<1>3. sent - rcvd + o < EffectiveBufferSize
  BY <1>1, NumbersAreInts, RingSize DEF RingInv, BudgetsFit, writePending
<1>4. Ahead(consumer, producer) = sent - rcvd
  BY DEF RingInv, PointersFollowStream
<1> QED
  BY <1>1, <1>2, <1>3, <1>4, AheadInSegment

\* The byte copied in is beyond the bytes in flight.
LEMMA CopyInKeeps ==
  ASSUME RingInv, NEW o \in wtodo, CopyIn(o)
  PROVE  RingInv'
<1> USE DEF RingInv, CopyIn, sharedVars, readerVars
<1>1. /\ o \in 0 .. wseg - 1 /\ wseg \in Nat /\ sent \in Nat /\ rcvd \in Nat
      /\ mem \in [Offsets -> Int] /\ wpc = "copy"
      /\ consumer \in Offsets /\ producer \in Offsets
  BY DEF TypeOK
<1>2. /\ producer + o \in Offsets
      /\ Ahead(consumer, producer + o) = sent - rcvd + o
  BY <1>1, SegmentBeyondStream
<1>3. wstart + woff + o = sent + o
  BY <1>1 DEF SegmentsFollowStream, TypeOK
<1>4. mem' = [mem EXCEPT ![producer + o] = sent + o]
  BY <1>3
<1>5. TypeOK'
  BY <1>1, <1>2, <1>4 DEF TypeOK
<1>6. PointersFollowStream' /\ SnapshotsAreBehind' /\ BudgetsFit'
  BY DEF PointersFollowStream, SnapshotsAreBehind, BudgetsFit, Ahead,
         sentSecond, rcvdSecond, writePending, readPending
<1>7. SegmentsEndAtWraparound' /\ SegmentsFollowStream' /\ SinkHoldsStream'
  BY DEF SegmentsEndAtWraparound, SegmentsFollowStream, SinkHoldsStream
<1>8. CellsHoldStream'
  <2>1. ASSUME NEW i \in Offsets, Ahead(consumer, i) < sent - rcvd
        PROVE  mem'[i] = rcvd + Ahead(consumer, i)
    <3>1. i # producer + o
      BY <1>1, <1>2, <2>1
    <3> QED
      BY <1>1, <1>2, <1>4, <2>1, <3>1 DEF CellsHoldStream
  <2>2. ASSUME NEW x \in 0 .. wseg - 1, x \notin wtodo'
        PROVE  mem'[producer + x] = sent + x
    <3>1. producer + x \in Offsets
      BY <1>1, SegmentBeyondStream
    <3>2. CASE x = o
      BY <1>1, <1>2, <1>4, <3>2
    <3>3. CASE x # o
      <4>1. producer + x # producer + o
        BY <1>1, <3>3 DEF Offsets
      <4>2. x \notin wtodo
        BY <2>2, <3>3
      <4> QED
        BY <1>1, <1>2, <1>4, <3>1, <4>1, <4>2 DEF CellsHoldStream
    <3> QED
      BY <3>2, <3>3
  <2> QED
    BY <2>1, <2>2 DEF CellsHoldStream, Ahead
<1> QED
  BY <1>5, <1>6, <1>7, <1>8

\* The segment joins the bytes in flight.
LEMMA StoreProducerKeeps ==
  ASSUME RingInv, StoreProducer
  PROVE  RingInv'
<1> USE DEF RingInv, StoreProducer, readerVars
<1>1. /\ producer \in Offsets /\ consumer \in Offsets /\ secondConsumer \in Offsets
      /\ secondProducer \in Offsets
      /\ wpc = "copy" /\ wpc' = "publish" /\ wtodo = {}
      /\ wseg \in Nat /\ producer + wseg <= EffectiveBufferSize
      /\ producer' = Advance(producer, wseg) /\ sent' = sent + wseg
  BY DEF TypeOK, SegmentsEndAtWraparound
<1>0. /\ writePending = wseg + wrest /\ writePending' = wrest /\ readPending' = readPending
      /\ rcvdSecond' = rcvdSecond
  BY <1>1, NumbersAreInts DEF rcvdSecond, writePending, readPending, Ahead
<1>3. /\ sent - rcvdSecond + wseg < EffectiveBufferSize
      /\ sent - rcvd + wseg < EffectiveBufferSize
      /\ sent - sentSecond + wseg < EffectiveBufferSize
      /\ sent + wseg + wrest <= MaxBytes
  BY <1>1, <1>0, NumbersAreInts, RingSize DEF BudgetsFit
<1>2. /\ writePending = wseg + wrest /\ writePending' = wrest /\ readPending' = readPending
      /\ rcvdSecond' = rcvdSecond
      /\ sentSecond' = sentSecond
  <2>1. Ahead(secondProducer, producer) = sent - sentSecond
    BY SecondCopiesLag
  <2>2. Ahead(secondProducer, producer') = Ahead(secondProducer, producer) + wseg
    BY <1>1, <1>3, <2>1, AheadAdvances
  <2>3. sentSecond' = sent' - Ahead(secondProducer, producer')
    BY DEF sentSecond, Ahead
  <2> QED
    BY <1>0, <1>1, <2>1, <2>2, <2>3, NumbersAreInts
<1>4. /\ producer' \in Offsets
      /\ Ahead(consumer, producer') = sent' - rcvd
  BY <1>1, <1>3, AheadAdvances, NumbersAreInts DEF PointersFollowStream
<1>5. Ahead(secondConsumer, producer') = sent' - rcvdSecond
  BY <1>1, <1>3, AheadAdvances, NumbersAreInts DEF PointersFollowStream
<1>6. TypeOK'
  BY <1>1, <1>3, <1>4, NumbersAreInts, MaxBytesAssumption DEF TypeOK, PC
<1>7. PointersFollowStream'
  BY <1>2, <1>4, <1>5 DEF PointersFollowStream, Ahead
<1>8. SnapshotsAreBehind'
  BY <1>1, <1>2 DEF SnapshotsAreBehind, Ahead
<1>9. BudgetsFit'
  BY <1>1, <1>2, NumbersAreInts, RingSize DEF BudgetsFit
<1>10. SegmentsEndAtWraparound'
  <2>1. wrest > 0 => producer' = 0
    BY <1>1, AdvanceWraps DEF SegmentsEndAtWraparound
  <2> QED
    BY <1>1, <2>1 DEF SegmentsEndAtWraparound
<1>11. SegmentsFollowStream'
  BY <1>1, NumbersAreInts DEF SegmentsFollowStream
<1>12. CellsHoldStream'
  <2>1. ASSUME NEW i \in Offsets, Ahead(consumer, i) < sent' - rcvd
        PROVE  mem[i] = rcvd + Ahead(consumer, i)
    <3>1. Ahead(consumer, i) \in Nat
      <4>1. Ahead(consumer, i) \in Offsets
        BY <1>1, AheadType
      <4> QED
        BY <4>1, RingSize DEF Offsets
    <3>2. CASE Ahead(consumer, i) < sent - rcvd
      BY <3>2 DEF CellsHoldStream
    <3>3. CASE Ahead(consumer, i) >= sent - rcvd
      <4> DEFINE o == Ahead(consumer, i) - (sent - rcvd)
      <4>1. o \in 0 .. wseg - 1
        BY <1>1, <2>1, <3>1, <3>3, NumbersAreInts
      <4>2. /\ producer + o \in Offsets
            /\ Ahead(consumer, producer + o) = Ahead(consumer, i)
        BY <1>1, <3>1, <4>1, SegmentBeyondStream, NumbersAreInts
      <4>3. i = producer + o
        BY <1>1, <4>2, AheadInjective
      <4>4. mem[producer + o] = sent + o
        BY <1>1, <4>1 DEF CellsHoldStream
      <4> QED
        BY <3>1, <4>3, <4>4, NumbersAreInts
    <3> QED
      BY <3>1, <3>2, <3>3, NumbersAreInts
  <2> QED
    BY <1>1, <2>1 DEF CellsHoldStream, Ahead
<1>13. SinkHoldsStream'
  BY DEF SinkHoldsStream
<1> QED
  BY <1>6, <1>7, <1>8, <1>9, <1>10, <1>11, <1>12, <1>13

\* The second copy catches up; the rest starts at cell 0.
LEMMA StoreSecondProducerKeeps ==
  ASSUME RingInv, StoreSecondProducer
  PROVE  RingInv'
<1> USE DEF RingInv
<1>1. /\ wpc = "publish" /\ secondProducer' = producer
      /\ UNCHANGED <<mem, producer, consumer, secondConsumer,
                     wsnap, freeBytes, wstart, sent, readerVars>>
  BY DEF StoreSecondProducer
<1>2. wrest > 0 => /\ woff' = woff + wseg /\ wseg' = wrest /\ wrest' = 0
                   /\ wtodo' = 0 .. wrest - 1 /\ wpc' = "copy"
  BY DEF StoreSecondProducer
<1>3. ~(wrest > 0) => wpc' = "idle" /\ UNCHANGED <<wseg, wrest, wtodo, woff>>
  BY DEF StoreSecondProducer
<1>4. /\ producer \in Offsets /\ wseg \in Nat /\ wrest \in Nat /\ woff \in Nat
      /\ wtodo \subseteq 0 .. wseg - 1 /\ wpc' \in {"copy", "idle"}
      /\ consumer \in Offsets
  BY <1>2, <1>3 DEF TypeOK
<1>5. /\ sentSecond' = sent
      /\ writePending' = wrest /\ writePending = wrest
  <2>1. Ahead(producer, producer) = 0
    BY <1>4, AheadSelf
  <2>2. sentSecond' = sent - Ahead(producer, producer)
    BY <1>1 DEF sentSecond, Ahead
  <2> QED
    BY <1>1, <1>2, <1>3, <1>4, <2>1, <2>2, NumbersAreInts DEF writePending
<1>6. rcvdSecond' = rcvdSecond /\ readPending' = readPending
  BY <1>1 DEF rcvdSecond, readPending, readerVars, Ahead
<1>7. TypeOK'
  <2>1. wseg' \in Nat /\ wrest' \in Nat /\ woff' \in Nat /\ wtodo' \subseteq 0 .. wseg' - 1
    <3>1. CASE wrest > 0
      BY <1>2, <1>4, <3>1
    <3>2. CASE ~(wrest > 0)
      BY <1>3, <1>4, <3>2
    <3> QED
      BY <3>1, <3>2
  <2> QED
    BY <1>1, <1>4, <2>1 DEF TypeOK, PC, readerVars
<1>8. PointersFollowStream'
  BY <1>1, <1>5, <1>6 DEF PointersFollowStream, Ahead, readerVars
<1>9. SnapshotsAreBehind'
  <2>1. wpc' # "check"
    BY <1>4
  <2>2. rpc = "check" => Ahead(consumer, rsnap) \in Int
    <3>1. consumer \in Offsets /\ rsnap \in Offsets
      BY DEF TypeOK
    <3>2. Ahead(consumer, rsnap) \in Offsets
      BY <3>1, AheadType
    <3> QED
      BY <3>2 DEF Offsets
  <2>3. rpc' = "check" => Ahead(consumer, rsnap) <= sent - rcvd
    BY <1>1, <1>4, <1>5, <2>2, NumbersAreInts DEF SnapshotsAreBehind, readerVars
  <2> QED
    BY <1>1, <1>5, <2>1, <2>3 DEF SnapshotsAreBehind, Ahead, readerVars
<1>10. BudgetsFit'
  BY <1>1, <1>4, <1>5, <1>6, NumbersAreInts DEF BudgetsFit, readerVars
<1>11. SegmentsEndAtWraparound'
  <2>1. wrest > 0 => producer = 0 /\ wrest <= EffectiveBufferSize
    <3>1. sent - rcvdSecond \in Nat
      <4>1. Ahead(secondConsumer, producer) \in Offsets
        <5>1. secondConsumer \in Offsets /\ producer \in Offsets
          BY DEF TypeOK
        <5> QED
          BY <5>1, AheadType
      <4> QED
        BY <4>1, RingSize DEF PointersFollowStream, Offsets
    <3> QED
      BY <1>1, <1>4, <1>5, <3>1, NumbersAreInts, RingSize DEF SegmentsEndAtWraparound, BudgetsFit
  <2>2. wpc' = "copy" => producer' + wseg' <= EffectiveBufferSize /\ ~(wrest' > 0)
    BY <1>1, <1>2, <1>3, <1>4, <2>1, RingSize
  <2> QED
    BY <1>1, <1>4, <2>2 DEF SegmentsEndAtWraparound, readerVars
<1>12. SegmentsFollowStream'
  <2>1. wpc' = "copy" => wstart' + woff' = sent'
    <3>1. wstart + woff + wseg = sent
      BY <1>1 DEF SegmentsFollowStream
    <3>2. wstart + (woff + wseg) = sent
      BY <3>1, NumbersAreInts
    <3>3. wpc' = "copy" => woff' = woff + wseg
      BY <1>2, <1>3
    <3> QED
      BY <1>1, <3>2, <3>3
  <2> QED
    BY <1>1, <1>4, <2>1 DEF SegmentsFollowStream, readerVars
<1>13. CellsHoldStream'
  <2>1. wpc' = "copy" => wtodo' = 0 .. wseg' - 1
    BY <1>2, <1>3
  <2> QED
    BY <1>1, <2>1 DEF CellsHoldStream, Ahead, readerVars
<1>14. SinkHoldsStream'
  BY <1>1 DEF SinkHoldsStream, readerVars
<1> QED
  BY <1>7, <1>8, <1>9, <1>10, <1>11, <1>12, <1>13, <1>14

-----------------------------------------------------------------------------
(* The reader's steps keep the invariant.                                  *)

\* The snapshot is where the second copy is.
LEMMA LoadSecondProducerKeeps ==
  ASSUME RingInv, LoadSecondProducer
  PROVE  RingInv'
<1> USE DEF RingInv, LoadSecondProducer, sharedVars, writerVars
<1>1. TypeOK'
  BY DEF TypeOK, PC
<1>2. sentSecond' = sentSecond /\ rcvdSecond' = rcvdSecond
      /\ writePending' = writePending /\ readPending' = readPending
  BY DEF sentSecond, rcvdSecond, writePending, readPending, Ahead
<1>3. PointersFollowStream' /\ BudgetsFit'
  BY <1>2 DEF PointersFollowStream, BudgetsFit, Ahead
<1>4. SnapshotsAreBehind'
  <2>1. Ahead(consumer, rsnap)' = sentSecond - rcvd
    BY DEF PointersFollowStream, Ahead
  <2>2. sentSecond - rcvd \in Int
    BY NumbersAreInts
  <2> QED
    BY <1>2, <2>1, <2>2 DEF SnapshotsAreBehind, Ahead
<1>5. SegmentsEndAtWraparound' /\ SegmentsFollowStream'
  BY DEF SegmentsEndAtWraparound, SegmentsFollowStream
<1>6. CellsHoldStream' /\ SinkHoldsStream'
  BY DEF CellsHoldStream, SinkHoldsStream, Ahead
<1> QED
  BY <1>1, <1>3, <1>4, <1>5, <1>6

\* The count covers published bytes only.
LEMMA LoadProducerKeeps ==
  ASSUME RingInv, LoadProducer
  PROVE  RingInv'
<1> USE DEF RingInv, LoadProducer, sharedVars, writerVars
<1>1. Ahead(consumer, rsnap) \in Offsets
  <2>1. consumer \in Offsets /\ rsnap \in Offsets
    BY DEF TypeOK
  <2> QED
    BY <2>1, AheadType
<1>2. producer = rsnap => availableBytes' = Ahead(consumer, rsnap)
  BY AvailableIsAhead DEF TypeOK
<1>3. availableBytes' \in Offsets
  BY <1>1, <1>2 DEF TypeOK
<1>4. TypeOK'
  BY <1>3 DEF TypeOK, PC
<1>5. sentSecond' = sentSecond /\ rcvdSecond' = rcvdSecond
      /\ writePending' = writePending /\ readPending' = 0 /\ readPending = 0
  BY DEF sentSecond, rcvdSecond, writePending, readPending, Ahead
<1>6. PointersFollowStream' /\ SnapshotsAreBehind'
  BY <1>5 DEF PointersFollowStream, SnapshotsAreBehind, Ahead
<1>7. BudgetsFit'
  <2>1. availableBytes' + rcvd <= sentSecond
    <3>1. CASE producer = rsnap
      <4>1. Ahead(consumer, rsnap) <= sentSecond - rcvd
        BY DEF SnapshotsAreBehind
      <4>2. Ahead(consumer, rsnap) \in Nat
        BY <1>1, RingSize DEF Offsets
      <4> QED
        BY <1>2, <3>1, <4>1, <4>2, NumbersAreInts
    <3>2. CASE producer # rsnap
      BY <1>5, <3>2, NumbersAreInts DEF BudgetsFit
    <3> QED
      BY <3>1, <3>2
  <2>2. availableBytes' \in Nat
    BY <1>3, RingSize DEF Offsets
  <2> QED
    BY <1>5, <2>1, <2>2, NumbersAreInts DEF BudgetsFit
<1>8. SegmentsEndAtWraparound' /\ SegmentsFollowStream'
  BY DEF SegmentsEndAtWraparound, SegmentsFollowStream
<1>9. CellsHoldStream' /\ SinkHoldsStream'
  BY DEF CellsHoldStream, SinkHoldsStream, Ahead
<1> QED
  BY <1>4, <1>6, <1>7, <1>8, <1>9

\* The segment ends at the wraparound at the latest.
LEMMA BeginReadDataKeeps ==
  ASSUME RingInv,
         NEW off \in {0, rcvd - rstart}, NEW n \in 0 .. availableBytes,
         BeginReadData(off, n)
  PROVE  RingInv'
<1> USE DEF RingInv, BeginReadData, sharedVars, writerVars
<1>1. n \in Nat /\ rcvd \in Nat /\ rstart \in Nat /\ rstart <= rcvd /\ consumer \in Offsets
      /\ availableBytes \in Offsets /\ rpc = "idle"
  <2>1. n \in Nat
    BY NumbersAreInts
  <2> QED
    BY <2>1, NumbersAreInts DEF TypeOK, SegmentsFollowStream
<1>2. off \in Nat
  BY <1>1
<1>3. /\ rseg' \in Nat /\ rrest' \in Nat /\ rseg' + rrest' = n
      /\ consumer + rseg' <= EffectiveBufferSize
      /\ rrest' > 0 => consumer + rseg' = EffectiveBufferSize
  <2>1. ReadBeforeWraparound(consumer) = EffectiveBufferSize - consumer
    BY <1>1, BeforeWraparound
  <2>2. EffectiveBufferSize - consumer \in Nat /\ consumer \in Nat
    BY <1>1, RingSize DEF Offsets
  <2> QED
    BY <1>1, <2>1, <2>2, RingSize
<1>4. /\ sink' \in [DOMAIN sink' -> Int] /\ DOMAIN sink' = 0 .. off - 1
      /\ \A x \in DOMAIN sink' : sink'[x] = rstart' + x
  <2>1. CASE off = 0
    <3>1. sink' = EmptySink
      BY <2>1
    <3> QED
      BY <2>1, <3>1 DEF EmptySink
  <2>2. CASE off # 0
    <3>1. sink' = sink /\ off = rcvd - rstart /\ rstart' = rstart
      BY <1>1, <2>2
    <3> QED
      BY <1>1, <3>1 DEF SinkHoldsStream, TypeOK
  <2> QED
    BY <2>1, <2>2
<1>5. TypeOK'
  <2>1. rstart' \in Nat
    BY <1>1 DEF SegmentsFollowStream
  <2>2. availableBytes' \in Offsets
    BY <1>1, RingSize DEF Offsets
  <2>3. DOMAIN sink' \subseteq Nat
    BY <1>2, <1>4
  <2> QED
    BY <1>1, <1>2, <1>3, <1>4, <2>1, <2>2, <2>3 DEF TypeOK, PC
<1>6. sentSecond' = sentSecond /\ rcvdSecond' = rcvdSecond
      /\ writePending' = writePending /\ readPending' = n /\ readPending = 0
  BY <1>1, <1>3 DEF sentSecond, rcvdSecond, writePending, readPending, Ahead
<1>7. PointersFollowStream' /\ SnapshotsAreBehind'
  BY <1>6 DEF PointersFollowStream, SnapshotsAreBehind, Ahead
<1>8. BudgetsFit'
  <2>1. n \in Nat /\ n <= availableBytes /\ availableBytes' = availableBytes - n
    BY <1>1, NumbersAreInts
  <2> QED
    BY <1>6, <2>1, NumbersAreInts DEF BudgetsFit
<1>9. SegmentsEndAtWraparound'
  BY <1>3 DEF SegmentsEndAtWraparound
<1>10. SegmentsFollowStream'
  BY <1>1 DEF SegmentsFollowStream
<1>11. CellsHoldStream'
  BY DEF CellsHoldStream, Ahead
<1>12. SinkHoldsStream'
  <2>1. 0 .. off - 1 = {x \in 0 .. off + rseg' - 1 : x - off \notin 0 .. rseg' - 1}
    <3> HIDE DEF BeginReadData
    <3> QED
      BY <1>2, <1>3, CellsBeforeSegment, Zenon
  <2> QED
    BY <1>4, <2>1 DEF SinkHoldsStream
<1> QED
  BY <1>5, <1>7, <1>8, <1>9, <1>10, <1>11, <1>12

\* The cells of the segment being read hold the bytes dataSink is to receive.
LEMMA SegmentInStream ==
  ASSUME RingInv, rpc = "copy", NEW o \in 0 .. rseg - 1
  PROVE  /\ consumer + o \in Offsets
         /\ Ahead(consumer, consumer + o) = o
         /\ o < sent - rcvd
         /\ mem[consumer + o] = rcvd + o
<1>1. consumer \in Offsets /\ o \in Nat /\ consumer \in Nat
  BY NumbersAreInts DEF RingInv, TypeOK
<1>2. consumer + o < EffectiveBufferSize
  BY <1>1, NumbersAreInts, RingSize DEF RingInv, SegmentsEndAtWraparound
<1>3. o < sent - rcvd
  BY <1>1, NumbersAreInts DEF RingInv, BudgetsFit, readPending
<1>4. consumer + o \in Offsets /\ Ahead(consumer, consumer + o) = o
  BY <1>1, <1>2, AheadSelf, AheadInSegment, RingSize
<1> QED
  BY <1>3, <1>4 DEF RingInv, CellsHoldStream

\* The byte copied out is the next one of the stream.
LEMMA CopyOutKeeps ==
  ASSUME RingInv, NEW o \in rtodo, CopyOut(o)
  PROVE  RingInv'
<1> USE DEF RingInv, CopyOut, sharedVars, writerVars
<1>1. /\ o \in 0 .. rseg - 1 /\ rseg \in Nat /\ roff \in Nat /\ rcvd \in Nat /\ rstart \in Nat
      /\ rpc = "copy" /\ rpc' = "copy" /\ rtodo' = rtodo \ {o}
      /\ mem \in [Offsets -> Int] /\ sink \in [DOMAIN sink -> Int] /\ DOMAIN sink \subseteq Nat
      /\ rtodo \subseteq 0 .. rseg - 1
  BY DEF TypeOK
<1>2. mem[consumer + o] = rstart + (roff + o)
  BY <1>1, SegmentInStream DEF SegmentsFollowStream
<1>3. /\ DOMAIN sink' = DOMAIN sink \cup {roff + o}
      /\ sink' \in [DOMAIN sink' -> Int]
      /\ \A x \in DOMAIN sink' : sink'[x] = rstart + x
  BY <1>1, <1>2 DEF SinkHoldsStream
<1>4. TypeOK'
  BY <1>1, <1>3 DEF TypeOK
<1>5. PointersFollowStream' /\ SnapshotsAreBehind' /\ BudgetsFit'
  BY DEF PointersFollowStream, SnapshotsAreBehind, BudgetsFit, Ahead,
         sentSecond, rcvdSecond, writePending, readPending
<1>6. SegmentsEndAtWraparound' /\ SegmentsFollowStream' /\ CellsHoldStream'
  BY DEF SegmentsEndAtWraparound, SegmentsFollowStream, CellsHoldStream, Ahead
<1>7. DOMAIN sink' = {x \in 0 .. roff + rseg - 1 : x - roff \notin rtodo'}
  <2>1. DOMAIN sink = {x \in 0 .. roff + rseg - 1 : x - roff \notin rtodo}
    BY <1>1 DEF SinkHoldsStream
  <2>2. roff + o \in 0 .. roff + rseg - 1 /\ (roff + o) - roff = o
    BY <1>1
  <2>3. \A x \in 0 .. roff + rseg - 1 : x - roff = o <=> x = roff + o
    BY <1>1
  <2> QED
    BY <1>1, <1>3, <2>1, <2>2, <2>3
<1>8. SinkHoldsStream'
  BY <1>1, <1>3, <1>7 DEF SinkHoldsStream
<1> QED
  BY <1>4, <1>5, <1>6, <1>8

\* The segment leaves the bytes in flight.
LEMMA StoreConsumerKeeps ==
  ASSUME RingInv, StoreConsumer
  PROVE  RingInv'
<1> USE DEF RingInv, StoreConsumer, writerVars
<1>1. /\ producer \in Offsets /\ consumer \in Offsets /\ secondProducer \in Offsets
      /\ secondConsumer \in Offsets
      /\ rpc = "copy" /\ rpc' = "publish" /\ rtodo = {}
      /\ rseg \in Nat /\ consumer + rseg <= EffectiveBufferSize
      /\ consumer' = Advance(consumer, rseg) /\ rcvd' = rcvd + rseg
  BY DEF TypeOK, SegmentsEndAtWraparound
<1>0. /\ readPending = rseg + rrest /\ readPending' = rrest /\ writePending' = writePending
      /\ sentSecond' = sentSecond
  BY <1>1, NumbersAreInts DEF sentSecond, writePending, readPending, Ahead
<1>3. rseg <= sentSecond - rcvd /\ rseg <= sent - rcvd
  BY <1>1, <1>0, NumbersAreInts DEF BudgetsFit
<1>2. /\ readPending = rseg + rrest /\ readPending' = rrest /\ writePending' = writePending
      /\ sentSecond' = sentSecond
      /\ rcvdSecond' = rcvdSecond
  <2>1. Ahead(secondConsumer, consumer) = rcvd - rcvdSecond
    BY SecondCopiesLag
  <2>2. sent - rcvdSecond < EffectiveBufferSize
    <3>1. Ahead(secondConsumer, producer) \in Offsets
      BY <1>1, AheadType
    <3> QED
      BY <3>1, RingSize DEF PointersFollowStream, Offsets
  <2>3. Ahead(secondConsumer, consumer) + rseg < EffectiveBufferSize
    BY <1>1, <1>3, <2>1, <2>2, NumbersAreInts, RingSize
  <2>4. Ahead(secondConsumer, consumer') = Ahead(secondConsumer, consumer) + rseg
    BY <1>1, <2>3, AheadAdvances
  <2>5. rcvdSecond' = rcvd' - Ahead(secondConsumer, consumer')
    BY DEF rcvdSecond, Ahead
  <2> QED
    BY <1>0, <1>1, <2>1, <2>4, <2>5, NumbersAreInts
<1>4. /\ consumer' \in Offsets
      /\ Ahead(consumer', producer) = sent - rcvd'
  BY <1>1, <1>3, AheadShrinks, NumbersAreInts DEF PointersFollowStream
<1>5. Ahead(consumer', secondProducer) = sentSecond - rcvd'
  BY <1>1, <1>3, AheadShrinks, NumbersAreInts DEF PointersFollowStream
<1>6. TypeOK'
  BY <1>1, <1>4, NumbersAreInts DEF TypeOK, PC
<1>7. PointersFollowStream'
  BY <1>2, <1>4, <1>5 DEF PointersFollowStream, Ahead
<1>8. SnapshotsAreBehind'
  BY <1>1, <1>2 DEF SnapshotsAreBehind, Ahead
<1>9. BudgetsFit'
  BY <1>1, <1>2, NumbersAreInts, RingSize DEF BudgetsFit
<1>10. SegmentsEndAtWraparound'
  <2>1. rrest > 0 => consumer' = 0
    BY <1>1, AdvanceWraps DEF SegmentsEndAtWraparound
  <2> QED
    BY <1>1, <2>1 DEF SegmentsEndAtWraparound
<1>11. SegmentsFollowStream'
  BY <1>1, NumbersAreInts DEF SegmentsFollowStream
<1>12. CellsHoldStream'
  <2>1. ASSUME NEW i \in Offsets, Ahead(consumer', i) < sent - rcvd'
        PROVE  mem[i] = rcvd' + Ahead(consumer', i)
    <3>1. Ahead(consumer, i) = Ahead(consumer', i) + rseg
      BY <1>1, <1>3, <1>4, <2>1, AheadReached, NumbersAreInts DEF PointersFollowStream
    <3>2. Ahead(consumer', i) \in Int
      <4>1. Ahead(consumer', i) \in Offsets
        BY <1>4, AheadType
      <4> QED
        BY <4>1 DEF Offsets
    <3>3. Ahead(consumer, i) < sent - rcvd
      BY <1>1, <2>1, <3>1, <3>2, NumbersAreInts
    <3>4. mem[i] = rcvd + Ahead(consumer, i)
      BY <3>3 DEF CellsHoldStream
    <3> QED
      BY <1>1, <3>1, <3>2, <3>4, NumbersAreInts
  <2> QED
    BY <1>1, <2>1 DEF CellsHoldStream, Ahead
<1>13. SinkHoldsStream'
  <2>1. DOMAIN sink = 0 .. roff + rseg - 1
    BY <1>1 DEF SinkHoldsStream
  <2> QED
    BY <1>1, <2>1 DEF SinkHoldsStream
<1> QED
  BY <1>6, <1>7, <1>8, <1>9, <1>10, <1>11, <1>12, <1>13

\* The second copy catches up; the rest starts at cell 0.
LEMMA StoreSecondConsumerKeeps ==
  ASSUME RingInv, StoreSecondConsumer
  PROVE  RingInv'
<1> USE DEF RingInv
<1>1. /\ rpc = "publish" /\ secondConsumer' = consumer
      /\ UNCHANGED <<mem, producer, secondProducer, consumer,
                     rsnap, availableBytes, rstart, sink, rcvd, writerVars>>
  BY DEF StoreSecondConsumer
<1>2. rrest > 0 => /\ roff' = roff + rseg /\ rseg' = rrest /\ rrest' = 0
                   /\ rtodo' = 0 .. rrest - 1 /\ rpc' = "copy"
  BY DEF StoreSecondConsumer
<1>3. ~(rrest > 0) => rpc' = "idle" /\ UNCHANGED <<rseg, rrest, rtodo, roff>>
  BY DEF StoreSecondConsumer
<1>4. /\ consumer \in Offsets /\ rseg \in Nat /\ rrest \in Nat /\ roff \in Nat
      /\ rtodo \subseteq 0 .. rseg - 1 /\ rpc' \in {"copy", "idle"}
      /\ producer \in Offsets
  BY <1>2, <1>3 DEF TypeOK
<1>5. /\ rcvdSecond' = rcvd
      /\ readPending' = rrest /\ readPending = rrest
  <2>1. Ahead(consumer, consumer) = 0
    BY <1>4, AheadSelf
  <2>2. rcvdSecond' = rcvd - Ahead(consumer, consumer)
    BY <1>1 DEF rcvdSecond, Ahead
  <2> QED
    BY <1>1, <1>2, <1>3, <1>4, <2>1, <2>2, NumbersAreInts DEF readPending
<1>6. sentSecond' = sentSecond /\ writePending' = writePending
  BY <1>1 DEF sentSecond, writePending, writerVars, Ahead
<1>7. TypeOK'
  <2>1. rseg' \in Nat /\ rrest' \in Nat /\ roff' \in Nat /\ rtodo' \subseteq 0 .. rseg' - 1
    <3>1. CASE rrest > 0
      BY <1>2, <1>4, <3>1
    <3>2. CASE ~(rrest > 0)
      BY <1>3, <1>4, <3>2
    <3> QED
      BY <3>1, <3>2
  <2> QED
    BY <1>1, <1>4, <2>1 DEF TypeOK, PC, writerVars
<1>8. PointersFollowStream'
  BY <1>1, <1>5, <1>6 DEF PointersFollowStream, Ahead, writerVars
<1>9. SnapshotsAreBehind'
  <2>1. rpc' # "check"
    BY <1>4
  <2>2. wpc = "check" => Ahead(wsnap, producer) \in Int
    <3>1. wsnap \in Offsets /\ producer \in Offsets
      BY DEF TypeOK
    <3>2. Ahead(wsnap, producer) \in Offsets
      BY <3>1, AheadType
    <3> QED
      BY <3>2 DEF Offsets
  <2>3. wpc' = "check" => Ahead(wsnap, producer) >= sent - rcvd
    BY <1>1, <1>4, <1>5, <2>2, NumbersAreInts DEF SnapshotsAreBehind, writerVars
  <2> QED
    BY <1>1, <1>5, <2>1, <2>3 DEF SnapshotsAreBehind, Ahead, writerVars
<1>10. BudgetsFit'
  BY <1>1, <1>4, <1>5, <1>6, NumbersAreInts, RingSize DEF BudgetsFit, writerVars
<1>11. SegmentsEndAtWraparound'
  <2>1. rrest > 0 => consumer = 0 /\ rrest <= EffectiveBufferSize
    <3>1. Ahead(consumer, secondProducer) \in Offsets
      <4>1. consumer \in Offsets /\ secondProducer \in Offsets
        BY DEF TypeOK
      <4> QED
        BY <4>1, AheadType
    <3>2. sentSecond - rcvd < EffectiveBufferSize
      BY <3>1, RingSize DEF PointersFollowStream, Offsets
    <3> QED
      BY <1>1, <1>4, <1>5, <3>2, NumbersAreInts, RingSize DEF SegmentsEndAtWraparound, BudgetsFit
  <2>2. rpc' = "copy" => consumer' + rseg' <= EffectiveBufferSize /\ ~(rrest' > 0)
    BY <1>1, <1>2, <1>3, <1>4, <2>1, RingSize
  <2> QED
    BY <1>1, <1>4, <2>2 DEF SegmentsEndAtWraparound, writerVars
<1>12. SegmentsFollowStream'
  <2>1. rpc' = "copy" => rstart' + roff' = rcvd'
    <3>1. rstart + roff + rseg = rcvd
      BY <1>1 DEF SegmentsFollowStream
    <3>2. rstart + (roff + rseg) = rcvd
      BY <3>1, NumbersAreInts
    <3>3. rpc' = "copy" => roff' = roff + rseg
      BY <1>2, <1>3
    <3> QED
      BY <1>1, <3>2, <3>3
  <2> QED
    BY <1>1, <1>4, <2>1 DEF SegmentsFollowStream, writerVars
<1>13. CellsHoldStream'
  BY <1>1 DEF CellsHoldStream, Ahead, writerVars
<1>14. SinkHoldsStream'
  <2>1. DOMAIN sink = 0 .. roff + rseg - 1
    BY <1>1 DEF SinkHoldsStream
  <2>2. CASE rrest > 0
    <3>1. 0 .. roff' - 1 = {x \in 0 .. roff' + rseg' - 1 : x - roff' \notin 0 .. rseg' - 1}
      BY <1>2, <1>4, <2>2, CellsBeforeSegment
    <3>2. rtodo' = 0 .. rseg' - 1 /\ roff' = roff + rseg /\ rpc' = "copy"
      BY <1>2, <2>2
    <3>3. DOMAIN sink' = {x \in 0 .. roff' + rseg' - 1 : x - roff' \notin rtodo'}
      <4>1. DOMAIN sink' = 0 .. roff' - 1
        <5>1. sink' = sink
          BY <1>1
        <5> QED
          BY <1>4, <2>1, <3>2, <5>1
      <4>2. rtodo' = 0 .. rseg' - 1
        BY <3>2
      <4> QED
        BY <3>1, <4>1, <4>2, Zenon
    <3> QED
      BY <1>1, <3>2, <3>3 DEF SinkHoldsStream
  <2>3. CASE ~(rrest > 0)
    <3>1. roff + rseg - 1 = rcvd - rstart - 1
      BY <1>1, NumbersAreInts DEF SegmentsFollowStream
    <3> QED
      BY <1>1, <1>3, <2>1, <2>3, <3>1 DEF SinkHoldsStream
  <2> QED
    BY <2>2, <2>3
<1> QED
  BY <1>7, <1>8, <1>9, <1>10, <1>11, <1>12, <1>13, <1>14

-----------------------------------------------------------------------------
(* The invariant and what follows from it.                                 *)

\* The constructors establish the invariant.
LEMMA RingInvInit == BufferInit => RingInv
<1> SUFFICES ASSUME BufferInit PROVE RingInv
  OBVIOUS
<1> USE DEF BufferInit
<1>1. 0 \in Offsets
  BY RingSize DEF Offsets
<1>2. DOMAIN sink = {} /\ sink \in [DOMAIN sink -> Int]
  BY DEF EmptySink
<1>3. TypeOK
  BY <1>1, <1>2, MaxBytesAssumption DEF TypeOK, PC, NoByte
<1>4. Ahead(0, 0) = 0
  BY <1>1, AheadSelf
<1>5. PointersFollowStream /\ SnapshotsAreBehind /\ BudgetsFit
  BY <1>4, RingSize, MaxBytesAssumption DEF PointersFollowStream, SnapshotsAreBehind, BudgetsFit,
     sentSecond, rcvdSecond, writePending, readPending
<1>6. SegmentsEndAtWraparound /\ SegmentsFollowStream
  BY DEF SegmentsEndAtWraparound, SegmentsFollowStream
<1>7. CellsHoldStream
  <2>1. ASSUME NEW i \in Offsets PROVE ~(Ahead(consumer, i) < sent - rcvd)
    <3>1. Ahead(0, i) \in Offsets
      BY <1>1, AheadType
    <3> QED
      BY <3>1 DEF Offsets
  <2> QED
    BY <2>1 DEF CellsHoldStream
<1>8. SinkHoldsStream
  BY <1>2 DEF SinkHoldsStream
<1> QED
  BY <1>3, <1>5, <1>6, <1>7, <1>8 DEF RingInv

\* Every step keeps the invariant, and so does a step of anything else.
LEMMA RingInvStep == RingInv /\ [BufferNext]_bufferVars => RingInv'
<1> SUFFICES ASSUME RingInv, [BufferNext]_bufferVars PROVE RingInv'
  OBVIOUS
<1>1. CASE WriterStep
  BY <1>1, LoadSecondConsumerKeeps, LoadConsumerKeeps, CopyInKeeps, StoreProducerKeeps,
     StoreSecondProducerKeeps DEF WriterStep
<1>2. CASE ReaderStep
  BY <1>2, LoadSecondProducerKeeps, LoadProducerKeeps, CopyOutKeeps, StoreConsumerKeeps,
     StoreSecondConsumerKeeps DEF ReaderStep
<1>3. CASE LoadSecondConsumer
  BY <1>3, LoadSecondConsumerKeeps
<1>4. CASE LoadSecondProducer
  BY <1>4, LoadSecondProducerKeeps
<1>5. CASE \E off \in {0, sent - wstart}, n \in 0 .. freeBytes :
             sent + n <= MaxBytes /\ BeginWriteData(off, n)
  BY <1>5, BeginWriteDataKeeps
<1>6. CASE \E off \in {0, rcvd - rstart}, n \in 0 .. availableBytes : BeginReadData(off, n)
  BY <1>6, BeginReadDataKeeps
<1>7. CASE UNCHANGED bufferVars
  <2> USE <1>7 DEF bufferVars, sharedVars, writerVars, readerVars
  <2>1. TypeOK' = TypeOK /\ SegmentsEndAtWraparound' = SegmentsEndAtWraparound
        /\ SegmentsFollowStream' = SegmentsFollowStream
    BY DEF TypeOK, SegmentsEndAtWraparound, SegmentsFollowStream
  <2>2. PointersFollowStream' = PointersFollowStream /\ SnapshotsAreBehind' = SnapshotsAreBehind
    BY DEF PointersFollowStream, SnapshotsAreBehind, Ahead, sentSecond, rcvdSecond
  <2>3. BudgetsFit' = BudgetsFit
    BY DEF BudgetsFit, sentSecond, rcvdSecond, writePending, readPending, Ahead
  <2>4. CellsHoldStream' = CellsHoldStream /\ SinkHoldsStream' = SinkHoldsStream
    BY DEF CellsHoldStream, SinkHoldsStream, Ahead
  <2> QED
    BY <2>1, <2>2, <2>3, <2>4 DEF RingInv
<1> QED
  BY <1>1, <1>2, <1>3, <1>4, <1>5, <1>6, <1>7 DEF BufferNext

\* Whatever two ends do that keep to their counts, on a ring of any size and for
\* any number of bytes, pointers, counts, cells and dataSink agree (RingInv).
THEOREM RingInvariant == BufferSpec => []RingInv
<1>1. BufferInit => RingInv
  BY RingInvInit
<1>2. RingInv /\ [BufferNext]_bufferVars => RingInv'
  BY RingInvStep
<1> QED
  BY <1>1, <1>2, PTL DEF BufferSpec

\* The pointers and locals of both ends stay inside the ring (TypeOK).
THEOREM TypeCorrect == BufferSpec => []TypeOK
<1>1. RingInv => TypeOK
  BY DEF RingInv
<1> QED
  BY <1>1, RingInvariant, PTL

\* ReadData delivers the bytes WriteData was given, in order (DeliveredInOrder).
THEOREM Delivery == BufferSpec => []DeliveredInOrder
<1>1. RingInv => DeliveredInOrder
  BY DEF RingInv, SinkHoldsStream, DeliveredInOrder
<1> QED
  BY <1>1, RingInvariant, PTL

\* The segment being written is beyond the stream, the one being read in it.
LEMMA RingIsRaceFree ==
  ASSUME RingInv
  PROVE  NoDataRace
<1> SUFFICES ASSUME wpc = "copy", rpc = "copy",
                    NEW o \in wtodo, NEW x \in rtodo, producer + o = consumer + x
             PROVE  FALSE
  BY DEF NoDataRace
<1>1. o \in 0 .. wseg - 1 /\ x \in 0 .. rseg - 1
  BY DEF RingInv, TypeOK
<1>2. Ahead(consumer, producer + o) = sent - rcvd + o
  BY <1>1, SegmentBeyondStream
<1>3. Ahead(consumer, consumer + x) = x /\ x < sent - rcvd
  BY <1>1, SegmentInStream
<1> QED
  BY <1>1, <1>2, <1>3, NumbersAreInts

\* The two memcpy never touch the same cell (NoDataRace).
THEOREM RaceFreedom == BufferSpec => []NoDataRace
<1>1. RingInv => NoDataRace
  BY RingIsRaceFree
<1> QED
  BY <1>1, RingInvariant, PTL

\* NumberOfBytesFreeToWrite never overstates (FreeNeverOverstated).
THEOREM FreeIsSafe == BufferSpec => []FreeNeverOverstated
<1>1. RingInv => FreeNeverOverstated
  <2> SUFFICES ASSUME RingInv
               PROVE  freeBytes + (sent - rcvd) <= EffectiveBufferSize - 1
    BY DEF FreeNeverOverstated
  <2> QED
    BY NumbersAreInts, RingSize DEF RingInv, BudgetsFit
<1> QED
  BY <1>1, RingInvariant, PTL

\* NumberOfBytesAvailableToRead never overstates (AvailableNeverOverstated).
THEOREM AvailableIsSafe == BufferSpec => []AvailableNeverOverstated
<1>1. RingInv => AvailableNeverOverstated
  <2> SUFFICES ASSUME RingInv
               PROVE  availableBytes <= sent - rcvd
    BY DEF AvailableNeverOverstated
  <2> QED
    BY NumbersAreInts DEF RingInv, BudgetsFit
<1> QED
  BY <1>1, RingInvariant, PTL

\* The copies agree at first, and only an advance tells them apart.
LEMMA CopiesAgreeStep == CopiesAgree /\ [BufferNext]_bufferVars => CopiesAgree'
<1> SUFFICES ASSUME CopiesAgree, [BufferNext]_bufferVars PROVE CopiesAgree'
  OBVIOUS
<1> USE DEF CopiesAgree, sharedVars, writerVars, readerVars
<1>1. CASE WriterStep
  BY <1>1 DEF WriterStep, LoadSecondConsumer, LoadConsumer, CopyIn, StoreProducer,
              StoreSecondProducer
<1>2. CASE ReaderStep
  BY <1>2 DEF ReaderStep, LoadSecondProducer, LoadProducer, CopyOut, StoreConsumer,
              StoreSecondConsumer
<1>3. CASE LoadSecondConsumer \/ LoadSecondProducer
  BY <1>3 DEF LoadSecondConsumer, LoadSecondProducer
<1>4. CASE \E off, n : BeginWriteData(off, n)
  BY <1>4 DEF BeginWriteData
<1>5. CASE \E off, n : BeginReadData(off, n)
  BY <1>5 DEF BeginReadData
<1>6. CASE UNCHANGED bufferVars
  BY <1>6 DEF bufferVars
<1> QED
  BY <1>1, <1>2, <1>3, <1>4, <1>5, <1>6 DEF BufferNext

\* Between two advances the counts add up to the capacity (CountsAddUp).
THEOREM CountsAreExact == BufferSpec => []CountsAddUp
<1>1. RingInv /\ CopiesAgree => CountsAddUp
  <2> SUFFICES ASSUME RingInv, CopiesAgree, wpc # "publish", rpc # "publish"
               PROVE  FreeToWrite(producer, secondConsumer) + AvailableToRead(secondProducer, consumer)
                        = BufferSize - RESERVE_SIZE - 1
    BY DEF CountsAddUp
  <2>1. producer \in Offsets /\ consumer \in Offsets
    BY DEF RingInv, TypeOK
  <2>2. secondConsumer = consumer /\ secondProducer = producer
    BY DEF CopiesAgree
  <2>3. FreeToWrite(producer, consumer) = EffectiveBufferSize - 1 - (sent - rcvd)
    BY <2>1, FreeIsRest DEF RingInv, PointersFollowStream
  <2>4. AvailableToRead(producer, consumer) = sent - rcvd
    BY <2>1, AvailableIsAhead DEF RingInv, PointersFollowStream
  <2> QED
    BY <2>2, <2>3, <2>4, NumbersAreInts, RingSize
<1>2. BufferInit => CopiesAgree
  BY DEF BufferInit, CopiesAgree
<1>3. CopiesAgree /\ [BufferNext]_bufferVars => CopiesAgree'
  BY CopiesAgreeStep
<1> QED
  BY <1>1, <1>2, <1>3, RingInvariant, PTL DEF BufferSpec
-----------------------------------------------------------------------------
(* The refinement of the byte stream: every other step is a stutter.       *)

\* The bytes of the stream from position a up to, not including, position b.
Positions(a, b) == [i \in 1 .. b - a |-> a + i - 1]

\* The cell k ahead of a pointer is the one the pointer advances to, on either
\* side of the wraparound.
LEMMA AheadOfAdvance ==
  ASSUME NEW p \in Offsets, NEW k \in Offsets
  PROVE  Advance(p, k) \in Offsets /\ Ahead(p, Advance(p, k)) = k
<1>1. /\ p \in Nat /\ k \in Nat /\ p < EffectiveBufferSize /\ k < EffectiveBufferSize
      /\ EffectiveBufferSize \in Nat /\ p + k \in Nat
  BY RingSize DEF Offsets
<1>2. U64(p + k) = p + k
  BY <1>1, RingSize, U64Identity
<1>3. CASE p + k < EffectiveBufferSize
  <2>1. Advance(p, k) = p + k
    BY <1>1, <1>2, <1>3 DEF Advance
  <2> QED
    BY <1>1, <1>3, <2>1 DEF Ahead, Offsets
<1>4. CASE p + k >= EffectiveBufferSize
  <2>1. (p + k) % EffectiveBufferSize = (p + k) - EffectiveBufferSize
    <3>1. p + k < 2 * EffectiveBufferSize /\ EffectiveBufferSize <= p + k
      BY <1>1, <1>4
    <3> QED
      BY <1>1, <3>1, ModOneTurn, Zenon
  <2>2. Advance(p, k) = (p + k) - EffectiveBufferSize
    BY <1>2, <1>4, <2>1 DEF Advance
  <2> QED
    BY <1>1, <1>4, <2>2 DEF Ahead, Offsets
<1> QED
  BY <1>1, <1>3, <1>4

\* What is in flight are the bytes sent and not yet received.
LEMMA InFlightIsUnread ==
  ASSUME RingInv
  PROVE  /\ InFlight = Positions(rcvd, sent)
         /\ sent - rcvd \in Offsets
<1>1. consumer \in Offsets /\ producer \in Offsets
  BY DEF RingInv, TypeOK
<1>2. AvailableToRead(producer, consumer) = sent - rcvd
  BY <1>1, AvailableIsAhead DEF RingInv, PointersFollowStream
<1>3. sent - rcvd \in Offsets
  BY <1>1, <1>2, AvailableIsAhead, AheadType
<1>4. ASSUME NEW i \in 1 .. sent - rcvd
      PROVE  mem[Advance(consumer, i - 1)] = rcvd + i - 1
  <2>1. i - 1 \in Offsets /\ i - 1 < sent - rcvd /\ i \in Int
    BY <1>3, NumbersAreInts, RingSize DEF Offsets
  <2>2. /\ Advance(consumer, i - 1) \in Offsets
        /\ Ahead(consumer, Advance(consumer, i - 1)) = i - 1
    BY <1>1, <2>1, AheadOfAdvance
  <2>3. mem[Advance(consumer, i - 1)] = rcvd + (i - 1)
    BY <2>1, <2>2 DEF RingInv, CellsHoldStream
  <2> QED
    BY <2>1, <2>3, NumbersAreInts
<1> QED
  BY <1>2, <1>3, <1>4 DEF InFlight, Positions

\* Positions as sequences: their length, appending at the end, taking from the
\* front.
LEMMA PositionsAreSequences ==
  ASSUME NEW a \in Nat, NEW b \in Nat, a <= b, NEW k \in Nat
  PROVE  /\ Positions(a, b) \in Seq(Int) /\ Len(Positions(a, b)) = b - a
         /\ Positions(a, b) \o [i \in 1 .. k |-> b + i - 1] = Positions(a, b + k)
         /\ k <= b - a => SubSeq(Positions(a, b), k + 1, Len(Positions(a, b))) = Positions(a + k, b)
<1> DEFINE s == Positions(a, b)
           t == [i \in 1 .. k |-> b + i - 1]
<1>1. b - a \in Nat /\ s = [i \in 1 .. b - a |-> a + i - 1]
  BY DEF Positions
<1>2. s \in Seq(Int) /\ Len(s) = b - a
  BY <1>1
<1>3. t \in Seq(Int) /\ Len(t) = k
  OBVIOUS
<1>4. s \o t = Positions(a, b + k)
  <2>1. b + k - a = (b - a) + k
    OBVIOUS
  <2> QED
    BY <1>1, <1>2, <1>3, <2>1 DEF Positions
<1>5. ASSUME k <= b - a
      PROVE  SubSeq(s, k + 1, Len(s)) = Positions(a + k, b)
  <2>1. b - (a + k) = (b - a) - k
    OBVIOUS
  <2> QED
    BY <1>1, <1>2, <1>5, <2>1 DEF Positions
<1> QED
  BY <1>2, <1>4, <1>5

\* A step appends what StoreProducer publishes, takes what StoreConsumer gives
\* back, or neither.
LEMMA StreamMoves ==
  ASSUME RingInv, [BufferNext]_bufferVars
  PROVE  \/ sent' = sent /\ rcvd' = rcvd
         \/ sent' = sent + wseg /\ rcvd' = rcvd
         \/ sent' = sent /\ rcvd' = rcvd + rseg
<1>1. CASE WriterStep
  BY <1>1 DEF WriterStep, LoadSecondConsumer, LoadConsumer, CopyIn, StoreProducer,
              StoreSecondProducer, readerVars
<1>2. CASE ReaderStep
  BY <1>2 DEF ReaderStep, LoadSecondProducer, LoadProducer, CopyOut, StoreConsumer,
              StoreSecondConsumer, writerVars
<1>3. CASE LoadSecondConsumer \/ LoadSecondProducer
  BY <1>3 DEF LoadSecondConsumer, LoadSecondProducer, readerVars, writerVars
<1>4. CASE \E off, n : BeginWriteData(off, n)
  BY <1>4 DEF BeginWriteData, readerVars
<1>5. CASE \E off, n : BeginReadData(off, n)
  BY <1>5 DEF BeginReadData, writerVars
<1>6. CASE UNCHANGED bufferVars
  BY <1>6 DEF bufferVars, writerVars, readerVars
<1> QED
  BY <1>1, <1>2, <1>3, <1>4, <1>5, <1>6 DEF BufferNext

\* Every step of the ring is a step of the stream or a stutter.
LEMMA StreamStep ==
  ASSUME RingInv, [BufferNext]_bufferVars
  PROVE  [Stream!Next]_<<InFlight, sent>>
<1>1. RingInv'
  BY RingInvStep
<1>2. /\ InFlight = Positions(rcvd, sent) /\ sent - rcvd \in Offsets
      /\ InFlight' = Positions(rcvd', sent') /\ sent' - rcvd' \in Offsets
  <2>1. InFlight = Positions(rcvd, sent) /\ sent - rcvd \in Offsets
    BY InFlightIsUnread
  <2>2. (InFlight = Positions(rcvd, sent) /\ sent - rcvd \in Offsets)'
    BY <1>1, InFlightIsUnread, PTL
  <2> QED
    BY <2>1, <2>2 DEF Positions
<1>3. sent \in Nat /\ rcvd \in Nat /\ wseg \in Nat /\ rseg \in Nat /\ rcvd <= sent
  BY <1>2, NumbersAreInts, RingSize DEF Offsets
<1>4. /\ InFlight \in Seq(Int) /\ Len(InFlight) = sent - rcvd
      /\ InFlight \o [i \in 1 .. wseg |-> sent + i - 1] = Positions(rcvd, sent + wseg)
      /\ rseg <= sent - rcvd =>
           SubSeq(InFlight, rseg + 1, Len(InFlight)) = Positions(rcvd + rseg, sent)
  BY <1>2, <1>3, PositionsAreSequences
<1>5. CASE sent' = sent /\ rcvd' = rcvd
  BY <1>2, <1>5
<1>6. CASE sent' = sent + wseg /\ rcvd' = rcvd
  <2>1. CASE wseg = 0
    <3>1. sent' = sent
      BY <1>3, <1>6, <2>1
    <3> QED
      BY <1>2, <1>6, <3>1
  <2>2. CASE wseg > 0
    <3>1. Len(InFlight) + wseg <= EffectiveBufferSize - 1 /\ wseg \in 1 .. EffectiveBufferSize - 1
      BY <1>2, <1>3, <1>4, <1>6, <2>2, RingSize DEF Offsets
    <3>2. Stream!Send(wseg)
      BY <1>2, <1>4, <1>6, <3>1 DEF Stream!Send
    <3> QED
      BY <3>1, <3>2 DEF Stream!Next
  <2> QED
    BY <1>3, <2>1, <2>2
<1>7. CASE sent' = sent /\ rcvd' = rcvd + rseg
  <2>1. CASE rseg = 0
    <3>1. rcvd' = rcvd
      BY <1>3, <1>7, <2>1
    <3> QED
      BY <1>2, <1>7, <3>1
  <2>2. CASE rseg > 0
    <3>1. rseg <= sent - rcvd /\ rseg \in 1 .. Len(InFlight)
      BY <1>2, <1>3, <1>4, <1>7, <2>2, RingSize DEF Offsets
    <3>2. Stream!Receive(rseg)
      BY <1>2, <1>4, <1>7, <3>1 DEF Stream!Receive
    <3> QED
      BY <3>1, <3>2 DEF Stream!Next
  <2> QED
    BY <1>3, <2>1, <2>2
<1> QED
  BY <1>5, <1>6, <1>7, StreamMoves

\* The ring starts as the empty stream.
LEMMA StreamInit ==
  ASSUME BufferInit
  PROVE  Stream!Init
<1>1. InFlight = Positions(rcvd, sent) /\ sent = 0 /\ rcvd = 0
  BY RingInvInit, InFlightIsUnread DEF BufferInit
<1>2. Len(InFlight) = 0 /\ InFlight \in Seq(Int)
  BY <1>1, PositionsAreSequences
<1> QED
  BY <1>1, <1>2 DEF Stream!Init

\* A ring of any size, with the steps of its two ends interleaved at will,
\* implements the bounded FIFO stream (ImplementsStream).
THEOREM Refinement == BufferSpec => ImplementsStream
<1>1. BufferInit => Stream!Init
  BY StreamInit
<1>2. RingInv /\ [BufferNext]_bufferVars => [Stream!Next]_<<InFlight, sent>>
  BY StreamStep
<1> QED
  BY <1>1, <1>2, RingInvariant, PTL DEF BufferSpec, ImplementsStream, Stream!Spec
=============================================================================
