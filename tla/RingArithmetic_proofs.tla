------------------------ MODULE RingArithmetic_proofs ------------------------
(***************************************************************************)
(* Proofs about the two modules that take steps of the ring apart and keep *)
(* of it nothing but its arithmetic, for a ring of any size.               *)
(*                                                                         *)
(* BusyReattach: a server stays inside the ring while clients attach to it *)
(* as often as they like, in the middle of its calls.  All that a client   *)
(* can do to the server's pointer is to make it 0.  The invariant says at  *)
(* each place of the code why that is harmless: what was computed from the *)
(* pointer before fits from 0 on as well.                                  *)
(*                                                                         *)
(* TornPointer: a count is safe although every load and store of a pointer *)
(* is made in two parts, unless one was accepted of which two things are   *)
(* true: the pointer divides inside the ring, and the turn of the loop met *)
(* two advances.  In a 32-bit build it is safe without exception.          *)
(***************************************************************************)
EXTENDS BusyReattach, TornPointer, TLAPS

-----------------------------------------------------------------------------
(* Numbers.                                                                *)

\* A number below the modulus is its own remainder.
LEMMA SmallRemainder ==
  ASSUME NEW x \in Nat, NEW m \in Nat, x < m
  PROVE  x % m = x
BY SMT

\* The size of the ring: two of it fit into a word.
LEMMA Size ==
  /\ EffectiveBufferSize \in Nat /\ EffectiveBufferSize > 0
  /\ Word \in Nat /\ 2 * EffectiveBufferSize < Word
  /\ BufferSize \in Nat /\ EffectiveBufferSize = BufferSize - RESERVE_SIZE /\ RESERVE_SIZE \in Nat
<1>1. RESERVE_SIZE = 32
  BY DEF RESERVE_SIZE, SizeOfU64
<1>2. BufferSize - RESERVE_SIZE \in Nat /\ BufferSize - RESERVE_SIZE < Word
  BY <1>1, BufferAssumption
<1>3. EffectiveBufferSize = BufferSize - RESERVE_SIZE
  BY <1>2, BufferAssumption, SmallRemainder DEF EffectiveBufferSize, U64
<1> QED
  BY <1>1, <1>3, BufferAssumption

\* What is below twice the size of the ring does not wrap.
LEMMA NoWrap ==
  ASSUME NEW x \in Nat, x <= 2 * EffectiveBufferSize
  PROVE  U64(x) = x
BY Size, SmallRemainder DEF U64

\* An advance up to the wraparound, or short of it.
LEMMA AdvanceInside ==
  ASSUME NEW p \in Offsets, NEW k \in Nat, p + k <= EffectiveBufferSize
  PROVE  /\ Advance(p, k) \in Offsets
         /\ Advance(p, k) = IF p + k = EffectiveBufferSize THEN 0 ELSE p + k
<1>1. p \in Nat /\ p + k \in Nat
  BY Size DEF Offsets
<1>2. U64(p + k) = p + k
  BY <1>1, Size, NoWrap
<1>3. EffectiveBufferSize % EffectiveBufferSize = 0
  BY Size, SMT
<1> QED
  BY <1>1, <1>2, <1>3, Size DEF Advance, Offsets

-----------------------------------------------------------------------------
(* BusyReattach: the client.                                               *)

\* Its stores leave the server's pointer alone, or make it 0.
LEMMA ClientKeeps ==
  ASSUME BusyInv, StoreProducer \/ StoreSecondProducer \/ Restart \/ Construct
  PROVE  BusyInv'
<1>1. 0 \in Offsets
  BY Size DEF Offsets
<1>2. /\ UNCHANGED serverVars
      /\ producer' \in Offsets /\ secondProducer' \in Offsets
      /\ consumer' \in {consumer, 0} /\ secondConsumer' \in {secondConsumer, 0}
  BY <1>1 DEF BusyInv, BusyTypeOK, StoreProducer, StoreSecondProducer, Restart, Construct
<1>3. BusyTypeOK'
  BY <1>1, <1>2 DEF BusyInv, BusyTypeOK, Transferring, serverVars
<1>4. CountFitsPointer'
  <2>1. available \in Nat /\ rsnap \in Nat /\ EffectiveBufferSize \in Nat
    BY Size DEF BusyInv, BusyTypeOK, Offsets
  <2> QED
    BY <1>2, <2>1 DEF BusyInv, CountFitsPointer, Transferring, serverVars
<1>5. SegmentFitsPointer'
  <2>1. consumer \in Nat /\ rseg \in Nat /\ EffectiveBufferSize \in Nat
    BY Size DEF BusyInv, BusyTypeOK, Offsets
  <2>2. CASE consumer' = consumer
    BY <1>2, <2>2 DEF BusyInv, SegmentFitsPointer, Transferring, serverVars
  <2>3. CASE consumer' = 0
    BY <1>2, <2>1, <2>3 DEF BusyInv, SegmentFitsPointer, Transferring, serverVars
  <2> QED
    BY <1>2, <2>2, <2>3
<1> QED
  BY <1>3, <1>4, <1>5 DEF BusyInv

-----------------------------------------------------------------------------
(* The server's count.                                                     *)

\* The loads, up to the comparison.
LEMMA LoadsKeep ==
  ASSUME BusyInv, LoadSecondProducer \/ LoadProducer \/ CompareConsumer
  PROVE  BusyInv'
<1>1. /\ UNCHANGED <<producer, secondProducer, consumer, secondConsumer,
                     available, rseg, rrest, address, advanced>>
      /\ rpc' \in {"reload", "check", "compare", "subtract"} /\ rsnap' \in Offsets
  BY DEF BusyInv, BusyTypeOK, LoadSecondProducer, LoadProducer, CompareConsumer, clientVars
<1>0. /\ ahead' \in BOOLEAN
      /\ rpc' = "subtract" => IF ahead' THEN rsnap' >= consumer ELSE rsnap' < consumer
  <2>1. rsnap \in Int /\ consumer \in Int /\ ahead \in BOOLEAN
    BY DEF BusyInv, BusyTypeOK, Offsets
  <2>2. CASE LoadSecondProducer \/ LoadProducer
    BY <2>1, <2>2 DEF LoadSecondProducer, LoadProducer
  <2>3. CASE CompareConsumer
    <3>1. rsnap' = rsnap /\ ahead' = (rsnap >= consumer)
      BY <2>3 DEF CompareConsumer
    <3>2. (rsnap >= consumer) \in BOOLEAN /\ (~(rsnap >= consumer) => rsnap < consumer)
      BY <2>1
    <3> QED
      BY <3>1, <3>2
  <2> QED
    BY <2>2, <2>3
<1>2. BusyTypeOK'
  BY <1>0, <1>1 DEF BusyInv, BusyTypeOK, Transferring
<1>3. CountFitsPointer'
  BY <1>0, <1>1 DEF BusyInv, CountFitsPointer, Transferring
<1>4. SegmentFitsPointer'
  BY <1>1 DEF SegmentFitsPointer, Transferring
<1> QED
  BY <1>2, <1>3, <1>4 DEF BusyInv

\* The count is at most what is between, or what is from 0 on.
LEMMA SubtractConsumerKeeps ==
  ASSUME BusyInv, SubtractConsumer
  PROVE  BusyInv'
<1>1. /\ UNCHANGED <<producer, secondProducer, consumer, secondConsumer,
                     rsnap, ahead, rseg, rrest, address, advanced>>
      /\ rpc = "subtract" /\ rpc' = "idle"
      /\ available' = IF ahead THEN U64(rsnap - consumer)
                               ELSE U64(rsnap + EffectiveBufferSize - consumer)
  BY DEF SubtractConsumer, clientVars
<1>2. /\ rsnap \in Nat /\ consumer \in Nat
      /\ rsnap < EffectiveBufferSize /\ consumer < EffectiveBufferSize
  BY Size DEF BusyInv, BusyTypeOK, Offsets
<1>3. /\ available' \in Nat
      /\ available' < EffectiveBufferSize \/ (consumer = 0 /\ available' < 2 * EffectiveBufferSize)
  <2>1. CASE ahead
    <3>1. rsnap >= consumer
      BY <1>1, <2>1 DEF BusyInv, CountFitsPointer
    <3>2. U64(rsnap - consumer) = rsnap - consumer
      BY <1>2, <3>1, Size, NoWrap
    <3> QED
      BY <1>1, <1>2, <2>1, <3>1, <3>2, Size
  <2>2. CASE ~ahead
    <3>1. rsnap < consumer \/ consumer = 0
      BY <1>1, <2>2 DEF BusyInv, CountFitsPointer
    <3>2. U64(rsnap + EffectiveBufferSize - consumer) = rsnap + EffectiveBufferSize - consumer
      BY <1>2, Size, NoWrap
    <3> QED
      BY <1>1, <1>2, <2>2, <3>1, <3>2, Size
  <2> QED
    BY <2>1, <2>2
<1>4. BusyTypeOK'
  BY <1>1, <1>3 DEF BusyInv, BusyTypeOK, Transferring
<1>5. CountFitsPointer'
  BY <1>1, <1>3 DEF CountFitsPointer, Transferring
<1>6. SegmentFitsPointer'
  BY <1>1 DEF SegmentFitsPointer, Transferring
<1> QED
  BY <1>4, <1>5, <1>6 DEF BusyInv

-----------------------------------------------------------------------------
(* The server's transfer.                                                  *)

\* A count larger than the ring comes with a pointer that is 0.
LEMMA BeginReadDataKeeps ==
  ASSUME BusyInv, NEW n \in 0 .. available, BeginReadData(n)
  PROVE  BusyInv'
<1>1. /\ UNCHANGED <<producer, secondProducer, consumer, secondConsumer,
                     rsnap, ahead, address, advanced>>
      /\ rpc' = "address" /\ available' = 0
  BY DEF BeginReadData, clientVars
<1>2. /\ consumer \in Nat /\ consumer < EffectiveBufferSize
      /\ n \in Nat /\ n <= available /\ available \in Nat
      /\ available < EffectiveBufferSize \/ (consumer = 0 /\ available < 2 * EffectiveBufferSize)
  BY Size DEF BusyInv, BusyTypeOK, CountFitsPointer, Offsets
<1>3. ReadBeforeWraparound(consumer) = EffectiveBufferSize - consumer
  <2>1. BufferSize - consumer - RESERVE_SIZE = EffectiveBufferSize - consumer
    BY <1>2, Size
  <2>2. U64(EffectiveBufferSize - consumer) = EffectiveBufferSize - consumer
    BY <1>2, Size, NoWrap
  <2> QED
    BY <2>1, <2>2 DEF ReadBeforeWraparound
<1>4. /\ rseg' = IF EffectiveBufferSize - consumer >= n THEN n ELSE EffectiveBufferSize - consumer
      /\ rrest' = n - rseg'
  BY <1>3 DEF BeginReadData
<1>5. /\ rseg' \in Nat /\ rrest' \in Nat /\ rrest' <= EffectiveBufferSize
      /\ consumer + rseg' <= EffectiveBufferSize
      /\ rrest' > 0 => /\ consumer + rseg' = EffectiveBufferSize
                       /\ rseg' + rrest' < EffectiveBufferSize \/ rseg' = EffectiveBufferSize
  BY <1>2, <1>4, Size
<1>6. BusyTypeOK'
  BY <1>1, <1>5 DEF BusyInv, BusyTypeOK, Transferring
<1>7. CountFitsPointer'
  BY <1>1, Size DEF CountFitsPointer, Transferring
<1>8. SegmentFitsPointer'
  BY <1>1, <1>5 DEF SegmentFitsPointer, Transferring
<1> QED
  BY <1>6, <1>7, <1>8 DEF BusyInv

LEMMA LoadAddressKeeps ==
  ASSUME BusyInv, LoadAddress
  PROVE  BusyInv'
<1>1. /\ UNCHANGED <<producer, secondProducer, consumer, secondConsumer,
                     rsnap, ahead, available, rseg, rrest, advanced>>
      /\ rpc = "address" /\ rpc' = "copy" /\ address' = consumer
  BY DEF LoadAddress, clientVars
<1>2. BusyTypeOK'
  BY <1>1 DEF BusyInv, BusyTypeOK, Transferring
<1>3. CountFitsPointer' /\ SegmentFitsPointer'
  BY <1>1 DEF BusyInv, CountFitsPointer, SegmentFitsPointer, Transferring
<1> QED
  BY <1>2, <1>3 DEF BusyInv

\* The advance ends in the ring, and what is left of the call fits from there on.
LEMMA LoadConsumerKeeps ==
  ASSUME BusyInv, LoadConsumer
  PROVE  BusyInv'
<1>1. /\ UNCHANGED <<producer, secondProducer, consumer, secondConsumer,
                     rsnap, ahead, available, rseg, rrest, address>>
      /\ rpc = "copy" /\ rpc' = "store" /\ advanced' = Advance(consumer, rseg)
  BY DEF LoadConsumer, clientVars
<1>2. /\ consumer \in Offsets /\ rseg \in Nat /\ rrest \in Nat /\ rrest <= EffectiveBufferSize
      /\ consumer + rseg <= EffectiveBufferSize
      /\ rrest > 0 => /\ consumer + rseg = EffectiveBufferSize \/ consumer = 0
                      /\ rseg + rrest < EffectiveBufferSize \/ rseg = EffectiveBufferSize
  BY <1>1 DEF BusyInv, BusyTypeOK, SegmentFitsPointer, Transferring
<1>3. /\ advanced' \in Offsets
      /\ advanced' = IF consumer + rseg = EffectiveBufferSize THEN 0 ELSE consumer + rseg
  BY <1>1, <1>2, AdvanceInside
<1>4. advanced' + rrest <= EffectiveBufferSize
  BY <1>2, <1>3, Size DEF Offsets
<1>5. BusyTypeOK'
  BY <1>1, <1>3 DEF BusyInv, BusyTypeOK, Transferring
<1>6. CountFitsPointer'
  BY <1>1 DEF BusyInv, CountFitsPointer, Transferring
<1>7. SegmentFitsPointer'
  BY <1>1, <1>2, <1>4 DEF SegmentFitsPointer, Transferring
<1> QED
  BY <1>5, <1>6, <1>7 DEF BusyInv

LEMMA StoreConsumerKeeps ==
  ASSUME BusyInv, StoreConsumer
  PROVE  BusyInv'
<1>1. /\ UNCHANGED <<producer, secondProducer, secondConsumer,
                     rsnap, ahead, available, rseg, rrest, address, advanced>>
      /\ rpc = "store" /\ rpc' = "publish" /\ consumer' = advanced
  BY DEF StoreConsumer, clientVars
<1>2. BusyTypeOK'
  BY <1>1 DEF BusyInv, BusyTypeOK, Transferring
<1>3. CountFitsPointer'
  BY <1>1, Size DEF BusyInv, CountFitsPointer, Transferring
<1>4. SegmentFitsPointer'
  BY <1>1 DEF BusyInv, SegmentFitsPointer, Transferring
<1> QED
  BY <1>2, <1>3, <1>4 DEF BusyInv

\* The rest begins where the pointer was stored, or at 0.
LEMMA StoreSecondConsumerKeeps ==
  ASSUME BusyInv, StoreSecondConsumer
  PROVE  BusyInv'
<1>1. /\ UNCHANGED <<producer, secondProducer, consumer, rsnap, ahead, available, address, advanced>>
      /\ rpc = "publish" /\ secondConsumer' = advanced
      /\ IF rrest > 0 THEN rseg' = rrest /\ rrest' = 0 /\ rpc' = "address"
                      ELSE rpc' = "idle" /\ rseg' = rseg /\ rrest' = rrest
  BY DEF StoreSecondConsumer, clientVars
<1>2. /\ consumer = advanced \/ consumer = 0
      /\ advanced \in Nat /\ rseg \in Nat /\ rrest \in Nat
      /\ advanced + rrest <= EffectiveBufferSize /\ available = 0
  BY <1>1 DEF BusyInv, BusyTypeOK, CountFitsPointer, SegmentFitsPointer, Transferring, Offsets
<1>3. BusyTypeOK'
  BY <1>1, <1>2 DEF BusyInv, BusyTypeOK, Transferring
<1>4. CountFitsPointer'
  BY <1>1, <1>2, Size DEF CountFitsPointer, Transferring
<1>5. SegmentFitsPointer'
  <2>1. CASE rrest > 0
    BY <1>1, <1>2, <2>1, Size DEF SegmentFitsPointer, Transferring
  <2>2. CASE ~(rrest > 0)
    BY <1>1, <2>2 DEF SegmentFitsPointer, Transferring
  <2> QED
    BY <2>1, <2>2
<1> QED
  BY <1>3, <1>4, <1>5 DEF BusyInv

-----------------------------------------------------------------------------
(* The theorems.                                                           *)

LEMMA BusyInitInv == BusyInit => BusyInv
<1>1. 0 \in Offsets
  BY Size DEF Offsets
<1>2. BusyInit => BusyTypeOK
  <2>1. BusyInit => ahead \in BOOLEAN
    BY DEF BusyInit
  <2> QED
    BY <1>1, <2>1 DEF BusyInit, BusyTypeOK
<1>3. BusyInit => CountFitsPointer /\ SegmentFitsPointer
  BY Size DEF BusyInit, CountFitsPointer, SegmentFitsPointer, Transferring
<1> QED
  BY <1>2, <1>3 DEF BusyInv

LEMMA BusyStep == BusyInv /\ [BusyNext]_busyVars => BusyInv'
<1> SUFFICES ASSUME BusyInv, [BusyNext]_busyVars PROVE BusyInv'
  OBVIOUS
<1>1. CASE BusyNext
  BY <1>1, ClientKeeps, LoadsKeep, SubtractConsumerKeeps, BeginReadDataKeeps, LoadAddressKeeps,
     LoadConsumerKeeps, StoreConsumerKeeps, StoreSecondConsumerKeeps DEF BusyNext
<1>2. CASE UNCHANGED busyVars
  BY <1>2 DEF BusyInv, BusyTypeOK, CountFitsPointer, SegmentFitsPointer, Transferring, busyVars,
     clientVars, serverVars
<1> QED
  BY <1>1, <1>2

\* What the server computed from its pointer fits from 0 on as well (BusyInv).
THEOREM BusyInvariant == BusySpec => []BusyInv
<1>1. BusyInit => BusyInv
  BY BusyInitInv
<1>2. BusyInv /\ [BusyNext]_busyVars => BusyInv'
  BY BusyStep
<1> QED
  BY <1>1, <1>2, PTL DEF BusySpec

\* Whatever the size of the ring, however many clients construct their write buffers
\* and at whichever of its loads, the server's memcpy and its pointer stay in the ring
\* (ServerStaysInRing).
THEOREM ServerIsSafe == BusySpec => []ServerStaysInRing
<1>1. BusyInv => ServerStaysInRing
  <2> SUFFICES ASSUME BusyInv PROVE ServerStaysInRing
    OBVIOUS
  <2>1. available \in Nat
    BY DEF BusyInv, BusyTypeOK
  <2>2. available < 2 * EffectiveBufferSize
    BY <2>1, Size DEF BusyInv, CountFitsPointer
  <2> QED
    BY <2>2 DEF BusyInv, BusyTypeOK, SegmentFitsPointer, ServerStaysInRing
<1> QED
  BY <1>1, BusyInvariant, PTL

-----------------------------------------------------------------------------
(* TornPointer: counts.                                                    *)

\* The two ends.
LEMMA TwoEnds ==
  ASSUME NEW e \in Ends
  PROVE  /\ Other(e) \in Ends /\ Other(e) # e /\ Other(Other(e)) = e
         /\ \A x \in Ends : x = e \/ x = Other(e)
  BY DEF Ends, Other

\* A count without its unsigned wraps.
LEMMA CountIsDistance ==
  ASSUME NEW a \in Offsets, NEW v \in Offsets
  PROVE  /\ FreeToWrite(a, v) = IF v > a THEN v - a - 1 ELSE v + EffectiveBufferSize - a - 1
         /\ AvailableToRead(v, a) = IF v >= a THEN v - a ELSE v + EffectiveBufferSize - a
<1>1. a \in Nat /\ v \in Nat /\ a < EffectiveBufferSize /\ v < EffectiveBufferSize
  BY Size DEF Offsets
<1>2. CASE v > a
  <2>1. v - a - 1 \in Nat /\ v - a \in Nat
    BY <1>1, <1>2
  <2>2. U64(v - a - 1) = v - a - 1 /\ U64(v - a) = v - a
    BY <1>1, <2>1, Size, NoWrap
  <2> QED
    BY <1>1, <1>2, <2>2 DEF FreeToWrite, AvailableToRead
<1>3. CASE ~(v > a)
  <2>1. v + EffectiveBufferSize - a - 1 \in Nat /\ v + EffectiveBufferSize - a \in Nat
    BY <1>1, <1>3, Size
  <2>2. /\ U64(v + EffectiveBufferSize - a - 1) = v + EffectiveBufferSize - a - 1
        /\ U64(v + EffectiveBufferSize - a) = v + EffectiveBufferSize - a
        /\ U64(0) = 0
    BY <1>1, <1>3, <2>1, Size, NoWrap
  <2>3. FreeToWrite(a, v) = v + EffectiveBufferSize - a - 1
    BY <1>3, <2>2 DEF FreeToWrite
  <2>4. AvailableToRead(v, a) = IF v >= a THEN 0 ELSE v + EffectiveBufferSize - a
    <3>1. CASE v = a
      <4>1. v - a = 0 /\ v >= a
        BY <1>1, <3>1
      <4> QED
        BY <2>2, <4>1 DEF AvailableToRead
    <3>2. CASE v # a
      <4>1. ~(v >= a)
        BY <1>1, <1>3, <3>2
      <4> QED
        BY <2>2, <4>1 DEF AvailableToRead
    <3> QED
      BY <3>1, <3>2
  <2> QED
    BY <1>1, <1>3, <2>3, <2>4
<1> QED
  BY <1>2, <1>3

\* A count leaves a cell of the ring free.
LEMMA CountType ==
  ASSUME NEW e \in Ends, NEW a \in Offsets, NEW v \in Offsets
  PROVE  CountOf(e, a, v) \in Nat /\ CountOf(e, a, v) <= EffectiveBufferSize - 1
<1>1. a \in Nat /\ v \in Nat /\ a < EffectiveBufferSize /\ v < EffectiveBufferSize
  BY Size DEF Offsets
<1> QED
  BY <1>1, CountIsDistance, Size DEF CountOf

\* It gets smaller by what its end advances, within it...
LEMMA CountShrinks ==
  ASSUME NEW e \in Ends, NEW a \in Offsets, NEW v \in Offsets, NEW n \in Nat,
         n <= CountOf(e, a, v), a + n <= EffectiveBufferSize
  PROVE  CountOf(e, Advance(a, n), v) = CountOf(e, a, v) - n
<1>1. a \in Nat /\ v \in Nat /\ a < EffectiveBufferSize /\ v < EffectiveBufferSize
  BY Size DEF Offsets
<1>2. PICK b \in Offsets : b = Advance(a, n)
                           /\ b = IF a + n = EffectiveBufferSize THEN 0 ELSE a + n
  BY AdvanceInside
<1>3. CASE e = "writer"
  <2>1. n <= FreeToWrite(a, v)
    BY <1>3 DEF CountOf
  <2>2. FreeToWrite(b, v) = FreeToWrite(a, v) - n
    BY <1>1, <1>2, <2>1, CountIsDistance, Size
  <2> QED
    BY <1>2, <1>3, <2>2 DEF CountOf
<1>4. CASE e # "writer"
  <2>1. n <= AvailableToRead(v, a)
    BY <1>4 DEF CountOf
  <2>2. AvailableToRead(v, b) = AvailableToRead(v, a) - n
    BY <1>1, <1>2, <2>1, CountIsDistance, Size
  <2> QED
    BY <1>2, <1>4, <2>2 DEF CountOf
<1> QED
  BY <1>3, <1>4

\* ... and larger by what the other end advances, as long as the ring does not overflow.
LEMMA CountGrows ==
  ASSUME NEW e \in Ends, NEW a \in Offsets, NEW v \in Offsets, NEW n \in Nat,
         CountOf(e, a, v) + n <= EffectiveBufferSize - 1, v + n <= EffectiveBufferSize
  PROVE  CountOf(e, a, Advance(v, n)) = CountOf(e, a, v) + n
<1>1. a \in Nat /\ v \in Nat /\ a < EffectiveBufferSize /\ v < EffectiveBufferSize
  BY Size DEF Offsets
<1>2. PICK b \in Offsets : b = Advance(v, n)
                           /\ b = IF v + n = EffectiveBufferSize THEN 0 ELSE v + n
  BY AdvanceInside
<1>3. CASE e = "writer"
  <2>1. FreeToWrite(a, v) + n <= EffectiveBufferSize - 1
    BY <1>3 DEF CountOf
  <2>2. FreeToWrite(a, b) = FreeToWrite(a, v) + n
    BY <1>1, <1>2, <2>1, CountIsDistance, Size
  <2> QED
    BY <1>2, <1>3, <2>2 DEF CountOf
<1>4. CASE e # "writer"
  <2>1. AvailableToRead(v, a) + n <= EffectiveBufferSize - 1
    BY <1>4 DEF CountOf
  <2>2. AvailableToRead(b, a) = AvailableToRead(v, a) + n
    BY <1>1, <1>2, <2>1, CountIsDistance, Size
  <2> QED
    BY <1>2, <1>4, <2>2 DEF CountOf
<1> QED
  BY <1>3, <1>4

\* A pointer is the sum of its parts.
LEMMA WholeOfSplit ==
  ASSUME low \in Nat \ {0}, NEW v \in Nat
  PROVE  Whole(Split(v)) = v /\ Split(v) \in [Parts -> Nat]
<1>1. PICK l \in Nat \ {0} : l = low
  OBVIOUS
<1>2. PICK q \in Nat, r \in Nat : q = v \div l /\ r = v % l
  BY SMT
<1>3. q * l + r = v
  BY <1>2, SMT
<1>4. Split(v)["low"] = r /\ Split(v)["high"] = q /\ Split(v) \in [Parts -> Nat]
  BY <1>1, <1>2 DEF Split, Parts
<1>5. Whole(Split(v)) = Split(v)["high"] * low + Split(v)["low"]
  BY Zenon DEF Whole
<1>6. Whole(Split(v)) = q * l + r
  BY <1>1, <1>4, <1>5, Zenon
<1> QED
  BY <1>3, <1>4, <1>6, Zenon

-----------------------------------------------------------------------------
(* TornPointer: types.                                                     *)

\* No number exceeds itself.
LEMMA NotMoreThanItself == \A n \in Nat : n <= n
  OBVIOUS

\* What the two ends count together.
LEMMA ExactOfBoth ==
  ASSUME NEW e \in Ends, own \in [Ends -> Offsets]
  PROVE  /\ Exact(e) \in Nat /\ Exact(Other(e)) \in Nat
         /\ Exact(e) + Exact(Other(e)) = EffectiveBufferSize - 1
<1>1. PICK o \in Ends : o = Other(e) /\ Other(o) = e /\ o # e
  BY TwoEnds
<1>2. PICK a \in Offsets, v \in Offsets : a = own[e] /\ v = own[o]
  OBVIOUS
<1>3. Exact(e) = CountOf(e, a, v) /\ Exact(o) = CountOf(o, v, a)
  BY <1>1, <1>2, Zenon DEF Exact
<1>4. CountOf(e, a, v) \in Nat /\ CountOf(o, v, a) \in Nat
  BY CountType
<1>5. FreeToWrite(a, v) + AvailableToRead(a, v) = EffectiveBufferSize - 1
  BY CountIsDistance, Size DEF Offsets
<1>6. FreeToWrite(v, a) + AvailableToRead(v, a) = EffectiveBufferSize - 1
  BY CountIsDistance, Size DEF Offsets
<1>7. CASE e = "writer"
  <2>1. CountOf(e, a, v) = FreeToWrite(a, v) /\ CountOf(o, v, a) = AvailableToRead(a, v)
    BY <1>1, <1>7, Zenon DEF CountOf
  <2> QED
    BY <1>1, <1>3, <1>4, <1>5, <2>1
<1>8. CASE e = "reader"
  <2>1. o = "writer"
    BY <1>1, <1>8 DEF Ends
  <2>2. CountOf(o, v, a) = FreeToWrite(v, a) /\ CountOf(e, a, v) = AvailableToRead(v, a)
    BY <1>1, <1>8, <2>1, Zenon DEF CountOf
  <2> QED
    BY <1>1, <1>3, <1>4, <1>6, <2>2
<1> QED
  BY <1>7, <1>8 DEF Ends

\* An advance takes from what its end could move and gives it to the other.
LEMMA AdvanceMoves ==
  ASSUME own \in [Ends -> Offsets], NEW e \in Ends, NEW o \in Ends, o = Other(e),
         NEW n \in Nat, n <= Exact(e), n <= EffectiveBufferSize - own[e],
         own' = [own EXCEPT ![e] = Advance(@, n)]
  PROVE  \E b \in Offsets : /\ b = Advance(own[e], n) /\ own'[e] = b /\ own'[o] = own[o]
                            /\ own[e] + n <= EffectiveBufferSize
                            /\ Exact(e)' = Exact(e) - n /\ Exact(o)' = Exact(o) + n
<1>1. o # e /\ Other(o) = e
  BY TwoEnds
<1>2. own[e] \in Offsets /\ own[o] \in Offsets
  OBVIOUS
<1>3. own[e] + n <= EffectiveBufferSize
  BY <1>2, Size DEF Offsets
<1>4. PICK b \in Offsets : b = Advance(own[e], n) /\ own'[e] = b /\ own'[o] = own[o]
  <2>1. Advance(own[e], n) \in Offsets
    BY <1>2, <1>3, AdvanceInside
  <2> QED
    BY <1>1, <2>1
<1>5. /\ Exact(e) = CountOf(e, own[e], own[o]) /\ Exact(o) = CountOf(o, own[o], own[e])
      /\ Exact(e)' = CountOf(e, b, own[o]) /\ Exact(o)' = CountOf(o, own[o], b)
  BY <1>1, <1>4, Zenon DEF Exact
<1>6. Exact(e)' = Exact(e) - n
  BY <1>2, <1>3, <1>4, <1>5, CountShrinks
<1>7. Exact(o)' = Exact(o) + n
  <2>1. Exact(e) \in Nat /\ Exact(o) \in Nat /\ Exact(e) + Exact(o) = EffectiveBufferSize - 1
    BY ExactOfBoth
  <2>2. CountOf(o, own[o], own[e]) + n <= EffectiveBufferSize - 1
    BY <1>5, <2>1, Size
  <2> QED
    BY <1>2, <1>3, <1>4, <1>5, <2>2, CountGrows
<1> QED
  BY <1>3, <1>4, <1>6, <1>7

\* A copy with the parts of another one is the same number.
LEMMA SameWhole ==
  ASSUME NEW s, NEW t, \A p \in Parts : s[p] = t[p]
  PROVE  Whole(s) = Whole(t)
<1>1. s["high"] = t["high"] /\ s["low"] = t["low"]
  BY DEF Parts
<1> QED
  BY <1>1, Zenon DEF Whole

\* What the low part may be, and a pointer in parts.
LEMMA PointerInParts ==
  ASSUME TornTypeOK, NEW v \in Offsets
  PROVE  Whole(Split(v)) = v /\ Split(v) \in [Parts -> Nat]
<1>1. low \in Nat \ {0}
  BY TornAssumption DEF TornTypeOK
<1>2. v \in Nat
  BY Size DEF Offsets
<1> QED
  BY <1>1, <1>2, WholeOfSplit

\* Nothing is loaded.
LEMMA NothingIsTyped ==
  ASSUME TornTypeOK
  PROVE  NothingLoaded \in [Copies -> [Parts -> Nat]]
<1>1. 0 \in Offsets
  BY Size DEF Offsets
<1> QED
  BY <1>1, PointerInParts DEF NothingLoaded

\* A count is a number, whatever was loaded: unsigned arithmetic wraps.
LEMMA CountIsTyped ==
  ASSUME TornTypeOK, NEW e \in Ends
  PROVE  Count(e) \in Nat
<1>1. PICK a \in Nat : a = own[e]
  <2>1. own[e] \in Offsets
    BY DEF TornTypeOK
  <2> QED
    BY <2>1, Size DEF Offsets
<1>2. PICK v \in Nat : v = Whole(loaded[e]["second"])
  <2>1. PICK h \in Nat, l \in Nat, n \in Nat :
          h = loaded[e]["second"]["high"] /\ l = loaded[e]["second"]["low"] /\ n = low
    <3>1. low \in Nat
      BY TornAssumption DEF TornTypeOK
    <3>2. loaded[e]["second"] \in [Parts -> Nat]
      <4>1. loaded \in [Ends -> [Copies -> [Parts -> Nat]]] /\ "second" \in Copies
        BY DEF TornTypeOK, Copies
      <4> QED
        BY <4>1
    <3> QED
      BY <3>1, <3>2 DEF Parts
  <2>2. h * n + l \in Nat
    OBVIOUS
  <2>3. Whole(loaded[e]["second"]) = h * n + l
    BY <2>1, Zenon DEF Whole
  <2> QED
    BY <2>2, <2>3
<1>3. \A x \in Int : U64(x) \in Nat
  BY BufferAssumption DEF U64, RESERVE_SIZE, SizeOfU64
<1>4. FreeToWrite(a, v) \in Nat
  BY <1>3, Size DEF FreeToWrite
<1>5. AvailableToRead(v, a) \in Nat
  BY <1>3, Size DEF AvailableToRead
<1>6. Count(e) = CountOf(e, a, v)
  BY <1>1, <1>2, Zenon DEF Count
<1> QED
  BY <1>4, <1>5, <1>6, Zenon DEF CountOf

\* A turn begins.
LEMMA TurnIsTyped ==
  ASSUME TornTypeOK, NEW e \in Ends, BeginTurn(e)
  PROVE  /\ pc' \in [Ends -> {"idle", "load second", "load first", "store first", "store second"}]
         /\ todo' \in [Ends -> SUBSET Parts]
         /\ overlaps' \in [Ends -> 0 .. 2]
<1>1. pc' = [pc EXCEPT ![e] = "load second"] /\ todo' = [todo EXCEPT ![e] = Parts]
  BY DEF BeginTurn, Access
<1>2. PICK w \in 0 .. 2 : overlaps' = [overlaps EXCEPT ![e] = w]
  <2>1. 0 \in 0 .. 2 /\ 1 \in 0 .. 2
    OBVIOUS
  <2> QED
    BY <2>1, Zenon DEF BeginTurn
<1> QED
  BY <1>1, <1>2 DEF TornTypeOK

\* Every step keeps the types: even of a count too large an end moves one segment at a time.
LEMMA TornTypeStep ==
  ASSUME TornTypeOK, TornNext
  PROVE  TornTypeOK'
<1>1. PICK e \in Ends :
        \/ BeginCount(e) \/ LoadFirst(e) \/ Compare(e) \/ Stored(e)
        \/ \E n \in 1 .. budget[e] : BeginAdvance(e, n)
        \/ \E p \in Parts : LoadPart(e, p) \/ StorePart(e, p)
  BY DEF TornNext
<1>2. CASE BeginCount(e)
  BY <1>2, TurnIsTyped DEF BeginCount, TornTypeOK
<1>3. CASE LoadFirst(e)
  BY <1>3 DEF LoadFirst, Access, TornTypeOK
<1>4. CASE Compare(e)
  <2>1. loaded' \in [Ends -> [Copies -> [Parts -> Nat]]] /\ UNCHANGED <<low, copies, own>>
    BY <1>4, NothingIsTyped DEF Compare, TornTypeOK
  <2>2. CASE BeginTurn(e) /\ UNCHANGED budget
    BY <2>1, <2>2, TurnIsTyped DEF TornTypeOK
  <2>3. CASE /\ budget' = [budget EXCEPT ![e] = Count(e)]
             /\ pc' = [pc EXCEPT ![e] = "idle"]
             /\ overlaps' = [overlaps EXCEPT ![e] = 0]
             /\ UNCHANGED todo
    <3>1. budget' \in [Ends -> Nat]
      <4>1. PICK k \in Nat : k = Count(e)
        BY CountIsTyped
      <4>2. budget' = [budget EXCEPT ![e] = k]
        BY <2>3, <4>1, Zenon
      <4>3. budget \in [Ends -> Nat]
        BY DEF TornTypeOK
      <4>4. [budget EXCEPT ![e] = k] \in [Ends -> Nat]
        BY <4>3
      <4> QED
        BY <4>2, <4>4, Zenon
    <3>2. overlaps' \in [Ends -> 0 .. 2]
      <4>1. overlaps \in [Ends -> 0 .. 2]
        BY DEF TornTypeOK
      <4> QED
        BY <2>3, <4>1
    <3>3. pc' \in [Ends -> {"idle", "load second", "load first", "store first", "store second"}]
      BY <2>3 DEF TornTypeOK
    <3> QED
      BY <2>1, <2>3, <3>1, <3>2, <3>3 DEF TornTypeOK
  <2> QED
    BY <1>4, <2>2, <2>3 DEF Compare
<1>5. CASE Stored(e)
  BY <1>5 DEF Stored, Access, TornTypeOK
<1>6. ASSUME NEW n \in 1 .. budget[e], BeginAdvance(e, n)
      PROVE  TornTypeOK'
  <2>1. /\ own' = [own EXCEPT ![e] = Advance(@, n)]
        /\ budget' = [budget EXCEPT ![e] = @ - n]
        /\ pc' = [pc EXCEPT ![e] = "store first"]
        /\ todo' = [todo EXCEPT ![e] = Parts]
        /\ n <= EffectiveBufferSize - own[e]
        /\ UNCHANGED <<low, copies, loaded>>
    BY <1>6 DEF BeginAdvance, Access
  <2>2. own[e] \in Offsets /\ budget[e] \in Nat
    BY DEF TornTypeOK
  <2>3. Advance(own[e], n) \in Offsets
    <3>1. own[e] \in Nat /\ n \in Nat
      BY <2>2, Size DEF Offsets
    <3>2. own[e] + n <= EffectiveBufferSize
      <4>1. n <= EffectiveBufferSize - own[e]
        BY <2>1, Zenon
      <4> QED
        BY <3>1, <4>1, Size
    <3> QED
      BY <2>2, <3>1, <3>2, AdvanceInside
  <2>4. own' \in [Ends -> Offsets]
    BY <2>1, <2>3 DEF TornTypeOK
  <2>5. budget' \in [Ends -> Nat]
    <3>1. budget[e] - n \in Nat
      BY <2>2
    <3> QED
      BY <2>1, <3>1 DEF TornTypeOK
  <2>6. pc' \in [Ends -> {"idle", "load second", "load first", "store first", "store second"}]
    BY <2>1 DEF TornTypeOK
  <2>7. todo' \in [Ends -> SUBSET Parts]
    BY <2>1 DEF TornTypeOK
  <2>8. overlaps' \in [Ends -> 0 .. 2]
    <3>1. PICK o \in Ends : o = Other(e)
      BY TwoEnds
    <3>2. overlaps \in [Ends -> 0 .. 2]
      BY DEF TornTypeOK
    <3>3. overlaps[o] < 2 => overlaps[o] + 1 \in 0 .. 2
      BY <3>2
    <3>4. CASE overlaps[o] < 2 /\ overlaps' = [overlaps EXCEPT ![o] = @ + 1]
      BY <3>2, <3>3, <3>4
    <3>5. CASE overlaps' = overlaps
      BY <3>2, <3>5
    <3> QED
      BY <1>6, <3>1, <3>4, <3>5 DEF BeginAdvance
  <2> QED
    BY <2>1, <2>4, <2>5, <2>6, <2>7, <2>8 DEF TornTypeOK
<1>7. ASSUME NEW p \in Parts, LoadPart(e, p)
      PROVE  TornTypeOK'
  <2>1. PICK c \in Copies : loaded' = [loaded EXCEPT ![e][c][p] = copies[Other(e)][c][p]]
    BY <1>7 DEF LoadPart
  <2>2. copies[Other(e)][c][p] \in Nat
    <3>1. Other(e) \in Ends
      BY TwoEnds
    <3>2. copies \in [Ends -> [Copies -> [Parts -> Nat]]]
      BY DEF TornTypeOK
    <3> QED
      BY <3>1, <3>2
  <2>3. loaded' \in [Ends -> [Copies -> [Parts -> Nat]]]
    BY <2>1, <2>2 DEF TornTypeOK
  <2>4. todo' \in [Ends -> SUBSET Parts]
    BY <1>7 DEF LoadPart, AccessPart, TornTypeOK
  <2> QED
    BY <1>7, <2>3, <2>4 DEF LoadPart, TornTypeOK
<1>8. ASSUME NEW p \in Parts, StorePart(e, p)
      PROVE  TornTypeOK'
  <2>1. PICK c \in Copies : copies' = [copies EXCEPT ![e][c][p] = Split(own[e])[p]]
    BY <1>8 DEF StorePart
  <2>2. own[e] \in Offsets
    BY DEF TornTypeOK
  <2>3. Split(own[e])[p] \in Nat
    BY <2>2, PointerInParts
  <2>4. copies' \in [Ends -> [Copies -> [Parts -> Nat]]]
    BY <2>1, <2>3 DEF TornTypeOK
  <2>5. todo' \in [Ends -> SUBSET Parts]
    BY <1>8 DEF StorePart, AccessPart, TornTypeOK
  <2> QED
    BY <1>8, <2>4, <2>5 DEF StorePart, TornTypeOK
<1> QED
  BY <1>1, <1>2, <1>3, <1>4, <1>5, <1>6, <1>7, <1>8

-----------------------------------------------------------------------------
(* TornPointer: pointers that divide inside the ring.                      *)

\* A turn that has met no advance meets none now.
LEMMA TurnKnows ==
  ASSUME NEW e \in Ends, TurnInv(e), Counting(e), Storing(Other(e))
  PROVE  overlaps[e] # 0
<1>1. overlaps[e] = 0 => overlaps[e] < 2
  OBVIOUS
<1> QED
  BY <1>1 DEF TurnInv

\* A step of a count disturbs what it has loaded and the count it returns, no more.
LEMMA CountingStep ==
  ASSUME DividedInv, TornTypeOK', NEW e \in Ends, NEW o \in Ends, o = Other(e),
         ~Storing(e), ~Storing(e)', UNCHANGED <<low, copies, own>>,
         pc'[o] = pc[o], todo'[o] = todo[o], loaded'[o] = loaded[o],
         overlaps'[o] = overlaps[o], budget'[o] = budget[o],
         budget'[e] <= Exact(e),
         pc[o] = "store first" => budget'[e] <= CountOf(e, own[e], Whole(copies[o]["second"])),
         TurnInv(e)'
  PROVE  DividedInv'
<1>1. o # e /\ Other(o) = e /\ \A x \in Ends : x = e \/ x = o
  BY TwoEnds
<1>2. \A x \in Ends : Exact(x)' = Exact(x)
  BY DEF Exact
<1>3. /\ Whole(copies[o]["second"])' = Whole(copies[o]["second"])
      /\ Count(o)' = Count(o)
  BY DEF Whole, Count
<1>4. \A x \in Ends : Split(own[x])' = Split(own[x])
  BY DEF Split
<1>5. \A x \in Ends : budget'[x] <= Exact(x)'
  <2>1. budget'[e] <= Exact(e)' /\ budget'[o] <= Exact(o)'
    BY <1>1, <1>2 DEF DividedInv
  <2> QED
    BY <1>1, <2>1
<1>7. CopiesInv(e)'
  <2>1. CopiesInv(e)
    BY DEF DividedInv
  <2> QED
    BY <1>4, <2>1 DEF CopiesInv, Storing
<1>8. CopiesInv(o)'
  <2>1. CopiesInv(o)
    BY DEF DividedInv
  <2>2. Fresh(o, "second")' = Fresh(o, "second") /\ Fresh(o, "first")' = Fresh(o, "first")
    BY <1>4, Zenon DEF Fresh
  <2>3. CASE pc[o] # "store first"
    BY <1>1, <1>4, <2>1, <2>2, <2>3, Zenon DEF CopiesInv, Storing
  <2>4. CASE pc[o] = "store first"
    <3>1. Storing(o)'
      BY <2>4 DEF Storing
    <3> QED
      BY <1>1, <1>2, <1>3, <2>1, <2>2, <2>4, <3>1 DEF CopiesInv
  <2> QED
    BY <2>3, <2>4
<1>9. TurnInv(o)'
  <2>1. TurnInv(o)
    BY DEF DividedInv
  <2>2. /\ Counting(o)' <=> Counting(o)
        /\ pc[e] # "store first" /\ pc'[e] # "store first"
    BY DEF Counting, Storing
  <2>3. LoadedOfSecond(o)' = LoadedOfSecond(o) /\ LoadedOfFirst(o)' = LoadedOfFirst(o)
    BY DEF LoadedOfSecond, LoadedOfFirst
  <2> QED
    BY <1>1, <1>2, <1>3, <2>1, <2>2, <2>3 DEF TurnInv
<1> QED
  BY <1>1, <1>5, <1>7, <1>8, <1>9 DEF DividedInv

\* A turn begins: nothing is loaded that has to be right.
LEMMA TurnBegins ==
  ASSUME DividedInv, TornTypeOK', NEW e \in Ends, BeginTurn(e), UNCHANGED <<low, copies, own, budget>>,
         loaded'[Other(e)] = loaded[Other(e)], ~Storing(e)
  PROVE  DividedInv'
<1>1. PICK o \in Ends : o = Other(e) /\ o # e
  BY TwoEnds
<1>2. TornTypeOK
  BY DEF DividedInv
<1>3. PICK w \in 0 .. 2 : /\ Storing(o) => w # 0
                         /\ overlaps' = [overlaps EXCEPT ![e] = w]
                         /\ pc' = [pc EXCEPT ![e] = "load second"]
                         /\ todo' = [todo EXCEPT ![e] = Parts]
  <2>1. pc' = [pc EXCEPT ![e] = "load second"] /\ todo' = [todo EXCEPT ![e] = Parts]
    BY DEF BeginTurn, Access
  <2>2. Storing(o) => overlaps' = [overlaps EXCEPT ![e] = 1]
    BY <1>1, Zenon DEF BeginTurn, Storing
  <2>3. ~Storing(o) => overlaps' = [overlaps EXCEPT ![e] = 0]
    BY <1>1, Zenon DEF BeginTurn, Storing
  <2>4. 0 \in 0 .. 2 /\ 1 \in 0 .. 2 /\ 1 # 0
    OBVIOUS
  <2> QED
    BY <2>1, <2>2, <2>3, <2>4, Zenon
<1>4. /\ pc'[e] = "load second" /\ pc'[o] = pc[o]
      /\ todo'[e] = Parts /\ todo'[o] = todo[o]
      /\ overlaps'[e] = w /\ overlaps'[o] = overlaps[o]
  BY <1>1, <1>2, <1>3 DEF TornTypeOK
<1>6. TurnInv(e)'
  <2>1. LoadedOfSecond(e)' = {} /\ LoadedOfFirst(e)' = {}
    BY <1>4 DEF LoadedOfSecond, LoadedOfFirst
  <2>2. overlaps'[e] = 0 => ~Storing(o)'
    BY <1>1, <1>3, <1>4 DEF Storing
  <2> QED
    BY <1>1, <2>1, <2>2 DEF TurnInv
<1>7. ~Storing(e)'
  BY <1>4 DEF Storing
<1>8. budget'[e] <= Exact(e) /\ budget' = budget
  BY DEF DividedInv
<1>9. pc[o] = "store first" => budget'[e] <= CountOf(e, own[e], Whole(copies[o]["second"]))
  BY <1>1, <1>8, TwoEnds DEF DividedInv, CopiesInv
<1> QED
  BY <1>1, <1>4, <1>6, <1>7, <1>8, <1>9, CountingStep

\* A part is loaded.
LEMMA PartIsLoaded ==
  ASSUME DividedInv, TornTypeOK', NEW e \in Ends, NEW p \in Parts, LoadPart(e, p)
  PROVE  DividedInv'
<1>1. PICK o \in Ends : o = Other(e) /\ o # e
  BY TwoEnds
<1>2. TornTypeOK
  BY DEF DividedInv
<1>3. PICK c \in Copies : /\ pc[e] = (IF c = "second" THEN "load second" ELSE "load first")
                          /\ loaded' = [loaded EXCEPT ![e][c][p] = copies[o][c][p]]
  BY <1>1 DEF LoadPart
<1>4. todo' = [todo EXCEPT ![e] = @ \ {p}]
  BY DEF LoadPart, AccessPart
<1>5. UNCHANGED <<low, copies, own, pc, budget, overlaps>>
  BY DEF LoadPart
<1>7. /\ todo'[e] = todo[e] \ {p} /\ todo'[o] = todo[o]
      /\ loaded'[o] = loaded[o]
      /\ loaded'[e][c][p] = copies[o][c][p]
      /\ \A q \in Parts : q # p => loaded'[e][c][q] = loaded[e][c][q]
      /\ \A d \in Copies : d # c => loaded'[e][d] = loaded[e][d]
  <2>1. loaded \in [Ends -> [Copies -> [Parts -> Nat]]] /\ todo \in [Ends -> SUBSET Parts]
    BY <1>2 DEF TornTypeOK
  <2>2. /\ todo'[e] = todo[e] \ {p} /\ todo'[o] = todo[o]
        /\ loaded'[o] = loaded[o]
    BY <1>1, <1>3, <1>4, <2>1
  <2>3. loaded'[e] = [loaded[e] EXCEPT ![c][p] = copies[o][c][p]]
    BY <1>3, <2>1
  <2>4. loaded[e] \in [Copies -> [Parts -> Nat]]
    BY <2>1
  <2>5. loaded'[e][c] = [loaded[e][c] EXCEPT ![p] = copies[o][c][p]]
    BY <2>3, <2>4
  <2>6. \A d \in Copies : d # c => loaded'[e][d] = loaded[e][d]
    BY <2>3, <2>4
  <2>7. loaded[e][c] \in [Parts -> Nat]
    BY <2>4
  <2>8. /\ loaded'[e][c][p] = copies[o][c][p]
        /\ \A q \in Parts : q # p => loaded'[e][c][q] = loaded[e][c][q]
    BY <2>5, <2>7
  <2> QED
    BY <2>2, <2>6, <2>8
<1>9. ~Storing(e) /\ ~Storing(e)'
  BY <1>3, <1>5 DEF Storing
<1>10. TurnInv(e)'
  <2>1. TurnInv(e)
    BY DEF DividedInv
  <2>2. Counting(e)
    BY <1>3 DEF Counting, Copies
  <2>3. CASE c = "second"
    <3>1. pc[e] = "load second" /\ pc'[e] = "load second"
      BY <1>3, <1>5, <2>3
    <3>2. LoadedOfSecond(e)' = LoadedOfSecond(e) \cup {p} /\ LoadedOfFirst(e)' = {}
      BY <1>7, <3>1 DEF LoadedOfSecond, LoadedOfFirst
    <3>3. LoadedOfSecond(e) \subseteq Parts
      BY DEF LoadedOfSecond
    <3>4. ASSUME \A q \in LoadedOfSecond(e) : loaded[e]["second"][q] = copies[o]["second"][q]
          PROVE  \A q \in LoadedOfSecond(e)' : loaded'[e]["second"][q] = copies'[o]["second"][q]
      BY <1>5, <1>7, <2>3, <3>2, <3>3, <3>4
    <3> QED
      BY <1>1, <1>5, <2>1, <2>2, <3>2, <3>4 DEF TurnInv, Storing
  <2>4. CASE c = "first"
    <3>1. pc[e] = "load first" /\ pc'[e] = "load first"
      BY <1>3, <1>5, <2>4
    <3>2. /\ LoadedOfSecond(e)' = LoadedOfSecond(e)
          /\ LoadedOfFirst(e)' \subseteq LoadedOfFirst(e) \cup {p}
          /\ LoadedOfFirst(e) \subseteq Parts
      BY <1>7, <3>1 DEF LoadedOfSecond, LoadedOfFirst
    <3>3. loaded'[e]["second"] = loaded[e]["second"]
      BY <1>7, <2>4 DEF Copies
    <3>4. Count(e)' = Count(e) /\ Exact(e)' = Exact(e)
      BY <1>5, <3>3 DEF Count, Whole, Exact
    <3>5. ASSUME \A q \in LoadedOfFirst(e) : loaded[e]["first"][q] = copies[o]["first"][q]
          PROVE  \A q \in LoadedOfFirst(e)' : loaded'[e]["first"][q] = copies'[o]["first"][q]
      BY <1>5, <1>7, <2>4, <3>2, <3>5
    <3> QED
      BY <1>1, <1>5, <2>1, <2>2, <3>1, <3>2, <3>3, <3>4, <3>5 DEF TurnInv, Storing
  <2> QED
    BY <2>3, <2>4 DEF Copies
<1>11. budget'[e] <= Exact(e) /\ budget' = budget
  BY <1>5 DEF DividedInv
<1>12. pc[o] = "store first" => budget'[e] <= CountOf(e, own[e], Whole(copies[o]["second"]))
  BY <1>1, <1>11, TwoEnds DEF DividedInv, CopiesInv
<1> QED
  BY <1>1, <1>5, <1>7, <1>9, <1>10, <1>11, <1>12, CountingStep

\* The second copy is loaded, the pointer is next.
LEMMA SecondIsLoaded ==
  ASSUME DividedInv, TornTypeOK', NEW e \in Ends, LoadFirst(e)
  PROVE  DividedInv'
<1>1. PICK o \in Ends : o = Other(e) /\ o # e
  BY TwoEnds
<1>2. TornTypeOK
  BY DEF DividedInv
<1>3. /\ pc[e] = "load second" /\ todo[e] = {}
      /\ pc' = [pc EXCEPT ![e] = "load first"]
      /\ todo' = [todo EXCEPT ![e] = Parts]
      /\ UNCHANGED <<low, copies, own, loaded, budget, overlaps>>
  BY DEF LoadFirst, Access
<1>4. /\ pc'[e] = "load first" /\ pc'[o] = pc[o]
      /\ todo'[e] = Parts /\ todo'[o] = todo[o]
  BY <1>1, <1>2, <1>3 DEF TornTypeOK
<1>6. TurnInv(e)'
  <2>1. TurnInv(e) /\ Counting(e)
    BY <1>3 DEF DividedInv, Counting
  <2>2. LoadedOfSecond(e)' = LoadedOfSecond(e) /\ LoadedOfFirst(e)' = {}
    BY <1>3, <1>4 DEF LoadedOfSecond, LoadedOfFirst
  <2> QED
    BY <1>1, <1>3, <1>4, <2>1, <2>2 DEF TurnInv, Storing
<1>7. ~Storing(e) /\ ~Storing(e)'
  BY <1>3, <1>4 DEF Storing
<1>8. budget'[e] <= Exact(e) /\ budget' = budget
  BY <1>3 DEF DividedInv
<1>9. pc[o] = "store first" => budget'[e] <= CountOf(e, own[e], Whole(copies[o]["second"]))
  BY <1>1, <1>8, TwoEnds DEF DividedInv, CopiesInv
<1> QED
  BY <1>1, <1>3, <1>4, <1>6, <1>7, <1>8, <1>9, CountingStep

\* A count that is accepted is of a pointer the other end has or had, or errs on the
\* safe side.
LEMMA AcceptedIsSafe ==
  ASSUME DividedInv, NEW e \in Ends, NEW o \in Ends, o = Other(e),
         pc[e] = "load first", todo[e] = {}, overlaps[e] < 2,
         Whole(loaded[e]["second"]) = Whole(loaded[e]["first"])
  PROVE  /\ Count(e) \in Nat /\ Count(e) <= Exact(e)
         /\ pc[o] = "store first" =>
              Count(e) <= CountOf(e, own[e], Whole(copies[o]["second"]))
<1>1. TornTypeOK /\ TurnInv(e) /\ Counting(e) /\ CopiesInv(o) /\ Other(o) = e
  BY TwoEnds DEF DividedInv, Counting
<1>2. own[e] \in Offsets /\ own[o] \in Offsets
  BY <1>1 DEF TornTypeOK
<1>3. Whole(Split(own[o])) = own[o]
  BY <1>1, <1>2, PointerInParts
<1>4. CountOf(e, own[e], own[o]) = Exact(e) /\ Exact(e) \in Nat
  BY <1>1, <1>2, CountType DEF Exact
<1>5. LoadedOfSecond(e) = Parts /\ LoadedOfFirst(e) = Parts
  BY DEF LoadedOfSecond, LoadedOfFirst
<1>6. ASSUME Whole(loaded[e]["second"]) = own[o]
      PROVE  Count(e) \in Nat /\ Count(e) <= Exact(e)
  <2>1. Count(e) = Exact(e)
    BY <1>4, <1>6, Zenon DEF Count
  <2> QED
    BY <1>4, <2>1, NotMoreThanItself, Zenon
<1>7. CASE pc[o] = "store first"
  <2> DEFINE old == Whole(copies[o]["second"])
  <2>1. Whole(loaded[e]["second"]) = old
    <3>1. \A p \in Parts : loaded[e]["second"][p] = copies[o]["second"][p]
      BY <1>1, <1>5, <1>7 DEF TurnInv
    <3> QED
      BY <3>1, SameWhole
  <2>2. old \in Offsets /\ CountOf(e, own[e], old) <= Exact(e)
    BY <1>1, <1>7 DEF CopiesInv
  <2>3. CountOf(e, own[e], old) \in Nat
    BY <1>2, <2>2, CountType
  <2>4. Count(e) = CountOf(e, own[e], old)
    BY <2>1, Zenon DEF Count
  <2> QED
    BY <2>2, <2>3, <2>4, NotMoreThanItself, Zenon
<1>8. CASE pc[o] # "store first"
  <2>1. CASE overlaps[e] = 0
    <3>1. ~Storing(o)
      BY <1>1, <2>1 DEF TurnInv
    <3>2. copies[o]["second"] = Split(own[o])
      BY <1>1, <3>1 DEF CopiesInv
    <3>3. Whole(loaded[e]["second"]) = Whole(copies[o]["second"])
      <4>1. \A p \in Parts : loaded[e]["second"][p] = copies[o]["second"][p]
        BY <1>1, <1>5, <2>1 DEF TurnInv
      <4> QED
        BY <4>1, SameWhole
    <3> QED
      BY <1>3, <1>6, <1>8, <3>2, <3>3
  <2>2. CASE overlaps[e] # 0
    <3>1. CASE \A p \in Parts : loaded[e]["first"][p] = copies[o]["first"][p]
      <4>1. Whole(loaded[e]["first"]) = Whole(copies[o]["first"])
        BY <3>1, SameWhole
      <4>2. copies[o]["first"] = Split(own[o])
        BY <1>1, <1>8 DEF CopiesInv
      <4> QED
        BY <1>3, <1>6, <1>8, <4>1, <4>2
    <3>2. CASE Count(e) <= Exact(e) /\ Count(e) \in Nat
      BY <1>8, <3>2
    <3> QED
      BY <1>1, <1>5, <1>8, <2>2, <3>1, <3>2 DEF TurnInv
  <2> QED
    BY <2>1, <2>2
<1> QED
  BY <1>7, <1>8

\* Both copies are loaded: a count, or another turn.
LEMMA CopiesAreCompared ==
  ASSUME DividedInv, TornTypeOK', Divided, NEW e \in Ends, Compare(e)
  PROVE  doubtful' \/ DividedInv'
<1>1. PICK o \in Ends : o = Other(e) /\ o # e
  BY TwoEnds
<1>2. TornTypeOK
  BY DEF DividedInv
<1>3. /\ pc[e] = "load first" /\ todo[e] = {}
      /\ loaded' = [loaded EXCEPT ![e] = NothingLoaded]
      /\ UNCHANGED <<low, copies, own>>
      /\ ~Storing(e)
  BY DEF Compare, Storing
<1>4. loaded'[o] = loaded[o]
  BY <1>1, <1>2, <1>3 DEF TornTypeOK
<1>5. CASE Whole(loaded[e]["second"]) = Whole(loaded[e]["first"]) /\ overlaps[e] < 2
  <2>1. /\ budget' = [budget EXCEPT ![e] = Count(e)]
        /\ pc' = [pc EXCEPT ![e] = "idle"]
        /\ overlaps' = [overlaps EXCEPT ![e] = 0]
        /\ UNCHANGED todo
    BY <1>5 DEF Compare
  <2>2. /\ Count(e) \in Nat /\ Count(e) <= Exact(e)
        /\ pc[o] = "store first" =>
             Count(e) <= CountOf(e, own[e], Whole(copies[o]["second"]))
    BY <1>1, <1>3, <1>5, AcceptedIsSafe
  <2>3. /\ budget'[e] = Count(e) /\ budget'[o] = budget[o]
        /\ pc'[e] = "idle" /\ pc'[o] = pc[o]
        /\ overlaps'[o] = overlaps[o] /\ todo'[o] = todo[o]
    BY <1>1, <1>2, <2>1 DEF TornTypeOK
  <2>5. ~Storing(e)' /\ TurnInv(e)'
    BY <2>3 DEF Storing, TurnInv, Counting
  <2> QED
    BY <1>1, <1>3, <1>4, <2>2, <2>3, <2>5, CountingStep
<1>6. CASE Whole(loaded[e]["second"]) # Whole(loaded[e]["first"])
  <2>1. BeginTurn(e) /\ UNCHANGED budget
    BY <1>6 DEF Compare
  <2> QED
    BY <1>1, <1>3, <1>4, <2>1, TurnBegins
<1>7. CASE Whole(loaded[e]["second"]) = Whole(loaded[e]["first"]) /\ ~(overlaps[e] < 2)
  <2>1. overlaps[e] \in 0 .. 2
    BY <1>2 DEF TornTypeOK
  <2>2. overlaps[e] = 2
    BY <1>7, <2>1
  <2> QED
    BY <1>7, <2>2 DEF Compare
<1> QED
  BY <1>5, <1>6, <1>7

\* A count begins.
LEMMA CountBegins ==
  ASSUME DividedInv, TornTypeOK', NEW e \in Ends, BeginCount(e)
  PROVE  DividedInv'
<1>1. BeginTurn(e) /\ UNCHANGED <<low, copies, own, loaded, budget>> /\ ~Storing(e)
  BY DEF BeginCount, Storing
<1> QED
  BY <1>1, TurnBegins

\* A step of an advance disturbs its own copies and the other end's turn, no more.
LEMMA StoringStep ==
  ASSUME DividedInv, TornTypeOK', NEW e \in Ends, NEW o \in Ends, o = Other(e),
         Storing(e), ~Counting(e)',
         UNCHANGED <<low, own, loaded, budget, overlaps>>,
         pc'[o] = pc[o], todo'[o] = todo[o], copies'[o] = copies[o],
         CopiesInv(e)', TurnInv(o)'
  PROVE  DividedInv'
<1>1. o # e /\ Other(o) = e /\ \A x \in Ends : x = e \/ x = o
  BY TwoEnds
<1>2. \A x \in Ends : Exact(x)' = Exact(x)
  BY DEF Exact
<1>3. Whole(copies[o]["second"])' = Whole(copies[o]["second"])
  BY DEF Whole
<1>4. Split(own[o])' = Split(own[o])
  BY DEF Split
<1>5. \A x \in Ends : budget'[x] <= Exact(x)'
  BY <1>2 DEF DividedInv
<1>7. CopiesInv(o)'
  <2>1. CopiesInv(o)
    BY DEF DividedInv
  <2>2. Fresh(o, "second")' = Fresh(o, "second") /\ Fresh(o, "first")' = Fresh(o, "first")
    BY <1>4, Zenon DEF Fresh
  <2>3. CASE pc[o] # "store first"
    BY <1>1, <1>4, <2>1, <2>2, <2>3, Zenon DEF CopiesInv, Storing
  <2>4. CASE pc[o] = "store first"
    <3>1. Storing(o)'
      BY <2>4 DEF Storing
    <3> QED
      BY <1>1, <1>2, <1>3, <2>1, <2>2, <2>4, <3>1 DEF CopiesInv
  <2> QED
    BY <2>3, <2>4
<1>8. TurnInv(e)'
  BY DEF TurnInv
<1> QED
  BY <1>1, <1>5, <1>7, <1>8 DEF DividedInv

\* A part is stored.
LEMMA PartIsStored ==
  ASSUME DividedInv, TornTypeOK', NEW e \in Ends, NEW p \in Parts, StorePart(e, p)
  PROVE  DividedInv'
<1>1. PICK o \in Ends : o = Other(e) /\ o # e /\ Other(o) = e
  BY TwoEnds
<1>2. TornTypeOK /\ own[e] \in Offsets
  BY DEF DividedInv, TornTypeOK
<1>3. PICK c \in Copies : /\ pc[e] = (IF c = "second" THEN "store second" ELSE "store first")
                          /\ copies' = [copies EXCEPT ![e][c][p] = Split(own[e])[p]]
  BY DEF StorePart
<1>4. todo' = [todo EXCEPT ![e] = @ \ {p}]
  BY DEF StorePart, AccessPart
<1>5. UNCHANGED <<low, own, pc, loaded, budget, overlaps>>
  BY DEF StorePart
<1>6. PICK v \in Nat : v = Split(own[e])[p]
  BY <1>2, PointerInParts
<1>7. copies \in [Ends -> [Copies -> [Parts -> Nat]]] /\ todo \in [Ends -> SUBSET Parts]
  BY <1>2 DEF TornTypeOK
<1>9. /\ todo'[e] = todo[e] \ {p} /\ todo'[o] = todo[o]
      /\ copies'[o] = copies[o]
      /\ copies'[e][c][p] = v
      /\ \A q \in Parts : q # p => copies'[e][c][q] = copies[e][c][q]
      /\ \A d \in Copies : d # c => copies'[e][d] = copies[e][d]
  <2>1. todo'[e] = todo[e] \ {p} /\ todo'[o] = todo[o] /\ copies'[o] = copies[o]
    BY <1>1, <1>3, <1>4, <1>7
  <2>2. copies'[e] = [copies[e] EXCEPT ![c][p] = v]
    BY <1>3, <1>6, <1>7
  <2>3. copies[e] \in [Copies -> [Parts -> Nat]]
    BY <1>7
  <2>4. copies'[e][c] = [copies[e][c] EXCEPT ![p] = v]
    BY <2>2, <2>3
  <2>5. \A d \in Copies : d # c => copies'[e][d] = copies[e][d]
    BY <2>2, <2>3
  <2>6. copies[e][c] \in [Parts -> Nat]
    BY <2>3
  <2>7. copies'[e][c][p] = v /\ \A q \in Parts : q # p => copies'[e][c][q] = copies[e][c][q]
    BY <2>4, <2>6
  <2> QED
    BY <2>1, <2>5, <2>7
<1>11. Storing(e) /\ ~Counting(e)'
  BY <1>3, <1>5 DEF Storing, Counting
<1>12. Split(own[e])' = Split(own[e])
  BY <1>5 DEF Split
<1>13. ASSUME Fresh(e, c)
       PROVE  Fresh(e, c)'
  <2> SUFFICES ASSUME NEW q \in Parts \ todo'[e]
               PROVE  copies'[e][c][q] = Split(own[e])[q]
    BY <1>12 DEF Fresh
  <2>1. CASE q = p
    BY <1>6, <1>9, <2>1
  <2>2. CASE q # p
    BY <1>9, <1>13, <2>2 DEF Fresh
  <2> QED
    BY <2>1, <2>2
<1>14. Exact(o)' = Exact(o) /\ Count(o)' = Count(o)
  BY <1>5 DEF Exact, Count, Whole
<1>15. CopiesInv(e) /\ TurnInv(o)
  BY DEF DividedInv
<1>16. LoadedOfSecond(o)' = LoadedOfSecond(o) /\ LoadedOfFirst(o)' = LoadedOfFirst(o)
  BY <1>5, <1>9 DEF LoadedOfSecond, LoadedOfFirst
<1>17. (Counting(o)' <=> Counting(o)) /\ (Counting(o) => overlaps[o] # 0)
  BY <1>1, <1>5, <1>11, <1>15, TurnKnows DEF Counting
<1>18. CASE c = "first"
  <2>1. pc[e] = "store first" /\ copies'[e]["second"] = copies[e]["second"]
    BY <1>3, <1>9, <1>18 DEF Copies
  <2>2. CopiesInv(e)'
    <3>1. Whole(copies[e]["second"])' = Whole(copies[e]["second"])
      BY <1>5, <2>1 DEF Whole
    <3>2. Storing(e)'
      BY <1>5, <1>11 DEF Storing
    <3>3. Fresh(e, "first")'
      BY <1>13, <1>15, <1>18, <2>1 DEF CopiesInv
    <3> QED
      BY <1>1, <1>5, <1>14, <1>15, <2>1, <3>1, <3>2, <3>3 DEF CopiesInv
  <2>3. TurnInv(o)'
    BY <1>1, <1>5, <1>15, <1>16, <1>17, <2>1 DEF TurnInv
  <2> QED
    BY <1>1, <1>5, <1>9, <1>11, <2>2, <2>3, StoringStep
<1>19. CASE c = "second"
  <2>1. pc[e] = "store second" /\ copies'[e]["first"] = copies[e]["first"]
    BY <1>3, <1>9, <1>19 DEF Copies
  <2>2. CopiesInv(e)'
    <3>1. Storing(e)'
      BY <1>5, <1>11 DEF Storing
    <3>2. Fresh(e, "second")'
      BY <1>13, <1>15, <1>19, <2>1 DEF CopiesInv
    <3>3. copies'[e]["first"] = Split(own[e])'
      BY <1>12, <1>15, <2>1 DEF CopiesInv
    <3> QED
      BY <1>5, <2>1, <3>1, <3>2, <3>3 DEF CopiesInv
  <2>3. TurnInv(o)'
    <3>1. /\ pc'[e] # "store first" /\ pc[e] # "store first"
          /\ copies'[e]["first"] = copies[e]["first"] /\ loaded' = loaded
          /\ overlaps' = overlaps /\ pc' = pc
      BY <1>5, <2>1
    <3>2. Counting(o) /\ overlaps[o] < 2 =>
            \/ \A q \in LoadedOfFirst(o) : loaded[o]["first"][q] = copies[e]["first"][q]
            \/ pc[o] = "load first" /\ Count(o) <= Exact(o) /\ Count(o) \in Nat
      BY <1>1, <1>15, <1>17, <3>1, Zenon DEF TurnInv
    <3> QED
      BY <1>1, <1>14, <1>16, <1>17, <3>1, <3>2, Zenon DEF TurnInv
  <2> QED
    BY <1>1, <1>5, <1>9, <1>11, <2>2, <2>3, StoringStep
<1> QED
  BY <1>18, <1>19 DEF Copies

\* A copy is stored.
LEMMA CopyIsStored ==
  ASSUME DividedInv, TornTypeOK', NEW e \in Ends, Stored(e)
  PROVE  DividedInv'
<1>1. PICK o \in Ends : o = Other(e) /\ o # e /\ Other(o) = e
  BY TwoEnds
<1>2. TornTypeOK /\ own[e] \in Offsets
  BY DEF DividedInv, TornTypeOK
<1>3. /\ todo[e] = {} /\ Storing(e)
      /\ UNCHANGED <<low, copies, own, loaded, budget, overlaps>>
  BY DEF Stored, Storing
<1>4. CopiesInv(e) /\ CopiesInv(o) /\ TurnInv(o)
  BY DEF DividedInv
<1>5. PICK w \in [Parts -> Nat] : w = Split(own[e])
  BY <1>2, PointerInParts
<1>6. copies[e] \in [Copies -> [Parts -> Nat]]
  BY <1>2 DEF TornTypeOK
<1>7. ASSUME NEW c \in Copies, Fresh(e, c)
      PROVE  copies[e][c] = Split(own[e])
  <2>1. copies[e][c] \in [Parts -> Nat]
    BY <1>6
  <2>2. \A p \in Parts : copies[e][c][p] = w[p]
    BY <1>3, <1>5, <1>7 DEF Fresh
  <2>3. copies[e][c] = w
    BY <2>1, <2>2
  <2> QED
    BY <1>5, <2>3
<1>8. Split(own[e])' = Split(own[e])
  BY <1>3 DEF Split
<1>9. (Counting(o) => overlaps[o] # 0) /\ (Counting(o)' <=> pc'[o] \in {"load second", "load first"})
  BY <1>1, <1>3, <1>4, TurnKnows DEF Counting
<1>10. CASE pc[e] = "store first"
  <2>1. pc' = [pc EXCEPT ![e] = "store second"] /\ todo' = [todo EXCEPT ![e] = Parts]
    BY <1>10 DEF Stored, Access
  <2>2. /\ pc'[e] = "store second" /\ pc'[o] = pc[o]
        /\ todo'[e] = Parts /\ todo'[o] = todo[o]
    BY <1>1, <1>2, <2>1 DEF TornTypeOK
  <2>4. CopiesInv(e)'
    <3>1. copies[e]["first"] = Split(own[e])
      BY <1>4, <1>7, <1>10 DEF CopiesInv, Copies
    <3>2. Fresh(e, "second")' /\ Storing(e)'
      BY <2>2 DEF Fresh, Storing
    <3> QED
      BY <1>3, <1>8, <2>2, <3>1, <3>2 DEF CopiesInv
  <2>5. TurnInv(o)'
    <3>1. SUFFICES ASSUME Counting(o), overlaps[o] < 2
                   PROVE  \/ LoadedOfFirst(o)' = {}
                          \/ pc'[o] = "load first" /\ Count(o)' <= Exact(o)' /\ Count(o)' \in Nat
      BY <1>1, <1>3, <1>9, <2>2 DEF TurnInv, Counting
    <3>2. CASE pc[o] = "load second"
      BY <2>2, <3>2 DEF LoadedOfFirst
    <3>3. CASE pc[o] = "load first"
      <4> DEFINE old == Whole(copies[e]["second"])
      <4>1. \A p \in Parts : loaded[o]["second"][p] = copies[e]["second"][p]
        BY <1>1, <1>4, <1>10, <3>1, <3>3 DEF TurnInv, LoadedOfSecond
      <4>2. Whole(loaded[o]["second"]) = old
        BY <4>1, SameWhole
      <4>3. Count(o) = CountOf(o, own[o], old)
        BY <4>2, Zenon DEF Count
      <4>4. old \in Offsets /\ CountOf(o, own[o], old) <= Exact(o)
        BY <1>1, <1>4, <1>10 DEF CopiesInv
      <4>5. own[o] \in Offsets
        BY <1>2 DEF TornTypeOK
      <4>6. CountOf(o, own[o], old) \in Nat
        BY <4>4, <4>5, CountType
      <4>7. Count(o) <= Exact(o) /\ Count(o) \in Nat
        BY <4>3, <4>4, <4>6, Zenon
      <4>8. Count(o)' = Count(o) /\ Exact(o)' = Exact(o)
        BY <1>3 DEF Count, Whole, Exact
      <4> QED
        BY <2>2, <3>3, <4>7, <4>8
    <3> QED
      BY <3>1, <3>2, <3>3 DEF Counting
  <2>6. ~Counting(e)'
    BY <2>2 DEF Counting
  <2> QED
    BY <1>1, <1>3, <2>2, <2>4, <2>5, <2>6, StoringStep
<1>11. CASE pc[e] = "store second"
  <2>1. pc' = [pc EXCEPT ![e] = "idle"] /\ UNCHANGED todo
    BY <1>11 DEF Stored
  <2>2. pc'[e] = "idle" /\ pc'[o] = pc[o]
    BY <1>1, <1>2, <2>1 DEF TornTypeOK
  <2>4. CopiesInv(e)'
    <3>1. copies[e]["first"] = Split(own[e]) /\ copies[e]["second"] = Split(own[e])
      BY <1>4, <1>7, <1>11 DEF CopiesInv, Copies
    <3> QED
      BY <1>3, <1>8, <2>2, <3>1 DEF CopiesInv
  <2>5. TurnInv(o)'
    <3>1. LoadedOfFirst(o)' = LoadedOfFirst(o) /\ ~Storing(e)'
      BY <2>1, <2>2 DEF LoadedOfFirst, Storing
    <3>2. Count(o)' = Count(o) /\ Exact(o)' = Exact(o)
      BY <1>3 DEF Count, Whole, Exact
    <3>3. Counting(o)' <=> Counting(o)
      BY <2>2 DEF Counting
    <3> QED
      BY <1>1, <1>3, <1>4, <1>9, <1>11, <2>2, <3>1, <3>2, <3>3 DEF TurnInv
  <2>6. ~Counting(e)'
    BY <2>2 DEF Counting
  <2> QED
    BY <1>1, <1>3, <2>1, <2>2, <2>4, <2>5, <2>6, StoringStep
<1> QED
  BY <1>3, <1>10, <1>11 DEF Storing

\* An advance begins.
LEMMA AdvanceBegins ==
  ASSUME DividedInv, TornTypeOK', NEW e \in Ends, NEW n \in 1 .. budget[e], BeginAdvance(e, n)
  PROVE  DividedInv'
<1>1. PICK o \in Ends : o = Other(e) /\ o # e /\ Other(o) = e /\ \A x \in Ends : x = e \/ x = o
  BY TwoEnds
<1>2. /\ TornTypeOK /\ own[e] \in Offsets /\ own[o] \in Offsets
      /\ budget[e] \in Nat /\ budget[o] \in Nat
  BY DEF DividedInv, TornTypeOK
<1>3. /\ pc[e] = "idle" /\ n <= EffectiveBufferSize - own[e]
      /\ own' = [own EXCEPT ![e] = Advance(@, n)]
      /\ budget' = [budget EXCEPT ![e] = @ - n]
      /\ pc' = [pc EXCEPT ![e] = "store first"]
      /\ todo' = [todo EXCEPT ![e] = Parts]
      /\ UNCHANGED <<low, copies, loaded>>
  BY DEF BeginAdvance, Access
<1>4. ~Counting(e) /\ ~Counting(e)' /\ ~Storing(e) /\ pc'[e] = "store first" /\ pc'[o] = pc[o]
      /\ todo'[e] = Parts /\ todo'[o] = todo[o]
  <2>1. /\ pc'[e] = "store first" /\ pc'[o] = pc[o]
        /\ todo'[e] = Parts /\ todo'[o] = todo[o]
    BY <1>1, <1>2, <1>3 DEF TornTypeOK
  <2> QED
    BY <1>3, <2>1 DEF Counting, Storing
<1>5. /\ CopiesInv(e) /\ CopiesInv(o) /\ TurnInv(o)
      /\ budget[e] <= Exact(e) /\ budget[o] <= Exact(o)
  BY <1>1 DEF DividedInv

\* The numbers.
<1>6. Exact(e) \in Nat /\ Exact(o) \in Nat
  BY <1>1, <1>2, ExactOfBoth DEF TornTypeOK
<1>7. n \in Nat /\ n >= 1 /\ n <= budget[e] /\ n <= Exact(e)
  BY <1>2, <1>5, <1>6
<1>8. PICK b \in Offsets : /\ b = Advance(own[e], n) /\ own'[e] = b /\ own'[o] = own[o]
                          /\ own[e] + n <= EffectiveBufferSize
                          /\ Exact(e)' = Exact(e) - n /\ Exact(o)' = Exact(o) + n
  <2>1. own \in [Ends -> Offsets]
    BY <1>2 DEF TornTypeOK
  <2> QED
    BY <1>1, <1>3, <1>7, <2>1, AdvanceMoves
<1>10. budget'[e] = budget[e] - n /\ budget'[o] = budget[o]
  <2>1. budget \in [Ends -> Nat]
    BY <1>2 DEF TornTypeOK
  <2> QED
    BY <1>1, <1>3, <2>1

\* The invariant.
<1>14. Counting(o) /\ overlaps'[o] < 2 => overlaps[o] = 0 /\ overlaps'[o] = 1
  <2>1. overlaps \in [Ends -> 0 .. 2]
    BY <1>2 DEF TornTypeOK
  <2>2. SUFFICES ASSUME Counting(o), overlaps'[o] < 2
                 PROVE  overlaps[o] = 0 /\ overlaps'[o] = 1
    OBVIOUS
  <2>3. overlaps' = IF overlaps[o] < 2 THEN [overlaps EXCEPT ![o] = @ + 1] ELSE overlaps
    BY <1>1, <2>2 DEF BeginAdvance, Counting
  <2>4. overlaps[o] < 2 /\ overlaps'[o] = overlaps[o] + 1
    BY <2>1, <2>2, <2>3
  <2> QED
    BY <2>1, <2>2, <2>4
<1>16. \A x \in Ends : budget'[x] <= Exact(x)'
  <2>1. budget'[e] <= Exact(e)' /\ budget'[o] <= Exact(o)'
    BY <1>2, <1>5, <1>6, <1>7, <1>8, <1>10
  <2> QED
    BY <1>1, <2>1
<1>18. CopiesInv(e)'
  <2>1. copies[e]["second"] = Split(own[e])
    BY <1>4, <1>5 DEF CopiesInv
  <2>2. Whole(copies[e]["second"])' = own[e]
    <3>1. Whole(copies[e]["second"])' = Whole(copies[e]["second"])
      BY <1>3 DEF Whole
    <3> QED
      BY <1>2, <2>1, <3>1, PointerInParts
  <2>3. budget'[o] <= CountOf(o, own'[o], own[e]) /\ CountOf(o, own'[o], own[e]) <= Exact(o)'
    <3>1. CountOf(o, own'[o], own[e]) = Exact(o)
      BY <1>1, <1>8, Zenon DEF Exact
    <3> QED
      BY <1>2, <1>5, <1>6, <1>7, <1>8, <1>10, <3>1
  <2>4. Fresh(e, "first")' /\ Storing(e)'
    BY <1>4 DEF Fresh, Storing
  <2> QED
    BY <1>1, <1>2, <1>4, <2>2, <2>3, <2>4 DEF CopiesInv
<1>19. CopiesInv(o)'
  <2>1. Split(own[o])' = Split(own[o])
    <3>1. low' = low /\ own'[o] = own[o]
      BY <1>3, <1>8
    <3> QED
      BY <3>1 DEF Split
  <2>2. Fresh(o, "second")' = Fresh(o, "second") /\ Fresh(o, "first")' = Fresh(o, "first")
    BY <1>3, <1>4, <2>1, Zenon DEF Fresh
  <2>3. CASE pc[o] # "store first"
    BY <1>1, <1>3, <1>4, <1>5, <2>1, <2>2, <2>3, Zenon DEF CopiesInv, Storing
  <2>4. CASE pc[o] = "store first"
    <3> DEFINE old == Whole(copies[o]["second"])
    <3>1. old' = old
      BY <1>3 DEF Whole
    <3>2. /\ old \in Offsets /\ budget[e] <= CountOf(e, own[e], old)
          /\ CountOf(e, own[e], old) <= Exact(e) /\ Fresh(o, "first")
      BY <1>1, <1>5, <2>4 DEF CopiesInv
    <3>3. PICK k \in Nat : k = CountOf(e, own[e], old)
      BY <1>2, <3>2, CountType
    <3>4. n <= k /\ k <= Exact(e) /\ budget[e] <= k
      BY <1>2, <1>7, <3>2, <3>3
    <3>5. CountOf(e, b, old) = k - n
      BY <1>2, <1>7, <1>8, <3>2, <3>3, <3>4, CountShrinks
    <3>6. budget[e] - n <= k - n /\ k - n <= Exact(e) - n
      BY <1>2, <1>6, <1>7, <3>4
    <3>7. budget'[e] <= CountOf(e, own'[e], old') /\ CountOf(e, own'[e], old') <= Exact(e)'
      BY <1>8, <1>10, <3>1, <3>5, <3>6
    <3>8. Storing(o)' /\ pc'[o] = "store first"
      BY <1>4, <2>4 DEF Storing
    <3> QED
      BY <1>1, <2>2, <3>1, <3>2, <3>7, <3>8 DEF CopiesInv
  <2> QED
    BY <2>3, <2>4
<1>20. TurnInv(e)'
  BY <1>4 DEF TurnInv
<1>21. TurnInv(o)'
  <2>1. SUFFICES ASSUME Counting(o), overlaps'[o] < 2
                 PROVE  TurnInv(o)'
    BY <1>4 DEF TurnInv, Counting
  <2>2. overlaps[o] = 0 /\ overlaps'[o] = 1 /\ overlaps[o] < 2
    BY <1>14, <2>1
  <2>3. \A p \in LoadedOfSecond(o) : loaded[o]["second"][p] = copies[e]["second"][p]
    BY <1>1, <1>5, <2>1, <2>2 DEF TurnInv
  <2>4. LoadedOfSecond(o)' = LoadedOfSecond(o)
    BY <1>4 DEF LoadedOfSecond
  <2>5. loaded' = loaded /\ copies' = copies
    BY <1>3
  <2>6. \A p \in LoadedOfSecond(o)' : loaded'[o]["second"][p] = copies'[e]["second"][p]
    BY <2>3, <2>4, <2>5
  <2>7. overlaps'[o] # 0
    BY <2>2
  <2>8. pc'[e] = "store first"
    BY <1>4
  <2> QED
    BY <1>1, <2>6, <2>7, <2>8, Zenon DEF TurnInv
<1> QED
  BY <1>1, <1>16, <1>18, <1>19, <1>20, <1>21 DEF DividedInv

\* A step that only watches.
LEMMA DividedStutters ==
  ASSUME DividedInv, UNCHANGED tornVars
  PROVE  DividedInv'
<1>1. UNCHANGED <<low, copies, own, pc, todo, loaded, budget, overlaps>>
  BY DEF tornVars
<1>2. TornTypeOK'
  BY <1>1 DEF DividedInv, TornTypeOK
<1>3. ASSUME NEW e \in Ends
      PROVE  Exact(e)' = Exact(e) /\ (CopiesInv(e) => CopiesInv(e)') /\ (TurnInv(e) => TurnInv(e)')
  <2>1. Exact(e)' = Exact(e) /\ Exact(Other(e))' = Exact(Other(e))
    BY <1>1 DEF Exact
  <2>2. Split(own[e])' = Split(own[e]) /\ Whole(copies[e]["second"])' = Whole(copies[e]["second"])
    BY <1>1 DEF Split, Whole
  <2>3. Fresh(e, "second")' = Fresh(e, "second") /\ Fresh(e, "first")' = Fresh(e, "first")
    BY <1>1, <2>2, Zenon DEF Fresh
  <2>4. CopiesInv(e) => CopiesInv(e)'
    BY <1>1, <2>1, <2>2, <2>3, Zenon DEF CopiesInv, Storing
  <2>5. Count(e)' = Count(e)
    BY <1>1 DEF Count, Whole
  <2>6. LoadedOfSecond(e)' = LoadedOfSecond(e) /\ LoadedOfFirst(e)' = LoadedOfFirst(e)
    BY <1>1 DEF LoadedOfSecond, LoadedOfFirst
  <2>7. TurnInv(e) => TurnInv(e)'
    BY <1>1, <2>1, <2>5, <2>6, Zenon DEF TurnInv, Storing, Counting
  <2> QED
    BY <2>1, <2>4, <2>7, Zenon
<1> QED
  BY <1>1, <1>2, <1>3 DEF DividedInv

\* Unless it accepts a doubtful count a step keeps all of this.
LEMMA DividedStep ==
  ASSUME Divided, DividedInv, TornTypeOK', [TornNext]_tornVars
  PROVE  doubtful' \/ DividedInv'
<1>1. CASE UNCHANGED tornVars
  BY <1>1, DividedStutters
<1>2. CASE TornNext
  <2>1. PICK e \in Ends :
          \/ BeginCount(e) \/ LoadFirst(e) \/ Compare(e) \/ Stored(e)
          \/ \E n \in 1 .. budget[e] : BeginAdvance(e, n)
          \/ \E p \in Parts : LoadPart(e, p) \/ StorePart(e, p)
    BY <1>2 DEF TornNext
  <2>2. CASE BeginCount(e)
    BY <2>2, CountBegins
  <2>3. CASE LoadFirst(e)
    BY <2>3, SecondIsLoaded
  <2>4. CASE Compare(e)
    BY <2>4, CopiesAreCompared
  <2>5. CASE Stored(e)
    BY <2>5, CopyIsStored
  <2>6. ASSUME NEW n \in 1 .. budget[e], BeginAdvance(e, n)
        PROVE  DividedInv'
    BY <2>6, AdvanceBegins
  <2>7. ASSUME NEW p \in Parts, LoadPart(e, p)
        PROVE  DividedInv'
    BY <2>7, PartIsLoaded
  <2>8. ASSUME NEW p \in Parts, StorePart(e, p)
        PROVE  DividedInv'
    BY <2>8, PartIsStored
  <2> QED
    BY <2>1, <2>2, <2>3, <2>4, <2>5, <2>6, <2>7, <2>8
<1> QED
  BY <1>1, <1>2

-----------------------------------------------------------------------------
(* TornPointer: pointers that do not.                                      *)

\* Below the place where it divides a pointer is its lower part.
LEMMA LowPartIsAll ==
  ASSUME TornTypeOK, ~Divided, NEW v \in Offsets
  PROVE  Split(v)["low"] = v /\ Split(v)["high"] = 0
<1>1. PICK l \in Nat \ {0} : l = low
  BY TornAssumption DEF TornTypeOK
<1>2. v \in Nat /\ v < l
  BY <1>1, Size DEF Offsets, Divided
<1>3. v % l = v /\ v \div l = 0
  BY <1>2, SMT
<1> QED
  BY <1>1, <1>3 DEF Split, Parts

\* A step that leaves the pointers and their copies alone disturbs the acting end's part
\* only.
LEMMA QuietStepLags ==
  ASSUME \A x \in Ends : LagInv(x), NEW e \in Ends, NEW o \in Ends, o = Other(e),
         UNCHANGED <<low, copies, own>>,
         pc'[o] = pc[o], todo'[o] = todo[o], loaded'[o] = loaded[o], budget'[o] = budget[o],
         LagInv(e)'
  PROVE  \A x \in Ends : LagInv(x)'
<1>1. o # e /\ Other(o) = e /\ \A x \in Ends : x = e \/ x = o
  BY TwoEnds
<1>2. Exact(o)' = Exact(o)
  BY DEF Exact
<1>3. LoadedOfSecond(o)' = LoadedOfSecond(o) /\ (Counting(o)' <=> Counting(o))
  BY DEF LoadedOfSecond, Counting
<1>4. LagInv(o)'
  <2>1. LagInv(o)
    OBVIOUS
  <2> QED
    BY <1>1, <1>2, <1>3, <2>1, Zenon DEF LagInv
<1> QED
  BY <1>1, <1>4

\* The numbers of a lagging end.
LEMMA LagNumbers ==
  ASSUME TornTypeOK, NEW e \in Ends, LagInv(e)
  PROVE  LET second == copies[Other(e)]["second"]["low"]
         IN  /\ own[e] \in Offsets /\ second \in Offsets
             /\ budget[e] \in Nat /\ Exact(e) \in Nat
             /\ CountOf(e, own[e], second) \in Nat
             /\ budget[e] <= CountOf(e, own[e], second)
             /\ CountOf(e, own[e], second) <= Exact(e)
             /\ budget[e] <= Exact(e)
<1>1. own \in [Ends -> Offsets] /\ budget \in [Ends -> Nat]
  BY DEF TornTypeOK
<1>2. PICK v \in Offsets : v = copies[Other(e)]["second"]["low"]
  BY Zenon DEF LagInv
<1>3. PICK k \in Nat : k = CountOf(e, own[e], v)
  BY <1>1, CountType
<1>4. Exact(e) \in Nat
  BY <1>1, ExactOfBoth
<1>5. budget[e] <= k /\ k <= Exact(e)
  BY <1>2, <1>3, Zenon DEF LagInv
<1>6. budget[e] \in Nat /\ budget[e] <= Exact(e)
  BY <1>1, <1>4, <1>5
<1> QED
  BY <1>1, <1>2, <1>3, <1>4, <1>5, <1>6, Zenon

\* Both loads of a count, and what it makes of them.
LEMMA CountLags ==
  ASSUME TornTypeOK, ~Divided, \A x \in Ends : LagInv(x), NEW e \in Ends,
         BeginCount(e) \/ LoadFirst(e) \/ Compare(e)
  PROVE  \A x \in Ends : LagInv(x)'
<1>1. PICK o \in Ends : o = Other(e) /\ o # e
  BY TwoEnds
<1>2. LagInv(e)
  OBVIOUS
<1>3. UNCHANGED <<low, copies, own>> /\ Exact(e)' = Exact(e)
  BY DEF BeginCount, LoadFirst, Compare, Exact
<1>4. CASE BeginTurn(e) /\ budget'[e] = budget[e]
           /\ budget'[o] = budget[o] /\ loaded'[o] = loaded[o]
  <2>1. /\ pc'[e] = "load second" /\ pc'[o] = pc[o]
        /\ todo'[e] = Parts /\ todo'[o] = todo[o]
    BY <1>1, <1>4 DEF BeginTurn, Access, TornTypeOK
  <2>2. LoadedOfSecond(e)' = {}
    BY <2>1 DEF LoadedOfSecond
  <2>3. LagInv(e)'
    BY <1>2, <1>3, <1>4, <2>2, Zenon DEF LagInv
  <2> QED
    BY <1>1, <1>3, <1>4, <2>1, <2>3, QuietStepLags
<1>5. CASE LoadFirst(e)
  <2>1. /\ pc[e] = "load second" /\ todo[e] = {} /\ UNCHANGED <<loaded, budget>>
        /\ pc'[e] = "load first" /\ pc'[o] = pc[o] /\ todo'[o] = todo[o]
    BY <1>1, <1>5 DEF LoadFirst, Access, TornTypeOK
  <2>2. LoadedOfSecond(e)' = LoadedOfSecond(e) /\ Counting(e)
    BY <2>1 DEF LoadedOfSecond, Counting
  <2>3. LagInv(e)'
    BY <1>2, <1>3, <2>1, <2>2, Zenon DEF LagInv
  <2> QED
    BY <1>1, <1>3, <2>1, <2>3, QuietStepLags
<1>6. CASE Compare(e) /\ budget' = [budget EXCEPT ![e] = Count(e)]
           /\ pc' = [pc EXCEPT ![e] = "idle"] /\ UNCHANGED todo
  <2>1. /\ budget'[e] = Count(e) /\ budget'[o] = budget[o]
        /\ pc'[e] = "idle" /\ pc'[o] = pc[o] /\ todo'[o] = todo[o]
        /\ loaded'[o] = loaded[o]
        /\ pc[e] = "load first"
    BY <1>1, <1>6 DEF Compare, TornTypeOK
  <2>2. ~Counting(e)' /\ Counting(e) /\ LoadedOfSecond(e) = {"low", "high"}
    BY <2>1 DEF Counting, LoadedOfSecond, Parts
  <2>3. PICK v \in Offsets : v = loaded[e]["second"]["low"]
    BY <1>2, <2>2, Zenon DEF LagInv
  <2>4. Whole(loaded[e]["second"]) = v
    <3>1. loaded[e]["second"]["high"] = 0
      BY <1>2, <2>2, Zenon DEF LagInv
    <3>2. PICK l \in Nat : l = low
      BY TornAssumption DEF TornTypeOK
    <3>3. 0 * l + v = v
      BY Size DEF Offsets
    <3> QED
      BY <2>3, <3>1, <3>2, <3>3, Zenon DEF Whole
  <2>5. Count(e) <= CountOf(e, own[e], copies[Other(e)]["second"]["low"])
    BY <1>2, <2>2, <2>3, <2>4, Zenon DEF LagInv, Count
  <2>6. LagInv(e)'
    BY <1>2, <1>3, <2>1, <2>2, <2>5, Zenon DEF LagInv
  <2> QED
    BY <1>1, <1>3, <2>1, <2>6, QuietStepLags
<1>7. CASE BeginCount(e)
  BY <1>4, <1>7 DEF BeginCount
<1>8. CASE Compare(e) /\ BeginTurn(e) /\ UNCHANGED budget
  <2>1. loaded'[o] = loaded[o]
    BY <1>1, <1>8 DEF Compare, TornTypeOK
  <2> QED
    BY <1>4, <1>8, <2>1
<1> QED
  BY <1>5, <1>6, <1>7, <1>8 DEF Compare

\* A part that is loaded now does not lag yet.
LEMMA LoadLags ==
  ASSUME TornTypeOK, \A x \in Ends : LagInv(x), NEW e \in Ends, NEW p \in Parts, LoadPart(e, p)
  PROVE  \A x \in Ends : LagInv(x)'
<1>1. PICK o \in Ends : o = Other(e) /\ o # e
  BY TwoEnds
<1>2. LagInv(e)
  OBVIOUS
<1>3. UNCHANGED <<low, copies, own, pc, budget>> /\ Exact(e)' = Exact(e)
  BY DEF LoadPart, Exact
<1>4. /\ todo'[e] = todo[e] \ {p} /\ todo'[o] = todo[o] /\ todo[e] \subseteq Parts
  BY <1>1 DEF LoadPart, AccessPart, TornTypeOK
<1>5. PICK c \in Copies : /\ pc[e] = (IF c = "second" THEN "load second" ELSE "load first")
                          /\ loaded' = [loaded EXCEPT ![e][c][p] = copies[o][c][p]]
  BY <1>1 DEF LoadPart
<1>6. /\ loaded'[o] = loaded[o]
      /\ loaded'[e][c][p] = copies[o][c][p]
      /\ \A q \in Parts : q # p => loaded'[e][c][q] = loaded[e][c][q]
      /\ \A d \in Copies : d # c => loaded'[e][d] = loaded[e][d]
  <2>1. loaded \in [Ends -> [Copies -> [Parts -> Nat]]]
    BY DEF TornTypeOK
  <2>2. loaded'[o] = loaded[o] /\ loaded'[e] = [loaded[e] EXCEPT ![c][p] = copies[o][c][p]]
    BY <1>1, <1>5, <2>1
  <2>3. loaded[e] \in [Copies -> [Parts -> Nat]]
    BY <2>1
  <2>4. /\ loaded'[e][c] = [loaded[e][c] EXCEPT ![p] = copies[o][c][p]]
        /\ \A d \in Copies : d # c => loaded'[e][d] = loaded[e][d]
    BY <2>2, <2>3
  <2>5. loaded[e][c] \in [Parts -> Nat]
    BY <2>3
  <2>6. /\ loaded'[e][c][p] = copies[o][c][p]
        /\ \A q \in Parts : q # p => loaded'[e][c][q] = loaded[e][c][q]
    BY <2>4, <2>5
  <2> QED
    BY <2>2, <2>4, <2>6
<1>7. Counting(e) /\ Counting(e)'
  BY <1>3, <1>5 DEF Counting
<1>8. LagInv(e)'
  <2>1. CASE c = "first"
    <3>1. loaded'[e]["second"] = loaded[e]["second"]
      BY <1>6, <2>1 DEF Copies
    <3>2. LoadedOfSecond(e)' = LoadedOfSecond(e)
      BY <1>3, <1>5, <2>1 DEF LoadedOfSecond
    <3> QED
      BY <1>2, <1>3, <1>7, <3>1, <3>2, Zenon DEF LagInv
  <2>2. CASE c = "second"
    <3>1. \A q \in Parts : q \in LoadedOfSecond(e)' => q = p \/ q \in LoadedOfSecond(e)
      BY <1>3, <1>4, <1>5, <2>2 DEF LoadedOfSecond
    <3>2. /\ loaded'[e]["second"][p] = copies[o]["second"][p]
          /\ \A q \in Parts : q # p => loaded'[e]["second"][q] = loaded[e]["second"][q]
      BY <1>6, <2>2, Zenon
    <3>3. CountOf(e, own[e], copies[Other(e)]["second"]["low"]) <=
            CountOf(e, own[e], copies[Other(e)]["second"]["low"])
      BY <1>2, LagNumbers, NotMoreThanItself, Zenon
    <3>4. "low" \in Parts /\ "high" \in Parts
      BY DEF Parts
    <3>5. "high" \in LoadedOfSecond(e)' => loaded'[e]["second"]["high"] = 0
      <4>1. CASE p = "high"
        BY <1>1, <1>2, <3>2, <4>1, Zenon DEF LagInv
      <4>2. CASE p # "high"
        BY <1>2, <1>7, <3>1, <3>2, <3>4, <4>2, Zenon DEF LagInv
      <4> QED
        BY <4>1, <4>2
    <3>6. "low" \in LoadedOfSecond(e)' =>
            /\ loaded'[e]["second"]["low"] \in Offsets
            /\ CountOf(e, own[e], loaded'[e]["second"]["low"]) <=
                 CountOf(e, own[e], copies[Other(e)]["second"]["low"])
      <4>1. CASE p = "low"
        BY <1>1, <1>2, <3>2, <3>3, <4>1, Zenon DEF LagInv
      <4>2. CASE p # "low"
        BY <1>2, <1>7, <3>1, <3>2, <3>4, <4>2, Zenon DEF LagInv
      <4> QED
        BY <4>1, <4>2
    <3> QED
      BY <1>2, <1>3, <3>5, <3>6, Zenon DEF LagInv
  <2> QED
    BY <2>1, <2>2 DEF Copies
<1> QED
  BY <1>1, <1>3, <1>4, <1>6, <1>8, QuietStepLags

\* What is stored is the pointer itself: nobody counts more from it than there is.
LEMMA StoreLags ==
  ASSUME TornTypeOK, ~Divided, \A x \in Ends : LagInv(x), NEW e \in Ends, NEW p \in Parts,
         StorePart(e, p)
  PROVE  \A x \in Ends : LagInv(x)'
<1>1. PICK o \in Ends : o = Other(e) /\ o # e /\ Other(o) = e /\ \A x \in Ends : x = e \/ x = o
  BY TwoEnds
<1>2. PICK c \in Copies : /\ pc[e] = (IF c = "second" THEN "store second" ELSE "store first")
                          /\ copies' = [copies EXCEPT ![e][c][p] = Split(own[e])[p]]
  BY DEF StorePart
<1>3. /\ UNCHANGED <<low, own, pc, loaded, budget>> /\ todo' = [todo EXCEPT ![e] = @ \ {p}]
      /\ Exact(e)' = Exact(e) /\ Exact(o)' = Exact(o)
  BY DEF StorePart, AccessPart, Exact
<1>4. todo'[o] = todo[o] /\ ~Counting(e)'
  BY <1>1, <1>2, <1>3 DEF TornTypeOK, Counting
<1>5. copies'[o] = copies[o]
  BY <1>1, <1>2 DEF TornTypeOK
<1>6. LagInv(e) /\ LagInv(o)
  OBVIOUS
<1>7. LagInv(e)'
  BY <1>1, <1>3, <1>4, <1>5, <1>6, Zenon DEF LagInv
<1>8. LoadedOfSecond(o)' = LoadedOfSecond(o) /\ (Counting(o)' <=> Counting(o))
  BY <1>3, <1>4 DEF LoadedOfSecond, Counting
<1>9. own[e] \in Offsets /\ own[o] \in Offsets
  BY DEF TornTypeOK
<1>10. Split(own[e])["low"] = own[e] /\ Split(own[e])["high"] = 0
  BY <1>9, LowPartIsAll
<1>11. CASE c = "first" \/ p = "high"
  <2>1. copies[e] \in [Copies -> [Parts -> Nat]] /\ copies'[e] = [copies[e] EXCEPT ![c][p] = Split(own[e])[p]]
    BY <1>2 DEF TornTypeOK
  <2>2. copies[e]["second"] \in [Parts -> Nat]
    BY <2>1 DEF Copies
  <2>3. CASE c = "first"
    <3>1. copies'[e]["second"] = copies[e]["second"]
      BY <2>1, <2>3 DEF Copies
    <3> QED
      BY <1>1, <1>3, <1>6, <1>7, <1>8, <3>1, Zenon DEF LagInv
  <2>4. CASE c = "second" /\ p = "high"
    <3>1. copies'[e]["second"] = [copies[e]["second"] EXCEPT !["high"] = 0]
      BY <1>10, <2>1, <2>4
    <3>2. /\ copies'[e]["second"]["high"] = 0
          /\ copies'[e]["second"]["low"] = copies[e]["second"]["low"]
      BY <2>2, <3>1 DEF Parts
    <3> QED
      BY <1>1, <1>3, <1>6, <1>7, <1>8, <3>2, Zenon DEF LagInv
  <2> QED
    BY <1>11, <2>3, <2>4 DEF Copies
<1>12. CASE c = "second" /\ p = "low"
  <2>1. copies[e] \in [Copies -> [Parts -> Nat]] /\ copies'[e] = [copies[e] EXCEPT !["second"]["low"] = own[e]]
    BY <1>2, <1>10, <1>12 DEF TornTypeOK
  <2>2. copies[e]["second"] \in [Parts -> Nat]
    BY <2>1 DEF Copies
  <2>3. copies'[e]["second"] = [copies[e]["second"] EXCEPT !["low"] = own[e]]
    BY <2>1 DEF Copies
  <2>4. /\ copies'[e]["second"]["low"] = own[e]
        /\ copies'[e]["second"]["high"] = copies[e]["second"]["high"]
    BY <2>2, <2>3 DEF Parts
  <2>5. CountOf(o, own[o], own[e]) = Exact(o)
    BY <1>1, Zenon DEF Exact
  <2>6. budget[o] <= Exact(o) /\ Exact(o) <= Exact(o)
    BY <1>6, LagNumbers, NotMoreThanItself, Zenon
  <2>7. ASSUME Counting(o), "low" \in LoadedOfSecond(o)
        PROVE  CountOf(o, own[o], loaded[o]["second"]["low"]) <= Exact(o)
    <3>1. PICK v \in Offsets, w \in Offsets :
            v = loaded[o]["second"]["low"] /\ w = copies[e]["second"]["low"]
      BY <1>1, <1>6, <2>7, Zenon DEF LagInv
    <3>2. CountOf(o, own[o], v) \in Nat /\ CountOf(o, own[o], w) \in Nat
      BY <1>9, CountType
    <3>3. Exact(o) \in Nat
      BY <1>6, LagNumbers, Zenon
    <3>4. CountOf(o, own[o], v) <= CountOf(o, own[o], w) /\ CountOf(o, own[o], w) <= Exact(o)
      BY <1>1, <1>6, <2>7, <3>1, Zenon DEF LagInv
    <3> QED
      BY <3>1, <3>2, <3>3, <3>4
  <2>8. LagInv(o)'
    BY <1>1, <1>3, <1>6, <1>8, <1>9, <2>4, <2>5, <2>6, <2>7, Zenon DEF LagInv
  <2> QED
    BY <1>1, <1>7, <2>8
<1> QED
  BY <1>11, <1>12 DEF Copies, Parts

\* A copy is stored.
LEMMA StoredLags ==
  ASSUME TornTypeOK, \A x \in Ends : LagInv(x), NEW e \in Ends, Stored(e)
  PROVE  \A x \in Ends : LagInv(x)'
<1>1. PICK o \in Ends : o = Other(e) /\ o # e
  BY TwoEnds
<1>2. UNCHANGED <<low, copies, own, loaded, budget>> /\ Exact(e)' = Exact(e)
  BY DEF Stored, Exact
<1>3. pc'[o] = pc[o] /\ todo'[o] = todo[o] /\ pc'[e] \in {"store second", "idle"}
  BY <1>1 DEF Stored, Access, TornTypeOK
<1>4. ~Counting(e)'
  BY <1>3 DEF Counting
<1>5. LagInv(e)
  OBVIOUS
<1>6. LagInv(e)'
  BY <1>2, <1>4, <1>5, Zenon DEF LagInv
<1> QED
  BY <1>1, <1>2, <1>3, <1>6, QuietStepLags

\* An advance begins.
LEMMA AdvanceLags ==
  ASSUME TornTypeOK, \A x \in Ends : LagInv(x), NEW e \in Ends, NEW n \in 1 .. budget[e],
         BeginAdvance(e, n)
  PROVE  \A x \in Ends : LagInv(x)'
<1>1. PICK o \in Ends : o = Other(e) /\ o # e /\ Other(o) = e /\ \A x \in Ends : x = e \/ x = o
  BY TwoEnds
<1>2. /\ own' = [own EXCEPT ![e] = Advance(@, n)] /\ n <= EffectiveBufferSize - own[e]
      /\ budget' = [budget EXCEPT ![e] = @ - n]
      /\ pc' = [pc EXCEPT ![e] = "store first"] /\ todo' = [todo EXCEPT ![e] = Parts]
      /\ UNCHANGED <<low, copies, loaded>>
  BY DEF BeginAdvance, Access
<1>3. /\ pc'[e] = "store first" /\ pc'[o] = pc[o] /\ todo'[o] = todo[o]
      /\ budget'[e] = budget[e] - n /\ budget'[o] = budget[o]
  BY <1>1, <1>2 DEF TornTypeOK
<1>4. LagInv(e) /\ LagInv(o)
  OBVIOUS
<1>5. PICK v \in Offsets : v = copies[o]["second"]["low"]
  BY <1>1, <1>4, Zenon DEF LagInv
<1>6. PICK k \in Nat : k = CountOf(e, own[e], v) /\ budget[e] \in Nat
                       /\ budget[e] <= k /\ k <= Exact(e) /\ Exact(e) \in Nat
  BY <1>1, <1>4, <1>5, LagNumbers, Zenon
<1>7. n \in Nat /\ n <= budget[e] /\ n <= k /\ n <= Exact(e)
  BY <1>6
<1>8. own \in [Ends -> Offsets]
  BY DEF TornTypeOK
<1>9. PICK b \in Offsets : /\ b = Advance(own[e], n) /\ own'[e] = b /\ own'[o] = own[o]
                          /\ own[e] + n <= EffectiveBufferSize
                          /\ Exact(e)' = Exact(e) - n /\ Exact(o)' = Exact(o) + n
  BY <1>1, <1>2, <1>7, <1>8, AdvanceMoves
<1>10. CountOf(e, b, v) = k - n
  BY <1>5, <1>6, <1>7, <1>8, <1>9, CountShrinks
<1>11. budget[e] - n <= k - n /\ k - n <= Exact(e) - n
  BY <1>6, <1>7
<1>12. ~Counting(e)'
  BY <1>3 DEF Counting
<1>13. LagInv(e)'
  <2>1. budget'[e] <= CountOf(e, own'[e], v) /\ CountOf(e, own'[e], v) <= Exact(e)'
    BY <1>3, <1>9, <1>10, <1>11, Zenon
  <2>2. copies'[Other(e)]["second"]["high"] = 0 /\ copies'[Other(e)]["second"]["low"] = v
    BY <1>1, <1>2, <1>4, <1>5, Zenon DEF LagInv
  <2> QED
    BY <1>12, <2>1, <2>2, Zenon DEF LagInv
<1>14. LagInv(o)'
  <2>1. LoadedOfSecond(o)' = LoadedOfSecond(o) /\ (Counting(o)' <=> Counting(o))
    BY <1>3 DEF LoadedOfSecond, Counting
  <2>2. CountOf(o, own[o], copies[e]["second"]["low"]) <= Exact(o)'
    <3>1. PICK w \in Nat : w = CountOf(o, own[o], copies[e]["second"]["low"]) /\ w <= Exact(o)
                            /\ Exact(o) \in Nat
      BY <1>1, <1>4, LagNumbers, Zenon
    <3> QED
      BY <1>7, <1>9, <3>1
  <2> QED
    BY <1>1, <1>2, <1>3, <1>4, <1>9, <2>1, <2>2, Zenon DEF LagInv
<1> QED
  BY <1>1, <1>13, <1>14

\* A step that only watches.
LEMMA LagStutters ==
  ASSUME \A x \in Ends : LagInv(x), UNCHANGED tornVars
  PROVE  \A x \in Ends : LagInv(x)'
<1>1. UNCHANGED <<low, copies, own, pc, todo, loaded, budget>>
  BY DEF tornVars
<1> SUFFICES ASSUME NEW e \in Ends
             PROVE  LagInv(e)'
  OBVIOUS
<1>2. Exact(e)' = Exact(e) /\ LoadedOfSecond(e)' = LoadedOfSecond(e)
  BY <1>1 DEF Exact, LoadedOfSecond
<1>3. LagInv(e)
  OBVIOUS
<1> QED
  BY <1>1, <1>2, <1>3, Zenon DEF LagInv, Counting

\* Every step keeps all of this.
LEMMA LagStep ==
  ASSUME TornTypeOK, ~Divided, \A x \in Ends : LagInv(x), [TornNext]_tornVars
  PROVE  \A x \in Ends : LagInv(x)'
<1>1. CASE UNCHANGED tornVars
  BY <1>1, LagStutters
<1>2. CASE TornNext
  <2>1. PICK e \in Ends :
          \/ BeginCount(e) \/ LoadFirst(e) \/ Compare(e) \/ Stored(e)
          \/ \E n \in 1 .. budget[e] : BeginAdvance(e, n)
          \/ \E p \in Parts : LoadPart(e, p) \/ StorePart(e, p)
    BY <1>2 DEF TornNext
  <2>2. CASE BeginCount(e) \/ LoadFirst(e) \/ Compare(e)
    BY <2>2, CountLags
  <2>3. CASE Stored(e)
    BY <2>3, StoredLags
  <2>4. ASSUME NEW n \in 1 .. budget[e], BeginAdvance(e, n)
        PROVE  \A x \in Ends : LagInv(x)'
    BY <2>4, AdvanceLags
  <2>5. ASSUME NEW p \in Parts, LoadPart(e, p)
        PROVE  \A x \in Ends : LagInv(x)'
    BY <2>5, LoadLags
  <2>6. ASSUME NEW p \in Parts, StorePart(e, p)
        PROVE  \A x \in Ends : LagInv(x)'
    BY <2>6, StoreLags
  <2> QED
    BY <2>1, <2>2, <2>3, <2>4, <2>5, <2>6
<1> QED
  BY <1>1, <1>2

-----------------------------------------------------------------------------
(* TornPointer: the theorems.                                              *)

\* At first nothing is in flight, and both ends know it.
LEMMA TornBegins ==
  ASSUME TornInit
  PROVE  TornTypeOK /\ TornInv
<1>1. 0 \in Offsets
  BY Size DEF Offsets
<1>2. low \in Nat \ {0} /\ low \in Lows
  BY TornAssumption DEF TornInit
<1>3. Split(0) \in [Parts -> Nat]
  BY <1>2, WholeOfSplit
<1>4. TornTypeOK
  <2>1. copies \in [Ends -> [Copies -> [Parts -> Nat]]] /\ loaded \in [Ends -> [Copies -> [Parts -> Nat]]]
    BY <1>3 DEF TornInit, NothingLoaded
  <2>2. own \in [Ends -> Offsets]
    BY <1>1 DEF TornInit
  <2>3. /\ pc \in [Ends -> {"idle", "load second", "load first", "store first", "store second"}]
        /\ todo \in [Ends -> SUBSET Parts]
    BY DEF TornInit
  <2>4. budget \in [Ends -> Nat] /\ overlaps \in [Ends -> 0 .. 2]
    BY DEF TornInit
  <2> QED
    BY <1>2, <2>1, <2>2, <2>3, <2>4 DEF TornTypeOK
<1>5. ASSUME NEW e \in Ends
      PROVE  /\ budget[e] <= Exact(e) /\ CopiesInv(e) /\ TurnInv(e)
             /\ ~Divided => LagInv(e)
  <2>1. PICK o \in Ends : o = Other(e)
    BY TwoEnds
  <2>2. own[e] = 0 /\ own[o] = 0 /\ pc[e] = "idle" /\ budget[e] = 0
    BY DEF TornInit
  <2>3. \A x \in Ends : copies[x]["first"] = Split(0) /\ copies[x]["second"] = Split(0)
    BY DEF TornInit, Copies
  <2>4. Exact(e) = CountOf(e, own[e], 0) /\ Exact(e) \in Nat
    BY <1>1, <2>1, <2>2, CountType DEF Exact
  <2>5. budget[e] <= Exact(e) /\ Exact(e) <= Exact(e)
    BY <2>2, <2>4
  <2>6. CopiesInv(e)
    BY <2>2, <2>3 DEF CopiesInv
  <2>7. ~Counting(e)
    BY <2>2 DEF Counting
  <2>8. TurnInv(e)
    BY <2>7 DEF TurnInv
  <2>9. ASSUME ~Divided
        PROVE  LagInv(e)
    <3>1. Split(0)["low"] = 0 /\ Split(0)["high"] = 0
      BY <1>1, <1>4, <2>9, LowPartIsAll
    <3>2. /\ copies[Other(e)]["second"]["high"] = 0
          /\ copies[Other(e)]["second"]["low"] = 0
      BY <2>1, <2>3, <3>1, Zenon
    <3>3. budget[e] <= CountOf(e, own[e], 0) /\ CountOf(e, own[e], 0) <= Exact(e)
      BY <2>4, <2>5, Zenon
    <3> QED
      BY <1>1, <2>7, <3>2, <3>3, Zenon DEF LagInv
  <2> QED
    BY <2>5, <2>6, <2>8, <2>9
<1> QED
  BY <1>4, <1>5 DEF DividedInv, TornInv

\* Type correctness of the torn pointers, whatever is counted.
THEOREM TornTypes == TornSpec => []TornTypeOK
<1>1. TornTypeOK /\ [TornNext]_tornVars => TornTypeOK'
  <2>1. TornTypeOK /\ UNCHANGED tornVars => TornTypeOK'
    BY DEF TornTypeOK, tornVars
  <2> QED
    BY <2>1, TornTypeStep
<1> QED
  BY <1>1, TornBegins, PTL DEF TornSpec

\* The inductive invariant of the torn pointers, for any ring, any place where a pointer
\* can divide and any schedule.  Inside the ring: what each copy may hold while an end
\* stores its pointer and what a count may have loaded of them, up to the first doubtful
\* count.  Beyond it (a 32-bit build): that the second copy and what is loaded of it lag.
THEOREM TornInvariant == TornSpec => []TornInv
<1>1. TornTypeOK /\ TornTypeOK' /\ TornInv /\ [TornNext]_tornVars => TornInv'
  <2> SUFFICES ASSUME TornTypeOK, TornTypeOK', TornInv, [TornNext]_tornVars
               PROVE  TornInv'
    OBVIOUS
  <2>1. low' = low /\ (doubtful => doubtful')
    <3>1. CASE UNCHANGED tornVars
      BY <3>1 DEF tornVars
    <3>2. CASE TornNext
      <4>1. PICK e \in Ends :
              \/ BeginCount(e) \/ LoadFirst(e) \/ Compare(e) \/ Stored(e)
              \/ \E n \in 1 .. budget[e] : BeginAdvance(e, n)
              \/ \E p \in Parts : LoadPart(e, p) \/ StorePart(e, p)
        BY <3>2, Zenon DEF TornNext
      <4>2. CASE BeginCount(e)
        BY <4>2, Zenon DEF BeginCount
      <4>3. CASE LoadFirst(e)
        BY <4>3, Zenon DEF LoadFirst
      <4>4. CASE Compare(e)
        BY <4>4, Zenon DEF Compare
      <4>5. CASE Stored(e)
        BY <4>5, Zenon DEF Stored
      <4>6. CASE \E n \in 1 .. budget[e] : BeginAdvance(e, n)
        <5>1. PICK n \in 1 .. budget[e] : BeginAdvance(e, n)
          BY <4>6
        <5> QED
          BY <5>1, Zenon DEF BeginAdvance
      <4>7. CASE \E p \in Parts : LoadPart(e, p) \/ StorePart(e, p)
        <5>1. PICK p \in Parts : LoadPart(e, p) \/ StorePart(e, p)
          BY <4>7
        <5>2. CASE LoadPart(e, p)
          BY <5>2, Zenon DEF LoadPart
        <5>3. CASE StorePart(e, p)
          BY <5>3, Zenon DEF StorePart
        <5> QED
          BY <5>1, <5>2, <5>3
      <4> QED
        BY <4>1, <4>2, <4>3, <4>4, <4>5, <4>6, <4>7
    <3> QED
      BY <3>1, <3>2
  <2>2. Divided' <=> Divided
    BY <2>1 DEF Divided
  <2>3. CASE Divided /\ doubtful
    BY <2>1, <2>2, <2>3 DEF TornInv
  <2>4. CASE Divided /\ ~doubtful
    <3>1. DividedInv
      BY <2>4 DEF TornInv
    <3> QED
      BY <2>2, <2>4, <3>1, DividedStep DEF TornInv
  <2>5. CASE ~Divided
    <3>1. \A x \in Ends : LagInv(x)
      BY <2>5 DEF TornInv
    <3>2. \A x \in Ends : LagInv(x)'
      BY <2>5, <3>1, LagStep
    <3>3. ~Divided'
      BY <2>2, <2>5
    <3> QED
      BY <3>2, <3>3, Zenon DEF TornInv
  <2> QED
    BY <2>3, <2>4, <2>5
<1> QED
  BY <1>1, TornBegins, TornTypes, PTL DEF TornSpec

\* What follows of the counts.
LEMMA TornCounts ==
  ASSUME TornTypeOK, TornInv
  PROVE  (Divided /\ doubtful) \/ \A e \in Ends : budget[e] <= Exact(e)
<1>1. CASE Divided
  BY <1>1 DEF TornInv, DividedInv
<1>2. CASE ~Divided
  <2>1. \A e \in Ends : LagInv(e)
    BY <1>2 DEF TornInv
  <2> QED
    BY <2>1, LagNumbers, Zenon
<1> QED
  BY <1>1, <1>2

\* A count promises more bytes than there are only after one was accepted, of pointers that
\* divide inside the ring, in a turn that met two advances: for every ring, every
\* division and every schedule of loads and stores.
THEOREM TornCountsAreSafe == TornSpec => []TornCountIsSafe
<1>1. TornTypeOK /\ TornInv => TornCountIsSafe
  BY TornCounts DEF TornCountIsSafe
<1> QED
  BY <1>1, TornTypes, TornInvariant, PTL

\* A 32-bit build, which loads and stores a pointer in two halves, never counts too much
\* in a ring that the lower half can address, however many advances a turn meets.
THEOREM HalvesAreSafe ==
  ASSUME \A l \in Lows : l >= EffectiveBufferSize
  PROVE  TornSpec => [](\A e \in Ends : budget[e] <= Exact(e))
<1>0. \A l \in Lows : l \in Nat /\ l >= EffectiveBufferSize
  BY TornAssumption
<1>1. TornTypeOK => ~Divided
  <2>1. SUFFICES ASSUME TornTypeOK
                 PROVE  ~Divided
    OBVIOUS
  <2>2. low \in Lows
    BY <2>1 DEF TornTypeOK
  <2>3. low \in Nat /\ low >= EffectiveBufferSize
    BY <1>0, <2>2
  <2> QED
    BY <2>3, Size DEF Divided
<1>2. TornTypeOK /\ TornInv => \A e \in Ends : budget[e] <= Exact(e)
  BY <1>1, TornCounts
<1> QED
  BY <1>2, TornTypes, TornInvariant, PTL
=============================================================================
