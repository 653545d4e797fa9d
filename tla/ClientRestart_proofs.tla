------------------------- MODULE ClientRestart_proofs -------------------------
(***************************************************************************)
(* Proofs about a client that ends and starts again, for any size of the   *)
(* ring and any number of restarts.                                        *)
(*                                                                         *)
(* The invariant of CircularBuffer survives the end of either process at   *)
(* any step, because it never asks that the two copies of a pointer agree: *)
(* a second copy that was left behind is on the safe side.  So the ring    *)
(* the client reads stays a FIFO stream across its restarts, and so does   *)
(* what the server reads of a client that is gone.  Only the constructor   *)
(* gives the invariant up; its last store restores it.                     *)
(***************************************************************************)
EXTENDS ClientRestart, CircularBuffer_proofs

-----------------------------------------------------------------------------
(* A process ends.                                                         *)

\* The first state is that of a new ring.
LEMMA RestartInitInv == RestartInit => RestartInv
<1> SUFFICES ASSUME RestartInit PROVE RestartInv
  OBVIOUS
<1>1. RingInv
  BY RingInvInit DEF RestartInit
<1> QED
  BY <1>1 DEF RestartInit, BufferInit, RestartInv, GoodAsNew, CopiesAgree, Attaching

\* The reader ends: what it had copied and not given back is in the ring still.
LEMMA ReaderEndKeeps ==
  ASSUME RingInv, RestartReader
  PROVE  RingInv'
<1>1. /\ rpc' = "idle" /\ rsnap' = 0 /\ availableBytes' = 0
      /\ rseg' = 0 /\ rrest' = 0 /\ rtodo' = {} /\ roff' = 0
      /\ rstart' = rcvd /\ rcvd' = rcvd
      /\ UNCHANGED <<mem, producer, secondProducer, consumer, secondConsumer, wpc, wsnap,
                     freeBytes, wseg, wrest, wtodo, woff, wstart, sent>>
  BY DEF RestartReader, sharedVars, writerVars
<1>0. DOMAIN sink' = {} /\ sink' \in [DOMAIN sink' -> Int]
  BY DEF RestartReader, EmptySink
<1>2. 0 \in Offsets
  BY RingSize DEF Offsets
<1>3. TypeOK'
  BY <1>0, <1>1, <1>2 DEF RingInv, TypeOK, PC
<1>4. /\ sentSecond' = sentSecond /\ rcvdSecond' = rcvdSecond
      /\ writePending' = writePending /\ readPending' = 0
  BY <1>1 DEF sentSecond, rcvdSecond, writePending, readPending, Ahead
<1>5. PointersFollowStream' /\ SnapshotsAreBehind'
  BY <1>1, <1>4 DEF RingInv, PointersFollowStream, SnapshotsAreBehind, Ahead
<1>6. BudgetsFit'
  <2>1. BudgetsFit
    BY DEF RingInv
  <2> QED
    BY <1>1, <1>4, <2>1, NumbersAreInts, RingSize DEF BudgetsFit
<1>7. SegmentsEndAtWraparound' /\ SegmentsFollowStream'
  BY <1>1, NumbersAreInts DEF RingInv, SegmentsEndAtWraparound, SegmentsFollowStream
<1>8. CellsHoldStream'
  BY <1>1 DEF RingInv, CellsHoldStream, Ahead
<1>9. SinkHoldsStream'
  <2>1. 0 .. rcvd' - rstart' - 1 = {}
    BY <1>1, NumbersAreInts
  <2> QED
    BY <1>0, <1>1, <2>1 DEF SinkHoldsStream
<1> QED
  BY <1>3, <1>5, <1>6, <1>7, <1>8, <1>9 DEF RingInv

\* The writer ends: what it had copied and not published was not promised to anyone.
LEMMA WriterEndKeeps ==
  ASSUME RingInv, RestartWriter
  PROVE  RingInv'
<1>1. /\ wpc' = "idle" /\ wsnap' = 0 /\ freeBytes' = 0
      /\ wseg' = 0 /\ wrest' = 0 /\ wtodo' = {} /\ woff' = 0
      /\ UNCHANGED <<mem, producer, secondProducer, consumer, secondConsumer, wstart, sent,
                     rpc, rsnap, availableBytes, rseg, rrest, rtodo, roff, rstart, sink, rcvd>>
  BY DEF RestartWriter, sharedVars, readerVars
<1>2. 0 \in Offsets
  BY RingSize DEF Offsets
<1>3. TypeOK'
  BY <1>1, <1>2 DEF RingInv, TypeOK, PC
<1>4. /\ sentSecond' = sentSecond /\ rcvdSecond' = rcvdSecond
      /\ writePending' = 0 /\ readPending' = readPending
  BY <1>1 DEF sentSecond, rcvdSecond, writePending, readPending, Ahead
<1>5. PointersFollowStream' /\ SnapshotsAreBehind'
  BY <1>1, <1>4 DEF RingInv, PointersFollowStream, SnapshotsAreBehind, Ahead
<1>6. BudgetsFit'
  <2>1. BudgetsFit
    BY DEF RingInv
  <2> QED
    BY <1>1, <1>4, <2>1, NumbersAreInts, RingSize DEF BudgetsFit
<1>7. SegmentsEndAtWraparound' /\ SegmentsFollowStream'
  BY <1>1, NumbersAreInts DEF RingInv, SegmentsEndAtWraparound, SegmentsFollowStream
<1>8. CellsHoldStream' /\ SinkHoldsStream'
  BY <1>1 DEF RingInv, CellsHoldStream, SinkHoldsStream, Ahead
<1> QED
  BY <1>3, <1>5, <1>6, <1>7, <1>8 DEF RingInv

\* The server's call ends: without a count RingInv asks less.
LEMMA CallEndKeeps ==
  ASSUME RingInv, EndCall
  PROVE  RingInv'
<1>1. /\ rpc = "idle" /\ rpc' = "idle" /\ availableBytes' = 0
      /\ UNCHANGED <<mem, producer, secondProducer, consumer, secondConsumer, wpc, wsnap,
                     freeBytes, wseg, wrest, wtodo, woff, wstart, sent,
                     rsnap, rseg, rrest, rtodo, roff, rstart, sink, rcvd>>
  BY DEF EndCall, sharedVars, writerVars
<1>2. 0 \in Offsets
  BY RingSize DEF Offsets
<1>3. TypeOK'
  BY <1>1, <1>2 DEF RingInv, TypeOK
<1>4. /\ sentSecond' = sentSecond /\ rcvdSecond' = rcvdSecond
      /\ writePending' = writePending /\ readPending' = 0
  BY <1>1 DEF sentSecond, rcvdSecond, writePending, readPending, Ahead
<1>5. PointersFollowStream' /\ SnapshotsAreBehind'
  BY <1>1, <1>4 DEF RingInv, PointersFollowStream, SnapshotsAreBehind, Ahead
<1>6. BudgetsFit'
  BY <1>1, <1>4, NumbersAreInts, RingSize DEF RingInv, BudgetsFit
<1>7. SegmentsEndAtWraparound' /\ SegmentsFollowStream'
  BY <1>1 DEF RingInv, SegmentsEndAtWraparound, SegmentsFollowStream
<1>8. CellsHoldStream' /\ SinkHoldsStream'
  BY <1>1 DEF RingInv, CellsHoldStream, SinkHoldsStream, Ahead
<1> QED
  BY <1>3, <1>5, <1>6, <1>7, <1>8 DEF RingInv

-----------------------------------------------------------------------------
(* The steps while no constructor runs.                                    *)

\* With both ends in use, or one, the invariant is the buffer's.
LEMMA InUseKeeps ==
  ASSUME RestartInv, BufferNext, UNCHANGED client, client \in {"reads", "attached"}
  PROVE  RestartInv'
<1>1. RingInv'
  BY RingInvStep DEF RestartInv, Attaching
<1>2. client = "attached" => CopiesAgree'
  BY CopiesAgreeStep DEF RestartInv, GoodAsNew
<1> QED
  BY <1>1, <1>2 DEF RestartInv, GoodAsNew, Attaching

\* Without a client the server's steps are those of any reader.
LEMMA ReadWithoutWriterKeeps ==
  ASSUME RestartInv, ReadWithoutWriter
  PROVE  RestartInv'
<1>1. client = "gone" /\ client' = "gone" /\ BufferNext /\ UNCHANGED writerVars
  BY DEF ReadWithoutWriter
<1>2. RingInv'
  BY <1>1, RingInvStep DEF RestartInv, Attaching
<1> QED
  BY <1>1, <1>2 DEF RestartInv, GoodAsNew, WriterIsNew, Attaching, writerVars

LEMMA EndCallKeeps ==
  ASSUME RestartInv, EndCall
  PROVE  RestartInv'
<1>1. client \in {"gone", "attached"} /\ client' = client
      /\ UNCHANGED <<sharedVars, writerVars>> /\ rpc = "idle" /\ rpc' = "idle"
  BY DEF EndCall
<1>2. RingInv'
  BY <1>1, CallEndKeeps DEF RestartInv, Attaching
<1> QED
  BY <1>1, <1>2 DEF RestartInv, GoodAsNew, CopiesAgree, WriterIsNew, Attaching, sharedVars, writerVars

LEMMA RestartReaderKeeps ==
  ASSUME RestartInv, RestartReader
  PROVE  RestartInv'
<1>1. client = "reads" /\ client' = "reads"
  BY DEF RestartReader
<1>2. RingInv'
  BY <1>1, ReaderEndKeeps DEF RestartInv, Attaching
<1> QED
  BY <1>1, <1>2 DEF RestartInv, GoodAsNew, Attaching

-----------------------------------------------------------------------------
(* A client attaches.                                                      *)

\* A client that ends in the constructor has stored some zeros; the next one begins
\* at the first.  One that ends anywhere else leaves the ring as its server needs it.
LEMMA RestartWriterKeeps ==
  ASSUME RestartInv, RestartWriter
  PROVE  RestartInv'
<1>1. WriterIsNew'
  BY DEF RestartWriter, WriterIsNew
<1>2. CASE client \in Attaching
  <2>1. client' = "producer" /\ UNCHANGED <<sharedVars, readerVars>> /\ ConstructorInv
    BY <1>2 DEF RestartWriter, RestartInv
  <2>2. ConstructorInv'
    BY <2>1 DEF ConstructorInv, ReaderIsQuiet, DeliveredInOrder, sharedVars, readerVars
  <2> QED
    BY <1>1, <2>1, <2>2 DEF RestartInv, GoodAsNew, Attaching
<1>3. CASE client \notin Attaching
  <2>1. client' = "gone" /\ RingInv
    BY <1>3 DEF RestartWriter, RestartInv
  <2>2. RingInv'
    BY <2>1, WriterEndKeeps
  <2> QED
    BY <1>1, <2>1, <2>2 DEF RestartInv, GoodAsNew, Attaching
<1> QED
  BY <1>2, <1>3

\* The first store of the constructor: from here on only the types are left.
LEMMA ZeroProducerKeeps ==
  ASSUME RestartInv, ZeroProducer
  PROVE  RestartInv'
<1>1. /\ client \in {"gone", "producer"} /\ client' = "secondProducer" /\ producer' = 0
      /\ UNCHANGED <<mem, secondProducer, consumer, secondConsumer, writerVars, readerVars>>
  BY DEF ZeroProducer
<1>2. /\ ReaderIsQuiet /\ DeliveredInOrder
      /\ secondProducer \in Offsets /\ consumer \in Offsets /\ secondConsumer \in Offsets
      /\ rsnap \in Offsets /\ rseg \in Nat /\ rrest \in Nat /\ roff \in Nat
      /\ rtodo \subseteq 0 .. rseg - 1 /\ rcvd \in Nat
  <2>1. CASE client = "gone"
    <3>1. ReaderIsQuiet /\ RingInv
      BY <2>1 DEF ZeroProducer, RestartInv, Attaching
    <3>2. DeliveredInOrder
      BY <3>1 DEF RingInv, SinkHoldsStream, DeliveredInOrder
    <3> QED
      BY <3>1, <3>2 DEF RingInv, TypeOK
  <2>2. CASE client = "producer"
    BY <2>2 DEF RestartInv, ConstructorInv, Attaching
  <2> QED
    BY <1>1, <2>1, <2>2
<1>3. ConstructorInv'
  <2>1. 0 \in Offsets
    BY RingSize DEF Offsets
  <2> QED
    BY <1>1, <1>2, <2>1 DEF ConstructorInv, ReaderIsQuiet, DeliveredInOrder, readerVars
<1>4. WriterIsNew'
  BY <1>1 DEF RestartInv, WriterIsNew, Attaching, writerVars
<1> QED
  BY <1>1, <1>3, <1>4 DEF RestartInv, GoodAsNew, Attaching

\* The next two.
LEMMA ConstructorKeeps ==
  ASSUME RestartInv, ZeroSecondProducer \/ ZeroConsumer
  PROVE  RestartInv'
<1>1. 0 \in Offsets
  BY RingSize DEF Offsets
<1>2. ConstructorInv /\ WriterIsNew /\ client \in {"secondProducer", "consumer"}
  BY DEF ZeroSecondProducer, ZeroConsumer, RestartInv, Attaching
<1>3. ConstructorInv'
  <2>1. CASE ZeroSecondProducer
    BY <1>1, <1>2, <2>1 DEF ZeroSecondProducer, ConstructorInv, ReaderIsQuiet, DeliveredInOrder,
       readerVars
  <2>2. CASE ZeroConsumer
    BY <1>1, <1>2, <2>2 DEF ZeroConsumer, ConstructorInv, ReaderIsQuiet, DeliveredInOrder, readerVars
  <2> QED
    BY <2>1, <2>2
<1>4. WriterIsNew' /\ client' \in {"consumer", "secondConsumer"}
  BY <1>2 DEF ZeroSecondProducer, ZeroConsumer, WriterIsNew, writerVars
<1> QED
  BY <1>3, <1>4 DEF RestartInv, GoodAsNew, Attaching

\* The last one leaves a ring as good as new.
LEMMA ZeroSecondConsumerKeeps ==
  ASSUME RestartInv, ZeroSecondConsumer
  PROVE  RestartInv'
<1>1. 0 \in Offsets
  BY RingSize DEF Offsets
<1>2. /\ client' = "attached" /\ mem' = [i \in Offsets |-> NoByte]
      /\ producer' = 0 /\ secondProducer' = 0 /\ consumer' = 0 /\ secondConsumer' = 0
      /\ wpc' = "idle" /\ wsnap' = 0 /\ freeBytes' = 0
      /\ wseg' = 0 /\ wrest' = 0 /\ wtodo' = {} /\ woff' = 0 /\ wstart' = 0 /\ sent' = 0
      /\ rpc' = "idle" /\ availableBytes' = 0
      /\ rstart' = 0 /\ sink' = EmptySink /\ rcvd' = 0
      /\ UNCHANGED <<rsnap, rseg, rrest, roff, rtodo>>
  BY DEF ZeroSecondConsumer, NewStream, RestartInv, ConstructorInv, WriterIsNew, ReaderIsQuiet,
     Attaching
<1>3. /\ rsnap' \in Offsets /\ rseg' \in Nat /\ rrest' \in Nat /\ roff' \in Nat
      /\ rtodo' \subseteq 0 .. rseg' - 1
  <2>1. ConstructorInv
    BY DEF ZeroSecondConsumer, RestartInv, Attaching
  <2> QED
    BY <1>2, <2>1 DEF ConstructorInv
<1>4. DOMAIN sink' = {} /\ sink' \in [DOMAIN sink' -> Int]
  BY <1>2 DEF EmptySink
<1>5. TypeOK'
  BY <1>1, <1>2, <1>3, <1>4, MaxBytesAssumption DEF TypeOK, PC, NoByte
<1>6. Ahead(0, 0) = 0
  BY <1>1, AheadSelf
<1>7. sentSecond' = 0 /\ rcvdSecond' = 0 /\ writePending' = 0 /\ readPending' = 0
  BY <1>2, <1>6 DEF sentSecond, rcvdSecond, writePending, readPending, Ahead
<1>8. (PointersFollowStream /\ SnapshotsAreBehind)'
  BY <1>2, <1>6, <1>7 DEF PointersFollowStream, SnapshotsAreBehind, Ahead
<1>9. BudgetsFit'
  BY <1>2, <1>7, RingSize, MaxBytesAssumption DEF BudgetsFit
<1>10. (SegmentsEndAtWraparound /\ SegmentsFollowStream)'
  BY <1>2 DEF SegmentsEndAtWraparound, SegmentsFollowStream
<1>11. CellsHoldStream'
  <2>1. ASSUME NEW i \in Offsets PROVE ~(Ahead(consumer, i)' < (sent - rcvd)')
    <3>1. Ahead(0, i) \in Offsets
      BY <1>1, AheadType
    <3> QED
      BY <1>2, <3>1 DEF Offsets, Ahead
  <2> QED
    BY <1>2, <2>1 DEF CellsHoldStream
<1>12. SinkHoldsStream'
  BY <1>2, <1>4 DEF SinkHoldsStream
<1>13. RingInv' /\ CopiesAgree'
  BY <1>2, <1>5, <1>8, <1>9, <1>10, <1>11, <1>12 DEF RingInv, CopiesAgree
<1> QED
  BY <1>2, <1>13 DEF RestartInv, GoodAsNew, Attaching

-----------------------------------------------------------------------------
(* The theorems.                                                           *)

LEMMA RestartStep == RestartInv /\ [RestartNext]_restartVars => RestartInv'
<1> SUFFICES ASSUME RestartInv, [RestartNext]_restartVars PROVE RestartInv'
  OBVIOUS
<1>1. CASE UNCHANGED restartVars
  <2>1. UNCHANGED bufferVars /\ client' = client
    BY <1>1 DEF restartVars
  <2>2. client \notin Attaching => RingInv'
    BY <2>1, RingInvStep DEF RestartInv
  <2>3. client = "attached" => CopiesAgree'
    BY <2>1, CopiesAgreeStep DEF RestartInv, GoodAsNew
  <2>4. ConstructorInv' = ConstructorInv /\ WriterIsNew' = WriterIsNew
    BY <2>1 DEF ConstructorInv, WriterIsNew, ReaderIsQuiet, DeliveredInOrder, bufferVars,
       sharedVars, writerVars, readerVars
  <2> QED
    BY <2>1, <2>2, <2>3, <2>4 DEF RestartInv, GoodAsNew, Attaching
<1>2. CASE RestartNext
  BY <1>2, InUseKeeps, ReadWithoutWriterKeeps, EndCallKeeps, RestartReaderKeeps, RestartWriterKeeps,
     ZeroProducerKeeps, ConstructorKeeps, ZeroSecondConsumerKeeps DEF RestartNext
<1> QED
  BY <1>1, <1>2

\* Pointers, counts, cells and dataSink agree on the stream whenever no constructor
\* runs, whichever process ended and at whichever step (RestartInv).
THEOREM RestartInvariant == RestartSpec => []RestartInv
<1>1. RestartInit => RestartInv
  BY RestartInitInv
<1>2. RestartInv /\ [RestartNext]_restartVars => RestartInv'
  BY RestartStep
<1> QED
  BY <1>1, <1>2, PTL DEF RestartSpec

\* A client that has attached again, to a server that made no call meanwhile, finds a
\* ring as good as new, whatever the client before it was doing when it ended (GoodAsNew).
THEOREM RestartIsClean == RestartSpec => []GoodAsNew
<1>1. RestartInv => GoodAsNew
  BY DEF RestartInv
<1> QED
  BY <1>1, RestartInvariant, PTL

\* Every reader there ever is has in its dataSink the bytes of its stream, in order,
\* from the first one that no reader before it gave back (DeliveredInOrder).
THEOREM RestartDelivers == RestartSpec => []DeliveredInOrder
<1>1. RestartInv => DeliveredInOrder
  BY DEF RestartInv, ConstructorInv, RingInv, SinkHoldsStream, DeliveredInOrder
<1> QED
  BY <1>1, RestartInvariant, PTL

\* A new process's memcpy never meets what the other end is copying (NoDataRace).
THEOREM RestartIsRaceFree == RestartSpec => []NoDataRace
<1>1. RestartInv => NoDataRace
  <2> SUFFICES ASSUME RestartInv, wpc = "copy" PROVE NoDataRace
    BY DEF NoDataRace
  <2>1. RingInv
    BY DEF RestartInv, WriterIsNew
  <2> QED
    BY <2>1, RingIsRaceFree
<1> QED
  BY <1>1, RestartInvariant, PTL

\* With no client the server reads what was published and no more, although the
\* copies of the producer pointer may be torn (LeftoverIsReal).
THEOREM LeftoverIsSafe == RestartSpec => []LeftoverIsReal
<1>1. RestartInv => LeftoverIsReal
  <2> SUFFICES ASSUME RestartInv, client = "gone"
               PROVE  /\ \A x \in DOMAIN sink : sink[x] = rstart + x
                      /\ availableBytes <= sent - rcvd
    BY DEF LeftoverIsReal
  <2>1. RingInv
    BY DEF RestartInv, Attaching
  <2>2. \A x \in DOMAIN sink : sink[x] = rstart + x
    BY <2>1 DEF RingInv, SinkHoldsStream
  <2>3. availableBytes + readPending + rcvd <= sentSecond
    BY <2>1 DEF RingInv, BudgetsFit
  <2> QED
    BY <2>1, <2>2, <2>3, NumbersAreInts
<1> QED
  BY <1>1, RestartInvariant, PTL

\* What one step of the ring gives back is in dataSink.
LEMMA GivenBackIsRead ==
  ASSUME RingInv, [BufferNext]_bufferVars
  PROVE  \A b \in rcvd .. rcvd' - 1 : b - rstart \in DOMAIN sink /\ sink[b - rstart] = b
<1> SUFFICES ASSUME NEW b \in rcvd .. rcvd' - 1
             PROVE  b - rstart \in DOMAIN sink /\ sink[b - rstart] = b
  OBVIOUS
<1>1. CASE StoreConsumer
  <2>1. rcvd \in Nat /\ rseg \in Nat /\ rstart \in Nat /\ roff \in Nat
    BY NumbersAreInts
  <2>2. rcvd = rstart + roff
    BY <1>1 DEF StoreConsumer, RingInv, SegmentsFollowStream
  <2>3. rcvd' = rcvd + rseg
    BY <1>1 DEF StoreConsumer
  <2>4. DOMAIN sink = {x \in 0 .. roff + rseg - 1 : x - roff \notin {}}
    BY <1>1 DEF StoreConsumer, RingInv, SinkHoldsStream
  <2>5. b - rstart \in 0 .. roff + rseg - 1
    BY <2>1, <2>2, <2>3
  <2>6. b - rstart \in DOMAIN sink
    BY <2>4, <2>5
  <2>7. sink[b - rstart] = rstart + (b - rstart)
    BY <2>6 DEF RingInv, SinkHoldsStream
  <2> QED
    BY <2>1, <2>6, <2>7
<1>2. CASE rcvd' = rcvd
  BY <1>2, NumbersAreInts
<1>3. StoreConsumer \/ rcvd' = rcvd
  BY DEF BufferNext, WriterStep, ReaderStep, LoadSecondConsumer, LoadConsumer, BeginWriteData, CopyIn,
     StoreProducer, StoreSecondProducer, LoadSecondProducer, LoadProducer, BeginReadData, CopyOut,
     StoreSecondConsumer, bufferVars, writerVars, readerVars
<1> QED
  BY <1>1, <1>2, <1>3

\* However often a reader ends in the middle of a transfer, a byte is given back only
\* by one that has it in its dataSink: none is passed over (NoByteSkipped).
THEOREM NothingIsSkipped == RestartSpec => NoByteSkipped
<1>1. /\ RestartInv /\ [RestartNext]_restartVars
      => [\A b \in rcvd .. rcvd' - 1 : b - rstart \in DOMAIN sink /\ sink[b - rstart] = b]_restartVars
  <2> SUFFICES ASSUME RestartInv, RestartNext
               PROVE  \A b \in rcvd .. rcvd' - 1 : b - rstart \in DOMAIN sink /\ sink[b - rstart] = b
    OBVIOUS
  <2>1. CASE client \notin Attaching /\ BufferNext
    BY <2>1, GivenBackIsRead DEF RestartInv
  <2>2. CASE ~(client \notin Attaching /\ BufferNext)
    <3>1. rcvd \in Nat
      <4>1. RingInv => rcvd \in Nat
        BY NumbersAreInts
      <4> QED
        BY <4>1 DEF RestartInv, ConstructorInv
    <3>2. rcvd' = rcvd \/ rcvd' = 0
      BY <2>2 DEF RestartNext, ReadWithoutWriter, EndCall, RestartReader, RestartWriter, ZeroProducer,
         ZeroSecondProducer, ZeroConsumer, ZeroSecondConsumer, NewStream, readerVars, Attaching
    <3>3. rcvd .. rcvd' - 1 = {}
      BY <3>1, <3>2
    <3> QED
      BY <3>3
  <2> QED
    BY <2>1, <2>2
<1> QED
  BY <1>1, RestartInvariant, PTL DEF RestartSpec, NoByteSkipped

\* A reader that ends at any step and another one that goes on are one reader of the
\* byte stream: the ring the client reads implements ByteStream across its restarts,
\* and a restart is a stutter (ImplementsStream).
THEOREM RestartedReaderRefinement == RestartSpec /\ client = "reads" => ImplementsStream
<1>1. RestartInit => Stream!Init
  BY StreamInit DEF RestartInit
<1>2. /\ RestartInv /\ client = "reads" /\ [RestartNext]_restartVars
      => (client = "reads")' /\ [Stream!Next]_<<InFlight, sent>>
  <2> SUFFICES ASSUME RestartInv, client = "reads", [RestartNext]_restartVars
               PROVE  client' = "reads" /\ [Stream!Next]_<<InFlight, sent>>
    OBVIOUS
  <2>1. RingInv
    BY DEF RestartInv, Attaching
  <2>2. \/ client' = client /\ [BufferNext]_bufferVars
        \/ RestartReader
    BY DEF RestartNext, restartVars, ReadWithoutWriter, EndCall, RestartWriter, ZeroProducer,
       ZeroSecondProducer, ZeroConsumer, ZeroSecondConsumer
  <2>3. CASE client' = client /\ [BufferNext]_bufferVars
    BY <2>1, <2>3, StreamStep
  <2>4. CASE RestartReader
    BY <2>4 DEF RestartReader, sharedVars, writerVars, InFlight
  <2> QED
    BY <2>2, <2>3, <2>4
<1> QED
  BY <1>1, <1>2, RestartInvariant, PTL DEF RestartSpec, ImplementsStream, Stream!Spec

\* The ring the client writes is one byte stream after the other: each begins empty when
\* a constructor is done, and is implemented until the next one begins, by whatever the
\* client does before it ends and by what the server reads after that (StreamPerClient).
THEOREM StreamAfterStream == RestartSpec => StreamPerClient
<1>1. ASSUME RestartInv, RestartInv', RestartNext
      PROVE  /\ client \in Attaching /\ client' = "attached" => Stream!Init'
             /\ client \notin Attaching /\ client' \notin Attaching =>
                  [Stream!Next]_<<InFlight, sent>>
  <2>1. ASSUME client \in Attaching, client' = "attached"
        PROVE  Stream!Init'
    <3>1. ZeroSecondConsumer
      BY <1>1, <2>1 DEF RestartNext, ReadWithoutWriter, EndCall, RestartReader, RestartWriter,
         ZeroProducer, ZeroSecondProducer, ZeroConsumer, Attaching
    <3>2. sent' = 0 /\ rcvd' = 0
      BY <3>1 DEF ZeroSecondConsumer, NewStream
    <3>3. RingInv'
      BY <1>1, <2>1 DEF RestartInv, GoodAsNew
    <3>4. (InFlight = Positions(rcvd, sent))'
      BY <3>3, InFlightIsUnread, PTL
    <3>5. InFlight' = <<>>
      BY <3>2, <3>4 DEF Positions
    <3> QED
      BY <3>2, <3>5 DEF Stream!Init
  <2>2. ASSUME client \notin Attaching, client' \notin Attaching
        PROVE  [Stream!Next]_<<InFlight, sent>>
    <3>1. RingInv
      BY <1>1, <2>2 DEF RestartInv
    <3>2. CASE BufferNext
      BY <3>1, <3>2, StreamStep
    <3>3. CASE EndCall \/ RestartReader \/ RestartWriter
      BY <3>3 DEF EndCall, RestartReader, RestartWriter, sharedVars, writerVars, readerVars, InFlight
    <3> QED
      BY <1>1, <2>2, <3>2, <3>3 DEF RestartNext, ReadWithoutWriter, ZeroProducer, ZeroSecondProducer,
         ZeroConsumer, ZeroSecondConsumer, Attaching
  <2> QED
    BY <2>1, <2>2
<1>2. RestartInv /\ RestartInv' /\ [RestartNext]_restartVars
      => [/\ client \in Attaching /\ client' = "attached" => Stream!Init'
          /\ client \notin Attaching /\ client' \notin Attaching =>
               [Stream!Next]_<<InFlight, sent>>]_restartVars
  BY <1>1
<1> QED
  BY <1>2, RestartInvariant, PTL DEF RestartSpec, StreamPerClient
=============================================================================
