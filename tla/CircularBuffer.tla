--------------------------- MODULE CircularBuffer ---------------------------
(***************************************************************************)
(* One circular buffer in shared memory with its two ends: a               *)
(* cCircularWriteBuffer in one process (the writer) and a                  *)
(* cCircularReadBuffer in another (the reader).                            *)
(*                                                                         *)
(* There is no lock: every access to shared memory is a step of its own.   *)
(* A step is one load or store of a U64 pointer, or the copy of one byte   *)
(* by memcpy (which copies the bytes of a segment in any order), together  *)
(* with the local computation that follows it.  Each pointer is stored     *)
(* twice, first the pointer and then its second copy, and the other end    *)
(* loads the second copy first, until both agree.                          *)
(*                                                                         *)
(* A byte is represented by its position in the stream the writer sends,   *)
(* so that a byte that is lost, repeated, torn or out of order shows.      *)
(*                                                                         *)
(* The two ends check no bound themselves.  Their caller, cEntity, never   *)
(* asks for more than the last count it was given: that count, less what   *)
(* was transferred since, is kept in freeBytes and availableBytes.         *)
(***************************************************************************)
EXTENDS RingArithmetic, FiniteSets

CONSTANT MaxBytes  \* bound: how many bytes the writer sends in a behaviour

ASSUME MaxBytesAssumption == MaxBytes \in Nat

VARIABLES
  \* shared memory
  mem,             \* m_Buffer: the byte in each cell
  producer,        \* *m_ProducerPointer
  secondProducer,  \* *m_SecondProducerPointer
  consumer,        \* *m_ConsumerPointer
  secondConsumer,  \* *m_SecondConsumerPointer
  \* the writer
  wpc,             \* where it is in its code
  wsnap,           \* nonvolatileConsumerPointer
  freeBytes,       \* what its caller may still write
  wseg,            \* the bytes of the segment it is writing
  wrest,           \* the bytes of the call left for after the wraparound
  wtodo,           \* the offsets of the segment memcpy has not copied yet
  woff,            \* the offset of the segment in the caller's data
  wstart,          \* history: the position in the stream of the caller's data
  sent,            \* history: how many bytes were published
  \* the reader
  rpc, rsnap, availableBytes, rseg, rrest, rtodo, roff,
  rstart,          \* history: the position in the stream of dataSink's first byte
  sink,            \* dataSink: the bytes copied into it so far
  rcvd             \* history: how many bytes were consumed

sharedVars == <<mem, producer, secondProducer, consumer, secondConsumer>>
writerVars == <<wpc, wsnap, freeBytes, wseg, wrest, wtodo, woff, wstart, sent>>
readerVars == <<rpc, rsnap, availableBytes, rseg, rrest, rtodo, roff, rstart, sink, rcvd>>
bufferVars == <<sharedVars, writerVars, readerVars>>

\* No byte of the stream: what memset leaves in a cell.
NoByte == -1

\* A dataSink nothing has been copied into.
EmptySink == [x \in {} |-> NoByte]

\* idle    not in a call
\* reload  in the while loop of the count, about to load the second copy
\* check   second copy loaded, about to load the pointer itself
\* copy    in memcpy; when it is done, about to store the pointer
\* publish pointer stored, about to store its second copy
PC == {"idle", "reload", "check", "copy", "publish"}

\* The constructor of the write buffer zeroes the four pointers.
BufferInit ==
  /\ mem = [i \in Offsets |-> NoByte]
  /\ producer = 0 /\ secondProducer = 0
  /\ consumer = 0 /\ secondConsumer = 0
  /\ wpc = "idle" /\ wsnap = 0 /\ freeBytes = 0
  /\ wseg = 0 /\ wrest = 0 /\ wtodo = {} /\ woff = 0 /\ wstart = 0 /\ sent = 0
  /\ rpc = "idle" /\ rsnap = 0 /\ availableBytes = 0
  /\ rseg = 0 /\ rrest = 0 /\ rtodo = {} /\ roff = 0 /\ rstart = 0
  /\ sink = EmptySink /\ rcvd = 0

-----------------------------------------------------------------------------
(* The writer: NumberOfBytesFreeToWrite.                                   *)

\* Load the second copy of the consumer pointer, on entry and on every turn.
LoadSecondConsumer ==
  /\ wpc \in {"idle", "reload"}
  /\ wsnap' = secondConsumer
  /\ wpc' = "check"
  /\ UNCHANGED <<sharedVars, freeBytes, wseg, wrest, wtodo, woff, wstart, sent, readerVars>>

\* Mutants: the count is returned without comparing the copies, or only the
\* pointer itself is loaded again when they differ.
LoadConsumerUnchecked ==
  /\ wpc = "check"
  /\ freeBytes' = FreeToWrite(producer, wsnap)
  /\ wpc' = "idle"
  /\ UNCHANGED <<sharedVars, wsnap, wseg, wrest, wtodo, woff, wstart, sent, readerVars>>

LoadConsumerOnce ==
  /\ wpc = "check" /\ consumer = wsnap
  /\ freeBytes' = FreeToWrite(producer, wsnap)
  /\ wpc' = "idle"
  /\ UNCHANGED <<sharedVars, wsnap, wseg, wrest, wtodo, woff, wstart, sent, readerVars>>

\* Load the consumer pointer: return the count if both copies agree.
LoadConsumer ==
  /\ wpc = "check"
  /\ IF consumer = wsnap
     THEN /\ freeBytes' = FreeToWrite(producer, wsnap)
          /\ wpc' = "idle"
     ELSE /\ wpc' = "reload"
          /\ UNCHANGED freeBytes
  /\ UNCHANGED <<sharedVars, wsnap, wseg, wrest, wtodo, woff, wstart, sent, readerVars>>

-----------------------------------------------------------------------------
(* The writer: WriteData and AdvanceProducer.                              *)

\* The call: n bytes of the caller's data from offset off on.  WriteData itself
\* checks nothing; its caller's obligation is in BufferNext.
BeginWriteData(off, n) ==
  /\ wpc = "idle"
  /\ LET before == WriteBeforeWraparound(producer)
     IN  /\ wseg' = IF before >= n THEN n ELSE before
         /\ wrest' = n - wseg'
  /\ wtodo' = 0 .. wseg' - 1
  /\ woff' = off
  /\ wstart' = sent - off
  /\ freeBytes' = freeBytes - n
  /\ wpc' = "copy"
  /\ UNCHANGED <<sharedVars, wsnap, sent, readerVars>>

\* memcpy of the writer: one byte into the ring.
CopyIn(o) ==
  /\ wpc = "copy"
  /\ o \in wtodo
  /\ mem' = [mem EXCEPT ![producer + o] = wstart + woff + o]
  /\ wtodo' = wtodo \ {o}
  /\ UNCHANGED <<producer, secondProducer, consumer, secondConsumer,
                 wpc, wsnap, freeBytes, wseg, wrest, woff, wstart, sent, readerVars>>

\* Mutant: the pointer is stored while memcpy still copies the last byte.
StoreProducerEarly ==
  /\ wpc = "copy"
  /\ Cardinality(wtodo) <= 1
  /\ producer' = Advance(producer, wseg)
  /\ sent' = sent + wseg
  /\ wpc' = "publish"
  /\ UNCHANGED <<mem, secondProducer, consumer, secondConsumer,
                 wsnap, freeBytes, wseg, wrest, wtodo, woff, wstart, readerVars>>

\* AdvanceProducer: store the pointer.
StoreProducer ==
  /\ wpc = "copy"
  /\ wtodo = {}
  /\ producer' = Advance(producer, wseg)
  /\ sent' = sent + wseg
  /\ wpc' = "publish"
  /\ UNCHANGED <<mem, secondProducer, consumer, secondConsumer,
                 wsnap, freeBytes, wseg, wrest, wtodo, woff, wstart, readerVars>>

\* Mutant: the data of the second segment is taken from the start again.
StoreSecondProducerSameData ==
  /\ wpc = "publish"
  /\ secondProducer' = producer
  /\ wseg' = wrest /\ wrest' = 0 /\ wtodo' = 0 .. wrest - 1
  /\ wpc' = IF wrest > 0 THEN "copy" ELSE "idle"
  /\ UNCHANGED <<mem, producer, consumer, secondConsumer, woff,
                 wsnap, freeBytes, wstart, sent, readerVars>>

\* Mutant: only one of the two copies is ever stored.
StoreSecondProducerSkipped ==
  /\ wpc = "publish"
  /\ wseg' = wrest /\ wrest' = 0 /\ wtodo' = 0 .. wrest - 1 /\ woff' = woff + wseg
  /\ wpc' = IF wrest > 0 THEN "copy" ELSE "idle"
  /\ UNCHANGED <<mem, producer, secondProducer, consumer, secondConsumer,
                 wsnap, freeBytes, wstart, sent, readerVars>>

\* AdvanceProducer: store the second copy (newProducerPointerValue still equals
\* the pointer, which only this end stores).  Then WriteData returns, or goes on
\* with the bytes that belong after the wraparound.
StoreSecondProducer ==
  /\ wpc = "publish"
  /\ secondProducer' = producer
  /\ IF wrest > 0
     THEN /\ woff' = woff + wseg
          /\ wseg' = wrest
          /\ wrest' = 0
          /\ wtodo' = 0 .. wrest - 1
          /\ wpc' = "copy"
     ELSE /\ wpc' = "idle"
          /\ UNCHANGED <<wseg, wrest, wtodo, woff>>
  /\ UNCHANGED <<mem, producer, consumer, secondConsumer,
                 wsnap, freeBytes, wstart, sent, readerVars>>

-----------------------------------------------------------------------------
(* The reader: NumberOfBytesAvailableToRead.                               *)

LoadSecondProducer ==
  /\ rpc \in {"idle", "reload"}
  /\ rsnap' = secondProducer
  /\ rpc' = "check"
  /\ UNCHANGED <<sharedVars, availableBytes, rseg, rrest, rtodo, roff, rstart, sink, rcvd, writerVars>>

LoadProducer ==
  /\ rpc = "check"
  /\ IF producer = rsnap
     THEN /\ availableBytes' = AvailableToRead(rsnap, consumer)
          /\ rpc' = "idle"
     ELSE /\ rpc' = "reload"
          /\ UNCHANGED availableBytes
  /\ UNCHANGED <<sharedVars, rsnap, rseg, rrest, rtodo, roff, rstart, sink, rcvd, writerVars>>

-----------------------------------------------------------------------------
(* The reader: ReadData and AdvanceConsumer.                               *)

\* The call: n bytes into the caller's buffer from offset off on.
BeginReadData(off, n) ==
  /\ rpc = "idle"
  /\ LET before == ReadBeforeWraparound(consumer)
     IN  /\ rseg' = IF before >= n THEN n ELSE before
         /\ rrest' = n - rseg'
  /\ rtodo' = 0 .. rseg' - 1
  /\ roff' = off
  /\ rstart' = rcvd - off
  /\ sink' = IF off = 0 THEN EmptySink ELSE sink
  /\ availableBytes' = availableBytes - n
  /\ rpc' = "copy"
  /\ UNCHANGED <<sharedVars, rsnap, rcvd, writerVars>>

\* memcpy of the reader: one byte out of the ring.
CopyOut(o) ==
  /\ rpc = "copy"
  /\ o \in rtodo
  /\ sink' = [x \in DOMAIN sink \cup {roff + o} |->
                IF x = roff + o THEN mem[consumer + o] ELSE sink[x]]
  /\ rtodo' = rtodo \ {o}
  /\ UNCHANGED <<sharedVars, rpc, rsnap, availableBytes, rseg, rrest, roff, rstart, rcvd, writerVars>>

\* Mutant: the space is given back before memcpy has copied the last byte out.
StoreConsumerEarly ==
  /\ rpc = "copy"
  /\ Cardinality(rtodo) <= 1
  /\ consumer' = Advance(consumer, rseg)
  /\ rcvd' = rcvd + rseg
  /\ rpc' = "publish"
  /\ UNCHANGED <<mem, producer, secondProducer, secondConsumer,
                 rsnap, availableBytes, rseg, rrest, rtodo, roff, rstart, sink, writerVars>>

\* AdvanceConsumer: store the pointer.
StoreConsumer ==
  /\ rpc = "copy"
  /\ rtodo = {}
  /\ consumer' = Advance(consumer, rseg)
  /\ rcvd' = rcvd + rseg
  /\ rpc' = "publish"
  /\ UNCHANGED <<mem, producer, secondProducer, secondConsumer,
                 rsnap, availableBytes, rseg, rrest, rtodo, roff, rstart, sink, writerVars>>

\* AdvanceConsumer: store the second copy, then return or go on.
StoreSecondConsumer ==
  /\ rpc = "publish"
  /\ secondConsumer' = consumer
  /\ IF rrest > 0
     THEN /\ roff' = roff + rseg
          /\ rseg' = rrest
          /\ rrest' = 0
          /\ rtodo' = 0 .. rrest - 1
          /\ rpc' = "copy"
     ELSE /\ rpc' = "idle"
          /\ UNCHANGED <<rseg, rrest, rtodo, roff>>
  /\ UNCHANGED <<mem, producer, secondProducer, consumer,
                 rsnap, availableBytes, rstart, sink, rcvd, writerVars>>

-----------------------------------------------------------------------------
\* The steps inside a call, once it has begun.
WriterStep ==
  \/ wpc = "reload" /\ LoadSecondConsumer
  \/ LoadConsumer
  \/ \E o \in wtodo : CopyIn(o)
  \/ StoreProducer
  \/ StoreSecondProducer

ReaderStep ==
  \/ rpc = "reload" /\ LoadSecondProducer
  \/ LoadProducer
  \/ \E o \in rtodo : CopyOut(o)
  \/ StoreConsumer
  \/ StoreSecondConsumer

\* Any legal use of the two ends: counts may be asked for at any time, a transfer
\* is at most what the last count allows, and a caller either starts with new
\* data or goes on where its previous call stopped.
BufferNext ==
  \/ WriterStep
  \/ wpc = "idle" /\ LoadSecondConsumer
  \/ \E off \in {0, sent - wstart}, n \in 0 .. freeBytes :
       sent + n <= MaxBytes /\ BeginWriteData(off, n)
  \/ ReaderStep
  \/ rpc = "idle" /\ LoadSecondProducer
  \/ \E off \in {0, rcvd - rstart}, n \in 0 .. availableBytes : BeginReadData(off, n)

BufferSpec == BufferInit /\ [][BufferNext]_bufferVars

-----------------------------------------------------------------------------
(* Correctness.                                                            *)

\* What the shared pointers and the locals of both ends can hold: pointers and
\* segments stay inside the ring, so that no access leaves the buffer.
TypeOK ==
  /\ mem \in [Offsets -> Int]
  /\ producer \in Offsets /\ secondProducer \in Offsets
  /\ consumer \in Offsets /\ secondConsumer \in Offsets
  /\ wpc \in PC /\ rpc \in PC
  /\ wsnap \in Offsets /\ rsnap \in Offsets
  /\ freeBytes \in Offsets /\ availableBytes \in Offsets
  /\ wseg \in Nat /\ wrest \in Nat /\ woff \in Nat
  /\ rseg \in Nat /\ rrest \in Nat /\ roff \in Nat
  /\ wtodo \subseteq 0 .. wseg - 1
  /\ rtodo \subseteq 0 .. rseg - 1
  /\ wstart \in Nat /\ sent \in 0 .. MaxBytes
  /\ rstart \in Nat /\ rcvd \in Nat
  /\ sink \in [DOMAIN sink -> Int]
  /\ DOMAIN sink \subseteq Nat

\* Whatever the interleaving of memcpy, pointer stores and pointer loads of the
\* two processes, and wherever the wraparound falls, ReadData fills dataSink
\* with the bytes of the stream in order: none lost, repeated, stale or torn.
DeliveredInOrder ==
  /\ \A x \in DOMAIN sink : sink[x] = rstart + x
  /\ rpc = "idle" => DOMAIN sink = 0 .. rcvd - rstart - 1

\* The writer's memcpy and the reader's memcpy never touch the same cell at the
\* same time: the only ordering between the processes is the pointer protocol.
NoDataRace ==
  wpc = "copy" /\ rpc = "copy" =>
    {producer + o : o \in wtodo} \cap {consumer + o : o \in rtodo} = {}

\* A count is computed from a snapshot of the other end's pointer and used
\* later, while that end moves on: it may be stale, but only on the safe side.
\* NumberOfBytesFreeToWrite never promises a cell the reader still needs...
FreeNeverOverstated ==
  wpc \in {"idle", "reload", "check"} =>
    freeBytes + (sent - rcvd) <= EffectiveBufferSize - 1

\* ... and NumberOfBytesAvailableToRead never promises an unpublished byte.
AvailableNeverOverstated ==
  rpc \in {"idle", "reload", "check"} => availableBytes <= sent - rcvd

\* When neither end is in the middle of an advance the two counts add up to the
\* capacity, which is what the unit test TotalByteConsistensy expects.
CountsAddUp ==
  (wpc # "publish" /\ rpc # "publish") =>
    FreeToWrite(producer, secondConsumer) + AvailableToRead(secondProducer, consumer)
      = BufferSize - RESERVE_SIZE - 1

\* The bytes from the consumer pointer up to the producer pointer, read from
\* shared memory as it stands, behave at every moment as a FIFO stream.
InFlight ==
  [i \in 1 .. AvailableToRead(producer, consumer) |-> mem[Advance(consumer, i - 1)]]

Stream == INSTANCE ByteStream
            WITH Capacity <- EffectiveBufferSize - 1, queue <- InFlight, sent <- sent

ImplementsStream == Stream!Spec
=============================================================================
