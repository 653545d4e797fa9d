---------------------- MODULE CircularBufferInduction -----------------------
(***************************************************************************)
(* The inductive invariant of CircularBuffer: what holds in every state,   *)
(* and whose holding in a state is enough for it to hold after any step.   *)
(* The invariants of CircularBuffer follow from it, none is inductive      *)
(* alone: that a memcpy stays clear of the other end, for instance, rests  *)
(* on counts computed many steps earlier from pointers that have moved.    *)
(***************************************************************************)
EXTENDS CircularBuffer

\* How many cells further around the ring b is than a.
Ahead(a, b) == IF b >= a THEN b - a ELSE b + EffectiveBufferSize - a

\* How far the stream has come by the second copies.  They lag behind the first
\* ones during an advance, and after the process of an end was ended in one.
sentSecond == sent - Ahead(secondProducer, producer)
rcvdSecond == rcvd - Ahead(secondConsumer, consumer)

\* The bytes of a transfer under way whose advance is still to come.
writePending == IF wpc = "copy" THEN wseg + wrest ELSE IF wpc = "publish" THEN wrest ELSE 0
readPending  == IF rpc = "copy" THEN rseg + rrest ELSE IF rpc = "publish" THEN rrest ELSE 0

\* Each pointer is as far around the ring as the stream has come.
PointersFollowStream ==
  /\ Ahead(consumer, producer) = sent - rcvd
  /\ Ahead(secondConsumer, producer) = sent - rcvdSecond
  /\ Ahead(consumer, secondProducer) = sentSecond - rcvd

\* A pointer of the other end, once loaded, can only fall behind it.
SnapshotsAreBehind ==
  /\ wpc = "check" => Ahead(wsnap, producer) >= sent - rcvdSecond
  /\ rpc = "check" => Ahead(consumer, rsnap) <= sentSecond - rcvd

\* What an end may still transfer, and the transfer under way, fit.
BudgetsFit ==
  /\ sent + writePending <= MaxBytes
  /\ freeBytes + writePending + (sent - rcvdSecond) <= EffectiveBufferSize - 1
  /\ availableBytes + readPending + rcvd <= sentSecond

\* A segment ends at the wraparound at the latest, and there if more follows.
SegmentsEndAtWraparound ==
  /\ wpc = "copy" => /\ producer + wseg <= EffectiveBufferSize
                     /\ wrest > 0 => producer + wseg = EffectiveBufferSize
  /\ wpc = "publish" /\ wrest > 0 => producer = 0
  /\ rpc = "copy" => /\ consumer + rseg <= EffectiveBufferSize
                     /\ rrest > 0 => consumer + rseg = EffectiveBufferSize
  /\ rpc = "publish" /\ rrest > 0 => consumer = 0

\* Where the segment under way lies in the stream.
SegmentsFollowStream ==
  /\ wstart <= sent
  /\ wpc = "copy" => wstart + woff = sent
  /\ wpc = "publish" => wstart + woff + wseg = sent
  /\ rstart <= rcvd
  /\ rpc = "copy" => rstart + roff = rcvd
  /\ rpc = "publish" => rstart + roff + rseg = rcvd

\* The cells from consumer to producer hold the bytes in flight, in order, and
\* those the writer has copied beyond are the next ones.
CellsHoldStream ==
  /\ \A i \in Offsets :
       Ahead(consumer, i) < sent - rcvd => mem[i] = rcvd + Ahead(consumer, i)
  /\ wpc = "copy" =>
       \A o \in 0 .. wseg - 1 : o \notin wtodo => mem[producer + o] = sent + o

\* dataSink holds the bytes copied so far and no others.
SinkHoldsStream ==
  /\ \A x \in DOMAIN sink : sink[x] = rstart + x
  /\ rpc = "copy" => DOMAIN sink = {x \in 0 .. roff + rseg - 1 : x - roff \notin rtodo}
  /\ rpc = "publish" => DOMAIN sink = 0 .. roff + rseg - 1
  /\ rpc \in {"idle", "reload", "check"} => DOMAIN sink = 0 .. rcvd - rstart - 1

\* The inductive invariant: however the steps of the two processes interleave,
\* pointers, snapshots, counts, segments, cells and dataSink agree on how far the
\* stream has come.  It does not ask that the copies of a pointer agree.
RingInv ==
  /\ TypeOK
  /\ PointersFollowStream
  /\ SnapshotsAreBehind
  /\ BudgetsFit
  /\ SegmentsEndAtWraparound
  /\ SegmentsFollowStream
  /\ CellsHoldStream
  /\ SinkHoldsStream

\* They do, outside an advance, as long as no process ends in the middle of one.
CopiesAgree ==
  /\ wpc # "publish" => secondProducer = producer
  /\ rpc # "publish" => secondConsumer = consumer
=============================================================================
