----------------------------- MODULE BusyReattach -----------------------------
(***************************************************************************)
(* A client attaches again while its server is in the middle of a call:    *)
(* what WriterRestart rules out and the library does not.  The constructor *)
(* of the client's write buffer zeroes the consumer pointer, which only    *)
(* the server is supposed to store.  The server then may lose the zero     *)
(* again, and read bytes nobody sent.  What has to hold even so is that it *)
(* stays inside the ring: no count wraps, no memcpy leaves the cells.      *)
(*                                                                         *)
(* So every load the server makes of its own pointer is a step here; the   *)
(* count makes two of them.  The bytes are left out, and the client is     *)
(* taken to be any writer: it may store any pointer inside the ring.       *)
(***************************************************************************)
EXTENDS RingArithmetic

VARIABLES
  producer, secondProducer, consumer, secondConsumer,
  client,     \* the pointer the client's process stores next
  rpc,        \* where the server is in its code
  rsnap,      \* nonvolatileProducerPointer
  ahead,      \* it was found not to be behind the consumer pointer
  available,  \* the count
  rseg,       \* the bytes of the segment it reads
  rrest,      \* the bytes of the call left for after the wraparound
  address,    \* the offset memcpy reads from
  advanced    \* newConsumerPointerValue

clientVars == <<producer, secondProducer, client>>
serverVars == <<rpc, rsnap, ahead, available, rseg, rrest, address, advanced>>
busyVars   == <<clientVars, consumer, secondConsumer, serverVars>>

BusyInit ==
  /\ producer = 0 /\ secondProducer = 0 /\ consumer = 0 /\ secondConsumer = 0
  /\ client = "attached"
  /\ rpc = "idle" /\ rsnap = 0 /\ ahead = FALSE /\ available = 0
  /\ rseg = 0 /\ rrest = 0 /\ address = 0 /\ advanced = 0

-----------------------------------------------------------------------------
(* The client.                                                             *)

\* WriteData: an advance, by whatever the client's count allowed.
StoreProducer ==
  /\ client = "attached"
  /\ producer' \in Offsets
  /\ client' = "publish"
  /\ UNCHANGED <<secondProducer, consumer, secondConsumer, serverVars>>

StoreSecondProducer ==
  /\ client = "publish"
  /\ secondProducer' = producer
  /\ client' = "attached"
  /\ UNCHANGED <<producer, consumer, secondConsumer, serverVars>>

\* The client's process ends, in the constructor or later, and another one attaches.
Restart ==
  /\ client' = "producer"
  /\ UNCHANGED <<producer, secondProducer, consumer, secondConsumer, serverVars>>

\* The four stores of the constructor.
Construct ==
  /\ \/ /\ client = "producer" /\ client' = "secondProducer" /\ producer' = 0
        /\ UNCHANGED <<secondProducer, consumer, secondConsumer>>
     \/ /\ client = "secondProducer" /\ client' = "consumer" /\ secondProducer' = 0
        /\ UNCHANGED <<producer, consumer, secondConsumer>>
     \/ /\ client = "consumer" /\ client' = "secondConsumer" /\ consumer' = 0
        /\ UNCHANGED <<producer, secondProducer, secondConsumer>>
     \/ /\ client = "secondConsumer" /\ client' = "attached" /\ secondConsumer' = 0
        /\ UNCHANGED <<producer, secondProducer, consumer>>
  /\ UNCHANGED serverVars

-----------------------------------------------------------------------------
(* The server: NumberOfBytesAvailableToRead.                               *)

LoadSecondProducer ==
  /\ rpc \in {"idle", "reload"}
  /\ rsnap' = secondProducer
  /\ rpc' = "check"
  /\ UNCHANGED <<clientVars, consumer, secondConsumer,
                 ahead, available, rseg, rrest, address, advanced>>

LoadProducer ==
  /\ rpc = "check"
  /\ rpc' = IF producer = rsnap THEN "compare" ELSE "reload"
  /\ UNCHANGED <<clientVars, consumer, secondConsumer,
                 rsnap, ahead, available, rseg, rrest, address, advanced>>

\* Load the consumer pointer for the comparison...
CompareConsumer ==
  /\ rpc = "compare"
  /\ ahead' = (rsnap >= consumer)
  /\ rpc' = "subtract"
  /\ UNCHANGED <<clientVars, consumer, secondConsumer,
                 rsnap, available, rseg, rrest, address, advanced>>

\* ... and once more for the subtraction.
SubtractConsumer ==
  /\ rpc = "subtract"
  /\ available' = IF ahead THEN U64(rsnap - consumer)
                           ELSE U64(rsnap + EffectiveBufferSize - consumer)
  /\ rpc' = "idle"
  /\ UNCHANGED <<clientVars, consumer, secondConsumer,
                 rsnap, ahead, rseg, rrest, address, advanced>>

-----------------------------------------------------------------------------
(* The server: ReadData and AdvanceConsumer.                               *)

\* Mutant: what is left of a count serves another transfer.
BeginReadDataKeepingCount(n) ==
  /\ rpc = "idle"
  /\ LET before == ReadBeforeWraparound(consumer)
     IN  /\ rseg' = IF before >= n THEN n ELSE before
         /\ rrest' = n - rseg'
  /\ available' = available - n
  /\ rpc' = "address"
  /\ UNCHANGED <<clientVars, consumer, secondConsumer, rsnap, ahead, address, advanced>>

\* The call, for what the count allows.  cEntity makes one transfer of a count.
BeginReadData(n) ==
  /\ rpc = "idle"
  /\ LET before == ReadBeforeWraparound(consumer)
     IN  /\ rseg' = IF before >= n THEN n ELSE before
         /\ rrest' = n - rseg'
  /\ available' = 0
  /\ rpc' = "address"
  /\ UNCHANGED <<clientVars, consumer, secondConsumer, rsnap, ahead, address, advanced>>

\* ConsumerMemoryAddress, and the memcpy from there.
LoadAddress ==
  /\ rpc = "address"
  /\ address' = consumer
  /\ rpc' = "copy"
  /\ UNCHANGED <<clientVars, consumer, secondConsumer,
                 rsnap, ahead, available, rseg, rrest, advanced>>

\* AdvanceConsumer loads the pointer, and stores the new value later.
LoadConsumer ==
  /\ rpc = "copy"
  /\ advanced' = Advance(consumer, rseg)
  /\ rpc' = "store"
  /\ UNCHANGED <<clientVars, consumer, secondConsumer,
                 rsnap, ahead, available, rseg, rrest, address>>

StoreConsumer ==
  /\ rpc = "store"
  /\ consumer' = advanced
  /\ rpc' = "publish"
  /\ UNCHANGED <<clientVars, secondConsumer,
                 rsnap, ahead, available, rseg, rrest, address, advanced>>

\* Store the second copy, then go on after the wraparound or return.
StoreSecondConsumer ==
  /\ rpc = "publish"
  /\ secondConsumer' = advanced
  /\ IF rrest > 0
     THEN rseg' = rrest /\ rrest' = 0 /\ rpc' = "address"
     ELSE rpc' = "idle" /\ UNCHANGED <<rseg, rrest>>
  /\ UNCHANGED <<clientVars, consumer, rsnap, ahead, available, address, advanced>>

BusyNext ==
  \/ StoreProducer \/ StoreSecondProducer \/ Restart \/ Construct
  \/ LoadSecondProducer \/ LoadProducer \/ CompareConsumer \/ SubtractConsumer
  \/ \E n \in 0 .. available : BeginReadData(n)
  \/ LoadAddress \/ LoadConsumer \/ StoreConsumer \/ StoreSecondConsumer

BusySpec == BusyInit /\ [][BusyNext]_busyVars

-----------------------------------------------------------------------------
(* Correctness.                                                            *)

\* However the four stores of a client's constructor fall between the loads of its
\* server, the server copies from inside the ring and its pointer stays there.  The
\* count itself may be false, and more than the ring holds, when the pointer becomes 0
\* between its two loads: what saves the copy is that no count serves two transfers.
ServerStaysInRing ==
  /\ rpc = "copy" => address + rseg <= EffectiveBufferSize
  /\ consumer \in Offsets /\ secondConsumer \in Offsets
  /\ available < 2 * EffectiveBufferSize

\* The server is in a transfer.
Transferring == rpc \in {"address", "copy", "store", "publish"}

BusyTypeOK ==
  /\ producer \in Offsets /\ secondProducer \in Offsets
  /\ consumer \in Offsets /\ secondConsumer \in Offsets
  /\ rpc \in {"idle", "reload", "check", "compare", "subtract"} \/ Transferring
  /\ rsnap \in Offsets /\ address \in Offsets /\ advanced \in Offsets
  /\ ahead \in BOOLEAN /\ available \in Nat /\ rseg \in Nat /\ rrest \in Nat

\* The count is false only when the pointer was found in front of the snapshot and is 0
\* now, and it stays 0 until the transfer.
CountFitsPointer ==
  /\ rpc = "subtract" => IF ahead THEN rsnap >= consumer ELSE rsnap < consumer \/ consumer = 0
  /\ available < EffectiveBufferSize \/ (consumer = 0 /\ available < 2 * EffectiveBufferSize)
  /\ Transferring => available = 0

\* A segment fits from the pointer on, and from 0 on, where the client may put it; if
\* more is to follow the segment ends at the wraparound, or ended there before the
\* pointer became 0, and then there is room for both from 0 on.
SegmentFitsPointer ==
  /\ rpc \in {"address", "copy"} =>
       /\ consumer + rseg <= EffectiveBufferSize
       /\ rrest > 0 => /\ consumer + rseg = EffectiveBufferSize \/ consumer = 0
                       /\ rseg + rrest < EffectiveBufferSize \/ rseg = EffectiveBufferSize
  /\ rpc = "copy" => address + rseg <= EffectiveBufferSize
  /\ Transferring => rrest <= EffectiveBufferSize
  /\ rpc \in {"store", "publish"} => advanced + rrest <= EffectiveBufferSize
  /\ rpc = "publish" => consumer = advanced \/ consumer = 0

\* The inductive invariant.
BusyInv == BusyTypeOK /\ CountFitsPointer /\ SegmentFitsPointer
=============================================================================
