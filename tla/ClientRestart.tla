---------------------------- MODULE ClientRestart -----------------------------
(***************************************************************************)
(* A client starts again while its server lives.  Its process ends at any  *)
(* step and another one attaches to the same memory, whose two rings are   *)
(* in use.  The client reads one of them and writes the other one.         *)
(*                                                                         *)
(* The constructor of cCircularReadBuffer only computes addresses.  So the *)
(* new client goes on at the consumer pointer it finds, and the bytes the  *)
(* old one had copied and not given back are read again.                   *)
(*                                                                         *)
(* The constructor of cCircularWriteBuffer zeroes the four pointers of the *)
(* ring with four stores.  Two of them are the server's, who may have one  *)
(* of them in use: this is sound only if the server makes no call while    *)
(* its client constructs, which nothing in the library ensures.  Here the  *)
(* server keeps to it; it may be in any call when the old client ends.     *)
(***************************************************************************)
EXTENDS CircularBufferInduction

VARIABLE client  \* which ring this is, and where its client is in attaching

restartVars == <<bufferVars, client>>

\* reads     the ring is the one the client reads
\* attached  the client has constructed the end it writes
\* gone      no client, or one that has not come to the constructor
\* otherwise the pointer that the constructor stores next
Attaching == {"producer", "secondProducer", "consumer", "secondConsumer"}

RestartInit == BufferInit /\ client \in {"reads", "attached"}

-----------------------------------------------------------------------------
(* The ring that the client reads.                                         *)

\* Plausible mistakes: the count of the old reader outlives it, or the new one
\* begins where the last transfer would have ended.
RestartReaderWithCount ==
  /\ client = "reads"
  /\ rpc' = "idle" /\ rsnap' = 0 /\ rseg' = 0 /\ rrest' = 0 /\ rtodo' = {} /\ roff' = 0
  /\ availableBytes' = availableBytes + rseg
  /\ rstart' = rcvd /\ sink' = EmptySink
  /\ UNCHANGED <<sharedVars, rcvd, writerVars, client>>

RestartReaderAfterTransfer ==
  /\ client = "reads"
  /\ rpc' = "idle" /\ rsnap' = 0 /\ availableBytes' = 0
  /\ rseg' = 0 /\ rrest' = 0 /\ rtodo' = {} /\ roff' = 0
  /\ consumer' = IF rpc = "copy" THEN Advance(consumer, rseg) ELSE consumer
  /\ rcvd' = IF rpc = "copy" THEN rcvd + rseg ELSE rcvd
  /\ rstart' = rcvd' /\ sink' = EmptySink
  /\ UNCHANGED <<mem, producer, secondProducer, secondConsumer, writerVars, client>>

\* The reader's process ends, whatever it was doing, and a new one constructs its
\* read buffer: all that was local is gone, all that is shared stays.
RestartReader ==
  /\ client = "reads"
  /\ rpc' = "idle" /\ rsnap' = 0 /\ availableBytes' = 0
  /\ rseg' = 0 /\ rrest' = 0 /\ rtodo' = {} /\ roff' = 0
  /\ rstart' = rcvd /\ sink' = EmptySink
  /\ UNCHANGED <<sharedVars, rcvd, writerVars, client>>

-----------------------------------------------------------------------------
(* The ring that the client writes: its process ends.                      *)

\* The server is not in a call: whatever count it had is of no more use to it,
\* because WriteData and ReadData of cEntity begin with a count of their own.
ReaderIsQuiet == rpc = "idle" /\ availableBytes = 0

\* The writer's process ends, whatever it was doing, and another one starts.  If it
\* was constructing, the server stays quiet until one has finished.
RestartWriter ==
  /\ client # "reads"
  /\ wpc' = "idle" /\ wsnap' = 0 /\ freeBytes' = 0
  /\ wseg' = 0 /\ wrest' = 0 /\ wtodo' = {} /\ woff' = 0
  /\ client' = IF client \in Attaching THEN "producer" ELSE "gone"
  /\ UNCHANGED <<sharedVars, wstart, sent, readerVars>>

-----------------------------------------------------------------------------
(* The stores of the constructor.                                          *)

ZeroProducer ==
  /\ (client = "gone" /\ ReaderIsQuiet) \/ client = "producer"
  /\ producer' = 0
  /\ client' = "secondProducer"
  /\ UNCHANGED <<mem, secondProducer, consumer, secondConsumer, writerVars, readerVars>>

ZeroSecondProducer ==
  /\ client = "secondProducer"
  /\ secondProducer' = 0
  /\ client' = "consumer"
  /\ UNCHANGED <<mem, producer, consumer, secondConsumer, writerVars, readerVars>>

\* Mutant: the constructor leaves the other end's pointer alone.
ZeroConsumerSkipped ==
  /\ client = "consumer"
  /\ client' = "secondConsumer"
  /\ UNCHANGED bufferVars

ZeroConsumer ==
  /\ client = "consumer"
  /\ consumer' = 0
  /\ client' = "secondConsumer"
  /\ UNCHANGED <<mem, producer, secondProducer, secondConsumer, writerVars, readerVars>>

\* A stream begins.  What the cells hold of the one before is no byte of it.
NewStream ==
  /\ client' = "attached"
  /\ mem' = [i \in Offsets |-> NoByte]
  /\ sent' = 0 /\ wstart' = 0 /\ rcvd' = 0 /\ rstart' = 0 /\ sink' = EmptySink
  /\ UNCHANGED <<wpc, wsnap, freeBytes, wseg, wrest, wtodo, woff,
                 rpc, rsnap, availableBytes, rseg, rrest, rtodo, roff>>

\* Mutant: nor its second copy.
ZeroSecondConsumerSkipped ==
  /\ client = "secondConsumer"
  /\ NewStream
  /\ UNCHANGED <<producer, secondProducer, consumer, secondConsumer>>

ZeroSecondConsumer ==
  /\ client = "secondConsumer"
  /\ secondConsumer' = 0
  /\ NewStream
  /\ UNCHANGED <<producer, secondProducer, consumer>>

-----------------------------------------------------------------------------
\* The server: it may forget a count at any time, that is, end its call.
EndCall ==
  /\ rpc = "idle" /\ client \in {"gone", "attached"}
  /\ availableBytes' = 0
  /\ UNCHANGED <<sharedVars, writerVars, client,
                 rpc, rsnap, rseg, rrest, rtodo, roff, rstart, sink, rcvd>>

\* While no client is attached the server goes on reading what the last one left.
ReadWithoutWriter ==
  /\ client = "gone"
  /\ BufferNext
  /\ UNCHANGED <<writerVars, client>>

RestartNext ==
  \/ client \in {"reads", "attached"} /\ BufferNext /\ UNCHANGED client
  \/ ReadWithoutWriter
  \/ EndCall
  \/ RestartReader \/ RestartWriter
  \/ ZeroProducer \/ ZeroSecondProducer \/ ZeroConsumer \/ ZeroSecondConsumer

RestartSpec == RestartInit /\ [][RestartNext]_restartVars

\* The programs of the ring that the client reads: the server goes on with what it has
\* begun, and so does the client, who asks when it knows of nothing, and at last
\* reads when it does.
ServerGoesOn == client = "reads" /\ WriterStep /\ UNCHANGED client
ClientGoesOn ==
  /\ client = "reads" /\ UNCHANGED client
  /\ ReaderStep \/ (rpc = "idle" /\ availableBytes = 0 /\ LoadSecondProducer)
ClientReads ==
  /\ client = "reads" /\ UNCHANGED client
  /\ \E off \in {0, rcvd - rstart}, n \in 1 .. availableBytes : BeginReadData(off, n)

\* Both processes are scheduled, and at last a reader stays.
SettlingSpec ==
  /\ RestartSpec
  /\ WF_restartVars(ServerGoesOn) /\ WF_restartVars(ClientGoesOn)
  /\ SF_restartVars(ClientReads)
  /\ <>[][~RestartReader]_restartVars

-----------------------------------------------------------------------------
(* Correctness, besides that of CircularBuffer: the ring the client reads. *)

\* A byte is given back only once the reader that gives it back has it in its
\* dataSink: however often a reader ends in the middle of a transfer, no byte is
\* passed over, at the price that some are read twice.
NoByteSkipped ==
  [][\A b \in rcvd .. rcvd' - 1 : b - rstart \in DOMAIN sink /\ sink[b - rstart] = b]_restartVars

\* A reader ended between its two pointer stores, and there is nothing to read
\* that would make the next one store both again.
TornAndEmpty ==
  consumer # secondConsumer /\ rpc \notin {"copy", "publish"} /\ sent = rcvd

\* The next reader's first transfer repairs the copies of its pointer.  So a writer
\* that waits for them to agree waits for ever in one case only.
CountReturnsUnlessTornAndEmpty ==
  (client = "reads" /\ wpc # "idle") ~> (wpc = "idle" \/ TornAndEmpty)

-----------------------------------------------------------------------------
(* The ring the client writes.                                             *)

\* A client that attaches again finds, and leaves to the server, a ring as good as
\* new: the whole inductive invariant of the buffer holds again, the copies of each
\* pointer agree, whatever the client before it was doing when it ended, and with
\* that holds all that follows from it.
GoodAsNew == client = "attached" => RingInv /\ CopiesAgree

\* The last client left nothing in the new one's process.
WriterIsNew ==
  /\ wpc = "idle" /\ wsnap = 0 /\ freeBytes = 0
  /\ wseg = 0 /\ wrest = 0 /\ wtodo = {} /\ woff = 0

\* In the constructor a pointer is 0 or what it was, and the server's last dataSink
\* is as it was.  Of the rest the next stream needs only its type.
ConstructorInv ==
  /\ ReaderIsQuiet
  /\ DeliveredInOrder
  /\ producer \in Offsets /\ secondProducer \in Offsets
  /\ consumer \in Offsets /\ secondConsumer \in Offsets
  /\ client # "producer" => producer = 0
  /\ client \in {"consumer", "secondConsumer"} => secondProducer = 0
  /\ client = "secondConsumer" => consumer = 0
  /\ rsnap \in Offsets /\ rseg \in Nat /\ rrest \in Nat /\ roff \in Nat
  /\ rtodo \subseteq 0 .. rseg - 1
  /\ rcvd \in Nat

\* The inductive invariant of the proofs.  That of the buffer survives the end of
\* either process at any step; only the constructor gives it up, and restores it.
RestartInv ==
  /\ client \in Attaching \cup {"reads", "gone", "attached"}
  /\ client \notin Attaching => RingInv
  /\ client \in Attaching => ConstructorInv
  /\ client \in Attaching \cup {"gone"} => WriterIsNew
  /\ GoodAsNew

\* Every client that constructs begins an empty stream, and until the next one does the
\* ring implements it, for both ends, whichever processes end meanwhile.
StreamPerClient ==
  [][/\ client \in Attaching /\ client' = "attached" => Stream!Init'
     /\ client \notin Attaching /\ client' \notin Attaching =>
          [Stream!Next]_<<InFlight, sent>>]_restartVars

\* With no client the server reads what was published and no more, although the
\* copies of the producer pointer may be torn.
LeftoverIsReal == client = "gone" =>
  /\ \A x \in DOMAIN sink : sink[x] = rstart + x
  /\ rpc \in {"idle", "reload", "check"} => availableBytes <= sent - rcvd
=============================================================================
