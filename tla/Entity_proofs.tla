---------------------------- MODULE Entity_proofs ----------------------------
(***************************************************************************)
(* Proofs about Entity: two entities use a circular buffer legally, so     *)
(* that all that is proved of CircularBuffer holds for them, and the       *)
(* results of their calls are exact.  Any ring, any requests, any timeout  *)
(* limits, any crash; EntityInv is the inductive invariant.                *)
(*                                                                         *)
(* With it, two entities on a ring implement a pipe: every action of       *)
(* Entity is a step of Pipe or leaves the pipe as it is.  The invariant    *)
(* gives what the steps need: where each pointer is in the stream, and     *)
(* that nothing is pending when it should not be.                          *)
(***************************************************************************)
EXTENDS EntityPipe, CircularBuffer_proofs

\* What the buffer has of an end, for the calls.
EndVars(e) == <<Pc(e), Room(e), Moved(e), Pending(e), Start(e)>>

\* The same, as numbers.
LEMMA EndNumbers ==
  ASSUME RingInv, NEW e \in Ends
  PROVE  /\ Room(e) \in Nat /\ Moved(e) \in Nat /\ Pending(e) \in Nat /\ Start(e) \in Nat
         /\ Pc(e) \in {"idle", "reload", "check"} => Pending(e) = 0
  BY NumbersAreInts
     DEF Ends, Room, Moved, Pending, Start, Pc, writePending, readPending

\* The two ends are each other's peers.
LEMMA TwoEnds ==
  ASSUME NEW e \in Ends
  PROVE  Peer(e) \in Ends /\ Peer(e) # e /\ \A d \in Ends : d = e \/ d = Peer(e)
  BY DEF Ends, Peer

-----------------------------------------------------------------------------
(* What the actions of the buffer do to an end, as its call sees it.       *)

\* A count moves nothing.
LEMMA BeginCountMoves ==
  ASSUME NEW e \in Ends, Pc(e) = "idle", BeginCount(e)
  PROVE  /\ Pc(e)' = "check"
         /\ Moved(e)' = Moved(e) /\ Start(e)' = Start(e) /\ Pending(e)' = 0
         /\ EndVars(Peer(e))' = EndVars(Peer(e))
<1>1. CASE e = "writer"
  BY <1>1 DEF BeginCount, LoadSecondConsumer, Pc, Moved, Start, Pending, Room, Peer, EndVars,
              writePending, readPending, sharedVars, readerVars
<1>2. CASE e = "reader"
  BY <1>2 DEF BeginCount, LoadSecondProducer, Pc, Moved, Start, Pending, Room, Peer, EndVars,
              writePending, readPending, sharedVars, writerVars
<1> QED
  BY <1>1, <1>2 DEF Ends

\* A transfer of n bytes has n bytes to move, from or to offset off of the
\* caller's data.
LEMMA BeginTransferMoves ==
  ASSUME RingInv, NEW e \in Ends, Pc(e) = "idle", NEW off \in Nat, NEW n \in Nat,
         BeginTransfer(e, off, n)
  PROVE  /\ Pc(e)' = "copy"
         /\ Moved(e)' = Moved(e) /\ Start(e)' = Moved(e) - off /\ Pending(e)' = n
         /\ EndVars(Peer(e))' = EndVars(Peer(e))
<1>1. CASE e = "writer"
  <2>1. producer \in Offsets
    BY DEF RingInv, TypeOK
  <2>2. WriteBeforeWraparound(producer) \in Int
    BY <2>1, BeforeWraparound, RingSize DEF Offsets
  <2>3. BeginWriteData(off, n)
    BY <1>1 DEF BeginTransfer
  <2>4. wseg' \in Int /\ wrest' = n - wseg' /\ wpc' = "copy"
        /\ wstart' = sent - off /\ sent' = sent
    BY <2>2, <2>3 DEF BeginWriteData
  <2>5. wseg' + wrest' = n
    <3>1. \A x \in Int : \A y : y = n - x => x + y = n
      OBVIOUS
    <3> QED
      BY <2>4, <3>1, Zenon
  <2>6. UNCHANGED readerVars
    BY <2>3 DEF BeginWriteData
  <2> QED
    BY <1>1, <2>4, <2>5, <2>6 DEF Pc, Moved, Start, Pending, Room, Peer, EndVars,
                          writePending, readPending, sharedVars, readerVars
<1>2. CASE e = "reader"
  <2>1. consumer \in Offsets
    BY DEF RingInv, TypeOK
  <2>2. ReadBeforeWraparound(consumer) \in Int
    BY <2>1, BeforeWraparound, RingSize DEF Offsets
  <2>3. BeginReadData(off, n)
    BY <1>2 DEF BeginTransfer
  <2>4. rseg' \in Int /\ rrest' = n - rseg' /\ rpc' = "copy"
        /\ rstart' = rcvd - off /\ rcvd' = rcvd
    BY <2>2, <2>3 DEF BeginReadData
  <2>5. rseg' + rrest' = n
    <3>1. \A x \in Int : \A y : y = n - x => x + y = n
      OBVIOUS
    <3> QED
      BY <2>4, <3>1, Zenon
  <2>6. UNCHANGED writerVars
    BY <2>3 DEF BeginReadData
  <2> QED
    BY <1>2, <2>4, <2>5, <2>6 DEF Pc, Moved, Start, Pending, Room, Peer, EndVars,
                          writePending, readPending, sharedVars, writerVars
<1> QED
  BY <1>1, <1>2 DEF Ends

\* A step inside a count stays in it or ends it; a step inside a transfer stays
\* in it or ends it, and what it moves is no longer pending.
LEMMA BufferStepMoves ==
  ASSUME RingInv, NEW e \in Ends,
         \/ e = "writer" /\ WriterStep
         \/ e = "reader" /\ ReaderStep
  PROVE  /\ Pc(e) # "idle"
         /\ Pc(e) \in {"reload", "check"} => Pc(e)' \in {"idle", "reload", "check"}
         /\ Pc(e) \in {"copy", "publish"} => Pc(e)' \in {"idle", "copy", "publish"}
         /\ Moved(e)' + Pending(e)' = Moved(e) + Pending(e)
         /\ Pc(e) \in {"reload", "check"} => Moved(e)' = Moved(e)
         /\ Start(e)' = Start(e)
         /\ EndVars(Peer(e))' = EndVars(Peer(e))
<1> USE DEF Pc, Moved, Start, Pending, Room, Peer, EndVars, writePending, readPending
<1>1. CASE e = "writer"
  <2>1. WriterStep
    BY <1>1
  <2>2. CASE wpc = "reload" /\ LoadSecondConsumer
    BY <1>1, <2>2, NumbersAreInts DEF LoadSecondConsumer, readerVars
  <2>3. CASE LoadConsumer
    BY <1>1, <2>3, NumbersAreInts DEF LoadConsumer, readerVars
  <2>4. CASE \E o \in wtodo : CopyIn(o)
    BY <1>1, <2>4, NumbersAreInts DEF CopyIn, readerVars
  <2>5. CASE StoreProducer
    BY <1>1, <2>5, NumbersAreInts DEF StoreProducer, readerVars
  <2>6. CASE StoreSecondProducer
    BY <1>1, <2>6, NumbersAreInts DEF StoreSecondProducer, readerVars
  <2> QED
    BY <2>1, <2>2, <2>3, <2>4, <2>5, <2>6 DEF WriterStep
<1>2. CASE e = "reader"
  <2>1. ReaderStep
    BY <1>2
  <2>2. CASE rpc = "reload" /\ LoadSecondProducer
    BY <1>2, <2>2, NumbersAreInts DEF LoadSecondProducer, writerVars
  <2>3. CASE LoadProducer
    BY <1>2, <2>3, NumbersAreInts DEF LoadProducer, writerVars
  <2>4. CASE \E o \in rtodo : CopyOut(o)
    BY <1>2, <2>4, NumbersAreInts DEF CopyOut, writerVars
  <2>5. CASE StoreConsumer
    BY <1>2, <2>5, NumbersAreInts DEF StoreConsumer, writerVars
  <2>6. CASE StoreSecondConsumer
    BY <1>2, <2>6, NumbersAreInts DEF StoreSecondConsumer, writerVars
  <2> QED
    BY <2>1, <2>2, <2>3, <2>4, <2>5, <2>6 DEF ReaderStep
<1> QED
  BY <1>1, <1>2 DEF Ends

\* A step that does not touch the buffer.
LEMMA BufferUntouched ==
  ASSUME UNCHANGED bufferVars
  PROVE  \A e \in Ends : EndVars(e)' = EndVars(e)
  BY DEF bufferVars, sharedVars, writerVars, readerVars, EndVars, Pc, Room, Moved, Pending,
         Start, writePending, readPending

-----------------------------------------------------------------------------
(* What the actions of Entity keep.                                        *)

\* What EndInv has of a call.
CallVarsOf(e) == <<call[e], request[e], done[e], result[e], base[e]>>

\* An end that no step touches keeps its part of the invariant.
LEMMA EndKept ==
  ASSUME NEW e \in Ends, EndInv(e), UNCHANGED EndVars(e), UNCHANGED CallVarsOf(e)
  PROVE  EndInv(e)'
<1>1. /\ Pc(e)' = Pc(e) /\ Moved(e)' = Moved(e) /\ Pending(e)' = Pending(e)
      /\ Start(e)' = Start(e)
      /\ call'[e] = call[e] /\ request'[e] = request[e] /\ done'[e] = done[e]
      /\ result'[e] = result[e] /\ base'[e] = base[e]
  BY DEF EndVars, CallVarsOf
<1> QED
  BY <1>1 DEF EndInv, EndFollowsCall, CallFollowsStream, RequestWithinBound, ResultStaysExact

\* So a step of one end is a matter of that end.
LEMMA OneEndMoves ==
  ASSUME EntityInv, NEW e \in Ends,
         EndInv(e)', UNCHANGED EndVars(Peer(e)), UNCHANGED CallVarsOf(Peer(e))
  PROVE  \A d \in Ends : EndInv(d)'
<1>1. EndInv(Peer(e))'
  BY TwoEnds, EndKept DEF EntityInv
<1> QED
  BY <1>1, TwoEnds

\* A transfer as the calls of Entity ask for it is one that CircularBuffer allows.
LEMMA TransferIsLegal ==
  ASSUME RingInv, NEW e \in Ends, NEW off \in {0, Moved(e) - Start(e)},
         NEW n \in 0 .. Room(e), e = "writer" => sent + n <= MaxBytes,
         BeginTransfer(e, off, n)
  PROVE  BufferNext
  BY DEF Ends, Moved, Start, Room, BeginTransfer, BufferNext

\* What a step of end e leaves: its part of the invariant, the other end as it
\* was, and a use of the buffer that CircularBuffer allows.
Keeps(e) ==
  /\ EntityTypeOK' /\ EndInv(e)'
  /\ UNCHANGED EndVars(Peer(e)) /\ UNCHANGED CallVarsOf(Peer(e))
  /\ BufferNext \/ UNCHANGED bufferVars

\* The variables of a call have their types.
LEMMA CallTypes ==
  ASSUME EntityInv, NEW e \in Ends
  PROVE  /\ call[e] \in Calls /\ result[e] \in Results
         /\ request[e] \in Nat /\ done[e] \in Nat /\ base[e] \in Nat
         /\ timer[e] \in Nat /\ limit[e] \in Limits /\ done[e] <= request[e]
  BY DEF EntityInv, EntityTypeOK

\* A new limit changes neither the call nor the stream.
LEMMA SetTimeoutKeeps ==
  ASSUME EntityInv, NEW e \in Ends, NEW l \in Limits, SetTimeout(e, l)
  PROVE  Keeps(e)
<1>1. EntityTypeOK'
  BY DEF EntityInv, EntityTypeOK, SetTimeout
<1>2. UNCHANGED EndVars(e) /\ UNCHANGED EndVars(Peer(e)) /\ UNCHANGED bufferVars
  BY TwoEnds, BufferUntouched DEF SetTimeout
<1>3. UNCHANGED CallVarsOf(e) /\ UNCHANGED CallVarsOf(Peer(e))
  BY DEF SetTimeout, CallVarsOf
<1> QED
  BY <1>1, <1>2, <1>3, EndKept DEF EntityInv, Keeps

\* The entity's own count leaves the last result as true as it was.
LEMMA CountKeeps ==
  ASSUME EntityInv, NEW e \in Ends, Count(e)
  PROVE  Keeps(e)
<1>1. EntityTypeOK'
  BY DEF EntityInv, EntityTypeOK, Count, Goto, Calls
<1>2. /\ Pc(e) = "idle" /\ call[e] = "idle" /\ BeginCount(e)
      /\ call'[e] = "count" /\ result'[e] = result[e]
      /\ request'[e] = request[e] /\ base'[e] = base[e]
  BY DEF Count, At, Goto, EntityInv, EntityTypeOK
<1>3. /\ Pc(e)' = "check" /\ Moved(e)' = Moved(e) /\ Start(e)' = Start(e)
      /\ UNCHANGED EndVars(Peer(e))
  BY <1>2, BeginCountMoves
<1>4. UNCHANGED CallVarsOf(Peer(e))
  BY TwoEnds DEF Count, Goto, CallVarsOf, EntityInv, EntityTypeOK
<1>5. EndInv(e)'
  BY <1>2, <1>3
     DEF EntityInv, EndInv, EndFollowsCall, CallFollowsStream, RequestWithinBound, ResultStaysExact
<1>6. BufferNext
  BY <1>2 DEF BeginCount, BufferNext, Pc
<1> QED
  BY <1>1, <1>3, <1>4, <1>5, <1>6 DEF Keeps

\* So does its return.
LEMMA CountReturnsKeeps ==
  ASSUME EntityInv, NEW e \in Ends, CountReturns(e)
  PROVE  Keeps(e)
<1>1. EntityTypeOK'
  BY DEF EntityInv, EntityTypeOK, CountReturns, Goto, Calls
<1>2. /\ Pc(e) = "idle" /\ call[e] = "count" /\ call'[e] = "idle"
      /\ result'[e] = result[e] /\ request'[e] = request[e] /\ base'[e] = base[e]
  BY DEF CountReturns, At, Goto, EntityInv, EntityTypeOK
<1>3. UNCHANGED EndVars(e) /\ UNCHANGED EndVars(Peer(e)) /\ UNCHANGED bufferVars
  BY TwoEnds, BufferUntouched DEF CountReturns
<1>4. UNCHANGED CallVarsOf(Peer(e))
  BY TwoEnds DEF CountReturns, Goto, CallVarsOf, EntityInv, EntityTypeOK
<1>5. EndInv(e)'
  BY <1>2, <1>3
     DEF EntityInv, EndInv, EndFollowsCall, CallFollowsStream, RequestWithinBound, ResultStaysExact,
         EndVars
<1> QED
  BY <1>1, <1>3, <1>4, <1>5 DEF Keeps

\* Inside the buffer, what is moved is no longer pending: the sum stays.
LEMMA BufferStepKeeps ==
  ASSUME EntityInv, NEW e \in Ends, BufferStep(e)
  PROVE  Keeps(e)
<1>1. EntityTypeOK' /\ UNCHANGED CallVarsOf(e) /\ UNCHANGED CallVarsOf(Peer(e))
  BY DEF EntityInv, EntityTypeOK, BufferStep, callVars, CallVarsOf
<1>2. /\ Pc(e) # "idle"
      /\ Pc(e) \in {"reload", "check"} => Pc(e)' \in {"idle", "reload", "check"}
      /\ Pc(e) \in {"copy", "publish"} => Pc(e)' \in {"idle", "copy", "publish"}
      /\ Moved(e)' + Pending(e)' = Moved(e) + Pending(e)
      /\ Pc(e) \in {"reload", "check"} => Moved(e)' = Moved(e)
      /\ Start(e)' = Start(e)
      /\ UNCHANGED EndVars(Peer(e))
  BY BufferStepMoves DEF BufferStep, EntityInv
<1>3. EndFollowsCall(e)'
  BY <1>1, <1>2, CallTypes DEF EntityInv, EndInv, EndFollowsCall, CallVarsOf
<1>4. CallFollowsStream(e)'
  BY <1>1, <1>2 DEF EntityInv, EndInv, CallFollowsStream, CallVarsOf
<1>5. RequestWithinBound(e)'
  BY <1>1 DEF EntityInv, EndInv, RequestWithinBound, CallVarsOf
<1>6. ResultStaysExact(e)'
  BY <1>1, <1>2 DEF EntityInv, EndInv, EndFollowsCall, ResultStaysExact, CallVarsOf
<1>7. BufferNext
  BY DEF BufferStep, BufferNext
<1> QED
  BY <1>1, <1>2, <1>3, <1>4, <1>5, <1>6, <1>7 DEF Keeps, EndInv

\* A call begins with nothing done, from where the stream is.
LEMMA CallKeeps ==
  ASSUME EntityInv, NEW e \in Ends, NEW n \in Requests, Call(e, n)
  PROVE  Keeps(e)
<1>1. n \in Nat /\ Moved(e) \in Nat
  BY EntityAssumption, EndNumbers DEF EntityInv
<1>2. EntityTypeOK'
  <2>1. /\ call' \in [Ends -> Calls] /\ result' \in [Ends -> Results]
        /\ request' \in [Ends -> Nat] /\ done' \in [Ends -> Nat] /\ base' \in [Ends -> Nat]
        /\ timer' \in [Ends -> Nat] /\ limit' \in [Ends -> Limits] /\ alive' \in [Ends -> BOOLEAN]
    BY <1>1 DEF EntityInv, EntityTypeOK, Call, Goto, Calls, Results
  <2>2. \A d \in Ends : done'[d] <= request'[d]
    BY <1>1 DEF EntityInv, EntityTypeOK, Call
  <2> QED
    BY <2>1, <2>2 DEF EntityTypeOK
<1>3. /\ Pc(e) = "idle" /\ call[e] = "idle" /\ BeginCount(e)
      /\ call'[e] = "first" /\ done'[e] = 0 /\ request'[e] = n /\ base'[e] = Moved(e)
      /\ e = "writer" => Moved(e) + n <= MaxBytes
  BY DEF Call, At, Goto, EntityInv, EntityTypeOK, Moved
<1>4. /\ Pc(e)' = "check" /\ Moved(e)' = Moved(e) /\ Pending(e)' = 0
      /\ UNCHANGED EndVars(Peer(e))
  BY <1>3, BeginCountMoves
<1>5. UNCHANGED CallVarsOf(Peer(e))
  BY TwoEnds DEF Call, Goto, CallVarsOf, EntityInv, EntityTypeOK
<1>6. EndInv(e)'
  BY <1>1, <1>3, <1>4
     DEF EndInv, EndFollowsCall, CallFollowsStream, RequestWithinBound, ResultStaysExact
<1>7. BufferNext
  BY <1>3 DEF BeginCount, BufferNext, Pc
<1> QED
  BY <1>2, <1>4, <1>5, <1>6, <1>7 DEF Keeps

\* A request that does not fit is for at least one byte.
LEMMA EnterLoopKeeps ==
  ASSUME EntityInv, NEW e \in Ends, EnterLoop(e)
  PROVE  Keeps(e)
<1>1. EntityTypeOK'
  BY DEF EntityInv, EntityTypeOK, EnterLoop, Goto, Calls
<1>2. /\ Pc(e) = "idle" /\ call[e] = "first" /\ call'[e] = "loop"
      /\ request'[e] = request[e] /\ done'[e] = done[e]
      /\ base'[e] = base[e] /\ result'[e] = result[e]
      /\ request[e] > 0
  <2>1. Room(e) \in Nat /\ Room(e) < request[e] /\ request[e] \in Nat
    BY EndNumbers, CallTypes DEF EnterLoop, EntityInv
  <2> QED
    BY <2>1 DEF EnterLoop, At, Goto, EntityInv, EntityTypeOK
<1>3. UNCHANGED EndVars(e) /\ UNCHANGED EndVars(Peer(e)) /\ UNCHANGED bufferVars
  BY TwoEnds, BufferUntouched DEF EnterLoop
<1>4. UNCHANGED CallVarsOf(Peer(e))
  BY TwoEnds DEF EnterLoop, Goto, CallVarsOf, EntityInv, EntityTypeOK
<1>5. EndInv(e)'
  BY <1>2, <1>3
     DEF EntityInv, EndInv, EndFollowsCall, CallFollowsStream, RequestWithinBound, ResultStaysExact,
         EndVars
<1> QED
  BY <1>1, <1>3, <1>4, <1>5 DEF Keeps

\* A turn of the loop that finds no room moves nothing.
LEMMA NoRoomKeeps ==
  ASSUME EntityInv, NEW e \in Ends, NoRoom(e)
  PROVE  Keeps(e)
<1>1. EntityTypeOK'
  BY DEF EntityInv, EntityTypeOK, NoRoom, Goto, Calls
<1>2. /\ Pc(e) = "idle" /\ call[e] = "query" /\ call'[e] = "loop"
      /\ request'[e] = request[e] /\ done'[e] = done[e]
      /\ base'[e] = base[e] /\ result'[e] = result[e]
  BY DEF NoRoom, At, Goto, EntityInv, EntityTypeOK
<1>3. UNCHANGED EndVars(e) /\ UNCHANGED EndVars(Peer(e)) /\ UNCHANGED bufferVars
  BY TwoEnds, BufferUntouched DEF NoRoom
<1>4. UNCHANGED CallVarsOf(Peer(e))
  BY TwoEnds DEF NoRoom, Goto, CallVarsOf, EntityInv, EntityTypeOK
<1>5. EndInv(e)'
  BY <1>2, <1>3
     DEF EntityInv, EndInv, EndFollowsCall, CallFollowsStream, RequestWithinBound, ResultStaysExact,
         EndVars
<1> QED
  BY <1>1, <1>3, <1>4, <1>5 DEF Keeps

\* The loop asks for a count when nothing is pending.
LEMMA QueryKeeps ==
  ASSUME EntityInv, NEW e \in Ends, Query(e)
  PROVE  Keeps(e)
<1>1. EntityTypeOK'
  BY DEF EntityInv, EntityTypeOK, Query, Goto, Calls
<1>2. /\ Pc(e) = "idle" /\ call[e] = "loop" /\ BeginCount(e) /\ call'[e] = "query"
      /\ request'[e] = request[e] /\ done'[e] = done[e] /\ base'[e] = base[e]
      /\ done[e] # request[e]
  BY DEF Query, LoopGoesOn, At, Goto, EntityInv, EntityTypeOK
<1>3. /\ Pc(e)' = "check" /\ Moved(e)' = Moved(e) /\ Start(e)' = Start(e) /\ Pending(e)' = 0
      /\ UNCHANGED EndVars(Peer(e))
  BY <1>2, BeginCountMoves
<1>4. Pending(e) = 0
  BY <1>2, EndNumbers DEF EntityInv
<1>5. UNCHANGED CallVarsOf(Peer(e))
  BY TwoEnds DEF Query, Goto, CallVarsOf, EntityInv, EntityTypeOK
<1>6. EndInv(e)'
  BY <1>2, <1>3, <1>4
     DEF EntityInv, EndInv, EndFollowsCall, CallFollowsStream, RequestWithinBound, ResultStaysExact
<1>7. BufferNext
  BY <1>2 DEF BeginCount, BufferNext, Pc
<1> QED
  BY <1>1, <1>3, <1>5, <1>6, <1>7 DEF Keeps

\* The whole request fits: base is where the stream is, and the request within
\* the count.
LEMMA DirectKeeps ==
  ASSUME EntityInv, NEW e \in Ends, Direct(e)
  PROVE  Keeps(e)
<1>1. EntityTypeOK'
  BY DEF EntityInv, EntityTypeOK, Direct, Goto, Calls
<1>2. /\ Pc(e) = "idle" /\ call[e] = "first" /\ Room(e) >= request[e]
      /\ BeginTransfer(e, 0, request[e]) /\ call'[e] = "direct"
      /\ request'[e] = request[e] /\ base'[e] = base[e]
  BY DEF Direct, At, Goto, EntityInv, EntityTypeOK
<1>3. /\ request[e] \in Nat /\ base[e] \in Nat /\ Room(e) \in Nat /\ Moved(e) \in Nat
      /\ Pending(e) = 0 /\ done[e] = 0
  BY <1>2, CallTypes, EndNumbers DEF EntityInv, EndInv, CallFollowsStream
<1>4. base[e] = Moved(e)
  BY <1>2, <1>3 DEF EntityInv, EndInv, CallFollowsStream
<1>5. /\ Pc(e)' = "copy" /\ Moved(e)' = Moved(e) /\ Start(e)' = Moved(e) - 0
      /\ Pending(e)' = request[e] /\ UNCHANGED EndVars(Peer(e))
  BY <1>2, <1>3, BeginTransferMoves DEF EntityInv
<1>6. UNCHANGED CallVarsOf(Peer(e))
  BY TwoEnds DEF Direct, Goto, CallVarsOf, EntityInv, EntityTypeOK
<1>7. EndInv(e)'
  BY <1>2, <1>3, <1>4, <1>5
     DEF EndInv, EndFollowsCall, CallFollowsStream, RequestWithinBound, ResultStaysExact
<1>8. BufferNext
  <2>1. e = "writer" => sent + request[e] <= MaxBytes
    BY <1>2, <1>4 DEF EntityInv, EndInv, RequestWithinBound, Moved
  <2>2. request[e] \in 0 .. Room(e)
    BY <1>2, <1>3
  <2> QED
    BY <1>2, <2>1, <2>2, TransferIsLegal DEF EntityInv
<1> QED
  BY <1>1, <1>5, <1>6, <1>7, <1>8 DEF Keeps

\* A chunk goes on where the last one stopped, within the count and within what
\* is left of the request.
LEMMA ChunkKeeps ==
  ASSUME EntityInv, NEW e \in Ends, Chunk(e)
  PROVE  Keeps(e)
<1> DEFINE left == request[e] - done[e]
           n == IF Room(e) > left THEN left ELSE Room(e)
<1>1. /\ Pc(e) = "idle" /\ call[e] = "query" /\ TransferChunk(e, done[e], n)
  BY DEF Chunk, At
<1>2. /\ request[e] \in Nat /\ done[e] \in Nat /\ base[e] \in Nat /\ done[e] <= request[e]
      /\ Room(e) \in Nat /\ Moved(e) \in Nat /\ Start(e) \in Nat /\ Pending(e) = 0
  BY <1>1, CallTypes, EndNumbers DEF EntityInv
<1>3. n \in Nat /\ n \in 0 .. Room(e) /\ done[e] + n <= request[e]
  BY <1>2
<1> HIDE DEF n
<1>4. /\ BeginTransfer(e, done[e], n) /\ call'[e] = "loop" /\ done'[e] = done[e] + n
      /\ request'[e] = request[e] /\ base'[e] = base[e]
  BY <1>1 DEF TransferChunk, Goto, EntityInv, EntityTypeOK
<1>5. base[e] + done[e] = Moved(e) /\ (done[e] > 0 => Start(e) = base[e])
  BY <1>1, <1>2 DEF EntityInv, EndInv, CallFollowsStream
<1>6. /\ Pc(e)' = "copy" /\ Moved(e)' = Moved(e) /\ Start(e)' = Moved(e) - done[e]
      /\ Pending(e)' = n /\ UNCHANGED EndVars(Peer(e))
  BY <1>1, <1>2, <1>3, <1>4, BeginTransferMoves DEF EntityInv
<1>7. EntityTypeOK'
  <2>1. /\ call' \in [Ends -> Calls] /\ done' \in [Ends -> Nat] /\ timer' \in [Ends -> Nat]
        /\ UNCHANGED <<request, base, result, limit, alive>>
    BY <1>1, <1>2, <1>3 DEF TransferChunk, Goto, Calls, EntityInv, EntityTypeOK
  <2>2. \A d \in Ends : done'[d] <= request'[d]
    BY <1>1, <1>2, <1>3 DEF TransferChunk, EntityInv, EntityTypeOK
  <2> QED
    BY <2>1, <2>2 DEF EntityInv, EntityTypeOK
<1>8. UNCHANGED CallVarsOf(Peer(e))
  BY <1>1, TwoEnds DEF TransferChunk, Goto, CallVarsOf, EntityInv, EntityTypeOK
<1>9. EndInv(e)'
  <2>1. base[e] + (done[e] + n) = Moved(e) + n /\ Moved(e) - done[e] = base[e]
    BY <1>2, <1>3, <1>5
  <2>2. RequestWithinBound(e)'
    BY <1>1, <1>4 DEF EntityInv, EndInv, RequestWithinBound
  <2>3. request[e] > 0
    BY <1>1 DEF EntityInv, EndInv, CallFollowsStream
  <2> QED
    BY <1>4, <1>6, <2>1, <2>2, <2>3 DEF EndInv, EndFollowsCall, CallFollowsStream, ResultStaysExact
<1>10. BufferNext
  <2>1. done[e] \in {0, Moved(e) - Start(e)}
    BY <1>2, <1>5
  <2>2. e = "writer" => sent + n <= MaxBytes
    <3>1. e = "writer" => base[e] + request[e] <= MaxBytes /\ Moved(e) = sent
      BY <1>1 DEF EntityInv, EndInv, RequestWithinBound, Moved
    <3> QED
      BY <1>2, <1>3, <1>5, <3>1, MaxBytesAssumption
  <2> QED
    BY <1>3, <1>4, <2>1, <2>2, TransferIsLegal DEF EntityInv
<1> QED
  BY <1>6, <1>7, <1>8, <1>9, <1>10 DEF Keeps

\* The call returns when the last chunk is published: what it reports is what it
\* moved.
LEMMA ReturnKeeps ==
  ASSUME EntityInv, NEW e \in Ends, Return(e)
  PROVE  Keeps(e)
<1>1. \/ call[e] = "direct" /\ ReturnWith(e, "true")
      \/ call[e] = "loop" /\ done[e] = request[e] /\ ReturnWith(e, "true")
      \/ call[e] = "loop" /\ done[e] # request[e] /\ ReturnWith(e, "false")
  BY DEF Return, At
<1>2. EntityTypeOK'
  BY <1>1 DEF EntityInv, EntityTypeOK, ReturnWith, Goto, Calls, Results
<1>3. /\ call'[e] = "idle" /\ request'[e] = request[e] /\ base'[e] = base[e]
  BY <1>1 DEF ReturnWith, Goto, EntityInv, EntityTypeOK
<1>4. UNCHANGED EndVars(e) /\ UNCHANGED EndVars(Peer(e)) /\ UNCHANGED bufferVars
  BY <1>1, TwoEnds, BufferUntouched DEF ReturnWith
<1>5. UNCHANGED CallVarsOf(Peer(e))
  BY <1>1, TwoEnds DEF ReturnWith, Goto, CallVarsOf, EntityInv, EntityTypeOK
<1>6. /\ request[e] \in Nat /\ done[e] \in Nat /\ base[e] \in Nat /\ done[e] <= request[e]
      /\ Moved(e) \in Nat
      /\ Pc(e) = "idle" /\ Pending(e) = 0
  BY CallTypes, EndNumbers DEF EntityInv, Return, At
<1>7. ResultStaysExact(e)'
  <2>1. Moved(e)' = Moved(e) /\ Start(e)' = Start(e)
    BY <1>4 DEF EndVars
  <2>2. CASE call[e] = "direct" /\ ReturnWith(e, "true")
    <3>1. Moved(e) = base[e] + request[e] /\ Start(e) = base[e]
      BY <1>6, <2>2 DEF EntityInv, EndInv, CallFollowsStream
    <3>2. result'[e] = "true"
      BY <2>2 DEF ReturnWith, EntityInv, EntityTypeOK
    <3> QED
      BY <1>3, <2>1, <3>1, <3>2 DEF ResultStaysExact
  <2>3. CASE call[e] = "loop" /\ done[e] = request[e] /\ ReturnWith(e, "true")
    <3>1. Moved(e) = base[e] + request[e] /\ Start(e) = base[e]
      BY <1>6, <2>3 DEF EntityInv, EndInv, CallFollowsStream
    <3>2. result'[e] = "true"
      BY <2>3 DEF ReturnWith, EntityInv, EntityTypeOK
    <3> QED
      BY <1>3, <2>1, <3>1, <3>2 DEF ResultStaysExact
  <2>4. CASE call[e] = "loop" /\ done[e] # request[e] /\ ReturnWith(e, "false")
    <3>1. Moved(e) = base[e] + done[e]
      BY <1>6, <2>4 DEF EntityInv, EndInv, CallFollowsStream
    <3>2. base[e] <= Moved(e) /\ Moved(e) < base[e] + request[e]
      BY <1>6, <2>4, <3>1
    <3>3. result'[e] = "false"
      BY <2>4 DEF ReturnWith, EntityInv, EntityTypeOK
    <3> QED
      BY <1>3, <2>1, <3>2, <3>3 DEF ResultStaysExact
  <2> QED
    BY <1>1, <2>2, <2>3, <2>4
<1>8. EndInv(e)'
  BY <1>3, <1>4, <1>6, <1>7
     DEF EndVars, EndInv, EndFollowsCall, CallFollowsStream, RequestWithinBound
<1> QED
  BY <1>2, <1>4, <1>5, <1>8 DEF Keeps

\* A crash leaves the call and the buffer as they are.
LEMMA CrashKeeps ==
  ASSUME EntityInv, NEW e \in Ends, Crash(e)
  PROVE  Keeps(e)
<1>1. EntityTypeOK'
  BY DEF EntityInv, EntityTypeOK, Crash
<1>2. UNCHANGED EndVars(e) /\ UNCHANGED EndVars(Peer(e)) /\ UNCHANGED bufferVars
  BY TwoEnds, BufferUntouched DEF Crash
<1>3. UNCHANGED CallVarsOf(e) /\ UNCHANGED CallVarsOf(Peer(e))
  BY DEF Crash, CallVarsOf
<1> QED
  BY <1>1, <1>2, <1>3, EndKept DEF EntityInv, Keeps

\* Time touches neither end.
LEMMA TickKeeps ==
  ASSUME EntityInv, Tick
  PROVE  /\ EntityTypeOK' /\ UNCHANGED bufferVars
         /\ \A d \in Ends : EndInv(d)'
<1>1. EntityTypeOK'
  <2>1. /\ UNCHANGED <<call, request, done, result, limit, alive, base>>
        /\ timer' \in [Ends -> Nat]
    BY DEF Tick, EntityInv, EntityTypeOK
  <2> QED
    BY <2>1 DEF EntityInv, EntityTypeOK
<1>2. \A d \in Ends : UNCHANGED EndVars(d) /\ UNCHANGED CallVarsOf(d)
  BY BufferUntouched DEF Tick, CallVarsOf
<1> QED
  BY <1>1, <1>2, EndKept DEF EntityInv, Tick

-----------------------------------------------------------------------------
(* The invariant and what follows from it.                                 *)

\* Both processes start idle, with nothing moved.
LEMMA EntityInvInit == EntityInit => EntityInv
<1> SUFFICES ASSUME EntityInit PROVE EntityInv
  OBVIOUS
<1>1. RingInv
  BY RingInvInit DEF EntityInit
<1>2. EntityTypeOK
  BY DEF EntityInit, EntityTypeOK, Calls, Results
<1>3. ASSUME NEW e \in Ends PROVE EndInv(e)
  <2>1. call[e] = "idle" /\ result[e] = "none" /\ Pc(e) = "idle"
    BY DEF EntityInit, BufferInit, Pc
  <2> QED
    BY <2>1 DEF EndInv, EndFollowsCall, CallFollowsStream, RequestWithinBound, ResultStaysExact
<1> QED
  BY <1>1, <1>2, <1>3 DEF EntityInv

\* Every step of the two processes keeps the invariant, and uses the buffer as
\* CircularBuffer allows.
LEMMA EntityStep ==
  EntityInv /\ [EntityNext]_entityVars => EntityInv' /\ [BufferNext]_bufferVars
<1> SUFFICES ASSUME EntityInv, [EntityNext]_entityVars
             PROVE  /\ EntityTypeOK' /\ (\A d \in Ends : EndInv(d)')
                    /\ [BufferNext]_bufferVars
  BY RingInvStep DEF EntityInv
<1>1. ASSUME NEW e \in Ends, GoOn(e) \/ Calling(e) \/ Crash(e)
      PROVE  Keeps(e)
  <2>1. CASE GoOn(e)
    BY <2>1, CountReturnsKeeps, BufferStepKeeps, DirectKeeps, EnterLoopKeeps, QueryKeeps,
       NoRoomKeeps, ChunkKeeps, ReturnKeeps DEF GoOn
  <2>2. CASE Calling(e)
    BY <2>2, CountKeeps, SetTimeoutKeeps, CallKeeps DEF Calling
  <2> QED
    BY <1>1, <2>1, <2>2, CrashKeeps
<1>2. ASSUME NEW e \in Ends, Keeps(e)
      PROVE  /\ EntityTypeOK' /\ (\A d \in Ends : EndInv(d)')
             /\ [BufferNext]_bufferVars
  BY <1>2, OneEndMoves DEF Keeps
<1>3. CASE Tick
  BY <1>3, TickKeeps
<1>4. CASE UNCHANGED entityVars
  <2>1. UNCHANGED bufferVars /\ UNCHANGED callVars
    BY <1>4 DEF entityVars
  <2>2. \A d \in Ends : UNCHANGED EndVars(d) /\ UNCHANGED CallVarsOf(d)
    BY <2>1, BufferUntouched DEF callVars, CallVarsOf
  <2>3. EntityTypeOK'
    BY <2>1 DEF callVars, EntityInv, EntityTypeOK
  <2> QED
    BY <2>1, <2>2, <2>3, EndKept DEF EntityInv
<1> QED
  BY <1>1, <1>2, <1>3, <1>4 DEF EntityNext

\* Through chunks, timeouts and crashes, a call and its end of the buffer agree on
\* how far they have come (EntityInv).
THEOREM EntityInvariant == EntitySpec => []EntityInv
<1>1. EntityInit => EntityInv
  BY EntityInvInit
<1>2. EntityInv /\ [EntityNext]_entityVars => EntityInv'
  BY EntityStep
<1> QED
  BY <1>1, <1>2, PTL DEF EntitySpec

\* The variables of the calls have their types (EntityTypeOK).
THEOREM EntityTypeCorrect == EntitySpec => []EntityTypeOK
<1>1. EntityInv => EntityTypeOK
  BY DEF EntityInv
<1> QED
  BY <1>1, EntityInvariant, PTL

\* cEntity asks its end for no more than it was told, and goes on in the caller's
\* data where it stopped (KeepsTheBargain): two entities are a legal use of the
\* buffer, and every theorem about BufferSpec holds for them.
THEOREM LegalUse == EntitySpec => KeepsTheBargain
<1>1. EntityInit => BufferInit
  BY DEF EntityInit
<1>2. EntityInv /\ [EntityNext]_entityVars => [BufferNext]_bufferVars
  BY EntityStep
<1> QED
  BY <1>1, <1>2, EntityInvariant, PTL DEF EntitySpec, KeepsTheBargain, BufferSpec

\* The bytes ReadData of cEntity delivers are those WriteData was given, in order
\* (DeliveredInOrder).
THEOREM EntityDelivery == EntitySpec => []DeliveredInOrder
BY LegalUse, Delivery DEF KeepsTheBargain

\* What is between two entities is a bounded FIFO stream (ImplementsStream).
THEOREM EntityStream == EntitySpec => ImplementsStream
BY LegalUse, Refinement DEF KeepsTheBargain

\* What WriteData returns says exactly what it wrote (WriteResultIsExact).
THEOREM WriteResults == EntitySpec => []WriteResultIsExact
<1>1. EntityInv => WriteResultIsExact
  BY DEF EntityInv, EndInv, ResultStaysExact, Ends, Moved, Start, WriteResultIsExact
<1> QED
  BY <1>1, EntityInvariant, PTL

\* What ReadData returns says exactly what is in dataSink (ReadResultIsExact).
THEOREM ReadResults == EntitySpec => []ReadResultIsExact
<1>1. EntityInv => ReadResultIsExact
  <2> SUFFICES ASSUME EntityInv, call["reader"] = "idle"
               PROVE  /\ result["reader"] = "true" =>
                           /\ rcvd = base["reader"] + request["reader"]
                           /\ \A x \in 0 .. request["reader"] - 1 :
                                x \in DOMAIN sink /\ sink[x] = base["reader"] + x
                      /\ result["reader"] = "false" =>
                           base["reader"] <= rcvd /\ rcvd < base["reader"] + request["reader"]
    BY DEF ReadResultIsExact
  <2>1. "reader" \in Ends /\ rpc = "idle" /\ EndInv("reader")
    BY DEF EntityInv, EndInv, EndFollowsCall, Ends, Pc
  <2>2. /\ result["reader"] = "true" =>
             rcvd = base["reader"] + request["reader"] /\ rstart = base["reader"]
        /\ result["reader"] = "false" =>
             base["reader"] <= rcvd /\ rcvd < base["reader"] + request["reader"]
    BY <2>1 DEF EndInv, ResultStaysExact, Moved, Start
  <2>3. request["reader"] \in Nat /\ base["reader"] \in Nat
    BY <2>1, CallTypes
  <2>4. /\ \A x \in DOMAIN sink : sink[x] = rstart + x
        /\ DOMAIN sink = 0 .. rcvd - rstart - 1
    BY <2>1 DEF EntityInv, RingInv, SinkHoldsStream
  <2>5. result["reader"] = "true" => rcvd - rstart - 1 = request["reader"] - 1
    BY <2>2, <2>3
  <2> QED
    BY <2>2, <2>4, <2>5
<1> QED
  BY <1>1, EntityInvariant, PTL
-----------------------------------------------------------------------------
(* Two entities implement a pipe.                                          *)

\* An end as an end of the pipe.
Tag(e) == <<"ring", e>>

\* What the pipe has of an end.
View(e) ==
  <<Moved(e), Room(e), Pending(e), Place(e), request[e], done[e], result[e]>>

\* The pipe has the two ends, and they are each other's peers there too.
LEMMA PipeHasEnds ==
  /\ PipeEnds = P!Ends
  /\ \A x \in PipeEnds : \E e \in Ends : x = Tag(e)
  /\ \A e \in Ends : Tag(e) \in PipeEnds /\ Tag(e)[2] = e /\ P!Peer(Tag(e)) = Tag(Peer(e))
  BY DEF PipeEnds, P!Ends, P!Peer, Ends, Tag, Peer

\* The variables of the pipe at an end.
LEMMA PipeAtEnd ==
  ASSUME NEW e \in Ends
  PROVE  /\ pipeMoved[Tag(e)] = Moved(e) /\ pipeRoom[Tag(e)] = Room(e)
         /\ pipePending[Tag(e)] = Pending(e) /\ pipeCall[Tag(e)] = Place(e)
         /\ pipeRequest[Tag(e)] = request[e] /\ pipeDone[Tag(e)] = done[e]
         /\ pipeResult[Tag(e)] = result[e]
  BY PipeHasEnds
     DEF pipeMoved, pipeRoom, pipePending, pipeCall, pipeRequest, pipeDone, pipeResult

\* Two functions on the ends of the pipe that agree at the peer of an end.
LEMMA OneEndDiffers ==
  ASSUME NEW e \in Ends, NEW f, NEW g,
         f = [x \in PipeEnds |-> f[x]], g = [x \in PipeEnds |-> g[x]],
         g[Tag(Peer(e))] = f[Tag(Peer(e))]
  PROVE  g = [f EXCEPT ![Tag(e)] = g[Tag(e)]]
<1>1. \A x \in PipeEnds : x = Tag(e) \/ x = Tag(Peer(e))
  BY PipeHasEnds, TwoEnds
<1>2. Tag(e) \in PipeEnds
  BY PipeHasEnds
<1> QED
  BY <1>1, <1>2

\* A step that leaves the other end alone changes the pipe at its own end only.
LEMMA OneEndChanges ==
  ASSUME NEW e \in Ends, UNCHANGED View(Peer(e))
  PROVE  /\ pipeMoved' = [pipeMoved EXCEPT ![Tag(e)] = Moved(e)']
         /\ pipeRoom' = [pipeRoom EXCEPT ![Tag(e)] = Room(e)']
         /\ pipePending' = [pipePending EXCEPT ![Tag(e)] = Pending(e)']
         /\ pipeCall' = [pipeCall EXCEPT ![Tag(e)] = Place(e)']
         /\ pipeRequest' = [pipeRequest EXCEPT ![Tag(e)] = request'[e]]
         /\ pipeDone' = [pipeDone EXCEPT ![Tag(e)] = done'[e]]
         /\ pipeResult' = [pipeResult EXCEPT ![Tag(e)] = result'[e]]
<1>1. Peer(e) \in Ends
  BY TwoEnds
<1>2. /\ pipeMoved'[Tag(e)] = Moved(e)' /\ pipeRoom'[Tag(e)] = Room(e)'
      /\ pipePending'[Tag(e)] = Pending(e)' /\ pipeCall'[Tag(e)] = Place(e)'
      /\ pipeRequest'[Tag(e)] = request'[e] /\ pipeDone'[Tag(e)] = done'[e]
      /\ pipeResult'[Tag(e)] = result'[e]
  BY PipeHasEnds
     DEF pipeMoved, pipeRoom, pipePending, pipeCall, pipeRequest, pipeDone, pipeResult
<1>3. LET p == Tag(Peer(e)) IN
      /\ pipeMoved'[p] = pipeMoved[p] /\ pipeRoom'[p] = pipeRoom[p]
      /\ pipePending'[p] = pipePending[p] /\ pipeCall'[p] = pipeCall[p]
      /\ pipeRequest'[p] = pipeRequest[p] /\ pipeDone'[p] = pipeDone[p]
      /\ pipeResult'[p] = pipeResult[p]
  BY <1>1, PipeHasEnds
     DEF View, pipeMoved, pipeRoom, pipePending, pipeCall, pipeRequest, pipeDone, pipeResult
<1>4. /\ pipeMoved' = [pipeMoved EXCEPT ![Tag(e)] = pipeMoved'[Tag(e)]]
      /\ pipeRoom' = [pipeRoom EXCEPT ![Tag(e)] = pipeRoom'[Tag(e)]]
      /\ pipePending' = [pipePending EXCEPT ![Tag(e)] = pipePending'[Tag(e)]]
      /\ pipeCall' = [pipeCall EXCEPT ![Tag(e)] = pipeCall'[Tag(e)]]
      /\ pipeRequest' = [pipeRequest EXCEPT ![Tag(e)] = pipeRequest'[Tag(e)]]
      /\ pipeDone' = [pipeDone EXCEPT ![Tag(e)] = pipeDone'[Tag(e)]]
      /\ pipeResult' = [pipeResult EXCEPT ![Tag(e)] = pipeResult'[Tag(e)]]
  <2>1. \A f, g : /\ f = [x \in PipeEnds |-> f[x]] /\ g = [x \in PipeEnds |-> g[x]]
                  /\ g[Tag(Peer(e))] = f[Tag(Peer(e))]
                  => g = [f EXCEPT ![Tag(e)] = g[Tag(e)]]
    BY OneEndDiffers
  <2>2. /\ pipeMoved = [x \in PipeEnds |-> pipeMoved[x]]
        /\ pipeRoom = [x \in PipeEnds |-> pipeRoom[x]]
        /\ pipePending = [x \in PipeEnds |-> pipePending[x]]
        /\ pipeCall = [x \in PipeEnds |-> pipeCall[x]]
        /\ pipeRequest = [x \in PipeEnds |-> pipeRequest[x]]
        /\ pipeDone = [x \in PipeEnds |-> pipeDone[x]]
        /\ pipeResult = [x \in PipeEnds |-> pipeResult[x]]
    BY DEF pipeMoved, pipeRoom, pipePending, pipeCall, pipeRequest, pipeDone, pipeResult
  <2>3. /\ pipeMoved' = [x \in PipeEnds |-> pipeMoved'[x]]
        /\ pipeRoom' = [x \in PipeEnds |-> pipeRoom'[x]]
        /\ pipePending' = [x \in PipeEnds |-> pipePending'[x]]
        /\ pipeCall' = [x \in PipeEnds |-> pipeCall'[x]]
        /\ pipeRequest' = [x \in PipeEnds |-> pipeRequest'[x]]
        /\ pipeDone' = [x \in PipeEnds |-> pipeDone'[x]]
        /\ pipeResult' = [x \in PipeEnds |-> pipeResult'[x]]
    BY DEF pipeMoved, pipeRoom, pipePending, pipeCall, pipeRequest, pipeDone, pipeResult
  <2> QED
    BY <1>3, <2>1, <2>2, <2>3
<1> QED
  BY <1>2, <1>4

\* What a step does not change at its own end it does not change in the pipe.
LEMMA NothingAtEnd ==
  ASSUME NEW e \in Ends, UNCHANGED View(Peer(e))
  PROVE  /\ UNCHANGED Moved(e) => UNCHANGED pipeMoved
         /\ UNCHANGED Room(e) => UNCHANGED pipeRoom
         /\ UNCHANGED Pending(e) => UNCHANGED pipePending
         /\ UNCHANGED Place(e) => UNCHANGED pipeCall
         /\ UNCHANGED request[e] => UNCHANGED pipeRequest
         /\ UNCHANGED done[e] => UNCHANGED pipeDone
         /\ UNCHANGED result[e] => UNCHANGED pipeResult
<1>1. \A x \in PipeEnds : x[2] = e \/ x[2] = Peer(e)
  BY PipeHasEnds, TwoEnds
<1>2. /\ Moved(Peer(e))' = Moved(Peer(e)) /\ Room(Peer(e))' = Room(Peer(e))
      /\ Pending(Peer(e))' = Pending(Peer(e)) /\ Place(Peer(e))' = Place(Peer(e))
      /\ request'[Peer(e)] = request[Peer(e)] /\ done'[Peer(e)] = done[Peer(e)]
      /\ result'[Peer(e)] = result[Peer(e)]
  BY DEF View
<1> QED
  BY <1>1, <1>2
     DEF pipeMoved, pipeRoom, pipePending, pipeCall, pipeRequest, pipeDone, pipeResult

\* A step that leaves both ends alone leaves the pipe alone.
LEMMA NoEndChanges ==
  ASSUME \A e \in Ends : UNCHANGED View(e)
  PROVE  UNCHANGED P!pipeVars
<1>1. \A x \in PipeEnds : x[2] \in Ends
  BY PipeHasEnds
<1> QED
  BY <1>1
     DEF View, P!pipeVars, pipeMoved, pipeRoom, pipePending, pipeCall, pipeRequest, pipeDone,
         pipeResult

\* An end is as it was for the pipe when the buffer and the call have not changed
\* for it.
LEMMA ViewStays ==
  ASSUME NEW e \in Ends, UNCHANGED EndVars(e), UNCHANGED CallVarsOf(e)
  PROVE  UNCHANGED View(e)
  BY DEF EndVars, CallVarsOf, View, Place

\* A step of an end leaves its peer alone (Keeps).
LEMMA PeerStays ==
  ASSUME NEW e \in Ends, Keeps(e)
  PROVE  UNCHANGED View(Peer(e))
  BY TwoEnds, ViewStays DEF Keeps

\* So if it leaves the end alone too, the pipe does not move.
LEMMA PipeStays ==
  ASSUME NEW e \in Ends, Keeps(e), UNCHANGED View(e)
  PROVE  UNCHANGED P!pipeVars
<1>1. \A d \in Ends : UNCHANGED View(d)
  BY PeerStays, TwoEnds
<1> QED
  BY <1>1, NoEndChanges

-----------------------------------------------------------------------------
(* The steps that the pipe does not see.                                   *)

\* A count loads a pointer and gives nothing yet.
LEMMA BeginCountUnseen ==
  ASSUME RingInv, NEW e \in Ends, Pc(e) = "idle", BeginCount(e)
  PROVE  /\ Moved(e)' = Moved(e) /\ Room(e)' = Room(e)
         /\ Pending(e) = 0 /\ Pending(e)' = Pending(e)
<1>1. CASE e = "writer"
  BY <1>1 DEF BeginCount, LoadSecondConsumer, Pc, Moved, Pending, Room, writePending
<1>2. CASE e = "reader"
  BY <1>2 DEF BeginCount, LoadSecondProducer, Pc, Moved, Pending, Room, readPending
<1> QED
  BY <1>1, <1>2 DEF Ends

\* A new limit, the return of a count, a turn without room and a crash.
LEMMA QuietSteps ==
  ASSUME EntityInv, NEW e \in Ends,
         \/ CountReturns(e) \/ NoRoom(e) \/ Crash(e)
         \/ \E l \in Limits : SetTimeout(e, l)
  PROVE  UNCHANGED P!pipeVars
<1>1. Keeps(e)
  BY CountReturnsKeeps, NoRoomKeeps, CrashKeeps, SetTimeoutKeeps
<1>2. UNCHANGED bufferVars /\ UNCHANGED <<request, done, result>>
  BY DEF CountReturns, NoRoom, Crash, SetTimeout
<1>3. Place(e)' = Place(e)
  BY DEF CountReturns, NoRoom, Crash, SetTimeout, At, Goto, Place, EntityInv, EntityTypeOK
<1>4. UNCHANGED View(e)
  BY <1>2, <1>3, BufferUntouched DEF View, EndVars
<1> QED
  BY <1>1, <1>4, PipeStays

\* The beginning of a count, for the program or in the loop.
LEMMA CountsBegin ==
  ASSUME EntityInv, NEW e \in Ends, Count(e) \/ Query(e)
  PROVE  UNCHANGED P!pipeVars
<1>1. Keeps(e)
  BY CountKeeps, QueryKeeps
<1>2. RingInv /\ Pc(e) = "idle" /\ BeginCount(e) /\ UNCHANGED <<request, done, result>>
  BY DEF Count, Query, At, EntityInv
<1>3. Place(e)' = Place(e)
  BY DEF Count, Query, At, Goto, Place, EntityInv, EntityTypeOK
<1>4. UNCHANGED View(e)
  BY <1>2, <1>3, BeginCountUnseen DEF View
<1> QED
  BY <1>1, <1>4, PipeStays

\* The time.
LEMMA TickUnseen ==
  ASSUME Tick
  PROVE  UNCHANGED P!pipeVars
<1>1. \A d \in Ends : UNCHANGED View(d)
  BY BufferUntouched, ViewStays DEF Tick, CallVarsOf
<1> QED
  BY <1>1, NoEndChanges

-----------------------------------------------------------------------------
(* The steps of a call.                                                    *)

\* A call begins with a load, which the pipe does not see, and its request.
LEMMA CallImplements ==
  ASSUME EntityInv, NEW e \in Ends, NEW n \in Requests, Call(e, n)
  PROVE  P!Call(Tag(e), n)
<1>1. UNCHANGED View(Peer(e))
  BY CallKeeps, PeerStays
<1>2. /\ Moved(e)' = Moved(e) /\ Room(e)' = Room(e) /\ Pending(e)' = Pending(e)
  BY BeginCountUnseen DEF Call, At, EntityInv
<1>3. /\ Place(e) = "idle" /\ Place(e)' = "first" /\ request'[e] = n /\ done'[e] = 0
      /\ result'[e] = "none"
  BY DEF Call, At, Goto, Place, EntityInv, EntityTypeOK
<1>4. UNCHANGED pipeMoved /\ UNCHANGED pipeRoom /\ UNCHANGED pipePending
  BY <1>1, <1>2, NothingAtEnd
<1> QED
  BY <1>1, <1>3, <1>4, OneEndChanges, PipeAtEnd DEF P!Call
\* A transfer takes its bytes off the count.
LEMMA BeginTransferTakes ==
  ASSUME NEW e \in Ends, NEW off, NEW n, BeginTransfer(e, off, n)
  PROVE  Room(e)' = Room(e) - n
<1>1. CASE e = "writer"
  BY <1>1 DEF BeginTransfer, BeginWriteData, Room
<1>2. CASE e = "reader"
  BY <1>2 DEF BeginTransfer, BeginReadData, Room
<1> QED
  BY <1>1, <1>2 DEF Ends

\* The whole request fits.
LEMMA DirectImplements ==
  ASSUME EntityInv, NEW e \in Ends, Direct(e)
  PROVE  P!Direct(Tag(e))
<1>1. UNCHANGED View(Peer(e))
  BY DirectKeeps, PeerStays
<1>2. /\ RingInv /\ Pc(e) = "idle" /\ request[e] \in Nat
      /\ Room(e) >= request[e] /\ BeginTransfer(e, 0, request[e])
  BY CallTypes DEF Direct, At, EntityInv
<1>3. /\ Moved(e)' = Moved(e) /\ Pending(e)' = request[e]
      /\ Room(e)' = Room(e) - request[e]
  <2>1. \A n \in Nat : BeginTransfer(e, 0, n) =>
          Moved(e)' = Moved(e) /\ Pending(e)' = n /\ Room(e)' = Room(e) - n
    BY <1>2, BeginTransferMoves, BeginTransferTakes
  <2> QED
    BY <1>2, <2>1
<1>4. /\ Place(e) = "first" /\ Place(e)' = "direct"
      /\ UNCHANGED request[e] /\ UNCHANGED done[e] /\ UNCHANGED result[e]
  BY DEF Direct, At, Goto, Place, EntityInv, EntityTypeOK
<1>5. UNCHANGED pipeMoved /\ UNCHANGED pipeRequest /\ UNCHANGED pipeDone /\ UNCHANGED pipeResult
  BY <1>1, <1>3, <1>4, NothingAtEnd
<1> QED
  BY <1>1, <1>2, <1>3, <1>4, <1>5, OneEndChanges, PipeAtEnd DEF P!Direct, P!Begin

\* The request does not fit.
LEMMA EnterLoopImplements ==
  ASSUME EntityInv, NEW e \in Ends, EnterLoop(e)
  PROVE  P!EnterLoop(Tag(e))
<1>1. UNCHANGED View(Peer(e))
  BY EnterLoopKeeps, PeerStays
<1>2. /\ UNCHANGED Moved(e) /\ UNCHANGED Room(e) /\ UNCHANGED Pending(e)
  BY BufferUntouched DEF EnterLoop, EndVars
<1>3. /\ Place(e) = "first" /\ Place(e)' = "loop" /\ Room(e) < request[e]
      /\ UNCHANGED request[e] /\ UNCHANGED done[e] /\ UNCHANGED result[e]
  BY DEF EnterLoop, At, Goto, Place, EntityInv, EntityTypeOK
<1>4. /\ UNCHANGED pipeMoved /\ UNCHANGED pipeRoom /\ UNCHANGED pipePending
      /\ UNCHANGED pipeRequest /\ UNCHANGED pipeDone /\ UNCHANGED pipeResult
  BY <1>1, <1>2, <1>3, NothingAtEnd
<1> QED
  BY <1>1, <1>3, <1>4, OneEndChanges, PipeAtEnd DEF P!EnterLoop

\* A chunk of what is left.
LEMMA ChunkImplements ==
  ASSUME EntityInv, NEW e \in Ends, Chunk(e)
  PROVE  P!Chunk(Tag(e))
<1> DEFINE left == request[e] - done[e]
           n == IF Room(e) > left THEN left ELSE Room(e)
<1>1. UNCHANGED View(Peer(e))
  BY ChunkKeeps, PeerStays
<1>2. /\ RingInv /\ Pc(e) = "idle" /\ call[e] = "query" /\ Room(e) > 0
      /\ TransferChunk(e, done[e], n)
  BY DEF Chunk, At, EntityInv
<1>3. /\ request[e] \in Nat /\ done[e] \in Nat /\ done[e] <= request[e]
      /\ Room(e) \in Nat /\ Pending(e) = 0
  BY <1>2, CallTypes, EndNumbers
<1>4. n \in Nat
  BY <1>3
<1>5. /\ BeginTransfer(e, done[e], n) /\ done'[e] = done[e] + n
      /\ Place(e) = "loop" /\ Place(e)' = "loop"
      /\ UNCHANGED request[e] /\ UNCHANGED result[e]
  BY <1>2 DEF TransferChunk, Goto, Place, EntityInv, EntityTypeOK
<1>6. Moved(e)' = Moved(e) /\ Pending(e)' = n /\ Room(e)' = Room(e) - n
  <2> HIDE DEF n
  <2>1. \A off \in Nat, k \in Nat : BeginTransfer(e, off, k) =>
          Moved(e)' = Moved(e) /\ Pending(e)' = k /\ Room(e)' = Room(e) - k
    BY <1>2, BeginTransferMoves, BeginTransferTakes
  <2> QED
    BY <1>3, <1>4, <1>5, <2>1
<1>7. done[e] < request[e]
  BY <1>2, <1>3 DEF EntityInv, EndInv, CallFollowsStream
<1>8. /\ UNCHANGED pipeMoved /\ UNCHANGED pipeCall /\ UNCHANGED pipeRequest
      /\ UNCHANGED pipeResult
  BY <1>1, <1>5, <1>6, NothingAtEnd
<1> QED
  BY <1>1, <1>2, <1>3, <1>5, <1>6, <1>7, <1>8, OneEndChanges, PipeAtEnd DEF P!Chunk, P!Begin

\* A call ends with everything moved, or gives up.
LEMMA ReturnImplements ==
  ASSUME EntityInv, NEW e \in Ends, Return(e)
  PROVE  P!Complete(Tag(e)) \/ P!GiveUp(Tag(e))
<1>1. UNCHANGED View(Peer(e))
  BY ReturnKeeps, PeerStays
<1>2. \/ call[e] = "direct" /\ ReturnWith(e, "true")
      \/ call[e] = "loop" /\ done[e] = request[e] /\ ReturnWith(e, "true")
      \/ call[e] = "loop" /\ done[e] # request[e] /\ ReturnWith(e, "false")
  BY DEF Return, At
<1>3. Pending(e) = 0 /\ request[e] \in Nat /\ done[e] \in Nat /\ done[e] <= request[e]
  BY CallTypes, EndNumbers DEF Return, At, EntityInv
<1>4. UNCHANGED Moved(e) /\ UNCHANGED Room(e) /\ UNCHANGED Pending(e)
  BY <1>2, BufferUntouched DEF ReturnWith, EndVars
<1>5. /\ Place(e) = call[e] /\ Place(e)' = "idle"
      /\ UNCHANGED request[e] /\ UNCHANGED done[e]
      /\ ReturnWith(e, "true") => result'[e] = "true"
      /\ ReturnWith(e, "false") => result'[e] = "false"
  BY <1>2 DEF ReturnWith, Goto, Place, EntityInv, EntityTypeOK
<1>6. /\ UNCHANGED pipeMoved /\ UNCHANGED pipeRoom /\ UNCHANGED pipePending
      /\ UNCHANGED pipeRequest /\ UNCHANGED pipeDone
  BY <1>1, <1>4, <1>5, NothingAtEnd
<1>7. /\ pipeCall' = [pipeCall EXCEPT ![Tag(e)] = "idle"]
      /\ pipeResult' = [pipeResult EXCEPT ![Tag(e)] = result'[e]]
      /\ pipePending[Tag(e)] = 0 /\ pipeCall[Tag(e)] = call[e]
      /\ pipeDone[Tag(e)] = done[e] /\ pipeRequest[Tag(e)] = request[e]
  BY <1>1, <1>3, <1>5, OneEndChanges, PipeAtEnd
<1>8. \/ result'[e] = "true" /\ (call[e] = "direct" \/ (call[e] = "loop" /\ done[e] = request[e]))
      \/ result'[e] = "false" /\ call[e] = "loop" /\ done[e] < request[e]
  BY <1>2, <1>3, <1>5
<1> QED
  BY <1>6, <1>7, <1>8 DEF P!Complete, P!GiveUp, P!ReturnWith

-----------------------------------------------------------------------------
(* The steps inside the buffer.                                            *)
\* A count is exact when its second load agrees with the first: the pointer loaded
\* is the pointer at that moment.
LEMMA CountIsExact ==
  ASSUME RingInv
  PROVE  /\ LoadConsumer /\ consumer = wsnap =>
              freeBytes' = EffectiveBufferSize - 1 - (sent - rcvd)
         /\ LoadProducer /\ producer = rsnap => availableBytes' = sent - rcvd
<1>1. producer \in Offsets /\ consumer \in Offsets /\ Ahead(consumer, producer) = sent - rcvd
  BY DEF RingInv, TypeOK, PointersFollowStream
<1>2. /\ FreeToWrite(producer, consumer) = EffectiveBufferSize - 1 - Ahead(consumer, producer)
      /\ AvailableToRead(producer, consumer) = Ahead(consumer, producer)
  BY <1>1, FreeIsRest, AvailableIsAhead
<1> QED
  BY <1>1, <1>2 DEF LoadConsumer, LoadProducer

\* A step inside the buffer gives an exact count, makes a segment visible to the
\* other end, or is seen by nobody.
LEMMA BufferStepEffect ==
  ASSUME RingInv, NEW e \in Ends,
         \/ e = "writer" /\ WriterStep
         \/ e = "reader" /\ ReaderStep
  PROVE  \/ /\ Pc(e) = "check"
            /\ Room(e)' = IF e = "writer" THEN EffectiveBufferSize - 1 - (sent - rcvd)
                                          ELSE sent - rcvd
            /\ UNCHANGED Moved(e) /\ UNCHANGED Pending(e)
         \/ \E k \in Nat :
              /\ k <= Pending(e)
              /\ Moved(e)' = Moved(e) + k /\ Pending(e)' = Pending(e) - k
              /\ UNCHANGED Room(e)
         \/ UNCHANGED Moved(e) /\ UNCHANGED Pending(e) /\ UNCHANGED Room(e)
<1> USE DEF Pc, Moved, Pending, Room, writePending, readPending
<1>1. CASE e = "writer"
  <2>1. WriterStep
    BY <1>1
  <2>2. CASE wpc = "reload" /\ LoadSecondConsumer
    BY <1>1, <2>2 DEF LoadSecondConsumer
  <2>3. CASE LoadConsumer
    BY <1>1, <2>3, CountIsExact DEF LoadConsumer
  <2>4. CASE \E o \in wtodo : CopyIn(o)
    BY <1>1, <2>4 DEF CopyIn
  <2>5. CASE StoreProducer
    <3>1. wseg \in Nat /\ wseg <= Pending(e)
      BY <1>1, <2>5, NumbersAreInts DEF StoreProducer
    <3>2. Moved(e)' = Moved(e) + wseg /\ Pending(e)' = Pending(e) - wseg /\ UNCHANGED Room(e)
      BY <1>1, <2>5, NumbersAreInts DEF StoreProducer
    <3> QED
      BY <3>1, <3>2
  <2>6. CASE StoreSecondProducer
    BY <1>1, <2>6, NumbersAreInts DEF StoreSecondProducer
  <2> QED
    BY <2>1, <2>2, <2>3, <2>4, <2>5, <2>6 DEF WriterStep
<1>2. CASE e = "reader"
  <2>1. ReaderStep
    BY <1>2
  <2>2. CASE rpc = "reload" /\ LoadSecondProducer
    BY <1>2, <2>2 DEF LoadSecondProducer
  <2>3. CASE LoadProducer
    BY <1>2, <2>3, CountIsExact DEF LoadProducer
  <2>4. CASE \E o \in rtodo : CopyOut(o)
    BY <1>2, <2>4 DEF CopyOut
  <2>5. CASE StoreConsumer
    <3>1. rseg \in Nat /\ rseg <= Pending(e)
      BY <1>2, <2>5, NumbersAreInts DEF StoreConsumer
    <3>2. Moved(e)' = Moved(e) + rseg /\ Pending(e)' = Pending(e) - rseg /\ UNCHANGED Room(e)
      BY <1>2, <2>5, NumbersAreInts DEF StoreConsumer
    <3> QED
      BY <3>1, <3>2
  <2>6. CASE StoreSecondConsumer
    BY <1>2, <2>6, NumbersAreInts DEF StoreSecondConsumer
  <2> QED
    BY <2>1, <2>2, <2>3, <2>4, <2>5, <2>6 DEF ReaderStep
<1> QED
  BY <1>1, <1>2 DEF Ends

\* What the pipe calls exact.
LEMMA PipeExact ==
  ASSUME NEW e \in Ends
  PROVE  P!Exact(Tag(e)) = IF e = "writer" THEN EffectiveBufferSize - 1 - (sent - rcvd)
                                           ELSE sent - rcvd
<1>1. Peer(e) \in Ends /\ P!Peer(Tag(e)) = Tag(Peer(e)) /\ Tag(e)[2] = e
  BY PipeHasEnds, TwoEnds
<1>2. /\ pipeMoved[Tag(e)] = Moved(e) /\ pipeMoved[P!Peer(Tag(e))] = Moved(Peer(e))
  BY <1>1, PipeAtEnd
<1> QED
  BY <1>1, <1>2 DEF P!Exact, Moved, Ends, Peer

\* So a step inside the buffer is a count or a move of the pipe, or none.
LEMMA BufferStepImplements ==
  ASSUME EntityInv, NEW e \in Ends, BufferStep(e)
  PROVE  \/ P!Refresh(Tag(e))
         \/ \E k \in 1 .. pipePending[Tag(e)] : P!Move(Tag(e), k)
         \/ UNCHANGED P!pipeVars
<1>1. Keeps(e) /\ UNCHANGED View(Peer(e))
  BY BufferStepKeeps, PeerStays
<1>2. /\ UNCHANGED request[e] /\ UNCHANGED done[e] /\ UNCHANGED result[e]
      /\ UNCHANGED Place(e)
  BY DEF BufferStep, callVars, Place
<1>3. /\ UNCHANGED pipeCall /\ UNCHANGED pipeRequest /\ UNCHANGED pipeDone
      /\ UNCHANGED pipeResult
  BY <1>1, <1>2, NothingAtEnd
<1>4. Moved(e) \in Nat /\ Pending(e) \in Nat
  BY EndNumbers DEF EntityInv
<1>5. CASE /\ Pc(e) = "check"
           /\ Room(e)' = IF e = "writer" THEN EffectiveBufferSize - 1 - (sent - rcvd)
                                         ELSE sent - rcvd
           /\ UNCHANGED Moved(e) /\ UNCHANGED Pending(e)
  <2>1. UNCHANGED pipeMoved /\ UNCHANGED pipePending
    BY <1>1, <1>5, NothingAtEnd
  <2>2. Pending(e) = 0 /\ Place(e) \in {"idle", "first", "loop"}
    <3>1. call[e] \in {"count", "first", "query"}
      BY <1>5, CallTypes DEF EntityInv, EndInv, EndFollowsCall, Calls
    <3> QED
      BY <1>5, <3>1, EndNumbers DEF EntityInv, Place
  <2>3. pipeRoom' = [pipeRoom EXCEPT ![Tag(e)] = P!Exact(Tag(e))]
    BY <1>1, <1>5, OneEndChanges, PipeExact
  <2> QED
    BY <1>3, <2>1, <2>2, <2>3, PipeAtEnd DEF P!Refresh
<1>6. CASE UNCHANGED Moved(e) /\ UNCHANGED Pending(e) /\ UNCHANGED Room(e)
  BY <1>1, <1>2, <1>6, PipeStays DEF View
<1>7. ASSUME NEW k \in Nat, k <= Pending(e),
             Moved(e)' = Moved(e) + k, Pending(e)' = Pending(e) - k, UNCHANGED Room(e)
      PROVE  (\E j \in 1 .. pipePending[Tag(e)] : P!Move(Tag(e), j)) \/ UNCHANGED P!pipeVars
  <2>1. CASE k = 0
    <3>1. UNCHANGED Moved(e) /\ UNCHANGED Pending(e)
      BY <1>4, <1>7, <2>1
    <3> QED
      BY <1>1, <1>2, <1>7, <3>1, PipeStays DEF View
  <2>2. CASE k # 0
    <3>1. UNCHANGED pipeRoom
      BY <1>1, <1>7, NothingAtEnd
    <3>2. /\ pipeMoved' = [pipeMoved EXCEPT ![Tag(e)] = pipeMoved[Tag(e)] + k]
          /\ pipePending' = [pipePending EXCEPT ![Tag(e)] = pipePending[Tag(e)] - k]
      BY <1>1, <1>7, OneEndChanges, PipeAtEnd
    <3>3. k \in 1 .. pipePending[Tag(e)] /\ k <= pipePending[Tag(e)]
      BY <1>4, <1>7, <2>2, PipeAtEnd
    <3>4. P!Move(Tag(e), k)
      BY <1>3, <3>1, <3>2, <3>3 DEF P!Move
    <3> QED
      BY <3>3, <3>4
  <2> QED
    BY <2>1, <2>2
<1> QED
  BY <1>5, <1>6, <1>7, BufferStepEffect DEF BufferStep, EntityInv

-----------------------------------------------------------------------------
\* Initially nothing is moved and nobody is in a call.
LEMMA PipeInitImplements == EntityInit => P!PipeInit
<1> SUFFICES ASSUME EntityInit PROVE P!PipeInit
  OBVIOUS
<1>1. \A e \in Ends :
        /\ Moved(e) = 0 /\ Room(e) = 0 /\ Pending(e) = 0 /\ Place(e) = "idle"
        /\ request[e] = 0 /\ done[e] = 0 /\ result[e] = "none"
  BY DEF EntityInit, BufferInit, Moved, Room, Pending, writePending, readPending, Place
<1>2. \A x \in PipeEnds : x[2] \in Ends
  BY PipeHasEnds
<1>3. PipeEnds = P!Ends
  BY PipeHasEnds
<1> QED
  BY <1>1, <1>2, <1>3
     DEF P!PipeInit, pipeMoved, pipeRoom, pipePending, pipeCall, pipeRequest, pipeDone, pipeResult

\* Every step of the two processes is a step of the pipe or none.
LEMMA EntityStepImplements ==
  EntityInv /\ [EntityNext]_entityVars => [PipeStep]_P!pipeVars
<1> SUFFICES ASSUME EntityInv, [EntityNext]_entityVars
             PROVE  PipeStep \/ UNCHANGED P!pipeVars
  OBVIOUS
<1>1. ASSUME NEW e \in Ends,
             \/ P!Refresh(Tag(e)) \/ P!Progress(Tag(e)) \/ P!GiveUp(Tag(e))
             \/ \E n \in Requests : P!Call(Tag(e), n)
      PROVE  PipeStep
  BY <1>1, PipeHasEnds DEF PipeStep
<1>2. ASSUME NEW e \in Ends, GoOn(e)
      PROVE  PipeStep \/ UNCHANGED P!pipeVars
  <2>1. CASE CountReturns(e) \/ NoRoom(e)
    BY <2>1, QuietSteps
  <2>2. CASE Query(e)
    BY <2>2, CountsBegin
  <2>3. CASE BufferStep(e)
    BY <1>1, <2>3, BufferStepImplements DEF P!Progress
  <2>4. CASE Direct(e) \/ EnterLoop(e) \/ Chunk(e)
    BY <1>1, <2>4, DirectImplements, EnterLoopImplements, ChunkImplements DEF P!Progress
  <2>5. CASE Return(e)
    BY <1>1, <2>5, ReturnImplements DEF P!Progress
  <2> QED
    BY <1>2, <2>1, <2>2, <2>3, <2>4, <2>5 DEF GoOn
<1>3. ASSUME NEW e \in Ends, Calling(e)
      PROVE  PipeStep \/ UNCHANGED P!pipeVars
  <2>1. CASE Count(e)
    BY <2>1, CountsBegin
  <2>2. CASE \E l \in Limits : SetTimeout(e, l)
    BY <2>2, QuietSteps
  <2>3. CASE \E n \in Requests : Call(e, n)
    BY <1>1, <2>3, CallImplements
  <2> QED
    BY <1>3, <2>1, <2>2, <2>3 DEF Calling
<1>4. ASSUME NEW e \in Ends, Crash(e)
      PROVE  UNCHANGED P!pipeVars
  BY <1>4, QuietSteps
<1>5. CASE UNCHANGED entityVars
  <2>1. UNCHANGED bufferVars /\ UNCHANGED callVars
    BY <1>5 DEF entityVars
  <2>2. \A e \in Ends : UNCHANGED View(e)
    BY <2>1, BufferUntouched, ViewStays DEF callVars, CallVarsOf
  <2> QED
    BY <2>2, NoEndChanges
<1> QED
  BY <1>2, <1>3, <1>4, <1>5, TickUnseen DEF EntityNext

\* Two entities on a ring are a pipe (ImplementsPipe): whatever a program can rely
\* on with pipes it can rely on with cEntity, through any interleaving of loads,
\* stores and copies, timeouts and crashes.
THEOREM EntitiesArePipe == EntitySpec => ImplementsPipe
<1>1. EntityInit => P!PipeInit
  BY PipeInitImplements
<1>2. EntityInv /\ [EntityNext]_entityVars => [PipeStep]_P!pipeVars
  BY EntityStepImplements
<1> QED
  BY <1>1, <1>2, EntityInvariant, PTL DEF EntitySpec, ImplementsPipe
=============================================================================
