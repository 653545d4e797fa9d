------------------------------- MODULE Entity -------------------------------
(***************************************************************************)
(* One direction of a connection between two cEntity objects (a cServer    *)
(* and a cClient): cEntity::WriteData of one process over the write end of *)
(* a circular buffer, cEntity::ReadData of the other over its read end.    *)
(*                                                                         *)
(* The two functions are the same but for the end they call.  A call first *)
(* asks its end for the count.  If the whole request fits it is            *)
(* transferred at once, whatever the time.  Otherwise the call polls in a  *)
(* loop, transfers what it can, restarts its timer on every progress, and  *)
(* gives up when the timer reaches m_TimeoutLimit.                         *)
(*                                                                         *)
(* Either process may crash at any step of its own.  Time passes for both  *)
(* by Tick; a timer stops counting at its limit, beyond which nothing      *)
(* tells one value from another.                                           *)
(*                                                                         *)
(* A call's own loads and stores are the actions of CircularBuffer.  The   *)
(* timestamp a call begins with is left out: no code here reads it.        *)
(***************************************************************************)
EXTENDS CircularBuffer

CONSTANTS
  Requests,  \* the values of numberOfBytes the callers ask for
  Limits     \* the values of m_TimeoutLimit, in ticks

ASSUME EntityAssumption ==
  /\ Requests \subseteq Nat
  /\ Limits \subseteq Nat

Ends    == {"writer", "reader"}
Peer(e) == IF e = "writer" THEN "reader" ELSE "writer"

VARIABLES
  call,     \* where each end's process is in cEntity::WriteData or ReadData
  request,  \* numberOfBytes
  done,     \* numberOfBytesWritten, numberOfBytesRead
  result,   \* what the last call returned: "none" during a call
  timer,    \* timeoutTimer.elapsed()
  limit,    \* m_TimeoutLimit
  alive,    \* the process has not crashed
  base      \* history: how many bytes had been moved when the call began

callVars   == <<call, request, done, result, timer, limit, alive, base>>
entityVars == <<bufferVars, callVars>>

\* idle   not in a call
\* count  in the entity's own NumberOfBytesFreeToWrite / NumberOfBytesAvailableToRead
\* first  in the first count of WriteData / ReadData
\* direct transferring the whole request without a timer
\* loop   in the while loop: at its head, or transferring a chunk
\* query  in the count of the loop
Calls   == {"idle", "count", "first", "direct", "loop", "query"}
Results == {"none", "true", "false"}

EntityInit ==
  /\ BufferInit
  /\ call = [e \in Ends |-> "idle"]
  /\ request = [e \in Ends |-> 0]
  /\ done = [e \in Ends |-> 0]
  /\ result = [e \in Ends |-> "none"]
  /\ timer = [e \in Ends |-> 0]
  /\ limit \in [Ends -> Limits]
  /\ alive = [e \in Ends |-> TRUE]
  /\ base = [e \in Ends |-> 0]

\* The end's side of the buffer: where it is, the count it was last given less
\* what it transferred since, and how many bytes it has moved.
Pc(e)    == IF e = "writer" THEN wpc ELSE rpc
Room(e)  == IF e = "writer" THEN freeBytes ELSE availableBytes
Moved(e) == IF e = "writer" THEN sent ELSE rcvd

BeginCount(e) ==
  \/ e = "writer" /\ LoadSecondConsumer
  \/ e = "reader" /\ LoadSecondProducer

BeginTransfer(e, off, n) ==
  \/ e = "writer" /\ BeginWriteData(off, n)
  \/ e = "reader" /\ BeginReadData(off, n)

\* The process runs, has come back from its end of the buffer and is at a place.
At(e, place)   == alive[e] /\ Pc(e) = "idle" /\ call[e] = place
Goto(e, place) == call' = [call EXCEPT ![e] = place]

-----------------------------------------------------------------------------
SetTimeout(e, l) ==
  /\ At(e, "idle")
  /\ limit' = [limit EXCEPT ![e] = l]
  /\ UNCHANGED <<bufferVars, call, request, done, result, timer, alive, base>>

\* cEntity::NumberOfBytesFreeToWrite and cEntity::NumberOfBytesAvailableToRead.
Count(e) ==
  /\ At(e, "idle")
  /\ BeginCount(e)
  /\ Goto(e, "count")
  /\ UNCHANGED <<request, done, result, timer, limit, alive, base>>

CountReturns(e) ==
  /\ At(e, "count")
  /\ Goto(e, "idle")
  /\ UNCHANGED <<bufferVars, request, done, result, timer, limit, alive, base>>

\* A step inside the end of the buffer.
BufferStep(e) ==
  /\ alive[e]
  /\ \/ e = "writer" /\ WriterStep
     \/ e = "reader" /\ ReaderStep
  /\ UNCHANGED callVars

\* WriteData or ReadData is called for n bytes and asks for the first count.
Call(e, n) ==
  /\ At(e, "idle")
  /\ e = "writer" => sent + n <= MaxBytes
  /\ BeginCount(e)
  /\ Goto(e, "first")
  /\ request' = [request EXCEPT ![e] = n]
  /\ done' = [done EXCEPT ![e] = 0]
  /\ result' = [result EXCEPT ![e] = "none"]
  /\ base' = [base EXCEPT ![e] = Moved(e)]
  /\ UNCHANGED <<timer, limit, alive>>

\* Mutant: one byte less than the request is taken for enough.
DirectOffByOne(e) ==
  /\ At(e, "first")
  /\ Room(e) + 1 >= request[e]
  /\ BeginTransfer(e, 0, request[e])
  /\ Goto(e, "direct")
  /\ UNCHANGED <<request, done, result, timer, limit, alive, base>>

\* The request fits: transfer it.
Direct(e) ==
  /\ At(e, "first")
  /\ Room(e) >= request[e]
  /\ BeginTransfer(e, 0, request[e])
  /\ Goto(e, "direct")
  /\ UNCHANGED <<request, done, result, timer, limit, alive, base>>

\* The request does not fit: start the timer and enter the loop.
EnterLoop(e) ==
  /\ At(e, "first")
  /\ Room(e) < request[e]
  /\ Goto(e, "loop")
  /\ timer' = [timer EXCEPT ![e] = 0]
  /\ UNCHANGED <<bufferVars, request, done, result, limit, alive, base>>

LoopGoesOn(e) == timer[e] < limit[e] /\ done[e] # request[e]

\* The loop condition holds: ask for the count again.
Query(e) ==
  /\ At(e, "loop")
  /\ LoopGoesOn(e)
  /\ BeginCount(e)
  /\ Goto(e, "query")
  /\ UNCHANGED <<request, done, result, timer, limit, alive, base>>

\* Mutant: the timer is restarted on every turn, not only on progress.
NoRoomRestarts(e) ==
  /\ At(e, "query")
  /\ Room(e) = 0
  /\ Goto(e, "loop")
  /\ timer' = [timer EXCEPT ![e] = 0]
  /\ UNCHANGED <<bufferVars, request, done, result, limit, alive, base>>

\* The count is 0: around the loop again.
NoRoom(e) ==
  /\ At(e, "query")
  /\ Room(e) = 0
  /\ Goto(e, "loop")
  /\ UNCHANGED <<bufferVars, request, done, result, timer, limit, alive, base>>

\* A chunk of n bytes, taken from or put at off in the caller's data.
TransferChunk(e, off, n) ==
  /\ BeginTransfer(e, off, n)
  /\ done' = [done EXCEPT ![e] = @ + n]
  /\ timer' = [timer EXCEPT ![e] = 0]
  /\ Goto(e, "loop")
  /\ UNCHANGED <<request, result, limit, alive, base>>

\* Mutants: every chunk is taken from the start of the caller's data, is not
\* limited to what is left of the request, or waits until all that is left fits.
ChunkFromStart(e) ==
  /\ At(e, "query") /\ Room(e) > 0
  /\ LET left == request[e] - done[e]
     IN  TransferChunk(e, 0, IF Room(e) > left THEN left ELSE Room(e))

ChunkUnlimited(e) ==
  /\ At(e, "query") /\ Room(e) > 0
  /\ TransferChunk(e, done[e], Room(e))

ChunkWhole(e) ==
  /\ At(e, "query") /\ Room(e) >= request[e] - done[e]
  /\ TransferChunk(e, done[e], request[e] - done[e])

\* The count is not 0: restart the timer and transfer what fits of what is left.
Chunk(e) ==
  /\ At(e, "query") /\ Room(e) > 0
  /\ LET left == request[e] - done[e]
     IN  TransferChunk(e, done[e], IF Room(e) > left THEN left ELSE Room(e))

\* The call returns r.
ReturnWith(e, r) ==
  /\ result' = [result EXCEPT ![e] = r]
  /\ timer' = [timer EXCEPT ![e] = 0]
  /\ Goto(e, "idle")
  /\ UNCHANGED <<bufferVars, request, done, limit, alive, base>>

\* Mutant: a timeout after a partial transfer is reported as success.
ReturnTrueIfAny(e) ==
  \/ At(e, "direct") /\ ReturnWith(e, "true")
  \/ At(e, "loop") /\ ~LoopGoesOn(e) /\ ReturnWith(e, IF done[e] > 0 THEN "true" ELSE "false")

\* True after a direct transfer, and after the loop when nothing is left.
Return(e) ==
  \/ At(e, "direct") /\ ReturnWith(e, "true")
  \/ /\ At(e, "loop")
     /\ ~LoopGoesOn(e)
     /\ ReturnWith(e, IF done[e] = request[e] THEN "true" ELSE "false")

Crash(e) ==
  /\ alive[e]
  /\ alive' = [alive EXCEPT ![e] = FALSE]
  /\ UNCHANGED <<bufferVars, call, request, done, result, timer, limit, base>>

\* Time passes for both processes; a timer runs while its call is in the loop.
Tick ==
  /\ timer' = [e \in Ends |->
                 IF call[e] \in {"loop", "query"} /\ timer[e] < limit[e]
                 THEN timer[e] + 1 ELSE timer[e]]
  /\ UNCHANGED <<bufferVars, call, request, done, result, limit, alive, base>>

-----------------------------------------------------------------------------
\* The steps a process takes in a call it has begun.
GoOn(e) ==
  \/ CountReturns(e) \/ BufferStep(e) \/ Direct(e) \/ EnterLoop(e)
  \/ Query(e) \/ NoRoom(e) \/ Chunk(e) \/ Return(e)

\* The calls its program may make.
Calling(e) ==
  \/ Count(e)
  \/ \E l \in Limits : SetTimeout(e, l)
  \/ \E n \in Requests : Call(e, n)

EntityNext ==
  \/ \E e \in Ends : GoOn(e) \/ Calling(e) \/ Crash(e)
  \/ Tick

EntitySpec == EntityInit /\ [][EntityNext]_entityVars

\* A process in a call goes on until it returns or crashes; no process has to call,
\* a process that calls may crash, and no timer has to count.
FairSpec == EntitySpec /\ \A e \in Ends : WF_entityVars(GoOn(e))

\* Besides, time passes.
TimedSpec == FairSpec /\ WF_entityVars(Tick)

-----------------------------------------------------------------------------
(* Correctness.                                                            *)

\* What the variables of the two calls hold.
EntityTypeOK ==
  /\ call \in [Ends -> Calls]
  /\ request \in [Ends -> Nat] /\ done \in [Ends -> Nat] /\ base \in [Ends -> Nat]
  /\ \A e \in Ends : done[e] <= request[e]
  /\ result \in [Ends -> Results]
  /\ timer \in [Ends -> Nat] /\ limit \in [Ends -> Limits]
  /\ alive \in [Ends -> BOOLEAN]

\* cEntity keeps the bargain of CircularBuffer: it never asks an end of the
\* buffer for more than the count it was last given, and goes on in the caller's
\* data exactly where the previous chunk stopped.  So whatever BufferSpec
\* guarantees holds for two entities.
KeepsTheBargain == BufferSpec

\* WriteData returns true when all the bytes of the request were published, each
\* chunk taken from where the previous one ended in the caller's data, and false
\* when fewer were: a false leaves a proper prefix of the request in the stream.
WriteResultIsExact ==
  LET b == base["writer"]  n == request["writer"] IN
  call["writer"] = "idle" =>
    /\ result["writer"] = "true"  => sent = b + n /\ wstart = b
    /\ result["writer"] = "false" => b <= sent /\ sent < b + n

\* ReadData returns true when dataSink holds the next numberOfBytes bytes of the
\* stream, and false when it holds fewer, which are consumed all the same.
ReadResultIsExact ==
  LET b == base["reader"]  n == request["reader"] IN
  call["reader"] = "idle" =>
    /\ result["reader"] = "true"  =>
         rcvd = b + n /\ \A x \in 0 .. n - 1 : x \in DOMAIN sink /\ sink[x] = b + x
    /\ result["reader"] = "false" => b <= rcvd /\ rcvd < b + n

\* A call returns if time passes: the loop that compares the two copies of the other
\* end's pointer ends (the other end runs out of bytes to advance over), and the loop
\* that polls the count ends by a transfer or by its timer.  The one exception is a
\* process that crashed between its two pointer stores.
ReturnsUnlessTorn ==
  WF_entityVars(Tick) =>
    \A e \in Ends :
      (call[e] # "idle") ~>
        (call[e] = "idle" \/ ~alive[e] \/ (~alive[Peer(e)] /\ Pc(Peer(e)) = "publish"))

\* m_TimeoutLimit as its comment has it: the time the other end has to hang
\* before the entity decides that it is disconnected.  Whatever becomes of the
\* other process, a call comes back.
TimeoutDetectsDisconnection ==
  \A e \in Ends : (call[e] # "idle") ~> (call[e] = "idle" \/ ~alive[e])

\* No missed wakeup: when both processes are in a transfer, one of the two completes,
\* however small the buffer and however large the requests, unless a timer that counts
\* runs out before or a process crashes.
OneTransferCompletes ==
  (\A e \in Ends : call[e] \in {"first", "loop", "query"}) ~>
    (\E e \in Ends :
       \/ call[e] \in {"idle", "direct"} \/ ~alive[e]
       \/ call[e] \in {"loop", "query"} /\ timer[e] = limit[e])
=============================================================================
