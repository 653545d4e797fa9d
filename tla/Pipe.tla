--------------------------------- MODULE Pipe ---------------------------------
(***************************************************************************)
(* What cEntity promises the programs that call it: directed pipes with a  *)
(* writing and a reading end.  The pointers, their second copies and the   *)
(* ring are gone; what is left of them is how many bytes each end has      *)
(* moved.  The timer is gone; what is left of it is that a call that is    *)
(* short of bytes may give up.  What stays is that a count grows old, that *)
(* bytes become visible in parts, and that a call can end half done.       *)
(*                                                                         *)
(* EntityPipe shows that two cEntity objects on a ring implement one pipe; *)
(* TwoWay and Command are programs over two.                               *)
(***************************************************************************)
EXTENDS Integers

CONSTANTS
  Directions,  \* the pipes
  Capacity     \* how many bytes a pipe holds

ASSUME PipeAssumption == Capacity \in Nat

VARIABLES
  moved,    \* how many bytes each end has moved through its pipe
  room,     \* the count each end was last given, less what it moved since
  pending,  \* what is still to move of the transfer under way
  call,     \* where each end is in WriteData or ReadData
  request,  \* numberOfBytes
  done,     \* numberOfBytesWritten, numberOfBytesRead
  result    \* what the last call returned: "none" during a call

pipeVars == <<moved, room, pending, call, request, done, result>>

Ends    == Directions \X {"writer", "reader"}
Peer(e) == <<e[1], IF e[2] = "writer" THEN "reader" ELSE "writer">>

PipeInit ==
  /\ moved = [e \in Ends |-> 0]
  /\ room = [e \in Ends |-> 0]
  /\ pending = [e \in Ends |-> 0]
  /\ call = [e \in Ends |-> "idle"]
  /\ request = [e \in Ends |-> 0]
  /\ done = [e \in Ends |-> 0]
  /\ result = [e \in Ends |-> "none"]

\* The bytes the end could move at this moment.
Exact(e) ==
  IF e[2] = "writer" THEN Capacity - (moved[e] - moved[Peer(e)])
                     ELSE moved[Peer(e)] - moved[e]

-----------------------------------------------------------------------------
\* Mutant: a count that includes the byte the ring keeps free.
RefreshOverstated(e) ==
  /\ pending[e] = 0 /\ call[e] \in {"idle", "first", "loop"}
  /\ room' = [room EXCEPT ![e] = Exact(e) + 1]
  /\ UNCHANGED <<moved, pending, call, request, done, result>>

\* A count, asked for by the program or by a call: exact when it is given.
Refresh(e) ==
  /\ pending[e] = 0
  /\ call[e] \in {"idle", "first", "loop"}
  /\ room' = [room EXCEPT ![e] = Exact(e)]
  /\ UNCHANGED <<moved, pending, call, request, done, result>>

\* WriteData or ReadData is called for n bytes.
Call(e, n) ==
  /\ call[e] = "idle"
  /\ call' = [call EXCEPT ![e] = "first"]
  /\ request' = [request EXCEPT ![e] = n]
  /\ done' = [done EXCEPT ![e] = 0]
  /\ result' = [result EXCEPT ![e] = "none"]
  /\ UNCHANGED <<moved, room, pending>>

\* k bytes are under way.
Begin(e, k) ==
  /\ pending' = [pending EXCEPT ![e] = k]
  /\ room' = [room EXCEPT ![e] = @ - k]
  /\ UNCHANGED <<moved, request, result>>

\* The request fits: all of it is under way.
Direct(e) ==
  /\ call[e] = "first"
  /\ room[e] >= request[e]
  /\ Begin(e, request[e])
  /\ call' = [call EXCEPT ![e] = "direct"]
  /\ UNCHANGED done

\* It does not.
EnterLoop(e) ==
  /\ call[e] = "first"
  /\ room[e] < request[e]
  /\ call' = [call EXCEPT ![e] = "loop"]
  /\ UNCHANGED <<moved, room, pending, request, done, result>>

\* Mutant: the loop waits until all that is left fits.
ChunkWhole(e) ==
  /\ call[e] = "loop" /\ pending[e] = 0 /\ done[e] < request[e]
  /\ room[e] >= request[e] - done[e]
  /\ Begin(e, request[e] - done[e])
  /\ done' = [done EXCEPT ![e] = request[e]]
  /\ UNCHANGED call

\* Mutant: a chunk is not limited to what is left of the request.
ChunkUnlimited(e) ==
  /\ call[e] = "loop" /\ pending[e] = 0 /\ done[e] < request[e] /\ room[e] > 0
  /\ Begin(e, room[e])
  /\ done' = [done EXCEPT ![e] = @ + room[e]]
  /\ UNCHANGED call

\* What fits of what is left is under way.
Chunk(e) ==
  /\ call[e] = "loop"
  /\ pending[e] = 0
  /\ done[e] < request[e]
  /\ room[e] > 0
  /\ LET left == request[e] - done[e]
         k    == IF room[e] > left THEN left ELSE room[e]
     IN  Begin(e, k) /\ done' = [done EXCEPT ![e] = @ + k]
  /\ UNCHANGED call

\* Part of it becomes visible to the other end: all up to the wraparound, or the rest.
Move(e, k) ==
  /\ k <= pending[e]
  /\ moved' = [moved EXCEPT ![e] = @ + k]
  /\ pending' = [pending EXCEPT ![e] = @ - k]
  /\ UNCHANGED <<room, call, request, done, result>>

ReturnWith(e, r) ==
  /\ pending[e] = 0
  /\ call' = [call EXCEPT ![e] = "idle"]
  /\ result' = [result EXCEPT ![e] = r]
  /\ UNCHANGED <<moved, room, pending, request, done>>

\* The call has moved all it was asked to.
Complete(e) ==
  /\ call[e] = "direct" \/ (call[e] = "loop" /\ done[e] = request[e])
  /\ ReturnWith(e, "true")

\* Its timer has run out.
GiveUp(e) ==
  /\ call[e] = "loop"
  /\ done[e] < request[e]
  /\ ReturnWith(e, "false")

-----------------------------------------------------------------------------
\* The steps of a call that make progress.
Progress(e) ==
  \/ call[e] # "idle" /\ Refresh(e)
  \/ Direct(e) \/ EnterLoop(e) \/ Chunk(e)
  \/ \E k \in 1 .. pending[e] : Move(e, k)
  \/ Complete(e)

PipeNext ==
  \E e \in Ends :
    \/ Refresh(e) \/ Progress(e) \/ GiveUp(e)
    \/ \E n \in Nat : Call(e, n)

PipeSpec == PipeInit /\ [][PipeNext]_pipeVars

-----------------------------------------------------------------------------
(* Correctness.                                                            *)

\* What the variables of the ends hold.
PipeTypeOK ==
  /\ moved \in [Ends -> Nat] /\ room \in [Ends -> Nat] /\ pending \in [Ends -> Nat]
  /\ call \in [Ends -> {"idle", "first", "direct", "loop"}]
  /\ request \in [Ends -> Nat] /\ done \in [Ends -> Nat]
  /\ \A e \in Ends : done[e] <= request[e]
  /\ result \in [Ends -> {"none", "true", "false"}]

\* A count that has grown old, and a transfer begun on the strength of it, never
\* exceed what there is, although nothing in WriteData or ReadData checks that.
RoomIsSafe == \A e \in Ends : room[e] + pending[e] <= Exact(e)

\* The inductive invariant: nothing of an earlier transfer is under way when a
\* new one begins, so that its bytes are taken off the count.
PipeInv ==
  /\ PipeTypeOK
  /\ RoomIsSafe
  /\ \A e \in Ends : call[e] \in {"idle", "first"} => pending[e] = 0
=============================================================================
