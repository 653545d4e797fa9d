----------------------------- MODULE Pipe_proofs -----------------------------
(***************************************************************************)
(* Proofs about Pipe, for any number of pipes of any capacity: a count     *)
(* that has grown old is safe, because the other end can only make it      *)
(* larger.  The lemmas on the steps of a pipe serve the programs over it.  *)
(***************************************************************************)
EXTENDS Pipe, TLAPS

\* The two ends of a pipe have each other.
LEMMA Peers ==
  ASSUME NEW e \in Ends
  PROVE  /\ Peer(e) \in Ends /\ Peer(e) # e /\ Peer(Peer(e)) = e
         /\ e[2] \in {"writer", "reader"}
         /\ Peer(e)[2] = "writer" <=> e[2] = "reader"
  BY DEF Ends, Peer

\* What an end may move is what the other leaves it.
LEMMA ExactType ==
  ASSUME PipeTypeOK, NEW e \in Ends
  PROVE  Exact(e) \in Int
<1>1. moved[e] \in Nat /\ moved[Peer(e)] \in Nat
  BY Peers DEF PipeTypeOK
<1> QED
  BY <1>1, PipeAssumption DEF Exact

\* Without a move nothing changes what the ends may move.
LEMMA ExactStays ==
  ASSUME UNCHANGED moved, NEW e \in Ends
  PROVE  Exact(e)' = Exact(e)
  BY DEF Exact

\* A move of one end leaves less to it, more to its peer, and others alone.
LEMMA ExactMoves ==
  ASSUME PipeTypeOK, NEW e \in Ends, NEW k \in Nat, NEW x \in Ends,
         moved' = [moved EXCEPT ![e] = @ + k]
  PROVE  Exact(x)' = IF x = e THEN Exact(x) - k
                     ELSE IF x = Peer(e) THEN Exact(x) + k ELSE Exact(x)
<1>1. /\ moved[x] \in Nat /\ moved[Peer(x)] \in Nat /\ moved[e] \in Nat
      /\ moved \in [Ends -> Nat]
  BY Peers DEF PipeTypeOK
<1>2. CASE x = e
  <2>1. moved'[x] = moved[x] + k /\ moved'[Peer(x)] = moved[Peer(x)]
    BY <1>1, <1>2, Peers
  <2>2. Exact(x)' = IF x[2] = "writer" THEN Capacity - (moved'[x] - moved'[Peer(x)])
                                       ELSE moved'[Peer(x)] - moved'[x]
    BY DEF Exact
  <2> QED
    BY <1>1, <1>2, <2>1, <2>2, PipeAssumption DEF Exact
<1>3. CASE x = Peer(e)
  <2>1. moved'[x] = moved[x] /\ moved'[Peer(x)] = moved[Peer(x)] + k /\ x # e
    BY <1>1, <1>3, Peers
  <2>2. Exact(x)' = IF x[2] = "writer" THEN Capacity - (moved'[x] - moved'[Peer(x)])
                                       ELSE moved'[Peer(x)] - moved'[x]
    BY DEF Exact
  <2> QED
    BY <1>1, <1>3, <2>1, <2>2, PipeAssumption DEF Exact
<1>4. CASE x # e /\ x # Peer(e)
  <2>1. Peer(x) # e
    BY <1>4, Peers
  <2>2. moved'[x] = moved[x] /\ moved'[Peer(x)] = moved[Peer(x)]
    BY <1>1, <1>4, <2>1, Peers
  <2> QED
    BY <1>4, <2>2 DEF Exact
<1> QED
  BY <1>2, <1>3, <1>4

-----------------------------------------------------------------------------
(* The steps of a pipe.                                                    *)

\* Initially every count is 0.
LEMMA PipeInitInv == PipeInit => PipeInv
<1> SUFFICES ASSUME PipeInit PROVE PipeInv
  OBVIOUS
<1>1. PipeTypeOK
  BY DEF PipeInit, PipeTypeOK
<1>2. ASSUME NEW e \in Ends PROVE room[e] + pending[e] <= Exact(e) /\ pending[e] = 0
  BY Peers, PipeAssumption DEF PipeInit, Exact
<1> QED
  BY <1>1, <1>2 DEF PipeInv, RoomIsSafe

\* What holds of every end.
LEMMA EndFacts ==
  ASSUME PipeInv, NEW e \in Ends
  PROVE  /\ Exact(e) \in Nat /\ room[e] \in Nat /\ pending[e] \in Nat /\ moved[e] \in Nat
         /\ request[e] \in Nat /\ done[e] \in Nat /\ done[e] <= request[e]
         /\ room[e] + pending[e] <= Exact(e)
         /\ call[e] \in {"idle", "first"} => pending[e] = 0
<1>1. Exact(e) \in Int
  BY ExactType DEF PipeInv
<1>2. room[e] + pending[e] <= Exact(e) /\ room[e] \in Nat /\ pending[e] \in Nat
  BY DEF PipeInv, RoomIsSafe, PipeTypeOK
<1>3. Exact(e) \in Nat
  BY <1>1, <1>2
<1> QED
  BY <1>2, <1>3 DEF PipeInv, PipeTypeOK

\* A count is exact when it is given.
LEMMA RefreshKeeps ==
  ASSUME PipeInv, NEW e \in Ends, Refresh(e)
  PROVE  PipeInv'
<1>1. Exact(e) \in Nat
  BY EndFacts
<1>2. PipeTypeOK'
  BY <1>1 DEF PipeInv, PipeTypeOK, Refresh
<1>3. ASSUME NEW x \in Ends
      PROVE  /\ room'[x] + pending'[x] <= Exact(x)'
             /\ call'[x] \in {"idle", "first"} => pending'[x] = 0
  <2>1. Exact(x)' = Exact(x)
    BY ExactStays DEF Refresh
  <2>2. CASE x = e
    BY <1>1, <2>1, <2>2 DEF Refresh, PipeInv, PipeTypeOK
  <2>3. CASE x # e
    BY <2>1, <2>3 DEF Refresh, PipeInv, PipeTypeOK, RoomIsSafe
  <2> QED
    BY <2>2, <2>3
<1> QED
  BY <1>2, <1>3 DEF PipeInv, RoomIsSafe

\* A step that only moves a call on, between transfers, disturbs no count.
LEMMA CallMoves ==
  ASSUME PipeInv, PipeTypeOK', UNCHANGED <<moved, room, pending>>,
         NEW e \in Ends, pending[e] = 0,
         \A x \in Ends : x # e => call'[x] = call[x]
  PROVE  PipeInv'
<1>1. ASSUME NEW x \in Ends
      PROVE  /\ room'[x] + pending'[x] <= Exact(x)'
             /\ call'[x] \in {"idle", "first"} => pending'[x] = 0
  BY ExactStays, EndFacts
<1> QED
  BY <1>1 DEF PipeInv, RoomIsSafe

\* A call begins with nothing done.
LEMMA CallKeeps ==
  ASSUME PipeInv, NEW e \in Ends, NEW n \in Nat, Call(e, n)
  PROVE  PipeInv'
<1>1. PipeTypeOK'
  BY DEF PipeInv, PipeTypeOK, Call
<1>2. pending[e] = 0 /\ UNCHANGED <<moved, room, pending>>
      /\ \A x \in Ends : x # e => call'[x] = call[x]
  BY EndFacts DEF Call, PipeInv, PipeTypeOK
<1> QED
  BY <1>1, <1>2, CallMoves

\* A call enters its loop.
LEMMA EnterLoopKeeps ==
  ASSUME PipeInv, NEW e \in Ends, EnterLoop(e)
  PROVE  PipeInv'
<1>1. PipeTypeOK'
  BY DEF PipeInv, PipeTypeOK, EnterLoop
<1>2. pending[e] = 0 /\ UNCHANGED <<moved, room, pending>>
      /\ \A x \in Ends : x # e => call'[x] = call[x]
  BY EndFacts DEF EnterLoop, PipeInv, PipeTypeOK
<1> QED
  BY <1>1, <1>2, CallMoves

\* A call returns, complete or not.
LEMMA ReturnKeeps ==
  ASSUME PipeInv, NEW e \in Ends, Complete(e) \/ GiveUp(e)
  PROVE  PipeInv'
<1>1. PICK r \in {"true", "false"} : ReturnWith(e, r)
  BY DEF Complete, GiveUp
<1>2. PipeTypeOK'
  BY <1>1 DEF PipeInv, PipeTypeOK, ReturnWith
<1>3. pending[e] = 0 /\ UNCHANGED <<moved, room, pending>>
      /\ \A x \in Ends : x # e => call'[x] = call[x]
  BY <1>1 DEF ReturnWith, PipeInv, PipeTypeOK
<1> QED
  BY <1>2, <1>3, CallMoves

\* What is under way is taken off the count.
LEMMA BeginIsSafe ==
  ASSUME PipeInv, NEW e \in Ends, NEW k \in Nat, k <= room[e], pending[e] = 0, Begin(e, k)
  PROVE  /\ room' \in [Ends -> Nat] /\ pending' \in [Ends -> Nat]
         /\ RoomIsSafe'
         /\ \A x \in Ends : x # e => pending'[x] = pending[x]
<1>1. room[e] - k \in Nat
  BY DEF PipeInv, PipeTypeOK
<1>2. ASSUME NEW x \in Ends PROVE room'[x] + pending'[x] <= Exact(x)'
  <2>1. Exact(x)' = Exact(x)
    BY ExactStays DEF Begin
  <2>2. CASE x = e
    BY <2>1, <2>2, EndFacts DEF Begin, PipeInv, PipeTypeOK
  <2>3. CASE x # e
    BY <2>1, <2>3, EndFacts DEF Begin, PipeInv, PipeTypeOK
  <2> QED
    BY <2>2, <2>3
<1> QED
  BY <1>1, <1>2 DEF Begin, PipeInv, PipeTypeOK, RoomIsSafe

\* A direct transfer fits the count.
LEMMA DirectKeeps ==
  ASSUME PipeInv, NEW e \in Ends, Direct(e)
  PROVE  PipeInv'
<1>1. request[e] \in Nat /\ request[e] <= room[e] /\ pending[e] = 0 /\ Begin(e, request[e])
  BY EndFacts DEF Direct
<1>2. PipeTypeOK'
  BY <1>1, BeginIsSafe DEF PipeInv, PipeTypeOK, Direct, Begin
<1>3. ASSUME NEW x \in Ends, call'[x] \in {"idle", "first"} PROVE pending'[x] = 0
  BY <1>1, <1>3, BeginIsSafe, EndFacts DEF Direct, PipeInv, PipeTypeOK
<1> QED
  BY <1>1, <1>2, <1>3, BeginIsSafe DEF PipeInv

\* So does a chunk.
LEMMA ChunkKeeps ==
  ASSUME PipeInv, NEW e \in Ends, Chunk(e)
  PROVE  PipeInv'
<1> DEFINE left == request[e] - done[e]
           k    == IF room[e] > left THEN left ELSE room[e]
<1>1. k \in Nat /\ k <= room[e] /\ done[e] + k \in Nat /\ done[e] + k <= request[e]
  BY EndFacts
<1>2. pending[e] = 0 /\ Begin(e, k) /\ done' = [done EXCEPT ![e] = @ + k]
  BY DEF Chunk
<1> HIDE DEF k
<1>3. PipeTypeOK'
  BY <1>1, <1>2, BeginIsSafe DEF PipeInv, PipeTypeOK, Chunk, Begin
<1>4. ASSUME NEW x \in Ends, call'[x] \in {"idle", "first"} PROVE pending'[x] = 0
  BY <1>1, <1>2, <1>4, BeginIsSafe, EndFacts DEF Chunk, PipeInv, PipeTypeOK
<1> QED
  BY <1>1, <1>2, <1>3, <1>4, BeginIsSafe DEF PipeInv

\* Bytes that become visible are taken off what is under way.
LEMMA MoveKeeps ==
  ASSUME PipeInv, NEW e \in Ends, NEW k \in 1 .. pending[e], Move(e, k)
  PROVE  PipeInv'
<1>1. k \in Nat /\ moved' = [moved EXCEPT ![e] = @ + k] /\ pending[e] - k \in Nat
  BY EndFacts DEF Move
<1>2. PipeTypeOK'
  BY <1>1 DEF PipeInv, PipeTypeOK, Move
<1>3. ASSUME NEW x \in Ends
      PROVE  /\ room'[x] + pending'[x] <= Exact(x)'
             /\ call'[x] \in {"idle", "first"} => pending'[x] = 0
  <2>1. Exact(x)' = IF x = e THEN Exact(x) - k
                    ELSE IF x = Peer(e) THEN Exact(x) + k ELSE Exact(x)
    BY <1>1, ExactMoves DEF PipeInv
  <2>2. CASE x = e
    BY <1>1, <2>1, <2>2, EndFacts DEF Move, PipeInv, PipeTypeOK
  <2>3. CASE x # e
    BY <1>1, <2>1, <2>3, EndFacts DEF Move, PipeInv, PipeTypeOK
  <2> QED
    BY <2>2, <2>3
<1> QED
  BY <1>2, <1>3 DEF PipeInv, RoomIsSafe

\* Every step a call takes of itself.
LEMMA ProgressKeeps ==
  ASSUME PipeInv, NEW e \in Ends, Progress(e) \/ GiveUp(e)
  PROVE  PipeInv'
  BY RefreshKeeps, EnterLoopKeeps, ReturnKeeps, DirectKeeps, ChunkKeeps, MoveKeeps DEF Progress

\* No step of a pipe makes a count, or a transfer begun on the strength of it,
\* exceed what there is.
THEOREM PipeIsSafe == PipeSpec => []RoomIsSafe
<1>1. PipeInv /\ [PipeNext]_pipeVars => PipeInv'
  <2> SUFFICES ASSUME PipeInv, [PipeNext]_pipeVars PROVE PipeInv'
    OBVIOUS
  <2>1. ASSUME PipeNext PROVE PipeInv'
    BY <2>1, RefreshKeeps, CallKeeps, ProgressKeeps DEF PipeNext
  <2>2. CASE UNCHANGED pipeVars
    BY <2>2 DEF pipeVars, PipeInv, PipeTypeOK, RoomIsSafe, Exact
  <2> QED
    BY <2>1, <2>2
<1>2. PipeInv => RoomIsSafe
  BY DEF PipeInv
<1> QED
  BY <1>1, <1>2, PipeInitInv, PTL DEF PipeSpec
=============================================================================
