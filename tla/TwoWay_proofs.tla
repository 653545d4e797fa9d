---------------------------- MODULE TwoWay_proofs ----------------------------
(***************************************************************************)
(* Proofs about TwoWay, for chunks of any size, buffers of any capacity    *)
(* and any number of transfers: no transfer times out, whatever the timers *)
(* do, because a chunk that was counted before the call is never missed.   *)
(***************************************************************************)
EXTENDS TwoWayInduction, Pipe_proofs

\* The other process.
LEMMA Partners ==
  ASSUME NEW p \in Processes
  PROVE  /\ Partner(p) \in Processes /\ Partner(p) # p
         /\ \A q \in Processes : q = p \/ q = Partner(p)
<1>1. PICK a, b \in Directions : a # b /\ Directions = {a, b}
  BY TwoWayAssumption
<1>2. \E q \in Processes : q # p
  BY <1>1 DEF Processes
<1>3. Partner(p) \in Processes /\ Partner(p) # p
  BY <1>2 DEF Partner
<1> QED
  BY <1>1, <1>3 DEF Processes

\* The two ends of each process are four different ends.
LEMMA FourEnds ==
  ASSUME NEW p \in Processes
  PROVE  /\ WriteEnd(p) \in Ends /\ ReadEnd(p) \in Ends /\ WriteEnd(p) # ReadEnd(p)
         /\ \A q \in Processes : q # p =>
              /\ WriteEnd(q) # WriteEnd(p) /\ WriteEnd(q) # ReadEnd(p)
              /\ ReadEnd(q) # WriteEnd(p) /\ ReadEnd(q) # ReadEnd(p)
<1>1. ASSUME NEW q \in Processes, q # p
      PROVE  /\ WriteEnd(q) # WriteEnd(p) /\ WriteEnd(q) # ReadEnd(p)
             /\ ReadEnd(q) # WriteEnd(p) /\ ReadEnd(q) # ReadEnd(p)
  <2>1. Partner(p) = q /\ Partner(q) = p
    BY <1>1, Partners
  <2> QED
    BY <1>1, <2>1 DEF WriteEnd, ReadEnd
<1>2. WriteEnd(p) \in Ends /\ ReadEnd(p) \in Ends /\ WriteEnd(p) # ReadEnd(p)
  BY Partners DEF WriteEnd, ReadEnd, Ends, Processes
<1> QED
  BY <1>1, <1>2

\* One more chunk.
LEMMA OneMore ==
  ASSUME NEW n \in Nat, NEW k \in Nat
  PROVE  (n + 1) * k = n * k + k /\ n * k \in Nat
  OBVIOUS

\* Nothing that a step leaves alone at one end.
Same(e) ==
  /\ moved'[e] = moved[e] /\ room'[e] = room[e] /\ pending'[e] = pending[e]
  /\ call'[e] = call[e] /\ request'[e] = request[e] /\ result'[e] = result[e]

\* A step of one end leaves the others alone.
LEMMA OthersSame ==
  ASSUME PipeInv, NEW e \in Ends, NEW x \in Ends, x # e,
         \/ Progress(e) \/ GiveUp(e) \/ Refresh(e)
         \/ \E n \in Nat : Call(e, n)
  PROVE  Same(x)
<1> USE DEF Same
<1>1. CASE Refresh(e)
  BY <1>1 DEF Refresh
<1>2. CASE \E n \in Nat : Call(e, n)
  BY <1>2 DEF Call
<1>3. CASE Direct(e)
  BY <1>3 DEF Direct, Begin
<1>4. CASE EnterLoop(e)
  BY <1>4 DEF EnterLoop
<1>5. CASE Chunk(e)
  BY <1>5 DEF Chunk, Begin
<1>6. CASE \E k \in 1 .. pending[e] : Move(e, k)
  BY <1>6 DEF Move
<1>7. CASE Complete(e) \/ GiveUp(e)
  <2>1. PICK r \in {"true", "false"} : ReturnWith(e, r)
    BY <1>7 DEF Complete, GiveUp
  <2> QED
    BY <2>1 DEF ReturnWith, PipeInv, PipeTypeOK
<1> QED
  BY <1>1, <1>2, <1>3, <1>4, <1>5, <1>6, <1>7 DEF Progress

\* What is left alone stays as its program has counted.
LEMMA SameKeeps ==
  ASSUME NEW e \in Ends, NEW busy \in BOOLEAN, NEW n \in Nat, Same(e), chunk' = chunk,
         EndInv(e, busy, n)
  PROVE  EndInv(e, busy, n)'
  BY DEF Same, EndInv

\* A call that its program has checked for goes straight on, and its timer does
\* not matter: the count taken inside the call is no smaller than the program's.
LEMMA CallGoesStraight ==
  ASSUME PipeInv, chunk \in Nat, NEW e \in Ends, NEW busy \in BOOLEAN, NEW n \in Nat,
         EndInv(e, busy, n), Progress(e) \/ GiveUp(e), chunk' = chunk
  PROVE  EndInv(e, busy, n)'
<1> USE OneMore
<1>0. /\ request[e] \in Nat /\ room[e] \in Nat /\ pending[e] \in Nat /\ moved[e] \in Nat
      /\ Exact(e) \in Nat /\ room[e] + pending[e] <= Exact(e)
      /\ call[e] \in {"idle", "first"} => pending[e] = 0
  BY EndFacts
<1>1. CASE call[e] # "idle" /\ Refresh(e)
  <2>1. room'[e] = Exact(e) /\ Exact(e) >= room[e]
    BY <1>0, <1>1 DEF Refresh, PipeInv, PipeTypeOK
  <2>2. /\ moved' = moved /\ pending' = pending /\ call' = call
        /\ request' = request /\ result' = result
    BY <1>1 DEF Refresh
  <2> QED
    BY <1>0, <1>1, <2>1, <2>2 DEF EndInv
<1>2. CASE Direct(e)
  <2>1. /\ call[e] = "first" /\ call'[e] = "direct" /\ pending'[e] = request[e]
        /\ moved' = moved /\ request' = request /\ result' = result
    BY <1>2 DEF Direct, Begin, PipeInv, PipeTypeOK
  <2> QED
    BY <1>0, <2>1 DEF EndInv
<1>3. CASE EnterLoop(e)
  BY <1>0, <1>3 DEF EnterLoop, EndInv
<1>4. CASE Chunk(e)
  BY <1>4 DEF Chunk, EndInv
<1>5. CASE \E k \in 1 .. pending[e] : Move(e, k)
  <2>1. PICK k \in 1 .. pending[e] : Move(e, k)
    BY <1>5
  <2>2. /\ moved'[e] = moved[e] + k /\ pending'[e] = pending[e] - k
        /\ room' = room /\ call' = call /\ request' = request /\ result' = result
    BY <2>1 DEF Move, PipeInv, PipeTypeOK
  <2>3. call[e] \notin {"idle", "first"}
    BY <1>0, <2>1
  <2> QED
    BY <1>0, <2>1, <2>2, <2>3 DEF EndInv
<1>6. CASE Complete(e)
  <2>1. /\ call[e] \in {"direct", "loop"} /\ call'[e] = "idle" /\ result'[e] = "true"
        /\ pending[e] = 0
        /\ moved' = moved /\ pending' = pending /\ request' = request
    BY <1>6 DEF Complete, ReturnWith, PipeInv, PipeTypeOK
  <2> QED
    BY <1>0, <2>1 DEF EndInv
<1>7. CASE GiveUp(e)
  BY <1>7 DEF GiveUp, EndInv
<1> QED
  BY <1>1, <1>2, <1>3, <1>4, <1>5, <1>6, <1>7 DEF Progress

\* Its program begins a call it has checked for.
LEMMA CallBegins ==
  ASSUME PipeInv, chunk \in Nat, NEW e \in Ends, NEW n \in Nat, EndInv(e, FALSE, n),
         room[e] >= chunk, Call(e, chunk), chunk' = chunk
  PROVE  EndInv(e, TRUE, n)'
<1>1. /\ pending[e] = 0 /\ moved[e] \in Nat /\ (n + 1) * chunk = n * chunk + chunk
      /\ n * chunk \in Nat
  BY EndFacts, OneMore DEF EndInv
<1>2. /\ call'[e] = "first" /\ request'[e] = chunk
      /\ moved' = moved /\ room' = room /\ pending' = pending
  BY DEF Call, PipeInv, PipeTypeOK
<1> QED
  BY <1>1, <1>2 DEF EndInv

\* The call returns: one more chunk, and no timeout.
LEMMA CallEnds ==
  ASSUME PipeInv, chunk \in Nat, NEW e \in Ends, NEW n \in Nat, EndInv(e, TRUE, n),
         call[e] = "idle", UNCHANGED pipeVars, chunk' = chunk
  PROVE  /\ result[e] = "true" /\ moved[e] = (n + 1) * chunk
         /\ EndInv(e, FALSE, n + 1)'
<1>1. moved[e] \in Nat /\ (n + 1) * chunk \in Nat
  BY EndFacts, OneMore
<1>2. result[e] = "true" /\ moved[e] = (n + 1) * chunk
  BY <1>1 DEF EndInv
<1> QED
  BY <1>1, <1>2 DEF EndInv, pipeVars

-----------------------------------------------------------------------------
(* The program.                                                            *)

\* What the invariant says of one process.
ProcessInv(p) ==
  /\ EndInv(WriteEnd(p), at[p] = "write", produced[p])
  /\ EndInv(ReadEnd(p), at[p] = "read", consumed[p])
  /\ at[p] = "write" => produced[p] < Transfers
  /\ at[p] = "read" => consumed[p] < Transfers

\* A process that takes no step keeps its part.
LEMMA OtherKeeps ==
  ASSUME TwoWayInv, NEW q \in Processes, Same(WriteEnd(q)), Same(ReadEnd(q)), chunk' = chunk,
         at'[q] = at[q], produced'[q] = produced[q], consumed'[q] = consumed[q]
  PROVE  ProcessInv(q)'
<1>1. produced[q] \in Nat /\ consumed[q] \in Nat
  BY TwoWayAssumption DEF TwoWayInv, TwoWayTypeOK
<1>2. /\ EndInv(WriteEnd(q), at[q] = "write", produced[q])'
      /\ EndInv(ReadEnd(q), at[q] = "read", consumed[q])'
  BY <1>1, FourEnds DEF TwoWayInv, Same, EndInv
<1> QED
  BY <1>2 DEF ProcessInv, TwoWayInv

\* A step of a call.
LEMMA InCallKeeps ==
  ASSUME TwoWayInv, NEW p \in Processes, InCall(p)
  PROVE  TwoWayInv'
<1>1. PICK e \in {WriteEnd(p), ReadEnd(p)} : Progress(e) \/ GiveUp(e)
  BY DEF InCall
<1>2. e \in Ends /\ PipeInv /\ chunk \in Nat
  BY FourEnds, TwoWayAssumption DEF TwoWayInv, TwoWayTypeOK
<1>3. PipeInv'
  BY <1>1, <1>2, ProgressKeeps
<1>4. TwoWayTypeOK' /\ NoComplaint'
  BY <1>3 DEF PipeInv, TwoWayInv, TwoWayTypeOK, NoComplaint, InCall
<1>5. ASSUME NEW q \in Processes PROVE ProcessInv(q)'
  <2>1. /\ produced[q] \in Nat /\ consumed[q] \in Nat /\ chunk' = chunk
        /\ at' = at /\ produced' = produced /\ consumed' = consumed
    BY TwoWayAssumption DEF TwoWayInv, TwoWayTypeOK, InCall
  <2>2. CASE q # p
    <3>1. Same(WriteEnd(q)) /\ Same(ReadEnd(q))
      BY <1>1, <1>2, <2>2, FourEnds, OthersSame
    <3> QED
      BY <2>1, <3>1, OtherKeeps
  <2>3. CASE q = p
    <3>1. ASSUME NEW x \in {WriteEnd(p), ReadEnd(p)}, NEW busy \in BOOLEAN, NEW n \in Nat,
                 EndInv(x, busy, n)
          PROVE  EndInv(x, busy, n)'
      BY <1>1, <1>2, <2>1, <3>1, FourEnds, CallGoesStraight, OthersSame, SameKeeps
    <3>2. /\ EndInv(WriteEnd(p), at[p] = "write", produced[p])'
          /\ EndInv(ReadEnd(p), at[p] = "read", consumed[p])'
      BY <2>1, <2>3, <3>1 DEF TwoWayInv
    <3> QED
      BY <2>1, <2>3, <3>2 DEF ProcessInv, TwoWayInv
  <2> QED
    BY <2>2, <2>3
<1> QED
  BY <1>3, <1>4, <1>5 DEF TwoWayInv, ProcessInv

\* The two counts, and the loop condition.
LEMMA AskKeeps ==
  ASSUME TwoWayInv, NEW p \in Processes, AskFree(p) \/ AskAvailable(p)
  PROVE  TwoWayInv'
<1>1. PICK e \in {WriteEnd(p), ReadEnd(p)} : Refresh(e) \/ UNCHANGED pipeVars
  BY DEF AskFree, AskAvailable
<1>2. e \in Ends /\ PipeInv
  BY FourEnds DEF TwoWayInv
<1>3. PipeInv'
  <2>1. CASE Refresh(e)
    BY <1>2, <2>1, RefreshKeeps
  <2>2. CASE UNCHANGED pipeVars
    BY <1>2, <2>2 DEF pipeVars, PipeInv, PipeTypeOK, RoomIsSafe, Exact
  <2> QED
    BY <1>1, <2>1, <2>2
<1>4. /\ at[p] \in {"top", "middle"} /\ at'[p] \in {"free", "available", "finished"}
      /\ at' \in [Processes -> Places] /\ \A q \in Processes : q # p => at'[q] = at[q]
      /\ UNCHANGED <<chunk, produced, consumed, complaint>>
      /\ UNCHANGED <<moved, pending, call, request, done, result>>
  BY DEF AskFree, AskAvailable, Goto, Places, TwoWayInv, TwoWayTypeOK, Refresh, pipeVars
<1>5. TwoWayTypeOK' /\ NoComplaint'
  BY <1>3, <1>4 DEF PipeInv, TwoWayInv, TwoWayTypeOK, NoComplaint
<1>6. ASSUME NEW q \in Processes PROVE ProcessInv(q)'
  <2>1. CASE q = p
    BY <1>4, <2>1 DEF ProcessInv, TwoWayInv, EndInv
  <2>2. CASE q # p
    <3>1. Same(WriteEnd(q)) /\ Same(ReadEnd(q))
      BY <1>1, <1>2, <2>2, FourEnds, OthersSame DEF Same, pipeVars
    <3> QED
      BY <1>4, <2>2, <3>1, OtherKeeps
  <2> QED
    BY <2>1, <2>2
<1> QED
  BY <1>3, <1>5, <1>6 DEF TwoWayInv, ProcessInv

\* A call for a chunk that the count allows, or none.
LEMMA TryKeeps ==
  ASSUME TwoWayInv, NEW p \in Processes, TryWrite(p) \/ TryRead(p)
  PROVE  TwoWayInv'
<1>1. /\ PipeInv /\ chunk \in Nat /\ chunk' = chunk /\ at[p] \in {"free", "available"}
      /\ produced' = produced /\ consumed' = consumed /\ complaint' = complaint
      /\ produced[p] \in Nat /\ consumed[p] \in Nat
  BY TwoWayAssumption DEF TwoWayInv, TwoWayTypeOK, TryWrite, TryRead
<1>2. /\ EndInv(WriteEnd(p), FALSE, produced[p])
      /\ EndInv(ReadEnd(p), FALSE, consumed[p])
  BY <1>1 DEF TwoWayInv, EndInv
<1>3. at' \in [Processes -> Places] /\ \A q \in Processes : q # p => at'[q] = at[q]
  BY DEF TryWrite, TryRead, Goto, Places, TwoWayInv, TwoWayTypeOK
<1>4. CASE UNCHANGED pipeVars /\ at'[p] \in {"middle", "top"}
  <2>1. PipeInv'
    BY <1>1, <1>4 DEF pipeVars, PipeInv, PipeTypeOK, RoomIsSafe, Exact
  <2>2. TwoWayTypeOK' /\ NoComplaint'
    BY <1>1, <1>3, <2>1 DEF PipeInv, TwoWayInv, TwoWayTypeOK, NoComplaint
  <2>3. ASSUME NEW q \in Processes PROVE ProcessInv(q)'
    <3>1. CASE q = p
      BY <1>1, <1>2, <1>4, <3>1 DEF ProcessInv, EndInv, pipeVars
    <3>2. CASE q # p
      BY <1>1, <1>3, <1>4, <3>2, OtherKeeps DEF Same, pipeVars
    <3> QED
      BY <3>1, <3>2
  <2> QED
    BY <2>1, <2>2, <2>3 DEF TwoWayInv, ProcessInv
<1>5. CASE /\ room[WriteEnd(p)] >= chunk /\ produced[p] < Transfers
           /\ Call(WriteEnd(p), chunk) /\ at'[p] = "write"
  <2>1. PipeInv'
    BY <1>1, <1>5, FourEnds, CallKeeps
  <2>2. TwoWayTypeOK' /\ NoComplaint'
    BY <1>1, <1>3, <2>1 DEF PipeInv, TwoWayInv, TwoWayTypeOK, NoComplaint
  <2>3. ASSUME NEW x \in Ends, x # WriteEnd(p) PROVE Same(x)
    BY <1>1, <1>5, <2>3, FourEnds, OthersSame
  <2>4. ASSUME NEW q \in Processes PROVE ProcessInv(q)'
    <3>1. CASE q = p
      <4>1. EndInv(WriteEnd(p), TRUE, produced[p])'
        BY <1>1, <1>2, <1>5, FourEnds, CallBegins
      <4>2. EndInv(ReadEnd(p), FALSE, consumed[p])'
        BY <1>1, <1>2, <2>3, FourEnds, SameKeeps
      <4> QED
        BY <1>1, <1>5, <3>1, <4>1, <4>2 DEF ProcessInv, EndInv
    <3>2. CASE q # p
      BY <1>1, <1>3, <2>3, <3>2, FourEnds, OtherKeeps
    <3> QED
      BY <3>1, <3>2
  <2> QED
    BY <2>1, <2>2, <2>4 DEF TwoWayInv, ProcessInv
<1>6. CASE /\ room[ReadEnd(p)] >= chunk /\ consumed[p] < Transfers
           /\ Call(ReadEnd(p), chunk) /\ at'[p] = "read"
  <2>1. PipeInv'
    BY <1>1, <1>6, FourEnds, CallKeeps
  <2>2. TwoWayTypeOK' /\ NoComplaint'
    BY <1>1, <1>3, <2>1 DEF PipeInv, TwoWayInv, TwoWayTypeOK, NoComplaint
  <2>3. ASSUME NEW x \in Ends, x # ReadEnd(p) PROVE Same(x)
    BY <1>1, <1>6, <2>3, FourEnds, OthersSame
  <2>4. ASSUME NEW q \in Processes PROVE ProcessInv(q)'
    <3>1. CASE q = p
      <4>1. EndInv(ReadEnd(p), TRUE, consumed[p])'
        BY <1>1, <1>2, <1>6, FourEnds, CallBegins
      <4>2. EndInv(WriteEnd(p), FALSE, produced[p])'
        BY <1>1, <1>2, <2>3, FourEnds, SameKeeps
      <4> QED
        BY <1>1, <1>6, <3>1, <4>1, <4>2 DEF ProcessInv, EndInv
    <3>2. CASE q # p
      BY <1>1, <1>3, <2>3, <3>2, FourEnds, OtherKeeps
    <3> QED
      BY <3>1, <3>2
  <2> QED
    BY <2>1, <2>2, <2>4 DEF TwoWayInv, ProcessInv
<1> QED
  BY <1>4, <1>5, <1>6 DEF TryWrite, TryRead, Goto, TwoWayInv, TwoWayTypeOK

\* A call has returned, never by its timer, with the chunk the counter stands for.
LEMMA ReturnedKeeps ==
  ASSUME TwoWayInv, NEW p \in Processes, Wrote(p) \/ HasRead(p)
  PROVE  TwoWayInv'
<1>0. /\ at' \in [Processes -> Places]
      /\ \A q \in Processes : q # p => at'[q] = at[q]
  BY DEF TwoWayInv, TwoWayTypeOK, Wrote, HasRead, Goto, Places
<1>1. /\ PipeInv /\ chunk \in Nat /\ chunk' = chunk /\ UNCHANGED pipeVars
      /\ produced[p] \in Nat /\ consumed[p] \in Nat /\ Transfers \in Nat
      /\ at' \in [Processes -> Places]
      /\ \A q \in Processes : q # p => at'[q] = at[q]
  <2>1. chunk' = chunk /\ UNCHANGED pipeVars
    BY DEF Wrote, HasRead
  <2> QED
    BY <1>0, <2>1, TwoWayAssumption DEF TwoWayInv, TwoWayTypeOK
<1>2. PipeInv'
  BY <1>1 DEF pipeVars, PipeInv, PipeTypeOK, RoomIsSafe, Exact
<1>3. CASE Wrote(p)
  <2>1. /\ at[p] = "write" /\ at'[p] = "middle" /\ call[WriteEnd(p)] = "idle"
        /\ produced' = [produced EXCEPT ![p] = @ + 1] /\ consumed' = consumed
        /\ complaint' = (complaint \/ result[WriteEnd(p)] = "false")
    BY <1>3 DEF Wrote, Goto, TwoWayInv, TwoWayTypeOK
  <2>2. EndInv(WriteEnd(p), TRUE, produced[p]) /\ produced[p] < Transfers
    BY <2>1 DEF TwoWayInv, EndInv
  <2>3. /\ result[WriteEnd(p)] = "true" /\ produced'[p] = produced[p] + 1
        /\ EndInv(WriteEnd(p), FALSE, produced[p])'
    <3>1. PICK n \in Nat : n = produced[p]
      BY <1>1
    <3>2. /\ result[WriteEnd(p)] = "true" /\ moved[WriteEnd(p)] = (n + 1) * chunk
          /\ EndInv(WriteEnd(p), FALSE, n + 1)'
      BY <1>1, <2>1, <2>2, <3>1, FourEnds, CallEnds
    <3>3. produced'[p] = n + 1
      BY <2>1, <3>1 DEF TwoWayInv, TwoWayTypeOK
    <3> QED
      BY <3>1, <3>2, <3>3 DEF EndInv
  <2>4. produced' \in [Processes -> 0 .. Transfers]
    BY <1>1, <2>1, <2>2 DEF TwoWayInv, TwoWayTypeOK
  <2>5. NoComplaint' /\ complaint' \in BOOLEAN
    BY <2>1, <2>3 DEF NoComplaint, TwoWayInv
  <2>6. TwoWayTypeOK'
    BY <1>1, <1>2, <2>1, <2>4, <2>5 DEF PipeInv, TwoWayInv, TwoWayTypeOK
  <2>7. ASSUME NEW q \in Processes PROVE ProcessInv(q)'
    <3>1. CASE q = p
      <4>2. EndInv(ReadEnd(p), FALSE, consumed[p])'
        BY <1>1, <2>1 DEF TwoWayInv, EndInv, pipeVars
      <4> QED
        BY <2>1, <2>3, <3>1, <4>2 DEF ProcessInv, EndInv
    <3>2. CASE q # p
      <4>1. produced'[q] = produced[q] /\ consumed'[q] = consumed[q]
        BY <2>1, <3>2 DEF TwoWayInv, TwoWayTypeOK
      <4> QED
        BY <1>1, <3>2, <4>1, OtherKeeps DEF Same, pipeVars
    <3> QED
      BY <3>1, <3>2
  <2> QED
    BY <1>2, <2>5, <2>6, <2>7 DEF TwoWayInv, ProcessInv
<1>4. CASE HasRead(p)
  <2>1. /\ at[p] = "read" /\ at'[p] = "top" /\ call[ReadEnd(p)] = "idle"
        /\ consumed' = [consumed EXCEPT ![p] = @ + 1] /\ produced' = produced
        /\ complaint' = (complaint \/ result[ReadEnd(p)] = "false"
                           \/ moved[ReadEnd(p)] # (consumed[p] + 1) * chunk)
    BY <1>4 DEF HasRead, Goto, TwoWayInv, TwoWayTypeOK
  <2>2. EndInv(ReadEnd(p), TRUE, consumed[p]) /\ consumed[p] < Transfers
    BY <2>1 DEF TwoWayInv, EndInv
  <2>3. /\ result[ReadEnd(p)] = "true" /\ moved[ReadEnd(p)] = (consumed[p] + 1) * chunk
        /\ consumed'[p] = consumed[p] + 1
        /\ EndInv(ReadEnd(p), FALSE, consumed[p])'
    <3>1. PICK n \in Nat : n = consumed[p]
      BY <1>1
    <3>2. /\ result[ReadEnd(p)] = "true" /\ moved[ReadEnd(p)] = (n + 1) * chunk
          /\ EndInv(ReadEnd(p), FALSE, n + 1)'
      BY <1>1, <2>1, <2>2, <3>1, FourEnds, CallEnds
    <3>3. consumed'[p] = n + 1
      BY <2>1, <3>1 DEF TwoWayInv, TwoWayTypeOK
    <3> QED
      BY <3>1, <3>2, <3>3 DEF EndInv
  <2>4. consumed' \in [Processes -> 0 .. Transfers]
    BY <1>1, <2>1, <2>2 DEF TwoWayInv, TwoWayTypeOK
  <2>5. NoComplaint' /\ complaint' \in BOOLEAN
    BY <2>1, <2>3 DEF NoComplaint, TwoWayInv
  <2>6. TwoWayTypeOK'
    BY <1>1, <1>2, <2>1, <2>4, <2>5 DEF PipeInv, TwoWayInv, TwoWayTypeOK
  <2>7. ASSUME NEW q \in Processes PROVE ProcessInv(q)'
    <3>1. CASE q = p
      <4>2. EndInv(WriteEnd(p), FALSE, produced[p])'
        BY <1>1, <2>1 DEF TwoWayInv, EndInv, pipeVars
      <4> QED
        BY <2>1, <2>3, <3>1, <4>2 DEF ProcessInv, EndInv
    <3>2. CASE q # p
      <4>1. produced'[q] = produced[q] /\ consumed'[q] = consumed[q]
        BY <2>1, <3>2 DEF TwoWayInv, TwoWayTypeOK
      <4> QED
        BY <1>1, <3>2, <4>1, OtherKeeps DEF Same, pipeVars
    <3> QED
      BY <3>1, <3>2
  <2> QED
    BY <1>2, <2>5, <2>6, <2>7 DEF TwoWayInv, ProcessInv
<1> QED
  BY <1>3, <1>4

-----------------------------------------------------------------------------
(* The theorems.                                                           *)

\* Initially nobody is in a call.
LEMMA TwoWayInitInv == TwoWayInit => TwoWayInv
<1> SUFFICES ASSUME TwoWayInit PROVE TwoWayInv
  OBVIOUS
<1>1. PipeInv
  BY PipeInitInv DEF TwoWayInit
<1>2. TwoWayTypeOK /\ NoComplaint
  <2>1. PipeTypeOK /\ chunk \in Chunks /\ ~complaint /\ complaint \in BOOLEAN
    BY <1>1 DEF PipeInv, TwoWayInit
  <2>2. at \in [Processes -> Places]
    BY DEF TwoWayInit, Places
  <2>3. /\ produced \in [Processes -> 0 .. Transfers]
        /\ consumed \in [Processes -> 0 .. Transfers]
    BY TwoWayAssumption DEF TwoWayInit
  <2> QED
    BY <2>1, <2>2, <2>3 DEF TwoWayTypeOK, NoComplaint
<1>3. ASSUME NEW p \in Processes PROVE ProcessInv(p)
  <2>1. chunk \in Nat /\ at[p] = "top" /\ produced[p] = 0 /\ consumed[p] = 0
    BY TwoWayAssumption DEF TwoWayInit
  <2>2. 0 * chunk = 0
    BY <2>1
  <2> QED
    BY <2>1, <2>2, FourEnds DEF ProcessInv, EndInv, TwoWayInit, PipeInit
<1> QED
  BY <1>1, <1>2, <1>3 DEF TwoWayInv, ProcessInv

\* Every call goes straight through, and the counters stand for whole chunks.
THEOREM TwoWayInvariant == TwoWaySafety => []TwoWayInv
<1>1. TwoWayInv /\ [TwoWayNext]_twoWayVars => TwoWayInv'
  <2> SUFFICES ASSUME TwoWayInv, [TwoWayNext]_twoWayVars PROVE TwoWayInv'
    OBVIOUS
  <2>1. ASSUME NEW p \in Processes, Program(p) PROVE TwoWayInv'
    BY <2>1, AskKeeps, TryKeeps, ReturnedKeeps DEF Program
  <2>2. ASSUME NEW p \in Processes, InCall(p) PROVE TwoWayInv'
    BY <2>2, InCallKeeps
  <2>3. CASE UNCHANGED twoWayVars
    BY <2>3 DEF twoWayVars, pipeVars, TwoWayInv, TwoWayTypeOK, NoComplaint, EndInv,
                PipeInv, PipeTypeOK, RoomIsSafe, Exact
  <2> QED
    BY <2>1, <2>2, <2>3 DEF TwoWayNext
<1> QED
  BY <1>1, TwoWayInitInv, PTL DEF TwoWaySafety

\* No transfer of the two-way test ever times out or delivers a chunk out of
\* place, for any chunk size, capacity and number of transfers.
THEOREM NobodyComplains == TwoWaySafety => []NoComplaint
<1>1. TwoWayInv => NoComplaint
  BY DEF TwoWayInv
<1> QED
  BY <1>1, TwoWayInvariant, PTL

\* The counters stay within the number of transfers, and the calls of both pipes
\* in their types.
THEOREM TwoWayTypes == TwoWaySafety => []TwoWayTypeOK
<1>1. TwoWayInv => TwoWayTypeOK
  BY DEF TwoWayInv
<1> QED
  BY <1>1, TwoWayInvariant, PTL

\* No count exceeds the capacity.
LEMMA RoomIsBounded ==
  ASSUME PipeInv, NEW e \in Ends
  PROVE  room[e] <= Capacity
<1>1. /\ Peer(e) \in Ends /\ e[2] \in {"writer", "reader"}
      /\ Peer(e)[2] = "writer" <=> e[2] = "reader"
      /\ Peer(Peer(e)) = e
  BY Peers
<1>2. /\ moved[e] \in Nat /\ moved[Peer(e)] \in Nat /\ room[e] \in Nat /\ pending[e] \in Nat
      /\ Exact(e) \in Nat /\ Exact(Peer(e)) \in Nat
      /\ room[e] + pending[e] <= Exact(e)
  BY <1>1, EndFacts
<1>3. CASE e[2] = "writer"
  BY <1>1, <1>2, <1>3, PipeAssumption DEF Exact
<1>4. CASE e[2] = "reader"
  BY <1>1, <1>2, <1>4, PipeAssumption DEF Exact
<1> QED
  BY <1>1, <1>3, <1>4

\* A chunk that does not fit is never tried.
LEMMA StuckKeeps ==
  ASSUME TwoWayInv, StuckInv, [TwoWayNext]_twoWayVars
  PROVE  StuckInv'
<1> SUFFICES ASSUME chunk' > Capacity, Transfers > 0, NEW q \in Processes
             PROVE  /\ produced'[q] = 0 /\ consumed'[q] = 0
                    /\ at'[q] \in {"top", "free", "middle", "available"}
  BY DEF StuckInv
<1>1. CASE UNCHANGED twoWayVars
  BY <1>1 DEF twoWayVars, StuckInv
<1>2. ASSUME NEW p \in Processes, InCall(p)
      PROVE  /\ produced'[q] = 0 /\ consumed'[q] = 0
             /\ at'[q] \in {"top", "free", "middle", "available"}
  BY <1>2 DEF InCall, StuckInv
<1>3. ASSUME NEW p \in Processes, Program(p)
      PROVE  /\ produced'[q] = 0 /\ consumed'[q] = 0
             /\ at'[q] \in {"top", "free", "middle", "available"}
  <2>1. chunk' = chunk
    BY <1>3 DEF Program, AskFree, TryWrite, Wrote, AskAvailable, TryRead, HasRead
  <2>2. \A x \in Processes : /\ produced[x] = 0 /\ consumed[x] = 0
                             /\ at[x] \in {"top", "free", "middle", "available"}
    BY <2>1 DEF StuckInv
  <2>3. ~(room[WriteEnd(p)] >= chunk) /\ ~(room[ReadEnd(p)] >= chunk)
    <3>1. WriteEnd(p) \in Ends /\ ReadEnd(p) \in Ends /\ PipeInv /\ chunk \in Nat
      BY FourEnds, TwoWayAssumption DEF TwoWayInv, TwoWayTypeOK
    <3>2. /\ room[WriteEnd(p)] <= Capacity /\ room[WriteEnd(p)] \in Nat
          /\ room[ReadEnd(p)] <= Capacity /\ room[ReadEnd(p)] \in Nat
      BY <3>1, RoomIsBounded, EndFacts
    <3> QED
      BY <2>1, <3>1, <3>2, PipeAssumption
  <2>4. at \in [Processes -> Places] /\ p \in Processes
    BY DEF TwoWayInv, TwoWayTypeOK
  <2>5. at'[q] \in {"top", "free", "middle", "available"}
        /\ produced' = produced /\ consumed' = consumed
    BY <1>3, <2>2, <2>3, <2>4
       DEF Program, AskFree, TryWrite, Wrote, AskAvailable, TryRead, HasRead, Goto
  <2> QED
    BY <2>2, <2>5
<1> QED
  BY <1>1, <1>2, <1>3 DEF TwoWayNext

\* The deadlock that the comment of the tests speaks of: with a chunk that exceeds
\* the capacity no byte is ever moved and no process finishes, whatever the schedule.
THEOREM TooLargeIsStuck == TwoWaySafety => []TooLargeMovesNothing
<1>1. TwoWayInit => StuckInv
  BY DEF TwoWayInit, StuckInv
<1>2. TwoWayInv /\ StuckInv => TooLargeMovesNothing
  <2> SUFFICES ASSUME TwoWayInv, StuckInv, chunk > Capacity, Transfers > 0
               PROVE  /\ \A e \in Ends : moved[e] = 0
                      /\ \A p \in Processes : at[p] # "finished"
    BY DEF TooLargeMovesNothing
  <2>1. \A p \in Processes : at[p] # "finished"
    BY DEF StuckInv
  <2>2. ASSUME NEW p \in Processes
        PROVE  moved[WriteEnd(p)] = 0 /\ moved[ReadEnd(p)] = 0
    <3>1. /\ EndInv(WriteEnd(p), FALSE, 0) /\ EndInv(ReadEnd(p), FALSE, 0)
          /\ chunk \in Nat
      BY TwoWayAssumption DEF TwoWayInv, TwoWayTypeOK, StuckInv, EndInv
    <3> QED
      BY <3>1 DEF EndInv
  <2>3. ASSUME NEW e \in Ends PROVE moved[e] = 0
    <3>1. PICK d \in Processes : e = <<d, "writer">> \/ e = <<d, "reader">>
      BY DEF Ends, Processes
    <3>2. Partner(d) \in Processes /\ Partner(Partner(d)) = d
      BY Partners
    <3> QED
      BY <2>2, <3>1, <3>2 DEF WriteEnd, ReadEnd
  <2> QED
    BY <2>1, <2>3
<1>3. TwoWayInv /\ StuckInv /\ [TwoWayNext]_twoWayVars => StuckInv'
  BY StuckKeeps
<1> QED
  BY <1>1, <1>2, <1>3, TwoWayInvariant, PTL DEF TwoWaySafety
=============================================================================
