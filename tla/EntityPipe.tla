----------------------------- MODULE EntityPipe ------------------------------
(***************************************************************************)
(* Two cEntity objects on the two ends of a ring implement one pipe.  The  *)
(* mapping forgets the pointers, the snapshots and the timers: waiting in  *)
(* the loop and asking for the count in it are one place, asking for a     *)
(* count on behalf of the program is no place at all, and a count is given *)
(* at the moment its second load agrees with its first.                    *)
(***************************************************************************)
EXTENDS EntityInduction

\* The one pipe and its ends.
PipeEnds == {"ring"} \X Ends

\* A count for the program is outside a call; a count in the loop is the loop.
Place(e) ==
  IF call[e] = "count" THEN "idle" ELSE IF call[e] = "query" THEN "loop" ELSE call[e]

\* The variables of the pipe, from the two entities.
pipeMoved   == [x \in PipeEnds |-> Moved(x[2])]
pipeRoom    == [x \in PipeEnds |-> Room(x[2])]
pipePending == [x \in PipeEnds |-> Pending(x[2])]
pipeCall    == [x \in PipeEnds |-> Place(x[2])]
pipeRequest == [x \in PipeEnds |-> request[x[2]]]
pipeDone    == [x \in PipeEnds |-> done[x[2]]]
pipeResult  == [x \in PipeEnds |-> result[x[2]]]

P == INSTANCE Pipe WITH
       Directions <- {"ring"}, Capacity <- EffectiveBufferSize - 1,
       moved <- pipeMoved, room <- pipeRoom, pending <- pipePending,
       call <- pipeCall, request <- pipeRequest, done <- pipeDone, result <- pipeResult

\* A step of the pipe, with the requests the callers make.
PipeStep ==
  \E e \in PipeEnds :
    \/ P!Refresh(e) \/ P!Progress(e) \/ P!GiveUp(e)
    \/ \E n \in Requests : P!Call(e, n)

\* Every load, store, timeout and crash of two entities is a step of the pipe or
\* none: a count is exact at the moment it is given, bytes are visible once
\* published, and a call ends only when it has moved everything or gives up.
ImplementsPipe == P!PipeInit /\ [][PipeStep]_P!pipeVars
=============================================================================
