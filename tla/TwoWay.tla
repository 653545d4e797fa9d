-------------------------------- MODULE TwoWay --------------------------------
(***************************************************************************)
(* The two-way transfer of MemMapTest: a server and a client both write    *)
(* and both read chunks of one size, each direction a pipe of its own.     *)
(* Each process asks for the free bytes, writes a chunk if it fits, asks   *)
(* for the available bytes, reads a chunk if there is one, and so on until *)
(* it has done enough of both.                                             *)
(*                                                                         *)
(* A direction carries the name of the process that writes to it.          *)
(***************************************************************************)
EXTENDS Pipe

CONSTANTS
  Chunks,    \* the values of chunkSize
  Transfers  \* VERIFICATION_TRANSFER_SIZE / chunkSize

ASSUME TwoWayAssumption ==
  /\ Chunks \subseteq Nat
  /\ Transfers \in Nat
  /\ \E p, q \in Directions : p # q /\ Directions = {p, q}

Processes == Directions
Partner(p) == CHOOSE q \in Processes : q # p

WriteEnd(p) == <<p, "writer">>
ReadEnd(p)  == <<Partner(p), "reader">>

VARIABLES
  chunk,     \* chunkSize
  at,        \* where each process is in its program
  produced,  \* productionCounter
  consumed,  \* consumptionCounter
  complaint  \* globalMessage is not empty

twoWayVars == <<pipeVars, chunk, at, produced, consumed, complaint>>

\* top       at the loop condition
\* free      has the count of free bytes
\* write     in WriteData
\* middle    about to ask for the available bytes
\* available has that count
\* read      in ReadData
Places == {"top", "free", "write", "middle", "available", "read", "finished"}

TwoWayInit ==
  /\ PipeInit
  /\ chunk \in Chunks
  /\ at = [p \in Processes |-> "top"]
  /\ produced = [p \in Processes |-> 0]
  /\ consumed = [p \in Processes |-> 0]
  /\ complaint = FALSE

Goto(p, place) == at' = [at EXCEPT ![p] = place]

-----------------------------------------------------------------------------
\* The loop condition, and NumberOfBytesFreeToWrite.
AskFree(p) ==
  /\ at[p] = "top"
  /\ IF produced[p] < Transfers \/ consumed[p] < Transfers
     THEN Refresh(WriteEnd(p)) /\ Goto(p, "free")
     ELSE Goto(p, "finished") /\ UNCHANGED pipeVars
  /\ UNCHANGED <<chunk, produced, consumed, complaint>>

\* Mutants: the check is off by one, in either direction, or ignores the counter.
TryWriteUncounted(p) ==
  /\ at[p] = "free"
  /\ IF room[WriteEnd(p)] >= chunk
     THEN Call(WriteEnd(p), chunk) /\ Goto(p, "write")
     ELSE Goto(p, "middle") /\ UNCHANGED pipeVars
  /\ UNCHANGED <<chunk, produced, consumed, complaint>>

TryWriteShort(p) ==
  /\ at[p] = "free"
  /\ IF room[WriteEnd(p)] + 1 >= chunk /\ produced[p] < Transfers
     THEN Call(WriteEnd(p), chunk) /\ Goto(p, "write")
     ELSE Goto(p, "middle") /\ UNCHANGED pipeVars
  /\ UNCHANGED <<chunk, produced, consumed, complaint>>

TryWriteStrict(p) ==
  /\ at[p] = "free"
  /\ IF room[WriteEnd(p)] > chunk /\ produced[p] < Transfers
     THEN Call(WriteEnd(p), chunk) /\ Goto(p, "write")
     ELSE Goto(p, "middle") /\ UNCHANGED pipeVars
  /\ UNCHANGED <<chunk, produced, consumed, complaint>>

\* Write a chunk if it fits.
TryWrite(p) ==
  /\ at[p] = "free"
  /\ IF room[WriteEnd(p)] >= chunk /\ produced[p] < Transfers
     THEN Call(WriteEnd(p), chunk) /\ Goto(p, "write")
     ELSE Goto(p, "middle") /\ UNCHANGED pipeVars
  /\ UNCHANGED <<chunk, produced, consumed, complaint>>

\* WriteData has returned: a timeout is reported.
Wrote(p) ==
  /\ at[p] = "write"
  /\ call[WriteEnd(p)] = "idle"
  /\ complaint' = (complaint \/ result[WriteEnd(p)] = "false")
  /\ produced' = [produced EXCEPT ![p] = @ + 1]
  /\ Goto(p, "middle")
  /\ UNCHANGED <<pipeVars, chunk, consumed>>

\* NumberOfBytesAvailableToRead.
AskAvailable(p) ==
  /\ at[p] = "middle"
  /\ Refresh(ReadEnd(p))
  /\ Goto(p, "available")
  /\ UNCHANGED <<chunk, produced, consumed, complaint>>

\* Read a chunk if one is there.
TryRead(p) ==
  /\ at[p] = "available"
  /\ IF room[ReadEnd(p)] >= chunk /\ consumed[p] < Transfers
     THEN Call(ReadEnd(p), chunk) /\ Goto(p, "read")
     ELSE Goto(p, "top") /\ UNCHANGED pipeVars
  /\ UNCHANGED <<chunk, produced, consumed, complaint>>

\* ReadData has returned: a timeout is reported, and a byte that is not at the
\* same place of the chunk as it was written.  Chunks of the stream begin at
\* multiples of their size.
HasRead(p) ==
  /\ at[p] = "read"
  /\ call[ReadEnd(p)] = "idle"
  /\ complaint' = \/ complaint
                  \/ result[ReadEnd(p)] = "false"
                  \/ moved[ReadEnd(p)] # (consumed[p] + 1) * chunk
  /\ consumed' = [consumed EXCEPT ![p] = @ + 1]
  /\ Goto(p, "top")
  /\ UNCHANGED <<pipeVars, chunk, produced>>

Program(p) ==
  AskFree(p) \/ TryWrite(p) \/ Wrote(p) \/ AskAvailable(p) \/ TryRead(p) \/ HasRead(p)

\* A process is in one call at a time; its timer may end it.
InCall(p) ==
  /\ \E e \in {WriteEnd(p), ReadEnd(p)} : Progress(e) \/ GiveUp(e)
  /\ UNCHANGED <<chunk, at, produced, consumed, complaint>>

TwoWayNext == \E p \in Processes : Program(p) \/ InCall(p)

TwoWaySafety == TwoWayInit /\ [][TwoWayNext]_twoWayVars

\* A process that has something to do is scheduled.
TwoWaySpec ==
  TwoWaySafety /\ \A p \in Processes : WF_twoWayVars(Program(p) \/ InCall(p))

-----------------------------------------------------------------------------
(* Correctness.                                                            *)

TwoWayTypeOK ==
  /\ PipeTypeOK
  /\ chunk \in Chunks
  /\ at \in [Processes -> Places]
  /\ produced \in [Processes -> 0 .. Transfers]
  /\ consumed \in [Processes -> 0 .. Transfers]
  /\ complaint \in BOOLEAN

\* What every one of these tests asserts: no transfer times out, however short the
\* timeout and however slow the other process, and every chunk arrives whole.  The
\* program has checked the count itself, and the count the call takes later can
\* only be larger.
NoComplaint == ~complaint

\* For chunks that do not fit into the buffer "the threads will deadlock", as the
\* comment of the tests has it: not a byte is ever moved.
TooLargeMovesNothing ==
  chunk > Capacity /\ Transfers > 0 =>
    /\ \A e \in Ends : moved[e] = 0
    /\ \A p \in Processes : at[p] # "finished"

\* The tests end when a chunk fits.
EndsIfChunkFits ==
  /\ (chunk <= Capacity) ~> (\A p \in Processes : at[p] = "finished")
  /\ []TooLargeMovesNothing
=============================================================================
