--------------------------- MODULE TwoWayInduction ----------------------------
(***************************************************************************)
(* The inductive invariant of TwoWay.                                      *)
(***************************************************************************)
EXTENDS TwoWay

\* The inductive invariant: a call the program has checked for goes straight
\* through (it never waits, so it never gives up), and the bytes an end has moved
\* are those of the chunks its program has counted.
EndInv(e, busy, n) ==
  IF busy
  THEN /\ request[e] = chunk
       /\ call[e] \in {"first", "direct", "idle"}
       /\ call[e] = "first" => room[e] >= chunk
       /\ call[e] = "idle" => result[e] = "true"
       /\ moved[e] + pending[e] + (IF call[e] = "first" THEN chunk ELSE 0) = (n + 1) * chunk
       /\ call[e] = "idle" => pending[e] = 0
  ELSE call[e] = "idle" /\ moved[e] = n * chunk

TwoWayInv ==
  /\ PipeInv
  /\ TwoWayTypeOK
  /\ NoComplaint
  /\ \A p \in Processes :
       /\ EndInv(WriteEnd(p), at[p] = "write", produced[p])
       /\ EndInv(ReadEnd(p), at[p] = "read", consumed[p])
       /\ at[p] = "write" => produced[p] < Transfers
       /\ at[p] = "read" => consumed[p] < Transfers

\* What TooLargeMovesNothing needs beside it: no count is ever large enough for a
\* chunk, so no process gets beyond its counts.
StuckInv ==
  chunk > Capacity /\ Transfers > 0 =>
    \A p \in Processes :
      /\ produced[p] = 0 /\ consumed[p] = 0
      /\ at[p] \in {"top", "free", "middle", "available"}
=============================================================================
