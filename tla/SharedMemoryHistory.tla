------------------------- MODULE SharedMemoryHistory -------------------------
(***************************************************************************)
(* SharedMemory with a history: whether everybody has kept to the order of *)
(* the tests so far, who start a client only when a server has finished.   *)
(* Some things hold whatever the processes do, others only until the first *)
(* client that comes too early, or probes.                                 *)
(***************************************************************************)
EXTENDS SharedMemory

VARIABLE ordered  \* history: every step so far was one of OrderedNext

historyVars == <<sharedMemoryVars, ordered>>

HistoryInit == SharedMemoryInit /\ ordered = TRUE

HistoryNext == SharedMemoryNext /\ ordered' = (ordered /\ OrderedNext)

HistorySpec == HistoryInit /\ [][HistoryNext]_historyVars

-----------------------------------------------------------------------------
(* Correctness, as long as the order is kept.                              *)

\* If clients open only what a server has finished, then whoever crashes or
\* restarts afterwards, every client goes by the server's buffer size, later
\* clients will too, and each end writes where the other one reads.
AgreeInOrder == ordered => AttachedAgree

\* Under the same order the timestamps tell an observer who has been there.
StampsTellInOrder == ordered => StampsTell

\* The inductive invariant of the proofs: what holds anyway, and what the order adds.
HistoryInv ==
  /\ SharedInv
  /\ ordered => OrderedInv
=============================================================================
