----------------------------- MODULE ByteStream -----------------------------
(***************************************************************************)
(* What one direction of a connection promises: a first-in first-out       *)
(* stream of bytes of bounded capacity, one end appending to it and the    *)
(* other end taking from its front.  The bytes of the stream are           *)
(* represented by their positions in it, 0, 1, 2, ...                      *)
(***************************************************************************)
EXTENDS Integers, Sequences

CONSTANT Capacity  \* the most bytes in flight

VARIABLES
  queue,  \* the bytes in flight, oldest first
  sent    \* how many bytes have been appended so far

Init ==
  /\ queue = <<>>
  /\ sent = 0

Send(k) ==
  /\ Len(queue) + k <= Capacity
  /\ queue' = queue \o [i \in 1 .. k |-> sent + i - 1]
  /\ sent' = sent + k

Receive(k) ==
  /\ queue' = SubSeq(queue, k + 1, Len(queue))
  /\ UNCHANGED sent

Next ==
  \/ \E k \in 1 .. Capacity : Send(k)
  \/ \E k \in 1 .. Len(queue) : Receive(k)

Spec == Init /\ [][Next]_<<queue, sent>>
=============================================================================
