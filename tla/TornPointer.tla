----------------------------- MODULE TornPointer ------------------------------
(***************************************************************************)
(* The pointers of CircularBuffer when a load or a store of one is not     *)
(* atomic.  A pointer that is not aligned, which depends on the size of    *)
(* the buffer, can be divided at any byte; a 32-bit build (Win32)          *)
(* divides every one in the middle.  It is accessed in two parts, in       *)
(* either order, and the other process can come in between, as often as    *)
(* it likes.                                                               *)
(*                                                                         *)
(* CircularBuffer takes a pointer to be one word and follows the bytes.    *)
(* Here the bytes are gone: an end counts and advances.  A transfer over   *)
(* the wraparound is two advances without a count between them.            *)
(***************************************************************************)
EXTENDS RingArithmetic

CONSTANT
  Lows  \* where a pointer may divide: the numbers of values of its low part

ASSUME TornAssumption == Lows \subseteq Nat \ {0}

VARIABLES
  low,       \* the number of values of the low part
  copies,    \* the two copies of each end's pointer in shared memory, in parts
  own,       \* the value each end has last computed for its pointer
  pc,        \* the copy of the other's pointer it loads, of its own it stores
  todo,      \* the parts of it still to access
  loaded,    \* the parts of both copies it has loaded
  budget,    \* the count it was last given, less what it moved since
  overlaps,  \* history: the other's advances this turn of the count's loop has met,
             \* in part or as a whole; 2 stands for two and more
  doubtful   \* history: a divided count was accepted in a turn that met two or more

tornVars == <<low, copies, own, pc, todo, loaded, budget, overlaps, doubtful>>

Ends     == {"writer", "reader"}
Other(e) == IF e = "writer" THEN "reader" ELSE "writer"
Copies   == {"first", "second"}
Parts    == {"low", "high"}

Split(v) == [p \in Parts |-> IF p = "low" THEN v % low ELSE v \div low]
Whole(s) == s["high"] * low + s["low"]

NothingLoaded == [c \in Copies |-> Split(0)]

TornInit ==
  /\ low \in Lows
  /\ copies = [e \in Ends |-> [c \in Copies |-> Split(0)]]
  /\ own = [e \in Ends |-> 0]
  /\ pc = [e \in Ends |-> "idle"]
  /\ todo = [e \in Ends |-> {}]
  /\ loaded = [e \in Ends |-> NothingLoaded]
  /\ budget = [e \in Ends |-> 0]
  /\ overlaps = [e \in Ends |-> 0]
  /\ doubtful = FALSE

-----------------------------------------------------------------------------
\* A copy of a pointer is next: to load, or to store.
Access(e, place) ==
  /\ pc' = [pc EXCEPT ![e] = place]
  /\ todo' = [todo EXCEPT ![e] = Parts]

\* A turn of the loop: the other end may be in the middle of an advance.
BeginTurn(e) ==
  /\ Access(e, "load second")
  /\ overlaps' = [overlaps EXCEPT ![e] =
       IF pc[Other(e)] \in {"store first", "store second"} THEN 1 ELSE 0]

AccessPart(e, p) == p \in todo[e] /\ todo' = [todo EXCEPT ![e] = @ \ {p}]

BeginCount(e) ==
  /\ pc[e] = "idle"
  /\ BeginTurn(e)
  /\ UNCHANGED <<low, copies, own, loaded, budget, doubtful>>

\* One part of the other end's second copy, or of its pointer.
LoadPart(e, p) ==
  /\ \E c \in Copies :
       /\ pc[e] = (IF c = "second" THEN "load second" ELSE "load first")
       /\ loaded' = [loaded EXCEPT ![e][c][p] = copies[Other(e)][c][p]]
  /\ AccessPart(e, p)
  /\ UNCHANGED <<low, copies, own, pc, budget, overlaps, doubtful>>

\* The second copy is loaded, the pointer is next.
LoadFirst(e) ==
  /\ pc[e] = "load second" /\ todo[e] = {}
  /\ Access(e, "load first")
  /\ UNCHANGED <<low, copies, own, loaded, budget, overlaps, doubtful>>

CountOf(e, mine, other) ==
  IF e = "writer" THEN FreeToWrite(mine, other) ELSE AvailableToRead(other, mine)

Count(e) == CountOf(e, own[e], Whole(loaded[e]["second"]))

\* The bytes the end could move at this moment: the count from the other's pointer itself.
Exact(e) == CountOf(e, own[e], own[Other(e)])

\* A pointer can take values that differ in both parts.
Divided == low < EffectiveBufferSize

\* Mutant: the count is returned although the copies differ.
CompareNothing(e) ==
  /\ pc[e] = "load first" /\ todo[e] = {}
  /\ budget' = [budget EXCEPT ![e] = Count(e)]
  /\ pc' = [pc EXCEPT ![e] = "idle"]
  /\ overlaps' = [overlaps EXCEPT ![e] = 0]
  /\ loaded' = [loaded EXCEPT ![e] = NothingLoaded]
  /\ doubtful' = (doubtful \/ (overlaps[e] = 2 /\ Divided))
  /\ UNCHANGED <<low, copies, own, todo>>

\* Both are loaded: return the count if they agree.
Compare(e) ==
  /\ pc[e] = "load first" /\ todo[e] = {}
  /\ IF Whole(loaded[e]["second"]) = Whole(loaded[e]["first"])
     THEN /\ budget' = [budget EXCEPT ![e] = Count(e)]
          /\ pc' = [pc EXCEPT ![e] = "idle"]
          /\ overlaps' = [overlaps EXCEPT ![e] = 0]
          /\ doubtful' = (doubtful \/ (overlaps[e] = 2 /\ Divided))
          /\ UNCHANGED todo
     ELSE BeginTurn(e) /\ UNCHANGED <<budget, doubtful>>
  /\ loaded' = [loaded EXCEPT ![e] = NothingLoaded]
  /\ UNCHANGED <<low, copies, own>>

\* AdvanceProducer, AdvanceConsumer after a memcpy of n bytes.
BeginAdvance(e, n) ==
  /\ pc[e] = "idle"
  /\ n <= EffectiveBufferSize - own[e]
  /\ own' = [own EXCEPT ![e] = Advance(@, n)]
  /\ budget' = [budget EXCEPT ![e] = @ - n]
  /\ Access(e, "store first")
  /\ overlaps' = IF pc[Other(e)] \in {"load second", "load first"} /\ overlaps[Other(e)] < 2
                 THEN [overlaps EXCEPT ![Other(e)] = @ + 1] ELSE overlaps
  /\ UNCHANGED <<low, copies, loaded, doubtful>>

\* One part of a copy of its own pointer.
StorePart(e, p) ==
  /\ \E c \in Copies :
       /\ pc[e] = (IF c = "second" THEN "store second" ELSE "store first")
       /\ copies' = [copies EXCEPT ![e][c][p] = Split(own[e])[p]]
  /\ AccessPart(e, p)
  /\ UNCHANGED <<low, own, pc, loaded, budget, overlaps, doubtful>>

\* A copy is stored: the second one is next, or the advance is done.
Stored(e) ==
  /\ todo[e] = {}
  /\ \/ pc[e] = "store first" /\ Access(e, "store second")
     \/ pc[e] = "store second" /\ pc' = [pc EXCEPT ![e] = "idle"] /\ UNCHANGED todo
  /\ UNCHANGED <<low, copies, own, loaded, budget, overlaps, doubtful>>

TornNext ==
  \E e \in Ends :
    \/ BeginCount(e) \/ LoadFirst(e) \/ Compare(e) \/ Stored(e)
    \/ \E n \in 1 .. budget[e] : BeginAdvance(e, n)
    \/ \E p \in Parts : LoadPart(e, p) \/ StorePart(e, p)

TornSpec == TornInit /\ [][TornNext]_tornVars

-----------------------------------------------------------------------------
(* Correctness.                                                            *)

\* However the loads and stores of two processes fall, a count is only ever too large
\* after one was accepted of which two things are true: the pointer divides inside the
\* ring, and the turn of the loop that accepted it met two advances of the other end.
\* Then the same two halves can come from the second copy and, an advance later, from
\* the pointer.  One advance never does it: a value half old and half new is refused,
\* or errs on the safe side (the comparison, CircularWriteBuffer.cpp:41).  Nor does any
\* number in a 32-bit build, where the upper half of a pointer is always 0.
TornCountIsSafe == doubtful \/ \A e \in Ends : budget[e] <= Exact(e)

-----------------------------------------------------------------------------
(* The inductive invariants.                                               *)

TornTypeOK ==
  /\ low \in Lows
  /\ copies \in [Ends -> [Copies -> [Parts -> Nat]]]
  /\ loaded \in [Ends -> [Copies -> [Parts -> Nat]]]
  /\ own \in [Ends -> Offsets]
  /\ pc \in [Ends -> {"idle", "load second", "load first", "store first", "store second"}]
  /\ todo \in [Ends -> SUBSET Parts]
  /\ budget \in [Ends -> Nat]
  /\ overlaps \in [Ends -> 0 .. 2]

Counting(e) == pc[e] \in {"load second", "load first"}
Storing(e)  == pc[e] \in {"store first", "store second"}

\* The part of a copy that an end has stored, in the middle of an advance.
Fresh(e, c) == \A p \in Parts \ todo[e] : copies[e][c][p] = Split(own[e])[p]

\* An end that is not storing has both copies right.  While it stores the first one,
\* the second is still its former pointer, from which the other end counts less.
CopiesInv(e) ==
  LET o   == Other(e)
      old == Whole(copies[e]["second"])
  IN  /\ pc[e] # "store first" => copies[e]["first"] = Split(own[e])
      /\ ~Storing(e) => copies[e]["second"] = Split(own[e])
      /\ pc[e] = "store second" => Fresh(e, "second")
      /\ pc[e] = "store first" =>
           /\ Fresh(e, "first")
           /\ old \in Offsets
           /\ budget[o] <= CountOf(o, own[o], old)
           /\ CountOf(o, own[o], old) <= Exact(o)

\* What a count has loaded of the second copy and of the first.
LoadedOfSecond(e) == IF pc[e] = "load first" THEN Parts ELSE Parts \ todo[e]
LoadedOfFirst(e)  == IF pc[e] = "load first" THEN Parts \ todo[e] ELSE {}

\* A turn that has met one advance at most.  Until the other end has stored its first
\* copy the loads of the second are of the former pointer.  From then on the loads of
\* the first are of the new one, and if one of them has been made before, the second
\* has been loaded: it can be accepted.
TurnInv(e) ==
  LET o == Other(e)
  IN  Counting(e) /\ overlaps[e] < 2 =>
        /\ overlaps[e] = 0 => ~Storing(o)
        /\ overlaps[e] = 0 \/ pc[o] = "store first" =>
             \A p \in LoadedOfSecond(e) : loaded[e]["second"][p] = copies[o]["second"][p]
        /\ overlaps[e] # 0 /\ pc[o] # "store first" =>
             \/ \A p \in LoadedOfFirst(e) : loaded[e]["first"][p] = copies[o]["first"][p]
             \/ pc[e] = "load first" /\ Count(e) <= Exact(e) /\ Count(e) \in Nat

\* Pointers that divide inside the ring, as long as no count is doubtful.
DividedInv ==
  /\ TornTypeOK
  /\ \A e \in Ends : budget[e] <= Exact(e) /\ CopiesInv(e) /\ TurnInv(e)

\* A pointer that does not divide there is its lower part.  The second copy only lags, and
\* what a count has loaded of it lags behind what it is by now.
LagInv(e) ==
  LET second == copies[Other(e)]["second"]
      mine   == loaded[e]["second"]
  IN  /\ second["high"] = 0 /\ second["low"] \in Offsets
      /\ budget[e] <= CountOf(e, own[e], second["low"])
      /\ CountOf(e, own[e], second["low"]) <= Exact(e)
      /\ Counting(e) =>
           /\ "high" \in LoadedOfSecond(e) => mine["high"] = 0
           /\ "low" \in LoadedOfSecond(e) =>
                /\ mine["low"] \in Offsets
                /\ CountOf(e, own[e], mine["low"]) <= CountOf(e, own[e], second["low"])

TornInv == IF Divided THEN doubtful \/ DividedInv ELSE \A e \in Ends : LagInv(e)
=============================================================================
