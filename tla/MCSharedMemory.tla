--------------------------- MODULE MCSharedMemory ---------------------------
(***************************************************************************)
(* SharedMemory with a few interchangeable processes and objects.          *)
(***************************************************************************)
EXTENDS SharedMemoryHistory, TLC

\* No definition tells two servers, two clients or two objects apart, and the
\* properties checked are invariants.
Symmetry == Permutations(Servers) \cup Permutations(Clients) \cup Permutations(Objects)
=============================================================================
