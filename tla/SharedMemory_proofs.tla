------------------------- MODULE SharedMemory_proofs -------------------------
(***************************************************************************)
(* Proofs about SharedMemory, for any number of servers, clients,          *)
(* observers and objects, any of which may crash, restart or probe at any  *)
(* step: SharedInv is an inductive invariant, and no split brain and no    *)
(* second server follow from it.  As long as the order of the tests is     *)
(* kept, so does OrderedInv, and client and server agree on the layout.    *)
(***************************************************************************)
EXTENDS SharedMemoryHistory, TLAPS

\* As long as the name is free, nobody holds anything.
LEMMA FreeNameNoHolder ==
  ASSUME SharedInv, named = None
  PROVE  \A p \in Processes : object[p] = None /\ region[p] = None /\ probe[p] = None
  BY SharedAssumption DEF SharedInv, SharedTypeOK, Holds

\* Initially nobody holds anything.
LEMMA SharedInit ==
  SharedMemoryInit => SharedInv
  BY SharedAssumption
     DEF SharedMemoryInit, SharedInv, SharedTypeOK, Holds, Processes, Zeroed, Memories,
         Steps, NoRing

-----------------------------------------------------------------------------
(* Every action keeps SharedInv.                                           *)

\* Creation finds the name free, so the server is the only holder.
LEMMA ServerCreateKeeps ==
  ASSUME SharedInv, NEW s \in Servers, ServerCreate(s)
  PROVE  SharedInv'
  BY SharedAssumption, FreeNameNoHolder
     DEF ServerCreate, SharedInv, SharedTypeOK, Holds, Processes, Steps, Goto, Zeroed, Memories,
         CreateOnly

\* A refused creation changes nothing else.
LEMMA ServerCreateThrowsKeeps ==
  ASSUME SharedInv, NEW s \in Servers, ServerCreateThrows(s)
  PROVE  SharedInv'
  BY SharedAssumption
     DEF ServerCreateThrows, SharedInv, SharedTypeOK, Holds, Processes

\* The mapping is of the object of the handle; the name stays bound.
LEMMA MapKeeps ==
  ASSUME SharedInv, NEW p \in Processes, Map(p)
  PROVE  SharedInv'
  BY SharedAssumption
     DEF Map, SharedInv, SharedTypeOK, Holds, Steps, Goto, NameFollowsHolders

\* A failed mapping leaves the handle.
LEMMA MapThrowsKeeps ==
  ASSUME SharedInv, NEW p \in Processes, MapThrows(p)
  PROVE  SharedInv'
  BY SharedAssumption
     DEF MapThrows, SharedInv, SharedTypeOK, Holds, Steps, Goto

\* memset leaves a zeroed memory.
LEMMA ServerClearKeeps ==
  ASSUME SharedInv, NEW s \in Servers, ServerClear(s)
  PROVE  SharedInv'
  BY SharedAssumption
     DEF ServerClear, SharedInv, SharedTypeOK, Holds, Processes, Steps, Goto, Zeroed, Memories

\* The size stored is the server's.
LEMMA ServerLayoutKeeps ==
  ASSUME SharedInv, NEW s \in Servers, ServerLayout(s)
  PROVE  SharedInv'
  BY SharedAssumption
     DEF ServerLayout, SharedInv, SharedTypeOK, Holds, Processes, Steps, Goto, Memories

\* The server's timestamp is a field of the memory.
LEMMA ServerBuffersKeeps ==
  ASSUME SharedInv, NEW s \in Servers, ServerBuffers(s)
  PROVE  SharedInv'
<1>1. region[s] \in Objects /\ memory[region[s]] \in Memories
  BY DEF ServerBuffers, SharedInv, SharedTypeOK, Processes
<1>2. [memory[region[s]] EXCEPT !.serverStamp = TRUE] \in Memories
  BY <1>1 DEF Memories
<1>3. memory' \in [Objects -> Memories]
  BY <1>1, <1>2 DEF ServerBuffers, SharedInv, SharedTypeOK
<1> QED
  BY <1>3, SharedAssumption
     DEF ServerBuffers, SharedInv, SharedTypeOK, Holds, Processes, Steps, Goto, NoRing

\* What is opened is what the name is bound to.
LEMMA OpenKeeps ==
  ASSUME SharedInv, NEW p \in Clients \cup Observers, Open(p)
  PROVE  SharedInv'
  BY SharedAssumption
     DEF Open, SharedInv, SharedTypeOK, Holds, Processes, Steps, Goto

\* A refused opening changes nothing else.
LEMMA OpenThrowsKeeps ==
  ASSUME SharedInv, NEW p \in Processes, OpenThrows(p)
  PROVE  SharedInv'
  BY SharedAssumption
     DEF OpenThrows, SharedInv, SharedTypeOK, Holds

\* The size loaded is 0 or the server's.
LEMMA ClientReadSizeKeeps ==
  ASSUME SharedInv, NEW c \in Clients, ClientReadSize(c)
  PROVE  SharedInv'
  BY SharedAssumption
     DEF ClientReadSize, SharedInv, SharedTypeOK, Holds, Processes, Steps, Goto, Memories

\* The client stores its timestamp and, at most, zeroes the size.
LEMMA ClientBuffersKeeps ==
  ASSUME SharedInv, NEW c \in Clients, ClientBuffers(c)
  PROVE  SharedInv'
<1>1. region[c] \in Objects /\ memory[region[c]] \in Memories
  BY DEF ClientBuffers, SharedInv, SharedTypeOK, Processes
<1>2. [memory[region[c]] EXCEPT !.clientStamp = TRUE, !.bufferSize = IF ring[c] = 0 THEN 0 ELSE @] \in Memories
  BY <1>1 DEF Memories
<1>3. memory' \in [Objects -> Memories]
  BY <1>1, <1>2 DEF ClientBuffers, SharedInv, SharedTypeOK
<1> QED
  BY <1>3, SharedAssumption
     DEF ClientBuffers, SharedInv, SharedTypeOK, Holds, Processes, Steps, Goto

\* A probe finds the name free too.
LEMMA ProbeCreatesKeeps ==
  ASSUME SharedInv, NEW c \in Clients, ProbeCreates(c)
  PROVE  SharedInv'
  BY SharedAssumption, FreeNameNoHolder
     DEF ProbeCreates, SharedInv, SharedTypeOK, Holds, Processes, Steps, Goto, Zeroed, Memories,
         CreateOnly

\* The name stays bound if others opened the probe's object meanwhile.
LEMMA ProbeFreeKeeps ==
  ASSUME SharedInv, NEW c \in Clients, ProbeFree(c)
  PROVE  SharedInv'
  BY SharedAssumption
     DEF ProbeFree, SharedInv, SharedTypeOK, Holds, Processes, Steps, Goto, NameFollowsHolders

\* A refused probe changes nothing but the answer.
LEMMA ProbeTakenKeeps ==
  ASSUME SharedInv, NEW c \in Clients, ProbeTaken(c)
  PROVE  SharedInv'
  BY SharedAssumption
     DEF ProbeTaken, SharedInv, SharedTypeOK, Holds

\* A failed probe changes nothing but the answer.
LEMMA ProbeFailsKeeps ==
  ASSUME SharedInv, NEW c \in Clients, ProbeFails(c)
  PROVE  SharedInv'
  BY SharedAssumption
     DEF ProbeFails, SharedInv, SharedTypeOK, Holds

\* What a process leaves behind is held by others, or the name is free.
LEMMA ExitKeeps ==
  ASSUME SharedInv, NEW p \in Processes, Exit(p)
  PROVE  SharedInv'
  BY SharedAssumption
     DEF Exit, SharedInv, SharedTypeOK, Holds, Steps, Goto, NameFollowsHolders, NoRing

-----------------------------------------------------------------------------
(* The theorems.                                                           *)

\* A step of any process keeps SharedInv.
LEMMA SharedNextKeeps ==
  SharedInv /\ [SharedMemoryNext]_sharedMemoryVars => SharedInv'
<1> SUFFICES ASSUME SharedInv, [SharedMemoryNext]_sharedMemoryVars PROVE SharedInv'
  OBVIOUS
<1>1. ASSUME NEW s \in Servers, ServerNext(s) PROVE SharedInv'
  BY <1>1, ServerCreateKeeps, ServerCreateThrowsKeeps, MapKeeps, MapThrowsKeeps,
     ServerClearKeeps, ServerLayoutKeeps, ServerBuffersKeeps DEF ServerNext, Processes
<1>2. ASSUME NEW c \in Clients, ClientGoesOn(c) PROVE SharedInv'
  BY <1>2, MapKeeps, MapThrowsKeeps, ClientReadSizeKeeps, ClientBuffersKeeps
     DEF ClientGoesOn, Processes
<1>3. ASSUME NEW c \in Clients, ClientProbes(c) PROVE SharedInv'
  BY <1>3, ProbeCreatesKeeps, ProbeFreeKeeps, ProbeTakenKeeps, ProbeFailsKeeps
     DEF ClientProbes
<1>4. ASSUME NEW c \in Clients, Open(c) \/ OpenThrows(c) PROVE SharedInv'
  BY <1>4, OpenKeeps, OpenThrowsKeeps DEF Processes
<1>5. ASSUME NEW b \in Observers, ObserverNext(b) PROVE SharedInv'
  BY <1>5, OpenKeeps, OpenThrowsKeeps, MapKeeps, MapThrowsKeeps
     DEF ObserverNext, Processes
<1>6. ASSUME NEW p \in Processes, Exit(p) PROVE SharedInv'
  BY <1>6, ExitKeeps
<1>7. CASE UNCHANGED sharedMemoryVars
  BY <1>7 DEF sharedMemoryVars, SharedInv, SharedTypeOK, Holds
<1> QED
  BY <1>1, <1>2, <1>3, <1>4, <1>5, <1>6, <1>7 DEF SharedMemoryNext

\* Whoever holds memory of the ID holds the object the name is bound to, and at
\* most one server does.
THEOREM SharedInvariant == SharedMemorySpec => []SharedInv
<1> QED
  BY SharedInit, SharedNextKeeps, PTL DEF SharedMemorySpec

\* The variables of the life of the memory keep their types.
THEOREM SharedTypeCorrect == SharedMemorySpec => []SharedTypeOK
<1>1. SharedInv => SharedTypeOK
  BY DEF SharedInv
<1> QED
  BY <1>1, SharedInvariant, PTL

\* No split brain: all that is mapped of one ID is one memory.
THEOREM NoSplitBrain == SharedMemorySpec => []OneMemory
<1>1. SharedInv => OneMemory
  BY DEF SharedInv, SharedTypeOK, OneMemory, Holds
<1> QED
  BY <1>1, SharedInvariant, PTL

\* No two servers share a memory.
THEOREM NoSecondServer == SharedMemorySpec => []OneServer
<1>1. SharedInv => OneServer
  BY DEF SharedInv, OneServer
<1> QED
  BY <1>1, SharedInvariant, PTL

-----------------------------------------------------------------------------
(* The size a server goes by, and where its buffers end.                   *)

\* A server lays its buffers out by the size it was given, and never by another.
ServerSize == \A s \in Servers : ring[s] \in {NoRing, BufferSize}

\* Whatever the processes do and whatever size is asked for, the second buffer of a
\* server ends beyond what was allocated, by seven ptimes: the client's timestamp is
\* eight ptimes behind the server's, where one was allowed for (BuffersFitAllocation).
THEOREM BuffersOverrun ==
  SharedMemorySpec =>
    [](\A s \in Servers :
         Attached(s) => BuffersAt + 2 * ring[s] = AllocatedBytes + 7 * SizeOfPtime)
<1>1. SharedMemoryInit => ServerSize
  BY SharedAssumption DEF SharedMemoryInit, ServerSize, Processes
<1>2. SharedInv /\ ServerSize /\ [SharedMemoryNext]_sharedMemoryVars => ServerSize'
  <2> SUFFICES ASSUME SharedInv, ServerSize, [SharedMemoryNext]_sharedMemoryVars
               PROVE  ServerSize'
    OBVIOUS
  <2>1. ring \in [Processes -> {NoRing, 0, BufferSize}] /\ Servers \subseteq Processes
    BY DEF SharedInv, SharedTypeOK, Processes
  <2>2. ASSUME NEW s \in Servers, ServerNext(s)
        PROVE  ServerSize'
    BY <2>1, <2>2 DEF ServerNext, ServerCreate, ServerCreateThrows, Map, MapThrows, ServerClear,
       ServerLayout, ServerBuffers, ServerSize
  <2>3. ASSUME NEW c \in Clients, Open(c) \/ OpenThrows(c) \/ ClientGoesOn(c) \/ ClientProbes(c)
        PROVE  ServerSize'
    <3>1. c \notin Servers
      BY SharedAssumption
    <3> QED
      BY <2>1, <2>3, <3>1 DEF Open, OpenThrows, ClientGoesOn, Map, MapThrows, ClientReadSize,
         ClientBuffers, ClientProbes, ProbeCreates, ProbeFree, ProbeTaken, ProbeFails, ServerSize
  <2>4. ASSUME NEW b \in Observers, ObserverNext(b)
        PROVE  ServerSize'
    BY <2>4 DEF ObserverNext, Open, OpenThrows, Map, MapThrows, ServerSize
  <2>5. ASSUME NEW p \in Processes, Exit(p)
        PROVE  ServerSize'
    BY <2>1, <2>5 DEF Exit, ServerSize
  <2>6. CASE UNCHANGED sharedMemoryVars
    BY <2>6 DEF sharedMemoryVars, ServerSize
  <2> QED
    BY <2>2, <2>3, <2>4, <2>5, <2>6 DEF SharedMemoryNext
<1>3. ServerSize =>
        \A s \in Servers :
          Attached(s) => BuffersAt + 2 * ring[s] = AllocatedBytes + 7 * SizeOfPtime
  <2>1. BuffersAt + 2 * BufferSize = AllocatedBytes + 7 * SizeOfPtime
    BY SharedAssumption
       DEF BuffersAt, BufferSizeAt, KeyAt, ClientTimestampAt, ServerTimestampAt, AllocatedBytes,
           EntityReserveSize, SizeOfPtime, SizeOfChar, SizeOfU64, KeySize
  <2>2. ASSUME ServerSize, NEW s \in Servers, Attached(s)
        PROVE  ring[s] = BufferSize
    BY <2>2 DEF ServerSize, Attached
  <2> QED
    BY <2>1, <2>2
<1> QED
  BY <1>1, <1>2, <1>3, SharedInvariant, PTL DEF SharedMemorySpec

-----------------------------------------------------------------------------
(* Clients that open only what a server has finished.                      *)

\* The types the steps need, at a process.
LEMMA AtProcess ==
  ASSUME SharedInv
  PROVE  /\ \A p \in Processes : /\ region[p] # None => region[p] \in Objects /\ region[p] = named
                                 /\ object[p] # None => object[p] \in Objects /\ object[p] = named
         /\ \A s \in Servers : s \in Processes /\ s \notin Clients /\ s \notin Observers
         /\ \A c \in Clients : c \in Processes
         /\ \A b \in Observers : b \in Processes /\ b \notin Clients
         /\ \A o \in Objects : memory[o] \in Memories
  BY SharedAssumption DEF SharedInv, SharedTypeOK, Holds, Processes

\* A server that is creating or setting up has the only handle a server has, and
\* no client has any.
LEMMA SettingUp ==
  ASSUME OrderedInv, NEW s \in Servers, pc[s] # "idle"
  PROVE  /\ \A t \in Servers : t # s => object[t] = None /\ region[t] = None
         /\ \A c \in Clients : object[c] = None /\ region[c] = None
<1>1. object[s] # None
  BY AtProcess DEF OrderedInv, SharedInv, SharedTypeOK, Steps
<1>2. \A t \in Servers : t # s => object[t] = None /\ region[t] = None
  BY <1>1 DEF OrderedInv, SharedInv
<1> QED
  BY <1>2 DEF OrderedInv

\* A server creates only when nobody holds anything.
LEMMA ServerCreateOrdered ==
  ASSUME OrderedInv, NEW s \in Servers, ServerCreate(s)
  PROVE  OrderedInv'
<1>1. SharedInv'
  BY ServerCreateKeeps DEF OrderedInv
<1> QED
  BY <1>1, FreeNameNoHolder, AtProcess, SharedAssumption
     DEF ServerCreate, OrderedInv, SharedInv, SharedTypeOK, Goto, Finished, Zeroed, Memories, CreateOnly, Steps

\* A refused creation changes nothing else.
LEMMA ServerCreateThrowsOrdered ==
  ASSUME OrderedInv, NEW s \in Servers, ServerCreateThrows(s)
  PROVE  OrderedInv'
<1>1. SharedInv'
  BY ServerCreateThrowsKeeps DEF OrderedInv
<1> QED
  BY <1>1, AtProcess, SharedAssumption
     DEF ServerCreateThrows, OrderedInv, SharedInv, SharedTypeOK, Goto, Finished, Zeroed, Memories, CreateOnly, Steps

\* memset finds no client.
LEMMA ServerClearOrdered ==
  ASSUME OrderedInv, NEW s \in Servers, ServerClear(s)
  PROVE  OrderedInv'
<1>1. SharedInv'
  BY ServerClearKeeps DEF OrderedInv
<1> QED
  BY <1>1, SettingUp, AtProcess, SharedAssumption
     DEF ServerClear, OrderedInv, SharedInv, SharedTypeOK, Goto, Finished, Zeroed, Memories, CreateOnly, Steps

\* Nor does the size.
LEMMA ServerLayoutOrdered ==
  ASSUME OrderedInv, NEW s \in Servers, ServerLayout(s)
  PROVE  OrderedInv'
<1>1. SharedInv'
  BY ServerLayoutKeeps DEF OrderedInv
<1> QED
  BY <1>1, SettingUp, AtProcess, SharedAssumption
     DEF ServerLayout, OrderedInv, SharedInv, SharedTypeOK, Goto, Finished, Zeroed, Memories, CreateOnly, Steps

\* The timestamp finishes the memory.
LEMMA ServerBuffersOrdered ==
  ASSUME OrderedInv, NEW s \in Servers, ServerBuffers(s)
  PROVE  OrderedInv'
<1>1. SharedInv'
  BY ServerBuffersKeeps DEF OrderedInv
<1> QED
  BY <1>1, SettingUp, AtProcess, SharedAssumption
     DEF ServerBuffers, OrderedInv, SharedInv, SharedTypeOK, Goto, Finished, Zeroed, Memories, CreateOnly, Steps
\* What is mapped is the memory of the handle: for a client, what it had mapped before.
LEMMA MapOrdered ==
  ASSUME OrderedInv, NEW p \in Processes, Map(p)
  PROVE  OrderedInv'
<1>1. SharedInv'
  BY MapKeeps, AtProcess DEF OrderedInv
<1> QED
  BY <1>1, AtProcess, SharedAssumption
     DEF Map, OrderedInv, SharedInv, SharedTypeOK, Goto, Finished, Memories, Steps, NoRing,
         NameFollowsHolders

\* A server that fails here has mapped nothing.
LEMMA MapThrowsOrdered ==
  ASSUME OrderedInv, NEW p \in Processes, MapThrows(p)
  PROVE  OrderedInv'
<1>1. SharedInv'
  BY MapThrowsKeeps, AtProcess DEF OrderedInv
<1> QED
  BY <1>1, AtProcess, SharedAssumption
     DEF MapThrows, OrderedInv, SharedInv, SharedTypeOK, Goto, Finished, Memories, Steps, NoRing,
         NameFollowsHolders

\* A refused opening changes nothing else.
LEMMA OpenThrowsOrdered ==
  ASSUME OrderedInv, NEW b \in Observers, OpenThrows(b)
  PROVE  OrderedInv'
<1>1. SharedInv'
  BY OpenThrowsKeeps, AtProcess DEF OrderedInv
<1> QED
  BY <1>1, AtProcess, SharedAssumption
     DEF OpenThrows, OrderedInv, SharedInv, SharedTypeOK, Goto, Finished, Memories, Steps, NoRing,
         NameFollowsHolders

\* The size a client loads is that of a finished memory.
LEMMA ClientReadSizeOrdered ==
  ASSUME OrderedInv, NEW c \in Clients, ClientReadSize(c)
  PROVE  OrderedInv'
<1>1. SharedInv'
  BY ClientReadSizeKeeps, AtProcess DEF OrderedInv
<1> QED
  BY <1>1, AtProcess, SharedAssumption
     DEF ClientReadSize, OrderedInv, SharedInv, SharedTypeOK, Goto, Finished, Memories, Steps, NoRing,
         NameFollowsHolders

\* So it leaves the size alone.
LEMMA ClientBuffersOrdered ==
  ASSUME OrderedInv, NEW c \in Clients, ClientBuffers(c)
  PROVE  OrderedInv'
<1>1. SharedInv'
  BY ClientBuffersKeeps, AtProcess DEF OrderedInv
<1> QED
  BY <1>1, AtProcess, SharedAssumption
     DEF ClientBuffers, OrderedInv, SharedInv, SharedTypeOK, Goto, Finished, Memories, Steps, NoRing,
         NameFollowsHolders

\* What a process leaves behind the others still hold, or nobody does.
LEMMA ExitOrdered ==
  ASSUME OrderedInv, NEW p \in Processes, Exit(p)
  PROVE  OrderedInv'
<1>1. SharedInv'
  BY ExitKeeps, AtProcess DEF OrderedInv
<1> QED
  BY <1>1, AtProcess, SharedAssumption
     DEF Exit, OrderedInv, SharedInv, SharedTypeOK, Goto, Finished, Memories, Steps, NoRing,
         NameFollowsHolders

\* A client opens what a server has finished.
LEMMA ClientOpenOrdered ==
  ASSUME OrderedInv, NEW c \in Clients, Open(c), NEW s \in Servers, Attached(s)
  PROVE  OrderedInv'
<1>1. SharedInv'
  BY OpenKeeps DEF OrderedInv
<1>2. Finished(named) /\ \A t \in Servers : pc[t] = "idle"
  <2>1. region[s] = named /\ object[s] # None /\ Finished(region[s])
    BY AtProcess DEF Attached, OrderedInv, SharedInv
  <2>2. \A t \in Servers : pc[t] = "idle"
    BY <2>1, SettingUp DEF Attached
  <2> QED
    BY <2>1, <2>2
<1> QED
  BY <1>1, <1>2, AtProcess, SharedAssumption
     DEF Open, OrderedInv, SharedInv, SharedTypeOK, Goto, Finished

\* An observer may open at any time.
LEMMA ObserverOpenOrdered ==
  ASSUME OrderedInv, NEW b \in Observers, Open(b)
  PROVE  OrderedInv'
<1>1. SharedInv'
  BY OpenKeeps DEF OrderedInv
<1> QED
  BY <1>1, AtProcess, SharedAssumption
     DEF Open, OrderedInv, SharedInv, SharedTypeOK, Goto, Finished

\* Initially nobody has memory.
LEMMA OrderedInit == SharedMemoryInit => OrderedInv
<1>1. SharedMemoryInit => SharedInv
  BY SharedInit
<1> QED
  BY <1>1, SharedAssumption
     DEF SharedMemoryInit, OrderedInv, Processes, NoRing, Zeroed

\* A step in the order of the tests keeps the invariant.
LEMMA OrderedNextKeeps ==
  OrderedInv /\ [OrderedNext]_sharedMemoryVars => OrderedInv'
<1> SUFFICES ASSUME OrderedInv, [OrderedNext]_sharedMemoryVars PROVE OrderedInv'
  OBVIOUS
<1>1. ASSUME NEW s \in Servers, ServerNext(s) PROVE OrderedInv'
  BY <1>1, ServerCreateOrdered, ServerCreateThrowsOrdered, MapOrdered, MapThrowsOrdered,
     ServerClearOrdered, ServerLayoutOrdered, ServerBuffersOrdered DEF ServerNext, Processes
<1>2. ASSUME NEW c \in Clients, Open(c) /\ \E s \in Servers : Attached(s) PROVE OrderedInv'
  BY <1>2, ClientOpenOrdered
<1>3. ASSUME NEW c \in Clients, ClientGoesOn(c) PROVE OrderedInv'
  BY <1>3, MapOrdered, MapThrowsOrdered, ClientReadSizeOrdered, ClientBuffersOrdered
     DEF ClientGoesOn, Processes
<1>4. ASSUME NEW b \in Observers, ObserverNext(b) PROVE OrderedInv'
  BY <1>4, ObserverOpenOrdered, OpenThrowsOrdered, MapOrdered, MapThrowsOrdered
     DEF ObserverNext, Processes
<1>5. ASSUME NEW p \in Processes, Exit(p) PROVE OrderedInv'
  BY <1>5, ExitOrdered
<1>6. CASE UNCHANGED sharedMemoryVars
  <2>1. SharedInv'
    BY <1>6, SharedNextKeeps DEF OrderedInv
  <2> QED
    BY <1>6, <2>1 DEF sharedMemoryVars, OrderedInv, Finished
<1> QED
  BY <1>1, <1>2, <1>3, <1>4, <1>5, <1>6 DEF OrderedNext

\* A step in the order, or the first one out of it, keeps the invariant of the history.
LEMMA HistoryStep == HistoryInv /\ [HistoryNext]_historyVars => HistoryInv'
<1> SUFFICES ASSUME HistoryInv, [HistoryNext]_historyVars PROVE HistoryInv'
  OBVIOUS
<1>1. SharedInv'
  BY SharedNextKeeps DEF HistoryInv, HistoryNext, historyVars
<1>2. ASSUME ordered' PROVE OrderedInv'
  <2>1. ordered /\ [OrderedNext]_sharedMemoryVars
    BY <1>2 DEF HistoryNext, historyVars
  <2> QED
    BY <2>1, OrderedNextKeeps DEF HistoryInv
<1> QED
  BY <1>1, <1>2 DEF HistoryInv

\* Whoever holds memory of the ID holds the object the name is bound to; and as long
\* as the order of the tests is kept a client only ever holds finished memory, which
\* nobody can set up again under it.
THEOREM HistoryInvariant == HistorySpec => []HistoryInv
<1>1. HistoryInit => HistoryInv
  BY SharedInit, OrderedInit DEF HistoryInit, HistoryInv
<1> QED
  BY <1>1, HistoryStep, PTL DEF HistorySpec

\* Client and server agree on the layout, whoever crashes or restarts later
\* (AttachedAgree), until a client comes too early.
THEOREM Agreement == HistorySpec => []AgreeInOrder
<1>1. OrderedInv => AttachedAgree
  BY SharedAssumption
     DEF OrderedInv, SharedInv, SharedTypeOK, AttachedAgree, Attached, Finished, Processes,
         ServerRings, ClientRings, NoRing
<1>2. HistoryInv => AgreeInOrder
  BY <1>1 DEF HistoryInv, AgreeInOrder
<1> QED
  BY <1>2, HistoryInvariant, PTL

\* The timestamps tell who has been there (StampsTell), as long.
THEOREM StampsAreKept == HistorySpec => []StampsTellInOrder
<1>1. OrderedInv => StampsTell
  BY DEF OrderedInv, StampsTell, Attached, Finished
<1>2. HistoryInv => StampsTellInOrder
  BY <1>1 DEF HistoryInv, StampsTellInOrder
<1> QED
  BY <1>2, HistoryInvariant, PTL
=============================================================================
