---------------------------- MODULE SharedMemory ----------------------------
(***************************************************************************)
(* The life of the shared memory behind one memory ID: cServer creates,    *)
(* clears and lays it out, cClient and cObserver open it by name, and      *)
(* IsSharedMemoryIDFree probes the name by creating an object itself.      *)
(*                                                                         *)
(* A process here is a process with one cServer, cClient or cObserver.  It *)
(* can crash at any step, or destroy its object, and start again.  A step  *)
(* is one call of the operating system, or the accesses of one function to *)
(* one field of the memory.                                                *)
(*                                                                         *)
(* windows_shared_memory (Boost, over CreateFileMapping) binds the name to *)
(* a new zeroed object, and frees the name when the last handle or mapped  *)
(* region of the object goes, in whatever process.  Nothing else frees it: *)
(* shared_memory_object::remove deletes a file that Windows memory has not.*)
(* An object nobody holds is gone, so its identity can be taken again.     *)
(*                                                                         *)
(* What moves through the two buffers is the subject of CircularBuffer.    *)
(***************************************************************************)
EXTENDS Integers

CONSTANTS
  Servers, Clients, Observers,  \* the processes, by what they construct
  Objects,                      \* the identities of kernel objects
  None,                         \* no object
  BufferSize                    \* the bufferSize every server is given

Processes == Servers \cup Clients \cup Observers

ASSUME SharedAssumption ==
  /\ Servers \cap Clients = {}
  /\ Servers \cap Observers = {}
  /\ Clients \cap Observers = {}
  /\ None \notin Objects
  /\ BufferSize \in Nat \ {0}

VARIABLES
  named,   \* the object the memory ID is bound to
  memory,  \* what each object holds
  object,  \* m_SharedMemoryObject of each process: the object its handle is of
  region,  \* m_MappedRegion of each process: the object it has mapped
  probe,   \* newObject of each client that is in IsSharedMemoryIDFree
  pc,      \* where each process is in SetMemoryID or IsSharedMemoryIDFree
  ring,    \* the bufferSize each process gives its two buffers
  told,    \* the clients whose last IsSharedMemoryIDFree returned false
  threw    \* the processes whose last SetMemoryID threw

sharedMemoryVars == <<named, memory, object, region, probe, pc, ring, told, threw>>

\* No buffer has been constructed.
NoRing == -1

\* A new object, and what memset leaves.
Zeroed == [bufferSize |-> 0, serverStamp |-> FALSE, clientStamp |-> FALSE]

Memories ==
  [bufferSize: {0, BufferSize}, serverStamp: BOOLEAN, clientStamp: BOOLEAN]

\* idle     not in SetMemoryID (whether or not it has succeeded before)
\* map      about to map the region
\* clear    server: about to memset
\* layout   server: about to store *m_BufferSize;  client: about to load it
\* buffers  about to construct the buffers and set its timestamp
\* probe    client: newObject lives
Steps == {"idle", "map", "clear", "layout", "buffers", "probe"}

SharedMemoryInit ==
  /\ named = None
  /\ memory = [o \in Objects |-> Zeroed]
  /\ object = [p \in Processes |-> None]
  /\ region = [p \in Processes |-> None]
  /\ probe = [p \in Processes |-> None]
  /\ pc = [p \in Processes |-> "idle"]
  /\ ring = [p \in Processes |-> NoRing]
  /\ told = {}
  /\ threw = {}

Holds(p, o) == object[p] = o \/ region[p] = o \/ probe[p] = o
Held(o)     == \E p \in Processes : Holds(p, o)

\* SetMemoryID has succeeded in p: it uses the memory it has mapped.
Attached(p) == pc[p] = "idle" /\ region[p] # None /\ ring[p] # NoRing

\* The name outlives a step that closes handles if somebody still holds its
\* object (object', region' and probe' are determined before).
NameFollowsHolders ==
  named' = IF \E p \in Processes : named \in {object'[p], region'[p], probe'[p]}
           THEN named ELSE None

\* create_only with a name that is free: a new object, bound to the name.
CreateOnly(o) ==
  /\ named = None /\ named' = o
  /\ ~Held(o)
  /\ memory' = [memory EXCEPT ![o] = Zeroed]

Goto(p, step) == pc' = [pc EXCEPT ![p] = step]

-----------------------------------------------------------------------------
(* Where things are in the memory, in bytes.                               *)

SizeOfPtime == 8
SizeOfChar  == 1
SizeOfU64   == 8
KeySize     == 64

\* cEntity::RESERVE_SIZE, and what the server asks for.
EntityReserveSize == 2 * SizeOfPtime + KeySize * SizeOfChar + SizeOfU64
AllocatedBytes    == BufferSize * 2 + EntityReserveSize

\* m_ClientTimestamp is computed on a pointer to ptime, m_Key on a Char *.
ServerTimestampAt == 0
ClientTimestampAt == ServerTimestampAt + SizeOfPtime * SizeOfPtime
KeyAt             == ClientTimestampAt + SizeOfPtime * SizeOfChar
BufferSizeAt      == KeyAt + KeySize * SizeOfChar
BuffersAt         == BufferSizeAt + SizeOfU64

\* The two buffers of each side, given the buffer size it goes by.
ServerRings(size) == [read  |-> BuffersAt, write |-> BuffersAt + size]
ClientRings(size) == [write |-> BuffersAt, read  |-> BuffersAt + size]

-----------------------------------------------------------------------------
(* cServer::SetMemoryID.                                                   *)

\* Mutant: the name is erased first, so that creation always succeeds.
ServerCreateAfterErase(s) ==
  /\ pc[s] = "idle"
  /\ \E o \in Objects :
       /\ ~Held(o)
       /\ object' = [object EXCEPT ![s] = o]
       /\ memory' = [memory EXCEPT ![o] = Zeroed]
       /\ named' = o
  /\ Goto(s, "map")
  /\ threw' = threw \ {s}
  /\ UNCHANGED <<region, probe, ring, told>>

\* Mutant: open_or_create instead of create_only.
ServerCreateOrOpen(s) ==
  /\ pc[s] = "idle"
  /\ \E o \in Objects :
       /\ IF named = None
          THEN ~Held(o) /\ memory' = [memory EXCEPT ![o] = Zeroed]
          ELSE o = named /\ UNCHANGED memory
       /\ object' = [object EXCEPT ![s] = o]
       /\ named' = o
  /\ Goto(s, "map")
  /\ threw' = threw \ {s}
  /\ UNCHANGED <<region, probe, ring, told>>

\* Create the memory; a handle the server had is closed.
ServerCreate(s) ==
  /\ pc[s] = "idle"
  /\ \E o \in Objects : CreateOnly(o) /\ object' = [object EXCEPT ![s] = o]
  /\ Goto(s, "map")
  /\ threw' = threw \ {s}
  /\ UNCHANGED <<region, probe, ring, told>>

\* create_only with a name that is bound throws: nothing else has changed.
ServerCreateThrows(s) ==
  /\ pc[s] = "idle"
  /\ named # None
  /\ threw' = threw \cup {s}
  /\ UNCHANGED <<named, memory, object, region, probe, pc, ring, told>>

\* Map the object of the handle; a region the process had is unmapped.  All an
\* observer does then is point into it.
Map(p) ==
  /\ pc[p] = "map"
  /\ region' = [region EXCEPT ![p] = object[p]]
  /\ Goto(p, IF p \in Servers THEN "clear" ELSE IF p \in Clients THEN "layout" ELSE "idle")
  /\ UNCHANGED <<memory, object, probe, ring, told, threw>>
  /\ NameFollowsHolders

\* Mutant: the failure is ignored.
MapThrowsIgnored(p) ==
  /\ pc[p] = "map"
  /\ Goto(p, IF p \in Servers THEN "clear" ELSE "layout")
  /\ UNCHANGED <<named, memory, object, region, probe, ring, told, threw>>

\* The mapping fails: the handle, already replaced, stays with the entity.
MapThrows(p) ==
  /\ pc[p] = "map"
  /\ Goto(p, "idle")
  /\ threw' = threw \cup {p}
  /\ UNCHANGED <<named, memory, object, region, probe, ring, told>>

\* memset, up to the second half at least.
ServerClear(s) ==
  /\ pc[s] = "clear"
  /\ memory' = [memory EXCEPT ![region[s]] = Zeroed]
  /\ Goto(s, "layout")
  /\ UNCHANGED <<named, object, region, probe, ring, told, threw>>

\* *m_BufferSize = bufferSize.
ServerLayout(s) ==
  /\ pc[s] = "layout"
  /\ memory' = [memory EXCEPT ![region[s]].bufferSize = BufferSize]
  /\ Goto(s, "buffers")
  /\ UNCHANGED <<named, object, region, probe, ring, told, threw>>

\* Mutant: the timestamps are cleared last, not set.
ServerBuffersThenClear(s) ==
  /\ pc[s] = "buffers"
  /\ ring' = [ring EXCEPT ![s] = BufferSize]
  /\ memory' = [memory EXCEPT ![region[s]].serverStamp = FALSE,
                              ![region[s]].clientStamp = FALSE]
  /\ Goto(s, "idle")
  /\ UNCHANGED <<named, object, region, probe, told, threw>>

\* Construct the two buffers and set the server's timestamp.
ServerBuffers(s) ==
  /\ pc[s] = "buffers"
  /\ ring' = [ring EXCEPT ![s] = BufferSize]
  /\ memory' = [memory EXCEPT ![region[s]].serverStamp = TRUE]
  /\ Goto(s, "idle")
  /\ UNCHANGED <<named, object, region, probe, told, threw>>

-----------------------------------------------------------------------------
(* cClient::SetMemoryID and cObserver::SetMemoryID.                        *)

\* open_only with a name that is bound.
Open(p) ==
  /\ pc[p] = "idle"
  /\ named # None
  /\ object' = [object EXCEPT ![p] = named]
  /\ Goto(p, "map")
  /\ threw' = threw \ {p}
  /\ UNCHANGED <<named, memory, region, probe, ring, told>>

\* open_only with a name that is free throws (an observer swallows it).
OpenThrows(p) ==
  /\ pc[p] = "idle"
  /\ named = None
  /\ threw' = threw \cup {p}
  /\ UNCHANGED <<named, memory, object, region, probe, pc, ring, told>>

\* Mutant: the size is computed from the pages mapped, as cObserver does.
ClientReadSizeOfRegion(c) ==
  /\ pc[c] = "layout"
  /\ LET pages == (AllocatedBytes + 4095) \div 4096
     IN  ring' = [ring EXCEPT ![c] = (pages * 4096 - EntityReserveSize) \div 2]
  /\ Goto(c, "buffers")
  /\ UNCHANGED <<named, memory, object, region, probe, told, threw>>

\* size_t bufferSize = *m_BufferSize.
ClientReadSize(c) ==
  /\ pc[c] = "layout"
  /\ ring' = [ring EXCEPT ![c] = memory[region[c]].bufferSize]
  /\ Goto(c, "buffers")
  /\ UNCHANGED <<named, memory, object, region, probe, told, threw>>

\* Construct the two buffers and set the client's timestamp.  The write buffer
\* zeroes its four pointers, the last 32 bytes of its memory: with a size of 0
\* they end where m_BufferSize does.
ClientBuffers(c) ==
  /\ pc[c] = "buffers"
  /\ memory' = [memory EXCEPT ![region[c]].clientStamp = TRUE,
                              ![region[c]].bufferSize = IF ring[c] = 0 THEN 0 ELSE @]
  /\ Goto(c, "idle")
  /\ UNCHANGED <<named, object, region, probe, ring, told, threw>>

-----------------------------------------------------------------------------
(* cObserver::IsSharedMemoryIDFree, called by a client.                    *)

\* create_only succeeds: the name is free, but newObject binds it for a moment.
ProbeCreates(c) ==
  /\ pc[c] = "idle"
  /\ \E o \in Objects : CreateOnly(o) /\ probe' = [probe EXCEPT ![c] = o]
  /\ Goto(c, "probe")
  /\ UNCHANGED <<object, region, ring, told, threw>>

\* newObject is destroyed: return true.
ProbeFree(c) ==
  /\ pc[c] = "probe"
  /\ probe' = [probe EXCEPT ![c] = None]
  /\ told' = told \ {c}
  /\ Goto(c, "idle")
  /\ UNCHANGED <<memory, object, region, ring, threw>>
  /\ NameFollowsHolders

\* create_only throws already_exists_error: return false.
ProbeTaken(c) ==
  /\ pc[c] = "idle"
  /\ named # None
  /\ told' = told \cup {c}
  /\ UNCHANGED <<named, memory, object, region, probe, pc, ring, threw>>

\* create_only throws another error: return true, whatever the name is.
ProbeFails(c) ==
  /\ pc[c] = "idle"
  /\ told' = told \ {c}
  /\ UNCHANGED <<named, memory, object, region, probe, pc, ring, threw>>

-----------------------------------------------------------------------------
\* The process crashes, or destroys its entity (as it does when the constructor
\* throws), at whatever step it is: the system closes what it held.
Exit(p) ==
  /\ object' = [object EXCEPT ![p] = None]
  /\ region' = [region EXCEPT ![p] = None]
  /\ probe' = [probe EXCEPT ![p] = None]
  /\ ring' = [ring EXCEPT ![p] = NoRing]
  /\ told' = told \ {p}
  /\ Goto(p, "idle")
  /\ threw' = threw \ {p}
  /\ UNCHANGED memory
  /\ NameFollowsHolders

ServerNext(s) ==
  \/ ServerCreate(s) \/ ServerCreateThrows(s) \/ Map(s) \/ MapThrows(s)
  \/ ServerClear(s) \/ ServerLayout(s) \/ ServerBuffers(s)

ClientGoesOn(c) ==
  \/ Map(c) \/ MapThrows(c) \/ ClientReadSize(c) \/ ClientBuffers(c)

ClientProbes(c) == ProbeCreates(c) \/ ProbeFree(c) \/ ProbeTaken(c) \/ ProbeFails(c)

ObserverNext(b) == Open(b) \/ OpenThrows(b) \/ Map(b) \/ MapThrows(b)

\* Every process at any time.
SharedMemoryNext ==
  \/ \E s \in Servers : ServerNext(s)
  \/ \E c \in Clients : Open(c) \/ OpenThrows(c) \/ ClientGoesOn(c) \/ ClientProbes(c)
  \/ \E b \in Observers : ObserverNext(b)
  \/ \E p \in Processes : Exit(p)

SharedMemorySpec == SharedMemoryInit /\ [][SharedMemoryNext]_sharedMemoryVars

\* The tests sleep before they start a client, so that it opens the memory of a
\* server that has finished SetMemoryID.  After that, anybody may crash.
OrderedNext ==
  \/ \E s \in Servers : ServerNext(s)
  \/ \E c \in Clients : Open(c) /\ \E s \in Servers : Attached(s)
  \/ \E c \in Clients : ClientGoesOn(c)
  \/ \E b \in Observers : ObserverNext(b)
  \/ \E p \in Processes : Exit(p)

OrderedSpec == SharedMemoryInit /\ [][OrderedNext]_sharedMemoryVars

\* One test polls IsSharedMemoryIDFree instead, and opens once it returns false.
PollingNext ==
  \/ \E s \in Servers : ServerNext(s)
  \/ \E c \in Clients : c \in told /\ (Open(c) \/ OpenThrows(c))
  \/ \E c \in Clients : ClientGoesOn(c) \/ (c \notin told /\ ClientProbes(c))

PollingSpec == SharedMemoryInit /\ [][PollingNext]_sharedMemoryVars
-----------------------------------------------------------------------------
(* Correctness.                                                            *)

\* What the variables hold; a process past the mapping has memory to work on.
SharedTypeOK ==
  /\ named \in Objects \cup {None}
  /\ memory \in [Objects -> Memories]
  /\ object \in [Processes -> Objects \cup {None}]
  /\ region \in [Processes -> Objects \cup {None}]
  /\ probe \in [Processes -> Objects \cup {None}]
  /\ pc \in [Processes -> Steps]
  /\ ring \in [Processes -> {NoRing, 0, BufferSize}]
  /\ told \subseteq Clients /\ threw \subseteq Processes
  /\ \A p \in Processes :
       /\ pc[p] = "map" => object[p] # None
       /\ pc[p] \in {"clear", "layout", "buffers"} => region[p] # None

\* No split brain: whatever crashes, restarts, fails or probes in whatever order,
\* all the processes that have memory of this ID mapped have the same memory.
OneMemory ==
  \A p, q \in Processes :
    region[p] # None /\ region[q] # None => region[p] = region[q]

\* No two servers ever lay out, or serve from, the same memory: the second one's
\* SetMemoryID throws as long as anybody holds it.
OneServer ==
  \A s, t \in Servers : s # t /\ region[s] # None => region[s] # region[t]

\* What OneMemory and OneServer rest on: whoever holds an object, by a handle, a
\* mapping or a probe, holds the one the name is bound to, and of the servers
\* only one holds it, since a server only ever holds what it has created.
SharedInv ==
  /\ SharedTypeOK
  /\ \A p \in Processes, o \in Objects : Holds(p, o) => o = named
  /\ \A s \in Servers : region[s] # None => object[s] # None
  /\ \A s, t \in Servers : s # t => object[s] = None \/ object[t] = None

\* If clients open only what a server has finished, then whoever crashes or
\* restarts afterwards, every client goes by the server's buffer size, later
\* clients will too, and each end writes where the other one reads.
AttachedAgree ==
  /\ \A c \in Clients : Attached(c) => ring[c] = BufferSize
  /\ \A s \in Servers :
       Attached(s) =>
         /\ memory[region[s]].bufferSize = ring[s]
         /\ \A c \in Clients :
              Attached(c) =>
                /\ ServerRings(ring[s]).read = ClientRings(ring[c]).write
                /\ ServerRings(ring[s]).write = ClientRings(ring[c]).read

\* Under the same order the timestamps tell an observer who has been there: they
\* are not lost to the server's memset, and the client's comes after the server's.
StampsTell ==
  /\ \A s \in Servers : Attached(s) => memory[region[s]].serverStamp
  /\ \A c \in Clients : Attached(c) => memory[region[c]].clientStamp
  /\ \A o \in Objects : memory[o].clientStamp => memory[o].serverStamp

\* What they rest on: a server maps nothing before it has created, a client opens
\* nothing before a server has finished, and while a client holds the memory no
\* server can set it up again, because the name is taken.
Finished(o) == memory[o].bufferSize = BufferSize /\ memory[o].serverStamp

OrderedInv ==
  /\ SharedInv
  /\ \A s \in Servers :
       /\ pc[s] # "probe"
       /\ pc[s] = "map" => region[s] = None
       /\ pc[s] = "buffers" => memory[region[s]].bufferSize = BufferSize
       /\ pc[s] = "idle" /\ region[s] # None => ring[s] = BufferSize /\ Finished(region[s])
  /\ \A c \in Clients :
       /\ object[c] # None \/ region[c] # None =>
            Finished(named) /\ \A s \in Servers : pc[s] = "idle"
       /\ ring[c] # 0
       /\ pc[c] = "buffers" => ring[c] = BufferSize
       /\ ring[c] # NoRing /\ pc[c] # "buffers" =>
            region[c] # None /\ memory[region[c]].clientStamp
  /\ \A o \in Objects : memory[o].clientStamp => memory[o].serverStamp

\* "Erase any previously shared memory": a server's SetMemoryID is refused the
\* name at most because a server still has its memory, never because of what a
\* server that is gone has left.
PreviousIsErased ==
  [][\A s \in Servers :
       ServerCreateThrows(s) => \E t \in Servers : object[t] # None]_sharedMemoryVars

\* "Set the buffer pointers to the two halves of the allocated shared memory":
\* the buffers end where the allocation does, or before.
BuffersFitAllocation ==
  \A s \in Servers : Attached(s) => BuffersAt + 2 * ring[s] <= AllocatedBytes

\* "Wait for the memory to be initialized by the server": a client that polls
\* IsSharedMemoryIDFree until it returns false finds the server's memory.
WaitedForInitialization ==
  \A c \in Clients : Attached(c) => ring[c] = BufferSize
=============================================================================
