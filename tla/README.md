# A formal model of the Memmap IPC library

Memmap IPC connects two processes by shared memory: a `cServer` creates it under
a name, a `cClient` opens it, and the two exchange raw bytes through two circular
buffers in it, one per direction, without any lock. A `cObserver` looks on. The
library is about 900 lines of C++ (`src/MemMapIPC/MemMapIPC`), over vendored
Boost.Interprocess, and runs on Windows x64.

Here are TLA+ models of it, the TLC runs that check them and TLAPS proofs.

## The system

| component | state | operations | what makes it correct |
|---|---|---|---|
| `cCircularBuffer` | in shared memory: the cells, the producer and consumer pointers and a second copy of each | advance a pointer: store it, then store its second copy | pointers stay in the ring; the second copy never runs ahead of the first |
| `cCircularWriteBuffer` | (the same) | constructor (zeroes the pointers), count of free bytes, `WriteData` in one or two segments | never overwrites an unread byte; publishes a byte only after copying it |
| `cCircularReadBuffer` | (the same) | count of available bytes, `ReadData` in one or two segments | reads each published byte once, in order; gives a cell back only after copying it out |
| `cEntity` | timeout limit, its two buffers, pointers to timestamps and key | `WriteData`/`ReadData` with a timeout, counts, `SetTimeout`, key, timestamps | transfers stay within the counts; the result says what was transferred; a call returns |
| `cServer` | handle, mapping | `SetMemoryID`: create, map, clear, lay out, construct buffers | nobody else serves from the memory; all that attach agree with it |
| `cClient` | handle, mapping | `SetMemoryID`: open, map, read the size, construct buffers the other way round | goes by the server's size; writes where the server reads |
| `cObserver` | handle, mapping | `SetMemoryID`; `IsSharedMemoryIDFree` probes the name by creating an object | does not disturb |
| Windows, through Boost | which object a name is bound to; who holds it | create, open, map, close | (external) the name is freed when the last holder goes |

Processes interact only through the shared memory and the name. What is hard:
every load and store of the two ends interleaves, with copies of bytes going on
in between; counts are computed from snapshots and used later; transfers wrap and
are published in two parts; calls time out half done; a process can crash between
any two stores; and servers, clients and probes race for the name. `PROJECT.json`
lists these hazards line by line, with the property that covers each.

## Modules

    ByteStream              what one direction promises: a bounded FIFO stream
    RingArithmetic          unsigned pointer arithmetic: advance, counts, wraparound
    CircularBuffer          the two ends of a ring; implements ByteStream
    CircularBufferInduction its inductive invariant
    CircularBuffer_proofs   the proofs about it, and that it implements ByteStream
    Entity                  two entities on the two ends: calls, timeouts, crashes
    EntityInduction         its inductive invariant
    Entity_proofs           the proofs about it, and that it implements Pipe
    SharedMemory            the memory behind a name: create, open, probe, crash, restart
    SharedMemoryHistory     SharedMemory, and whether the order of the tests was kept so far
    MCSharedMemory          the same with symmetry, for TLC
    SharedMemory_proofs     the proofs about it
    Pipe                    what cEntity promises its callers: counts, transfers, results
    Pipe_proofs             the proof that old counts are safe
    EntityPipe              two entities on a ring implement Pipe: the mapping
    TwoWay                  the two-way test: two processes, two pipes
    TwoWayInduction         its inductive invariant
    TwoWay_proofs           the proofs about it
    Command                 the command protocol of the ES emulation, over two pipes
    CommandInduction        its inductive invariant: the places of headers and payloads
    Command_proofs          the proofs about it
    ClientRestart           the two rings of a client whose process ends and restarts
    ClientRestart_proofs    the proofs about them
    BusyReattach            a client constructs its buffers while its server is in a call
    TornPointer             pointers that are loaded and stored in two parts
    RingArithmetic_proofs   the proofs about BusyReattach and TornPointer

`Entity` extends `CircularBuffer`, which extends `RingArithmetic`. `SharedMemory`
stands alone: it ends where `BufferInit` begins, with both sides attached to the
same buffers. `EntityPipe` extends `Entity` and instantiates `Pipe`; `TwoWay` and
`Command` extend `Pipe` alone, so that a program is checked against what the
library promises and not against its loads and stores. `ClientRestart` extends
`CircularBuffer`; `BusyReattach` and `TornPointer` take steps of it apart further
and leave the bytes out, so they extend `RingArithmetic` only. Operators marked
"Mutant" in the modules are plausible mistakes; no specification uses them. They are there to show that the properties notice.

### RingArithmetic and CircularBuffer

`mem`, `producer`, `secondProducer`, `consumer`, `secondConsumer` are the shared
memory. The variables starting with `w` are locals of `cCircularWriteBuffer` in
one process, those starting with `r` of `cCircularReadBuffer` in the other. One
step is one load or store of a pointer, or one byte of `memcpy` (in any order),
with the local computation after it:

| code | actions |
|---|---|
| `NumberOfBytesFreeToWrite` | `LoadSecondConsumer`, `LoadConsumer`, repeated while the copies differ |
| `WriteData` | `BeginWriteData`, then per segment `CopyIn` per byte, `StoreProducer`, `StoreSecondProducer` |
| `NumberOfBytesAvailableToRead` | `LoadSecondProducer`, `LoadProducer` |
| `ReadData` | `BeginReadData`, then `CopyOut`, `StoreConsumer`, `StoreSecondConsumer` |

An end loads its own pointer without a step of its own, since only it stores that
pointer. A byte is its position in the stream the writer sends, so every kind of
corruption shows. The buffers trust their caller; `BufferNext` is the widest
legal use: a transfer is at most what the last count leaves (`freeBytes`,
`availableBytes`), and goes on in the caller's data or starts with new data.

The steps are sequentially consistent. x64 keeps stores in order and loads in
order; that a load may pass an older store of the same process only makes a
snapshot older, which the model has anyway. That the compiler keeps the loads of
the comparison loop in the loop is assumed. A pointer is loaded and stored in one
piece, which needs it to be aligned, true when the buffer size is a multiple of 8, and
an x64 build; a Win32 build halves every one. `TornPointer` is about the other sizes
and that build.

### Entity

`cEntity::WriteData` and `ReadData` are the same function over the two ends of a
buffer, so each action is one action of an end `e`, the writer or the reader:
`call[e]` says where the process is in its call, `request`, `done` and `timer` are
its locals. The steps inside the buffer are those of `CircularBuffer`.

| code | actions |
|---|---|
| the entity's own counts | `Count`, `BufferStep`s, `CountReturns` |
| the first count, a request that fits | `Call`, `BufferStep`s, `Direct`, `BufferStep`s, `Return` |
| a request that does not fit | `EnterLoop`, then turns of `Query`, `BufferStep`s, and `NoRoom` or `Chunk` and its `BufferStep`s, then `Return` |
| `SetTimeout` | `SetTimeout` |

A timer is counted in ticks up to the limit, beyond which it makes no difference. `Tick`
advances both timers and can happen at any point, so a limit can pass between the
last progress and the next look at the loop condition. Either process may crash
at every step and does not come back.

`UpdateTimestamp`, which both calls begin with, stores a time that no code of the
library reads; it is left out here.

### SharedMemory

One name. `named` is the object it is bound to; `object`, `region` and `probe`
say what each process holds it by: the handle (`m_SharedMemoryObject`), the
mapping (`m_MappedRegion`), the temporary of `IsSharedMemoryIDFree`. `pc` is the
next step of `SetMemoryID`. The memory itself is its buffer size and whether each
timestamp has been set. A process can leave (`Exit`: crash, destructor, or an
exception out of a constructor) at any step and start over without limit, since
an object nobody holds can be taken again. The two ways `SetMemoryID` throws,
at the name and at the mapping, are actions; both leave the entity as the code
does, with a handle already replaced in the second case.

There are three specifications: `SharedMemorySpec` (any process at any time),
`OrderedSpec` (a client opens what a server has finished, which is what the
`Sleep(1000)` of the tests is for) and `PollingSpec` (a client polls
`IsSharedMemoryIDFree` first, as one test does). `SharedMemoryHistory` is
`SharedMemorySpec` with a variable, `ordered`, that is true until the first step that
`OrderedSpec` would not take. What rests on the order is claimed as long as it is true.

The layout is computed with the code's own pointer arithmetic.

### Pipe and EntityPipe

`Pipe` is `cEntity` as its callers know it. Of the ring is left how many bytes each
end has moved, of a count that it was exact when it was given and has grown old
since, of a transfer that its bytes become visible in parts (`Move`), of the timer
that a call short of bytes may give up at any time. `EntityPipe` maps two entities
onto it: asking for a count on behalf of the program is no place, asking for one in
the loop is the loop, and the count of `Pipe` is taken at the load of the pointer
that agrees with its second copy. `ImplementsPipe` says that every load, store, tick
and crash of `EntitySpec` is a step of the pipe or leaves it alone.

### TwoWay and Command

A direction of a connection is named after the process that writes to it.

| code | actions |
|---|---|
| `...ThreadTwoWayVerifyMethod` (MemMapTest.cpp:218, 275) | `AskFree`, `TryWrite`, `Wrote`, `AskAvailable`, `TryRead`, `HasRead`, in a loop; `complaint` is `globalMessage` |
| the clients of ESEmulationTest.cpp | `SendHeader`, `BeginPayload`, `EndPayload`, `Break`, `Finish` |
| the servers there, and TestOpenEvent.cpp | `Poll`, `ReceiveHeader`, `BeginPayload`, `EndPayload`, `Break`, `Finish` |

Both interleave with the steps of the calls (`InCall`, `RunOut`). In `Command`, `kind`
selects between write commands, whose payload follows the header, and read commands,
whose payload comes back; `threads` says whether the processes share `globalMessage`
(the tests) or not (TestOpenEvent). A position in a stream where no header begins
decodes to any size, so a slip in the framing would show.

### ClientRestart and BusyReattach

What happens to the two rings of a connection when the client's process ends at any
step and another attaches to the same memory. `client` says which ring it is and, of
the one that the client writes, where the client is in attaching. In the direction to
the client (`"reads"`) the new reader goes on at the consumer pointer it finds
(`RestartReader`): bytes can be read twice, and a copy that was left torn is repaired by
the first transfer. In the other the constructor of the write buffer zeroes all four
pointers (`ZeroProducer` to `ZeroSecondConsumer`), two of which are the server's. Here
the server makes no call meanwhile; then the ring is as good as new. The library does
not ensure that, so `BusyReattach` has it do anything: the server can lose the zero
again and see bytes nobody sent, or count more than the ring holds. It never leaves the
ring, because `cEntity` makes one transfer of each count; with two, TLC finds an access
beyond the last cell.

### TornPointer

Each of the four accesses of a count, and each store of an advance, is two steps in
either order; the parts divide at any of the values `Lows`, which is inside the ring for
an unaligned pointer and beyond it for a halved one (`Divided`). Nothing limits how often
an end advances while the other counts. Two history variables watch that: `overlaps` is
how many advances of the other end the turn of the comparison loop has met, in part or
as a whole, up to 2, and `doubtful` says that a divided count was accepted in a turn that
met two.

The counts are *not* safe under every schedule. Say the ring is 4 cells long and a pointer
divides at 2. The reader is at 3 and counts while the writer goes from 0 to 3 and on to 0.
Of the second copy it loads the lower half of the first 0 and the upper half of 3; of the
pointer, an advance later, the upper half of 3 and the lower half of the second 0. Both
give 2, where the writer has never been: they agree, the loop accepts them, and the count
is 3 where 1 byte is available. It takes two advances during one turn, and nothing in the
code prevents them: a transfer over the wraparound makes two without a count in between
(CircularWriteBuffer.cpp:75-79, CircularReadBuffer.cpp:73-77), and an end can count and
advance again while the other is in the middle of a turn. TLC finds this behaviour when
`budget[e] <= Exact(e)` is checked alone. `TornCountIsSafe` says that this is the only
case: as long as no count is `doubtful` the second copy does its work, and an accepted
value that is half old and half new errs on the safe side. A halved pointer, whose
upper half is always 0, has no doubtful counts at all.

## Runs

| run | instance | states | shows |
|---|---|---|---|
| `ring` | 4 cells, stream of 7 bytes | 372 thousand | `TypeOK`, delivery in order, no overlapping copies, safe stale counts, counts adding up, refinement of `ByteStream`; the inductive invariant |
| `entity` | 3 cells, 4 bytes, requests 2 and 3, limits 0 and 1, crashes | 166 thousand | the entities use the ring legally (`KeepsTheBargain`: every step is one of `BufferSpec`) and implement a pipe; results are exact; every call returns, unless the peer died between its two pointer stores; when both processes are in a transfer one of them completes, if nothing ends it; the inductive invariant |
| `shared` | 2 servers, 2 clients, 1 observer, 2 objects | 833 thousand (symmetry) | one memory per name, one server per memory; in order, attached processes agree and timestamps tell who is there; the inductive invariant of both |
| `two_way` | capacity 2, chunks of 1, 2 and 3 bytes, 2 transfers each way | 7 thousand | no timeout and no misplaced byte; the end, or with chunks of 3 a standstill |
| `command` | capacity 2, header 2, payloads 0 and 3, 3 commands, both kinds | 62 thousand | same framing on both sides; the programs end; every command is carried out unless a timeout runs out |
| `client_restart` | 4 cells, streams of 6 bytes, any number of restarts | 603 thousand | to the client: the ring stays sound, no byte is passed over, a writer waits for ever only if the copies are torn and the ring is empty; from it: a ring as good as new, no invented bytes before |
| `busy_reattach` | 4 cells, any number of restarts | 344 thousand | the server stays in the ring |
| `torn` | 5 cells, pointers divided at 2 or 3 (inside) or 5 (beyond the ring), any schedule | 3.5 million | no count is too large before one was accepted, of pointers that divide inside the ring, in a turn that met two advances |
| `timeout` | 2 cells, 2 bytes | violation | see below |
| `erase` | 2 servers, 1 client | violation | see below |
| `layout` | 1 server | violation | see below |
| `polling` | 1 server, 1 client | violation | see below |

Why the bounds are enough. The ring is empty, partly filled, full, and wraps at
every offset already with three or four cells; the stream laps the ring, so every
pointer takes every value again; a request of 3 bytes exceeds the two bytes
that a ring of three cells holds and is transferred in chunks, over the
wraparound. The proofs cover all sizes. `Word` is small so that unsigned
subtraction really wraps in the run; nothing depends on its value beyond
`BufferAssumption`. `MaxBytes` bounds the stream only in the runs. For
`SharedMemory`, two servers and two clients are the fewest for a restart that
races another process of each kind, and nothing counts further; of the objects one at
most is held, so that a second one is enough to show a split. The programs over
pipes have chunks and payloads below, at and above the capacity, empty ones too, and
more than one transfer, so that one can be left half done before the next. A restart
may come at every step and again; what the last process left is a state of the whole
ring, torn copies included. Both runs about restarts let the ring go round without
counting the bytes of earlier clients that write, so nothing bounds them there.

Fairness. `FairSpec` of `Entity` has weak fairness of each process's own steps in a
call it has begun: an operating system schedules a process that is ready, and the loops
are busy. Nobody has to call, and a crashed process has no steps. Time need not pass, so
`OneTransferCompletes` covers timeouts however long; `ReturnsUnlessTorn` assumes that
it does (`WF(Tick)`), and `TimedSpec`, of the run `timeout`, includes it.
`TwoWaySpec` and `CommandSpec` schedule each process: it does the next thing of its
program or of the call it is in. In `TwoWay` a call that is short of bytes may always
give up, so nothing there rests on a timer that waits long enough. In `Command` giving
up is not fair, so `AllCarriedOut` covers timeouts so long that none runs out, and
`ProgramsEnd` assumes that a call which can do nothing gives up in the end.
`SettlingSpec` schedules both ends of the ring that the client reads and has the
restarts end. Its reader asks when it knows of nothing (weak fairness), and if it can
read again and again it reads at last (strong fairness, as between two reads it may be
in a count): what the loops of the programs do, who read what they find.

Deadlock is checked in every run but those of `TwoWay` and `Command`, whose programs end.

### What disagrees with the documentation

* `timeout`: the comment on the timeout limit (Entity.cpp:19) promises that a hung
  peer is detected. The loop that compares the two copies of a pointer has no
  timer, so a peer that dies between its two stores hangs the caller for ever.
* `erase`: "Erase any previously shared memory" (Server.cpp:37) erases nothing; a
  server that restarts while its old client is still there is refused the name.
  `OneMemory` and `OneServer` show the good side of it: were the name really
  erased, there would be two memories under one name.
* `layout`: "the two halves of the allocated shared memory" (Server.cpp:58) end 56
  bytes beyond what was allocated, because of arithmetic on a `ptime` pointer.
* `polling`: "Wait for the memory to be initialized by the server"
  (MemMapTest.cpp:748) waits for the name only; the client can read a size of 0.

## Proofs

`CircularBuffer_proofs` proves, for every buffer size above the reserve, every
word size with room for a sum of two offsets (`BufferAssumption`) and every stream
length, each invariant that the run `ring` checks. None of them is inductive.
Take `NoDataRace`: that the writer's segment is clear of the reader's rests on a
count computed long before, from a copy of the consumer pointer that was already
old when it was loaded. `RingInv` therefore says, of every moment:

1. how far each pointer and each second copy is around the ring, in terms of how
   far the stream has come (`PointersFollowStream`);
2. that a loaded snapshot can only lag (`SnapshotsAreBehind`);
3. that what an end may still transfer, plus the transfer under way, plus what the
   *published* consumer pointer leaves in flight, fits (`BudgetsFit`);
4. that a segment stops at the wraparound and a second one starts at cell 0
   (`SegmentsEndAtWraparound`);
5. which bytes are in the cells and in `dataSink`, the partly copied segments
   included (`SegmentsFollowStream`, `CellsHoldStream`, `SinkHoldsStream`).

The proof goes action by action. `Ahead`, the distance around the ring, carries
the arithmetic: its lemmas turn the code's comparisons and remainders into sums.

`RingInv` does not ask that the two copies of a pointer agree. It goes by the distance
between them, whatever that is, so it still holds when a process has ended between its
two stores and a new one goes on with what it finds. That they agree whenever no advance
is under way is `CopiesAgree`, which only a ring whose processes live keeps.

The module also proves that the ring implements `ByteStream`
(`Refinement`). The refinement mapping `InFlight` reads the cells from the consumer
pointer to the producer pointer; by `RingInv` they hold the positions from `rcvd` up
to `sent`, so only the two pointer stores change the abstract stream and every other
step is a stutter.

`Entity_proofs` proves, for any ring, any requests, any limits and any crashes, that
two entities are a legal use of the ring: every step of theirs is a step of
`BufferNext` or leaves the buffer alone (`LegalUse`, the theorem `EntitySpec =>
BufferSpec`). All that is proved of the ring then holds for them
(`EntityDelivery`, `EntityStream`). It also proves that results are exact (`WriteResults`,
`ReadResults`). The code never checks that a chunk fits or that it is the next one;
it follows from what all earlier chunks of the call left behind. `EntityInv` says
it, of each end at every moment: `base + done` is what the end has moved and what
of its transfer is pending, the caller's data begins at `base` once a chunk was
moved, an end is in a count or a transfer as its call says, and a result stays
true until the next call. Each action moves one end; the lemmas of the form
`...Keeps` show that it keeps that end's part, `EndKept` keeps the other's.

`SharedMemory_proofs` proves for any number of servers, clients, observers and
objects (`SharedAssumption`) that whoever holds anything holds the object the name
is bound to and that only one server does (`SharedInv`), and from it `OneMemory`
and `OneServer`. As long as clients keep the order it proves that attached processes
agree (`Agreement`) and keep their timestamps (`StampsAreKept`), from `OrderedInv`: while
a server is still setting up no client or observer can have read anything of the
memory, and once it has finished nothing changes the size again.

What the run `layout` finds for one size is proved for all (`BuffersOverrun`): the second
buffer of an attached server ends seven ptimes beyond what was allocated, as the eight
ptimes between the two timestamps were counted as one.

`Entity_proofs` proves as well that two entities implement a pipe, for every ring
(`EntitiesArePipe`). Each action of `EntitySpec` is one step of the pipe at one end;
`RingInv` and `EntityInv` give that the count it computes is `Exact` and that a pointer
store is a `Move` of the segment just copied. `Pipe_proofs` then needs a few lines for
what `CircularBuffer_proofs` needs many for: an old count is safe (`PipeIsSafe`), as
each end only adds to what the other may do.

`TwoWay_proofs` proves that the two-way test never reports anything, for any chunk,
capacity and schedule (`NobodyComplains`). By `TwoWayInv` a process that has checked a
count is in a call whose own count can only be larger, so it goes the direct way.

By `StuckInv` no count of a chunk that is larger than the capacity is ever enough, so
nothing moves and nothing ends (`TooLargeIsStuck`): the safety half of `EndsIfChunkFits`.

`Command_proofs` proves that client and server divide the streams alike (`FramesAgree`),
for any number of commands, any sizes, header and capacity, whatever times out. Nothing in
the streams marks a header, so the proof is about places. `HeaderAt` and `PayloadAt`
compute from the commands so far where each header and payload has to begin, and
`CommandInv` says that

1. each process's commands lie end to end from 0 on (`Chained`), with the current one
   after them (`ProcessInv`), as far as its transfer has moved (`AtRest`, `InTransfer`);
2. what the client has announced at a place is the command it has at that place, and only
   there (`Announced`, `HeadersInv`);
3. the server has no command the client does not have, and the same ones
   (`ServerFollows`).

A reader is never ahead of the writer of its pipe, which gives 3 at the moment a header
has been received in full; that a header is not empty (`CommandAssumption`) keeps two
commands from beginning at one place. A transfer that times out half done ends its
process's part, so what follows in the stream is never taken for a header.

`ClientRestart_proofs` proves, for every ring and any number of restarts at any step:

* of the ring the client reads, that it stays sound (`RestartDelivers`,
  `RestartIsRaceFree`), that no byte is passed over (`NothingIsSkipped`), and that with its
  restarts it still implements the same stream (`RestartedReaderRefinement`): to the
  writer a reader that was replaced in the middle of a transfer is a reader that has not
  taken it yet;
* of the ring it writes, that it is as good as new once attached under a quiet server
  (`RestartIsClean`), and that what the server reads before was published
  (`LeftoverIsSafe`); it is one byte stream after the other, each of which begins empty
  when a constructor is done and is implemented up to the next one (`StreamAfterStream`).

`RestartInv` keeps `RingInv` when a process ends, at any step; this is what `RingInv` goes
by the distance of the copies for. Only in the constructor, while one pointer is 0 and
another is not, it is given up: `ConstructorInv` keeps the types and what has been
zeroed, and the last store gives all of `RingInv` back.

`RingArithmetic_proofs` proves that a server stays in its ring under clients that attach
in the middle of its calls (`ServerIsSafe`). All a client can do to the server's pointer is
to make it 0. `BusyInv` says at each place of a transfer that what was computed from the
pointer before fits from 0 on as well, and of a count that it is too large only when the
pointer is 0, where even such a count ends before the second wraparound.

The module also proves what is true of counts with torn pointers (`TornCountsAreSafe`), for
every ring, every place where a pointer can divide and every schedule. `TornInv` is one
invariant for each kind of division. Inside the ring it is `DividedInv`, up to the first
doubtful count. Its `CopiesInv`: while an end stores its first copy the second is still
its former pointer, from which the other end counts less, and never less than its budget;
while it stores the second, the first is right. Its `TurnInv`, of a turn that has met one
advance at most: what a count has loaded of the second copy before the first is stored is
of the former pointer; what it loads of the first copy after that is of the new one; and if
it has loaded some of the first before, the second has been loaded in full, and is the
former pointer. So whichever is accepted is one or the other. The restriction to one
advance is no assumption of the theorem: the steps that meet a second one are taken, and
what follows them is what `doubtful` records. The statement without it is false (see
TornPointer above).

Beyond the ring, `LagInv` holds without exception: the second copy only lags behind the
pointer, and what a count has loaded of it lags behind what it is by now, so a
count never promises more than there is, whatever it meets. `HalvesAreSafe` states that
for a 32-bit build, without `doubtful`.

What an inductive invariant says was checked with TLC on the instances of the runs before
it was proved; `RingInv`, `EntityInv`, `HistoryInv`, `TwoWayInv` and `RestartInv` still are
in the runs.

Only model-checked: the liveness properties (`ReturnsUnlessTorn`,
`OneTransferCompletes`, the other half of `EndsIfChunkFits`, `ProgramsEnd`, `AllCarriedOut`,
`CountReturnsUnlessTornAndEmpty`) rest on fairness, which the prover cannot handle, and
stay with TLC. Every safety property of the runs is a theorem.

## Not modelled

* Times: of the timestamps only whether they are set, by `SetMemoryID`.
* The key: nothing in the library reads it, and a 64-byte copy has no order.
* Buffers no larger than their reserve: the constructors do not reject them
  (`BufferAssumption`), except that `SharedMemory` follows what a client does that
  has read a size of 0.
* Two clients transferring at once: nothing prevents it and nothing supports it.
* Boost and Windows, beyond the rules above. The repository holds half a million
  lines of vendored Boost headers beside the library's nine hundred; of Boost the
  library calls four classes, and what it relies on is modelled where it calls them.
* Compilers that load a pointer once before the comparison loop (no pointer is
  `volatile`): a program built so has no behaviour worth checking.
* The pointers a failed `cObserver::SetMemoryID` leaves uninitialised.
* The unit tests and benchmarks of CircularBufferTest.cpp: single-threaded uses of
  what `CircularBuffer` checks under every interleaving. The one-way tests of
  MemMapTest.cpp and ESEmulationTest.cpp, one chunk after another in one direction:
  callers of one pipe, whose progress `OneTransferCompletes` shows.

## Plan

Done: the ring with torn pointers, restarts and reattachment, the entity and the pipe
it implements, the programs over it, the life of the memory. What is left:

1. The timestamps as times: how old one can be while its process waits in a call.
2. The programs over two entities that are replaced by new ones: what a program can tell
   of a restart of its peer.
