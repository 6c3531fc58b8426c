# A TLA+ model of the MESI simulator

`MESI_Simulator` simulates, cycle by cycle, a machine of several processors,
each with a cache, on one shared bus with one memory. The caches are kept
coherent by snooping: MI, MSI or MESI, chosen with `-c`. This directory holds a
TLA+ model of that machine, the TLC runs that check it on small instances, and
TLAPS proofs of what holds for every instance.

Contents: [the system](#the-system), [what is hard](#what-is-hard),
[modules](#the-modules), [runs](#what-the-runs-check),
[findings](#what-the-code-does-and-its-comments-do-not-say),
[proofs](#what-is-proved), [not modelled](#what-is-not-modelled),
[plan](#plan).

## The system

The program is one thread. `main` calls `System::Tick` until the cycle limit;
a tick calls the components in a fixed order (processors from the last to the
first, memory, bus), and between ticks `main` gives each idle processor one
entry of its trace file. Concurrency is nevertheless what the program is
*about*: the components are state machines that only see each other through
the bus, and a request queued in one cycle goes out many cycles later.

| Component | State | Operations | Talks to |
|---|---|---|---|
| Main loop and `System` (`cache_coherence_sim.cpp`, `System.cpp`) | trace files, tick order | feed instructions, `Tick` | all of them, by calls |
| `Processor` (`Processor.cpp`) | `instrQueue`, `currentState`, `processingInst` | `Tick`, three states | its controller: `handleMemoryAccess`, `hasPendingMemoryInstruction` |
| `CacheController` (base) | `busReqQueue`, `maxPriorityBusReqQueue`, burst counter, `pendingInstructionFlag`, `currentInstruction` | queue, issue, burst, cancel, request the lock | bus: is asked what it wants, then told to transmit |
| MESI / MSI / MI controllers | FSM state, flags about the awaited line (`saw...`, `got...`, `awaitingDataLocal`, `awaitingDataRemote`'s flag) | eight FSM states; one handler per bus command | cache; bus |
| `Cache`, `CacheSet`, `CacheLine` | lines: tag, valid, MESI bits, LRU bits | contains, insert, set state, invalidate, evict, LRU renumbering | called by its controller |
| `Interconnect`, `BusNode` | holder of the bus lock, rotating priority queue; in each node, whether it believes it is locked | service nodes, grant and release the lock, broadcast | every node |
| `Memory` | list of tracked reads with their ages, a queue, a burst | accept, age, answer the oldest, burst | bus |
| Statistics (`Processor`, controllers, `Memory`, `Interconnect`) | counts of operations, hits, misses, waits, memory sends, busy cycles | count, report at the end | nothing in the machine reads them |
| Trace generation (`MemTrace/memtrace.cpp`, a Pin tool) | per thread: a log of slots, a cursor, a file | begin a trace, record a reference, expand the log | Pin, and the main loop by its files |
| `run_benchmarks.pl`, `t/`, the Pin distribution | text | | nothing in the machine reads them |

What makes each of them correct:

- **coherence**: a line owned (M or E) by one cache is in no other, and changes
  hands only by steps that a coherence protocol allows;
- **bus**: bus and nodes agree on the holder of the lock; a burst is not
  interrupted and ends with the request it began with;
- **memory**: reads are answered in order; a read that is still waited for is
  never the last copy of an answer to be dropped; bursts have their length;
- **controller**: one read per instruction; a fill knows where its data came
  from; the embedded assertions hold;
- **processor**: agrees with its controller on the instruction in progress;
  every instruction completes;
- **cache set**: finds the valid line, always has a victim, evicts by LRU, and
  looks to the controllers like a map from lines to states;
- **cache**: an address has one line, found under each of its bytes; the
  address rebuilt from a line is the one it was inserted for; sets do not
  disturb each other;
- **main loop**: each processor executes its own trace, once and in order;
- **statistics**: operations, hits, misses, waits and busy cycles add up;
- **trace generation**: what is executed is in the file, once and in order.

## What is hard

`PROJECT.json` lists every hazard with its line. The main ones:

- **Reads race reads.** While a controller waits for a line it snoops the
  reads of others for that same line, remembers them (`sawBusRead...`), and
  on arrival of the data decides by them whether it may keep the line.
- **Data has several senders.** Every sharer and the memory answer a read; a
  transfer on the bus makes the others cancel theirs, one queue entry at a
  time, by line and not by asker.
- **Bursts and locks.** A transfer of a line holds the bus for `-b` cycles.
  The lock is kept in two places (bus and node), counters are compared with
  `==`, and maximum-priority requests may arrive in the middle.
- **Two state machines in lockstep.** Controller and processor share a flag
  and a heap object that one of them deletes.
- **Stale decisions.** An `INVALIDATE` is decided on a Shared copy and sent
  later, and so is a SHAREME on a read it saw; a victim's state is looked at
  after it has been reset.
- **LRU bits** are renumbered by two functions that disagree after an
  invalidation.
- **Shared locals.** The main loop reads every trace file through the same two
  variables, which keep their value when a read fails, and asks `feof` once a
  cycle, before it reads.
- **A log without an end mark.** The Pin tool's expansion stops at the first
  empty slot, so stale slots, or a log filled to its last slot, would make it
  run on.

## The modules

```
BusProtocol            parameters, commands, requests
 |- Memory             memory
 |- Interconnect       bus arbitration and locks
 `- CacheController    queues, bursts, the cache as a map
     `- MESI_Controller       handlers and actions of MESI
         |- MSI_Controller    what differs under MSI
         |- MI_Controller     what differs under MI
         `- Processor         controller FSM + processor FSM (EXTENDS both)
System (EXTENDS Processor, Memory, Interconnect)   the machine
 |- INSTANCE Coherence        abstract coherence protocol
 |- CoherenceInvariant        why the machine is coherent: no code, the
 |                            invariant that TLC checks and the proofs use
 `- Simulation                main(): trace files, cycle limit, statistics;
                              a run is a behaviour of System
Cache                         all the sets of a cache, address arithmetic
 |- INSTANCE CacheSet         one set: lines, tags, LRU
 `- INSTANCE CacheContents    abstract cache = the map in CacheController
CacheSet
 `- INSTANCE CacheContents    ... with a single set
MemTrace                      the log of the trace generator
MCSystem, MCSimulation, MCCacheSet, MCCache, MCMemTrace   instances for TLC
*_proofs                      theorems and lemmas for TLAPS
```

The proof modules build on each other as the machine does: `System_proofs` (types,
agreement, memory, locks), then `Controller_proofs` (what each handler does to a
claim), then `SystemCoherence_proofs` (the controllers together), then
`Simulation_proofs` (runs of the program). `CacheSet_proofs` is instantiated by
`Cache_proofs`. `MemTrace_proofs` and `Coherence_proofs` stand alone.

**Granularity.** An action is one call in the tick order: feeding
instructions, one processor's tick (its controller's tick included), the
memory's tick, the bus's tick with the whole broadcast. Nothing runs between
the statements of a call, so nothing finer can be observed. `turn` is the
position in the order.

**State.** `ctl[p]` is the controller of processor `p` as a record whose fields
have the source's names; flags that are set and cleared together are one set
(`got`, `saw`). The head of a queue is its oldest request: the program inserts
at the front of a vector and takes from its back. `inst[p]` is the heap object
that the processor's `processingInst` and the controller's `currentInstruction`
point to, `NoInst` once deleted.

**Correspondence.**

| Code | Model |
|---|---|
| loop body of `cache_coherence_sim.cpp` | `InsertInstructions` |
| `Processor::Tick` | `ProcessorTick` = `ControllerTick` then `ProcessorTransition` |
| `CacheController::Tick`, `transitionState`, the `*_Transition` and `*_Action` functions | one disjunct of `ControllerTick` per path through them; `Enter` adds the trailing `updateBusBurstRequest` |
| `acceptBusTransaction`, `handle...` | `MESI_Accept`, `MI_Accept`, `HandleBusRead`, ... |
| `initiateBusTransaction` | `Issued` (what goes out), `AfterIssue` (what is left) |
| `Interconnect::Tick` | `TickInterconnect`: `ServicedNode`, the broadcast, `BusTick` |
| `Memory::Tick` | `MemTick` = `BurstEnd`, `BurstBeat`, `QueueDataReturn`, `AgeReads` |
| `CacheSet`, with the calls `Cache` makes on it | `Hit`, `Insert`, `EvictAndInsert`, `Share`, `Invalidate` |
| `Cache`: the same calls with an address | `Hit`, `Insert`, `EvictLineInSetAndInsert`, `SetShared`, `Invalidate` over `GetAdxSetNum`, `GetTag`, `GetAddress`, `Masked` |
| `main`: the loop that reads the trace files, its end | `ReadTraces` (`NextOp` is the pair `nextop`, `nextaddress` as the loop over the processors leaves it), `LeaveLoop` |
| counters in `Processor`, controllers, `Memory`, `Interconnect` | `CountState`, `CountLookup`, `MemorySends`, `Busy` |
| `TraceAllocIf`, `TraceAllocThen`, `RecordTraceBegin` | `BeginTrace` |
| `RecordImmediate`; `Expand`, `ExpandTrace`; the log's destructor | `RecordImmediate`; `Expanded`, `ExpandTrace`; `ThreadFini` |

**Abstractions.** In `System` addresses are line addresses, `SetOf` gives the
set of each, and the cache in `CacheController` is a map in which an eviction
picks any cached line of the set. `CacheSet` (runs `cacheset`, `cache`, and a
proof) and `Cache` (run `cache`) show that sets with LRU bits and masked tags
implement such a map (`CacheContents`), so the choice of the victim is one of
those explored. That is proved for every geometry, set by set and for the whole
cache. Ages of reads stop at `ReadLatency`, where the code only
compares them with it and with ages of later arrivals. `memBurstCounter` is
taken modulo `CounterModulus` (2^32 in the code). In `System` the trace of a
processor is any sequence of entries out of `Workload[p]`, with any gaps a NOP
or the end of the file produces; in `Simulation` it is a file.

`usedAfter` in `CacheSet` and `Cache` is a history variable: for every tag, the
tags used since it was last used itself. It is what the LRU bits ought to
encode, and no definition of the code's reads it. `executed` in `MemTrace` is
one too.

`MemTrace` is one thread under `-emit 1`: every thread has a log and a file of
its own, and with `-emit 0`, the default, nothing is written. A reference is
executed once; the iterations of a repeated string instruction, which all
write to one slot, are left out.

**Broken variants.** Operators marked *broken* (`TrackedInFront`,
`HandleBusReadForgetful`, ...) are not used by any definition. Each is a
plausible bug that the property named with it in `PROJECT.json` catches.

**Initial state.** The constructors of `Processor` and of the controllers do
not set `currentState`, `processingInst` and `dispatchedBusRead`. `Init` has
the values that memory fresh from the system gives them. The real program
behaves so with up to 17 processors; with 18 or more, a `Processor` is
allocated in memory the bus's priority vector has given back, and the program
crashes in the first cycle. The proofs below hold for any number of
processors *from this initial state*.

## What the runs check

Every run ends within three minutes with two workers.

| Run | Instance | Distinct states | Shows |
|---|---|---|---|
| `mesi` | 2 processors, 1 line, every trace, MESI, burst 2, latency 1 | 367 447 | types; `LockAgreement`; `ProcessorControllerAgreement`; `OneReadPerInstruction`; `BurstUnbroken`; `BurstWithinLength`; `CoherenceInv`, the invariant of the proofs; refinement of `Coherence`; `ModifiedIsWrittenBack`; `InstructionsComplete` |
| `three` | 2 readers and a writer of 1 line, MSI | 2 170 570 | several sharers answer one read: `SingleWriter`; `AwaitedDataIsComing`; `AssertionsHold`; refinement of `Coherence` |
| `sim` | 2 processors, 3 lines, room for 2, MI, burst 3, latency 2, every pair of files of up to 3 and 2 entries | 264 672 | `TraceInOrder`; `EveryOperationCountedOnce`; `MissesWaitForTheBurst`; `MemorySendsWhenBusy`; with evictions and several lines in the memory at a time, `AssertionsHold` (the `assert(0)` is out of reach), `ReadsInOrder`, `AwaitedDataIsComing`; refinement of `System` |
| `cacheset` | 1 set, 3 lines, 4 tags | 14 493 | types; `GetLineIsValid`; `VictimDefined`; `MostRecentSurvives`; refinement of `CacheContents` |
| `cache` | 2 sets of 2 lines, 5 byte addresses in 4 lines | 4 095 | `LinesAreAddressable`; refinement of `CacheContents`; each set is a `CacheSet` |
| `memtrace` | 3 Pin traces, log of 7 slots, 5 references | 288 517 | `ExpandStops`; `TraceIsComplete` |
| `v_store`, `v_evict`, `v_inv`, `v_burst`, `v_starve`, `v_lru` | | | violations: see below |

**Why the bounds are enough to be of interest.** Two processors are the least
number with an upgrade race, three the least at which two sharers answer the
same read, at which the loser of a race has a bystander, and at which the
priority order can leave someone out. A burst of 2 has one NULL_BURST and one
data beat; 3 (in `sim`, `v_burst`) tells the middle of a burst from its ends. A
latency above 1 lets reads pile up in the memory with different ages. In `sim`,
three lines with room for two make victims, and files of up to three entries
have the empty file, the one that ends at its first read, and a file that ends
while the other goes on; `MaxTicks` (60) is above what the longest of them
takes to execute. Three lines per set are the least in which the renumbering of
one line can disturb the order of two others, and four tags the least that can
be evicted from it with one that is not cached. In `cacheset` the tags other
than 0 are interchangeable (symmetry); tag 0 is not, because every line is
constructed with it. `cache` has two bytes of one line, three lines that
compete for a set of two, a line of the other set, and the greatest tag a line
can store. The log of `memtrace` holds two of the traces but not every two, so
it is expanded with room left, at its last slot, and at the end of the thread;
`MaxRefs` bounds how long the program runs. Queues and lists of the machine
have no bound: the state spaces are finite as they are.

**What `Coherence` promises.** Its only steps are: a cache acquires a line
(exclusively if no cache has it, as a reader if no cache owns it), an owner
modifies its line, a bus transaction lowers some copies. `SingleWriter`
follows (proved: `CoherentSingleWriter`). The refinement says more than the
invariant: which *steps* are possible, hence that no cache turns a Shared copy
into an owned one in place and that no line appears in two caches in one step.
It says nothing of *values*: the simulator has none.

**Fairness.** `FairSpec` adds `WF_vars(Next)` only: the main loop keeps calling
`Tick` until the cycle limit. Every component's turn comes by the tick order,
no fairness is assumed of the bus, the memory or a trace. Under it every
instruction completes with two processors (`mesi`), and with three it need not
(`v_starve`).

**Deadlock** is checked wherever the system goes on: the machine never stops,
nor does a cache. `sim` and `memtrace` turn it off (`CHECK_DEADLOCK FALSE`): a
run ends at the cycle limit, a thread when it exits.

**Reported latency.** `MissesWaitForTheBurst` bounds it from below: each miss
costs, besides the cycle of a hit, one for its read to go out and then the
cycles of a full burst. One cycle more would be false: a load can arrive while
the owner of its line is ready to answer in the very next cycle (the run `sim`
has such a file, `LateLoad`). It is proved for bursts of more than two cycles; with
`-b 1` and `-b 2` the left-over beat of `v_burst` is half of a burst or all of it.

## What the code does and its comments do not say

Each is a run in which TLC violates what a comment promises.

- `v_store`: a store that finds its line Shared sends an INVALIDATE and is then
  finished; the line stays Shared. `getNextState` has no case for
  INVALIDATE_WAIT, its default is IDLE, and `InvalidateWait_Transition`, which
  would lead to the update, is never called.
- `v_evict`: a Modified victim is not written back. `evictLineInSet` has made
  it INVALID by the time `isModified` is asked.
- `v_inv`: an INVALIDATE can meet a Modified copy in another cache, which a
  comment says should not be possible. It was decided on a Shared copy that was
  lost before the bus was free. The handler copes: it writes the line back.
- `v_burst`: the tick that ends a memory burst counts one beat too many, so a
  burst that follows is a cycle short. With `-b 1` the left-over beat steps over
  the end of the next burst, which then bursts until the counter wraps;
  `BurstWithinLength` is what excludes this, and it is proved for every burst
  length above 1 and is false for 1.
- `v_starve`: three processors that store to one line without a pause: two hand
  it to each other and the third's instruction never completes. The same
  bus cycle comes round with the same priority order each time.
- `v_lru`: the line evicted is not the least recently used. `updateLRU`
  renumbers, in array order, every line not above the old LRU value of the line
  used, and a line inserted where another was invalidated brings that one's
  value. The line used last is never evicted, though (`MostRecentSurvives`).

Six remarks that no comment contradicts, so no run shows them:

- The Pin tool writes the instruction's place into each line of the trace and
  not the address in the slot (`memtrace.cpp:430`).
- `handleShareMe` lowers a Modified copy and issues no data
  (`MESI_Controller.cpp:369-375`), where a snooped read would issue a BUSWRITE. A
  controller that waits for a line and sees another one's BUSREAD of it queues a
  SHAREME, which is to make the reader's copy Shared. With two processors it always
  comes before anybody has stored to the line (`ModifiedIsWrittenBack` in `mesi`), as
  long as it has maximum priority: queued among the reads, it would not. With
  three it may be too late. Transfers between the other two hold it back: the
  reader is filled, gives the line up to the third cache's BUSREADX, that one
  stores, and only then the SHAREME is sent. TLC shows it when `v_inv.cfg` names
  `ModifiedIsWrittenBack` as its property. `Coherence` knows states and no data,
  so to the refinement this is one more legal step.
- `CacheLine`'s constructor does not set `setNum` (`CacheLine.h:28-44`), and the
  address of a write-back is made with it (`MESI_Controller.cpp:249`). The line
  is never reached, which is what `v_evict` shows; a repair of the one uncovers
  the other.
- What is reported as reads serviced by memory counts every transaction of the
  memory, NULL_BURSTs too: it grows with the burst length (`Memory.cpp:38`).
- A transfer between caches drops one read of its line from the memory. Reads
  that remain are answered to nobody; with a latency of four there are two of
  one processor. They do no harm (`AwaitedDataIsComing`, refinement of
  `Coherence`), but take the bus.
- The loop runs `max_ticks + 1` times and counts once more: the reported cycles
  are two above `-m` (`LeaveLoop`).

## What is proved

By TLAPS, for every value of the constants that the named assumptions allow:
`NumProcs`, `BurstLen`, `ReadLatency`, `LinesPerSet` at least 1 (the options
`-p`, `-b` and `-l` are checked so at `cache_coherence_sim.cpp:57-84`),
`CounterModulus` above `BurstLen`, `NoAddr` no address, `ControllerType` one of
the three, `Workload` any nonempty sets of entries, any number of lines and
sets; `TraceFiles` any sequences of entries; `BytesPerLine`, `NumSets`,
`LinesPerSet` and `TagLimit` any positive numbers, not powers of two only, as
long as every address has a tag that a line can store; any set of Pin traces
that do not fill the log. TLC evaluates the assumptions in the runs.

| Theorem | States |
|---|---|
| `System_proofs!TypesHold` | `Spec => []TypeOK` |
| `System_proofs!LockIsAgreed` | `Spec => []LockAgreement` |
| `System_proofs!ProcessorsAgree` | `Spec => []ProcessorControllerAgreement` |
| `System_proofs!ReadsStayInOrder` | `Spec => []ReadsInOrder` |
| `System_proofs!BurstsEnd` | `BurstLen > 1` gives `Spec => []BurstWithinLength` |
| `SystemCoherence_proofs!CoherenceInvHolds` | `Spec => []CoherenceInv` |
| `SystemCoherence_proofs!ReadsDoNotOverlap` | `Spec => []OneReadPerInstruction` |
| `SystemCoherence_proofs!AssertionsNeverFail` | `Spec => []AssertionsHold` |
| `SystemCoherence_proofs!BurstsAreUnbroken` | `Spec => []BurstUnbroken` |
| `SystemCoherence_proofs!AwaitedDataComes` | `Spec => []AwaitedDataIsComing` |
| `SystemCoherence_proofs!OnlyOneWriter` | `Spec => []SingleWriter` |
| `SystemCoherence_proofs!MachineImplementsCoherence` | `Spec => ImplementsCoherence` |
| `Simulation_proofs!RunsAreBehaviours` | `SimSpec => ImplementsSystem` |
| `Simulation_proofs!FilesAreExecutedInOrder` | `SimSpec => []TraceInOrder` |
| `Simulation_proofs!OperationsAreCountedOnce` | `SimSpec => []EveryOperationCountedOnce` |
| `Simulation_proofs!MissesWaitOutTheBurst` | `BurstLen > 2` gives `SimSpec => []MissesWaitForTheBurst` |
| `Simulation_proofs!MemorySendsInBusyCycles` | `SimSpec => []MemorySendsWhenBusy` |
| `CacheSet_proofs!TypesHold` | `Spec => []TypeOK` |
| `CacheSet_proofs!GetLineFindsValid` | `Spec => []GetLineIsValid` |
| `CacheSet_proofs!VictimExists` | `LinesPerSet > 1` gives `Spec => []VictimDefined` |
| `CacheSet_proofs!RecentLineStays` | `Spec => []MostRecentSurvives` |
| `CacheSet_proofs!SetImplementsContents` | `Spec => ImplementsContents` |
| `Cache_proofs!CacheImplementsSets` | `Spec => ImplementsSets` |
| `Cache_proofs!LinesStayAddressable` | `Spec => []LinesAreAddressable` |
| `Cache_proofs!CacheImplementsContents` | `Spec => ImplementsContents` |
| `MemTrace_proofs!ExpansionStops` | `Spec => []ExpandStops` |
| `MemTrace_proofs!FilesAreComplete` | `Spec => []TraceIsComplete` |
| `Coherence_proofs!CoherentSingleWriter` | the abstract protocol has a single writer |

**The argument for types and agreement.** The invariant is
`IInv == TypeOK /\ ProcessorControllerAgreement /\ ReadsInOrder`. `TypeOK` is
not inductive alone: the controller queues requests for `inst[p].line`, and
that is a line, and not `NoAddr`, only because an instruction exists whenever
the FSM leaves IDLE, which is `ProcessorControllerAgreement`. `ReadsInOrder`
makes the memory's search for the oldest read elementary: the first entry of
the list is one. `System_proofs` carries the controllers first: a lemma per
handler says that it keeps the record typed and never moves the FSM (`Serves`),
so a broadcast cannot disturb the agreement of a processor with its controller,
and a lemma for the tick has one case per path through the FSM. The memory has
one lemma per operation, and the machine one per action, the bus's included.
`LockAgreement` is inductive by itself. `BurstsEnd` adds `BurstCounted`: inside a
burst the counter is below `BurstLen`, outside it is 0 or the one left-over beat.

**The argument for coherence.** What makes the caches coherent is not visible in
the caches: between the cycle in which a read is on the bus and the one in
which its reader updates its cache lie the latency of the memory, other reads of
the line, transfers and upgrades. `CoherenceInvariant` says what holds
meanwhile, and together with the invariant above it is inductive:

- *Phases*: a read is queued alone, then dispatched and awaited, then arrived,
  and in no other state of the FSM is one under way. `OneReadPerInstruction` is
  a consequence, and so are the assertions on a filled miss.
- *Announced*, *BurstHeld*: a controller asks for the bus exactly when its next
  request is a line, and a burst that has begun holds the bus with its line at
  the head of the queue, whatever arrives. This gives `BurstUnbroken`.
- *MemoryOwes*: an awaited read is in the memory's list, in its burst or in its
  queue. A transfer that cancels a read for one controller is taken by every
  controller that awaits the line, so nobody's last answer is dropped:
  `AwaitedDataIsComing`.
- *OneOwner*: each controller has a *claim* on a line, the state it has it in or,
  while it awaits the line, the state its next update would give it if the data
  came now. An owner's claim excludes every other. Claims and not states are
  what the bus decides: a BUSREADX takes the claims of others away in the cycle
  it is broadcast, although their caches change later.
- *ToldInTime*: the claim of a load may be open until it is answered (under MESI
  E if the memory answers, S if a cache does). If another controller has a claim
  on the line too, somebody is about to send the line or a SHAREME, and the
  memory will not get the bus before. *OwnAnswers* keeps a controller's own
  pending answers out of this.

`Controller_proofs` says what each handler and each tick does to the claim, the
phase and the outgoing requests of one controller; `SystemCoherence_proofs` puts
the controllers together in a broadcast, one lemma per conjunct and action.
Since an owner's claim covers its state, `OneOwner` gives the refinement of
`Coherence` step by step, and `SingleWriter` from it.

**The argument for `CacheSet`.** `LinesInv` says, besides types, that every
valid line is the first with its tag (`FirstIsValid`) and that two valid lines
never share the LRU value 0 (`OneZero`). They *can* share other values; that is
why `VictimDefined` is not obvious. `OneZero` survives `checkAndFixLRU`, which
skips duplicates, because only the lowest value in its map becomes 0 and a line
left out of the map keeps a value above 0. `RecentIsZero` says that the line
used last has that one value 0, so it is never the victim. For the refinement of
`CacheContents`, a valid line never has state I (`ValidHaveState`), and since
tags of valid lines are distinct a set holds as many tags as it has valid lines
(`HeldTags`): an insertion goes where the map has room, an eviction where it has
none.

**The argument for `Cache`.** Three things are new against one set. *Arithmetic*:
an address is `(tag * NumSets + set) * BytesPerLine + offset` in one way only
(`AddressParts`, `RebuiltAddress`, `NamesOfLines`), and the masks of a stored tag
change nothing below `TagLimit`; from this, `LinesAreAddressable`. *Independence*:
each operation changes the array of one set, by the operation of `CacheSet` with
the same name, and the others stutter; that is `ImplementsSets`. *The invariant*
(`CacheInv`) is `CacheSet`'s, for every set, with `Named`: a valid line of set *n*
stores a tag of an address of that set. What is proved of the lines of one set is
not proved again: the lemmas of `CacheSet_proofs` speak of any array of lines and
are taken over by an instance (`One`), and the maps of the sets together are the
map of the controllers.

**The argument for runs.** `RunsAreBehaviours` needs of the files only that they hold
entries; then every invariant of the machine holds in a run (`Machine`).

- *Counting*: an operation is counted when the processor leaves IDLE for
  CHECKOPTYPE, its lookup in the controller's next tick. `ProcessorControllerAgreement`
  says that this tick is one in which the controller starts, and that no other is.
- *Files* (`OrderInv`): the shared variables `nextop` and `nextaddress` keep the last
  entry read by anybody, but a processor that is hungry either reads its own file or
  is at its end, and then sets them to the NOP itself; only a processor whose
  file is empty takes them as they are, in its first cycle, since `feof` has not been
  asked after a read yet. How far a file has been read, what is queued and what
  has been executed then stay in step, entry by entry.
- *Latency* (`LatencyInv`): a miss takes `BurstLen + 1` off the `Surplus` of its
  processor when it is counted, and each cycle of the wait gives one back.
  `Patient` says for each state how much may still be missing. A read goes out
  only in a cycle in which nobody bursts, and from then on no burst, of a cache
  or of the memory, is further on than the processor has waited (`Waited`): beats
  are counted in cycles in which a sender holds the bus, and a waiting
  processor ticks in each. The beat that the memory counts too many does not
  break this, since a memory burst begins a cycle before it has the bus
  (`MemoryBus`). With a burst of one or two cycles the memory could end one
  without having had the bus at all, and the invariant fails.
- *Busy cycles*: a request of maximum priority keeps the bus from the memory
  unless the bus is locked, and then the cycle is busy anyway.

**The argument for `MemTrace`.** `LogInv`: until the thread ends, the log is made of
blocks (`Blocks`), one for each header, which follow each other up to the cursor;
in each the slots taken are the first ones, and everything from the cursor on
is empty. This gives `ExpandStops`, and that a slot written by a reference never
looks like a header to the expansion. `TraceIsComplete` needs what the expansion
*writes*, which is defined by recursion over the log. It is found by induction,
without the library's induction theorems, whose operator parameters the provers cannot
instantiate: a set of numbers that is not empty has a least element
(`LeastElement`, from the library's `WFMin`), so a statement that fails for
some slot fails for a first one, or a last. In this way the recursions are shown to
define something at all (`TurnsExist`, `BlockExpands`), and what is written from a
slot on to grow by what is appended later (`ExpandedAppends`), whichever blocks
lie before.

**Only model-checked:** `InstructionsComplete` and `ModifiedIsWrittenBack`. The
first is liveness under fairness, out of the prover's reach; both hold for two
processors and not for three (`v_starve`, and the remark on `handleShareMe` above).
Every other property of a passing run is a theorem. No module has a RECURSIVE operator.

## What is not modelled

- **Values of memory**: the simulator has none; only states and messages.
- **Rates and averages** of the report: floating-point divisions of the counts
  that `Simulation` has; and the bus contention count, whose report is commented
  out.
- **Set-up**: option parsing, opening traces, the 256-entry loop over file names.
- **Dead code**: `invalidateCacheItem`, `deleteNode`, the `*WithParams`
  searches, `InvalidateWait_Action` and `_Transition`, `setInvalid`, the dirty
  bit.
- **The heap**: what a constructor leaves unset has the value of fresh memory;
  see *Initial state*.
- **`run_benchmarks.pl`**: starts simulations and collects text.
- **`t/`** and `DummyNode`: hand-run programs against earlier interfaces.
- **The Pin distribution.** All but about 4 400 of the repository's source lines
  are a vendored binary-instrumentation kit: headers, generated tables, a copy
  of STLport, examples. The program is not built from it. The one of its tools
  that makes this program's traces, `MemTrace/memtrace.cpp`, is modelled. The
  share of the *repository* that the modules cover is therefore small; of the
  simulator in `src/*.cpp` and `src/*.h` they cover every class but `DummyNode`.

## Plan

Done, in this order: bus vocabulary, memory, bus, controllers, processor,
machine; `Coherence` and the refinement; `CacheSet` and `CacheContents`; types
and agreement proved; addresses and all the sets (`Cache`); the main loop and the
statistics (`Simulation`); the trace generator (`MemTrace`); coherence, bursts,
awaited data and the refinements of `Coherence` and `CacheContents` proved; the
cache with its addresses, the runs with their statistics, and the trace
files proved.

Next, most important first:

1. **A bound on `memTracker`**: how many reads that somebody else has answered the
   memory can hold, as a function of the latency.
2. **From trace files to runs**: the files that `MemTrace` writes are files that
   `Simulation` reads, so that what a program executes is what is simulated.
