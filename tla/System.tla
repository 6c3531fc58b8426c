------------------------------- MODULE System -------------------------------
(***************************************************************************)
(* The simulated machine (System.cpp) driven by the main loop of           *)
(* cache_coherence_sim.cpp. A cycle is: feed every processor that has no   *)
(* queued instruction; tick the processors from the last to the first; tick*)
(* the memory; tick the bus. `turn' is the next of these to run.           *)
(***************************************************************************)
EXTENDS Processor, Memory, Interconnect

CONSTANT Workload   \* the entries the trace file of each processor may hold

(* A trace entry that is neither 'r' nor 'w', and the end of a trace, give *)
(* a NOP, which processInstruction drops.                                  *)
NOP == [op |-> "NOP", line |-> NoAddr]

ASSUME WorkloadAssumption ==
  Workload \in [Procs -> (SUBSET (Instructions \cup {NOP})) \ {{}}]

VARIABLE turn

vars == <<procVars, memVars, busVars, turn>>

(* The turns count down: the trace reader, processors NumProcs to 1, the   *)
(* memory, the bus.                                                        *)
FetchTurn == NumProcs + 1
MemoryTurn == 0
BusTurn == -1

Init ==
  /\ ProcInit /\ MemInit /\ BusInit
  /\ turn = FetchTurn

(* One trace entry for every processor whose queue is empty.               *)
Insert(entry) ==
  /\ instrQueue' = [p \in Procs |->
       IF instrQueue[p] = <<>> /\ entry[p] # NOP THEN <<entry[p]>> ELSE instrQueue[p]]
  /\ turn' = turn - 1
  /\ UNCHANGED <<ctl, pending, inst, pState, memVars, busVars>>

InsertInstructions ==
  /\ turn = FetchTurn
  /\ \E entry \in [Procs -> Instructions \cup {NOP}] :
       (\A p \in Procs : entry[p] \in Workload[p]) /\ Insert(entry)

TickProcessor(p) ==
  /\ turn = p
  /\ ProcessorTick(p)
  /\ turn' = turn - 1
  /\ UNCHANGED <<memVars, busVars>>

TickMemory ==
  /\ turn = MemoryTurn
  /\ MemTick(MemoryAddress \in nodeIsLocked)
  /\ turn' = turn - 1
  /\ UNCHANGED <<procVars, busVars>>

-----------------------------------------------------------------------------
(* The bus cycle. What each node asks of the bus:                          *)
MaxRequesters == {p \in Procs : RequestsMaxPriority(ctl[p])}

LockRequesters ==
  {p \in Procs : RequestsLock(ctl[p])} \cup (IF MemRequestsLock THEN {MemoryAddress} ELSE {})

Transmitters ==
  {p \in Procs : RequestsTransaction(ctl[p])}
    \cup (IF MemRequestsTransaction THEN {MemoryAddress} ELSE {})

ServicedNode == Serviced(MaxRequesters, LockRequesters \cup Transmitters)

(* The serviced node has the lock, or has lost it, before it transmits.    *)
Locked(n) == n \in LockRequesters

(* Every controller but the source takes a transaction sent to it or to    *)
(* all of them; the handlers of different nodes do not affect each other.  *)
Addressed(n, m) == n # m.source /\ m.target \in {n, BROADCAST_ADX}

AfterBroadcast(m) == [p \in Procs |->
  IF Addressed(p, m) THEN Accept(ctl[p], inst[p].line, m) ELSE ctl[p]]

QuietCycle ==
  /\ ServicedNode \notin Transmitters
  /\ UNCHANGED <<ctl, memVars>>

ProcessorTransmits(p) ==
  /\ ServicedNode = p /\ p \in Transmitters
  /\ LET q == Issued(ctl[p], Locked(p))
         m == [command |-> q.command, payload |-> q.payload,
               source |-> p, target |-> BROADCAST_ADX]
     IN /\ ctl' = [AfterBroadcast(m) EXCEPT ![p] = AfterIssue(ctl[p], Locked(p))]
        /\ MemAccept(m)

MemoryTransmits ==
  /\ ServicedNode = MemoryAddress /\ MemRequestsTransaction
  /\ ctl' = AfterBroadcast(Head(memQueue))
  /\ MemInitiate

TickInterconnect ==
  /\ turn = BusTurn
  /\ QuietCycle \/ MemoryTransmits \/ \E p \in Procs : ProcessorTransmits(p)
  /\ BusTick(MaxRequesters, LockRequesters, Transmitters)
  /\ turn' = FetchTurn
  /\ UNCHANGED <<pending, inst, pState, instrQueue>>

-----------------------------------------------------------------------------
Next ==
  \/ InsertInstructions
  \/ \E p \in Procs : TickProcessor(p)
  \/ TickMemory
  \/ TickInterconnect

Spec == Init /\ [][Next]_vars

(* The loop calls Tick until the cycle limit is reached.                   *)
FairSpec == Spec /\ WF_vars(Next)

TypeOK ==
  /\ ProcTypeOK /\ MemTypeOK /\ BusTypeOK
  /\ turn \in BusTurn .. FetchTurn

-----------------------------------------------------------------------------
(* Properties.                                                             *)

(* The caches follow a coherence protocol: no step of the machine gives a  *)
(* line an owner while another cache has a copy of it, or a reader while   *)
(* another cache owns it (UpdateCacheLoad_Action, UpdateCacheStore_Action).*)
Protocol == INSTANCE Coherence WITH caches <- [p \in Procs |-> ctl[p].cache]

ImplementsCoherence == Protocol!Spec
SingleWriter == Protocol!SingleWriter

(* A controller has at most one read under way, queued or dispatched, and  *)
(* only while its machine waits for that read (MESI_Controller.cpp:123-129,*)
(* 213-224): no answer can be taken for the answer to a later instruction's*)
(* read, nor a flag survive into it.                                       *)
ReadInProgress(c) == c.busReqQueue # <<>> \/ c.awaitingBusRead

OneReadPerInstruction == \A p \in Procs :
  /\ ctl[p].awaitingDataLocal # NoAddr => ctl[p].awaitingDataLocal = Line(p)
  /\ ctl[p].awaitingDataLocal # NoAddr <=> ReadInProgress(ctl[p])
  /\ ctl[p].awaitingBusRead => ctl[p].busReqQueue = <<>>
  /\ Len(ctl[p].busReqQueue) <= 1
  /\ ReadInProgress(ctl[p]) => ctl[p].state \in {"ISSUE_READ", "ISSUE_READX"}

(* Data a controller waits for is on its way: the memory still has the read*)
(* or its answer, or another cache has the line queued for the bus. A      *)
(* cancelled memory operation (Memory.cpp:15-21) or a cancelled reply      *)
(* (CacheController.cpp:180-247) never was the last one.                   *)
InQueue(q, code, x) == \E i \in DOMAIN q : q[i].command = code /\ q[i].payload = x

AwaitedDataIsComing == \A p \in Procs : ctl[p].awaitingBusRead =>
  \/ \E i \in DOMAIN memTracker :
       memTracker[i].address = Line(p) /\ memTracker[i].returnAddress = p
  \/ memBursting /\ burstRequest.payload = Line(p) /\ burstRequest.target = p
  \/ \E i \in DOMAIN memQueue :
       memQueue[i].command = "DATA_RETURN_MEMORY" /\ memQueue[i].target = p
  \/ \E q \in Procs \ {p}, code \in DataCommands :
       InQueue(ctl[q].maxPriorityQueue, code, Line(p))

(* A burst that has begun keeps the bus, and what it sends stays the head  *)
(* of the queue (CacheController.cpp:58-77, Interconnect.cpp:5-11).        *)
BurstUnbroken == \A p \in Procs : ctl[p].burstCounter > 0 =>
  /\ nodeLocked /\ lockedAddress = p
  /\ RequestsTransaction(ctl[p]) /\ NextToIssue(ctl[p]).command \in DataCommands

(* The memory's burst counter stays below BurstLen while it bursts, which  *)
(* is what lets the burst end (Memory.cpp:52-72).                          *)
BurstWithinLength == memBursting => memBurstCounter < BurstLen

(* The ages of tracked reads never increase along the list, so the oldest  *)
(* read getOldestOp picks is the first that arrived (Memory.cpp:107-118).  *)
ReadsInOrder == \A i, j \in DOMAIN memTracker :
  i < j => memTracker[i].age >= memTracker[j].age

(* The assertions of the controllers: a miss that is filled got its data   *)
(* (MESI_Controller.cpp:242), a store finds its line in a state of the     *)
(* protocol (MI_Controller.cpp:145, MSI_Controller.cpp:152-153), and no    *)
(* BUSREAD is on an MI bus (MI_Controller.cpp:321-322).                    *)
AssertionsHold == \A p \in Procs :
  /\ ctl[p].state = "ISSUE_READ" /\ ~ReadOutstanding(ctl[p])
       /\ ctl[p].saw \cap {"BUSREADX", "INVALIDATE"} = {} /\ ~Contains(ctl[p], Line(p))
     => ctl[p].got # {}
  /\ ControllerType = "MI" =>
       /\ \A x \in Addrs : ctl[p].cache[x] \in {"M", "I"}
       /\ \A i \in DOMAIN ctl[p].busReqQueue : ctl[p].busReqQueue[i].command # "BUSREAD"
  /\ ControllerType = "MSI" => \A x \in Addrs : ctl[p].cache[x] # "E"

(* A Modified copy, the only one with the line's data, is lowered or given *)
(* up only with a BUSWRITE of it queued (MESI_Controller.cpp:391-398,      *)
(* 411-424). handleShareMe (:369-375) lowers a copy and queues nothing, so *)
(* the SHAREME a waiting controller sends for a read it saw must arrive    *)
(* before anybody stores to the line. With two processors its priority     *)
(* sees to that; with three, transfers between the others can delay it.    *)
BusWriteQueued(c, x) == InQueue(c.maxPriorityQueue, "BUSWRITE", x)

ModifiedIsWrittenBack ==
  [][\A p \in Procs, x \in Addrs :
       ctl[p].cache[x] = "M" /\ ctl'[p].cache[x] # "M" => BusWriteQueued(ctl'[p], x)]_vars

(* Every memory instruction completes: the processor's wait in             *)
(* MEMORYRETURNWAIT ends (Processor.cpp:66-73).                            *)
InstructionsComplete == \A p \in Procs : pending[p] ~> ~pending[p]

-----------------------------------------------------------------------------
(* What comments of the program say and the program does not do.           *)

(* MESI_Controller.cpp:248, `Evicted line is modified, so time to write    *)
(* back out': a Modified line that leaves a cache is queued as a BUSWRITE. *)
EvictionWritesBack ==
  [][\A p \in Procs, x \in Addrs :
       ctl[p].cache[x] = "M" /\ ctl'[p].cache[x] = "I" => BusWriteQueued(ctl'[p], x)]_vars

(* MESI_Controller.cpp:474-478, `INVALIDATE only ever is issued when a     *)
(* STORE is performed to an address that is in the SHARED state (which by  *)
(* definition means no modified copies exist)'.                            *)
InvalidateMeetsNoModified ==
  [][\A p, q \in Procs, x \in Addrs :
       p # q /\ ctl[q].cache[x] = "M" =>
         ~( /\ InQueue(ctl[p].maxPriorityQueue, "INVALIDATE", x)
            /\ ~InQueue(ctl'[p].maxPriorityQueue, "INVALIDATE", x) )]_vars

(* MESI_Controller.cpp:305-306, `the cache line is being updated to        *)
(* MODIFIED': when a store is done, its line is Modified in the cache or on*)
(* its way to memory.                                                      *)
StoreTakesEffect ==
  [][\A p \in Procs : pending[p] /\ ~pending'[p] /\ Op(p) = "STORE" =>
       ctl[p].cache[Line(p)] = "M" \/ BusWriteQueued(ctl[p], Line(p))]_vars

(* cache_coherence_sim.cpp:33, `Number of cycles a memory bus transfer     *)
(* takes': every burst of the memory starts counting at 0.                 *)
MemoryBurstsAreFullLength == [][~memBursting /\ memBursting' => memBurstCounter' = 0]_vars

=============================================================================
