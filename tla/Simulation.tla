----------------------------- MODULE Simulation -----------------------------
(***************************************************************************)
(* A whole run of the program: main() of cache_coherence_sim.cpp feeds the *)
(* machine from one trace file per processor, ticks it until the cycle     *)
(* limit, and reports the statistics the components kept. System lets any  *)
(* entry arrive in any cycle; here each processor reads its own file in    *)
(* order, through two variables that all of the processors share.          *)
(***************************************************************************)
EXTENDS System

CONSTANTS
  TraceFiles,    \* TraceFiles[p]: the contents the trace file of p may have
  MaxTicks       \* option -m

(* A processor whose file is empty may be given any entry (see NextOp).    *)
ASSUME AnyEntryAssumption == Workload = [p \in Procs |-> Instructions \cup {NOP}]
ASSUME TraceFilesAssumption == TraceFiles \in [Procs -> SUBSET Seq(Instructions \cup {NOP})]
ASSUME MaxTicksAssumption == MaxTicks \in Nat \ {0}

VARIABLES
  trace,         \* the entries of each file
  position,      \* how many of them have been read
  lastRead,      \* the entry in nextop and nextaddress
  tickCount,
  numberMemoryOperations, hits, misses, totalWaitCycles,  \* per processor
  memSendCounts, busyCycles

fileVars == <<trace, position, lastRead, tickCount>>
procStats == <<numberMemoryOperations, hits, misses, totalWaitCycles>>
busStats == <<memSendCounts, busyCycles>>
simVars == <<vars, fileVars, procStats, busStats>>

Ops == {"LOAD", "STORE"}

(* nextop and nextaddress are not initialised, and totalWaitCycles is not  *)
(* either: the counters are in memory fresh from the system (see ProcInit),*)
(* the two locals hold anything.                                           *)
SimInit ==
  /\ Init
  /\ trace \in [Procs -> UNION {TraceFiles[p] : p \in Procs}]
  /\ \A p \in Procs : trace[p] \in TraceFiles[p]
  /\ position = [p \in Procs |-> 0]
  /\ lastRead \in Instructions \cup {NOP}
  /\ tickCount = 0
  /\ numberMemoryOperations = [p \in Procs |-> 0]
  /\ hits = [p \in Procs |-> [o \in Ops |-> 0]]
  /\ misses = [p \in Procs |-> [o \in Ops |-> 0]]
  /\ totalWaitCycles = [p \in Procs |-> 0]
  /\ memSendCounts = 0 /\ busyCycles = 0

-----------------------------------------------------------------------------
(* Reading the files. fscanf meets the end of a file when it reads the last*)
(* entry, or fails to read one from an empty file; eofChecker is set at the*)
(* start of the next cycle. A failed fscanf leaves both variables alone.   *)
Hungry(p) == instrQueue[p] = <<>>
AtEof(p) == tickCount > 0 /\ position[p] = Len(trace[p])
Reads(p) == Hungry(p) /\ position[p] < Len(trace[p])

(* nextop and nextaddress when processors NumProcs to p have been served:  *)
(* what the last of these that sets them leaves there.                     *)
Sets(q) == Reads(q) \/ (Hungry(q) /\ AtEof(q))
ReadBy(q) == IF Reads(q) THEN trace[q][position[q] + 1] ELSE NOP

Least(S) == CHOOSE q \in S : \A r \in S : q <= r

NextOp(p) ==
  LET setters == {q \in p .. NumProcs : Sets(q)}
  IN IF setters = {} THEN lastRead ELSE ReadBy(Least(setters))

(* Broken: the end of a file is not looked for.                            *)
ReadTracesPastEof ==
  /\ turn = FetchTurn /\ tickCount <= MaxTicks
  /\ LET readers(p) == {q \in p .. NumProcs : Reads(q)}
         left(p) == IF readers(p) = {} THEN lastRead ELSE ReadBy(Least(readers(p)))
     IN Insert([p \in Procs |-> left(p)]) /\ lastRead' = left(1)
  /\ position' = [p \in Procs |-> IF Reads(p) THEN position[p] + 1 ELSE position[p]]
  /\ tickCount' = tickCount + 1
  /\ UNCHANGED <<trace, procStats, busStats>>

(* Broken: a processor is given an entry whether it has one queued or not. *)
ReadTracesUnasked ==
  /\ turn = FetchTurn /\ tickCount <= MaxTicks
  /\ instrQueue' = [p \in Procs |->
       IF position[p] < Len(trace[p]) /\ trace[p][position[p] + 1] # NOP
       THEN Append(instrQueue[p], trace[p][position[p] + 1]) ELSE instrQueue[p]]
  /\ turn' = turn - 1
  /\ position' = [p \in Procs |->
       IF position[p] < Len(trace[p]) THEN position[p] + 1 ELSE position[p]]
  /\ tickCount' = tickCount + 1
  /\ UNCHANGED <<ctl, pending, inst, pState, memVars, busVars, trace, lastRead,
                 procStats, busStats>>

ReadTraces ==
  /\ turn = FetchTurn /\ tickCount <= MaxTicks
  /\ Insert([p \in Procs |-> IF Hungry(p) THEN NextOp(p) ELSE NOP])
  /\ lastRead' = NextOp(1)
  /\ position' = [p \in Procs |-> IF Reads(p) THEN position[p] + 1 ELSE position[p]]
  /\ tickCount' = tickCount + 1
  /\ UNCHANGED <<trace, procStats, busStats>>

(* The test that ends the loop counts once more.                           *)
LeaveLoop ==
  /\ turn = FetchTurn /\ tickCount = MaxTicks + 1
  /\ tickCount' = tickCount + 1
  /\ UNCHANGED <<vars, trace, position, lastRead, procStats, busStats>>

-----------------------------------------------------------------------------
(* The cycle, with what its parts count.                                   *)

(* CheckCacheLd_Transition and CheckCacheSt_Transition.                    *)
Checked(p, o) == IF Start(p, o) THEN 1 ELSE 0

LooksUpHit(p) == pending[p] /\ Contains(ctl[p], Line(p))

(* Broken: what CHECK_CACHE_ST finds is counted as a miss in any case.     *)
CountLookupMissTwice(p) ==
  /\ hits' = [hits EXCEPT ![p] = [o \in Ops |->
       @[o] + IF LooksUpHit(p) THEN Checked(p, o) ELSE 0]]
  /\ misses' = [misses EXCEPT ![p] = [o \in Ops |->
       @[o] + IF LooksUpHit(p) /\ o = "LOAD" THEN 0 ELSE Checked(p, o)]]

CountLookup(p) ==
  /\ hits' = [hits EXCEPT ![p] = [o \in Ops |->
       @[o] + IF LooksUpHit(p) THEN Checked(p, o) ELSE 0]]
  /\ misses' = [misses EXCEPT ![p] = [o \in Ops |->
       @[o] + IF LooksUpHit(p) THEN 0 ELSE Checked(p, o)]]

(* CheckOpType_Action and MemoryReturnWait_Action.                         *)
CountState(p) ==
  /\ numberMemoryOperations' =
       [numberMemoryOperations EXCEPT ![p] = @ + IF pState'[p] = "CHECKOPTYPE" THEN 1 ELSE 0]
  /\ totalWaitCycles' =
       [totalWaitCycles EXCEPT ![p] = @ + IF pState'[p] = "MEMORYRETURNWAIT" THEN 1 ELSE 0]

SimTickProcessor(p) ==
  /\ TickProcessor(p)
  /\ CountLookup(p) /\ CountState(p)
  /\ UNCHANGED <<fileVars, busStats>>

SimTickMemory == TickMemory /\ UNCHANGED <<fileVars, procStats, busStats>>

(* Every transaction the memory initiates is counted, NULL_BURSTs too. A   *)
(* cycle that services a node for its maximum priority is not a busy one.  *)
MemorySends == ServicedNode = MemoryAddress /\ MemRequestsTransaction

(* Broken: the cycles of a locked bus are not counted.                     *)
BusyUnlocked == ~nodeLocked /\ MaxRequesters = {} /\ LockRequesters \cup Transmitters # {}

Busy == nodeLocked \/ (MaxRequesters = {} /\ LockRequesters \cup Transmitters # {})

SimTickInterconnect ==
  /\ TickInterconnect
  /\ memSendCounts' = memSendCounts + IF MemorySends THEN 1 ELSE 0
  /\ busyCycles' = busyCycles + IF Busy THEN 1 ELSE 0
  /\ UNCHANGED <<fileVars, procStats>>

SimNext ==
  \/ ReadTraces
  \/ \E p \in Procs : SimTickProcessor(p)
  \/ SimTickMemory
  \/ SimTickInterconnect
  \/ LeaveLoop

SimSpec == SimInit /\ [][SimNext]_simVars

-----------------------------------------------------------------------------
(* Properties.                                                             *)

(* A run is a behaviour of the machine (System::Tick in the loop of main): *)
(* what System's properties say of every machine holds of it.              *)
ImplementsSystem == Spec

(* Each processor executes the memory operations of its own file, each once*)
(* and in order (cache_coherence_sim.cpp:154-180), although all of the     *)
(* files are read through the same two variables; only a processor whose   *)
(* file is empty executes something else, once.                            *)
Given(p) == {i \in 1 .. position[p] : trace[p][i] # NOP}
Before(p, i) == Cardinality({j \in Given(p) : j < i})

TraceInOrder == \A p \in Procs :
  IF trace[p] = <<>>
  THEN numberMemoryOperations[p] + Len(instrQueue[p]) <= 1
  ELSE LET done == numberMemoryOperations[p] IN
    /\ done + Len(instrQueue[p]) = Cardinality(Given(p))
    /\ \A i \in Given(p) :
         /\ Before(p, i) >= done => instrQueue[p][Before(p, i) - done + 1] = trace[p][i]
         /\ Before(p, i) = done - 1 /\ pState[p] # "IDLE" => inst[p] = trace[p][i]

(* Every memory operation is counted as one hit or one miss                *)
(* (MESI_Controller.cpp:113-117, 137-165), the one just handed over in the *)
(* next cycle.                                                             *)
Total(p) == hits[p]["LOAD"] + hits[p]["STORE"] + misses[p]["LOAD"] + misses[p]["STORE"]

EveryOperationCountedOnce == \A p \in Procs :
  Total(p) = numberMemoryOperations[p] - IF pState[p] = "CHECKOPTYPE" THEN 1 ELSE 0

(* The reported latency accounts for the transfers (Processor.cpp:42-46):  *)
(* a hit waits a cycle, and a miss another one for its read to go out and  *)
(* then the cycles of a whole burst, whoever answers it and although the   *)
(* memory may be a beat short (Memory.cpp:71).                             *)
Misses(p) == misses[p]["LOAD"] + misses[p]["STORE"]

MissesWaitForTheBurst == \A p \in Procs : pState[p] = "IDLE" =>
  totalWaitCycles[p] >= numberMemoryOperations[p] + Misses(p) * (BurstLen + 1)

(* A cycle in which the memory sends is a busy one (Memory.cpp:38,         *)
(* Interconnect.cpp:5-11, 43-50): the memory never has maximum priority.   *)
MemorySendsWhenBusy == memSendCounts <= busyCycles

=============================================================================
