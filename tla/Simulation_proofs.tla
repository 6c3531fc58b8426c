-------------------------- MODULE Simulation_proofs --------------------------
(***************************************************************************)
(* The theorems about a whole run: it is a behaviour of the machine, each  *)
(* processor executes its own file once and in order, and the statistics   *)
(* the report prints agree with each other. They hold for every number of  *)
(* processors, every contents of the trace files and every cycle limit.    *)
(***************************************************************************)
EXTENDS Simulation, SystemCoherence_proofs, FiniteSetTheorems

-----------------------------------------------------------------------------
(* READING THE FILES.                                                      *)

FilesTyped ==
  /\ trace \in [Procs -> Seq(Instructions \cup {NOP})]
  /\ position \in [Procs -> Nat]
  /\ \A p \in Procs : position[p] <= Len(trace[p])
  /\ lastRead \in Instructions \cup {NOP}
  /\ tickCount \in Nat

LEMMA LeastFound ==
  ASSUME NEW S \in SUBSET Procs, S # {}
  PROVE  Least(S) \in S /\ \A q \in S : Least(S) <= q
<1>1. S \in SUBSET Nat
  BY NumProcsAssumption DEF Procs
<1>2. \E q \in S : \A r \in S : q <= r
  BY <1>1, LeastNat
<1> QED BY <1>2 DEF Least

(* The entry that is read next exists as long as the file has one.         *)
LEMMA EntryRead ==
  ASSUME FilesTyped, NEW p \in Procs, Reads(p)
  PROVE  /\ position[p] + 1 \in 1 .. Len(trace[p])
         /\ trace[p][position[p] + 1] \in Instructions \cup {NOP}
<1>1. trace[p] \in Seq(Instructions \cup {NOP}) /\ position[p] \in Nat
  BY DEF FilesTyped
<1>2. Len(trace[p]) \in Nat /\ position[p] < Len(trace[p])
  BY <1>1, LenProperties DEF Reads
<1>3. position[p] + 1 \in 1 .. Len(trace[p])
  BY <1>1, <1>2
<1> QED BY <1>1, <1>3, ElementOfSeq

(* What the two shared variables hold is an entry of some file.            *)
LEMMA NextOpTyped ==
  ASSUME FilesTyped, NEW p \in Procs
  PROVE  NextOp(p) \in Instructions \cup {NOP}
<1> DEFINE setters == {q \in p .. NumProcs : Sets(q)}
<1>1. setters \in SUBSET Procs
  BY NumProcsAssumption DEF Procs
<1>2. CASE setters = {}
  BY <1>2 DEF NextOp, FilesTyped
<1>3. CASE setters # {}
  <2>1. Least(setters) \in Procs
    BY <1>1, <1>3, LeastFound
  <2>2. ReadBy(Least(setters)) \in Instructions \cup {NOP}
    BY <2>1, EntryRead DEF ReadBy
  <2> QED BY <1>3, <2>2 DEF NextOp
<1> QED BY <1>2, <1>3

(* A processor that reads an entry is given that entry, and one that has   *)
(* come to the end of its file is given a NOP: nobody reads in between.    *)
LEMMA NextOpIsOwn ==
  ASSUME NEW p \in Procs, Sets(p)
  PROVE  NextOp(p) = ReadBy(p)
<1> DEFINE setters == {q \in p .. NumProcs : Sets(q)}
<1>1. setters \in SUBSET Procs /\ p \in setters
  BY NumProcsAssumption DEF Procs
<1>2. Least(setters) \in setters /\ Least(setters) <= p
  BY <1>1, LeastFound
<1>3. Least(setters) = p
  BY <1>1, <1>2, NumProcsAssumption DEF Procs
<1> QED BY <1>1, <1>3 DEF NextOp

EntryFor(p) == IF Hungry(p) THEN NextOp(p) ELSE NOP

LEMMA ReadTracesInserts ==
  ASSUME FilesTyped, ReadTraces
  PROVE  InsertInstructions
<1> DEFINE entry == [p \in Procs |-> IF Hungry(p) THEN NextOp(p) ELSE NOP]
<1>1. entry \in [Procs -> Instructions \cup {NOP}]
  BY NextOpTyped
<1>2. turn = FetchTurn /\ Insert(entry)
  BY DEF ReadTraces
<1>3. \A p \in Procs : entry[p] \in Workload[p]
  BY <1>1, AnyEntryAssumption
<1> QED BY <1>1, <1>2, <1>3 DEF InsertInstructions

LEMMA SimStepIsStep ==
  ASSUME FilesTyped, [SimNext]_simVars
  PROVE  [Next]_vars
<1>1. CASE ReadTraces
  BY <1>1, ReadTracesInserts DEF Next
<1>2. CASE \E p \in Procs : SimTickProcessor(p)
  BY <1>2 DEF SimTickProcessor, Next
<1>3. CASE SimTickMemory
  BY <1>3 DEF SimTickMemory, Next
<1>4. CASE SimTickInterconnect
  BY <1>4 DEF SimTickInterconnect, Next
<1>5. CASE LeaveLoop
  BY <1>5 DEF LeaveLoop
<1>6. CASE UNCHANGED simVars
  BY <1>6 DEF simVars
<1> QED BY <1>1, <1>2, <1>3, <1>4, <1>5, <1>6 DEF SimNext

LEMMA InitFiles == SimInit => FilesTyped
<1> SUFFICES ASSUME SimInit PROVE FilesTyped
  OBVIOUS
<1>1. TraceFiles \in [Procs -> SUBSET Seq(Instructions \cup {NOP})]
  BY TraceFilesAssumption
<1>2. \A p \in Procs : trace[p] \in Seq(Instructions \cup {NOP})
  BY <1>1 DEF SimInit
<1>3. trace \in [Procs -> Seq(Instructions \cup {NOP})]
  BY <1>2 DEF SimInit
<1>4. \A p \in Procs : position[p] = 0 /\ Len(trace[p]) \in Nat
  BY <1>2, LenProperties DEF SimInit
<1> QED BY <1>3, <1>4 DEF SimInit, FilesTyped

LEMMA NextKeepsFiles == FilesTyped /\ [SimNext]_simVars => FilesTyped'
<1> SUFFICES ASSUME FilesTyped, [SimNext]_simVars PROVE FilesTyped'
  OBVIOUS
<1>1. CASE ReadTraces
  <2>1. /\ trace' = trace /\ lastRead' = NextOp(1) /\ tickCount' = tickCount + 1
        /\ position' = [p \in Procs |-> IF Reads(p) THEN position[p] + 1 ELSE position[p]]
    BY <1>1 DEF ReadTraces
  <2>2. 1 \in Procs
    BY NumProcsAssumption DEF Procs
  <2>3. ASSUME NEW p \in Procs
        PROVE  position'[p] \in Nat /\ position'[p] <= Len(trace[p])
    <3>1. position[p] \in Nat /\ position[p] <= Len(trace[p])
      BY DEF FilesTyped
    <3>2. CASE Reads(p)
      BY <2>1, <3>1, <3>2, EntryRead
    <3>3. CASE ~Reads(p)
      BY <2>1, <3>1, <3>3
    <3> QED BY <3>2, <3>3
  <2>4. position' \in [Procs -> Nat]
    BY <2>1, <2>3
  <2>5. lastRead' \in Instructions \cup {NOP}
    BY <2>1, <2>2, NextOpTyped
  <2> QED BY <2>1, <2>3, <2>4, <2>5 DEF FilesTyped
<1>2. CASE LeaveLoop
  BY <1>2 DEF LeaveLoop, FilesTyped
<1>3. CASE UNCHANGED fileVars
  BY <1>3 DEF fileVars, FilesTyped
<1>4. SimTickMemory \/ SimTickInterconnect \/ (\E p \in Procs : SimTickProcessor(p))
        \/ UNCHANGED simVars => UNCHANGED fileVars
  BY DEF SimTickMemory, SimTickInterconnect, SimTickProcessor, simVars
<1> QED BY <1>1, <1>2, <1>3, <1>4 DEF SimNext

(* A run of the program is a behaviour of the machine, whatever the files  *)
(* hold: the loop of main (cache_coherence_sim.cpp:143-186) inserts at most*)
(* one entry per hungry processor and then ticks the system. What is proved*)
(* of the machine holds of every run.                                      *)
THEOREM RunsAreBehaviours == SimSpec => ImplementsSystem
<1>1. SimInit => Init
  BY DEF SimInit
<1>2. FilesTyped /\ [SimNext]_simVars => [Next]_vars
  BY SimStepIsStep
<1> QED BY <1>1, <1>2, InitFiles, NextKeepsFiles, PTL DEF SimSpec, Spec, ImplementsSystem

Machine == IInv /\ CoherenceInv /\ FilesTyped

LEMMA RunsKeepMachine == SimSpec => []Machine
<1>1. SimSpec => [](IInv /\ CoherenceInv)
  BY RunsAreBehaviours, InitIInv, NextKeepsIInv, InitCoherent, NextKeepsCoherence, PTL
     DEF Spec, ImplementsSystem
<1>2. SimSpec => []FilesTyped
  BY InitFiles, NextKeepsFiles, PTL DEF SimSpec
<1>3. Machine <=> IInv /\ CoherenceInv /\ FilesTyped
  BY DEF Machine
<1> QED BY <1>1, <1>2, <1>3, PTL

-----------------------------------------------------------------------------
(* WHAT THE PARTS COUNT.                                                   *)

StatsTyped ==
  /\ numberMemoryOperations \in [Procs -> Nat] /\ totalWaitCycles \in [Procs -> Nat]
  /\ hits \in [Procs -> [Ops -> Nat]] /\ misses \in [Procs -> [Ops -> Nat]]
  /\ memSendCounts \in Nat /\ busyCycles \in Nat

(* A step of a processor's machine: it takes an instruction from its queue *)
(* when it enters CHECKOPTYPE, and waits in MEMORYRETURNWAIT for the one it*)
(* has.                                                                    *)
LEMMA ProcessorSteps ==
  ASSUME IInv, NEW p \in Procs, ProcessorTick(p)
  PROVE  /\ \A q \in Procs \ {p} : /\ pState'[q] = pState[q] /\ instrQueue'[q] = instrQueue[q]
                                   /\ inst'[q] = inst[q] /\ pending'[q] = pending[q]
         /\ pState'[p] = NextProcessorState(p)
         /\ pState'[p] = "CHECKOPTYPE" =>
              /\ instrQueue[p] # <<>> /\ instrQueue'[p] = Tail(instrQueue[p])
              /\ inst'[p] = Head(instrQueue[p])
         /\ pState'[p] # "CHECKOPTYPE" => instrQueue'[p] = instrQueue[p]
         /\ pState'[p] = "MEMORYRETURNWAIT" => inst'[p] = inst[p] /\ pState[p] # "IDLE"
<1> DEFINE next == NextProcessorState(p)
<1>1. /\ pState \in [Procs -> {"IDLE", "CHECKOPTYPE", "MEMORYRETURNWAIT"}]
      /\ DOMAIN pending = Procs /\ DOMAIN inst = Procs /\ DOMAIN instrQueue = Procs
  BY DEF IInv, TypeOK, ProcTypeOK
<1>2. /\ pState' = [pState EXCEPT ![p] = next]
      /\ pending' = [pending EXCEPT ![p] = IF next = "CHECKOPTYPE" THEN TRUE ELSE StillPending(p)]
      /\ inst' = [inst EXCEPT ![p] = CASE next = "IDLE" -> NoInst
                                       [] next = "CHECKOPTYPE" -> Head(instrQueue[p])
                                       [] next = "MEMORYRETURNWAIT" -> inst[p]]
      /\ instrQueue' = [instrQueue EXCEPT ![p] = IF next = "CHECKOPTYPE"
                                                 THEN Tail(instrQueue[p]) ELSE instrQueue[p]]
  BY <1>1 DEF ProcessorTick, ProcessorTransition
<1>3. /\ next \in {"IDLE", "CHECKOPTYPE", "MEMORYRETURNWAIT"}
      /\ next = "CHECKOPTYPE" => instrQueue[p] # <<>>
      /\ next = "MEMORYRETURNWAIT" => pState[p] # "IDLE"
  BY <1>1 DEF NextProcessorState
<1> HIDE DEF next
<1>4. \A q \in Procs \ {p} : /\ pState'[q] = pState[q] /\ instrQueue'[q] = instrQueue[q]
                             /\ inst'[q] = inst[q] /\ pending'[q] = pending[q]
  BY <1>1, <1>2
<1>5. pState'[p] = next
  BY <1>1, <1>2
<1>6. instrQueue'[p] = IF next = "CHECKOPTYPE" THEN Tail(instrQueue[p]) ELSE instrQueue[p]
  BY <1>1, <1>2
<1>7. next = "CHECKOPTYPE" => inst'[p] = Head(instrQueue[p])
  BY <1>1, <1>2
<1>8. next = "MEMORYRETURNWAIT" => inst'[p] = inst[p]
  BY <1>1, <1>2
<1> QED BY <1>3, <1>4, <1>5, <1>6, <1>7, <1>8 DEF next

(* A controller looks the cache up in the tick after the hand-over and in  *)
(* no other.                                                               *)
LEMMA LookedUp ==
  ASSUME IInv, NEW p \in Procs, NEW o \in Ops
  PROVE  /\ Start(p, o) <=> pState[p] = "CHECKOPTYPE" /\ Op(p) = o
         /\ pState[p] = "CHECKOPTYPE" => pending[p] /\ Op(p) \in Ops
<1>1. /\ pState[p] \in {"IDLE", "CHECKOPTYPE", "MEMORYRETURNWAIT"}
      /\ Agrees(p)
  BY DEF IInv, TypeOK, ProcTypeOK, ProcessorControllerAgreement, Agrees
<1>2. inst[p] \in Instructions => Op(p) \in Ops
  BY DEF Instructions, Op, Ops
<1> QED BY <1>1, <1>2 DEF Agrees, Start

LEMMA Counted ==
  ASSUME IInv, StatsTyped, NEW p \in Procs, CountLookup(p), CountState(p)
  PROVE  /\ numberMemoryOperations' \in [Procs -> Nat] /\ totalWaitCycles' \in [Procs -> Nat]
         /\ hits' \in [Procs -> [Ops -> Nat]] /\ misses' \in [Procs -> [Ops -> Nat]]
         /\ \A q \in Procs \ {p} :
              /\ numberMemoryOperations'[q] = numberMemoryOperations[q]
              /\ totalWaitCycles'[q] = totalWaitCycles[q]
              /\ hits'[q] = hits[q] /\ misses'[q] = misses[q]
         /\ numberMemoryOperations'[p] =
              numberMemoryOperations[p] + IF pState'[p] = "CHECKOPTYPE" THEN 1 ELSE 0
         /\ totalWaitCycles'[p] =
              totalWaitCycles[p] + IF pState'[p] = "MEMORYRETURNWAIT" THEN 1 ELSE 0
         /\ Total(p)' = Total(p) + IF pState[p] = "CHECKOPTYPE" THEN 1 ELSE 0
         /\ Misses(p)' = Misses(p) + IF pState[p] = "CHECKOPTYPE" /\ ~Contains(ctl[p], Line(p))
                                     THEN 1 ELSE 0
<1>1. /\ numberMemoryOperations \in [Procs -> Nat] /\ totalWaitCycles \in [Procs -> Nat]
      /\ hits \in [Procs -> [Ops -> Nat]] /\ misses \in [Procs -> [Ops -> Nat]]
  BY DEF StatsTyped
<1> DEFINE hit(o)  == IF LooksUpHit(p) THEN Checked(p, o) ELSE 0
           miss(o) == IF LooksUpHit(p) THEN 0 ELSE Checked(p, o)
<1>2. /\ hits' = [hits EXCEPT ![p] = [o \in Ops |-> hits[p][o] + hit(o)]]
      /\ misses' = [misses EXCEPT ![p] = [o \in Ops |-> misses[p][o] + miss(o)]]
  BY <1>1 DEF CountLookup
<1>3. \A o \in Ops : hit(o) \in {0, 1} /\ miss(o) \in {0, 1}
  BY DEF Checked
<1>4. /\ hit("LOAD") + hit("STORE") + miss("LOAD") + miss("STORE")
           = IF pState[p] = "CHECKOPTYPE" THEN 1 ELSE 0
      /\ miss("LOAD") + miss("STORE")
           = IF pState[p] = "CHECKOPTYPE" /\ ~Contains(ctl[p], Line(p)) THEN 1 ELSE 0
  <2>1. "LOAD" \in Ops /\ "STORE" \in Ops
    BY DEF Ops
  <2>2. /\ Start(p, "LOAD") <=> pState[p] = "CHECKOPTYPE" /\ Op(p) = "LOAD"
        /\ Start(p, "STORE") <=> pState[p] = "CHECKOPTYPE" /\ Op(p) = "STORE"
        /\ pState[p] = "CHECKOPTYPE" => pending[p] /\ Op(p) \in {"LOAD", "STORE"}
    BY <2>1, LookedUp DEF Ops
  <2> QED BY <2>2 DEF Checked, LooksUpHit
<1> HIDE DEF hit, miss
<1>5. /\ hits' \in [Procs -> [Ops -> Nat]] /\ misses' \in [Procs -> [Ops -> Nat]]
  <2>1. /\ [o \in Ops |-> hits[p][o] + hit(o)] \in [Ops -> Nat]
        /\ [o \in Ops |-> misses[p][o] + miss(o)] \in [Ops -> Nat]
    <3>1. \A o \in Ops : hits[p][o] \in Nat /\ misses[p][o] \in Nat
      BY <1>1
    <3>2. \A o \in Ops : hits[p][o] + hit(o) \in Nat /\ misses[p][o] + miss(o) \in Nat
      BY <1>3, <3>1
    <3> QED BY <3>2
  <2> QED BY <1>1, <1>2, <2>1
<1>6. \A o \in Ops : /\ hits'[p][o] = hits[p][o] + hit(o) /\ misses'[p][o] = misses[p][o] + miss(o)
                     /\ hits[p][o] \in Nat /\ misses[p][o] \in Nat
  BY <1>1, <1>2
<1>7. /\ hits'[p]["LOAD"] = hits[p]["LOAD"] + hit("LOAD")
      /\ hits'[p]["STORE"] = hits[p]["STORE"] + hit("STORE")
      /\ misses'[p]["LOAD"] = misses[p]["LOAD"] + miss("LOAD")
      /\ misses'[p]["STORE"] = misses[p]["STORE"] + miss("STORE")
      /\ {hits[p]["LOAD"], hits[p]["STORE"], misses[p]["LOAD"], misses[p]["STORE"]} \subseteq Nat
      /\ {hit("LOAD"), hit("STORE"), miss("LOAD"), miss("STORE")} \subseteq {0, 1}
  BY <1>3, <1>6 DEF Ops
<1>8. /\ Total(p)' = Total(p) + IF pState[p] = "CHECKOPTYPE" THEN 1 ELSE 0
      /\ Misses(p)' = Misses(p) + IF pState[p] = "CHECKOPTYPE" /\ ~Contains(ctl[p], Line(p))
                                  THEN 1 ELSE 0
  <2>1. /\ Total(p)' = Total(p) + (hit("LOAD") + hit("STORE") + miss("LOAD") + miss("STORE"))
        /\ Misses(p)' = Misses(p) + (miss("LOAD") + miss("STORE"))
    BY <1>7 DEF Total, Misses
  <2> QED BY <1>4, <2>1
<1>9. \A q \in Procs \ {p} : hits'[q] = hits[q] /\ misses'[q] = misses[q]
  BY <1>1, <1>2
<1>10. /\ numberMemoryOperations' \in [Procs -> Nat]
       /\ \A q \in Procs \ {p} : numberMemoryOperations'[q] = numberMemoryOperations[q]
       /\ numberMemoryOperations'[p] =
              numberMemoryOperations[p] + IF pState'[p] = "CHECKOPTYPE" THEN 1 ELSE 0
  BY <1>1 DEF CountState
<1>11. /\ totalWaitCycles' \in [Procs -> Nat]
       /\ \A q \in Procs \ {p} : totalWaitCycles'[q] = totalWaitCycles[q]
       /\ totalWaitCycles'[p] =
              totalWaitCycles[p] + IF pState'[p] = "MEMORYRETURNWAIT" THEN 1 ELSE 0
  BY <1>1 DEF CountState
<1> QED BY <1>5, <1>8, <1>9, <1>10, <1>11

LEMMA InitStats == SimInit => StatsTyped
BY DEF SimInit, StatsTyped

LEMMA NextKeepsStats == IInv /\ StatsTyped /\ [SimNext]_simVars => StatsTyped'
<1> SUFFICES ASSUME IInv, StatsTyped, [SimNext]_simVars PROVE StatsTyped'
  OBVIOUS
<1>1. CASE \E p \in Procs : SimTickProcessor(p)
  BY <1>1, Counted DEF SimTickProcessor, StatsTyped, busStats
<1>2. CASE SimTickInterconnect
  BY <1>2 DEF SimTickInterconnect, StatsTyped, procStats
<1>3. CASE UNCHANGED <<procStats, busStats>>
  BY <1>3 DEF StatsTyped, procStats, busStats
<1>4. ReadTraces \/ SimTickMemory \/ LeaveLoop \/ UNCHANGED simVars
        => UNCHANGED <<procStats, busStats>>
  BY DEF ReadTraces, SimTickMemory, LeaveLoop, simVars
<1> QED BY <1>1, <1>2, <1>3, <1>4 DEF SimNext

LEMMA RunsKeepStats == SimSpec => [](Machine /\ StatsTyped)
<1>1. Machine => IInv
  BY DEF Machine
<1> QED BY <1>1, RunsKeepMachine, InitStats, NextKeepsStats, PTL DEF SimSpec

(* Every memory operation is counted as one hit or one miss: the lookup    *)
(* runs in the tick after the hand-over, once, whichever of the two ways   *)
(* CHECK_CACHE_LD and CHECK_CACHE_ST are left (MESI_Controller.cpp:113-117,*)
(* 137-165).                                                               *)
THEOREM OperationsAreCountedOnce == SimSpec => []EveryOperationCountedOnce
<1>1. SimInit => EveryOperationCountedOnce
  BY DEF SimInit, Init, ProcInit, EveryOperationCountedOnce, Total, Ops
<1>2. IInv /\ StatsTyped /\ EveryOperationCountedOnce /\ [SimNext]_simVars
        => EveryOperationCountedOnce'
  <2> SUFFICES ASSUME IInv, StatsTyped, EveryOperationCountedOnce, [SimNext]_simVars,
                      NEW q \in Procs
               PROVE  Total(q)' = numberMemoryOperations'[q]
                                    - IF pState'[q] = "CHECKOPTYPE" THEN 1 ELSE 0
    BY DEF EveryOperationCountedOnce
  <2>1. Total(q) = numberMemoryOperations[q] - IF pState[q] = "CHECKOPTYPE" THEN 1 ELSE 0
    BY DEF EveryOperationCountedOnce
  <2>2. ASSUME NEW p \in Procs, SimTickProcessor(p)
        PROVE  Total(q)' = numberMemoryOperations'[q]
                             - IF pState'[q] = "CHECKOPTYPE" THEN 1 ELSE 0
    <3>1. CountLookup(p) /\ CountState(p) /\ ProcessorTick(p)
      BY <2>2 DEF SimTickProcessor, TickProcessor
    <3>2. CASE q # p
      <4>1. /\ hits'[q] = hits[q] /\ misses'[q] = misses[q] /\ pState'[q] = pState[q]
            /\ numberMemoryOperations'[q] = numberMemoryOperations[q]
        BY <3>1, <3>2, Counted, ProcessorSteps
      <4> QED BY <2>1, <4>1 DEF Total
    <3>3. CASE q = p
      <4>1. /\ numberMemoryOperations[p] \in Nat
            /\ numberMemoryOperations'[p] =
                 numberMemoryOperations[p] + IF pState'[p] = "CHECKOPTYPE" THEN 1 ELSE 0
            /\ Total(p)' = Total(p) + IF pState[p] = "CHECKOPTYPE" THEN 1 ELSE 0
        BY <3>1, Counted DEF StatsTyped
      <4> QED BY <2>1, <3>3, <4>1
    <3> QED BY <3>2, <3>3
  <2>3. ReadTraces \/ SimTickMemory \/ SimTickInterconnect \/ LeaveLoop \/ UNCHANGED simVars
          => UNCHANGED <<numberMemoryOperations, hits, misses, pState>>
    BY DEF ReadTraces, Insert, SimTickMemory, TickMemory, SimTickInterconnect, TickInterconnect,
           LeaveLoop, simVars, vars, procVars, procStats
  <2>4. CASE UNCHANGED <<numberMemoryOperations, hits, misses, pState>>
    BY <2>1, <2>4 DEF Total
  <2> QED BY <2>2, <2>3, <2>4 DEF SimNext
<1>3. Machine => IInv
  BY DEF Machine
<1> QED BY <1>1, <1>2, <1>3, RunsKeepStats, PTL DEF SimSpec

(* A cycle in which the memory sends is a busy one (Memory.cpp:38,         *)
(* Interconnect.cpp:5-11, 43-50): a request of maximum priority keeps the  *)
(* bus from the memory, unless the bus is locked and so busy.              *)
THEOREM MemorySendsInBusyCycles == SimSpec => []MemorySendsWhenBusy
<1>1. SimInit => MemorySendsWhenBusy
  BY DEF SimInit, MemorySendsWhenBusy
<1>2. IInv /\ StatsTyped /\ MemorySendsWhenBusy /\ [SimNext]_simVars => MemorySendsWhenBusy'
  <2> SUFFICES ASSUME IInv, StatsTyped, MemorySendsWhenBusy, [SimNext]_simVars
               PROVE  MemorySendsWhenBusy'
    OBVIOUS
  <2>1. CASE SimTickInterconnect
    <3>1. MemorySends => Busy
      <4> SUFFICES ASSUME MemorySends, ~nodeLocked PROVE MaxRequesters = {} /\ Transmitters # {}
        BY DEF Busy
      <4>1. MemoryAddress \notin MaxRequesters
        BY BusNodesFacts DEF MaxRequesters
      <4>2. MaxRequesters # {} => ServicedNode \in MaxRequesters
        BY CycleFacts
      <4> QED BY <4>1, <4>2 DEF MemorySends, Transmitters
    <3>2. memSendCounts \in Nat /\ busyCycles \in Nat
      BY DEF StatsTyped
    <3> QED BY <2>1, <3>1, <3>2 DEF SimTickInterconnect, MemorySendsWhenBusy
  <2>2. CASE UNCHANGED busStats
    BY <2>2 DEF busStats, MemorySendsWhenBusy
  <2>3. ReadTraces \/ SimTickMemory \/ LeaveLoop \/ UNCHANGED simVars
          \/ (\E p \in Procs : SimTickProcessor(p)) => UNCHANGED busStats
    BY DEF ReadTraces, SimTickMemory, LeaveLoop, SimTickProcessor, simVars
  <2> QED BY <2>1, <2>2, <2>3 DEF SimNext
<1>3. Machine => IInv
  BY DEF Machine
<1> QED BY <1>1, <1>2, <1>3, RunsKeepStats, PTL DEF SimSpec

-----------------------------------------------------------------------------
(* THE ORDER OF A FILE.                                                    *)

(* The operations read so far, and those of them before a given one.       *)
LEMMA GivenCounted ==
  ASSUME FilesTyped, NEW p \in Procs
  PROVE  /\ Given(p) \subseteq 1 .. position[p] /\ IsFiniteSet(Given(p))
         /\ Cardinality(Given(p)) \in Nat
         /\ \A i \in Given(p) : Before(p, i) \in Nat /\ Before(p, i) < Cardinality(Given(p))
<1>1. position[p] \in Nat
  BY DEF FilesTyped
<1>2. Given(p) \subseteq 1 .. position[p]
  BY DEF Given
<1>3. IsFiniteSet(Given(p)) /\ Cardinality(Given(p)) \in Nat
  <2>1. IsFiniteSet(1 .. position[p])
    BY <1>1, FS_Interval
  <2>2. IsFiniteSet(Given(p))
    BY <1>2, <2>1, FS_Subset
  <2> QED BY <2>2, FS_CardinalityType
<1>4. ASSUME NEW i \in Given(p)
      PROVE  Before(p, i) \in Nat /\ Before(p, i) < Cardinality(Given(p))
  <2> DEFINE earlier == {j \in Given(p) : j < i}
  <2>1. earlier \subseteq Given(p) \ {i}
    BY <1>1, <1>2
  <2>2. IsFiniteSet(Given(p) \ {i}) /\ Cardinality(Given(p) \ {i}) = Cardinality(Given(p)) - 1
    BY <1>3, FS_RemoveElement
  <2>3. /\ IsFiniteSet(earlier) /\ Cardinality(earlier) \in Nat
        /\ Cardinality(earlier) <= Cardinality(Given(p) \ {i})
    BY <2>1, <2>2, FS_Subset, FS_CardinalityType
  <2> QED BY <1>3, <2>2, <2>3 DEF Before
<1> QED BY <1>2, <1>3, <1>4

(* A NOP that is read adds nothing; an operation is one more, after all    *)
(* the others.                                                             *)
LEMMA GivenRead ==
  ASSUME FilesTyped, NEW p \in Procs, Reads(p), trace'[p] = trace[p],
         position'[p] = position[p] + 1, NEW i, i = position[p] + 1
  PROVE  /\ trace[p][i] = NOP => Given(p)' = Given(p)
         /\ trace[p][i] # NOP => /\ Given(p)' = Given(p) \cup {i}
                                 /\ Cardinality(Given(p)') = Cardinality(Given(p)) + 1
                                 /\ Before(p, i)' = Cardinality(Given(p))
         /\ \A j \in Given(p) : Before(p, j)' = Before(p, j)
<1>1. position[p] \in Nat /\ \A j \in Given(p) : j \in 1 .. position[p]
  BY DEF FilesTyped, Given
<1>2. Given(p)' = {j \in 1 .. position[p] + 1 : trace[p][j] # NOP}
  BY DEF Given
<1>3. 1 .. position[p] + 1 = (1 .. position[p]) \cup {i}
  BY <1>1
<1>4. Given(p)' = IF trace[p][i] = NOP THEN Given(p) ELSE Given(p) \cup {i}
  BY <1>2, <1>3 DEF Given
<1>5. i \notin Given(p)
  BY <1>1
<1>6. \A j \in Given(p) : {k \in Given(p)' : k < j} = {k \in Given(p) : k < j}
  <2> SUFFICES ASSUME NEW j \in Given(p) PROVE ~(i < j)
    BY <1>4
  <2> QED BY <1>1
<1>7. \A j \in Given(p) : Before(p, j)' = Before(p, j)
  BY <1>6 DEF Before
<1>8. ASSUME trace[p][i] # NOP
      PROVE  /\ Cardinality(Given(p)') = Cardinality(Given(p)) + 1
             /\ Before(p, i)' = Cardinality(Given(p))
  <2>1. Given(p)' = Given(p) \cup {i}
    BY <1>4, <1>8
  <2>2. Cardinality(Given(p) \cup {i}) = Cardinality(Given(p)) + 1
    BY <1>5, GivenCounted, FS_AddElement
  <2>3. {k \in Given(p)' : k < i} = Given(p)
    BY <1>1, <2>1
  <2>4. Before(p, i)' = Cardinality({k \in Given(p)' : k < i})
    BY DEF Before
  <2> QED BY <2>1, <2>2, <2>3, <2>4
<1> QED BY <1>4, <1>7, <1>8

(* The invariant: a processor has at most one entry queued, and before the *)
(* first cycle nothing has been read.                                      *)
InOrder(p) ==
  IF trace[p] = <<>>
  THEN numberMemoryOperations[p] + Len(instrQueue[p]) <= 1
  ELSE LET done == numberMemoryOperations[p] IN
    /\ done + Len(instrQueue[p]) = Cardinality(Given(p))
    /\ \A i \in Given(p) :
         /\ Before(p, i) >= done => instrQueue[p][Before(p, i) - done + 1] = trace[p][i]
         /\ Before(p, i) = done - 1 /\ pState[p] # "IDLE" => inst[p] = trace[p][i]

OneQueued(p) == Len(instrQueue[p]) <= 1

Untouched(p) ==
  position[p] = 0 /\ numberMemoryOperations[p] = 0 /\ instrQueue[p] = <<>>

OrderInv ==
  /\ \A p \in Procs : OneQueued(p) /\ InOrder(p)
  /\ tickCount = 0 => turn = FetchTurn /\ \A p \in Procs : Untouched(p)

LEMMA OrderInvImplies == OrderInv => TraceInOrder
BY DEF OrderInv, InOrder, TraceInOrder

LEMMA InitInOrder == SimInit => OrderInv
<1> SUFFICES ASSUME SimInit PROVE OrderInv
  OBVIOUS
<1>1. turn = FetchTurn
  BY DEF SimInit, Init
<1>2. ASSUME NEW p \in Procs PROVE Untouched(p) /\ OneQueued(p) /\ InOrder(p)
  <2>1. Untouched(p) /\ Len(instrQueue[p]) = 0
    BY DEF SimInit, Init, ProcInit, Untouched
  <2>2. Given(p) = {}
    BY <2>1 DEF Untouched, Given
  <2>3. Cardinality(Given(p)) = 0
    BY <2>2, FS_EmptySet
  <2> QED BY <2>1, <2>2, <2>3 DEF Untouched, OneQueued, InOrder
<1> QED BY <1>1, <1>2 DEF OrderInv

(* A processor is handed what its own file has next.                       *)
LEMMA ReadingKeepsOrder ==
  ASSUME IInv, FilesTyped, StatsTyped, OrderInv, ReadTraces, NEW p \in Procs
  PROVE  OneQueued(p)' /\ InOrder(p)'
<1>1. /\ trace' = trace /\ numberMemoryOperations' = numberMemoryOperations
      /\ pState' = pState /\ inst' = inst
      /\ position' = [q \in Procs |-> IF Reads(q) THEN position[q] + 1 ELSE position[q]]
  BY DEF ReadTraces, Insert, procStats
<1>2. instrQueue'[p] = IF instrQueue[p] = <<>> /\ EntryFor(p) # NOP
                       THEN <<EntryFor(p)>> ELSE instrQueue[p]
  BY DEF ReadTraces, Insert, EntryFor
<1>3. /\ OneQueued(p) /\ InOrder(p) /\ numberMemoryOperations[p] \in Nat
      /\ instrQueue[p] \in Seq(Instructions)
  BY DEF OrderInv, StatsTyped, IInv, TypeOK, ProcTypeOK
<1>4. position'[p] = IF Reads(p) THEN position[p] + 1 ELSE position[p]
  BY <1>1
<1> DEFINE done == numberMemoryOperations[p]
<1>5. CASE ~Hungry(p)
  <2>1. instrQueue'[p] = instrQueue[p] /\ position'[p] = position[p]
    BY <1>2, <1>4, <1>5 DEF Hungry, Reads
  <2>2. Given(p)' = Given(p)
    BY <1>1, <2>1 DEF Given
  <2>3. \A i : Before(p, i)' = Before(p, i)
    BY <2>2 DEF Before
  <2> QED BY <1>1, <1>3, <2>1, <2>2, <2>3 DEF OneQueued, InOrder
<1>6. CASE Hungry(p)
  <2>1. instrQueue[p] = <<>> /\ Len(instrQueue[p]) = 0
    BY <1>6 DEF Hungry
  <2>2. EntryFor(p) = NextOp(p)
    BY <1>6 DEF EntryFor
  <2>3. CASE Reads(p)
    <3> PICK i : i = position[p] + 1
      OBVIOUS
    <3>1. EntryFor(p) = trace[p][i]
      BY <2>2, <2>3, NextOpIsOwn DEF Sets, ReadBy
    <3>2. trace[p] # <<>>
      <4>1. i \in 1 .. Len(trace[p])
        BY <2>3, EntryRead
      <4> QED BY <4>1
    <3>3. /\ done = Cardinality(Given(p)) /\ done \in Nat
          /\ \A j \in Given(p) :
               Before(p, j) = done - 1 /\ pState[p] # "IDLE" => inst[p] = trace[p][j]
      BY <1>3, <2>1, <3>2 DEF InOrder
    <3>4. /\ trace[p][i] = NOP => Given(p)' = Given(p)
          /\ trace[p][i] # NOP => /\ Given(p)' = Given(p) \cup {i}
                                  /\ Cardinality(Given(p)') = done + 1
                                  /\ Before(p, i)' = done
          /\ \A j \in Given(p) : Before(p, j)' = Before(p, j)
      BY <1>1, <1>4, <2>3, <3>3, GivenRead
    <3>5. \A j \in Given(p) : Before(p, j) \in Nat /\ Before(p, j) < done
      BY <3>3, GivenCounted
    <3>6. CASE trace[p][i] = NOP
      <4>1. instrQueue'[p] = <<>> /\ Len(instrQueue'[p]) = 0
        BY <1>2, <2>1, <3>1, <3>6
      <4> QED BY <1>1, <3>2, <3>3, <3>4, <3>5, <3>6, <4>1 DEF OneQueued, InOrder
    <3>7. CASE trace[p][i] # NOP
      <4>1. /\ instrQueue'[p] = <<trace[p][i]>> /\ Len(instrQueue'[p]) = 1
            /\ instrQueue'[p][1] = trace[p][i]
        BY <1>2, <2>1, <3>1, <3>7
      <4>2. /\ numberMemoryOperations'[p] = done /\ trace'[p] = trace[p]
            /\ pState'[p] = pState[p] /\ inst'[p] = inst[p]
        BY <1>1
      <4>3. ASSUME NEW j \in Given(p)'
            PROVE  /\ Before(p, j)' >= done =>
                        instrQueue'[p][Before(p, j)' - done + 1] = trace[p][j]
                   /\ Before(p, j)' = done - 1 /\ pState[p] # "IDLE" => inst[p] = trace[p][j]
        <5>1. CASE j = i
          <6>1. Before(p, j)' = done
            BY <3>4, <3>7, <5>1
          <6>2. Before(p, j)' - done + 1 = 1 /\ Before(p, j)' # done - 1
            BY <3>3, <6>1
          <6> QED BY <4>1, <5>1, <6>2
        <5>2. CASE j # i
          <6>1. j \in Given(p)
            BY <3>4, <3>7, <5>2
          <6>2. Before(p, j)' = Before(p, j) /\ Before(p, j) \in Nat /\ Before(p, j) < done
            BY <3>4, <3>5, <6>1
          <6> QED BY <3>3, <6>1, <6>2
        <5> QED BY <5>1, <5>2
      <4>4. OneQueued(p)'
        BY <4>1 DEF OneQueued
      <4>5. done + Len(instrQueue'[p]) = Cardinality(Given(p)')
        BY <3>4, <3>7, <4>1
      <4> QED BY <3>2, <4>2, <4>3, <4>4, <4>5 DEF InOrder
    <3> QED BY <3>6, <3>7
  <2>4. CASE ~Reads(p)
    <3>1. position'[p] = position[p]
      BY <1>4, <2>4
    <3>2. Given(p)' = Given(p)
      BY <1>1, <3>1 DEF Given
    <3>3. \A i : Before(p, i)' = Before(p, i)
      BY <3>2 DEF Before
    <3>4. position[p] = Len(trace[p]) /\ position[p] \in Nat
      BY <1>6, <2>4, LenProperties DEF Reads, FilesTyped
    <3>5. CASE AtEof(p)
      <4>1. EntryFor(p) = NOP
        BY <1>6, <2>2, <2>4, <3>5, NextOpIsOwn DEF Sets, ReadBy
      <4>2. instrQueue'[p] = instrQueue[p]
        BY <1>2, <4>1
      <4> QED BY <1>1, <1>3, <3>1, <3>2, <3>3, <4>2 DEF OneQueued, InOrder
    <3>6. CASE ~AtEof(p)
      <4>1. tickCount = 0
        BY <3>4, <3>6 DEF AtEof, FilesTyped
      <4>2. Untouched(p)
        BY <4>1 DEF OrderInv
      <4>3. trace[p] = <<>>
        BY <3>4, <4>2, EmptySeq DEF Untouched, FilesTyped
      <4>4. Len(instrQueue'[p]) <= 1
        BY <1>2, <2>1
      <4> QED BY <1>1, <4>2, <4>3, <4>4 DEF OneQueued, InOrder, Untouched
    <3> QED BY <3>5, <3>6
  <2> QED BY <2>3, <2>4
<1> QED BY <1>5, <1>6

(* A processor that takes its queued instruction has executed one more, and*)
(* that is the one before which it had executed as many as it has.         *)
LEMMA TickingKeepsOrder ==
  ASSUME IInv, FilesTyped, StatsTyped, OrderInv, NEW q \in Procs, SimTickProcessor(q),
         NEW p \in Procs
  PROVE  OneQueued(p)' /\ InOrder(p)'
<1>1. CountLookup(q) /\ CountState(q) /\ ProcessorTick(q) /\ trace' = trace /\ position' = position
  BY DEF SimTickProcessor, TickProcessor, fileVars
<1>2. /\ OneQueued(p) /\ InOrder(p) /\ numberMemoryOperations[p] \in Nat
      /\ instrQueue[p] \in Seq(Instructions)
  BY DEF OrderInv, StatsTyped, IInv, TypeOK, ProcTypeOK
<1>3. Given(p)' = Given(p)
  BY <1>1 DEF Given
<1>4. \A i : Before(p, i)' = Before(p, i)
  BY <1>3 DEF Before
<1>5. CASE p # q
  <2>1. /\ instrQueue'[p] = instrQueue[p] /\ pState'[p] = pState[p] /\ inst'[p] = inst[p]
        /\ numberMemoryOperations'[p] = numberMemoryOperations[p]
    BY <1>1, <1>5, Counted, ProcessorSteps
  <2> QED BY <1>1, <1>2, <1>3, <1>4, <2>1 DEF OneQueued, InOrder
<1>6. CASE p = q /\ pState'[p] # "CHECKOPTYPE"
  <2>1. /\ instrQueue'[p] = instrQueue[p]
        /\ pState'[p] # "IDLE" => inst'[p] = inst[p] /\ pState[p] # "IDLE"
        /\ numberMemoryOperations'[p] = numberMemoryOperations[p]
    <3>1. pState'[p] \in {"IDLE", "CHECKOPTYPE", "MEMORYRETURNWAIT"}
      BY <1>1, <1>6, ProcessorTickTyped DEF IInv, TypeOK, ProcTypeOK
    <3>2. numberMemoryOperations'[p] = numberMemoryOperations[p] + 0
      BY <1>1, <1>6, Counted
    <3> QED BY <1>1, <1>2, <1>6, <3>1, <3>2, ProcessorSteps
  <2> QED BY <1>1, <1>2, <1>3, <1>4, <2>1 DEF OneQueued, InOrder
<1>7. CASE p = q /\ pState'[p] = "CHECKOPTYPE"
  <2> DEFINE done == numberMemoryOperations[p]
  <2>1. /\ instrQueue[p] # <<>> /\ instrQueue'[p] = Tail(instrQueue[p])
        /\ inst'[p] = Head(instrQueue[p])
    BY <1>1, <1>7, ProcessorSteps
  <2>2. Len(instrQueue[p]) = 1 /\ Len(instrQueue'[p]) = 0 /\ inst'[p] = instrQueue[p][1]
    <3>1. Len(instrQueue[p]) \in Nat /\ Len(instrQueue[p]) <= 1
      BY <1>2, LenProperties DEF OneQueued
    <3>2. Len(instrQueue[p]) # 0
      BY <1>2, <2>1, EmptySeq
    <3>3. /\ Len(Tail(instrQueue[p])) = Len(instrQueue[p]) - 1
          /\ Head(instrQueue[p]) = instrQueue[p][1]
      BY <1>2, <2>1, HeadTailProperties
    <3>4. Len(instrQueue[p]) = 1
      <4>1. \A n \in Nat : n <= 1 /\ n # 0 => n = 1
        OBVIOUS
      <4> QED BY <3>1, <3>2, <4>1, Zenon
    <3>5. Len(Tail(instrQueue[p])) = 0
      BY <3>3, <3>4
    <3>6. inst'[p] = instrQueue[p][1]
      BY <2>1, <3>3
    <3> QED BY <2>1, <3>4, <3>5, <3>6
  <2>3. numberMemoryOperations'[p] = done + 1
    BY <1>1, <1>7, Counted
  <2>4. CASE trace[p] = <<>>
    BY <1>1, <1>2, <2>2, <2>3, <2>4 DEF OneQueued, InOrder
  <2>5. CASE trace[p] # <<>>
    <3>1. /\ done + 1 = Cardinality(Given(p))
          /\ \A i \in Given(p) :
               Before(p, i) >= done => instrQueue[p][Before(p, i) - done + 1] = trace[p][i]
      BY <1>2, <2>2, <2>5 DEF InOrder
    <3>2. ASSUME NEW i \in Given(p)
          PROVE  ~(Before(p, i) >= done + 1) /\ (Before(p, i) = done => inst'[p] = trace[p][i])
      <4>1. Before(p, i) \in Nat /\ Before(p, i) < done + 1
        BY <3>1, GivenCounted
      <4>2. Before(p, i) = done => instrQueue[p][1] = trace[p][i]
        <5> HAVE Before(p, i) = done
        <5>1. Before(p, i) >= done /\ Before(p, i) - done + 1 = 1
          BY <1>2
        <5> QED BY <3>1, <5>1
      <4> QED BY <1>2, <2>2, <4>1, <4>2
    <3> QED BY <1>1, <1>2, <1>3, <1>4, <2>2, <2>3, <2>5, <3>1, <3>2 DEF OneQueued, InOrder
  <2> QED BY <2>4, <2>5
<1> QED BY <1>5, <1>6, <1>7

LEMMA NextKeepsOrder ==
  IInv /\ FilesTyped /\ StatsTyped /\ OrderInv /\ [SimNext]_simVars => OrderInv'
<1> SUFFICES ASSUME IInv, FilesTyped, StatsTyped, OrderInv, [SimNext]_simVars PROVE OrderInv'
  OBVIOUS
<1>1. CASE ReadTraces
  <2>1. tickCount' # 0
    BY <1>1 DEF ReadTraces, FilesTyped
  <2> QED BY <1>1, <2>1, ReadingKeepsOrder DEF OrderInv
<1>2. ASSUME NEW q \in Procs, SimTickProcessor(q) PROVE OrderInv'
  <2>1. turn = q /\ tickCount' = tickCount
    BY <1>2 DEF SimTickProcessor, TickProcessor, fileVars
  <2>2. tickCount # 0
    BY <2>1, NumProcsAssumption DEF OrderInv, FetchTurn, Procs
  <2> QED BY <1>2, <2>1, <2>2, TickingKeepsOrder DEF OrderInv
<1>3. CASE SimTickMemory \/ SimTickInterconnect \/ LeaveLoop \/ UNCHANGED simVars
  <2>1. UNCHANGED <<trace, position, numberMemoryOperations, instrQueue, pState, inst>>
    BY <1>3 DEF SimTickMemory, TickMemory, SimTickInterconnect, TickInterconnect, LeaveLoop,
                simVars, vars, procVars, procStats, fileVars
  <2>2. \A p \in Procs : Given(p)' = Given(p)
    BY <2>1 DEF Given
  <2>3. \A p \in Procs : \A i : Before(p, i)' = Before(p, i)
    BY <2>2 DEF Before
  <2>4. \A p \in Procs : OneQueued(p)' /\ InOrder(p)'
    BY <2>1, <2>2, <2>3 DEF OrderInv, OneQueued, InOrder
  <2>5. tickCount' = 0 => tickCount = 0 /\ turn' = turn
    <3>1. CASE SimTickMemory \/ SimTickInterconnect
      <4>1. turn # FetchTurn
        BY <3>1, NumProcsAssumption
           DEF SimTickMemory, SimTickInterconnect, TickMemory, TickInterconnect, FetchTurn,
               MemoryTurn, BusTurn
      <4>2. tickCount' = tickCount
        BY <3>1 DEF SimTickMemory, SimTickInterconnect, fileVars
      <4> QED BY <4>1, <4>2 DEF OrderInv
    <3>2. CASE LeaveLoop
      BY <3>2 DEF LeaveLoop, FilesTyped
    <3>3. CASE UNCHANGED simVars
      BY <3>3 DEF simVars, vars, fileVars
    <3> QED BY <1>3, <3>1, <3>2, <3>3
  <2>6. \A p \in Procs : Untouched(p) => Untouched(p)'
    BY <2>1 DEF Untouched
  <2> QED BY <2>4, <2>5, <2>6 DEF OrderInv
<1> QED BY <1>1, <1>2, <1>3 DEF SimNext

(* Each processor executes the memory operations of its own file, each once*)
(* and in order (cache_coherence_sim.cpp:154-180), although the files are  *)
(* read through two variables that all of them share; only a processor     *)
(* whose file is empty executes another's, and only one.                   *)
THEOREM FilesAreExecutedInOrder == SimSpec => []TraceInOrder
<1>1. Machine => IInv /\ FilesTyped
  BY DEF Machine
<1> QED BY <1>1, RunsKeepStats, InitInOrder, NextKeepsOrder, OrderInvImplies, PTL DEF SimSpec

-----------------------------------------------------------------------------
(* THE LATENCY OF A MISS.                                                  *)

(* The states a tick of a controller leads to, by the state it starts in.  *)
LEMMA ControllerMoves ==
  ASSUME IInv, CoherenceInv, NEW p \in Procs, ControllerTick(p)
  PROVE  /\ ctl[p].state \in IssueStates /\ ReadOutstanding(ctl[p]) =>
              ctl'[p].state = ctl[p].state
         /\ ctl[p].state \in IssueStates /\ ~ReadOutstanding(ctl[p]) =>
              ctl'[p].state \notin IssueStates \cup {"IDLE"}
         /\ ctl[p].state = "IDLE" /\ ~pending[p] => ctl'[p].state = "IDLE"
         /\ ctl[p].state = "IDLE" /\ pending[p] =>
              /\ ctl'[p].state # "IDLE"
              /\ ~Contains(ctl[p], Line(p)) => ctl'[p].state \in IssueStates
         /\ ctl[p].state \notin IssueStates \cup {"IDLE"} => ctl'[p].state \notin IssueStates
<1> DEFINE c == ctl[p]
           d == ctl'[p]
<1>1. ctl \in [Procs -> Controller] /\ c \in Controller
  BY DEF IInv, TypeOK, ProcTypeOK
<1>2. pending[p] \/ c.state # "IDLE" => Line(p) \in Addrs
  <2>1. pState[p] \in {"IDLE", "CHECKOPTYPE", "MEMORYRETURNWAIT"} /\ Agrees(p)
    BY DEF IInv, TypeOK, ProcTypeOK, ProcessorControllerAgreement, Agrees
  <2> QED BY <2>1 DEF Agrees, Line, Instructions
<1>3. \A s \in FsmStates : \A outcomes \in SUBSET Controller :
        Enter(p, s, outcomes) => d.state = s
  BY <1>1, EnterTyped DEF Entered
<1>4. ReadCommand \in Commands /\ "BUSREADX" \in Commands
  BY DEF ReadCommand, Commands
<1>5. CASE ReturnToIdle(p) \/ StayIdle(p)
  <2>1. {IdleAction(c)} \subseteq Controller /\ "IDLE" \in FsmStates
    BY <1>1, IdleActionTyped DEF FsmStates
  <2>2. d.state = "IDLE"
    BY <1>3, <1>5, <2>1 DEF ReturnToIdle, StayIdle
  <2> QED BY <1>5, <2>2 DEF ReturnToIdle, StayIdle, IssueStates
<1>6. CASE LoadHit(p) \/ StoreHitOwned(p)
  <2>1. c.state = "IDLE" /\ pending[p] /\ Line(p) \in Addrs /\ Contains(c, Line(p))
    BY <1>2, <1>6 DEF LoadHit, StoreHitOwned, Start, Contains, MESI
  <2>2. /\ UpdateCacheLoad(c, Line(p)) \subseteq Controller
        /\ UpdateCacheStore(c, Line(p)) \subseteq Controller
    BY <1>1, <2>1, UpdateCacheTyped
  <2>3. d.state \in {"UPDATE_CACHE_LD", "UPDATE_CACHE_ST"}
    BY <1>3, <1>6, <2>2 DEF LoadHit, StoreHitOwned, FsmStates
  <2> QED BY <2>1, <2>3 DEF IssueStates
<1>7. CASE StoreHitShared(p)
  <2>1. c.state = "IDLE" /\ pending[p] /\ Line(p) \in Addrs /\ Contains(c, Line(p))
    BY <1>2, <1>7 DEF StoreHitShared, Start, Contains
  <2>2. {IssueInvalidate(c, Line(p))} \subseteq Controller
    BY <1>1, <2>1, IssueInvalidateTyped
  <2>3. d.state = "ISSUE_INVALIDATE"
    BY <1>3, <1>7, <2>2 DEF StoreHitShared, FsmStates
  <2> QED BY <2>1, <2>3 DEF IssueStates
<1>8. CASE LoadMiss(p) \/ StoreMiss(p)
  <2>1. c.state = "IDLE" /\ pending[p] /\ Line(p) \in Addrs
    BY <1>2, <1>8 DEF LoadMiss, StoreMiss, Start
  <2>2. /\ {QueueReadOnce(c, Line(p), ReadCommand)} \subseteq Controller
        /\ {QueueReadOnce(c, Line(p), "BUSREADX")} \subseteq Controller
    BY <1>1, <1>4, <2>1, QueueReadTyped
  <2>3. d.state \in {"ISSUE_READ", "ISSUE_READX"}
    BY <1>3, <1>8, <2>2 DEF LoadMiss, StoreMiss, FsmStates
  <2> QED BY <2>1, <2>3 DEF IssueStates
<1>9. CASE AwaitRead(p) \/ AwaitReadX(p)
  <2>1. c.state \in IssueStates /\ c.state # "IDLE" /\ Line(p) \in Addrs /\ ReadOutstanding(c)
    BY <1>2, <1>9 DEF AwaitRead, AwaitReadX, IssueStates
  <2>2. /\ {QueueReadOnce(c, Line(p), ReadCommand)} \subseteq Controller
        /\ {QueueReadOnce(c, Line(p), "BUSREADX")} \subseteq Controller
    BY <1>1, <1>4, <2>1, QueueReadTyped
  <2>3. d.state = c.state
    BY <1>3, <1>9, <2>2 DEF AwaitRead, AwaitReadX, FsmStates
  <2> QED BY <2>1, <2>3
<1>10. CASE ReadReturned(p) \/ ReadXReturned(p)
  <2>1. c.state \in IssueStates /\ c.state # "IDLE" /\ Line(p) \in Addrs /\ ~ReadOutstanding(c)
    BY <1>2, <1>10 DEF ReadReturned, ReadXReturned, IssueStates
  <2>2. /\ UpdateCacheLoad(c, Line(p)) \subseteq Controller
        /\ UpdateCacheStore(c, Line(p)) \subseteq Controller
    BY <1>1, <2>1, UpdateCacheTyped
  <2>3. d.state \in {"UPDATE_CACHE_LD", "UPDATE_CACHE_ST"}
    BY <1>3, <1>10, <2>2 DEF ReadReturned, ReadXReturned, FsmStates
  <2> QED BY <2>1, <2>3 DEF IssueStates
<1>11. CASE InvalidateIssued(p)
  <2>1. {c} \subseteq Controller /\ c.state = "ISSUE_INVALIDATE"
    BY <1>1, <1>11 DEF InvalidateIssued
  <2>2. d.state = "INVALIDATE_WAIT"
    BY <1>3, <1>11, <2>1 DEF InvalidateIssued, FsmStates
  <2> QED BY <2>1, <2>2 DEF IssueStates
<1> QED BY <1>5, <1>6, <1>7, <1>8, <1>9, <1>10, <1>11 DEF ControllerTick

(* What a controller sends with a beat: the line itself only after BurstLen*)
(* of them, when it was the bus's for all of the burst.                    *)
LEMMA IssueCountsBeats ==
  ASSUME NEW c \in Controller, NEW line, InPhase(c, line), InProtocol(c), RequestsTransaction(c),
         c.bursting <=> CarriesLine(c), NEW locked \in BOOLEAN, c.bursting => locked
  PROVE  /\ AfterIssue(c, locked).burstCounter <= c.burstCounter + 1
         /\ Issued(c, locked).command \in AnsweringCommands => c.burstCounter = BurstLen - 1
<1>1. c.burstCounter \in Nat /\ BurstLen \in Nat
  BY BurstLenAssumption DEF Controller
<1>2. AfterIssue(c, locked).burstCounter =
        IF MidBurst(c, locked) THEN BeatsDone(c, locked)
        ELSE IF c.bursting THEN 0 ELSE c.burstCounter
  BY DEF AfterIssue, PopNext, Controller
<1>3. BeatsDone(c, locked) \in {c.burstCounter, c.burstCounter + 1}
  BY DEF BeatsDone
<1>4. AfterIssue(c, locked).burstCounter <= c.burstCounter + 1
  BY <1>1, <1>2, <1>3
<1>5. ASSUME Issued(c, locked).command \in AnsweringCommands
      PROVE  c.burstCounter = BurstLen - 1
  <2>1. ~MidBurst(c, locked) /\ NextToIssue(c).command \in AnsweringCommands
    BY <1>5 DEF Issued, AnsweringCommands
  <2>2. NextToIssue(c).command \in DataCommands
    <3>1. CASE c.maxPriorityQueue # <<>>
      <4>1. NextToIssue(c) \in Outgoing(c)
        <5>1. c.maxPriorityQueue \in Seq(Queued)
          BY DEF Controller
        <5> QED BY <3>1, <5>1, RangeOfTail DEF NextToIssue, Outgoing
      <4> QED BY <2>1, <4>1 DEF InProtocol, DataCommands, AnsweringCommands
    <3>2. CASE c.maxPriorityQueue = <<>>
      <4>1. NextToIssue(c).command = ReadOf(c)
        BY <3>2 DEF NextToIssue, RequestsTransaction, InPhase, Quiet, ReadQueued, ReadDispatched,
                    ReadArrived
      <4> QED BY <2>1, <4>1 DEF ReadOf, ReadCommand, AnsweringCommands
    <3> QED BY <3>1, <3>2
  <2>3. c.bursting /\ locked
    BY <2>2 DEF CarriesLine
  <2> QED BY <1>1, <2>1, <2>3 DEF MidBurst, BeatsDone
<1> QED BY <1>4, <1>5

(* What a transaction leaves of the read of a controller that receives it. *)
LEMMA ReceiverAwaits ==
  ASSUME IInv, CoherenceInv, turn = BusTurn, NEW q \in Procs,
         NEW m \in BusRequest, OnMIBus(m), Addressed(q, m),
         NEW d, d = AfterBroadcast(m)[q]
  PROVE  /\ d.state = ctl[q].state /\ d.burstCounter = ctl[q].burstCounter
         /\ d.awaitingBusRead => ctl[q].awaitingBusRead
         /\ ReadArrived(d) => ctl[q].awaitingBusRead /\ m.command \in AnsweringCommands
<1> DEFINE c == ctl[q]
           line == Line(q)
<1>1. c \in Controller /\ InPhase(c, line) /\ ~ReadArrived(c)
  BY ControllerFacts, CycleControllers
<1>2. d = Accept(c, line, m)
  BY DEF AfterBroadcast, Line
<1>3. Accepted(c, line, m, d)
  BY <1>1, <1>2, ReadsAreNoReplies, AcceptAccepts
<1>4. /\ d.state = c.state /\ d.burstCounter = c.burstCounter /\ d.busReqQueue = c.busReqQueue
      /\ d.awaitingBusRead <=> c.awaitingBusRead /\ ~Answers(c, line, m)
  BY <1>3 DEF Accepted, SameMachine, AcceptedFields
<1>5. ASSUME ReadArrived(d) PROVE c.awaitingBusRead /\ m.command \in AnsweringCommands
  <2>1. d.state \in IssueStates /\ d.busReqQueue = <<>> /\ ~d.awaitingBusRead
    BY <1>5 DEF ReadArrived, Quiet
  <2>2. c.awaitingBusRead
    BY <1>1, <1>4, <2>1 DEF InPhase, ReadQueued, ReadDispatched
  <2> QED BY <1>4, <2>1, <2>2 DEF Answers
<1> QED BY <1>4, <1>5

(* A processor has the bus: a burst goes one beat on, a read is answered by*)
(* the last beat, and one is sent only when no burst is under way.         *)
LEMMA ProcessorSends ==
  ASSUME IInv, CoherenceInv, turn = BusTurn, NEW p \in Procs, ProcessorTransmits(p),
         NEW q \in Procs
  PROVE  /\ ctl'[q].state = ctl[q].state
         /\ ctl'[q].burstCounter <= ctl[q].burstCounter + 1
         /\ ReadArrived(ctl'[q]) => ctl[q].awaitingBusRead /\ ctl[p].burstCounter = BurstLen - 1
         /\ ctl'[q].awaitingBusRead /\ ~ctl[q].awaitingBusRead =>
              q = p /\ ctl[p].state \in IssueStates /\ \A r \in Procs : ctl'[r].burstCounter = 0
<1>1. \A r \in Procs : /\ ctl[r] \in Controller /\ ctl[r].burstCounter \in Nat
                       /\ ~ReadArrived(ctl[r]) /\ (ctl[r].bursting <=> CarriesLine(ctl[r]))
                       /\ ctl[r].burstCounter > 0 => CarriesLine(ctl[r]) /\ ServicedNode = r
  BY ControllerFacts, CycleControllers
<1>2. InPhase(ctl[p], Line(p)) /\ InProtocol(ctl[p])
  BY ControllerFacts
<1>3. PICK m \in BusRequest :
        /\ OnMIBus(m) /\ m.command = Issued(ctl[p], Locked(p)).command
        /\ Sends(p, m, ctl'[p]) /\ ctl'[p] = AfterIssue(ctl[p], Locked(p))
        /\ \A r \in Procs \ {p} : Addressed(r, m) /\ ctl'[r] = AfterBroadcast(m)[r]
  BY SenderSends
<1>4. /\ RequestsTransaction(ctl[p]) /\ Locked(p) \in BOOLEAN /\ (ctl[p].bursting => Locked(p))
      /\ ServicedNode = p
  BY BusNodesFacts DEF ProcessorTransmits, Transmitters, Locked, LockRequesters, RequestsLock
<1>5. /\ ctl'[p].burstCounter <= ctl[p].burstCounter + 1
      /\ m.command \in AnsweringCommands => ctl[p].burstCounter = BurstLen - 1
  BY <1>1, <1>2, <1>3, <1>4, IssueCountsBeats
<1>6. \A r \in Procs \ {p} : /\ ctl'[r].state = ctl[r].state
                             /\ ctl'[r].burstCounter = ctl[r].burstCounter
                             /\ ctl'[r].awaitingBusRead => ctl[r].awaitingBusRead
                             /\ ReadArrived(ctl'[r]) =>
                                  ctl[r].awaitingBusRead /\ m.command \in AnsweringCommands
  BY <1>3, ReceiverAwaits
<1>7. /\ ctl'[p].state = ctl[p].state /\ ~ReadArrived(ctl'[p])
      /\ ctl'[p].awaitingBusRead /\ ~ctl[p].awaitingBusRead =>
           ctl[p].state \in IssueStates /\ ctl'[p].burstCounter = 0
  <2>1. CASE IssuesBeat(ctl[p], m, ctl'[p]) \/ IssuesRequest(ctl[p], m, ctl'[p])
    <3>1. SameCopies(ctl[p], ctl'[p]) /\ SameRead(ctl[p], ctl'[p])
          /\ ctl'[p].busReqQueue = ctl[p].busReqQueue
      BY <2>1 DEF IssuesBeat, IssuesRequest
    <3> QED BY <1>1, <3>1 DEF SameCopies, SameRead, ReadArrived, Quiet
  <2>2. CASE IssuesRead(ctl[p], Line(p), m, ctl'[p])
    <3>1. /\ ctl'[p].state = ctl[p].state /\ ctl'[p].awaitingBusRead
          /\ ctl'[p].burstCounter = 0 /\ ctl[p].state \in IssueStates
      BY <2>2 DEF IssuesRead, SameCopies, ReadDispatched
    <3> QED BY <3>1 DEF ReadArrived, Quiet
  <2> QED BY <1>3, <2>1, <2>2 DEF Sends
<1>8. \A r \in Procs \ {p} : ctl[r].burstCounter = 0
  BY <1>1, <1>4
<1>9. CASE q = p
  BY <1>5, <1>6, <1>7, <1>8, <1>9
<1>10. CASE q # p
  BY <1>1, <1>5, <1>6, <1>10
<1> QED BY <1>9, <1>10

(* The memory has the bus.                                                 *)
LEMMA MemorySendsIt ==
  ASSUME IInv, CoherenceInv, turn = BusTurn, MemoryTransmits, NEW q \in Procs
  PROVE  /\ ctl'[q].state = ctl[q].state /\ ctl'[q].burstCounter = ctl[q].burstCounter
         /\ ctl'[q].awaitingBusRead => ctl[q].awaitingBusRead
         /\ ReadArrived(ctl'[q]) =>
              ctl[q].awaitingBusRead /\ Head(memQueue).command = "DATA_RETURN_MEMORY"
<1> DEFINE m == Head(memQueue)
<1>1. memQueue # <<>> /\ ctl' = AfterBroadcast(m)
  BY DEF MemoryTransmits, MemRequestsTransaction
<1>2. m \in BusRequest /\ FromMemory(m)
  <2>1. memQueue \in Seq(BusRequest) /\ OnlyFromMemory(memQueue)
    BY MemoryOwesIt DEF IInv, TypeOK, MemTypeOK, CoherenceInv
  <2> QED BY <1>1, <2>1, RemainingAnswers
<1>3. OnMIBus(m) /\ (m.command \in AnsweringCommands => m.command = "DATA_RETURN_MEMORY")
  BY <1>2 DEF FromMemory, OnMIBus, AnsweringCommands
<1>4. ~ReadArrived(ctl[q])
  BY CycleControllers
<1> HIDE DEF m
<1>5. CASE Addressed(q, m)
  BY <1>1, <1>2, <1>3, <1>5, ReceiverAwaits DEF m
<1>6. CASE ~Addressed(q, m)
  <2>1. ctl'[q] = ctl[q]
    BY <1>1, <1>6 DEF AfterBroadcast
  <2> QED BY <1>4, <2>1
<1> QED BY <1>5, <1>6

-----------------------------------------------------------------------------
(* The memory holds the bus while it bursts a line, has a request for the  *)
(* bus only when it holds it, and begins a burst with the counter at 0 or  *)
(* 1. (A BurstLen of 1 or 2 would let a burst end that never had the bus.) *)

MemoryHoldsBus == nodeLocked /\ lockedAddress = MemoryAddress

MemoryBus ==
  /\ BurstCounted
  /\ ~MemoryHoldsBus => memBurstCounter <= 1
  /\ MemoryHoldsBus => memBursting \/ (turn = BusTurn /\ memQueue # <<>>)
  /\ memQueue # <<>> => turn = BusTurn /\ MemoryHoldsBus /\ Len(memQueue) = 1

LEMMA TurnsDiffer ==
  /\ FetchTurn # BusTurn /\ MemoryTurn # BusTurn /\ FetchTurn - 1 # BusTurn
  /\ MemoryTurn - 1 = BusTurn
  /\ \A p \in Procs : /\ p \in Nat \ {0} /\ p # BusTurn /\ p - 1 # BusTurn
                      /\ ~(FetchTurn < p) /\ ~(FetchTurn - 1 < p) /\ BusTurn < p /\ MemoryTurn < p
BY NumProcsAssumption DEF FetchTurn, MemoryTurn, BusTurn, Procs

LEMMA HolderHasLock ==
  ASSUME LockAgreement, BusTypeOK
  PROVE  (MemoryAddress \in nodeIsLocked) <=> MemoryHoldsBus
BY DEF LockAgreement, MemoryHoldsBus, BusTypeOK

LEMMA MemTickKeepsBus ==
  ASSUME BurstLen > 2, IInv, LockAgreement, MemoryBus, TickMemory
  PROVE  /\ MemoryBus'
         /\ memQueue = <<>> /\ turn' = BusTurn
         /\ memBursting /\ MemoryHoldsBus /\ memBursting' => memBurstCounter' <= memBurstCounter + 1
         /\ memQueue' # <<>> /\ Head(memQueue').command = "DATA_RETURN_MEMORY" =>
              memBurstCounter = BurstLen - 1 /\ MemoryHoldsBus /\ memBursting
         /\ MemoryHoldsBus => memBursting
<1> DEFINE locked == MemoryAddress \in nodeIsLocked
<1>1. /\ turn = MemoryTurn /\ turn' = BusTurn /\ MemTick(locked) /\ UNCHANGED busVars
  BY TurnsDiffer DEF TickMemory
<1>2. (locked <=> MemoryHoldsBus) /\ (MemoryHoldsBus' <=> MemoryHoldsBus)
  BY <1>1, HolderHasLock DEF IInv, TypeOK, busVars, MemoryHoldsBus
<1>3. memQueue = <<>> /\ (MemoryHoldsBus => memBursting)
  BY <1>1, TurnsDiffer DEF MemoryBus
<1>4. /\ memBurstCounter \in Nat /\ BurstLen \in Nat /\ CounterModulus \in Nat
      /\ CounterModulus > BurstLen
  BY BurstLenAssumption, CounterModulusAssumption DEF IInv, TypeOK, MemTypeOK
<1>5. locked \in BOOLEAN /\ MemTypeOK /\ BurstCounted
  BY DEF IInv, TypeOK, MemoryBus
<1>6. BurstCounted'
  <2>1. BurstLen > 1
    BY <1>4
  <2> HIDE DEF locked
  <2> QED BY <1>1, <1>5, <2>1, MemTickCounts
<1>7. \A n \in 0 .. BurstLen - 1 : CountBeat(n, locked) = IF locked THEN n + 1 ELSE n
  BY <1>4 DEF CountBeat
<1>8. \A m : Len(Append(<<>>, m)) = 1 /\ Head(Append(<<>>, m)) = m /\ Append(<<>>, m) # <<>>
  OBVIOUS
<1> HIDE DEF locked
<1>9. CASE BurstEnd(locked)
  <2>1. memBurstCounter = BurstLen - 1 /\ memBursting /\ ~memBursting'
        /\ memQueue' = Append(<<>>, burstRequest)
        /\ memBurstCounter' = CountBeat(0, locked)
    BY <1>3, <1>9 DEF BurstEnd
  <2>2. MemoryHoldsBus
    BY <1>4, <2>1 DEF MemoryBus
  <2> QED BY <1>1, <1>2, <1>3, <1>6, <1>8, <2>1, <2>2 DEF MemoryBus
<1>10. CASE BurstBeat(locked)
  <2>1. /\ memBursting /\ memBursting' = memBursting
        /\ memQueue' = IF locked THEN Append(<<>>, NullBurst) ELSE <<>>
        /\ memBurstCounter' = CountBeat(memBurstCounter, locked)
    BY <1>3, <1>10 DEF BurstBeat
  <2>2. memBurstCounter \in 0 .. BurstLen - 1
    BY <1>4, <1>5, <2>1 DEF BurstCounted
  <2>3. memBurstCounter' = IF locked THEN memBurstCounter + 1 ELSE memBurstCounter
    BY <1>7, <2>1, <2>2
  <2>4. ~MemoryHoldsBus => memBurstCounter' <= 1
    BY <1>2, <2>3 DEF MemoryBus
  <2>5. memQueue' # <<>> => MemoryHoldsBus /\ Len(memQueue') = 1
                          /\ Head(memQueue').command = "NULL_BURST"
    BY <1>2, <1>8, <2>1 DEF NullBurst
  <2> QED BY <1>1, <1>2, <1>3, <1>4, <1>6, <2>1, <2>3, <2>4, <2>5 DEF MemoryBus
<1>11. CASE QueueDataReturn \/ AgeReads
  <2>1. ~memBursting /\ memQueue' = <<>> /\ memBurstCounter' = memBurstCounter
    BY <1>3, <1>11 DEF QueueDataReturn, AgeReads
  <2> QED BY <1>1, <1>2, <1>3, <1>6, <2>1 DEF MemoryBus
<1> QED BY <1>1, <1>9, <1>10, <1>11 DEF MemTick

(* In the bus cycle, too.                                                  *)
LEMMA CycleKeepsBus ==
  ASSUME IInv, MemoryBus, TickInterconnect
  PROVE  /\ MemoryBus' /\ memQueue' = <<>>
         /\ memBursting' = memBursting /\ memBurstCounter' = memBurstCounter
         /\ MemoryHoldsBus' => ServicedNode = MemoryAddress
         /\ MemoryHoldsBus \/ memQueue # <<>> => ServicedNode = MemoryAddress
         /\ memQueue # <<>> => MemoryHoldsBus
<1>1. /\ turn = BusTurn /\ turn' = FetchTurn
      /\ BusTick(MaxRequesters, LockRequesters, Transmitters)
      /\ QuietCycle \/ MemoryTransmits \/ \E p \in Procs : ProcessorTransmits(p)
  BY DEF TickInterconnect
<1>2. memQueue # <<>> => MemoryHoldsBus
  BY DEF MemoryBus
<1>3. MemoryHoldsBus => ServicedNode = MemoryAddress
  BY CycleFacts DEF MemoryHoldsBus
<1>4. MemoryHoldsBus' => ServicedNode = MemoryAddress /\ memBursting
  <2>1. MemoryHoldsBus' => lockedAddress' = ServicedNode /\ ServicedNode \in LockRequesters
    BY <1>1 DEF MemoryHoldsBus, BusTick, ServicedNode
  <2>2. MemoryAddress \in LockRequesters => memBursting
    BY BusNodesFacts DEF LockRequesters, MemRequestsLock
  <2> QED BY <2>1, <2>2 DEF MemoryHoldsBus
<1>5. memBursting /\ MemoryHoldsBus => MemoryHoldsBus'
  BY <1>1, <1>3, CycleFacts DEF LockRequesters, MemRequestsLock, MemoryHoldsBus
<1>6. memBursting' = memBursting /\ memBurstCounter' = memBurstCounter
  BY <1>1 DEF QuietCycle, MemoryTransmits, ProcessorTransmits, MemAccept, MemInitiate, memVars
<1>7. memQueue' = <<>>
  <2>1. CASE memQueue = <<>>
    BY <1>1, <2>1 DEF QuietCycle, MemoryTransmits, MemRequestsTransaction, ProcessorTransmits,
                      MemAccept, memVars
  <2>2. CASE memQueue # <<>>
    <3>1. ServicedNode = MemoryAddress /\ MemoryAddress \in Transmitters
      BY <1>2, <1>3, <2>2 DEF Transmitters, MemRequestsTransaction
    <3>2. MemoryTransmits
      BY <1>1, <3>1, BusNodesFacts DEF QuietCycle, ProcessorTransmits
    <3>3. memQueue' = Tail(memQueue)
      BY <3>2 DEF MemoryTransmits, MemInitiate
    <3>4. memQueue \in Seq(BusRequest) /\ Len(memQueue) = 1
      BY <2>2 DEF IInv, TypeOK, MemTypeOK, MemoryBus
    <3>5. Tail(memQueue) \in Seq(BusRequest) /\ Len(Tail(memQueue)) = 1 - 1
      BY <2>2, <3>4, HeadTailProperties
    <3> QED BY <3>3, <3>5, EmptySeq
  <2> QED BY <2>1, <2>2
<1>8. BurstCounted'
  BY <1>6 DEF MemoryBus, BurstCounted
<1>9. ~MemoryHoldsBus' => memBurstCounter' <= 1
  BY <1>5, <1>6 DEF MemoryBus, BurstCounted
<1> QED BY <1>2, <1>3, <1>4, <1>6, <1>7, <1>8, <1>9 DEF MemoryBus

LEMMA OthersKeepBus ==
  ASSUME MemoryBus, UNCHANGED <<memVars, busVars>>, turn' # BusTurn, turn # BusTurn
  PROVE  MemoryBus'
BY DEF MemoryBus, BurstCounted, MemoryHoldsBus, memVars, busVars

-----------------------------------------------------------------------------
(* How long a processor has waited beyond what its finished instructions   *)
(* account for. A miss takes BurstLen + 1 from it at once, and the cycles  *)
(* of the wait give that back: while a read is awaited, no burst is further*)
(* on than the processor has waited for it.                                *)

Surplus(p) ==
  totalWaitCycles[p] - numberMemoryOperations[p] - Misses(p) * (BurstLen + 1)

Waited(p) ==
  /\ \A q \in Procs :
       Surplus(p) >= ctl[q].burstCounter - (BurstLen + 1) + IF turn < p THEN 1 ELSE 0
  /\ MemoryHoldsBus /\ memBursting =>
       Surplus(p) >= memBurstCounter - (BurstLen + 1)
                       + IF MemoryTurn <= turn /\ turn < p THEN 1 ELSE 0
  /\ memQueue # <<>> /\ Head(memQueue).command = "DATA_RETURN_MEMORY" => Surplus(p) >= -1

Patient(p) ==
  /\ pState[p] = "IDLE" => Surplus(p) >= 0
  /\ pState[p] = "CHECKOPTYPE" => Surplus(p) >= -1
  /\ pState[p] = "MEMORYRETURNWAIT" /\ ctl[p].state \notin IssueStates => Surplus(p) >= 0
  /\ ctl[p].state \in IssueStates => Surplus(p) >= -(BurstLen + 1)
  /\ ReadArrived(ctl[p]) => Surplus(p) >= -1
  /\ ctl[p].awaitingBusRead => Waited(p)

LatencyInv == MemoryBus /\ \A p \in Procs : Patient(p)

LEMMA SurplusTyped ==
  ASSUME StatsTyped, NEW p \in Procs
  PROVE  Surplus(p) \in Int /\ Misses(p) \in Nat
<1>1. numberMemoryOperations[p] \in Nat /\ totalWaitCycles[p] \in Nat
  BY DEF StatsTyped
<1>2. misses[p]["LOAD"] \in Nat /\ misses[p]["STORE"] \in Nat
  BY DEF StatsTyped, Ops
<1>3. Misses(p) \in Nat
  BY <1>2 DEF Misses
<1>4. Misses(p) * (BurstLen + 1) \in Nat
  BY <1>3, BurstLenAssumption
<1> QED BY <1>1, <1>3, <1>4 DEF Surplus

LEMMA SurplusSteps ==
  ASSUME IInv, StatsTyped, NEW p \in Procs, SimTickProcessor(p)
  PROVE  /\ \A q \in Procs \ {p} : Surplus(q)' = Surplus(q)
         /\ Surplus(p)' = Surplus(p) + (IF pState'[p] = "MEMORYRETURNWAIT" THEN 1 ELSE 0)
              - (IF pState'[p] = "CHECKOPTYPE" THEN 1 ELSE 0)
              - (IF pState[p] = "CHECKOPTYPE" /\ ~Contains(ctl[p], Line(p)) THEN BurstLen + 1 ELSE 0)
<1>1. CountLookup(p) /\ CountState(p)
  BY DEF SimTickProcessor
<1>2. ASSUME NEW q \in Procs, q # p PROVE Surplus(q)' = Surplus(q)
  <2>1. /\ numberMemoryOperations'[q] = numberMemoryOperations[q]
        /\ totalWaitCycles'[q] = totalWaitCycles[q] /\ misses'[q] = misses[q]
    BY <1>1, <1>2, Counted
  <2> QED BY <2>1 DEF Surplus, Misses
<1>3. /\ Misses(p) \in Nat /\ BurstLen \in Nat
      /\ numberMemoryOperations[p] \in Nat /\ totalWaitCycles[p] \in Nat
  BY SurplusTyped, BurstLenAssumption DEF StatsTyped
<1> DEFINE missed == pState[p] = "CHECKOPTYPE" /\ ~Contains(ctl[p], Line(p))
<1>4. /\ numberMemoryOperations'[p] =
           numberMemoryOperations[p] + IF pState'[p] = "CHECKOPTYPE" THEN 1 ELSE 0
      /\ totalWaitCycles'[p] =
           totalWaitCycles[p] + IF pState'[p] = "MEMORYRETURNWAIT" THEN 1 ELSE 0
      /\ Misses(p)' = Misses(p) + IF missed THEN 1 ELSE 0
  BY <1>1, Counted
<1>5. Misses(p)' * (BurstLen + 1)
        = Misses(p) * (BurstLen + 1) + IF missed THEN BurstLen + 1 ELSE 0
  <2>1. \A m, n \in Nat : (m + 1) * n = m * n + n
    OBVIOUS
  <2>2. BurstLen + 1 \in Nat /\ Misses(p) * (BurstLen + 1) \in Nat
    BY <1>3
  <2>3. CASE missed
    BY <1>3, <1>4, <2>1, <2>2, <2>3
  <2>4. CASE ~missed
    <3>1. Misses(p)' = Misses(p)
      BY <1>3, <1>4, <2>4
    <3> QED BY <2>2, <2>4, <3>1
  <2> QED BY <2>3, <2>4
<1>6. Misses(p) * (BurstLen + 1) \in Nat
  BY <1>3
<1> DEFINE before == Misses(p) * (BurstLen + 1)
           after  == Misses(p)' * (BurstLen + 1)
<1>7. /\ Surplus(p) = totalWaitCycles[p] - numberMemoryOperations[p] - before
      /\ Surplus(p)' = totalWaitCycles'[p] - numberMemoryOperations'[p] - after
  BY DEF Surplus
<1>8. after = before + (IF missed THEN BurstLen + 1 ELSE 0) /\ before \in Nat
  BY <1>5, <1>6
<1> HIDE DEF missed, before, after
<1>9. Surplus(p)' = Surplus(p) + (IF pState'[p] = "MEMORYRETURNWAIT" THEN 1 ELSE 0)
              - (IF pState'[p] = "CHECKOPTYPE" THEN 1 ELSE 0)
              - (IF missed THEN BurstLen + 1 ELSE 0)
  BY <1>3, <1>4, <1>7, <1>8
<1> QED BY <1>2, <1>9 DEF missed

LEMMA InitPatient == SimInit => LatencyInv
<1> SUFFICES ASSUME SimInit PROVE LatencyInv
  OBVIOUS
<1>1. MemoryBus
  BY DEF SimInit, Init, MemInit, BusInit, MemoryBus, BurstCounted, MemoryHoldsBus
<1>2. ASSUME NEW p \in Procs PROVE Patient(p)
  <2>1. pState[p] = "IDLE" /\ ctl[p] = NewController
    BY <1>2 DEF SimInit, Init, ProcInit
  <2>2. Misses(p) = 0 /\ numberMemoryOperations[p] = 0 /\ totalWaitCycles[p] = 0
    BY DEF SimInit, Misses, Ops
  <2>3. Surplus(p) = 0
    BY <2>2, BurstLenAssumption DEF Surplus
  <2>4. ctl[p].state = "IDLE" /\ ~ctl[p].awaitingBusRead
    BY <2>1 DEF NewController
  <2> QED BY <2>1, <2>3, <2>4 DEF Patient, ReadArrived, IssueStates
<1> QED BY <1>1, <1>2 DEF LatencyInv

(* What no step of the memory, the bus or the reader changes.              *)
LEMMA SameSurplus ==
  ASSUME UNCHANGED procStats, NEW p \in Procs
  PROVE  Surplus(p)' = Surplus(p)
BY DEF procStats, Surplus, Misses

LEMMA ReadingKeepsPatience ==
  ASSUME IInv, StatsTyped, LatencyInv, ReadTraces
  PROVE  LatencyInv'
<1>1. /\ turn = FetchTurn /\ turn' = FetchTurn - 1
      /\ UNCHANGED <<ctl, pState, memVars, busVars>> /\ UNCHANGED procStats
  BY DEF ReadTraces, Insert
<1>2. MemoryBus'
  BY <1>1, TurnsDiffer, OthersKeepBus DEF LatencyInv
<1>3. ASSUME NEW p \in Procs PROVE Patient(p)'
  <2>1. Surplus(p)' = Surplus(p)
    BY <1>1, SameSurplus
  <2>2. Patient(p)
    BY DEF LatencyInv
  <2>3. ~(turn < p) /\ ~(turn' < p)
    BY <1>1, TurnsDiffer
  <2>4. Waited(p) => Waited(p)'
    BY <1>1, <2>1, <2>3 DEF Waited, MemoryHoldsBus, memVars, busVars
  <2> QED BY <1>1, <2>1, <2>2, <2>4 DEF Patient
<1> QED BY <1>2, <1>3 DEF LatencyInv

LEMMA TickingKeepsPatience ==
  ASSUME IInv, IInv', CoherenceInv, StatsTyped, StatsTyped', LatencyInv, NEW p \in Procs,
         SimTickProcessor(p)
  PROVE  LatencyInv'
<1>1. /\ turn = p /\ turn' = p - 1 /\ ProcessorTick(p) /\ ControllerTick(p)
      /\ UNCHANGED <<memVars, busVars>> /\ TickProcessor(p)
  BY DEF SimTickProcessor, TickProcessor, ProcessorTick
<1>2. MemoryBus'
  BY <1>1, TurnsDiffer, OthersKeepBus DEF LatencyInv
<1>3. /\ Advanced(ctl[p], Line(p), ctl'[p])
      /\ \A q \in Procs \ {p} : ctl'[q] = ctl[q] /\ pState'[q] = pState[q]
  BY <1>1, TickedController, TickedProcessors, ProcessorSteps
<1>4. /\ \A q \in Procs : ctl'[q].burstCounter = ctl[q].burstCounter
      /\ ctl'[p].awaitingBusRead => ctl[p].awaitingBusRead
      /\ ~ReadArrived(ctl'[p])
  BY <1>3 DEF Advanced
<1>5. \A q \in Procs : /\ q \in Nat /\ p \in Nat \ {0}
                       /\ q # p => (turn' < q <=> turn < q)
                       /\ ~(turn < p) /\ turn' < p /\ MemoryTurn <= turn /\ MemoryTurn <= turn'
  BY <1>1, TurnsDiffer DEF MemoryTurn
<1>6. memQueue = <<>> /\ memQueue' = <<>>
  BY <1>1, TurnsDiffer DEF LatencyInv, MemoryBus, memVars
<1>7. /\ \A q \in Procs : Surplus(q) \in Int /\ Patient(q) /\ ctl[q].burstCounter \in Nat
      /\ memBurstCounter \in Nat /\ BurstLen \in Nat
  <2>1. \A q \in Procs : ctl[q] \in Controller
    BY ControllerFacts
  <2>2. \A q \in Procs : ctl[q].burstCounter \in Nat
    BY <2>1, BurstLenAssumption DEF Controller
  <2>3. memBurstCounter \in Nat
    BY CounterModulusAssumption DEF IInv, TypeOK, MemTypeOK
  <2> QED BY <2>2, <2>3, SurplusTyped, BurstLenAssumption DEF LatencyInv
<1>8. /\ UNCHANGED <<memBursting, memBurstCounter>>
      /\ MemoryHoldsBus' <=> MemoryHoldsBus
  BY <1>1 DEF memVars, busVars, MemoryHoldsBus
<1>9. ASSUME NEW q \in Procs, q # p PROVE Patient(q)'
  <2>1. Surplus(q)' = Surplus(q)
    BY <1>9, SurplusSteps
  <2>2. Waited(q) => Waited(q)'
    BY <1>4, <1>5, <1>6, <1>8, <1>9, <2>1 DEF Waited
  <2>3. ctl'[q] = ctl[q] /\ pState'[q] = pState[q]
    BY <1>3, <1>9
  <2> QED BY <1>7, <2>1, <2>2, <2>3 DEF Patient
<1>10. Patient(p)'
  <2> DEFINE c == ctl[p]
             d == ctl'[p]
             s == Surplus(p)
             s1 == Surplus(p)'
  <2>1. /\ pState[p] \in {"IDLE", "CHECKOPTYPE", "MEMORYRETURNWAIT"} /\ Agrees(p)
        /\ pState'[p] \in {"IDLE", "CHECKOPTYPE", "MEMORYRETURNWAIT"} /\ Agrees(p)'
    BY DEF IInv, TypeOK, ProcTypeOK, ProcessorControllerAgreement, Agrees
  <2>2. s1 = s + (IF pState'[p] = "MEMORYRETURNWAIT" THEN 1 ELSE 0)
              - (IF pState'[p] = "CHECKOPTYPE" THEN 1 ELSE 0)
              - (IF pState[p] = "CHECKOPTYPE" /\ ~Contains(c, Line(p)) THEN BurstLen + 1 ELSE 0)
    BY SurplusSteps
  <2>3. s \in Int /\ BurstLen \in Nat /\ Patient(p)
    BY <1>7
  <2>4. pState'[p] = NextProcessorState(p) /\ (StillPending(p) <=> pending[p] /\ d.state # "IDLE")
    BY <1>1, ProcessorSteps DEF StillPending
  <2>5. InPhase(c, Line(p))
    BY ControllerFacts
  <2> HIDE DEF s, s1, c, d
  <2>6. CASE pState[p] = "IDLE"
    <3>1. ~pending[p] /\ c.state = "IDLE"
      BY <2>1, <2>6 DEF Agrees, c
    <3>2. d.state = "IDLE"
      BY <1>1, <3>1, ControllerMoves DEF c, d
    <3>3. pState'[p] \in {"IDLE", "CHECKOPTYPE"}
      BY <2>4, <2>6 DEF NextProcessorState
    <3>4. s >= 0
      BY <2>3, <2>6 DEF Patient, s
    <3>5. ~c.awaitingBusRead
      BY <2>5, <3>1 DEF InPhase, IssueStates, Quiet
    <3>6. (pState'[p] = "IDLE" => s1 >= 0) /\ (pState'[p] = "CHECKOPTYPE" => s1 >= -1)
      BY <2>2, <2>3, <2>6, <3>3, <3>4
    <3> QED BY <1>4, <3>2, <3>3, <3>5, <3>6 DEF Patient, IssueStates, c, d, s1
  <2>7. CASE pState[p] = "CHECKOPTYPE"
    <3>1. pending[p] /\ c.state = "IDLE"
      BY <2>1, <2>7 DEF Agrees, c
    <3>2. d.state # "IDLE" /\ (~Contains(c, Line(p)) => d.state \in IssueStates)
      BY <1>1, <3>1, ControllerMoves DEF c, d
    <3>3. pState'[p] = "MEMORYRETURNWAIT"
      BY <2>4, <2>7, <3>1, <3>2 DEF NextProcessorState
    <3>4. s >= -1
      BY <2>3, <2>7 DEF Patient, s
    <3>5. ~c.awaitingBusRead
      BY <2>5, <3>1 DEF InPhase, IssueStates, Quiet
    <3>6. s1 >= -(BurstLen + 1) /\ (Contains(c, Line(p)) => s1 >= 0)
      BY <2>2, <2>3, <2>7, <3>3, <3>4
    <3> QED BY <1>4, <3>2, <3>3, <3>5, <3>6 DEF Patient, c, d, s1
  <2>8. CASE pState[p] = "MEMORYRETURNWAIT"
    <3>1. pending[p] /\ c.state # "IDLE"
      BY <2>1, <2>8 DEF Agrees, c
    <3>2. pState'[p] = IF d.state = "IDLE" THEN "IDLE" ELSE "MEMORYRETURNWAIT"
      BY <2>4, <2>8, <3>1 DEF NextProcessorState
    <3>3. s1 = s + IF d.state = "IDLE" THEN 0 ELSE 1
      BY <2>2, <2>3, <2>8, <3>2
    <3>4. CASE c.state \notin IssueStates
      <4>1. d.state \notin IssueStates
        BY <1>1, <3>1, <3>4, ControllerMoves DEF c, d
      <4>2. s >= 0
        BY <2>3, <2>8, <3>4 DEF Patient, s, c
      <4>3. ~c.awaitingBusRead
        BY <2>5, <3>4 DEF InPhase, Quiet
      <4>4. s1 >= 0
        BY <2>3, <3>3, <4>2
      <4> QED BY <1>4, <3>2, <4>1, <4>3, <4>4 DEF Patient, c, d, s1
    <3>5. CASE c.state \in IssueStates /\ ReadOutstanding(c)
      <4>1. d.state = c.state
        BY <1>1, <3>5, ControllerMoves DEF c, d
      <4>2. s >= -(BurstLen + 1) /\ s1 = s + 1
        BY <2>3, <3>1, <3>3, <3>5, <4>1 DEF Patient, s, c
      <4>3. c.awaitingBusRead => Waited(p)
        BY <2>3 DEF Patient, c
      <4>4. Waited(p) => Waited(p)'
        BY <1>4, <1>5, <1>6, <1>7, <1>8, <4>2 DEF Waited, s, s1
      <4>5. s1 >= -(BurstLen + 1)
        BY <2>3, <4>2
      <4> QED BY <1>4, <3>1, <3>2, <3>5, <4>1, <4>3, <4>4, <4>5 DEF Patient, c, d, s1
    <3>6. CASE c.state \in IssueStates /\ ~ReadOutstanding(c)
      <4>1. d.state \notin IssueStates
        BY <1>1, <3>6, ControllerMoves DEF c, d
      <4>2. ReadArrived(c)
        BY <2>5, <3>6, NoAddrAssumption
           DEF InPhase, ReadQueued, ReadDispatched, ReadOutstanding
      <4>3. s >= -1 /\ ~c.awaitingBusRead
        BY <2>3, <4>2 DEF Patient, ReadArrived, Quiet, s, c
      <4>4. d.state # "IDLE"
        BY <1>1, <3>6, ControllerMoves DEF c, d
      <4>5. s1 >= 0
        BY <2>3, <3>3, <4>3, <4>4
      <4> QED BY <1>4, <3>2, <4>1, <4>3, <4>4, <4>5 DEF Patient, c, d, s1
    <3> QED BY <3>4, <3>5, <3>6
  <2> QED BY <2>1, <2>6, <2>7, <2>8
<1> QED BY <1>2, <1>9, <1>10 DEF LatencyInv


(* A tick of the memory: a beat of its burst is a cycle of the wait.       *)
LEMMA BurstingKeepsPatience ==
  ASSUME BurstLen > 2, IInv, IInv', LockAgreement, StatsTyped, LatencyInv, SimTickMemory
  PROVE  LatencyInv'
<1>1. /\ turn = MemoryTurn /\ turn' = BusTurn /\ TickMemory /\ MemoryBus
      /\ UNCHANGED <<ctl, pState, busVars>> /\ UNCHANGED procStats
  BY TurnsDiffer DEF SimTickMemory, TickMemory, procVars, LatencyInv
<1>2. /\ MemoryBus' /\ memQueue = <<>> /\ (MemoryHoldsBus => memBursting)
      /\ memBursting /\ MemoryHoldsBus /\ memBursting' => memBurstCounter' <= memBurstCounter + 1
      /\ memQueue' # <<>> /\ Head(memQueue').command = "DATA_RETURN_MEMORY" =>
           memBurstCounter = BurstLen - 1 /\ MemoryHoldsBus /\ memBursting
  BY <1>1, MemTickKeepsBus
<1>3. /\ memBurstCounter \in Nat /\ memBurstCounter' \in Nat /\ BurstLen \in Nat
      /\ MemoryHoldsBus' <=> MemoryHoldsBus
  <2>1. memBurstCounter \in Nat /\ memBurstCounter' \in Nat
    BY CounterModulusAssumption DEF IInv, TypeOK, MemTypeOK
  <2> QED BY <1>1, <2>1, BurstLenAssumption DEF busVars, MemoryHoldsBus
<1>4. ASSUME NEW p \in Procs PROVE Patient(p)'
  <2>1. Surplus(p)' = Surplus(p) /\ Surplus(p) \in Int /\ Patient(p)
    BY <1>1, SameSurplus, SurplusTyped DEF LatencyInv
  <2>2. turn < p /\ turn' < p /\ MemoryTurn <= turn /\ ~(MemoryTurn <= turn')
    BY <1>1, TurnsDiffer DEF MemoryTurn, BusTurn
  <2>3. ASSUME Waited(p) PROVE Waited(p)'
    <3>1. \A q \in Procs :
            Surplus(p)' >= ctl'[q].burstCounter - (BurstLen + 1) + IF turn' < p THEN 1 ELSE 0
      BY <1>1, <2>1, <2>2, <2>3 DEF Waited
    <3>2. MemoryHoldsBus => Surplus(p) >= memBurstCounter - BurstLen
      <4>1. MemoryHoldsBus => Surplus(p) >= memBurstCounter - (BurstLen + 1) + 1
        BY <1>2, <2>2, <2>3 DEF Waited
      <4> QED BY <1>3, <2>1, <4>1
    <3>3. MemoryHoldsBus' /\ memBursting' => Surplus(p)' >= memBurstCounter' - (BurstLen + 1) + 0
      BY <1>2, <1>3, <2>1, <3>2
    <3>4. memQueue' # <<>> /\ Head(memQueue').command = "DATA_RETURN_MEMORY"
            => Surplus(p)' >= -1
      BY <1>2, <1>3, <2>1, <3>2
    <3> QED BY <2>2, <3>1, <3>3, <3>4 DEF Waited
  <2> QED BY <1>1, <2>1, <2>3 DEF Patient
<1> QED BY <1>2, <1>4 DEF LatencyInv

(* A cycle of the bus: it brings a read its answer with the last beat.     *)
LEMMA SendingKeepsPatience ==
  ASSUME IInv, IInv', CoherenceInv, StatsTyped, LatencyInv, SimTickInterconnect
  PROVE  LatencyInv'
<1>1. /\ turn = BusTurn /\ turn' = FetchTurn /\ pState' = pState /\ TickInterconnect /\ MemoryBus
      /\ QuietCycle \/ MemoryTransmits \/ \E p \in Procs : ProcessorTransmits(p)
      /\ UNCHANGED procStats
  BY DEF SimTickInterconnect, TickInterconnect, LatencyInv
<1>2. /\ MemoryBus' /\ memQueue' = <<>>
      /\ memBursting' = memBursting /\ memBurstCounter' = memBurstCounter
      /\ MemoryHoldsBus' => ServicedNode = MemoryAddress
      /\ memQueue # <<>> => MemoryHoldsBus
  BY <1>1, CycleKeepsBus
<1>3. /\ memBurstCounter \in Nat /\ BurstLen \in Nat
      /\ \A q \in Procs : ctl[q].burstCounter \in Nat /\ ~ReadArrived(ctl[q])
  <2>1. memBurstCounter \in Nat
    BY CounterModulusAssumption DEF IInv, TypeOK, MemTypeOK
  <2> QED BY <1>1, <2>1, ControllerFacts, CycleControllers, BurstLenAssumption DEF Controller
<1>4. ASSUME NEW p \in Procs PROVE Patient(p)'
  <2>1. Surplus(p)' = Surplus(p) /\ Surplus(p) \in Int /\ Patient(p)
    BY <1>1, SameSurplus, SurplusTyped DEF LatencyInv
  <2>2. turn < p /\ ~(turn' < p) /\ ~(MemoryTurn <= turn)
    BY <1>1, TurnsDiffer DEF MemoryTurn, BusTurn
  <2>3. ASSUME Waited(p)
        PROVE  /\ \A q \in Procs : Surplus(p) >= ctl[q].burstCounter - BurstLen
               /\ MemoryHoldsBus /\ memBursting => Surplus(p) >= memBurstCounter - (BurstLen + 1)
               /\ memQueue # <<>> /\ Head(memQueue).command = "DATA_RETURN_MEMORY" =>
                    Surplus(p) >= -1
    <3>1. \A q \in Procs : Surplus(p) >= ctl[q].burstCounter - (BurstLen + 1) + 1
      BY <2>2, <2>3 DEF Waited
    <3>2. MemoryHoldsBus /\ memBursting => Surplus(p) >= memBurstCounter - (BurstLen + 1) + 0
      BY <2>2, <2>3 DEF Waited
    <3> QED BY <1>3, <2>1, <2>3, <3>1, <3>2 DEF Waited
  <2>4. ASSUME Waited(p), \A q \in Procs : ctl'[q].burstCounter <= ctl[q].burstCounter + 1,
               \A q \in Procs : ctl'[q].burstCounter \in Nat
        PROVE  Waited(p)'
    <3>1. \A q \in Procs :
            Surplus(p)' >= ctl'[q].burstCounter - (BurstLen + 1) + IF turn' < p THEN 1 ELSE 0
      <4> SUFFICES ASSUME NEW q \in Procs
                   PROVE  Surplus(p) >= ctl'[q].burstCounter - (BurstLen + 1) + 0
        BY <2>1, <2>2
      <4>1. Surplus(p) >= ctl[q].burstCounter - BurstLen
        BY <2>3, <2>4
      <4> QED BY <1>3, <2>1, <2>4, <4>1
    <3>2. MemoryHoldsBus' /\ memBursting' => Surplus(p) >= memBurstCounter - (BurstLen + 1)
      <4>1. CASE MemoryHoldsBus
        BY <1>2, <2>3, <2>4, <4>1
      <4>2. CASE ~MemoryHoldsBus
        <5>1. memBurstCounter <= 1
          BY <1>1, <4>2 DEF MemoryBus
        <5>2. Surplus(p) >= ctl[p].burstCounter - BurstLen
          BY <2>3, <2>4
        <5> QED BY <1>3, <2>1, <5>1, <5>2
      <4> QED BY <4>1, <4>2
    <3>3. MemoryHoldsBus' /\ memBursting' =>
            Surplus(p)' >= memBurstCounter' - (BurstLen + 1)
                             + IF MemoryTurn <= turn' /\ turn' < p THEN 1 ELSE 0
      BY <1>2, <1>3, <2>1, <2>2, <3>2
    <3> QED BY <1>2, <3>1, <3>3 DEF Waited
  <2>5. CASE QuietCycle
    <3>1. ctl' = ctl
      BY <2>5 DEF QuietCycle
    <3>2. Waited(p) => Waited(p)'
      BY <1>3, <2>4, <3>1
    <3> QED BY <1>1, <2>1, <3>1, <3>2 DEF Patient
  <2>6. CASE MemoryTransmits
    <3>1. \A q \in Procs :
            /\ ctl'[q].state = ctl[q].state /\ ctl'[q].burstCounter = ctl[q].burstCounter
            /\ ctl'[q].awaitingBusRead => ctl[q].awaitingBusRead
            /\ ReadArrived(ctl'[q]) =>
                 ctl[q].awaitingBusRead /\ Head(memQueue).command = "DATA_RETURN_MEMORY"
      BY <1>1, <2>6, MemorySendsIt
    <3>2. memQueue # <<>>
      BY <2>6 DEF MemoryTransmits, MemRequestsTransaction
    <3>3. Waited(p) => Waited(p)'
      BY <1>3, <2>4, <3>1
    <3>4. ReadArrived(ctl'[p]) => Surplus(p) >= -1
      BY <2>1, <2>3, <3>1, <3>2 DEF Patient
    <3>5. ctl'[p].awaitingBusRead => Waited(p)'
      BY <2>1, <3>1, <3>3 DEF Patient
    <3> QED BY <1>1, <2>1, <3>1, <3>4, <3>5 DEF Patient
  <2>7. ASSUME NEW s \in Procs, ProcessorTransmits(s) PROVE Patient(p)'
    <3>1. \A q \in Procs :
            /\ ctl'[q].state = ctl[q].state
            /\ ctl'[q].burstCounter <= ctl[q].burstCounter + 1
            /\ ReadArrived(ctl'[q]) => ctl[q].awaitingBusRead /\ ctl[s].burstCounter = BurstLen - 1
            /\ ctl'[q].awaitingBusRead /\ ~ctl[q].awaitingBusRead =>
                 q = s /\ ctl[s].state \in IssueStates /\ \A r \in Procs : ctl'[r].burstCounter = 0
      BY <1>1, <2>7, ProcessorSends
    <3>2. \A q \in Procs : ctl'[q].burstCounter \in Nat
      BY BurstLenAssumption DEF IInv, TypeOK, ProcTypeOK, Controller
    <3>3. ~MemoryHoldsBus'
      BY <1>2, <2>7, BusNodesFacts DEF ProcessorTransmits
    <3>4. ReadArrived(ctl'[p]) => Surplus(p) >= -1
      <4> SUFFICES ASSUME ReadArrived(ctl'[p]) PROVE Surplus(p) >= -1
        OBVIOUS
      <4>1. Waited(p) /\ ctl[s].burstCounter = BurstLen - 1
        BY <2>1, <3>1 DEF Patient
      <4>2. Surplus(p) >= ctl[s].burstCounter - BurstLen
        BY <2>3, <4>1
      <4> QED BY <1>3, <2>1, <4>1, <4>2
    <3>5. CASE ctl'[p].awaitingBusRead /\ ~ctl[p].awaitingBusRead
      <4>1. ctl[p].state \in IssueStates /\ \A r \in Procs : ctl'[r].burstCounter = 0
        BY <3>1, <3>5
      <4>2. Surplus(p) >= -(BurstLen + 1)
        BY <2>1, <4>1 DEF Patient
      <4>3. \A q \in Procs :
              Surplus(p)' >= ctl'[q].burstCounter - (BurstLen + 1) + IF turn' < p THEN 1 ELSE 0
        BY <1>3, <2>1, <2>2, <4>1, <4>2
      <4>4. Waited(p)'
        BY <1>2, <3>3, <4>3 DEF Waited
      <4> QED BY <1>1, <2>1, <3>1, <3>4, <4>4 DEF Patient
    <3>6. CASE ctl'[p].awaitingBusRead => ctl[p].awaitingBusRead
      <4>1. Waited(p) => Waited(p)'
        BY <2>4, <3>1, <3>2
      <4>2. ctl'[p].awaitingBusRead => Waited(p)'
        BY <2>1, <3>6, <4>1 DEF Patient
      <4> QED BY <1>1, <2>1, <3>1, <3>4, <4>2 DEF Patient
    <3> QED BY <3>5, <3>6
  <2> QED BY <1>1, <2>5, <2>6, <2>7
<1> QED BY <1>2, <1>4 DEF LatencyInv

LEMMA NextKeepsPatience ==
  BurstLen > 2 /\ IInv /\ IInv' /\ CoherenceInv /\ LockAgreement /\ StatsTyped /\ StatsTyped'
    /\ LatencyInv /\ [SimNext]_simVars => LatencyInv'
<1> SUFFICES ASSUME BurstLen > 2, IInv, IInv', CoherenceInv, LockAgreement, StatsTyped,
                    StatsTyped', LatencyInv, [SimNext]_simVars
             PROVE  LatencyInv'
  OBVIOUS
<1>1. CASE ReadTraces
  BY <1>1, ReadingKeepsPatience
<1>2. CASE \E p \in Procs : SimTickProcessor(p)
  BY <1>2, TickingKeepsPatience
<1>3. CASE SimTickMemory
  BY <1>3, BurstingKeepsPatience
<1>4. CASE SimTickInterconnect
  BY <1>4, SendingKeepsPatience
<1>5. CASE UNCHANGED <<vars, procStats>>
  <2>1. /\ UNCHANGED <<turn, ctl, pState>> /\ UNCHANGED memVars /\ UNCHANGED busVars
        /\ UNCHANGED procStats
    BY <1>5 DEF vars, procVars
  <2>2. MemoryBus' /\ (MemoryHoldsBus' <=> MemoryHoldsBus)
    BY <2>1 DEF LatencyInv, MemoryBus, BurstCounted, MemoryHoldsBus, memVars, busVars
  <2>3. ASSUME NEW p \in Procs PROVE Patient(p)'
    <3>1. Surplus(p)' = Surplus(p) /\ Patient(p)
      BY <2>1, SameSurplus DEF LatencyInv
    <3>2. Waited(p) => Waited(p)'
      BY <2>1, <2>2, <3>1 DEF Waited, memVars
    <3> QED BY <2>1, <3>1, <3>2 DEF Patient
  <2> QED BY <2>2, <2>3 DEF LatencyInv
<1>6. LeaveLoop \/ UNCHANGED simVars => UNCHANGED <<vars, procStats>>
  BY DEF LeaveLoop, simVars
<1> QED BY <1>1, <1>2, <1>3, <1>4, <1>5, <1>6 DEF SimNext

(* The reported latency accounts for the transfers (Processor.cpp:42-46):  *)
(* a miss has waited out a burst whoever answers it, also one that arrives *)
(* in the middle of another burst, and the memory's own, which may be a    *)
(* beat short (Memory.cpp:71). A burst of one or two beats could end       *)
(* before the memory has the bus at all.                                   *)
THEOREM MissesWaitOutTheBurst ==
  ASSUME BurstLen > 2
  PROVE  SimSpec => []MissesWaitForTheBurst
<1>1. SimSpec => []LockAgreement
  BY RunsAreBehaviours, LockIsAgreed, PTL DEF ImplementsSystem
<1>2. Machine => IInv /\ CoherenceInv
  BY DEF Machine
<1>3. Machine' => IInv'
  BY DEF Machine
<1>4. SimInit => LatencyInv
  BY InitPatient
<1>5. IInv /\ IInv' /\ CoherenceInv /\ LockAgreement /\ StatsTyped /\ StatsTyped'
        /\ LatencyInv /\ [SimNext]_simVars => LatencyInv'
  BY NextKeepsPatience
<1>6. StatsTyped /\ LatencyInv => MissesWaitForTheBurst
  <2> SUFFICES ASSUME StatsTyped, LatencyInv, NEW p \in Procs, pState[p] = "IDLE"
               PROVE  totalWaitCycles[p] >=
                        numberMemoryOperations[p] + Misses(p) * (BurstLen + 1)
    BY DEF MissesWaitForTheBurst
  <2>1. Surplus(p) >= 0
    BY DEF LatencyInv, Patient
  <2>2. Misses(p) \in Nat /\ totalWaitCycles[p] \in Nat /\ numberMemoryOperations[p] \in Nat
    BY SurplusTyped DEF StatsTyped
  <2>3. Misses(p) * (BurstLen + 1) \in Nat
    BY <2>2, BurstLenAssumption
  <2> QED BY <2>1, <2>2, <2>3 DEF Surplus
<1> QED BY <1>1, <1>2, <1>3, <1>4, <1>5, <1>6, RunsKeepStats, PTL DEF SimSpec

=============================================================================
