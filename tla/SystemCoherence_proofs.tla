----------------------- MODULE SystemCoherence_proofs -----------------------
(***************************************************************************)
(* The machine is coherent: CoherenceInv holds in every cycle, for every   *)
(* number of processors, every set of addresses, every cache geometry, all *)
(* latencies and burst lengths and all three protocols; so each controller *)
(* has one read under way, awaited data comes, bursts are not broken, and  *)
(* the caches only take the steps of Coherence.                            *)
(***************************************************************************)
EXTENDS Controller_proofs

-----------------------------------------------------------------------------
(* The initial state.                                                      *)

LEMMA NewControllerIsQuiet ==
  ASSUME NEW line
  PROVE  /\ NewController \in Controller
         /\ InPhase(NewController, line) /\ ~ReadArrived(NewController)
         /\ InProtocol(NewController) /\ NotItsOwnAnswer(NewController, line)
         /\ \A x \in Addrs : ClaimOf(NewController, line, x) = "I"
         /\ ~NewController.awaitingBusRead /\ NewController.burstCounter = 0
         /\ ~NewController.bursting /\ ~CarriesLine(NewController)
<1> DEFINE c == NewController
<1>1. /\ c.state = "IDLE" /\ c.got = {} /\ c.saw = {} /\ ~c.queuedBusRead /\ ~c.awaitingBusRead
      /\ c.awaitingDataLocal = NoAddr /\ c.busReqQueue = <<>> /\ c.maxPriorityQueue = <<>>
      /\ ~c.bursting /\ c.burstCounter = 0 /\ \A a \in Addrs : c.cache[a] = "I"
  BY DEF NewController
<1>2. c \in Controller
  <2>1. <<>> \in Seq(Queued) /\ 0 \in 0 .. BurstLen - 1
    BY BurstLenAssumption
  <2>2. [a \in Addrs |-> "I"] \in [Addrs -> MESI]
    BY DEF MESI
  <2> QED BY <2>1, <2>2 DEF NewController, Controller, FsmStates
<1> HIDE DEF c
<1>3. Outgoing(c) = {}
  BY <1>1, <1>2, RangeOfEmpty DEF Outgoing, Controller
<1>4. InPhase(c, line) /\ ~ReadArrived(c)
  BY <1>1 DEF InPhase, ReadArrived, Quiet, IssueStates
<1>5. InProtocol(c) /\ NotItsOwnAnswer(c, line)
  BY <1>1, <1>3 DEF InProtocol, NotItsOwnAnswer
<1>6. \A x \in Addrs : ClaimOf(c, line, x) = "I"
  BY <1>1 DEF ClaimOf, Reading, IssueStates
<1>7. ~CarriesLine(c)
  BY <1>1 DEF CarriesLine, RequestsTransaction
<1> QED BY <1>1, <1>2, <1>4, <1>5, <1>6, <1>7 DEF c

LEMMA InitCoherent == Init => CoherenceInv
<1> SUFFICES ASSUME Init PROVE CoherenceInv
  OBVIOUS
<1>1. \A p \in Procs : ctl[p] = NewController
  BY DEF Init, ProcInit
<1>2. \A p \in Procs :
        /\ InPhase(ctl[p], Line(p)) /\ ~ReadArrived(ctl[p])
        /\ InProtocol(ctl[p]) /\ NotItsOwnAnswer(ctl[p], Line(p))
        /\ \A x \in Addrs : Claim(p, x) = "I"
        /\ ~ctl[p].awaitingBusRead /\ ctl[p].burstCounter = 0
        /\ ~ctl[p].bursting /\ ~CarriesLine(ctl[p])
  BY <1>1, NewControllerIsQuiet DEF Claim
<1>3. Phases /\ Protocols /\ OwnAnswers
  BY <1>2 DEF Phases, Protocols, OwnAnswers
<1>4. Announced /\ BurstHeld
  BY <1>2 DEF Announced, BurstHeld
<1>5. MemoryOwes
  BY <1>2 DEF MemoryOwes, Init, MemInit
<1>6. OneOwner /\ ToldInTime
  BY <1>2 DEF OneOwner, ToldInTime
<1> QED BY <1>3, <1>4, <1>5, <1>6 DEF CoherenceInv

-----------------------------------------------------------------------------
(* What the invariant says of one controller.                              *)

LEMMA ControllerFacts ==
  ASSUME IInv, CoherenceInv, NEW p \in Procs
  PROVE  /\ ctl[p] \in Controller /\ InPhase(ctl[p], Line(p)) /\ InProtocol(ctl[p])
         /\ NotItsOwnAnswer(ctl[p], Line(p))
         /\ turn < p => ~ReadArrived(ctl[p]) /\ (ctl[p].bursting <=> CarriesLine(ctl[p]))
         /\ ctl[p].burstCounter > 0 => nodeLocked /\ lockedAddress = p /\ CarriesLine(ctl[p])
         /\ ctl[p].awaitingBusRead => Owed(p)
<1>1. ctl[p] \in Controller
  BY DEF IInv, TypeOK, ProcTypeOK
<1>2. InPhase(ctl[p], Line(p)) /\ InProtocol(ctl[p]) /\ NotItsOwnAnswer(ctl[p], Line(p))
  BY DEF CoherenceInv, Phases, Protocols, OwnAnswers
<1>3. turn < p => ~ReadArrived(ctl[p]) /\ (ctl[p].bursting <=> CarriesLine(ctl[p]))
  BY DEF CoherenceInv, Phases, Announced
<1>4. ctl[p].burstCounter > 0 => nodeLocked /\ lockedAddress = p /\ CarriesLine(ctl[p])
  BY DEF CoherenceInv, BurstHeld, CarriesLine, RequestsTransaction, NextToIssue
<1>5. ctl[p].awaitingBusRead => Owed(p)
  BY DEF CoherenceInv, MemoryOwes
<1> QED BY <1>1, <1>2, <1>3, <1>4, <1>5

(* Out of the two states that wait for a read, the line does not matter.   *)
LEMMA LineMatters ==
  ASSUME NEW c \in Controller, NEW l1, NEW l2, InPhase(c, l1), c.state \notin IssueStates
  PROVE  /\ InPhase(c, l2) /\ ~c.awaitingBusRead /\ NotItsOwnAnswer(c, l2)
         /\ \A x \in Addrs : ClaimOf(c, l2, x) = ClaimOf(c, l1, x)
BY DEF InPhase, Quiet, NotItsOwnAnswer, ClaimOf, Reading

(* Claims that are kept, given up, or used by their owner, exclude each    *)
(* other as before, and those that are undecided were so before.           *)
LEMMA ShrinkingClaims ==
  ASSUME OneOwner,
         \A p \in Procs, x \in Addrs : \/ Claim(p, x)' \in {Claim(p, x), "I"}
                                       \/ Claim(p, x) = "E" /\ Claim(p, x)' = "M"
  PROVE  OneOwner'
BY DEF OneOwner

LEMMA StillTold ==
  ASSUME ToldInTime,
         \A p \in Procs, x \in Addrs : \/ Claim(p, x)' \in {Claim(p, x), "I"}
                                       \/ Claim(p, x) = "E" /\ Claim(p, x)' = "M",
         \A r \in Procs, x \in Addrs : Tells(ctl[r], x) => Tells(ctl'[r], x),
         nodeLocked' /\ lockedAddress' = MemoryAddress =>
           nodeLocked /\ lockedAddress = MemoryAddress
  PROVE  ToldInTime'
BY DEF ToldInTime

-----------------------------------------------------------------------------
(* The trace reader changes no controller.                                 *)

LEMMA InsertKeepsCoherence ==
  ASSUME IInv, CoherenceInv, InsertInstructions
  PROVE  CoherenceInv'
<1>1. UNCHANGED memVars /\ UNCHANGED busVars /\ UNCHANGED <<ctl, inst>>
  BY DEF InsertInstructions, Insert
<1>2. \A p \in Procs : ~(turn' < p)
  BY NumProcsAssumption DEF InsertInstructions, Insert, FetchTurn, Procs
<1>3. Phases' /\ Announced'
  BY <1>1, <1>2 DEF CoherenceInv, Phases, Announced, Line
<1>4. Protocols' /\ OwnAnswers' /\ BurstHeld' /\ MemoryOwes'
  BY <1>1 DEF CoherenceInv, Protocols, OwnAnswers, BurstHeld, MemoryOwes, Owed, Line, memVars, busVars
<1>5. OneOwner' /\ ToldInTime'
  BY <1>1 DEF CoherenceInv, OneOwner, ToldInTime, Claim, Line, busVars
<1> QED BY <1>3, <1>4, <1>5 DEF CoherenceInv

-----------------------------------------------------------------------------
(* A processor's tick changes its own controller only; if that is not idle *)
(* afterwards, its instruction is the one it had.                          *)

LEMMA TickedProcessors ==
  ASSUME IInv, IInv', NEW p \in Procs, ProcessorTick(p)
  PROVE  /\ \A q \in Procs \ {p} : ctl'[q] = ctl[q] /\ inst'[q] = inst[q]
         /\ ctl'[p].state # "IDLE" => inst'[p] = inst[p]
         /\ pending[p] \/ ctl[p].state # "IDLE" => inst[p] \in Instructions
<1>1. /\ pState \in [Procs -> {"IDLE", "CHECKOPTYPE", "MEMORYRETURNWAIT"}]
      /\ inst \in [Procs -> Instructions \cup {NoInst}]
  BY DEF IInv, TypeOK, ProcTypeOK
<1>2. ProcTypeOK /\ Agrees(p) /\ Agrees(p)'
  BY DEF IInv, TypeOK, ProcessorControllerAgreement, Agrees
<1>3. pending[p] \/ ctl[p].state # "IDLE" => inst[p] \in Instructions
  BY <1>1, <1>2 DEF Agrees
<1>4. \A q \in Procs \ {p} : ctl'[q] = ctl[q]
  BY <1>2, <1>3, ControllerTickTyped DEF ProcessorTick, Entered
<1>5. \A q \in Procs \ {p} : inst'[q] = inst[q]
  BY <1>1 DEF ProcessorTick, ProcessorTransition
<1>6. ASSUME ctl'[p].state # "IDLE" PROVE inst'[p] = inst[p]
  <2>1. pState'[p] = NextProcessorState(p)
    BY <1>1 DEF ProcessorTick, ProcessorTransition
  <2>2. NextProcessorState(p) \in {"IDLE", "CHECKOPTYPE", "MEMORYRETURNWAIT"}
    BY <1>1 DEF NextProcessorState
  <2>3. NextProcessorState(p) = "MEMORYRETURNWAIT"
    BY <1>2, <1>6, <2>1, <2>2 DEF Agrees
  <2> QED BY <1>1, <2>3 DEF ProcessorTick, ProcessorTransition
<1> QED BY <1>3, <1>4, <1>5, <1>6

(* The tick, said of its controller with the line it has afterwards.       *)
LEMMA TickedController ==
  ASSUME IInv, IInv', CoherenceInv, NEW p \in Procs, TickProcessor(p)
  PROVE  /\ Advanced(ctl[p], Line(p), ctl'[p])
         /\ InPhase(ctl'[p], Line(p)') /\ NotItsOwnAnswer(ctl'[p], Line(p)')
         /\ \A x \in Addrs : Claim(p, x)' = ClaimOf(ctl'[p], Line(p), x)
         /\ ctl'[p].awaitingBusRead => Line(p)' = Line(p)
<1>1. ProcessorTick(p) /\ ControllerTick(p)
  BY DEF TickProcessor, ProcessorTick
<1>2. /\ ctl'[p].state # "IDLE" => inst'[p] = inst[p]
      /\ pending[p] \/ ctl[p].state # "IDLE" => inst[p] \in Instructions
  BY <1>1, TickedProcessors
<1>3. ProcTypeOK /\ InPhase(ctl[p], Line(p)) /\ InProtocol(ctl[p]) /\ NotItsOwnAnswer(ctl[p], Line(p))
  BY ControllerFacts DEF IInv, TypeOK
<1>4. Advanced(ctl[p], Line(p), ctl'[p])
  BY <1>1, <1>2, <1>3, TickAdvances
<1>5. ctl'[p] \in Controller /\ InPhase(ctl'[p], Line(p)) /\ NotItsOwnAnswer(ctl'[p], Line(p))
  BY <1>4 DEF Advanced
<1>6. CASE ctl'[p].state \in IssueStates
  <2>1. Line(p)' = Line(p)
    BY <1>2, <1>6 DEF IssueStates, Line
  <2> QED BY <1>4, <1>5, <2>1 DEF Claim
<1>7. CASE ctl'[p].state \notin IssueStates
  BY <1>4, <1>5, <1>7, LineMatters DEF Claim
<1> QED BY <1>6, <1>7

(* A queue that nothing was taken from keeps its head and its requests.    *)
LEMMA QueueStepKeeps ==
  ASSUME NEW c \in Controller, NEW d, QueueStep(c, d)
  PROVE  /\ c.maxPriorityQueue # <<>> =>
              d.maxPriorityQueue # <<>> /\ Head(d.maxPriorityQueue) = Head(c.maxPriorityQueue)
         /\ Outgoing(c) \subseteq Outgoing(d)
<1>1. c.maxPriorityQueue \in Seq(Queued)
  BY DEF Controller
<1>2. CASE d.maxPriorityQueue = c.maxPriorityQueue
  BY <1>2 DEF Outgoing
<1>3. ASSUME NEW e \in Queued, d.maxPriorityQueue = Append(c.maxPriorityQueue, e)
      PROVE  /\ c.maxPriorityQueue # <<>> =>
                  d.maxPriorityQueue # <<>> /\ Head(d.maxPriorityQueue) = Head(c.maxPriorityQueue)
             /\ Outgoing(c) \subseteq Outgoing(d)
  <2>1. Outgoing(d) = Outgoing(c) \cup {e}
    BY <1>1, <1>3, RangeOfAppend DEF Outgoing
  <2>2. ASSUME c.maxPriorityQueue # <<>>
        PROVE  d.maxPriorityQueue # <<>> /\ Head(d.maxPriorityQueue) = Head(c.maxPriorityQueue)
    <3>1. Len(c.maxPriorityQueue) \in Nat \ {0}
      BY <1>1, <2>2, LenProperties, EmptySeq
    <3>2. /\ d.maxPriorityQueue \in Seq(Queued) /\ Len(d.maxPriorityQueue) # 0
          /\ d.maxPriorityQueue[1] = c.maxPriorityQueue[1]
      BY <1>1, <1>3, <3>1, AppendProperties
    <3>3. d.maxPriorityQueue # <<>>
      BY <3>2, EmptySeq
    <3> QED BY <1>1, <2>2, <3>2, <3>3, HeadTailProperties
  <2> QED BY <2>1, <2>2
<1> QED BY <1>2, <1>3 DEF QueueStep

LEMMA TickProcessorKeepsCoherence ==
  ASSUME IInv, IInv', CoherenceInv, NEW p \in Procs, TickProcessor(p)
  PROVE  CoherenceInv'
<1>1. UNCHANGED memVars /\ UNCHANGED busVars /\ turn = p /\ turn' = turn - 1
  BY DEF TickProcessor
<1>2. \A q \in Procs \ {p} : ctl'[q] = ctl[q] /\ Line(q)' = Line(q)
  BY TickedProcessors DEF TickProcessor, Line
<1>3. Advanced(ctl[p], Line(p), ctl'[p])
  BY TickedController
<1>4. /\ InPhase(ctl'[p], Line(p)') /\ NotItsOwnAnswer(ctl'[p], Line(p)')
      /\ \A x \in Addrs : Claim(p, x)' = ClaimOf(ctl'[p], Line(p), x)
      /\ ctl'[p].awaitingBusRead => Line(p)' = Line(p)
  BY TickedController
<1>5. \A q \in Procs : turn' < q /\ q # p => turn < q
  BY <1>1 DEF Procs
<1>6. ctl[p] \in Controller
  BY ControllerFacts
<1>7. Phases'
  BY <1>2, <1>3, <1>4, <1>5 DEF Phases, CoherenceInv, Advanced
<1>8. Announced'
  BY <1>2, <1>3, <1>5 DEF Announced, CoherenceInv, Advanced
<1>9. Protocols'
  BY <1>2, <1>3 DEF Protocols, CoherenceInv, Advanced
<1>10. OwnAnswers'
  BY <1>2, <1>4 DEF OwnAnswers, CoherenceInv
<1>11. QueueStep(ctl[p], ctl'[p]) /\ ctl'[p].burstCounter = ctl[p].burstCounter
  BY <1>3 DEF Advanced
<1>12. BurstHeld'
  BY <1>1, <1>2, <1>6, <1>11, QueueStepKeeps DEF BurstHeld, CoherenceInv, busVars
<1>13. MemoryOwes'
  BY <1>1, <1>2, <1>3, <1>4 DEF MemoryOwes, CoherenceInv, Owed, memVars, Advanced
<1>14. \A q \in Procs, x \in Addrs : \/ Claim(q, x)' \in {Claim(q, x), "I"}
                                     \/ Claim(q, x) = "E" /\ Claim(q, x)' = "M"
  BY <1>2, <1>3, <1>4 DEF Advanced, ClaimsStep, Claim
<1>15. \A r \in Procs, x \in Addrs : Tells(ctl[r], x) => Tells(ctl'[r], x)
  BY <1>2, <1>6, <1>11, QueueStepKeeps DEF Tells
<1>16. OneOwner' /\ ToldInTime'
  BY <1>1, <1>14, <1>15, ShrinkingClaims, StillTold DEF CoherenceInv, busVars
<1> QED BY <1>7, <1>8, <1>9, <1>10, <1>12, <1>13, <1>16 DEF CoherenceInv


-----------------------------------------------------------------------------
(* The memory's list and queue, as the reads in them.                      *)
HasRead(ops, x, p) == \E i \in DOMAIN ops : ops[i].address = x /\ ops[i].returnAddress = p

Answer(m, x, p) == m.command = "DATA_RETURN_MEMORY" /\ m.target = p /\ m.payload = x
HasAnswer(q, x, p) == \E i \in DOMAIN q : Answer(q[i], x, p)

FromMemory(m) == m.command \in {"DATA_RETURN_MEMORY", "NULL_BURST"} /\ m.source = MemoryAddress
OnlyFromMemory(q) == \A i \in DOMAIN q : FromMemory(q[i])

LEMMA MemoryOwesIt ==
  /\ MemoryOwes <=>
       /\ memBursting => burstRequest.command = "DATA_RETURN_MEMORY" /\ burstRequest.source = MemoryAddress
       /\ OnlyFromMemory(memQueue)
       /\ \A p \in Procs : ctl[p].awaitingBusRead => Owed(p)
  /\ \A p \in Procs : Owed(p) <=> \/ HasRead(memTracker, Line(p), p)
                                  \/ memBursting /\ burstRequest.payload = Line(p) /\ burstRequest.target = p
                                  \/ HasAnswer(memQueue, Line(p), p)
BY DEF MemoryOwes, Owed, OnlyFromMemory, FromMemory, HasRead, HasAnswer, Answer

LEMMA AgedHasRead ==
  ASSUME NEW ops \in Seq(MemoryOperation), NEW x, NEW p, HasRead(ops, x, p)
  PROVE  HasRead(Aged(ops), x, p)
<1>1. Len(ops) \in Nat /\ DOMAIN ops = 1 .. Len(ops) /\ \A i \in 1 .. Len(ops) : ops[i] \in MemoryOperation
  BY LenProperties, ElementOfSeq
<1>2. PICK i \in DOMAIN ops : ops[i].address = x /\ ops[i].returnAddress = p
  BY DEF HasRead
<1>3. /\ DOMAIN Aged(ops) = DOMAIN ops
      /\ Aged(ops)[i].address = x /\ Aged(ops)[i].returnAddress = p
  BY <1>1, <1>2 DEF Aged, MemoryOperation
<1> QED BY <1>2, <1>3 DEF HasRead

LEMMA ErasedHasRead ==
  ASSUME NEW ops \in Seq(MemoryOperation), NEW x, NEW p, HasRead(ops, x, p), NEW k \in 1 .. Len(ops)
  PROVE  HasRead(Erase(ops, k), x, p) \/ (ops[k].address = x /\ ops[k].returnAddress = p)
<1>1. Len(ops) \in Nat /\ DOMAIN ops = 1 .. Len(ops)
  BY LenProperties
<1>2. PICK i \in 1 .. Len(ops) : ops[i].address = x /\ ops[i].returnAddress = p
  BY <1>1 DEF HasRead
<1>3. /\ Erase(ops, k) \in Seq(MemoryOperation) /\ Len(Erase(ops, k)) = Len(ops) - 1
      /\ \A j \in 1 .. Len(ops) - 1 : Erase(ops, k)[j] = IF j < k THEN ops[j] ELSE ops[j + 1]
  BY EraseSeq
<1>4. DOMAIN Erase(ops, k) = 1 .. Len(ops) - 1
  BY <1>3, LenProperties
<1>5. CASE i < k
  <2>1. i \in DOMAIN Erase(ops, k) /\ Erase(ops, k)[i] = ops[i]
    BY <1>1, <1>3, <1>4, <1>5
  <2> QED BY <1>2, <2>1 DEF HasRead
<1>6. CASE i > k
  <2>1. i - 1 \in DOMAIN Erase(ops, k) /\ Erase(ops, k)[i - 1] = ops[i]
    BY <1>1, <1>3, <1>4, <1>6
  <2> QED BY <1>2, <2>1 DEF HasRead
<1> QED BY <1>1, <1>2, <1>5, <1>6

LEMMA TrackedHasRead ==
  ASSUME NEW ops \in Seq(MemoryOperation), NEW m \in BusRequest, NEW x, NEW p, HasRead(ops, x, p),
         m.command \in DataCommands => m.payload # x
  PROVE  HasRead(Tracked(ops, m), x, p)
<1>1. CASE m.command \in ReadCommands
  <2> DEFINE op == [address |-> m.payload, age |-> 0, returnAddress |-> m.source]
             t == Append(ops, op)
  <2>1. op \in MemoryOperation
    BY ReadLatencyAssumption DEF BusRequest, MemoryOperation
  <2>2. Len(ops) \in Nat /\ DOMAIN ops = 1 .. Len(ops)
    BY LenProperties
  <2>3. /\ t \in Seq(MemoryOperation) /\ Len(t) = Len(ops) + 1
        /\ \A i \in 1 .. Len(ops) : t[i] = ops[i]
    BY <2>1, AppendProperties
  <2>4. DOMAIN t = 1 .. Len(ops) + 1
    BY <2>3, LenProperties
  <2>5. Tracked(ops, m) = t
    BY <1>1 DEF Tracked
  <2> HIDE DEF t
  <2> QED BY <2>2, <2>3, <2>4, <2>5 DEF HasRead
<1>2. CASE m.command \in DataCommands /\ \E i \in DOMAIN ops : ops[i].address = m.payload
  <2> DEFINE k == FirstOpTo(ops, m.payload)
  <2>1. Tracked(ops, m) = Erase(ops, k)
    BY <1>2 DEF Tracked, ReadCommands, DataCommands
  <2>2. k \in 1 .. Len(ops) /\ ops[k].address = m.payload
    <3> DEFINE T == {i \in 1 .. Len(ops) : ops[i].address = m.payload}
    <3>1. Len(ops) \in Nat /\ DOMAIN ops = 1 .. Len(ops)
      BY LenProperties
    <3>2. T \in SUBSET Nat /\ T # {}
      BY <1>2, <3>1
    <3>3. PICK i \in T : \A j \in T : i <= j
      BY <3>2, LeastNat
    <3>4. i \in DOMAIN ops /\ ops[i].address = m.payload /\ \A j \in 1 .. i - 1 : ops[j].address # m.payload
      BY <3>1, <3>3
    <3> QED BY <3>1, <3>4 DEF FirstOpTo
  <2> HIDE DEF k
  <2> QED BY <1>2, <2>1, <2>2, ErasedHasRead
<1> QED BY <1>1, <1>2 DEF Tracked

LEMMA TrackedRead ==
  ASSUME NEW ops \in Seq(MemoryOperation), NEW m \in BusRequest, m.command \in ReadCommands
  PROVE  HasRead(Tracked(ops, m), m.payload, m.source)
<1> DEFINE op == [address |-> m.payload, age |-> 0, returnAddress |-> m.source]
           t == Append(ops, op)
<1>1. op \in MemoryOperation /\ op.address = m.payload /\ op.returnAddress = m.source
  BY ReadLatencyAssumption DEF BusRequest, MemoryOperation
<1> HIDE DEF op
<1>2. Len(ops) \in Nat /\ t \in Seq(MemoryOperation) /\ Len(t) = Len(ops) + 1 /\ t[Len(ops) + 1] = op
  BY <1>1, AppendProperties, LenProperties
<1>3. Len(ops) + 1 \in DOMAIN t
  BY <1>2, LenProperties
<1>4. Tracked(ops, m) = t
  BY DEF Tracked, op
<1> HIDE DEF t
<1> QED BY <1>1, <1>2, <1>3, <1>4 DEF HasRead

LEMMA AppendedAnswers ==
  ASSUME NEW q \in Seq(BusRequest), NEW m \in BusRequest
  PROVE  /\ \A x, p : HasAnswer(q, x, p) \/ Answer(m, x, p) => HasAnswer(Append(q, m), x, p)
         /\ OnlyFromMemory(q) /\ FromMemory(m) => OnlyFromMemory(Append(q, m))
<1> DEFINE t == Append(q, m)
<1>1. /\ Len(q) \in Nat /\ DOMAIN q = 1 .. Len(q)
      /\ t \in Seq(BusRequest) /\ DOMAIN t = 1 .. Len(q) + 1
      /\ \A i \in 1 .. Len(q) : t[i] = q[i]
      /\ t[Len(q) + 1] = m
  BY AppendProperties, LenProperties
<1> HIDE DEF t
<1>2. \A i \in DOMAIN t : t[i] = m \/ (i \in DOMAIN q /\ t[i] = q[i])
  BY <1>1
<1>3. ASSUME NEW x, NEW p, HasAnswer(q, x, p) \/ Answer(m, x, p) PROVE HasAnswer(t, x, p)
  <2>1. CASE HasAnswer(q, x, p)
    BY <1>1, <2>1 DEF HasAnswer
  <2>2. CASE Answer(m, x, p)
    <3>1. Len(q) + 1 \in DOMAIN t
      BY <1>1
    <3> QED BY <1>1, <2>2, <3>1 DEF HasAnswer
  <2> QED BY <1>3, <2>1, <2>2
<1>4. OnlyFromMemory(q) /\ FromMemory(m) => OnlyFromMemory(t)
  BY <1>2 DEF OnlyFromMemory
<1> QED BY <1>3, <1>4 DEF t

LEMMA RemainingAnswers ==
  ASSUME NEW q \in Seq(BusRequest), q # <<>>, OnlyFromMemory(q)
  PROVE  /\ Head(q) \in BusRequest /\ FromMemory(Head(q)) /\ OnlyFromMemory(Tail(q))
         /\ \A x, p : HasAnswer(q, x, p) => Answer(Head(q), x, p) \/ HasAnswer(Tail(q), x, p)
<1>1. /\ Len(q) \in Nat \ {0} /\ DOMAIN q = 1 .. Len(q)
      /\ Tail(q) \in Seq(BusRequest) /\ Len(Tail(q)) = Len(q) - 1 /\ Head(q) = q[1] /\ Head(q) \in BusRequest
      /\ \A i \in 1 .. Len(q) - 1 : Tail(q)[i] = q[i + 1]
  BY LenProperties, EmptySeq, HeadTailProperties
<1>2. DOMAIN Tail(q) = 1 .. Len(q) - 1
  BY <1>1, LenProperties
<1>3. 1 \in DOMAIN q /\ \A i \in DOMAIN Tail(q) : i + 1 \in DOMAIN q /\ Tail(q)[i] = q[i + 1]
  BY <1>1, <1>2
<1>4. ASSUME NEW i \in DOMAIN q, i # 1 PROVE i - 1 \in DOMAIN Tail(q) /\ Tail(q)[i - 1] = q[i]
  BY <1>1, <1>2, <1>4
<1>5. FromMemory(Head(q)) /\ OnlyFromMemory(Tail(q))
  BY <1>1, <1>3 DEF OnlyFromMemory
<1>6. ASSUME NEW x, NEW p, HasAnswer(q, x, p) PROVE Answer(Head(q), x, p) \/ HasAnswer(Tail(q), x, p)
  <2>1. PICK i \in DOMAIN q : Answer(q[i], x, p)
    BY <1>6 DEF HasAnswer
  <2> QED BY <1>1, <1>4, <2>1 DEF HasAnswer
<1> QED BY <1>1, <1>5, <1>6


-----------------------------------------------------------------------------
(* The memory's tick moves a read from the list to the burst, and from the *)
(* burst to the queue.                                                     *)

LEMMA MemTickOwes ==
  ASSUME IInv, MemoryOwes, NEW locked \in BOOLEAN, MemTick(locked), UNCHANGED <<ctl, inst>>
  PROVE  MemoryOwes'
<1>1. /\ memTracker \in Seq(MemoryOperation) /\ AgesOrdered(memTracker)
      /\ memQueue \in Seq(BusRequest) /\ (memBursting => burstRequest \in BusRequest)
  BY ReadsInOrderIsAgesOrdered DEF IInv, TypeOK, MemTypeOK
<1>2. /\ memBursting => burstRequest.command = "DATA_RETURN_MEMORY" /\ burstRequest.source = MemoryAddress
      /\ OnlyFromMemory(memQueue)
  BY MemoryOwesIt
<1> DEFINE Owes(p) == \/ HasRead(memTracker, Line(p), p)
                      \/ memBursting /\ burstRequest.payload = Line(p) /\ burstRequest.target = p
                      \/ HasAnswer(memQueue, Line(p), p)
<1>3. \A p \in Procs : ctl[p].awaitingBusRead => Owes(p)
  BY MemoryOwesIt
<1>4. \A p \in Procs : ctl'[p] = ctl[p] /\ Line(p)' = Line(p)
  BY DEF Line
<1>5. /\ memBursting' => burstRequest'.command = "DATA_RETURN_MEMORY" /\ burstRequest'.source = MemoryAddress
      /\ OnlyFromMemory(memQueue')
      /\ \A p \in Procs : Owes(p) => Owes(p)'
  <2>1. CASE BurstEnd(locked)
    <3>1. /\ memQueue' = Append(memQueue, burstRequest) /\ memBursting /\ ~memBursting'
          /\ memTracker' = memTracker
      BY <2>1 DEF BurstEnd
    <3>2. FromMemory(burstRequest) /\ burstRequest \in BusRequest
      BY <1>1, <1>2, <3>1 DEF FromMemory
    <3>3. \A p \in Procs : burstRequest.payload = Line(p) /\ burstRequest.target = p
                             => Answer(burstRequest, Line(p), p)
      BY <1>2, <3>1 DEF Answer
    <3>4. OnlyFromMemory(memQueue')
      BY <1>1, <1>2, <3>1, <3>2, AppendedAnswers
    <3>5. \A p \in Procs : HasAnswer(memQueue, Line(p), p) \/ Answer(burstRequest, Line(p), p)
                             => HasAnswer(memQueue', Line(p), p)
      BY <1>1, <3>1, <3>2, AppendedAnswers
    <3> QED BY <1>4, <3>1, <3>3, <3>4, <3>5
  <2>2. CASE BurstBeat(locked)
    <3>1. /\ memBursting /\ memBursting' = memBursting
          /\ memTracker' = memTracker /\ burstRequest' = burstRequest
          /\ memQueue' = memQueue \/ memQueue' = Append(memQueue, NullBurst)
      BY <2>2 DEF BurstBeat
    <3>2. NullBurst \in BusRequest /\ FromMemory(NullBurst)
      <4>1. burstRequest.payload \in Addrs /\ MemoryAddress \in BusNodes
        BY <1>1, <3>1, BusNodesFacts DEF BusRequest
      <4> QED BY <4>1 DEF NullBurst, BusRequest, FromMemory, Commands, BROADCAST_ADX
    <3>3. OnlyFromMemory(memQueue') /\ \A p \in Procs : HasAnswer(memQueue, Line(p), p)
                                                          => HasAnswer(memQueue', Line(p), p)
      BY <1>1, <1>2, <3>1, <3>2, AppendedAnswers
    <3> QED BY <1>2, <1>4, <3>1, <3>3
  <2>3. CASE QueueDataReturn
    <3> DEFINE ops == Aged(memTracker)
               k == OldestOp(ops)
    <3>1. /\ ~memBursting /\ memBursting' /\ memQueue' = memQueue /\ ops # <<>>
          /\ burstRequest' = DataReturn(ops[k]) /\ memTracker' = Erase(ops, k)
      BY <2>3 DEF QueueDataReturn, ReturnDue
    <3>2. ops \in Seq(MemoryOperation) /\ AgesOrdered(ops)
      BY <1>1, AgedReads
    <3>3. k \in 1 .. Len(ops)
      BY <3>1, <3>2, OldestOpFound
    <3>4. /\ burstRequest'.command = "DATA_RETURN_MEMORY" /\ burstRequest'.source = MemoryAddress
          /\ burstRequest'.payload = ops[k].address /\ burstRequest'.target = ops[k].returnAddress
      BY <3>1 DEF DataReturn
    <3>5. \A p \in Procs : HasRead(memTracker, Line(p), p) => HasRead(ops, Line(p), p)
      BY <1>1, AgedHasRead
    <3> HIDE DEF ops, k
    <3>6. \A p \in Procs : HasRead(ops, Line(p), p) =>
            HasRead(Erase(ops, k), Line(p), p) \/ (ops[k].address = Line(p) /\ ops[k].returnAddress = p)
      BY <3>2, <3>3, ErasedHasRead
    <3> QED BY <1>2, <1>4, <3>1, <3>4, <3>5, <3>6
  <2>4. CASE AgeReads
    <3>1. /\ ~memBursting /\ memBursting' = memBursting /\ memQueue' = memQueue
          /\ memTracker' = Aged(memTracker)
      BY <2>4 DEF AgeReads
    <3>2. \A p \in Procs : HasRead(memTracker, Line(p), p) => HasRead(memTracker', Line(p), p)
      BY <1>1, <3>1, AgedHasRead
    <3> QED BY <1>2, <1>4, <3>1, <3>2
  <2> QED BY <2>1, <2>2, <2>3, <2>4 DEF MemTick
<1>6. \A p \in Procs : ctl'[p].awaitingBusRead => Owes(p)'
  BY <1>3, <1>4, <1>5
<1> QED BY <1>5, <1>6 DEF MemoryOwes, Owed, OnlyFromMemory, FromMemory, HasRead, HasAnswer, Answer

LEMMA TickMemoryKeepsCoherence ==
  ASSUME IInv, CoherenceInv, TickMemory
  PROVE  CoherenceInv'
<1>1. UNCHANGED procVars /\ UNCHANGED busVars /\ turn = 0
  BY DEF TickMemory, MemoryTurn
<1>2. UNCHANGED <<ctl, inst>>
  BY <1>1 DEF procVars
<1>3. \A p \in Procs : turn < p
  BY <1>1 DEF Procs
<1>4. Phases' /\ Announced'
  BY <1>2, <1>3 DEF CoherenceInv, Phases, Announced, Line
<1>5. Protocols' /\ OwnAnswers' /\ BurstHeld'
  BY <1>1, <1>2 DEF CoherenceInv, Protocols, OwnAnswers, BurstHeld, Line, busVars
<1>6. OneOwner' /\ ToldInTime'
  BY <1>1, <1>2 DEF CoherenceInv, OneOwner, ToldInTime, Claim, Line, busVars
<1>7. MemoryOwes'
  <2>1. (MemoryAddress \in nodeIsLocked) \in BOOLEAN /\ MemTick(MemoryAddress \in nodeIsLocked)
    BY DEF TickMemory
  <2> QED BY <1>2, <2>1, MemTickOwes DEF CoherenceInv
<1> QED BY <1>4, <1>5, <1>6, <1>7 DEF CoherenceInv


-----------------------------------------------------------------------------
(* The bus cycle. Who is serviced, and what that says of the lock.         *)

LEMMA CycleFacts ==
  ASSUME IInv
  PROVE  /\ nodeLocked => ServicedNode = lockedAddress
         /\ ~nodeLocked /\ MaxRequesters # {} => ServicedNode \in MaxRequesters
         /\ BusTick(MaxRequesters, LockRequesters, Transmitters) =>
              /\ nodeLocked' => lockedAddress' = ServicedNode
              /\ ServicedNode \in LockRequesters => nodeLocked'
<1>1. BusTypeOK /\ MaxRequesters \in SUBSET BusNodes
  BY BusNodesFacts DEF IInv, TypeOK, MaxRequesters
<1>2. ~nodeLocked /\ MaxRequesters # {} => ServicedNode \in MaxRequesters
  BY <1>1, FirstOfFound DEF ServicedNode, Serviced
<1>3. nodeLocked => ServicedNode = lockedAddress
  BY DEF ServicedNode, Serviced
<1>4. BusTick(MaxRequesters, LockRequesters, Transmitters) =>
        /\ nodeLocked' => lockedAddress' = ServicedNode
        /\ ServicedNode \in LockRequesters => nodeLocked'
  BY DEF BusTick, ServicedNode
<1> QED BY <1>2, <1>3, <1>4

(* In the bus cycle every controller has ticked since the last one.        *)
LEMMA CycleControllers ==
  ASSUME IInv, CoherenceInv, turn = BusTurn, NEW p \in Procs
  PROVE  /\ ~ReadArrived(ctl[p]) /\ (ctl[p].bursting <=> CarriesLine(ctl[p]))
         /\ ctl[p].burstCounter \in Nat
         /\ ctl[p].burstCounter > 0 => CarriesLine(ctl[p]) /\ ServicedNode = p /\ p \in Transmitters
<1>1. turn < p
  BY DEF BusTurn, Procs
<1>2. ctl[p] \in Controller
  BY ControllerFacts
<1>3. ctl[p].burstCounter \in Nat
  BY <1>2, BurstLenAssumption DEF Controller
<1>4. ctl[p].burstCounter > 0 => nodeLocked /\ lockedAddress = p /\ CarriesLine(ctl[p])
  BY ControllerFacts
<1> QED BY <1>1, <1>3, <1>4, ControllerFacts, CycleFacts DEF CarriesLine, Transmitters

(* The memory does not get the bus while an undecided claim meets another. *)
LEMMA MemoryWaits ==
  ASSUME IInv, CoherenceInv, NEW p \in Procs, NEW q \in Procs, NEW x \in Addrs,
         p # q, Claim(q, x) = "?", Claim(p, x) # "I"
  PROVE  ServicedNode # MemoryAddress
<1>1. PICK r \in Procs \ {q} : Tells(ctl[r], x)
  BY DEF CoherenceInv, ToldInTime
<1>2. ~(nodeLocked /\ lockedAddress = MemoryAddress)
  BY DEF CoherenceInv, ToldInTime
<1>3. r \in MaxRequesters
  <2>1. Outgoing(ctl[r]) # {} /\ ctl[r].maxPriorityQueue \in Seq(Queued)
    BY <1>1, ControllerFacts DEF Tells, Controller
  <2>2. ctl[r].maxPriorityQueue # <<>>
    BY <2>1, RangeOfEmpty DEF Outgoing
  <2> QED BY <2>2 DEF MaxRequesters, RequestsMaxPriority
<1>4. MaxRequesters \subseteq Procs
  BY DEF MaxRequesters
<1> QED BY <1>2, <1>3, <1>4, CycleFacts, BusNodesFacts

(* A cycle in which nothing is sent.                                       *)
LEMMA QuietCycleKeepsCoherence ==
  ASSUME IInv, CoherenceInv, TickInterconnect, QuietCycle
  PROVE  CoherenceInv'
<1>1. /\ UNCHANGED memVars /\ UNCHANGED <<ctl, inst>> /\ turn = BusTurn
      /\ ServicedNode \notin Transmitters
      /\ BusTick(MaxRequesters, LockRequesters, Transmitters)
  BY DEF TickInterconnect, QuietCycle
<1>2. \A p \in Procs : ~(turn' < p)
  BY NumProcsAssumption DEF TickInterconnect, FetchTurn, Procs
<1>3. Phases' /\ Announced'
  BY <1>1, <1>2 DEF CoherenceInv, Phases, Announced, Line
<1>4. Protocols' /\ OwnAnswers' /\ MemoryOwes'
  BY <1>1 DEF CoherenceInv, Protocols, OwnAnswers, MemoryOwes, Owed, Line, memVars
<1>5. BurstHeld'
  BY <1>1, CycleControllers DEF BurstHeld
<1>6. OneOwner'
  BY <1>1 DEF CoherenceInv, OneOwner, Claim, Line
<1>7. ToldInTime'
  <2> SUFFICES ASSUME NEW p \in Procs, NEW q \in Procs, NEW x \in Addrs,
                      p # q, Claim(q, x)' = "?", Claim(p, x)' # "I"
               PROVE  /\ \E r \in Procs \ {q} : Tells(ctl'[r], x)
                      /\ ~(nodeLocked' /\ lockedAddress' = MemoryAddress)
    BY DEF ToldInTime
  <2>1. Claim(q, x) = "?" /\ Claim(p, x) # "I"
    BY <1>1 DEF Claim, Line
  <2>2. \E r \in Procs \ {q} : Tells(ctl[r], x)
    BY <2>1 DEF CoherenceInv, ToldInTime
  <2>3. ServicedNode # MemoryAddress
    BY <2>1, MemoryWaits
  <2> QED BY <1>1, <2>2, <2>3, CycleFacts
<1> QED BY <1>3, <1>4, <1>5, <1>6, <1>7 DEF CoherenceInv


-----------------------------------------------------------------------------
(* What a transaction does to a controller that is not its source.         *)

ClaimReceives(m, before, after) ==
  /\ before = "I" => after = "I"
  /\ m.command = "NULL_BURST" => after = before
  /\ m.command \in {"BUSREAD", "SHAREME"} => after \in {"S", "I"}
  /\ m.command \in {"BUSREADX", "INVALIDATE"} => after = "I"
  /\ m.command \in AnsweringCommands => after = IF before = "?" THEN AnswerClaim(m) ELSE before

LEMMA ReceiverKeeps ==
  ASSUME IInv, CoherenceInv, turn = BusTurn, NEW q \in Procs,
         NEW m \in BusRequest, OnMIBus(m), Addressed(q, m),
         NEW d, d = AfterBroadcast(m)[q]
  PROVE  /\ InPhase(d, Line(q)) /\ InProtocol(d) /\ NotItsOwnAnswer(d, Line(q))
         /\ d.burstCounter = ctl[q].burstCounter
         /\ d.awaitingBusRead => /\ ctl[q].awaitingBusRead
                                 /\ m.command \in AnsweringCommands => m.payload # Line(q)
         /\ \A x \in Addrs : x # m.payload =>
              /\ ClaimOf(d, Line(q), x) = Claim(q, x)
              /\ Tells(ctl[q], x) => Tells(d, x)
         /\ m.command = "NULL_BURST" => \A x \in Addrs : Tells(ctl[q], x) => Tells(d, x)
         /\ ClaimReceives(m, Claim(q, m.payload), ClaimOf(d, Line(q), m.payload))
         /\ m.command = "BUSREAD" /\ Claim(q, m.payload) # "I" => Tells(d, m.payload)
<1> DEFINE c == ctl[q]
           line == Line(q)
           x == m.payload
<1>1. /\ c \in Controller /\ InPhase(c, line) /\ InProtocol(c) /\ NotItsOwnAnswer(c, line)
      /\ ~ReadArrived(c)
  BY ControllerFacts, CycleControllers
<1>2. m.payload \in Addrs
  BY DEF BusRequest
<1>3. d = Accept(c, line, m)
  BY DEF AfterBroadcast, Line
<1>4. Accepted(c, line, m, d)
  BY <1>1, <1>3, ReadsAreNoReplies, AcceptAccepts
<1>5. InPhase(d, line) /\ InProtocol(d) /\ NotItsOwnAnswer(d, line)
  BY <1>1, <1>4, AcceptKeepsPhase, AcceptKeepsProtocol, AcceptKeepsOwnAnswer
<1>6. d.burstCounter = c.burstCounter
  BY <1>4 DEF Accepted, SameMachine
<1>7. d.awaitingBusRead <=> c.awaitingBusRead /\ ~Answers(c, line, m)
  BY <1>4 DEF Accepted, AcceptedFields
<1>8. d.awaitingBusRead => /\ c.awaitingBusRead
                           /\ m.command \in AnsweringCommands => m.payload # line
  BY <1>7 DEF Answers, AwaitingDataRemote
<1>9. /\ \A y \in Addrs : y # x => ClaimOf(d, line, y) = ClaimOf(c, line, y)
      /\ m.command = "NULL_BURST" => ClaimOf(d, line, x) = ClaimOf(c, line, x)
      /\ ClaimOf(c, line, x) = "I" => ClaimOf(d, line, x) = "I"
      /\ m.command \in {"BUSREAD", "SHAREME"} => ClaimOf(d, line, x) \in {"S", "I"}
      /\ m.command \in {"BUSREADX", "INVALIDATE"} => ClaimOf(d, line, x) = "I"
      /\ m.command \in AnsweringCommands =>
           ClaimOf(d, line, x) = IF ClaimOf(c, line, x) = "?" THEN AnswerClaim(m) ELSE ClaimOf(c, line, x)
      /\ m.command = "BUSREAD" /\ ClaimOf(c, line, x) # "I" => Tells(d, x)
  BY <1>1, <1>2, <1>4, AcceptClaims
<1>10. \A r \in Outgoing(c) \ Outgoing(d) :
         r.payload = m.payload /\ m.command \in {"DATA_RETURN_MEMORY", "DATA_RETURN_PROCESSOR"}
  BY <1>4 DEF Accepted, AcceptedRequests
<1>11. \A y \in Addrs : y # x \/ m.command = "NULL_BURST" => (Tells(c, y) => Tells(d, y))
  BY <1>10 DEF Tells
<1>12. ClaimReceives(m, ClaimOf(c, line, x), ClaimOf(d, line, x))
  BY <1>9 DEF ClaimReceives
<1> HIDE DEF line
<1> QED BY <1>5, <1>6, <1>8, <1>9, <1>11, <1>12 DEF Claim, line

-----------------------------------------------------------------------------
(* The memory has the bus: its answer decides the claims that waited for   *)
(* it, and those met no other claim.                                       *)

LEMMA MemoryTransmitsKeepsCoherence ==
  ASSUME IInv, CoherenceInv, TickInterconnect, MemoryTransmits
  PROVE  CoherenceInv'
<1> DEFINE m == Head(memQueue)
<1>1. /\ turn = BusTurn /\ ServicedNode = MemoryAddress /\ memQueue # <<>>
      /\ ctl' = AfterBroadcast(m) /\ UNCHANGED inst
      /\ memQueue' = Tail(memQueue) /\ UNCHANGED <<memTracker, memBursting, burstRequest>>
      /\ BusTick(MaxRequesters, LockRequesters, Transmitters)
  BY DEF TickInterconnect, MemoryTransmits, MemRequestsTransaction, MemInitiate
<1>2. \A p \in Procs : ~(turn' < p)
  BY NumProcsAssumption DEF TickInterconnect, FetchTurn, Procs
<1>3. memQueue \in Seq(BusRequest) /\ OnlyFromMemory(memQueue)
  BY MemoryOwesIt DEF IInv, TypeOK, MemTypeOK, CoherenceInv
<1>4. /\ m \in BusRequest /\ FromMemory(m) /\ OnlyFromMemory(Tail(memQueue))
      /\ \A x, p : HasAnswer(memQueue, x, p) => Answer(m, x, p) \/ HasAnswer(Tail(memQueue), x, p)
  BY <1>1, <1>3, RemainingAnswers
<1> HIDE DEF m
<1>5. OnMIBus(m) /\ m.payload \in Addrs
  BY <1>4 DEF OnMIBus, FromMemory, BusRequest
<1>6. \A q \in Procs : Line(q)' = Line(q)
  BY <1>1 DEF Line
<1>7. ASSUME NEW q \in Procs
      PROVE  /\ InPhase(ctl'[q], Line(q)) /\ InProtocol(ctl'[q]) /\ NotItsOwnAnswer(ctl'[q], Line(q))
             /\ ctl'[q].burstCounter = ctl[q].burstCounter
             /\ ctl'[q].awaitingBusRead => ctl[q].awaitingBusRead /\ ~Answer(m, Line(q), q)
             /\ \A x \in Addrs : \/ Claim(q, x)' = Claim(q, x)
                                 \/ Claim(q, x) = "?" /\ Claim(q, x)' # "?"
  <2>1. ctl'[q] = AfterBroadcast(m)[q]
    BY <1>1
  <2>2. CASE Addressed(q, m)
    <3>1. /\ InPhase(ctl'[q], Line(q)) /\ InProtocol(ctl'[q]) /\ NotItsOwnAnswer(ctl'[q], Line(q))
          /\ ctl'[q].burstCounter = ctl[q].burstCounter
          /\ ctl'[q].awaitingBusRead => /\ ctl[q].awaitingBusRead
                                        /\ m.command \in AnsweringCommands => m.payload # Line(q)
          /\ \A x \in Addrs : x # m.payload => ClaimOf(ctl'[q], Line(q), x) = Claim(q, x)
          /\ ClaimReceives(m, Claim(q, m.payload), ClaimOf(ctl'[q], Line(q), m.payload))
      BY <1>1, <1>4, <1>5, <2>1, <2>2, ReceiverKeeps
    <3>2. m.command \in AnsweringCommands \/ m.command = "NULL_BURST"
      BY <1>4 DEF FromMemory, AnsweringCommands
    <3>3. AnswerClaim(m) # "?"
      BY DEF AnswerClaim
    <3>4. \A x \in Addrs : Claim(q, x)' = ClaimOf(ctl'[q], Line(q), x)
      BY <1>6 DEF Claim
    <3>5. Answer(m, Line(q), q) => m.command \in AnsweringCommands /\ m.payload = Line(q)
      BY DEF Answer, AnsweringCommands
    <3> QED BY <3>1, <3>2, <3>3, <3>4, <3>5 DEF ClaimReceives
  <2>3. CASE ~Addressed(q, m)
    <3>1. ctl'[q] = ctl[q]
      BY <2>1, <2>3 DEF AfterBroadcast
    <3>2. q # m.source
      BY <1>4, BusNodesFacts DEF FromMemory
    <3>3. ~Answer(m, Line(q), q)
      BY <2>3, <3>2 DEF Addressed, Answer
    <3> QED BY <1>6, <3>1, <3>3, ControllerFacts DEF Claim
  <2> QED BY <2>2, <2>3
<1>8. Phases' /\ Announced' /\ Protocols' /\ OwnAnswers'
  BY <1>2, <1>6, <1>7 DEF Phases, Announced, Protocols, OwnAnswers
<1>9. BurstHeld'
  <2>1. \A p \in Procs : ~(ctl[p].burstCounter > 0)
    BY <1>1, CycleControllers, BusNodesFacts
  <2> QED BY <1>7, <2>1 DEF BurstHeld
<1>10. MemoryOwes'
  <2>1. ASSUME NEW p \in Procs, ctl'[p].awaitingBusRead PROVE Owed(p)'
    <3>1. Owed(p) /\ ~Answer(m, Line(p), p)
      BY <1>7, <2>1, ControllerFacts
    <3>2. \/ HasRead(memTracker, Line(p), p)
          \/ memBursting /\ burstRequest.payload = Line(p) /\ burstRequest.target = p
          \/ HasAnswer(Tail(memQueue), Line(p), p)
      BY <1>4, <3>1, MemoryOwesIt
    <3> QED BY <1>1, <1>6, <3>2 DEF Owed, HasRead, HasAnswer, Answer
  <2>2. memBursting => burstRequest.command = "DATA_RETURN_MEMORY" /\ burstRequest.source = MemoryAddress
    BY DEF CoherenceInv, MemoryOwes
  <2> QED BY <1>1, <1>4, <2>1, <2>2 DEF MemoryOwes, OnlyFromMemory, FromMemory
<1>11. \A p, q \in Procs, x \in Addrs : p # q /\ Claim(q, x) = "?" => Claim(p, x) = "I"
  BY <1>1, MemoryWaits
<1>12. OneOwner'
  BY <1>7, <1>11 DEF CoherenceInv, OneOwner
<1>13. ToldInTime'
  BY <1>7, <1>11 DEF ToldInTime
<1> QED BY <1>8, <1>9, <1>10, <1>12, <1>13 DEF CoherenceInv


-----------------------------------------------------------------------------
(* A processor has the bus.                                                *)

(* What its controller sends, and what it is left with.                    *)
Sends(p, m, d) ==
  \/ IssuesBeat(ctl[p], m, d)
  \/ IssuesRequest(ctl[p], m, d)
  \/ IssuesRead(ctl[p], Line(p), m, d)

LEMMA SenderSends ==
  ASSUME IInv, CoherenceInv, turn = BusTurn, NEW p \in Procs, ProcessorTransmits(p)
  PROVE  \E m \in BusRequest :
           /\ m.source = p /\ m.target = BROADCAST_ADX /\ OnMIBus(m)
           /\ m.command = Issued(ctl[p], Locked(p)).command
           /\ Sends(p, m, ctl'[p]) /\ ctl'[p] \in Controller
           /\ ctl'[p] = AfterIssue(ctl[p], Locked(p))
           /\ \A q \in Procs \ {p} : Addressed(q, m) /\ ctl'[q] = AfterBroadcast(m)[q]
           /\ MemAccept(m)
<1> DEFINE c == ctl[p]
           r == Issued(c, Locked(p))
           m == [command |-> r.command, payload |-> r.payload, source |-> p, target |-> BROADCAST_ADX]
<1>1. /\ c \in Controller /\ InPhase(c, Line(p)) /\ InProtocol(c) /\ ~ReadArrived(c)
      /\ (c.bursting <=> CarriesLine(c)) /\ (c.burstCounter > 0 => CarriesLine(c))
  BY ControllerFacts, CycleControllers
<1>2. RequestsTransaction(c) /\ Locked(p) \in BOOLEAN /\ ctl \in [Procs -> Controller]
  BY BusNodesFacts DEF ProcessorTransmits, Transmitters, Locked, IInv, TypeOK, ProcTypeOK
<1>3. /\ ctl' = [AfterBroadcast(m) EXCEPT ![p] = AfterIssue(c, Locked(p))]
      /\ MemAccept(m)
  BY DEF ProcessorTransmits
<1>4. ctl'[p] = AfterIssue(c, Locked(p)) /\ \A q \in Procs \ {p} : ctl'[q] = AfterBroadcast(m)[q]
  BY <1>3 DEF AfterBroadcast
<1>5. IssuesBeat(c, r, ctl'[p]) \/ IssuesRequest(c, r, ctl'[p]) \/ IssuesRead(c, Line(p), r, ctl'[p])
  BY <1>1, <1>2, <1>4, IssueIssues
<1>6. r.command \in Commands /\ r.payload \in Addrs
  BY <1>1, <1>2, NextToIssueTyped DEF Issued, Queued, Commands
<1>7. m \in BusRequest
  BY <1>6, BusNodesFacts DEF BusRequest
<1>8. m.command = r.command /\ m.payload = r.payload /\ m.source = p /\ m.target = BROADCAST_ADX
  OBVIOUS
<1>9. ctl'[p] \in Controller
  BY <1>1, <1>2, <1>4, AfterIssueServes DEF Serves
<1> HIDE DEF m, r
<1>10. Sends(p, m, ctl'[p])
  BY <1>5, <1>8 DEF Sends, IssuesBeat, IssuesRequest, IssuesRead
<1>11. OnMIBus(m)
  <2>1. CASE IssuesBeat(c, r, ctl'[p])
    BY <1>8, <2>1 DEF IssuesBeat, OnMIBus
  <2>2. CASE IssuesRequest(c, r, ctl'[p])
    BY <1>1, <1>8, <2>2 DEF IssuesRequest, OnMIBus, InProtocol, DataCommands
  <2>3. CASE IssuesRead(c, Line(p), r, ctl'[p])
    BY <1>8, <2>3 DEF IssuesRead, OnMIBus, ReadOf, ReadCommand
  <2> QED BY <1>5, <2>1, <2>2, <2>3
<1>12. \A q \in Procs \ {p} : Addressed(q, m)
  BY <1>8 DEF Addressed
<1>13. m.command = Issued(c, Locked(p)).command
  BY <1>8 DEF r
<1> QED BY <1>3, <1>4, <1>7, <1>8, <1>9, <1>10, <1>11, <1>12, <1>13

(* The sender's own invariant, its claims and what it still tells.         *)
LEMMA SenderKeeps ==
  ASSUME IInv, CoherenceInv, turn = BusTurn, NEW p \in Procs,
         NEW m \in BusRequest, NEW d \in Controller, Sends(p, m, d)
  PROVE  /\ InPhase(d, Line(p)) /\ InProtocol(d) /\ NotItsOwnAnswer(d, Line(p))
         /\ \A x \in Addrs : x # m.payload =>
              /\ ClaimOf(d, Line(p), x) = Claim(p, x)
              /\ Tells(ctl[p], x) => Tells(d, x)
         /\ m.command \in {"NULL_BURST", "BUSREAD", "BUSREADX", "INVALIDATE", "SHAREME"} \cup DataCommands
         /\ m.command = "NULL_BURST" =>
              /\ ClaimOf(d, Line(p), m.payload) = Claim(p, m.payload)
              /\ \A x \in Addrs : Tells(ctl[p], x) => Tells(d, x)
         /\ m.command = "BUSREAD" => ClaimOf(d, Line(p), m.payload) \notin {"M", "E"}
         /\ m.command = "BUSREADX" => ClaimOf(d, Line(p), m.payload) # "?"
         /\ m.command = "INVALIDATE" => ClaimOf(d, Line(p), m.payload) = Claim(p, m.payload)
         /\ m.command \in DataCommands \cup {"SHAREME"} =>
              /\ ClaimOf(d, Line(p), m.payload) = Claim(p, m.payload)
              /\ Claim(p, m.payload) # "?"
<1> DEFINE c == ctl[p]
           line == Line(p)
           after(x) == ClaimOf(d, line, x)
<1>1. /\ c \in Controller /\ InPhase(c, line) /\ InProtocol(c) /\ NotItsOwnAnswer(c, line)
      /\ ~ReadArrived(c)
  BY ControllerFacts, CycleControllers
<1>2. IssuesBeat(c, m, d) \/ IssuesRequest(c, m, d) \/ IssuesRead(c, line, m, d)
  BY DEF Sends
<1>3. InPhase(d, line) /\ InProtocol(d) /\ NotItsOwnAnswer(d, line)
  BY <1>1, <1>2, IssueKeeps
<1>4. \A x \in Addrs :
        /\ ~IssuesRead(c, line, m, d) \/ x # line => after(x) = Claim(p, x)
        /\ IssuesRead(c, line, m, d) /\ m.command = "BUSREAD" => after(x) \notin {"M", "E"} \/ x # line
        /\ IssuesRead(c, line, m, d) /\ m.command = "BUSREADX" => after(x) # "?"
        /\ IssuesRequest(c, m, d) /\ m.payload = x /\ m.command \in DataCommands \cup {"SHAREME"}
             => after(x) # "?"
  BY <1>1, <1>2, IssueClaims DEF Claim
<1>5. m.payload \in Addrs
  BY DEF BusRequest
<1> HIDE DEF after, line
<1>6. CASE IssuesBeat(c, m, d)
  <2>1. m.command = "NULL_BURST" /\ d.maxPriorityQueue = c.maxPriorityQueue /\ ~IssuesRead(c, line, m, d)
    BY <1>6 DEF IssuesBeat, IssuesRead, ReadOf, ReadCommand
  <2>2. \A x \in Addrs : Tells(c, x) => Tells(d, x)
    BY <2>1 DEF Tells, Outgoing
  <2>3. \A x \in Addrs : after(x) = Claim(p, x)
    BY <1>4, <2>1
  <2> QED BY <1>3, <1>5, <2>1, <2>2, <2>3 DEF after, line, DataCommands
<1>7. CASE IssuesRequest(c, m, d)
  <2>1. PICK h \in Outgoing(c) : m.command = h.command /\ m.payload = h.payload /\ Outgoing(c) = {h} \cup Outgoing(d)
    BY <1>7 DEF IssuesRequest
  <2>2. m.command \in DataCommands \cup {"INVALIDATE", "SHAREME"}
    BY <1>1, <2>1 DEF InProtocol
  <2>3. ~IssuesRead(c, line, m, d)
    BY <2>2 DEF IssuesRead, ReadOf, ReadCommand, DataCommands
  <2>4. \A x \in Addrs : x # m.payload => (Tells(c, x) => Tells(d, x))
    BY <2>1 DEF Tells
  <2>5. \A x \in Addrs : after(x) = Claim(p, x)
    BY <1>4, <2>3
  <2>6. m.command \in DataCommands \cup {"SHAREME"} => Claim(p, m.payload) # "?"
    BY <1>4, <1>5, <1>7, <2>5
  <2> QED BY <1>3, <1>5, <2>2, <2>4, <2>5, <2>6 DEF after, line, DataCommands
<1>8. CASE IssuesRead(c, line, m, d)
  <2>1. m.payload = line /\ m.command \in {"BUSREAD", "BUSREADX"} /\ Outgoing(c) = {}
    BY <1>8 DEF IssuesRead, ReadOf, ReadCommand
  <2>2. \A x \in Addrs : ~Tells(c, x)
    BY <2>1 DEF Tells
  <2>3. \A x \in Addrs : x # m.payload => after(x) = Claim(p, x)
    BY <1>4, <2>1
  <2>4. /\ m.command = "BUSREAD" => after(m.payload) \notin {"M", "E"}
        /\ m.command = "BUSREADX" => after(m.payload) # "?"
    BY <1>4, <1>5, <1>8, <2>1
  <2> QED BY <1>3, <2>1, <2>2, <2>3, <2>4 DEF after, line, DataCommands
<1> QED BY <1>2, <1>6, <1>7, <1>8 DEF line


(* Every read that is awaited after a transaction is still owed: its own   *)
(* dispatch is tracked, and a transfer that cancels it answers it.         *)
LEMMA TransmissionOwes ==
  ASSUME IInv, CoherenceInv, turn = BusTurn, NEW p \in Procs, UNCHANGED inst,
         NEW m \in BusRequest, m.source = p, OnMIBus(m), Sends(p, m, ctl'[p]), ctl'[p] \in Controller,
         \A q \in Procs \ {p} : Addressed(q, m) /\ ctl'[q] = AfterBroadcast(m)[q],
         MemAccept(m)
  PROVE  MemoryOwes'
<1>1. /\ memTracker' = Tracked(memTracker, m) /\ UNCHANGED <<memQueue, memBursting, burstRequest>>
      /\ memTracker \in Seq(MemoryOperation)
  BY DEF MemAccept, IInv, TypeOK, MemTypeOK
<1>2. /\ memBursting => burstRequest.command = "DATA_RETURN_MEMORY" /\ burstRequest.source = MemoryAddress
      /\ OnlyFromMemory(memQueue)
  BY MemoryOwesIt DEF CoherenceInv
<1>3. \A q \in Procs : Line(q)' = Line(q)
  BY DEF Line
<1>4. ASSUME NEW q \in Procs, Owed(q), m.command \in DataCommands => m.payload # Line(q)
      PROVE  Owed(q)'
  <2>1. HasRead(memTracker, Line(q), q) => HasRead(memTracker', Line(q), q)
    BY <1>1, <1>4, TrackedHasRead
  <2>2. \/ HasRead(memTracker', Line(q), q)
        \/ memBursting' /\ burstRequest'.payload = Line(q) /\ burstRequest'.target = q
        \/ HasAnswer(memQueue', Line(q), q)
    BY <1>1, <1>4, <2>1, MemoryOwesIt
  <2> QED BY <1>3, <2>2 DEF Owed, HasRead, HasAnswer, Answer
<1>5. ASSUME NEW q \in Procs, q # p, ctl'[q].awaitingBusRead PROVE Owed(q)'
  <2>1. /\ ctl[q].awaitingBusRead
        /\ m.command \in AnsweringCommands => m.payload # Line(q)
    BY <1>5, ReceiverKeeps
  <2>2. Owed(q) /\ (m.command \in DataCommands => m.payload # Line(q))
    BY <2>1, ControllerFacts DEF DataCommands, AnsweringCommands
  <2> QED BY <1>4, <2>2
<1>6. ASSUME ctl'[p].awaitingBusRead PROVE Owed(p)'
  <2>1. CASE IssuesRead(ctl[p], Line(p), m, ctl'[p])
    <3>1. m.command \in ReadCommands /\ m.payload = Line(p)
      BY <2>1 DEF IssuesRead, ReadOf, ReadCommand, ReadCommands
    <3>2. HasRead(memTracker', Line(p), p)
      BY <1>1, <3>1, TrackedRead
    <3> QED BY <1>3, <3>2 DEF Owed, HasRead
  <2>2. CASE IssuesBeat(ctl[p], m, ctl'[p])
    <3>1. ctl[p].awaitingBusRead /\ m.command \notin DataCommands
      BY <1>6, <2>2 DEF IssuesBeat, SameRead, DataCommands
    <3> QED BY <1>4, <3>1, ControllerFacts
  <2>3. CASE IssuesRequest(ctl[p], m, ctl'[p])
    <3>1. ctl[p].awaitingBusRead
      BY <1>6, <2>3 DEF IssuesRequest, SameRead
    <3>2. m.command \in DataCommands => m.payload # Line(p)
      BY <2>3, <3>1, ControllerFacts DEF IssuesRequest, NotItsOwnAnswer
    <3> QED BY <1>4, <3>1, <3>2, ControllerFacts
  <2> QED BY <2>1, <2>2, <2>3 DEF Sends
<1>7. \A q \in Procs : ctl'[q].awaitingBusRead => Owed(q)'
  BY <1>5, <1>6
<1> QED BY <1>1, <1>2, <1>7 DEF MemoryOwes, OnlyFromMemory, FromMemory

LEMMA ProcessorTransmitsKeepsCoherence ==
  ASSUME IInv, CoherenceInv, TickInterconnect, NEW p \in Procs, ProcessorTransmits(p)
  PROVE  CoherenceInv'
<1>1. /\ turn = BusTurn /\ ServicedNode = p /\ UNCHANGED inst
      /\ BusTick(MaxRequesters, LockRequesters, Transmitters)
  BY DEF TickInterconnect, ProcessorTransmits
<1>2. \A q \in Procs : ~(turn' < q)
  BY NumProcsAssumption DEF TickInterconnect, FetchTurn, Procs
<1>3. PICK m \in BusRequest :
        /\ m.source = p /\ m.target = BROADCAST_ADX /\ OnMIBus(m)
        /\ Sends(p, m, ctl'[p]) /\ ctl'[p] \in Controller
        /\ \A q \in Procs \ {p} : Addressed(q, m) /\ ctl'[q] = AfterBroadcast(m)[q]
        /\ MemAccept(m)
  BY <1>1, SenderSends
<1> DEFINE x == m.payload
<1>4. \A q \in Procs : Line(q)' = Line(q)
  BY <1>1 DEF Line
<1>5. \A q \in Procs, y \in Addrs : Claim(q, y)' = ClaimOf(ctl'[q], Line(q), y)
  BY <1>4 DEF Claim
<1>6. x \in Addrs
  BY DEF BusRequest
<1>7. ASSUME NEW q \in Procs, q # p
      PROVE  /\ InPhase(ctl'[q], Line(q)) /\ InProtocol(ctl'[q]) /\ NotItsOwnAnswer(ctl'[q], Line(q))
             /\ ctl'[q].burstCounter = ctl[q].burstCounter
             /\ \A y \in Addrs : y # x =>
                  Claim(q, y)' = Claim(q, y) /\ (Tells(ctl[q], y) => Tells(ctl'[q], y))
             /\ m.command = "NULL_BURST" => \A y \in Addrs : Tells(ctl[q], y) => Tells(ctl'[q], y)
             /\ ClaimReceives(m, Claim(q, x), Claim(q, x)')
             /\ m.command = "BUSREAD" /\ Claim(q, x) # "I" => Tells(ctl'[q], x)
  BY <1>1, <1>3, <1>5, <1>6, <1>7, ReceiverKeeps
<1>8. /\ InPhase(ctl'[p], Line(p)) /\ InProtocol(ctl'[p]) /\ NotItsOwnAnswer(ctl'[p], Line(p))
      /\ \A y \in Addrs : y # x =>
           Claim(p, y)' = Claim(p, y) /\ (Tells(ctl[p], y) => Tells(ctl'[p], y))
      /\ m.command \in {"NULL_BURST", "BUSREAD", "BUSREADX", "INVALIDATE", "SHAREME"} \cup DataCommands
      /\ m.command = "NULL_BURST" =>
           /\ Claim(p, x)' = Claim(p, x)
           /\ \A y \in Addrs : Tells(ctl[p], y) => Tells(ctl'[p], y)
      /\ m.command = "BUSREAD" => Claim(p, x)' \notin {"M", "E"}
      /\ m.command = "BUSREADX" => Claim(p, x)' # "?"
      /\ m.command = "INVALIDATE" => Claim(p, x)' = Claim(p, x)
      /\ m.command \in DataCommands \cup {"SHAREME"} => Claim(p, x)' = Claim(p, x) /\ Claim(p, x) # "?"
  BY <1>1, <1>3, <1>5, <1>6, SenderKeeps
<1>9. Phases' /\ Announced' /\ Protocols' /\ OwnAnswers'
  BY <1>2, <1>4, <1>7, <1>8 DEF Phases, Announced, Protocols, OwnAnswers
<1>10. MemoryOwes'
  BY <1>1, <1>3, TransmissionOwes
<1>11. ~(nodeLocked' /\ lockedAddress' = MemoryAddress)
  BY <1>1, CycleFacts, BusNodesFacts
<1>12. BurstHeld'
  <2> SUFFICES ASSUME NEW q \in Procs, ctl'[q].burstCounter > 0
               PROVE  /\ nodeLocked' /\ lockedAddress' = q
                      /\ ctl'[q].maxPriorityQueue # <<>>
                      /\ Head(ctl'[q].maxPriorityQueue).command \in DataCommands
    BY DEF BurstHeld
  <2>1. q = p
    BY <1>1, <1>7, CycleControllers
  <2>2. IssuesBeat(ctl[p], m, ctl'[p])
    BY <1>3, <2>1 DEF Sends, IssuesRequest, IssuesRead
  <2>3. /\ ctl'[p].maxPriorityQueue = ctl[p].maxPriorityQueue /\ ctl[p].maxPriorityQueue # <<>>
        /\ ctl[p].bursting /\ CarriesLine(ctl[p])
    BY <1>1, <2>2, CycleControllers DEF IssuesBeat
  <2>4. p \in LockRequesters
    BY <2>3 DEF LockRequesters, RequestsLock
  <2> QED BY <1>1, <2>1, <2>3, <2>4, CycleFacts DEF CarriesLine, NextToIssue
<1>13. \/ m.command \in {"NULL_BURST", "BUSREAD", "BUSREADX", "INVALIDATE", "SHAREME"}
       \/ m.command \in DataCommands
  BY <1>8
<1>14. m.command \in DataCommands => m.command \in AnsweringCommands /\ AnswerClaim(m) = "S"
  BY DEF DataCommands, AnsweringCommands, AnswerClaim
<1> HIDE DEF x
(* The claims on the line of the transaction: each of the others is        *)
(* dropped, shared, or what it was.                                        *)
<1>15. ASSUME NEW q \in Procs, q # p, m.command # "NULL_BURST"
       PROVE  /\ Claim(q, x)' # "?"
              /\ Claim(q, x) = "I" => Claim(q, x)' = "I"
              /\ Claim(q, x)' \in {"M", "E"} => m.command \in DataCommands /\ Claim(q, x)' = Claim(q, x)
              /\ m.command \in {"BUSREADX", "INVALIDATE"} => Claim(q, x)' = "I"
  BY <1>7, <1>13, <1>14, <1>15 DEF ClaimReceives
<1>16. m.command = "NULL_BURST" => \A q \in Procs, y \in Addrs : Claim(q, y)' = Claim(q, y)
  BY <1>7, <1>8 DEF ClaimReceives
<1>17. OneOwner /\ ToldInTime
  BY DEF CoherenceInv
<1>18. OneOwner'
  <2> SUFFICES ASSUME NEW a \in Procs, NEW b \in Procs, NEW y \in Addrs,
                      a # b, Claim(a, y)' \in {"M", "E"}
               PROVE  Claim(b, y)' = "I"
    BY DEF OneOwner
  <2>1. CASE y # x \/ m.command = "NULL_BURST"
    BY <1>7, <1>8, <1>16, <1>17, <2>1 DEF OneOwner
  <2>2. CASE y = x /\ m.command # "NULL_BURST" /\ a = p
    <3>1. CASE m.command = "BUSREADX"
      BY <1>15, <2>2, <3>1
    <3>2. CASE m.command # "BUSREADX"
      <4>1. Claim(p, x) = Claim(p, x)'
        BY <1>8, <1>13, <2>2, <3>2
      <4> QED BY <1>6, <1>15, <1>17, <2>2, <4>1 DEF OneOwner, x
    <3> QED BY <3>1, <3>2
  <2>3. CASE y = x /\ m.command # "NULL_BURST" /\ a # p
    <3>1. m.command \in DataCommands /\ Claim(a, x) \in {"M", "E"}
      BY <1>15, <2>3
    <3>2. Claim(b, x) = "I"
      BY <2>3, <3>1, <1>17 DEF OneOwner
    <3> QED BY <1>8, <1>15, <2>3, <3>1, <3>2
  <2> QED BY <2>1, <2>2, <2>3
<1>19. ToldInTime'
  <2> SUFFICES ASSUME NEW a \in Procs, NEW b \in Procs, NEW y \in Addrs,
                      a # b, Claim(b, y)' = "?", Claim(a, y)' # "I"
               PROVE  \E r \in Procs \ {b} : Tells(ctl'[r], y)
    BY <1>11 DEF ToldInTime
  <2>1. CASE y # x \/ m.command = "NULL_BURST"
    <3>1. Claim(b, y) = "?" /\ Claim(a, y) # "I"
      BY <1>7, <1>8, <1>16, <2>1
    <3>2. PICK r \in Procs \ {b} : Tells(ctl[r], y)
      BY <1>17, <3>1 DEF ToldInTime
    <3> QED BY <1>7, <1>8, <2>1, <3>2
  <2>2. CASE y = x /\ m.command # "NULL_BURST"
    <3>1. b = p /\ a # p
      BY <1>15, <2>2
    <3>2. m.command = "BUSREAD"
      BY <1>8, <1>13, <1>15, <2>2, <3>1
    <3> QED BY <1>7, <1>15, <2>2, <3>1, <3>2
  <2> QED BY <2>1, <2>2
<1> QED BY <1>9, <1>10, <1>12, <1>18, <1>19 DEF CoherenceInv

-----------------------------------------------------------------------------
(* Every step.                                                             *)

LEMMA NextKeepsCoherence == IInv /\ CoherenceInv /\ [Next]_vars => CoherenceInv'
<1> SUFFICES ASSUME IInv, CoherenceInv, [Next]_vars PROVE CoherenceInv'
  OBVIOUS
<1>1. IInv'
  BY NextKeepsIInv
<1>2. CASE InsertInstructions
  BY <1>2, InsertKeepsCoherence
<1>3. CASE \E p \in Procs : TickProcessor(p)
  BY <1>1, <1>3, TickProcessorKeepsCoherence
<1>4. CASE TickMemory
  BY <1>4, TickMemoryKeepsCoherence
<1>5. CASE TickInterconnect
  BY <1>5, QuietCycleKeepsCoherence, MemoryTransmitsKeepsCoherence, ProcessorTransmitsKeepsCoherence
     DEF TickInterconnect
<1>6. CASE UNCHANGED vars
  <2>1. UNCHANGED <<ctl, inst>> /\ UNCHANGED memVars /\ UNCHANGED busVars /\ UNCHANGED turn
    BY <1>6 DEF vars, procVars
  <2>2. Phases' /\ Announced' /\ Protocols' /\ OwnAnswers' /\ BurstHeld' /\ MemoryOwes'
    BY <2>1 DEF CoherenceInv, Phases, Announced, Protocols, OwnAnswers, BurstHeld, MemoryOwes, Owed,
                Line, memVars, busVars
  <2>3. OneOwner' /\ ToldInTime'
    BY <2>1 DEF CoherenceInv, OneOwner, ToldInTime, Claim, Line, busVars
  <2> QED BY <2>2, <2>3 DEF CoherenceInv
<1> QED BY <1>2, <1>3, <1>4, <1>5, <1>6 DEF Next

(* The invariant of the machine (the phases of a read, the bursts, the debt*)
(* of the memory and the claims) holds in every cycle.                     *)
THEOREM CoherenceInvHolds == Spec => []CoherenceInv
BY InitIInv, NextKeepsIInv, InitCoherent, NextKeepsCoherence, PTL DEF Spec


-----------------------------------------------------------------------------
(* What follows from it.                                                   *)

(* A controller has at most one read under way, and only while its machine *)
(* waits for it (MESI_Controller.cpp:123-129, 213-224), so no answer can be*)
(* taken for the answer to a later instruction's read.                     *)
THEOREM ReadsDoNotOverlap == Spec => []OneReadPerInstruction
<1>1. ASSUME IInv, CoherenceInv PROVE OneReadPerInstruction
  <2> SUFFICES ASSUME NEW p \in Procs
               PROVE  /\ ctl[p].awaitingDataLocal # NoAddr => ctl[p].awaitingDataLocal = Line(p)
                      /\ ctl[p].awaitingDataLocal # NoAddr <=> ReadInProgress(ctl[p])
                      /\ ctl[p].awaitingBusRead => ctl[p].busReqQueue = <<>>
                      /\ Len(ctl[p].busReqQueue) <= 1
                      /\ ReadInProgress(ctl[p]) => ctl[p].state \in {"ISSUE_READ", "ISSUE_READX"}
    BY DEF OneReadPerInstruction
  <2>1. InPhase(ctl[p], Line(p))
    BY <1>1, ControllerFacts
  <2>2. CASE Quiet(ctl[p])
    <3>1. Len(<<>>) = 0
      OBVIOUS
    <3> QED BY <2>2, <3>1 DEF Quiet, ReadInProgress
  <2>3. CASE ReadQueued(ctl[p], Line(p)) /\ ctl[p].state \in IssueStates /\ Line(p) \in Addrs
    <3>1. Len(ctl[p].busReqQueue) = 1 /\ ctl[p].busReqQueue # <<>>
      BY <2>3 DEF ReadQueued
    <3> QED BY <2>3, <3>1, NoAddrAssumption DEF ReadQueued, ReadInProgress, IssueStates
  <2>4. CASE ReadDispatched(ctl[p], Line(p)) /\ ctl[p].state \in IssueStates /\ Line(p) \in Addrs
    <3>1. Len(<<>>) = 0
      OBVIOUS
    <3> QED BY <2>4, <3>1, NoAddrAssumption DEF ReadDispatched, ReadInProgress, IssueStates
  <2> QED BY <2>1, <2>2, <2>3, <2>4 DEF InPhase, ReadArrived
<1> QED BY InitIInv, NextKeepsIInv, InitCoherent, NextKeepsCoherence, <1>1, PTL DEF Spec

(* The assertions of the controllers never fail: MESI_Controller.cpp:242,  *)
(* MSI_Controller.cpp:152-153, MI_Controller.cpp:145 and 321-322.          *)
THEOREM AssertionsNeverFail == Spec => []AssertionsHold
<1>1. ASSUME IInv, CoherenceInv PROVE AssertionsHold
  <2> SUFFICES ASSUME NEW p \in Procs
               PROVE  /\ ctl[p].state = "ISSUE_READ" /\ ~ReadOutstanding(ctl[p])
                           /\ ctl[p].saw \cap {"BUSREADX", "INVALIDATE"} = {} /\ ~Contains(ctl[p], Line(p))
                         => ctl[p].got # {}
                      /\ ControllerType = "MI" =>
                           /\ \A x \in Addrs : ctl[p].cache[x] \in {"M", "I"}
                           /\ \A i \in DOMAIN ctl[p].busReqQueue : ctl[p].busReqQueue[i].command # "BUSREAD"
                      /\ ControllerType = "MSI" => \A x \in Addrs : ctl[p].cache[x] # "E"
    BY DEF AssertionsHold
  <2>1. InPhase(ctl[p], Line(p)) /\ InProtocol(ctl[p])
    BY <1>1, ControllerFacts
  <2>2. ctl[p].state = "ISSUE_READ" /\ ~ReadOutstanding(ctl[p]) => ctl[p].got # {}
    BY <2>1, NoAddrAssumption
       DEF InPhase, IssueStates, ReadOutstanding, ReadQueued, ReadDispatched, ReadArrived
  <2>3. ControllerType = "MI" =>
          \A i \in DOMAIN ctl[p].busReqQueue : ctl[p].busReqQueue[i].command # "BUSREAD"
    <3>1. CASE ctl[p].busReqQueue = <<>>
      BY <3>1
    <3>2. CASE ReadQueued(ctl[p], Line(p))
      BY <3>2 DEF ReadQueued, ReadOf, ReadCommand
    <3> QED BY <2>1, <3>1, <3>2 DEF InPhase, Quiet, ReadDispatched, ReadArrived
  <2> QED BY <2>1, <2>2, <2>3 DEF InProtocol
<1> QED BY InitIInv, NextKeepsIInv, InitCoherent, NextKeepsCoherence, <1>1, PTL DEF Spec

(* A burst that has begun keeps the bus and its line                       *)
(* (CacheController.cpp:58-77, Interconnect.cpp:5-11).                     *)
THEOREM BurstsAreUnbroken == Spec => []BurstUnbroken
<1>1. CoherenceInv => BurstUnbroken
  BY DEF CoherenceInv, BurstHeld, BurstUnbroken, RequestsTransaction, NextToIssue
<1> QED BY InitIInv, NextKeepsIInv, InitCoherent, NextKeepsCoherence, <1>1, PTL DEF Spec

(* Data a controller waits for is on its way: no cancelled read            *)
(* (Memory.cpp:15-21) and no cancelled reply (CacheController.cpp:180-247) *)
(* was the last to answer it.                                              *)
THEOREM AwaitedDataComes == Spec => []AwaitedDataIsComing
<1>1. CoherenceInv => AwaitedDataIsComing
  BY DEF CoherenceInv, MemoryOwes, Owed, AwaitedDataIsComing
<1> QED BY InitIInv, NextKeepsIInv, InitCoherent, NextKeepsCoherence, <1>1, PTL DEF Spec

-----------------------------------------------------------------------------
(* Coherence: a copy is the claim of its controller.                       *)

LEMMA CopyIsClaim ==
  ASSUME NEW p \in Procs, NEW x \in Addrs
  PROVE  ctl[p].cache[x] # "I" => Claim(p, x) = ctl[p].cache[x]
BY DEF Claim, ClaimOf

(* A line owned by one cache is in no other (MESI_Controller.cpp:155, `We  *)
(* have the only copy, so we can freely update the cache').                *)
THEOREM OnlyOneWriter == Spec => []SingleWriter
<1>1. ASSUME CoherenceInv PROVE SingleWriter
  <2> SUFFICES ASSUME NEW p \in Procs, NEW q \in Procs, NEW x \in Addrs,
                      p # q, ctl[p].cache[x] \in {"M", "E"}
               PROVE  ctl[q].cache[x] = "I"
    BY DEF SingleWriter, Protocol!SingleWriter, Protocol!Owns
  <2>1. Claim(q, x) = "I"
    BY <1>1, CopyIsClaim DEF CoherenceInv, OneOwner
  <2> QED BY <2>1, CopyIsClaim
<1> QED BY InitIInv, NextKeepsIInv, InitCoherent, NextKeepsCoherence, <1>1, PTL DEF Spec

LEMMA ModifyIsAStep ==
  ASSUME NEW p \in Procs, NEW x \in Addrs, Protocol!Modify(p, x)
  PROVE  Protocol!Next
<1>1. "M" \in Protocol!States
  BY DEF Protocol!States
<1> QED BY <1>1 DEF Protocol!Next

(* A tick fills the line it claims, or stores to one it owns.              *)
LEMMA TickIsCoherent ==
  ASSUME IInv, IInv', CoherenceInv, NEW p \in Procs, TickProcessor(p)
  PROVE  Protocol!Next \/ UNCHANGED [q \in Procs |-> ctl[q].cache]
<1> DEFINE c == ctl[p]
           line == Line(p)
           caches == [q \in Procs |-> ctl[q].cache]
<1>1. \A q \in Procs \ {p} : ctl'[q] = ctl[q]
  BY TickedProcessors DEF TickProcessor
<1>2. CopiesStep(c, line, ctl'[p])
  BY TickedController DEF Advanced
<1>3. \A q \in Procs : ctl[q].cache \in [Addrs -> MESI]
  BY ControllerFacts DEF Controller
<1>4. CASE ctl'[p].cache = c.cache
  BY <1>1, <1>4
<1>5. ASSUME line \in Addrs, c.cache[line] = "I", NEW s, s = Claim(p, line), s \in {"M", "E", "S"},
             NEW v \in Addrs, ctl'[p].cache = [c.cache EXCEPT ![v] = "I", ![line] = s]
      PROVE  Protocol!Next
  <2>1. \A q \in Procs \ {p} :
          /\ ctl[q].cache[line] \notin {"M", "E"}
          /\ s \in {"M", "E"} => ctl[q].cache[line] = "I"
    BY <1>5, CopyIsClaim DEF CoherenceInv, OneOwner
  <2>2. caches' = [caches EXCEPT ![p] = [caches[p] EXCEPT ![v] = "I", ![line] = s]]
    BY <1>1, <1>5
  <2>3. Protocol!Acquire(p, line, s, v)
    BY <1>5, <2>1, <2>2 DEF Protocol!Acquire, Protocol!Owns
  <2> QED BY <1>5, <2>3 DEF Protocol!Next, Protocol!States
<1>6. ASSUME NEW x \in Addrs, c.cache[x] \in {"M", "E"}, ctl'[p].cache = [c.cache EXCEPT ![x] = "M"]
      PROVE  Protocol!Next
  <2>1. caches' = [caches EXCEPT ![p][x] = "M"]
    BY <1>1, <1>6
  <2>2. Protocol!Modify(p, x)
    BY <1>6, <2>1 DEF Protocol!Modify, Protocol!Owns
  <2> QED BY <2>2, ModifyIsAStep
<1> QED BY <1>2, <1>4, <1>5, <1>6 DEF CopiesStep, Claim

(* A transaction lowers the copies of its line.                            *)
LEMMA CycleIsCoherent ==
  ASSUME IInv, CoherenceInv, TickInterconnect
  PROVE  Protocol!Next \/ UNCHANGED [q \in Procs |-> ctl[q].cache]
<1>1. turn = BusTurn
  BY DEF TickInterconnect
<1>2. ASSUME NEW q \in Procs, NEW m \in BusRequest, OnMIBus(m)
      PROVE  Accepted(ctl[q], Line(q), m, Accept(ctl[q], Line(q), m))
  BY <1>2, ControllerFacts, ReadsAreNoReplies, AcceptAccepts
<1>3. CASE QuietCycle
  BY <1>3 DEF QuietCycle
<1>4. CASE MemoryTransmits
  <2> DEFINE m == Head(memQueue)
  <2>1. ctl' = AfterBroadcast(m) /\ memQueue # <<>> /\ memQueue \in Seq(BusRequest) /\ OnlyFromMemory(memQueue)
    BY <1>4, MemoryOwesIt
       DEF MemoryTransmits, MemRequestsTransaction, IInv, TypeOK, MemTypeOK, CoherenceInv
  <2>2. m \in BusRequest /\ FromMemory(m)
    BY <2>1, RemainingAnswers
  <2>3. OnMIBus(m) /\ m.command \notin AskingCommands
    BY <2>2 DEF FromMemory, OnMIBus, AskingCommands
  <2> HIDE DEF m
  <2>4. \A q \in Procs : ctl'[q].cache = ctl[q].cache
    BY <1>2, <2>1, <2>2, <2>3 DEF AfterBroadcast, Line, Accepted, AcceptedFields, Hits
  <2> QED BY <2>4
<1>5. ASSUME NEW p \in Procs, ProcessorTransmits(p) PROVE Protocol!Next
  <2>1. PICK m \in BusRequest :
          /\ OnMIBus(m) /\ Sends(p, m, ctl'[p])
          /\ \A q \in Procs \ {p} : Addressed(q, m) /\ ctl'[q] = AfterBroadcast(m)[q]
    BY <1>1, <1>5, SenderSends
  <2> DEFINE x == m.payload
             Q == {q \in Procs \ {p} : Hits(ctl[q], m)}
             s == Lowered(m)
             caches == [q \in Procs |-> ctl[q].cache]
  <2>2. x \in Addrs
    BY DEF BusRequest
  <2>3. \A q \in Procs \ {p} :
          ctl'[q].cache = IF Hits(ctl[q], m) THEN [ctl[q].cache EXCEPT ![x] = s] ELSE ctl[q].cache
    BY <1>2, <2>1 DEF AfterBroadcast, Line, Accepted, AcceptedFields
  <2>4. ctl'[p].cache = ctl[p].cache
    BY <2>1 DEF Sends, IssuesBeat, IssuesRequest, IssuesRead, SameCopies
  <2>5. \A q \in Q : ctl[q].cache[x] # "I"
    BY DEF Hits, Contains
  <2>6. caches' = [q \in Procs |-> IF q \in Q THEN [caches[q] EXCEPT ![x] = s] ELSE caches[q]]
    BY <2>3, <2>4
  <2>7. s \in {"S", "I"} /\ Q \in SUBSET Procs
    BY DEF Lowered
  <2> HIDE DEF x, Q, s
  <2>8. Protocol!Lower(Q, x, s)
    BY <2>5, <2>6, <2>7 DEF Protocol!Lower, Q
  <2> QED BY <2>2, <2>7, <2>8 DEF Protocol!Next, Protocol!States
<1> QED BY <1>3, <1>4, <1>5 DEF TickInterconnect

(* The machine implements Coherence: every step is an acquisition, a store *)
(* by an owner, a lowering, or leaves the caches alone                     *)
(* (UpdateCacheLoad_Action, UpdateCacheStore_Action and the bus handlers). *)
THEOREM MachineImplementsCoherence == Spec => ImplementsCoherence
<1>1. Init => Protocol!Init
  BY DEF Init, ProcInit, NewController, Protocol!Init
<1>2. IInv /\ IInv' /\ CoherenceInv /\ [Next]_vars => [Protocol!Next]_([p \in Procs |-> ctl[p].cache])
  <2> SUFFICES ASSUME IInv, IInv', CoherenceInv, [Next]_vars
               PROVE  Protocol!Next \/ UNCHANGED [q \in Procs |-> ctl[q].cache]
    OBVIOUS
  <2>1. CASE \E p \in Procs : TickProcessor(p)
    BY <2>1, TickIsCoherent
  <2>2. CASE TickInterconnect
    BY <2>2, CycleIsCoherent
  <2>3. CASE UNCHANGED ctl
    BY <2>3
  <2>4. InsertInstructions \/ TickMemory \/ UNCHANGED vars => UNCHANGED ctl
    BY DEF InsertInstructions, Insert, TickMemory, vars, procVars
  <2> QED BY <2>1, <2>2, <2>3, <2>4 DEF Next
<1>3. Spec => Protocol!Init /\ [][Protocol!Next]_([p \in Procs |-> ctl[p].cache])
  BY InitIInv, NextKeepsIInv, InitCoherent, NextKeepsCoherence, <1>1, <1>2, PTL DEF Spec
<1> QED BY <1>3, PTL DEF ImplementsCoherence, Protocol!Spec

=============================================================================
