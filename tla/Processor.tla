------------------------------ MODULE Processor ------------------------------
(***************************************************************************)
(* A processor and the cache controller it owns (Processor.cpp and the     *)
(* state machine the three controllers share). A tick of the processor is  *)
(* a tick of its controller followed by a step of its own machine; in      *)
(* between, the controller takes part in bus transactions.                 *)
(***************************************************************************)
EXTENDS MSI_Controller, MI_Controller

CONSTANT ControllerType   \* option -c

ASSUME ControllerTypeAssumption == ControllerType \in {"MI", "MSI", "MESI"}
ASSUME NoAddrAssumption == NoAddr \notin Addrs

VARIABLES
  ctl,          \* cacheController, per processor
  pending,      \* its pendingInstructionFlag
  inst,         \* the Instruction object that processingInst and the
                \* controller's currentInstruction point to
  pState,       \* the processor's own currentState
  instrQueue

procVars == <<ctl, pending, inst, pState, instrQueue>>

Instructions == [op : {"LOAD", "STORE"}, line : Addrs]
NoInst == [op |-> "NONE", line |-> NoAddr]   \* the object has been deleted

ProcTypeOK ==
  /\ ctl \in [Procs -> Controller]
  /\ pending \in [Procs -> BOOLEAN]
  /\ inst \in [Procs -> Instructions \cup {NoInst}]
  /\ pState \in [Procs -> {"IDLE", "CHECKOPTYPE", "MEMORYRETURNWAIT"}]
  /\ instrQueue \in [Procs -> Seq(Instructions)]

(* The constructors leave both currentStates, processingInst and           *)
(* dispatchedBusRead unset. In memory fresh from the system they read as   *)
(* IDLE and NULL, as here. With 18 processors or more one Processor lies in*)
(* recycled memory, and the program fails in its first Idle_Action.        *)
ProcInit ==
  /\ ctl = [p \in Procs |-> NewController]
  /\ pending = [p \in Procs |-> FALSE]
  /\ inst = [p \in Procs |-> NoInst]
  /\ pState = [p \in Procs |-> "IDLE"]
  /\ instrQueue = [p \in Procs |-> <<>>]

-----------------------------------------------------------------------------
(* The controller the processor was built with.                            *)
(* (The first is broken: a load of an MI controller that is not exclusive.)*)
ReadCommandOfMESI == "BUSREAD"
ReadCommand == IF ControllerType = "MI" THEN "BUSREADX" ELSE "BUSREAD"

Accept(c, line, m) ==
  IF ControllerType = "MI" THEN MI_Accept(c, line, m) ELSE MESI_Accept(c, line, m)

UpdateCacheLoad(c, line) ==
  CASE ControllerType = "MI"   -> MI_UpdateCacheLoad(c, line)
    [] ControllerType = "MSI"  -> MSI_UpdateCacheLoad(c, line)
    [] ControllerType = "MESI" -> MESI_UpdateCacheLoad(c, line)

UpdateCacheStore(c, line) ==
  IF ControllerType = "MI" THEN MI_UpdateCacheStore(c, line)
  ELSE MESI_UpdateCacheStore(c, line)

-----------------------------------------------------------------------------
(* CacheController::Tick: the machine enters state s with the action that  *)
(* turns its record into one of `outcomes', then updateBusBurstRequest.    *)
Enter(p, s, outcomes) ==
  \E c \in outcomes : ctl' = [ctl EXCEPT ![p] = UpdateBusBurstRequest([c EXCEPT !.state = s])]

Op(p) == inst[p].op
Line(p) == inst[p].line
ReadOutstanding(c) == c.awaitingBusRead \/ c.awaitingDataLocal # NoAddr

(* The update states return to IDLE after one cycle. So does               *)
(* INVALIDATE_WAIT, which getNextState has no case for, whatever           *)
(* outgoingCommandWaitFlag says.                                           *)
ReturnToIdle(p) ==
  /\ ctl[p].state \in {"UPDATE_CACHE_LD", "UPDATE_CACHE_ST", "INVALIDATE_WAIT"}
  /\ Enter(p, "IDLE", {IdleAction(ctl[p])})

StayIdle(p) ==
  /\ ctl[p].state = "IDLE" /\ ~pending[p]
  /\ Enter(p, "IDLE", {IdleAction(ctl[p])})

Start(p, op) == ctl[p].state = "IDLE" /\ pending[p] /\ Op(p) = op

LoadHit(p) ==
  /\ Start(p, "LOAD") /\ Contains(ctl[p], Line(p))
  /\ Enter(p, "UPDATE_CACHE_LD", UpdateCacheLoad(ctl[p], Line(p)))

LoadMiss(p) ==
  /\ Start(p, "LOAD") /\ ~Contains(ctl[p], Line(p))
  /\ Enter(p, "ISSUE_READ", {QueueReadOnce(ctl[p], Line(p), ReadCommand)})

StoreMiss(p) ==
  /\ Start(p, "STORE") /\ ~Contains(ctl[p], Line(p))
  /\ Enter(p, "ISSUE_READX", {QueueReadOnce(ctl[p], Line(p), "BUSREADX")})

(* Under MI every present line is expected to be Modified (an assertion),  *)
(* and under the others a Shared one has to be invalidated elsewhere.      *)
StoreHitOwned(p) ==
  /\ Start(p, "STORE") /\ Contains(ctl[p], Line(p))
  /\ ctl[p].cache[Line(p)] # "S"
  /\ Enter(p, "UPDATE_CACHE_ST", UpdateCacheStore(ctl[p], Line(p)))

StoreHitShared(p) ==
  /\ Start(p, "STORE") /\ Contains(ctl[p], Line(p))
  /\ ctl[p].cache[Line(p)] = "S"
  /\ Enter(p, "ISSUE_INVALIDATE", {IssueInvalidate(ctl[p], Line(p))})

AwaitRead(p) ==
  /\ ctl[p].state = "ISSUE_READ" /\ ReadOutstanding(ctl[p])
  /\ Enter(p, "ISSUE_READ", {QueueReadOnce(ctl[p], Line(p), ReadCommand)})

AwaitReadX(p) ==
  /\ ctl[p].state = "ISSUE_READX" /\ ReadOutstanding(ctl[p])
  /\ Enter(p, "ISSUE_READX", {QueueReadOnce(ctl[p], Line(p), "BUSREADX")})

ReadReturned(p) ==
  /\ ctl[p].state = "ISSUE_READ" /\ ~ReadOutstanding(ctl[p])
  /\ Enter(p, "UPDATE_CACHE_LD", UpdateCacheLoad(ctl[p], Line(p)))

ReadXReturned(p) ==
  /\ ctl[p].state = "ISSUE_READX" /\ ~ReadOutstanding(ctl[p])
  /\ Enter(p, "UPDATE_CACHE_ST", UpdateCacheStore(ctl[p], Line(p)))

(* InvalidateWait_Action is empty, and is not called anyway.               *)
InvalidateIssued(p) ==
  /\ ctl[p].state = "ISSUE_INVALIDATE"
  /\ Enter(p, "INVALIDATE_WAIT", {ctl[p]})

ControllerTick(p) ==
  \/ ReturnToIdle(p) \/ StayIdle(p)
  \/ LoadHit(p) \/ LoadMiss(p) \/ AwaitRead(p) \/ ReadReturned(p)
  \/ StoreHitOwned(p) \/ StoreHitShared(p) \/ InvalidateIssued(p)
  \/ StoreMiss(p) \/ AwaitReadX(p) \/ ReadXReturned(p)

-----------------------------------------------------------------------------
(* The processor's own step, after its controller's: Idle_Action of the    *)
(* controller has dropped pendingInstructionFlag if it went to IDLE.       *)

(* Broken: the processor's step before its controller's.                   *)
WasPending(p) == pending[p] /\ ctl[p].state # "IDLE"

StillPending(p) == pending[p] /\ ctl'[p].state # "IDLE"

NextProcessorState(p) ==
  CASE pState[p] = "IDLE" -> IF instrQueue[p] # <<>> THEN "CHECKOPTYPE" ELSE "IDLE"
    [] pState[p] = "CHECKOPTYPE" ->
         IF StillPending(p) THEN "MEMORYRETURNWAIT"
         ELSE IF instrQueue[p] # <<>> THEN "CHECKOPTYPE" ELSE "IDLE"
    [] pState[p] = "MEMORYRETURNWAIT" ->
         IF StillPending(p) THEN "MEMORYRETURNWAIT" ELSE "IDLE"

(* CHECKOPTYPE hands the next instruction to the controller                *)
(* (handleMemoryAccess); IDLE deletes the instruction that was processed.  *)
ProcessorTransition(p) ==
  LET next == NextProcessorState(p) IN
  /\ pState' = [pState EXCEPT ![p] = next]
  /\ pending' = [pending EXCEPT ![p] = IF next = "CHECKOPTYPE" THEN TRUE ELSE StillPending(p)]
  /\ inst' = [inst EXCEPT ![p] = CASE next = "IDLE" -> NoInst
                                   [] next = "CHECKOPTYPE" -> Head(instrQueue[p])
                                   [] next = "MEMORYRETURNWAIT" -> @]
  /\ instrQueue' = [instrQueue EXCEPT ![p] = IF next = "CHECKOPTYPE" THEN Tail(@) ELSE @]

ProcessorTick(p) == ControllerTick(p) /\ ProcessorTransition(p)

-----------------------------------------------------------------------------
(* A processor and its controller agree on the instruction in progress     *)
(* (Processor.cpp:48-73, CacheController.cpp:139-150): handleMemoryAccess  *)
(* is never called while an instruction is pending, and the Instruction    *)
(* object exists as long as the controller's states dereference it.        *)
ProcessorControllerAgreement == \A p \in Procs :
  CASE pState[p] = "IDLE" ->
         ~pending[p] /\ ctl[p].state = "IDLE" /\ inst[p] = NoInst
    [] pState[p] = "CHECKOPTYPE" ->
         pending[p] /\ ctl[p].state = "IDLE" /\ inst[p] \in Instructions
    [] pState[p] = "MEMORYRETURNWAIT" ->
         pending[p] /\ ctl[p].state # "IDLE" /\ inst[p] \in Instructions

=============================================================================
