---------------------------- MODULE Interconnect ----------------------------
(***************************************************************************)
(* The shared bus (Interconnect.cpp) and the lock flag of its nodes        *)
(* (BusNode.cpp): once per cycle one node is serviced, chosen by a         *)
(* rotating priority, by a maximum-priority request, or because it holds   *)
(* the bus. What the nodes ask for is given to each tick as three sets.    *)
(***************************************************************************)
EXTENDS BusProtocol

VARIABLES
  nodeLocked,      \* the bus believes a node has locked it ...
  lockedAddress,   \* ... and this one (0 before the first lock)
  priorityQueue,   \* node addresses, highest priority first
  nodeIsLocked     \* the nodes that believe they hold the bus

busVars == <<nodeLocked, lockedAddress, priorityQueue, nodeIsLocked>>

(* A priority order is a permutation of the nodes.                         *)
PriorityOrders == {q \in [BusNodes -> BusNodes] :
                     \A n \in BusNodes : \E i \in BusNodes : q[i] = n}

BusTypeOK ==
  /\ nodeLocked \in BOOLEAN
  /\ lockedAddress \in BusNodes \cup {BROADCAST_ADX}
  /\ priorityQueue \in PriorityOrders
  /\ nodeIsLocked \in SUBSET BusNodes

BusInit ==
  /\ nodeLocked = FALSE
  /\ lockedAddress = 0
  /\ priorityQueue = [i \in BusNodes |-> i]
  /\ nodeIsLocked = {}

(* The place in the priority queue of the first node of S.                 *)
FirstOf(S) == CHOOSE i \in DOMAIN priorityQueue :
  /\ priorityQueue[i] \in S
  /\ \A j \in 1 .. i - 1 : priorityQueue[j] \notin S

(* The nodes serviceBusNode visits in a cycle: only the holder of the bus; *)
(* else only the first maximum-priority requester; else every node up to   *)
(* the first one that wants the bus, or all of them when none does.        *)
(* The last one visited is the one serviced.                               *)
Visited(maxReq, wanting) ==
  CASE nodeLocked -> {lockedAddress}
    [] ~nodeLocked /\ maxReq # {} -> {priorityQueue[FirstOf(maxReq)]}
    [] ~nodeLocked /\ maxReq = {} /\ wanting # {} ->
         {priorityQueue[i] : i \in 1 .. FirstOf(wanting)}
    [] OTHER -> BusNodes

Serviced(maxReq, wanting) ==
  CASE nodeLocked -> lockedAddress
    [] ~nodeLocked /\ maxReq # {} -> priorityQueue[FirstOf(maxReq)]
    [] ~nodeLocked /\ maxReq = {} /\ wanting # {} -> priorityQueue[FirstOf(wanting)]
    [] OTHER -> priorityQueue[MemoryAddress]

(* updatePriorityQueue: the head moves to the back, every cycle.           *)
Rotated(q) == [i \in BusNodes |-> IF i = MemoryAddress THEN q[1] ELSE q[i + 1]]

(* Broken: a node that no longer asks for the lock is not told that it has *)
(* lost it (no releaseLock).                                               *)
BusTickWithoutRelease(maxReq, lockReq, txReq) ==
  LET serviced == Serviced(maxReq, lockReq \cup txReq)
  IN /\ nodeLocked' = (serviced \in lockReq)
     /\ lockedAddress' = IF serviced \in lockReq THEN serviced ELSE lockedAddress
     /\ nodeIsLocked' = nodeIsLocked \cup ({serviced} \cap lockReq)
     /\ priorityQueue' = Rotated(priorityQueue)

(* Tick, as far as the bus's own state goes: a visited node gets the lock  *)
(* if it asks for it and loses it if it does not.                          *)
BusTick(maxReq, lockReq, txReq) ==
  LET wanting  == lockReq \cup txReq
      serviced == Serviced(maxReq, wanting)
  IN /\ nodeLocked' = (serviced \in lockReq)
     /\ lockedAddress' = IF serviced \in lockReq THEN serviced ELSE lockedAddress
     /\ nodeIsLocked' = IF serviced \in lockReq
                        THEN (nodeIsLocked \ Visited(maxReq, wanting)) \cup {serviced}
                        ELSE nodeIsLocked \ Visited(maxReq, wanting)
     /\ priorityQueue' = Rotated(priorityQueue)

(* The bus and its nodes agree on who holds the bus, and at most one node  *)
(* believes it does (Interconnect.cpp:57-65, BusNode.cpp:11-21).           *)
LockAgreement ==
  nodeIsLocked = IF nodeLocked THEN {lockedAddress} ELSE {}

=============================================================================
