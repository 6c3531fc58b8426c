--------------------------- MODULE CacheController ---------------------------
(***************************************************************************)
(* What the three protocol controllers inherit from CacheController.cpp:   *)
(* the two queues of outgoing bus requests, the burst machinery, and the   *)
(* cache. A controller is a record; an operator takes the record before a  *)
(* call and returns the record after it.                                   *)
(*                                                                         *)
(* The cache is a map from line addresses to MESI states, with room for    *)
(* LinesPerSet lines in each set; Cache and CacheSet model its lines, and  *)
(* are shown to implement this map.                                        *)
(***************************************************************************)
EXTENDS BusProtocol

CONSTANTS
  LinesPerSet,    \* CacheParams.h, LINES_PER_SET
  SetOf           \* SetOf[a]: the cache set of line a (Cache.cpp, getAdxSetNum)

ASSUME LinesPerSetAssumption == LinesPerSet \in Nat \ {0}

MESI == {"M", "E", "S", "I"}

(* The states a controller is in between two ticks. CHECK_CACHE_LD and     *)
(* CHECK_CACHE_ST are left in the tick they are entered in: their action   *)
(* functions call transitionState again.                                   *)
FsmStates == {"IDLE", "ISSUE_READ", "UPDATE_CACHE_LD", "ISSUE_READX",
              "ISSUE_INVALIDATE", "INVALIDATE_WAIT", "UPDATE_CACHE_ST"}

NoAddr == "none"
Queued == [command : Commands, payload : Addrs]

(* got   the three flags that tell where awaited data came from:           *)
(*       gotDataReturnFromBusRead_Memory, .._Processor, snooped..Writeback;*)
(* saw   sawBusRead-, sawBusReadX- and sawInvalidateToMyIncomingAddress;   *)
(* awaitingDataLocal  awaitingDataLocal_Address while that flag is set;    *)
(* awaitingBusRead    set together with dispatchedBusRead, which is never  *)
(*       cleared: the flag implies the pointer is not NULL.                *)
(* The head of each queue is its oldest request (the vector's back).       *)
Controller ==
  [state : FsmStates, got : SUBSET {"memory", "processor", "writeback"},
   saw : SUBSET {"BUSREAD", "BUSREADX", "INVALIDATE"},
   queuedBusRead : BOOLEAN, awaitingBusRead : BOOLEAN,
   awaitingDataLocal : Addrs \cup {NoAddr}, outgoingCommandWaitFlag : BOOLEAN,
   busReqQueue : Seq(Queued), maxPriorityQueue : Seq(Queued),
   bursting : BOOLEAN, burstCounter : 0 .. BurstLen - 1, cache : [Addrs -> MESI]]

NewController ==
  [state |-> "IDLE", got |-> {}, saw |-> {}, queuedBusRead |-> FALSE,
   awaitingBusRead |-> FALSE, awaitingDataLocal |-> NoAddr,
   outgoingCommandWaitFlag |-> FALSE, busReqQueue |-> <<>>, maxPriorityQueue |-> <<>>,
   bursting |-> FALSE, burstCounter |-> 0, cache |-> [a \in Addrs |-> "I"]]

-----------------------------------------------------------------------------
(* The cache as its controller uses it.                                    *)
Contains(c, a) == c.cache[a] # "I"
Cached(c) == {a \in Addrs : Contains(c, a)}
CachedBeside(c, a) == {v \in Cached(c) : SetOf[v] = SetOf[a]}
IsFull(c, a) == Cardinality(CachedBeside(c, a)) >= LinesPerSet
SetLine(c, a, s) == [c EXCEPT !.cache[a] = s]
Invalidate(c, a) == SetLine(c, a, "I")

-----------------------------------------------------------------------------
(* The queues.                                                             *)
AddNewBusRequest(c, code, a) ==
  [c EXCEPT !.busReqQueue = Append(@, [command |-> code, payload |-> a])]

(* Broken: the newest request is the next one issued.                      *)
AddNewMaxPriorityInFront(c, code, a) ==
  [c EXCEPT !.maxPriorityQueue = <<[command |-> code, payload |-> a]>> \o @]

AddNewMaxPriorityBusRequest(c, code, a) ==
  [c EXCEPT !.maxPriorityQueue = Append(@, [command |-> code, payload |-> a])]

RequestsTransaction(c) == c.busReqQueue # <<>> \/ c.maxPriorityQueue # <<>>
RequestsMaxPriority(c) == c.maxPriorityQueue # <<>>
RequestsLock(c) == c.bursting

NextToIssue(c) ==
  IF c.maxPriorityQueue # <<>> THEN Head(c.maxPriorityQueue) ELSE Head(c.busReqQueue)

PopNext(c) ==
  IF c.maxPriorityQueue # <<>>
  THEN [c EXCEPT !.maxPriorityQueue = Tail(@)]
  ELSE [c EXCEPT !.busReqQueue = Tail(@)]

(* updateBusBurstRequest: at the end of its tick a controller asks for the *)
(* bus lock exactly when its next request carries a line.                  *)
UpdateBusBurstRequest(c) ==
  [c EXCEPT !.bursting = RequestsTransaction(c) /\ NextToIssue(c).command \in DataCommands]

(* cancelBusRequest drops one matching request: the newest one in          *)
(* busReqQueue, or if it has none the newest one in maxPriorityQueue.      *)
Matches(q, code, a) == {i \in DOMAIN q : q[i].command = code /\ q[i].payload = a}

EraseNewest(q, S) == Erase(q, CHOOSE i \in S : \A j \in S : j <= i)

CancelBusRequest(c, code, a) ==
  LET inBus == Matches(c.busReqQueue, code, a)
      inMax == Matches(c.maxPriorityQueue, code, a)
  IN CASE inBus # {} -> [c EXCEPT !.busReqQueue = EraseNewest(@, inBus)]
       [] inBus = {} /\ inMax # {} -> [c EXCEPT !.maxPriorityQueue = EraseNewest(@, inMax)]
       [] OTHER -> c

-----------------------------------------------------------------------------
(* initiateBusTransaction. A burst spends BurstLen beats: NULL_BURSTs, then*)
(* the request itself. Any other request leaves its queue at once.         *)
BeatsDone(c, locked) == IF c.bursting /\ locked THEN c.burstCounter + 1 ELSE c.burstCounter

(* Broken: one beat too many, and one too few.                             *)
MidBurstOffByOne(c, locked) == c.bursting /\ BeatsDone(c, locked) # BurstLen + 1
MidBurstTooShort(c, locked) == c.bursting /\ BeatsDone(c, locked) # BurstLen - 1

MidBurst(c, locked) == c.bursting /\ BeatsDone(c, locked) # BurstLen

Issued(c, locked) ==
  [command |-> IF MidBurst(c, locked) THEN "NULL_BURST" ELSE NextToIssue(c).command,
   payload |-> NextToIssue(c).payload]

(* A dispatched read is awaited; a dispatched INVALIDATE (the only code    *)
(* outgoingCommandWaitCode is ever set to) clears outgoingCommandWaitFlag. *)
AfterIssue(c, locked) ==
  LET code == Issued(c, locked).command
      d == IF MidBurst(c, locked)
           THEN [c EXCEPT !.burstCounter = BeatsDone(c, locked)]
           ELSE [PopNext(c) EXCEPT !.burstCounter = IF c.bursting THEN 0 ELSE @]
  IN [d EXCEPT !.awaitingBusRead = @ \/ code \in ReadCommands,
               !.outgoingCommandWaitFlag = @ /\ code # "INVALIDATE"]

=============================================================================
