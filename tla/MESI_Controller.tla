--------------------------- MODULE MESI_Controller ---------------------------
(***************************************************************************)
(* The MESI protocol (MESI_Controller.cpp): what a controller does with a  *)
(* transaction it sees on the bus, and what the states of its machine do   *)
(* to the cache and the queues. `line' below is the line of the            *)
(* controller's current instruction.                                       *)
(***************************************************************************)
EXTENDS CacheController

AwaitingDataRemote(c, line, a) == line = a /\ c.awaitingBusRead
AwaitsLocally(c, a) == c.awaitingDataLocal = a

Saw(c, event) == [c EXCEPT !.saw = @ \cup {event}]

DataArrived(c, from) ==
  [c EXCEPT !.got = @ \cup {from}, !.awaitingBusRead = FALSE, !.awaitingDataLocal = NoAddr]

(* The copy a snooped read finds is sent back, by a BUSWRITE if modified.  *)
SupplyData(c, a) ==
  AddNewMaxPriorityBusRequest(c, IF c.cache[a] = "M" THEN "BUSWRITE"
                                 ELSE "DATA_RETURN_PROCESSOR", a)

(* Broken variants of the three handlers below: the reader that waits for  *)
(* the line forgets the read it saw; the one that waits forgets the BUSREADX*)
(* it saw; a waiting reader does not take a line from a write-back; the    *)
(* SHAREME takes its turn among the reads.                                 *)
HandleBusReadForgetful(c, a) ==
  CASE Contains(c, a) -> SetLine(SupplyData(c, a), a, "S")
    [] ~Contains(c, a) /\ AwaitsLocally(c, a) -> AddNewMaxPriorityBusRequest(c, "SHAREME", a)
    [] OTHER -> c

HandleBusReadXForgetful(c, a) ==
  IF Contains(c, a) THEN Invalidate(SupplyData(c, a), a) ELSE c

HandleBusWriteIgnored(c, line, a) == c

HandleBusReadUnhurried(c, a) ==
  CASE Contains(c, a) -> SetLine(SupplyData(c, a), a, "S")
    [] ~Contains(c, a) /\ AwaitsLocally(c, a) ->
         AddNewBusRequest(Saw(c, "BUSREAD"), "SHAREME", a)
    [] OTHER -> c

HandleBusRead(c, a) ==
  CASE Contains(c, a) -> SetLine(SupplyData(c, a), a, "S")
    [] ~Contains(c, a) /\ AwaitsLocally(c, a) ->
         AddNewMaxPriorityBusRequest(Saw(c, "BUSREAD"), "SHAREME", a)
    [] OTHER -> c

HandleBusReadX(c, a) ==
  CASE Contains(c, a) -> Invalidate(SupplyData(c, a), a)
    [] ~Contains(c, a) /\ AwaitsLocally(c, a) -> Saw(c, "BUSREADX")
    [] OTHER -> c

HandleBusWrite(c, line, a) ==
  IF AwaitingDataRemote(c, line, a) THEN DataArrived(c, "writeback") ELSE c

HandleDataReturn(c, line, a, from) ==
  CancelBusRequest(IF AwaitingDataRemote(c, line, a) THEN DataArrived(c, from) ELSE c,
                   "DATA_RETURN_PROCESSOR", a)

HandleDataReturnMemory(c, line, a) == HandleDataReturn(c, line, a, "memory")
HandleDataReturnProcessor(c, line, a) == HandleDataReturn(c, line, a, "processor")

HandleInvalidate(c, a) ==
  CASE Contains(c, a) ->
         Invalidate(IF c.cache[a] = "M" THEN AddNewMaxPriorityBusRequest(c, "BUSWRITE", a)
                    ELSE c, a)
    [] ~Contains(c, a) /\ AwaitsLocally(c, a) -> Saw(c, "INVALIDATE")
    [] OTHER -> c

HandleShareMe(c, a) ==
  CASE Contains(c, a) -> SetLine(c, a, "S")
    [] ~Contains(c, a) /\ AwaitsLocally(c, a) -> Saw(c, "BUSREAD")
    [] OTHER -> c

MESI_Accept(c, line, m) ==
  CASE m.command = "BUSREAD"    -> HandleBusRead(c, m.payload)
    [] m.command = "BUSREADX"   -> HandleBusReadX(c, m.payload)
    [] m.command = "BUSWRITE"   -> HandleBusWrite(c, line, m.payload)
    [] m.command = "DATA_RETURN_MEMORY" -> HandleDataReturnMemory(c, line, m.payload)
    [] m.command = "DATA_RETURN_PROCESSOR" -> HandleDataReturnProcessor(c, line, m.payload)
    [] m.command = "INVALIDATE" -> HandleInvalidate(c, m.payload)
    [] m.command = "SHAREME"    -> HandleShareMe(c, m.payload)
    [] OTHER -> c

-----------------------------------------------------------------------------
(* The actions of the states. They are entered with `state' already set.   *)
IdleAction(c) ==
  [c EXCEPT !.got = {}, !.saw = {}, !.awaitingBusRead = FALSE, !.queuedBusRead = FALSE]

(* IssueRead_Action and IssueReadX_Action queue their read once.           *)
(* Broken: queuedBusRead is never set.                                     *)
QueueReadAgain(c, line, command) ==
  IF c.queuedBusRead THEN c
  ELSE [AddNewBusRequest(c, command, line) EXCEPT !.awaitingDataLocal = line]

QueueReadOnce(c, line, command) ==
  IF c.queuedBusRead THEN c
  ELSE [AddNewBusRequest(c, command, line) EXCEPT !.queuedBusRead = TRUE,
                                                  !.awaitingDataLocal = line]

(* Space for a line: a set of controllers, one for each victim of the line's*)
(* set if that is full. The write-back tests the victim after              *)
(* evictLineInSet, which has already made it INVALID.                      *)
WriteBackIfModified(c, v) ==
  IF c.cache[v] = "M" THEN AddNewMaxPriorityBusRequest(c, "BUSWRITE", v) ELSE c

MakeRoom(c, line) ==
  IF IsFull(c, line)
  THEN {WriteBackIfModified(Invalidate(c, v), v) : v \in CachedBeside(c, line)}
  ELSE {c}

Fill(c, line, s) == {SetLine(d, line, s) : d \in MakeRoom(c, line)}

(* UpdateCacheLoad_Action. Data seen for the line of a BUSREADX or of an   *)
(* INVALIDATE is forwarded to the processor and not cached.                *)
LoadFillState(c) ==
  IF "BUSREAD" \notin c.saw /\ "memory" \in c.got THEN "E" ELSE "S"

MESI_UpdateCacheLoad(c, line) ==
  IF c.saw \cap {"BUSREADX", "INVALIDATE"} # {} \/ Contains(c, line)
  THEN {c} ELSE Fill(c, line, LoadFillState(c))

(* UpdateCacheStore_Action. A line another cache asked for meanwhile is    *)
(* written through to memory and not cached.                               *)
MESI_UpdateCacheStore(c, line) ==
  CASE c.saw # {} -> {AddNewMaxPriorityBusRequest(c, "BUSWRITE", line)}
    [] c.saw = {} /\ Contains(c, line) -> {SetLine(c, line, "M")}
    [] OTHER -> Fill(c, line, "M")

IssueInvalidate(c, line) ==
  [AddNewMaxPriorityBusRequest(c, "INVALIDATE", line) EXCEPT !.outgoingCommandWaitFlag = TRUE]

=============================================================================
