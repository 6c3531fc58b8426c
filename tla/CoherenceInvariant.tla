------------------------- MODULE CoherenceInvariant -------------------------
(***************************************************************************)
(* Why the machine is coherent: the invariant its proofs rest on. Nothing  *)
(* here is code; it says what is true of the code's state in every cycle.  *)
(***************************************************************************)
EXTENDS System

-----------------------------------------------------------------------------
(* The life of a read. It is queued, alone; then dispatched and awaited;   *)
(* then it has arrived, in a bus cycle, and is consumed by the controller's*)
(* next tick. No read is under way in any other state of the machine.      *)
IssueStates == {"ISSUE_READ", "ISSUE_READX"}

ReadOf(c) == IF c.state = "ISSUE_READ" THEN ReadCommand ELSE "BUSREADX"

Quiet(c) == c.busReqQueue = <<>> /\ ~c.awaitingBusRead /\ c.awaitingDataLocal = NoAddr

ReadQueued(c, line) ==
  /\ c.busReqQueue = <<[command |-> ReadOf(c), payload |-> line]>>
  /\ ~c.awaitingBusRead /\ c.awaitingDataLocal = line /\ c.got = {}

ReadDispatched(c, line) ==
  c.busReqQueue = <<>> /\ c.awaitingBusRead /\ c.awaitingDataLocal = line /\ c.got = {}

ReadArrived(c) == c.state \in IssueStates /\ Quiet(c) /\ c.got # {}

InPhase(c, line) ==
  /\ c.state \in IssueStates =>
       /\ c.queuedBusRead /\ line \in Addrs /\ c.cache[line] = "I"
       /\ ReadQueued(c, line) \/ ReadDispatched(c, line) \/ ReadArrived(c)
  /\ c.state \notin IssueStates => Quiet(c)
  /\ c.state = "IDLE" => ~c.queuedBusRead /\ c.got = {} /\ c.saw = {}

Phases == \A p \in Procs :
  InPhase(ctl[p], Line(p)) /\ (turn < p => ~ReadArrived(ctl[p]))

-----------------------------------------------------------------------------
(* What the three protocols put on the bus and into their caches.          *)
RangeOf(q) == {q[i] : i \in DOMAIN q}
Outgoing(c) == RangeOf(c.maxPriorityQueue)

InProtocol(c) ==
  /\ \A r \in Outgoing(c) : r.command \in DataCommands \cup {"INVALIDATE", "SHAREME"}
  /\ ControllerType = "MI" =>
       /\ \A r \in Outgoing(c) : r.command \in DataCommands
       /\ c.saw \subseteq {"BUSREADX"}
       /\ \A x \in Addrs : c.cache[x] \in {"M", "I"}
  /\ ControllerType = "MSI" => \A x \in Addrs : c.cache[x] # "E"

Protocols == \A p \in Procs : InProtocol(ctl[p])

-----------------------------------------------------------------------------
(* Bursts. Between its tick and the bus cycle a controller asks for the    *)
(* lock exactly when its next request is a line; a burst that has begun    *)
(* holds the bus, and its line stays at the head of the queue.             *)
CarriesLine(c) == RequestsTransaction(c) /\ NextToIssue(c).command \in DataCommands

Announced == \A p \in Procs : turn < p => (ctl[p].bursting <=> CarriesLine(ctl[p]))

BurstHeld == \A p \in Procs : ctl[p].burstCounter > 0 =>
  /\ nodeLocked /\ lockedAddress = p
  /\ ctl[p].maxPriorityQueue # <<>> /\ Head(ctl[p].maxPriorityQueue).command \in DataCommands

-----------------------------------------------------------------------------
(* What the memory owes. It sends nothing but answers; every awaited read  *)
(* is tracked, being burst, or queued for the bus as a data return.        *)
Owed(p) ==
  \/ \E i \in DOMAIN memTracker :
       memTracker[i].address = Line(p) /\ memTracker[i].returnAddress = p
  \/ memBursting /\ burstRequest.payload = Line(p) /\ burstRequest.target = p
  \/ \E i \in DOMAIN memQueue :
       /\ memQueue[i].command = "DATA_RETURN_MEMORY"
       /\ memQueue[i].target = p /\ memQueue[i].payload = Line(p)

MemoryOwes ==
  /\ memBursting =>
       burstRequest.command = "DATA_RETURN_MEMORY" /\ burstRequest.source = MemoryAddress
  /\ \A i \in DOMAIN memQueue :
       /\ memQueue[i].command \in {"DATA_RETURN_MEMORY", "NULL_BURST"}
       /\ memQueue[i].source = MemoryAddress
  /\ \A p \in Procs : ctl[p].awaitingBusRead => Owed(p)

-----------------------------------------------------------------------------
(* Claims. The claim of a controller on a line is the state it has it in,  *)
(* or, while it awaits the line, the state its next update would give it if*)
(* the data came now: I when another asked for the line exclusively in the *)
(* meantime. "?" is a claim that the answer decides: E if the memory gives *)
(* it, S if another cache does.                                            *)
Reading(c, line, x) == c.state \in IssueStates /\ line = x /\ c.busReqQueue = <<>>
Exclusively(c) == c.state = "ISSUE_READX" \/ ControllerType = "MI"

ReadClaim(c) ==
  CASE Exclusively(c) -> IF c.saw = {} THEN "M" ELSE "I"
    [] ~Exclusively(c) /\ c.saw \cap {"BUSREADX", "INVALIDATE"} # {} -> "I"
    [] ~Exclusively(c) /\ c.saw = {"BUSREAD"} -> "S"
    [] ~Exclusively(c) /\ c.saw = {} ->
         IF c.awaitingBusRead THEN "?"
         ELSE IF "memory" \in c.got /\ ControllerType = "MESI" THEN "E" ELSE "S"

ClaimOf(c, line, x) ==
  IF c.cache[x] # "I" THEN c.cache[x]
  ELSE IF Reading(c, line, x) THEN ReadClaim(c) ELSE "I"

Claim(p, x) == ClaimOf(ctl[p], Line(p), x)

(* An owner's claim excludes every other.                                  *)
OneOwner == \A p, q \in Procs, x \in Addrs :
  p # q /\ Claim(p, x) \in {"M", "E"} => Claim(q, x) = "I"

(* While a claim is undecided and another controller has a claim too, some *)
(* other controller is about to send the line or a SHAREME, and the memory *)
(* will not get the bus before it does.                                    *)
Tells(c, x) == \E r \in Outgoing(c) : r.payload = x /\ r.command \in DataCommands \cup {"SHAREME"}

ToldInTime == \A p, q \in Procs, x \in Addrs :
  p # q /\ Claim(q, x) = "?" /\ Claim(p, x) # "I" =>
    /\ \E r \in Procs \ {q} : Tells(ctl[r], x)
    /\ ~(nodeLocked /\ lockedAddress = MemoryAddress)

(* A controller that awaits a line is not about to send it itself, nor to  *)
(* send a SHAREME for it before it has noted to share it.                  *)
NotItsOwnAnswer(c, line) == c.awaitingBusRead =>
  \A r \in Outgoing(c) : r.payload = line =>
    r.command \notin DataCommands /\ (r.command = "SHAREME" => "BUSREAD" \in c.saw)

OwnAnswers == \A p \in Procs : NotItsOwnAnswer(ctl[p], Line(p))

(* The invariant. With the types, the agreement of processors and          *)
(* controllers and the order of the memory's reads it is inductive.        *)
CoherenceInv ==
  /\ Phases /\ Protocols
  /\ Announced /\ BurstHeld
  /\ MemoryOwes
  /\ OneOwner /\ ToldInTime /\ OwnAnswers

=============================================================================
