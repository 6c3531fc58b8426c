------------------------------- MODULE Memory -------------------------------
(***************************************************************************)
(* The main memory (Memory.cpp): a list of reads that age for ReadLatency  *)
(* cycles, and one data return at a time that occupies the bus for a burst.*)
(* A data transfer seen on the bus cancels the memory's read of that line. *)
(***************************************************************************)
EXTENDS BusProtocol

CONSTANTS
  ReadLatency,    \* cycles before a read may be answered, option -l
  CounterModulus  \* burstCounter is an unsigned int: 2^32 in the program

ASSUME ReadLatencyAssumption == ReadLatency \in Nat \ {0}
ASSUME CounterModulusAssumption == CounterModulus \in Nat /\ CounterModulus > BurstLen

VARIABLES
  memTracker,       \* the MemoryOperations in arrival order
  memQueue,         \* busReqQueue, front first
  memBursting,
  memBurstCounter,
  burstRequest      \* the data return being burst; NoRequest before the first

memVars == <<memTracker, memQueue, memBursting, memBurstCounter, burstRequest>>

NoRequest == [command |-> "NONE"]

MemoryOperation == [address : Addrs, age : 0 .. ReadLatency, returnAddress : BusNodes]

MemTypeOK ==
  /\ memTracker \in Seq(MemoryOperation)
  /\ memQueue \in Seq(BusRequest)
  /\ memBursting \in BOOLEAN
  /\ memBurstCounter \in 0 .. CounterModulus - 1
  /\ burstRequest \in BusRequest \cup {NoRequest}
  /\ memBursting => burstRequest \in BusRequest

MemInit ==
  /\ memTracker = <<>>
  /\ memQueue = <<>>
  /\ memBursting = FALSE
  /\ memBurstCounter = 0
  /\ burstRequest = NoRequest

(* acceptBusTransaction: reads are tracked; data on the bus cancels the    *)
(* first tracked read of its line, whoever asked for it.                   *)
FirstOpTo(ops, a) == CHOOSE i \in DOMAIN ops :
  ops[i].address = a /\ \A j \in 1 .. i - 1 : ops[j].address # a

(* Broken variants: a new read goes to the front of the list; a transfer   *)
(* cancels the oldest read, whatever its line.                             *)
TrackedInFront(ops, m) ==
  IF m.command \in ReadCommands
  THEN <<[address |-> m.payload, age |-> 0, returnAddress |-> m.source]>> \o ops
  ELSE IF m.command \in DataCommands /\ \E i \in DOMAIN ops : ops[i].address = m.payload
       THEN Erase(ops, FirstOpTo(ops, m.payload))
       ELSE ops

TrackedCancellingOldest(ops, m) ==
  IF m.command \in ReadCommands
  THEN Append(ops, [address |-> m.payload, age |-> 0, returnAddress |-> m.source])
  ELSE IF m.command \in DataCommands /\ ops # <<>> THEN Tail(ops) ELSE ops

Tracked(ops, m) ==
  IF m.command \in ReadCommands
  THEN Append(ops, [address |-> m.payload, age |-> 0, returnAddress |-> m.source])
  ELSE IF m.command \in DataCommands /\ \E i \in DOMAIN ops : ops[i].address = m.payload
       THEN Erase(ops, FirstOpTo(ops, m.payload))
       ELSE ops

MemAccept(m) ==
  /\ memTracker' = Tracked(memTracker, m)
  /\ UNCHANGED <<memQueue, memBursting, memBurstCounter, burstRequest>>

(* initiateBusTransaction: the bus takes the front of the queue.           *)
MemRequestsTransaction == memQueue # <<>>
MemRequestsLock == memBursting

MemInitiate ==
  /\ memQueue' = Tail(memQueue)
  /\ UNCHANGED <<memTracker, memBursting, memBurstCounter, burstRequest>>

(* updateReadAges. An age is only compared with ReadLatency and with the   *)
(* ages of other reads, which never overtake it, so it stops at ReadLatency*)
Aged(ops) == [i \in DOMAIN ops |->
  [ops[i] EXCEPT !.age = IF @ < ReadLatency THEN @ + 1 ELSE @]]

(* getOldestOp: the first of the reads with the greatest age.              *)
OldestOp(ops) == CHOOSE i \in DOMAIN ops :
  /\ \A j \in DOMAIN ops : ops[j].age <= ops[i].age
  /\ \A j \in 1 .. i - 1 : ops[j].age < ops[i].age

DataReturn(op) == [command |-> "DATA_RETURN_MEMORY", payload |-> op.address,
                   source |-> MemoryAddress, target |-> op.returnAddress]

NullBurst == [command |-> "NULL_BURST", payload |-> burstRequest.payload,
              source |-> MemoryAddress, target |-> BROADCAST_ADX]

(* Tick while a line is being burst: the last beat queues the data return, *)
(* an earlier one a NULL_BURST, and only while the memory holds the bus.   *)
CountBeat(counter, locked) == IF locked THEN (counter + 1) % CounterModulus ELSE counter

(* Broken: the counter is not reset when the burst ends.                   *)
BurstEndWithoutReset(locked) ==
  /\ memBursting
  /\ memBurstCounter = BurstLen - 1
  /\ memQueue' = Append(memQueue, burstRequest)
  /\ memBursting' = FALSE
  /\ memBurstCounter' = CountBeat(memBurstCounter, locked)
  /\ UNCHANGED <<memTracker, burstRequest>>

BurstEnd(locked) ==
  /\ memBursting
  /\ memBurstCounter = BurstLen - 1
  /\ memQueue' = Append(memQueue, burstRequest)
  /\ memBursting' = FALSE
  /\ memBurstCounter' = CountBeat(0, locked)
  /\ UNCHANGED <<memTracker, burstRequest>>

BurstBeat(locked) ==
  /\ memBursting
  /\ memBurstCounter # BurstLen - 1
  /\ memQueue' = IF locked THEN Append(memQueue, NullBurst) ELSE memQueue
  /\ memBurstCounter' = CountBeat(memBurstCounter, locked)
  /\ UNCHANGED <<memTracker, memBursting, burstRequest>>

(* Tick between bursts: every read ages, and the oldest is taken out of    *)
(* the list and burst once it is old enough.                               *)
ReturnDue(ops) == ops # <<>> /\ ops[OldestOp(ops)].age >= ReadLatency

QueueDataReturn ==
  LET ops == Aged(memTracker) IN
  /\ ~memBursting
  /\ ReturnDue(ops)
  /\ burstRequest' = DataReturn(ops[OldestOp(ops)])
  /\ memTracker' = Erase(ops, OldestOp(ops))
  /\ memBursting' = TRUE
  /\ UNCHANGED <<memQueue, memBurstCounter>>

AgeReads ==
  LET ops == Aged(memTracker) IN
  /\ ~memBursting
  /\ ~ReturnDue(ops)
  /\ memTracker' = ops
  /\ UNCHANGED <<memQueue, memBursting, memBurstCounter, burstRequest>>

MemTick(locked) ==
  BurstEnd(locked) \/ BurstBeat(locked) \/ QueueDataReturn \/ AgeReads

=============================================================================
