--------------------------- MODULE System_proofs ---------------------------
(***************************************************************************)
(* The theorems about the machine, for every number of processors, every   *)
(* set of addresses, every latency and burst length, every protocol and    *)
(* every workload. First facts about sequences and numbers, then the       *)
(* memory, a processor with its controller, the bus, and the machine.      *)
(***************************************************************************)
EXTENDS System, SequenceTheorems, WellFoundedInduction, TLAPS

-----------------------------------------------------------------------------
(* SEQUENCES AND NUMBERS.                                                  *)

(* A non-empty set of natural numbers has a least element: what makes the  *)
(* searches of the code for the first match (FirstOpTo, OldestOp) defined. *)
LEMMA LeastNat ==
  ASSUME NEW T \in SUBSET Nat, T # {}
  PROVE  \E x \in T : \A y \in T : x <= y
<1> DEFINE R == {ss \in Nat \X Nat : ss[1] < ss[2]}
<1>1. IsWellFoundedOn(R, Nat)
  BY NatLessThanWellFounded DEF OpToRel
<1> HIDE DEF R
<1>2. PICK x \in T : \A y \in T : <<y, x>> \notin R
  BY <1>1, WFMin
<1>3. \A y \in T : ~(y < x)
  BY <1>2 DEF R
<1> QED BY <1>3

(* A non-empty set of natural numbers below a bound has a greatest element.*)
LEMMA GreatestNat ==
  ASSUME NEW n \in Nat, NEW T \in SUBSET (0 .. n), T # {}
  PROVE  \E x \in T : \A y \in T : y <= x
<1> DEFINE U == {n - x : x \in T}
<1>1. U \in SUBSET Nat /\ U # {}
  <2>1. \A x \in T : n - x \in Nat
    OBVIOUS
  <2>2. PICK t \in T : TRUE
    OBVIOUS
  <2>3. n - t \in U
    BY <2>2
  <2> QED BY <2>1, <2>3
<1>2. PICK u \in U : \A v \in U : u <= v
  BY <1>1, LeastNat
<1>3. PICK x \in T : u = n - x
  BY <1>2
<1>4. ASSUME NEW y \in T PROVE y <= x
  <2>1. u <= n - y
    BY <1>2
  <2> QED BY <1>3, <2>1
<1> QED BY <1>4

(* Erasing an element of a sequence leaves a sequence over the same set,   *)
(* whose elements keep their order.                                        *)
LEMMA EraseSeq ==
  ASSUME NEW S, NEW s \in Seq(S), NEW i \in 1 .. Len(s)
  PROVE  /\ Erase(s, i) \in Seq(S)
         /\ Len(Erase(s, i)) = Len(s) - 1
         /\ \A j \in 1 .. Len(s) - 1 : Erase(s, i)[j] = IF j < i THEN s[j] ELSE s[j + 1]
<1> DEFINE front == SubSeq(s, 1, i - 1)
           back  == SubSeq(s, i + 1, Len(s))
<1>1. Len(s) \in Nat /\ \A j \in 1 .. Len(s) : s[j] \in S
  BY LenProperties, ElementOfSeq
<1>2. /\ front \in Seq(S)
      /\ Len(front) = i - 1
      /\ \A j \in 1 .. i - 1 : front[j] = s[j]
  <2>1. \A j \in 1 .. i - 1 : s[j] \in S
    BY <1>1
  <2>2. /\ front \in Seq(S)
        /\ Len(front) = IF 1 <= i - 1 THEN (i - 1) - 1 + 1 ELSE 0
        /\ \A j \in 1 .. (i - 1) - 1 + 1 : front[j] = s[1 + j - 1]
    BY <2>1, SubSeqProperties
  <2> HIDE DEF front
  <2> QED BY <1>1, <2>2
<1>3. /\ back \in Seq(S)
      /\ Len(back) = Len(s) - i
      /\ \A j \in 1 .. Len(s) - i : back[j] = s[i + j]
  <2>1. \A j \in i + 1 .. Len(s) : s[j] \in S
    BY <1>1
  <2>2. /\ back \in Seq(S)
        /\ Len(back) = IF i + 1 <= Len(s) THEN Len(s) - (i + 1) + 1 ELSE 0
        /\ \A j \in 1 .. Len(s) - (i + 1) + 1 : back[j] = s[i + 1 + j - 1]
    BY <1>1, <2>1, SubSeqProperties
  <2> HIDE DEF back
  <2> QED BY <1>1, <2>2
<1>4. Erase(s, i) = front \o back
  BY DEF Erase, SeqsExt!RemoveAt
<1> HIDE DEF front, back
<1>5. /\ front \o back \in Seq(S)
      /\ Len(front \o back) = Len(front) + Len(back)
      /\ \A j \in 1 .. Len(front) + Len(back) :
           (front \o back)[j] = IF j <= Len(front) THEN front[j] ELSE back[j - Len(front)]
  BY <1>2, <1>3, ConcatProperties
<1> QED BY <1>1, <1>2, <1>3, <1>4, <1>5

-----------------------------------------------------------------------------
(* THE MEMORY keeps its types, its reads in order of age and its bursts    *)
(* within their length, whatever the bus and the lock do.                  *)

(* The ages of tracked reads never increase along the list, so the oldest  *)
(* read getOldestOp picks is the first that arrived (Memory.cpp:107-118).  *)
AgesOrdered(ops) == \A i, j \in DOMAIN ops : i < j => ops[i].age >= ops[j].age

(* Between two bursts the counter is 0, or 1 when the bus still held the   *)
(* lock at the end of the last one.                                        *)
BurstCounted ==
  IF memBursting THEN memBurstCounter < BurstLen ELSE memBurstCounter \in {0, 1}

-----------------------------------------------------------------------------
(* The searches of the memory find what they look for.                     *)

LEMMA FirstOpToFound ==
  ASSUME NEW ops \in Seq(MemoryOperation), NEW x, \E i \in DOMAIN ops : ops[i].address = x
  PROVE  FirstOpTo(ops, x) \in 1 .. Len(ops)
<1> DEFINE T == {i \in 1 .. Len(ops) : ops[i].address = x}
<1>1. Len(ops) \in Nat /\ DOMAIN ops = 1 .. Len(ops)
  BY LenProperties
<1>2. T \in SUBSET Nat /\ T # {}
  BY <1>1
<1>3. PICK i \in T : \A j \in T : i <= j
  BY <1>2, LeastNat
<1>4. i \in DOMAIN ops /\ ops[i].address = x /\ \A j \in 1 .. i - 1 : ops[j].address # x
  BY <1>1, <1>3
<1> QED BY <1>1, <1>4 DEF FirstOpTo

LEMMA AgedReads ==
  ASSUME NEW ops \in Seq(MemoryOperation), AgesOrdered(ops)
  PROVE  /\ Aged(ops) \in Seq(MemoryOperation)
         /\ Len(Aged(ops)) = Len(ops)
         /\ AgesOrdered(Aged(ops))
<1>1. Len(ops) \in Nat /\ DOMAIN ops = 1 .. Len(ops)
  BY LenProperties
<1>2. \A i \in 1 .. Len(ops) : ops[i] \in MemoryOperation
  BY ElementOfSeq
<1>3. \A i \in 1 .. Len(ops) : Aged(ops)[i] \in MemoryOperation
  BY <1>1, <1>2, ReadLatencyAssumption DEF Aged, MemoryOperation
<1>4. Aged(ops) \in Seq(MemoryOperation) /\ Len(Aged(ops)) = Len(ops)
  BY <1>1, <1>3 DEF Aged
<1>5. \A i \in 1 .. Len(ops) :
        Aged(ops)[i].age = IF ops[i].age < ReadLatency THEN ops[i].age + 1 ELSE ops[i].age
  BY <1>1, <1>2 DEF Aged, MemoryOperation
<1>6. \A i \in 1 .. Len(ops) : ops[i].age \in 0 .. ReadLatency
  BY <1>2 DEF MemoryOperation
<1>7. DOMAIN Aged(ops) = 1 .. Len(ops)
  BY <1>1 DEF Aged
<1>8. AgesOrdered(Aged(ops))
  BY <1>1, <1>5, <1>6, <1>7, ReadLatencyAssumption DEF AgesOrdered
<1> QED BY <1>4, <1>8

(* In a list in order of age the oldest read is the first.                 *)
LEMMA OldestOpFound ==
  ASSUME NEW ops \in Seq(MemoryOperation), ops # <<>>, AgesOrdered(ops)
  PROVE  OldestOp(ops) \in 1 .. Len(ops)
<1>1. Len(ops) \in Nat \ {0} /\ DOMAIN ops = 1 .. Len(ops)
  BY LenProperties, EmptySeq
<1>2. \A i \in 1 .. Len(ops) : ops[i].age \in 0 .. ReadLatency
  <2>1. \A i \in 1 .. Len(ops) : ops[i] \in MemoryOperation
    BY ElementOfSeq
  <2> QED BY <2>1 DEF MemoryOperation
<1>3. /\ 1 \in DOMAIN ops
      /\ \A j \in DOMAIN ops : ops[j].age <= ops[1].age
      /\ \A j \in 1 .. 1 - 1 : ops[j].age < ops[1].age
  BY <1>1, <1>2, ReadLatencyAssumption DEF AgesOrdered
<1> QED BY <1>1, <1>3 DEF OldestOp

LEMMA EraseKeepsReads ==
  ASSUME NEW ops \in Seq(MemoryOperation), AgesOrdered(ops), NEW i \in 1 .. Len(ops)
  PROVE  Erase(ops, i) \in Seq(MemoryOperation) /\ AgesOrdered(Erase(ops, i))
<1>1. Len(ops) \in Nat /\ DOMAIN ops = 1 .. Len(ops)
  BY LenProperties
<1>2. /\ Erase(ops, i) \in Seq(MemoryOperation)
      /\ Len(Erase(ops, i)) = Len(ops) - 1
      /\ \A j \in 1 .. Len(ops) - 1 : Erase(ops, i)[j] = IF j < i THEN ops[j] ELSE ops[j + 1]
  BY EraseSeq
<1>3. DOMAIN Erase(ops, i) = 1 .. Len(ops) - 1
  BY <1>2, LenProperties
<1>4. AgesOrdered(Erase(ops, i))
  <2> SUFFICES ASSUME NEW j \in 1 .. Len(ops) - 1, NEW k \in 1 .. Len(ops) - 1, j < k
               PROVE  Erase(ops, i)[j].age >= Erase(ops, i)[k].age
    BY <1>3 DEF AgesOrdered
  <2> DEFINE J == IF j < i THEN j ELSE j + 1
             K == IF k < i THEN k ELSE k + 1
  <2>1. J \in DOMAIN ops /\ K \in DOMAIN ops /\ J < K
    BY <1>1
  <2>2. ops[J].age >= ops[K].age
    BY <2>1 DEF AgesOrdered
  <2> QED BY <1>2, <2>2
<1> QED BY <1>2, <1>4

LEMMA TrackedReads ==
  ASSUME NEW ops \in Seq(MemoryOperation), AgesOrdered(ops), NEW m \in BusRequest
  PROVE  Tracked(ops, m) \in Seq(MemoryOperation) /\ AgesOrdered(Tracked(ops, m))
<1>1. CASE m.command \in ReadCommands
  <2> DEFINE op == [address |-> m.payload, age |-> 0, returnAddress |-> m.source]
  <2>1. op \in MemoryOperation
    BY ReadLatencyAssumption DEF BusRequest, MemoryOperation
  <2>2. Len(ops) \in Nat /\ \A i \in 1 .. Len(ops) : ops[i].age \in 0 .. ReadLatency
    <3>1. Len(ops) \in Nat /\ \A i \in 1 .. Len(ops) : ops[i] \in MemoryOperation
      BY LenProperties, ElementOfSeq
    <3> QED BY <3>1 DEF MemoryOperation
  <2> DEFINE t == Append(ops, op)
  <2>3. /\ t \in Seq(MemoryOperation)
        /\ Len(t) = Len(ops) + 1
        /\ \A i \in 1 .. Len(ops) : t[i] = ops[i]
        /\ t[Len(ops) + 1] = op
    BY <2>1, AppendProperties
  <2>4. DOMAIN t = 1 .. Len(ops) + 1 /\ DOMAIN ops = 1 .. Len(ops)
    BY <2>3, LenProperties
  <2>5. op.age = 0
    OBVIOUS
  <2>6. Tracked(ops, m) = t
    BY <1>1 DEF Tracked
  <2> HIDE DEF t, op
  <2>7. AgesOrdered(t)
    <3> SUFFICES ASSUME NEW i \in 1 .. Len(ops) + 1, NEW j \in 1 .. Len(ops) + 1, i < j
                 PROVE  t[i].age >= t[j].age
      BY <2>4 DEF AgesOrdered
    <3>1. CASE j = Len(ops) + 1
      BY <2>2, <2>3, <2>5, <3>1
    <3>2. CASE j # Len(ops) + 1
      <4>1. i \in DOMAIN ops /\ j \in DOMAIN ops
        BY <2>2, <2>4, <3>2
      <4>2. t[i] = ops[i] /\ t[j] = ops[j]
        BY <2>3, <2>4, <4>1
      <4> QED BY <4>1, <4>2 DEF AgesOrdered
    <3> QED BY <3>1, <3>2
  <2> QED BY <2>3, <2>6, <2>7
<1>2. CASE m.command \notin ReadCommands
  BY <1>2, FirstOpToFound, EraseKeepsReads DEF Tracked
<1> QED BY <1>1, <1>2

-----------------------------------------------------------------------------
(* Each operation of the memory preserves its types and, once BurstLen is  *)
(* at least 2, the bound on the burst counter.                             *)

LEMMA MemInitTypes == MemInit => MemTypeOK /\ AgesOrdered(memTracker)
<1> SUFFICES ASSUME MemInit PROVE MemTypeOK /\ AgesOrdered(memTracker)
  OBVIOUS
<1>1. memTracker = <<>> /\ memQueue = <<>>
  BY DEF MemInit
<1>2. AgesOrdered(memTracker)
  BY <1>1 DEF AgesOrdered
<1>3. memTracker \in Seq(MemoryOperation) /\ memQueue \in Seq(BusRequest)
  BY <1>1
<1>4. memBurstCounter \in 0 .. CounterModulus - 1
  BY CounterModulusAssumption, BurstLenAssumption DEF MemInit
<1>5. ~memBursting /\ memBursting \in BOOLEAN /\ burstRequest \in {NoRequest}
  BY DEF MemInit
<1> QED BY <1>2, <1>3, <1>4, <1>5 DEF MemTypeOK

LEMMA MemAcceptTypes ==
  ASSUME MemTypeOK, AgesOrdered(memTracker), NEW m \in BusRequest, MemAccept(m)
  PROVE  MemTypeOK' /\ AgesOrdered(memTracker')
<1>1. memTracker' \in Seq(MemoryOperation) /\ AgesOrdered(memTracker')
  BY TrackedReads DEF MemAccept, MemTypeOK
<1> QED BY <1>1 DEF MemAccept, MemTypeOK

LEMMA MemInitiateTypes ==
  ASSUME MemTypeOK, AgesOrdered(memTracker), MemRequestsTransaction, MemInitiate
  PROVE  MemTypeOK' /\ AgesOrdered(memTracker')
<1>1. memQueue' \in Seq(BusRequest)
  BY HeadTailProperties DEF MemTypeOK, MemRequestsTransaction, MemInitiate
<1> QED BY <1>1 DEF MemInitiate, MemTypeOK

LEMMA MemTickTypes ==
  ASSUME MemTypeOK, AgesOrdered(memTracker), NEW locked \in BOOLEAN, MemTick(locked)
  PROVE  MemTypeOK' /\ AgesOrdered(memTracker')
<1>1. /\ BurstLen \in Nat \ {0} /\ CounterModulus \in Nat /\ CounterModulus > BurstLen
      /\ memBurstCounter \in 0 .. CounterModulus - 1
  BY BurstLenAssumption, CounterModulusAssumption DEF MemTypeOK
<1>2. \A n \in 0 .. CounterModulus - 1 : CountBeat(n, locked) \in 0 .. CounterModulus - 1
  BY <1>1 DEF CountBeat
<1>3. CASE BurstEnd(locked)
  <2>1. memQueue' \in Seq(BusRequest)
    BY <1>3, AppendProperties DEF BurstEnd, MemTypeOK
  <2>2. memBurstCounter' \in 0 .. CounterModulus - 1
    BY <1>1, <1>2, <1>3 DEF BurstEnd
  <2> QED BY <1>3, <2>1, <2>2 DEF BurstEnd, MemTypeOK
<1>4. CASE BurstBeat(locked)
  <2>1. NullBurst \in BusRequest
    BY <1>4, NumProcsAssumption
       DEF BurstBeat, MemTypeOK, NullBurst, BusRequest, Commands, BusNodes, MemoryAddress
  <2>2. memQueue' \in Seq(BusRequest)
    BY <1>4, <2>1, AppendProperties DEF BurstBeat, MemTypeOK
  <2>3. memBurstCounter' \in 0 .. CounterModulus - 1
    BY <1>1, <1>2, <1>4 DEF BurstBeat
  <2> QED BY <1>4, <2>2, <2>3 DEF BurstBeat, MemTypeOK
<1>5. CASE QueueDataReturn
  <2> DEFINE ops == Aged(memTracker)
             i == OldestOp(ops)
  <2>1. ops \in Seq(MemoryOperation) /\ AgesOrdered(ops)
    BY AgedReads DEF MemTypeOK
  <2>2. ops # <<>> /\ memTracker' = Erase(ops, i) /\ burstRequest' = DataReturn(ops[i])
    BY <1>5 DEF QueueDataReturn, ReturnDue
  <2> HIDE DEF ops
  <2>3. i \in 1 .. Len(ops)
    BY <2>1, <2>2, OldestOpFound
  <2> HIDE DEF i
  <2>4. memTracker' \in Seq(MemoryOperation) /\ AgesOrdered(memTracker')
    BY <2>1, <2>2, <2>3, EraseKeepsReads
  <2>5. ops[i] \in MemoryOperation
    BY <2>1, <2>3, ElementOfSeq
  <2>6. DataReturn(ops[i]) \in BusRequest
    BY <2>5, NumProcsAssumption
       DEF DataReturn, MemoryOperation, BusRequest, Commands, BusNodes, MemoryAddress
  <2> QED BY <1>5, <2>2, <2>4, <2>6 DEF QueueDataReturn, MemTypeOK
<1>6. CASE AgeReads
  BY <1>6, AgedReads DEF AgeReads, MemTypeOK
<1> QED BY <1>3, <1>4, <1>5, <1>6 DEF MemTick

LEMMA MemTickCounts ==
  ASSUME BurstLen > 1, MemTypeOK, BurstCounted, NEW locked \in BOOLEAN, MemTick(locked)
  PROVE  BurstCounted'
<1>1. /\ BurstLen \in Nat /\ CounterModulus \in Nat /\ CounterModulus > BurstLen
      /\ memBurstCounter \in Nat
  BY BurstLenAssumption, CounterModulusAssumption DEF MemTypeOK
<1>2. \A n \in 0 .. BurstLen - 1 : CountBeat(n, locked) \in {n, n + 1}
  BY <1>1 DEF CountBeat
<1>3. CASE BurstEnd(locked)
  BY <1>1, <1>2, <1>3 DEF BurstEnd, BurstCounted
<1>4. CASE BurstBeat(locked)
  BY <1>1, <1>2, <1>4 DEF BurstBeat, BurstCounted
<1>5. CASE QueueDataReturn
  BY <1>1, <1>5 DEF QueueDataReturn, BurstCounted
<1>6. CASE AgeReads
  BY <1>6 DEF AgeReads, BurstCounted
<1> QED BY <1>3, <1>4, <1>5, <1>6 DEF MemTick

-----------------------------------------------------------------------------
(* A PROCESSOR AND ITS CONTROLLER. What a controller does with a           *)
(* transaction or in a tick keeps its record a Controller; a transaction   *)
(* never moves its state machine. With that, a tick of a processor keeps   *)
(* it in agreement with its controller.                                    *)

(* What a bus transaction may do to a controller.                          *)
Serves(c, d) == d \in Controller /\ d.state = c.state

LEMMA ServesTwice ==
  ASSUME NEW c, NEW d, NEW e, Serves(c, d), Serves(d, e)
  PROVE  Serves(c, e)
BY DEF Serves

-----------------------------------------------------------------------------
(* The cache and the queues.                                               *)

LEMMA SetLineServes ==
  ASSUME NEW c \in Controller, NEW x \in Addrs, NEW s \in MESI
  PROVE  Serves(c, SetLine(c, x, s))
BY DEF Controller, SetLine, Serves

LEMMA InvalidateServes ==
  ASSUME NEW c \in Controller, NEW x \in Addrs
  PROVE  Serves(c, Invalidate(c, x))
BY SetLineServes DEF Invalidate, MESI

LEMMA QueuesTyped ==
  ASSUME NEW c \in Controller
  PROVE  c.busReqQueue \in Seq(Queued) /\ c.maxPriorityQueue \in Seq(Queued)
BY DEF Controller

LEMMA AddNewMaxPriorityServes ==
  ASSUME NEW c \in Controller, NEW code \in Commands, NEW x \in Addrs
  PROVE  Serves(c, AddNewMaxPriorityBusRequest(c, code, x))
<1> DEFINE q == Append(c.maxPriorityQueue, [command |-> code, payload |-> x])
<1>1. [command |-> code, payload |-> x] \in Queued
  BY DEF Queued
<1>2. q \in Seq(Queued)
  BY <1>1, QueuesTyped, AppendProperties
<1>3. AddNewMaxPriorityBusRequest(c, code, x) = [c EXCEPT !.maxPriorityQueue = q]
  BY DEF AddNewMaxPriorityBusRequest, Controller
<1> HIDE DEF q
<1> QED BY <1>2, <1>3 DEF Controller, Serves

LEMMA AddNewServes ==
  ASSUME NEW c \in Controller, NEW code \in Commands, NEW x \in Addrs
  PROVE  Serves(c, AddNewBusRequest(c, code, x))
<1> DEFINE q == Append(c.busReqQueue, [command |-> code, payload |-> x])
<1>1. [command |-> code, payload |-> x] \in Queued
  BY DEF Queued
<1>2. q \in Seq(Queued)
  BY <1>1, QueuesTyped, AppendProperties
<1>3. AddNewBusRequest(c, code, x) = [c EXCEPT !.busReqQueue = q]
  BY DEF AddNewBusRequest, Controller
<1> HIDE DEF q
<1> QED BY <1>2, <1>3 DEF Controller, Serves

(* The request a controller issues is one of its queues', and is removed.  *)
LEMMA NextToIssueTyped ==
  ASSUME NEW c \in Controller, RequestsTransaction(c)
  PROVE  NextToIssue(c) \in Queued
BY QueuesTyped, HeadTailProperties DEF RequestsTransaction, NextToIssue

LEMMA PopNextServes ==
  ASSUME NEW c \in Controller, RequestsTransaction(c)
  PROVE  Serves(c, PopNext(c))
<1>1. CASE c.maxPriorityQueue # <<>>
  <2> DEFINE q == Tail(c.maxPriorityQueue)
  <2>1. q \in Seq(Queued)
    BY <1>1, QueuesTyped, HeadTailProperties
  <2>2. PopNext(c) = [c EXCEPT !.maxPriorityQueue = q]
    BY <1>1 DEF PopNext, Controller
  <2> HIDE DEF q
  <2> QED BY <2>1, <2>2 DEF Controller, Serves
<1>2. CASE c.maxPriorityQueue = <<>>
  <2> DEFINE q == Tail(c.busReqQueue)
  <2>1. q \in Seq(Queued)
    BY <1>2, QueuesTyped, HeadTailProperties DEF RequestsTransaction
  <2>2. PopNext(c) = [c EXCEPT !.busReqQueue = q]
    BY <1>2 DEF PopNext, Controller
  <2> HIDE DEF q
  <2> QED BY <2>1, <2>2 DEF Controller, Serves
<1> QED BY <1>1, <1>2

(* cancelBusRequest erases a request it has found.                         *)
LEMMA EraseNewestTyped ==
  ASSUME NEW q \in Seq(Queued), NEW S \in SUBSET DOMAIN q, S # {}
  PROVE  EraseNewest(q, S) \in Seq(Queued)
<1>1. Len(q) \in Nat /\ DOMAIN q = 1 .. Len(q)
  BY LenProperties
<1>2. S \in SUBSET (0 .. Len(q))
  BY <1>1
<1>3. \E i \in S : \A j \in S : j <= i
  BY <1>1, <1>2, GreatestNat
<1> DEFINE i == CHOOSE i \in S : \A j \in S : j <= i
<1>4. i \in 1 .. Len(q)
  BY <1>1, <1>3
<1> HIDE DEF i
<1>5. Erase(q, i) \in Seq(Queued)
  BY <1>4, EraseSeq
<1> QED BY <1>5 DEF EraseNewest, i

LEMMA CancelServes ==
  ASSUME NEW c \in Controller, NEW code, NEW x
  PROVE  Serves(c, CancelBusRequest(c, code, x))
<1> DEFINE inBus == Matches(c.busReqQueue, code, x)
           inMax == Matches(c.maxPriorityQueue, code, x)
<1>1. inBus \in SUBSET DOMAIN c.busReqQueue /\ inMax \in SUBSET DOMAIN c.maxPriorityQueue
  BY DEF Matches
<1>2. CASE inBus # {}
  <2> DEFINE q == EraseNewest(c.busReqQueue, inBus)
  <2>1. q \in Seq(Queued)
    BY <1>1, <1>2, QueuesTyped, EraseNewestTyped
  <2>2. CancelBusRequest(c, code, x) = [c EXCEPT !.busReqQueue = q]
    BY <1>2 DEF CancelBusRequest, Controller
  <2> HIDE DEF q
  <2> QED BY <2>1, <2>2 DEF Controller, Serves
<1>3. CASE inBus = {} /\ inMax # {}
  <2> DEFINE q == EraseNewest(c.maxPriorityQueue, inMax)
  <2>1. q \in Seq(Queued)
    BY <1>1, <1>3, QueuesTyped, EraseNewestTyped
  <2>2. CancelBusRequest(c, code, x) = [c EXCEPT !.maxPriorityQueue = q]
    BY <1>3 DEF CancelBusRequest, Controller
  <2> HIDE DEF q
  <2> QED BY <2>1, <2>2 DEF Controller, Serves
<1>4. CASE inBus = {} /\ inMax = {}
  BY <1>4 DEF CancelBusRequest, Serves
<1> QED BY <1>2, <1>3, <1>4

-----------------------------------------------------------------------------
(* The handlers of transactions.                                           *)

LEMMA SawServes ==
  ASSUME NEW c \in Controller, NEW e \in {"BUSREAD", "BUSREADX", "INVALIDATE"}
  PROVE  Serves(c, Saw(c, e))
BY DEF Controller, Saw, Serves

LEMMA DataArrivedServes ==
  ASSUME NEW c \in Controller, NEW from \in {"memory", "processor", "writeback"}
  PROVE  Serves(c, DataArrived(c, from))
BY DEF Controller, DataArrived, Serves

LEMMA SupplyDataServes ==
  ASSUME NEW c \in Controller, NEW x \in Addrs
  PROVE  Serves(c, SupplyData(c, x))
BY AddNewMaxPriorityServes DEF SupplyData, Commands

LEMMA HandleBusReadServes ==
  ASSUME NEW c \in Controller, NEW x \in Addrs
  PROVE  Serves(c, HandleBusRead(c, x))
<1>1. CASE Contains(c, x)
  <2>1. SupplyData(c, x) \in Controller /\ Serves(c, SupplyData(c, x))
    BY SupplyDataServes DEF Serves
  <2>2. Serves(SupplyData(c, x), SetLine(SupplyData(c, x), x, "S"))
    BY <2>1, SetLineServes DEF MESI
  <2> QED BY <1>1, <2>1, <2>2, ServesTwice DEF HandleBusRead
<1>2. CASE ~Contains(c, x) /\ AwaitsLocally(c, x)
  <2>1. Saw(c, "BUSREAD") \in Controller /\ Serves(c, Saw(c, "BUSREAD"))
    BY SawServes DEF Serves
  <2>2. Serves(Saw(c, "BUSREAD"), AddNewMaxPriorityBusRequest(Saw(c, "BUSREAD"), "SHAREME", x))
    BY <2>1, AddNewMaxPriorityServes DEF Commands
  <2> QED BY <1>2, <2>1, <2>2, ServesTwice DEF HandleBusRead
<1>3. CASE ~Contains(c, x) /\ ~AwaitsLocally(c, x)
  BY <1>3 DEF HandleBusRead, Serves
<1> QED BY <1>1, <1>2, <1>3

LEMMA HandleBusReadXServes ==
  ASSUME NEW c \in Controller, NEW x \in Addrs
  PROVE  Serves(c, HandleBusReadX(c, x))
<1>1. CASE Contains(c, x)
  <2>1. SupplyData(c, x) \in Controller /\ Serves(c, SupplyData(c, x))
    BY SupplyDataServes DEF Serves
  <2>2. Serves(SupplyData(c, x), Invalidate(SupplyData(c, x), x))
    BY <2>1, InvalidateServes
  <2> QED BY <1>1, <2>1, <2>2, ServesTwice DEF HandleBusReadX
<1>2. CASE ~Contains(c, x) /\ AwaitsLocally(c, x)
  BY <1>2, SawServes DEF HandleBusReadX
<1>3. CASE ~Contains(c, x) /\ ~AwaitsLocally(c, x)
  BY <1>3 DEF HandleBusReadX, Serves
<1> QED BY <1>1, <1>2, <1>3

LEMMA HandleBusWriteServes ==
  ASSUME NEW c \in Controller, NEW line, NEW x
  PROVE  Serves(c, HandleBusWrite(c, line, x))
BY DataArrivedServes DEF HandleBusWrite, Serves

LEMMA HandleDataReturnServes ==
  ASSUME NEW c \in Controller, NEW line, NEW x, NEW from \in {"memory", "processor"}
  PROVE  Serves(c, HandleDataReturn(c, line, x, from))
<1> DEFINE d == IF AwaitingDataRemote(c, line, x) THEN DataArrived(c, from) ELSE c
<1>1. d \in Controller /\ Serves(c, d)
  BY DataArrivedServes DEF Serves
<1>2. Serves(d, CancelBusRequest(d, "DATA_RETURN_PROCESSOR", x))
  BY <1>1, CancelServes
<1> QED BY <1>1, <1>2, ServesTwice DEF HandleDataReturn

LEMMA HandleInvalidateServes ==
  ASSUME NEW c \in Controller, NEW x \in Addrs
  PROVE  Serves(c, HandleInvalidate(c, x))
<1>1. CASE Contains(c, x)
  <2> DEFINE d == IF c.cache[x] = "M" THEN AddNewMaxPriorityBusRequest(c, "BUSWRITE", x) ELSE c
  <2>1. d \in Controller /\ Serves(c, d)
    BY AddNewMaxPriorityServes DEF Serves, Commands
  <2>2. Serves(d, Invalidate(d, x))
    BY <2>1, InvalidateServes
  <2> QED BY <1>1, <2>1, <2>2, ServesTwice DEF HandleInvalidate
<1>2. CASE ~Contains(c, x) /\ AwaitsLocally(c, x)
  BY <1>2, SawServes DEF HandleInvalidate
<1>3. CASE ~Contains(c, x) /\ ~AwaitsLocally(c, x)
  BY <1>3 DEF HandleInvalidate, Serves
<1> QED BY <1>1, <1>2, <1>3

LEMMA HandleShareMeServes ==
  ASSUME NEW c \in Controller, NEW x \in Addrs
  PROVE  Serves(c, HandleShareMe(c, x))
<1>1. CASE Contains(c, x)
  BY <1>1, SetLineServes DEF HandleShareMe, MESI
<1>2. CASE ~Contains(c, x) /\ AwaitsLocally(c, x)
  BY <1>2, SawServes DEF HandleShareMe
<1>3. CASE ~Contains(c, x) /\ ~AwaitsLocally(c, x)
  BY <1>3 DEF HandleShareMe, Serves
<1> QED BY <1>1, <1>2, <1>3

(* A transaction on the bus leaves a controller a Controller, in the same  *)
(* state of its machine (acceptBusTransaction of the three controllers).   *)
LEMMA AcceptServes ==
  ASSUME NEW c \in Controller, NEW line, NEW m \in BusRequest
  PROVE  Serves(c, Accept(c, line, m))
<1>1. m.payload \in Addrs /\ m.command \in Commands
  BY DEF BusRequest
<1>2. Serves(c, c)
  BY DEF Serves
<1>3. /\ Serves(c, HandleBusRead(c, m.payload))
      /\ Serves(c, HandleBusReadX(c, m.payload))
      /\ Serves(c, HandleBusWrite(c, line, m.payload))
      /\ Serves(c, HandleDataReturnMemory(c, line, m.payload))
      /\ Serves(c, HandleDataReturnProcessor(c, line, m.payload))
      /\ Serves(c, HandleInvalidate(c, m.payload))
      /\ Serves(c, HandleShareMe(c, m.payload))
  BY <1>1, HandleBusReadServes, HandleBusReadXServes, HandleBusWriteServes,
     HandleDataReturnServes, HandleInvalidateServes, HandleShareMeServes
     DEF HandleDataReturnMemory, HandleDataReturnProcessor
<1>4. Serves(c, MESI_Accept(c, line, m))
  BY <1>1, <1>2, <1>3 DEF MESI_Accept, Commands
<1>5. Serves(c, MI_Accept(c, line, m))
  BY <1>1, <1>2, <1>3 DEF MI_Accept, Commands
<1> QED BY <1>4, <1>5 DEF Accept

(* Issuing a request leaves a controller a Controller in the same state: a *)
(* burst that the bus has not locked does not count its beats, and one that*)
(* has reached BurstLen ends.                                              *)
LEMMA AfterIssueServes ==
  ASSUME NEW c \in Controller, RequestsTransaction(c), NEW locked \in BOOLEAN
  PROVE  Serves(c, AfterIssue(c, locked))
<1> DEFINE d == IF MidBurst(c, locked)
                THEN [c EXCEPT !.burstCounter = BeatsDone(c, locked)]
                ELSE [PopNext(c) EXCEPT !.burstCounter = IF c.bursting THEN 0 ELSE @]
<1>1. c.burstCounter \in 0 .. BurstLen - 1 /\ BurstLen \in Nat \ {0}
  BY BurstLenAssumption DEF Controller
<1>2. MidBurst(c, locked) => BeatsDone(c, locked) \in 0 .. BurstLen - 1
  BY <1>1 DEF MidBurst, BeatsDone
<1>3. MidBurst(c, locked) => Serves(c, d)
  BY <1>2 DEF Controller, Serves
<1>4. PopNext(c) \in Controller /\ PopNext(c).state = c.state
  BY PopNextServes DEF Serves
<1>5. ~MidBurst(c, locked) => Serves(c, d)
  <2> DEFINE e == PopNext(c)
  <2>1. ~MidBurst(c, locked) => d = [e EXCEPT !.burstCounter = IF c.bursting THEN 0
                                                               ELSE e.burstCounter]
    BY <1>4 DEF Controller
  <2>2. e \in Controller /\ e.state = c.state
    BY <1>4
  <2> HIDE DEF e, d
  <2>3. (IF c.bursting THEN 0 ELSE e.burstCounter) \in 0 .. BurstLen - 1
    BY <1>1, <2>2 DEF Controller
  <2> QED BY <2>1, <2>2, <2>3 DEF Controller, Serves
<1>6. Serves(c, d)
  BY <1>3, <1>5
<1> HIDE DEF d
<1> DEFINE awaiting == d.awaitingBusRead \/ Issued(c, locked).command \in ReadCommands
           waitFlag == d.outgoingCommandWaitFlag /\ Issued(c, locked).command # "INVALIDATE"
<1>7. AfterIssue(c, locked) =
        [d EXCEPT !.awaitingBusRead = awaiting, !.outgoingCommandWaitFlag = waitFlag]
  BY <1>6 DEF AfterIssue, d, Serves, Controller
<1>8. awaiting \in BOOLEAN /\ waitFlag \in BOOLEAN
  OBVIOUS
<1> HIDE DEF awaiting, waitFlag
<1> QED BY <1>6, <1>7, <1>8 DEF Controller, Serves

-----------------------------------------------------------------------------
(* The actions of the controller's states.                                 *)

LEMMA IdleActionTyped ==
  ASSUME NEW c \in Controller
  PROVE  IdleAction(c) \in Controller
BY DEF Controller, IdleAction

LEMMA QueueReadTyped ==
  ASSUME NEW c \in Controller, NEW line \in Addrs, NEW command \in Commands
  PROVE  QueueReadOnce(c, line, command) \in Controller
<1> DEFINE d == AddNewBusRequest(c, command, line)
<1>1. d \in Controller
  BY AddNewServes DEF Serves
<1> HIDE DEF d
<1>2. [d EXCEPT !.queuedBusRead = TRUE, !.awaitingDataLocal = line] \in Controller
  BY <1>1 DEF Controller
<1> QED BY <1>2 DEF QueueReadOnce, d

LEMMA IssueInvalidateTyped ==
  ASSUME NEW c \in Controller, NEW line \in Addrs
  PROVE  IssueInvalidate(c, line) \in Controller
<1> DEFINE d == AddNewMaxPriorityBusRequest(c, "INVALIDATE", line)
<1>1. d \in Controller
  BY AddNewMaxPriorityServes DEF Serves, Commands
<1> HIDE DEF d
<1>2. [d EXCEPT !.outgoingCommandWaitFlag = TRUE] \in Controller
  BY <1>1 DEF Controller
<1> QED BY <1>2 DEF IssueInvalidate, d

LEMMA FillTyped ==
  ASSUME NEW c \in Controller, NEW line \in Addrs, NEW s \in MESI
  PROVE  Fill(c, line, s) \subseteq Controller
<1>1. ASSUME NEW v \in Addrs PROVE WriteBackIfModified(Invalidate(c, v), v) \in Controller
  <2>1. Invalidate(c, v) \in Controller
    BY InvalidateServes DEF Serves
  <2> QED BY <2>1, AddNewMaxPriorityServes DEF WriteBackIfModified, Serves, Commands
<1>2. MakeRoom(c, line) \subseteq Controller
  BY <1>1 DEF MakeRoom, CachedBeside, Cached
<1> QED BY <1>2, SetLineServes DEF Fill, Serves

LEMMA UpdateCacheTyped ==
  ASSUME NEW c \in Controller, NEW line \in Addrs
  PROVE  /\ UpdateCacheLoad(c, line) \subseteq Controller
         /\ UpdateCacheStore(c, line) \subseteq Controller
<1>1. \A s \in MESI : Fill(c, line, s) \subseteq Controller
  BY FillTyped
<1>2. {c} \subseteq Controller
  OBVIOUS
<1>3. MESI_UpdateCacheLoad(c, line) \subseteq Controller
  BY <1>1, <1>2 DEF MESI_UpdateCacheLoad, LoadFillState, MESI
<1>4. MSI_UpdateCacheLoad(c, line) \subseteq Controller
  BY <1>1, <1>2 DEF MSI_UpdateCacheLoad, MESI
<1>5. MI_UpdateCacheLoad(c, line) \subseteq Controller
  BY <1>1, <1>2 DEF MI_UpdateCacheLoad, MESI
<1>6. {AddNewMaxPriorityBusRequest(c, "BUSWRITE", line)} \subseteq Controller
  BY AddNewMaxPriorityServes DEF Serves, Commands
<1>7. MESI_UpdateCacheStore(c, line) \subseteq Controller
  <2>1. {SetLine(c, line, "M")} \subseteq Controller
    BY SetLineServes DEF Serves, MESI
  <2> QED BY <1>1, <1>6, <2>1 DEF MESI_UpdateCacheStore, MESI
<1>8. MI_UpdateCacheStore(c, line) \subseteq Controller
  BY <1>1, <1>2, <1>6 DEF MI_UpdateCacheStore, MESI
<1>9. UpdateCacheLoad(c, line) \subseteq Controller
  BY <1>3, <1>4, <1>5, ControllerTypeAssumption DEF UpdateCacheLoad
<1> QED BY <1>7, <1>8, <1>9 DEF UpdateCacheStore

-----------------------------------------------------------------------------
(* A tick of a controller.                                                 *)

(* What a tick that enters state s leaves of ctl.                          *)
Entered(p, s) == ctl' \in [Procs -> Controller] /\ ctl'[p].state = s
                   /\ \A q \in Procs \ {p} : ctl'[q] = ctl[q]

LEMMA EnterTyped ==
  ASSUME ctl \in [Procs -> Controller], NEW p \in Procs, NEW s \in FsmStates,
         NEW outcomes \in SUBSET Controller, Enter(p, s, outcomes)
  PROVE  Entered(p, s)
<1>1. PICK c \in outcomes :
        ctl' = [ctl EXCEPT ![p] = UpdateBusBurstRequest([c EXCEPT !.state = s])]
  BY DEF Enter
<1> DEFINE d == [c EXCEPT !.state = s]
           bursting == RequestsTransaction(d) /\ NextToIssue(d).command \in DataCommands
<1>2. d \in Controller /\ d.state = s
  BY DEF Controller
<1>3. UpdateBusBurstRequest(d) = [d EXCEPT !.bursting = bursting]
  BY DEF UpdateBusBurstRequest
<1>4. bursting \in BOOLEAN
  OBVIOUS
<1> HIDE DEF d, bursting
<1>5. UpdateBusBurstRequest(d) \in Controller /\ UpdateBusBurstRequest(d).state = s
  BY <1>2, <1>3, <1>4 DEF Controller
<1>6. ctl' = [ctl EXCEPT ![p] = UpdateBusBurstRequest(d)]
  BY <1>1 DEF d
<1> QED BY <1>5, <1>6 DEF Entered

(* The state a tick of the controller leads to, given that its instruction *)
(* exists when the state it starts from needs one.                         *)
LEMMA ControllerTickTyped ==
  ASSUME ProcTypeOK, NEW p \in Procs, ControllerTick(p),
         pending[p] \/ ctl[p].state # "IDLE" => inst[p] \in Instructions
  PROVE  \E s \in FsmStates :
           /\ Entered(p, s)
           /\ ctl[p].state = "IDLE" => (s = "IDLE" <=> ~pending[p])
<1>1. ctl \in [Procs -> Controller] /\ ctl[p] \in Controller /\ ctl[p].state \in FsmStates
  BY DEF ProcTypeOK, Controller
<1>2. inst[p] \in Instructions => Line(p) \in Addrs /\ Op(p) \in {"LOAD", "STORE"}
  BY DEF Line, Op, Instructions
<1>3. {"BUSREADX", ReadCommand} \subseteq Commands
  BY DEF ReadCommand, Commands
<1>4. CASE ReturnToIdle(p)
  BY <1>1, <1>4, IdleActionTyped, EnterTyped DEF ReturnToIdle, FsmStates
<1>5. CASE StayIdle(p)
  BY <1>1, <1>5, IdleActionTyped, EnterTyped DEF StayIdle, FsmStates
<1>6. CASE LoadHit(p)
  <2>1. Line(p) \in Addrs /\ pending[p]
    BY <1>2, <1>6 DEF LoadHit, Start
  <2> QED BY <1>1, <1>6, <2>1, UpdateCacheTyped, EnterTyped DEF LoadHit, FsmStates
<1>7. CASE LoadMiss(p)
  <2>1. Line(p) \in Addrs /\ pending[p]
    BY <1>2, <1>7 DEF LoadMiss, Start
  <2>2. {QueueReadOnce(ctl[p], Line(p), ReadCommand)} \subseteq Controller
    BY <1>1, <1>3, <2>1, QueueReadTyped
  <2> QED BY <1>1, <1>7, <2>1, <2>2, EnterTyped DEF LoadMiss, FsmStates
<1>8. CASE StoreMiss(p)
  <2>1. Line(p) \in Addrs /\ pending[p]
    BY <1>2, <1>8 DEF StoreMiss, Start
  <2>2. {QueueReadOnce(ctl[p], Line(p), "BUSREADX")} \subseteq Controller
    BY <1>1, <1>3, <2>1, QueueReadTyped
  <2> QED BY <1>1, <1>8, <2>1, <2>2, EnterTyped DEF StoreMiss, FsmStates
<1>9. CASE StoreHitOwned(p)
  <2>1. Line(p) \in Addrs /\ pending[p]
    BY <1>2, <1>9 DEF StoreHitOwned, Start
  <2> QED BY <1>1, <1>9, <2>1, UpdateCacheTyped, EnterTyped DEF StoreHitOwned, FsmStates
<1>10. CASE StoreHitShared(p)
  <2>1. Line(p) \in Addrs /\ pending[p]
    BY <1>2, <1>10 DEF StoreHitShared, Start
  <2>2. {IssueInvalidate(ctl[p], Line(p))} \subseteq Controller
    BY <1>1, <2>1, IssueInvalidateTyped
  <2> QED BY <1>1, <1>10, <2>1, <2>2, EnterTyped DEF StoreHitShared, FsmStates
<1>11. CASE AwaitRead(p)
  <2>1. Line(p) \in Addrs /\ ctl[p].state = "ISSUE_READ"
    BY <1>2, <1>11 DEF AwaitRead
  <2>2. {QueueReadOnce(ctl[p], Line(p), ReadCommand)} \subseteq Controller
    BY <1>1, <1>3, <2>1, QueueReadTyped
  <2> QED BY <1>1, <1>11, <2>1, <2>2, EnterTyped DEF AwaitRead, FsmStates
<1>12. CASE AwaitReadX(p)
  <2>1. Line(p) \in Addrs /\ ctl[p].state = "ISSUE_READX"
    BY <1>2, <1>12 DEF AwaitReadX
  <2>2. {QueueReadOnce(ctl[p], Line(p), "BUSREADX")} \subseteq Controller
    BY <1>1, <1>3, <2>1, QueueReadTyped
  <2> QED BY <1>1, <1>12, <2>1, <2>2, EnterTyped DEF AwaitReadX, FsmStates
<1>13. CASE ReadReturned(p)
  <2>1. Line(p) \in Addrs /\ ctl[p].state = "ISSUE_READ"
    BY <1>2, <1>13 DEF ReadReturned
  <2> QED BY <1>1, <1>13, <2>1, UpdateCacheTyped, EnterTyped DEF ReadReturned, FsmStates
<1>14. CASE ReadXReturned(p)
  <2>1. Line(p) \in Addrs /\ ctl[p].state = "ISSUE_READX"
    BY <1>2, <1>14 DEF ReadXReturned
  <2> QED BY <1>1, <1>14, <2>1, UpdateCacheTyped, EnterTyped DEF ReadXReturned, FsmStates
<1>15. CASE InvalidateIssued(p)
  BY <1>1, <1>15, EnterTyped DEF InvalidateIssued, FsmStates
<1> QED BY <1>4, <1>5, <1>6, <1>7, <1>8, <1>9, <1>10, <1>11, <1>12, <1>13, <1>14, <1>15
        DEF ControllerTick

-----------------------------------------------------------------------------
(* A tick of a processor.                                                  *)

Agrees(p) ==
  CASE pState[p] = "IDLE" ->
         ~pending[p] /\ ctl[p].state = "IDLE" /\ inst[p] = NoInst
    [] pState[p] = "CHECKOPTYPE" ->
         pending[p] /\ ctl[p].state = "IDLE" /\ inst[p] \in Instructions
    [] pState[p] = "MEMORYRETURNWAIT" ->
         pending[p] /\ ctl[p].state # "IDLE" /\ inst[p] \in Instructions

LEMMA ProcessorTickTyped ==
  ASSUME ProcTypeOK, ProcessorControllerAgreement, NEW p \in Procs, ProcessorTick(p)
  PROVE  ProcTypeOK' /\ ProcessorControllerAgreement'
<1>1. /\ pState \in [Procs -> {"IDLE", "CHECKOPTYPE", "MEMORYRETURNWAIT"}]
      /\ pending \in [Procs -> BOOLEAN]
      /\ inst \in [Procs -> Instructions \cup {NoInst}]
      /\ instrQueue \in [Procs -> Seq(Instructions)]
  BY DEF ProcTypeOK
<1>2. \A q \in Procs : Agrees(q)
  BY DEF ProcessorControllerAgreement, Agrees
<1>3. pending[p] \/ ctl[p].state # "IDLE" => inst[p] \in Instructions
  BY <1>1, <1>2 DEF Agrees
<1>4. PICK s \in FsmStates : /\ Entered(p, s)
                             /\ ctl[p].state = "IDLE" => (s = "IDLE" <=> ~pending[p])
  BY <1>3, ControllerTickTyped DEF ProcessorTick
<1> DEFINE next == NextProcessorState(p)
<1>5. /\ pState' = [pState EXCEPT ![p] = next]
      /\ pending' = [pending EXCEPT ![p] = IF next = "CHECKOPTYPE" THEN TRUE ELSE StillPending(p)]
      /\ inst' = [inst EXCEPT ![p] = CASE next = "IDLE" -> NoInst
                                       [] next = "CHECKOPTYPE" -> Head(instrQueue[p])
                                       [] next = "MEMORYRETURNWAIT" -> inst[p]]
      /\ instrQueue' = [instrQueue EXCEPT ![p] = IF next = "CHECKOPTYPE"
                                                 THEN Tail(instrQueue[p]) ELSE instrQueue[p]]
  BY <1>1 DEF ProcessorTick, ProcessorTransition
<1>6. ctl'[p].state = s /\ (StillPending(p) <=> pending[p] /\ s # "IDLE")
  BY <1>4 DEF Entered, StillPending
<1>7. /\ next \in {"IDLE", "CHECKOPTYPE", "MEMORYRETURNWAIT"}
      /\ next = "CHECKOPTYPE" => instrQueue[p] # <<>> /\ s = "IDLE"
      /\ next = "IDLE" => s = "IDLE" /\ ~StillPending(p)
      /\ next = "MEMORYRETURNWAIT" => StillPending(p)
  BY <1>1, <1>2, <1>4, <1>6 DEF NextProcessorState, Agrees
<1>8. next = "CHECKOPTYPE" => /\ Head(instrQueue[p]) \in Instructions
                              /\ Tail(instrQueue[p]) \in Seq(Instructions)
  BY <1>1, <1>7, HeadTailProperties
<1>9. next = "MEMORYRETURNWAIT" => inst[p] \in Instructions
  BY <1>3, <1>6, <1>7
<1>10. ctl' \in [Procs -> Controller] /\ \A q \in Procs \ {p} : ctl'[q] = ctl[q]
  BY <1>4 DEF Entered
<1> HIDE DEF next
<1>11. ProcTypeOK'
  <2>1. pState' \in [Procs -> {"IDLE", "CHECKOPTYPE", "MEMORYRETURNWAIT"}]
    BY <1>1, <1>5, <1>7
  <2>2. pending' \in [Procs -> BOOLEAN]
    <3>1. StillPending(p) \in BOOLEAN
      BY DEF StillPending
    <3> QED BY <1>1, <1>5, <3>1
  <2>3. inst' \in [Procs -> Instructions \cup {NoInst}]
    BY <1>1, <1>5, <1>7, <1>8, <1>9
  <2>4. instrQueue' \in [Procs -> Seq(Instructions)]
    BY <1>1, <1>5, <1>8
  <2> QED BY <1>10, <2>1, <2>2, <2>3, <2>4 DEF ProcTypeOK
<1>12. ASSUME NEW q \in Procs PROVE Agrees(q)'
  <2>1. CASE q = p
    <3>1. /\ pState'[p] = next /\ ctl'[p].state = s
          /\ pending'[p] = IF next = "CHECKOPTYPE" THEN TRUE ELSE StillPending(p)
          /\ next = "IDLE" => inst'[p] = NoInst
          /\ next = "CHECKOPTYPE" => inst'[p] \in Instructions
          /\ next = "MEMORYRETURNWAIT" => inst'[p] \in Instructions
      BY <1>1, <1>5, <1>6, <1>8, <1>9
    <3> QED BY <1>6, <1>7, <2>1, <3>1 DEF Agrees
  <2>2. CASE q # p
    <3>1. /\ pState'[q] = pState[q] /\ pending'[q] = pending[q]
          /\ inst'[q] = inst[q] /\ ctl'[q] = ctl[q]
      BY <1>1, <1>5, <1>10, <2>2
    <3> QED BY <1>2, <3>1 DEF Agrees
  <2> QED BY <2>1, <2>2
<1>13. ProcessorControllerAgreement'
  BY <1>12 DEF ProcessorControllerAgreement, Agrees
<1> QED BY <1>11, <1>13

LEMMA ProcInitTyped == ProcInit => ProcTypeOK /\ ProcessorControllerAgreement
<1> SUFFICES ASSUME ProcInit PROVE ProcTypeOK /\ ProcessorControllerAgreement
  OBVIOUS
<1>1. NewController \in Controller /\ NewController.state = "IDLE"
  <2>1. <<>> \in Seq(Queued) /\ 0 \in 0 .. BurstLen - 1
    BY BurstLenAssumption
  <2>2. [x \in Addrs |-> "I"] \in [Addrs -> MESI]
    BY DEF MESI
  <2> QED BY <2>1, <2>2 DEF NewController, Controller, FsmStates
<1>2. [p \in Procs |-> <<>>] \in [Procs -> Seq(Instructions)]
  <2>1. <<>> \in Seq(Instructions)
    OBVIOUS
  <2> QED BY <2>1
<1>3. ProcTypeOK
  BY <1>1, <1>2 DEF ProcInit, ProcTypeOK
<1>4. ProcessorControllerAgreement
  BY <1>1 DEF ProcInit, ProcessorControllerAgreement
<1> QED BY <1>3, <1>4

-----------------------------------------------------------------------------
(* THE BUS AND THE MACHINE.                                                *)

(* The bus services a node of the machine, keeps a permutation of its      *)
(* nodes as priority queue, and never disagrees with its nodes about the   *)
(* lock, whatever the nodes ask for.                                       *)

LEMMA BusNodesFacts ==
  /\ MemoryAddress \in Nat /\ NumProcs \in Nat \ {0} /\ MemoryAddress = NumProcs + 1
  /\ BusNodes = 1 .. MemoryAddress /\ MemoryAddress \in BusNodes
  /\ Procs \subseteq BusNodes /\ MemoryAddress \notin Procs
BY NumProcsAssumption DEF BusNodes, MemoryAddress, Procs

(* The first node of a set in the priority queue is a node of the set.     *)
LEMMA FirstOfFound ==
  ASSUME BusTypeOK, NEW S \in SUBSET BusNodes, S # {}
  PROVE  FirstOf(S) \in BusNodes /\ priorityQueue[FirstOf(S)] \in S
<1> DEFINE T == {i \in BusNodes : priorityQueue[i] \in S}
<1>1. DOMAIN priorityQueue = BusNodes /\ \A n \in BusNodes : \E i \in BusNodes : priorityQueue[i] = n
  BY DEF BusTypeOK, PriorityOrders
<1>2. T \in SUBSET Nat
  BY BusNodesFacts
<1> PICK n \in S : TRUE
  OBVIOUS
<1>5. T # {}
  BY <1>1
<1>3. PICK i \in T : \A j \in T : i <= j
  BY <1>2, <1>5, LeastNat
<1>4. /\ i \in DOMAIN priorityQueue /\ priorityQueue[i] \in S
      /\ \A j \in 1 .. i - 1 : priorityQueue[j] \notin S
  BY <1>1, <1>3, BusNodesFacts
<1> QED BY <1>1, <1>4 DEF FirstOf

(* The node the bus services is a node of the machine; it is the holder of *)
(* the lock if there is one.                                               *)
LEMMA ServicedIsNode ==
  ASSUME BusTypeOK, NEW maxReq \in SUBSET BusNodes, NEW wanting \in SUBSET BusNodes
  PROVE  /\ nodeLocked => Serviced(maxReq, wanting) = lockedAddress
         /\ ~nodeLocked => Serviced(maxReq, wanting) \in BusNodes
<1>1. ~nodeLocked => Serviced(maxReq, wanting) \in BusNodes
  <2> SUFFICES ASSUME ~nodeLocked PROVE Serviced(maxReq, wanting) \in BusNodes
    OBVIOUS
  <2>1. CASE maxReq # {}
    BY <2>1, FirstOfFound DEF Serviced
  <2>2. CASE maxReq = {} /\ wanting # {}
    BY <2>2, FirstOfFound DEF Serviced
  <2>3. CASE maxReq = {} /\ wanting = {}
    BY <2>3, BusNodesFacts DEF Serviced, BusTypeOK, PriorityOrders
  <2> QED BY <2>1, <2>2, <2>3
<1> QED BY <1>1 DEF Serviced, BusTypeOK

LEMMA RotatedOrder ==
  ASSUME NEW q \in PriorityOrders
  PROVE  Rotated(q) \in PriorityOrders
<1>1. q \in [BusNodes -> BusNodes] /\ \A n \in BusNodes : \E i \in BusNodes : q[i] = n
  BY DEF PriorityOrders
<1>2. Rotated(q) \in [BusNodes -> BusNodes]
  <2>1. 1 \in BusNodes /\ \A i \in BusNodes : i # MemoryAddress => i + 1 \in BusNodes
    BY BusNodesFacts
  <2> QED BY <1>1, <2>1 DEF Rotated
<1>3. ASSUME NEW n \in BusNodes PROVE \E i \in BusNodes : Rotated(q)[i] = n
  <2>1. PICK i \in BusNodes : q[i] = n
    BY <1>1
  <2>2. CASE i = 1
    BY <2>1, <2>2, BusNodesFacts DEF Rotated
  <2>3. CASE i # 1
    <3>1. i - 1 \in BusNodes /\ i - 1 # MemoryAddress /\ (i - 1) + 1 = i
      BY <2>3, BusNodesFacts
    <3> QED BY <2>1, <3>1 DEF Rotated
  <2> QED BY <2>2, <2>3
<1> QED BY <1>2, <1>3 DEF PriorityOrders

LEMMA BusInitTypes == BusInit => BusTypeOK /\ LockAgreement
<1> SUFFICES ASSUME BusInit PROVE BusTypeOK /\ LockAgreement
  OBVIOUS
<1>1. priorityQueue \in PriorityOrders
  BY DEF BusInit, PriorityOrders
<1> QED BY <1>1 DEF BusInit, BusTypeOK, BROADCAST_ADX, LockAgreement

LEMMA BusTickTypes ==
  ASSUME BusTypeOK, NEW maxReq \in SUBSET BusNodes, NEW lockReq \in SUBSET BusNodes,
         NEW txReq \in SUBSET BusNodes, BusTick(maxReq, lockReq, txReq)
  PROVE  BusTypeOK'
<1>1. priorityQueue' \in PriorityOrders
  BY RotatedOrder DEF BusTick, BusTypeOK
<1>2. lockedAddress' \in BusNodes \cup {BROADCAST_ADX} /\ nodeLocked' \in BOOLEAN
  BY DEF BusTick, BusTypeOK
<1>3. nodeIsLocked' \in SUBSET BusNodes
  BY DEF BusTick, BusTypeOK
<1> QED BY <1>1, <1>2, <1>3 DEF BusTypeOK

(* A bus cycle keeps the agreement: it visits the holder of the lock, or,  *)
(* when there is none, gives the lock to one node at most.                 *)
LEMMA BusTickAgrees ==
  ASSUME LockAgreement, NEW maxReq, NEW lockReq, NEW txReq, BusTick(maxReq, lockReq, txReq)
  PROVE  LockAgreement'
<1>1. CASE nodeLocked
  BY <1>1 DEF LockAgreement, BusTick, Visited, Serviced
<1>2. CASE ~nodeLocked
  BY <1>2 DEF LockAgreement, BusTick
<1> QED BY <1>1, <1>2

-----------------------------------------------------------------------------
(* The bus lock. Only the bus changes it, and LockAgreement is inductive.  *)

(* The bus and its nodes agree on who holds the bus, so at most one node   *)
(* believes it does (Interconnect.cpp:57-65, BusNode.cpp:11-21).           *)
THEOREM LockIsAgreed == Spec => []LockAgreement
<1>1. Init => LockAgreement
  BY BusInitTypes DEF Init
<1>2. LockAgreement /\ [Next]_vars => LockAgreement'
  <2> SUFFICES ASSUME LockAgreement, [Next]_vars PROVE LockAgreement'
    OBVIOUS
  <2>1. CASE TickInterconnect
    BY <2>1, BusTickAgrees DEF TickInterconnect
  <2>2. CASE UNCHANGED busVars
    BY <2>2 DEF LockAgreement, busVars
  <2>3. InsertInstructions \/ TickMemory \/ (\E p \in Procs : TickProcessor(p))
          => UNCHANGED busVars
    BY DEF InsertInstructions, Insert, TickMemory, TickProcessor
  <2> QED BY <2>1, <2>2, <2>3 DEF Next, vars
<1> QED BY <1>1, <1>2, PTL DEF Spec

-----------------------------------------------------------------------------
(* Types, the agreement between processors and controllers, and the order  *)
(* of the memory's reads are preserved together: a controller's actions    *)
(* need the line of an instruction that exists, and the memory's search for*)
(* its oldest read finds the head of a list in order.                      *)
IInv == TypeOK /\ ProcessorControllerAgreement /\ ReadsInOrder

LEMMA ReadsInOrderIsAgesOrdered ==
  /\ ReadsInOrder <=> AgesOrdered(memTracker)
  /\ ReadsInOrder' <=> AgesOrdered(memTracker')
BY DEF ReadsInOrder, AgesOrdered

LEMMA TurnsTyped ==
  /\ FetchTurn \in BusTurn .. FetchTurn
  /\ \A t \in BusTurn .. FetchTurn : t # BusTurn => t - 1 \in BusTurn .. FetchTurn
  /\ \A p \in Procs : p # BusTurn
  /\ FetchTurn # BusTurn /\ MemoryTurn # BusTurn
BY NumProcsAssumption DEF FetchTurn, BusTurn, MemoryTurn, Procs

LEMMA InitIInv == Init => IInv
<1> SUFFICES ASSUME Init PROVE IInv
  OBVIOUS
<1>1. ProcTypeOK /\ ProcessorControllerAgreement
  BY ProcInitTyped DEF Init
<1>2. MemTypeOK /\ ReadsInOrder
  BY MemInitTypes, ReadsInOrderIsAgesOrdered DEF Init
<1>3. BusTypeOK
  BY BusInitTypes DEF Init
<1>4. turn \in BusTurn .. FetchTurn
  BY TurnsTyped DEF Init
<1> QED BY <1>1, <1>2, <1>3, <1>4 DEF IInv, TypeOK

(* State that a step leaves alone keeps what is said of it.                *)
LEMMA UnchangedProc ==
  ASSUME ProcTypeOK, ProcessorControllerAgreement, UNCHANGED procVars
  PROVE  ProcTypeOK' /\ ProcessorControllerAgreement'
BY DEF ProcTypeOK, ProcessorControllerAgreement, procVars

LEMMA UnchangedMem ==
  ASSUME MemTypeOK, ReadsInOrder, UNCHANGED memVars
  PROVE  MemTypeOK' /\ ReadsInOrder'
BY DEF MemTypeOK, ReadsInOrder, memVars

LEMMA UnchangedBus ==
  ASSUME BusTypeOK, UNCHANGED busVars
  PROVE  BusTypeOK'
BY DEF BusTypeOK, busVars

LEMMA InsertKeepsIInv ==
  ASSUME IInv, InsertInstructions
  PROVE  IInv'
<1>1. UNCHANGED memVars /\ UNCHANGED busVars /\ UNCHANGED <<ctl, pending, inst, pState>>
  BY DEF InsertInstructions, Insert
<1>2. MemTypeOK' /\ ReadsInOrder' /\ BusTypeOK'
  BY <1>1, UnchangedMem, UnchangedBus DEF IInv, TypeOK
<1>3. instrQueue' \in [Procs -> Seq(Instructions)]
  <2>1. PICK entry \in [Procs -> Instructions \cup {NOP}] :
          instrQueue' = [p \in Procs |-> IF instrQueue[p] = <<>> /\ entry[p] # NOP
                                         THEN <<entry[p]>> ELSE instrQueue[p]]
    BY DEF InsertInstructions, Insert
  <2>2. ASSUME NEW p \in Procs, entry[p] # NOP PROVE <<entry[p]>> \in Seq(Instructions)
    <3>1. entry[p] \in Instructions
      BY <2>2
    <3> QED BY <3>1
  <2>3. instrQueue \in [Procs -> Seq(Instructions)]
    BY DEF IInv, TypeOK, ProcTypeOK
  <2> QED BY <2>1, <2>2, <2>3
<1>4. ProcTypeOK'
  BY <1>1, <1>3 DEF IInv, TypeOK, ProcTypeOK
<1>5. ProcessorControllerAgreement'
  BY <1>1 DEF IInv, ProcessorControllerAgreement
<1>6. turn' \in BusTurn .. FetchTurn
  BY TurnsTyped DEF InsertInstructions, Insert, IInv, TypeOK
<1> QED BY <1>2, <1>4, <1>5, <1>6 DEF IInv, TypeOK

LEMMA TickProcessorKeepsIInv ==
  ASSUME IInv, NEW p \in Procs, TickProcessor(p)
  PROVE  IInv'
<1>1. MemTypeOK' /\ ReadsInOrder' /\ BusTypeOK'
  BY UnchangedMem, UnchangedBus DEF IInv, TypeOK, TickProcessor
<1>2. ProcTypeOK' /\ ProcessorControllerAgreement'
  BY ProcessorTickTyped DEF IInv, TypeOK, TickProcessor
<1>3. turn' \in BusTurn .. FetchTurn
  BY TurnsTyped DEF TickProcessor, IInv, TypeOK
<1> QED BY <1>1, <1>2, <1>3 DEF IInv, TypeOK

LEMMA TickMemoryKeepsIInv ==
  ASSUME IInv, TickMemory
  PROVE  IInv'
<1>1. (MemoryAddress \in nodeIsLocked) \in BOOLEAN
  OBVIOUS
<1>2. MemTypeOK' /\ ReadsInOrder'
  BY <1>1, MemTickTypes, ReadsInOrderIsAgesOrdered DEF IInv, TypeOK, TickMemory
<1>3. BusTypeOK' /\ ProcTypeOK' /\ ProcessorControllerAgreement'
  BY UnchangedBus, UnchangedProc DEF IInv, TypeOK, TickMemory
<1>4. turn' \in BusTurn .. FetchTurn
  BY TurnsTyped DEF TickMemory, IInv, TypeOK
<1> QED BY <1>2, <1>3, <1>4 DEF IInv, TypeOK

-----------------------------------------------------------------------------
(* The bus cycle.                                                          *)

(* A broadcast leaves every controller a Controller in its state.          *)
LEMMA BroadcastServes ==
  ASSUME ProcTypeOK, NEW m \in BusRequest, NEW q \in Procs
  PROVE  Serves(ctl[q], AfterBroadcast(m)[q])
<1>1. ctl[q] \in Controller
  BY DEF ProcTypeOK
<1>2. Serves(ctl[q], Accept(ctl[q], inst[q].line, m)) /\ Serves(ctl[q], ctl[q])
  BY <1>1, AcceptServes DEF Serves
<1> QED BY <1>2 DEF AfterBroadcast

(* So the types and the agreement survive a cycle that only does that.     *)
LEMMA ServedProcs ==
  ASSUME ProcTypeOK, ProcessorControllerAgreement, UNCHANGED <<pending, inst, pState, instrQueue>>,
         ctl' = [q \in Procs |-> ctl'[q]], \A q \in Procs : Serves(ctl[q], ctl'[q])
  PROVE  ProcTypeOK' /\ ProcessorControllerAgreement'
<1>1. \A q \in Procs : ctl'[q] \in Controller /\ ctl'[q].state = ctl[q].state
  BY DEF Serves
<1>2. ctl' \in [Procs -> Controller]
  BY <1>1
<1>3. ProcTypeOK'
  BY <1>2 DEF ProcTypeOK
<1>4. ProcessorControllerAgreement'
  BY <1>1 DEF ProcessorControllerAgreement
<1> QED BY <1>3, <1>4

LEMMA ProcessorTransmitsKeeps ==
  ASSUME IInv, NEW p \in Procs, ProcessorTransmits(p),
         UNCHANGED <<pending, inst, pState, instrQueue>>
  PROVE  /\ ProcTypeOK' /\ ProcessorControllerAgreement'
         /\ MemTypeOK' /\ ReadsInOrder'
<1> DEFINE q == Issued(ctl[p], Locked(p))
           m == [command |-> q.command, payload |-> q.payload,
                 source |-> p, target |-> BROADCAST_ADX]
<1>1. ProcTypeOK /\ ProcessorControllerAgreement /\ MemTypeOK /\ ReadsInOrder
  BY DEF IInv, TypeOK
<1>2. ctl[p] \in Controller /\ RequestsTransaction(ctl[p])
  BY <1>1, BusNodesFacts DEF ProcTypeOK, ProcessorTransmits, Transmitters
<1>3. q.command \in Commands /\ q.payload \in Addrs
  BY <1>2, NextToIssueTyped DEF Issued, Queued, Commands
<1>4. m \in BusRequest
  BY <1>3, BusNodesFacts DEF BusRequest
<1>5. ctl' = [AfterBroadcast(m) EXCEPT ![p] = AfterIssue(ctl[p], Locked(p))] /\ MemAccept(m)
  BY DEF ProcessorTransmits
<1> HIDE DEF q, m
<1>6. ASSUME NEW n \in Procs PROVE Serves(ctl[n], ctl'[n])
  <2>1. CASE n = p
    <3>1. Locked(p) \in BOOLEAN
      BY DEF Locked
    <3>2. ctl'[n] = AfterIssue(ctl[p], Locked(p))
      BY <1>5, <2>1 DEF AfterBroadcast
    <3> QED BY <1>2, <2>1, <3>1, <3>2, AfterIssueServes
  <2>2. CASE n # p
    <3>1. ctl'[n] = AfterBroadcast(m)[n]
      BY <1>5, <2>2 DEF AfterBroadcast
    <3> QED BY <1>1, <1>4, <3>1, BroadcastServes
  <2> QED BY <2>1, <2>2
<1>7. ctl' = [n \in Procs |-> ctl'[n]]
  BY <1>5 DEF AfterBroadcast
<1>8. ProcTypeOK' /\ ProcessorControllerAgreement'
  BY <1>1, <1>6, <1>7, ServedProcs
<1>9. MemTypeOK' /\ ReadsInOrder'
  BY <1>1, <1>4, <1>5, MemAcceptTypes, ReadsInOrderIsAgesOrdered
<1> QED BY <1>8, <1>9

LEMMA MemoryTransmitsKeeps ==
  ASSUME IInv, MemoryTransmits, UNCHANGED <<pending, inst, pState, instrQueue>>
  PROVE  /\ ProcTypeOK' /\ ProcessorControllerAgreement'
         /\ MemTypeOK' /\ ReadsInOrder'
<1>1. ProcTypeOK /\ ProcessorControllerAgreement /\ MemTypeOK /\ ReadsInOrder
  BY DEF IInv, TypeOK
<1> DEFINE m == Head(memQueue)
<1>2. MemRequestsTransaction /\ MemInitiate /\ ctl' = AfterBroadcast(m)
  BY DEF MemoryTransmits
<1>3. m \in BusRequest
  BY <1>1, <1>2, HeadTailProperties DEF MemTypeOK, MemRequestsTransaction
<1> HIDE DEF m
<1>4. \A n \in Procs : Serves(ctl[n], ctl'[n])
  BY <1>1, <1>2, <1>3, BroadcastServes
<1>5. ctl' = [n \in Procs |-> ctl'[n]]
  BY <1>2 DEF AfterBroadcast
<1>6. ProcTypeOK' /\ ProcessorControllerAgreement'
  BY <1>1, <1>4, <1>5, ServedProcs
<1>7. MemTypeOK' /\ ReadsInOrder'
  BY <1>1, <1>2, MemInitiateTypes, ReadsInOrderIsAgesOrdered
<1> QED BY <1>6, <1>7

LEMMA TickInterconnectKeepsIInv ==
  ASSUME IInv, TickInterconnect
  PROVE  IInv'
<1>1. UNCHANGED <<pending, inst, pState, instrQueue>>
  BY DEF TickInterconnect
<1>2. /\ ProcTypeOK' /\ ProcessorControllerAgreement'
      /\ MemTypeOK' /\ ReadsInOrder'
  <2>1. CASE QuietCycle
    <3>1. UNCHANGED procVars /\ UNCHANGED memVars
      BY <1>1, <2>1 DEF QuietCycle, procVars
    <3> QED BY <3>1, UnchangedProc, UnchangedMem DEF IInv, TypeOK
  <2>2. CASE MemoryTransmits
    BY <1>1, <2>2, MemoryTransmitsKeeps
  <2>3. CASE \E p \in Procs : ProcessorTransmits(p)
    BY <1>1, <2>3, ProcessorTransmitsKeeps
  <2> QED BY <2>1, <2>2, <2>3 DEF TickInterconnect
<1>3. BusTypeOK'
  <2>1. /\ MaxRequesters \in SUBSET BusNodes /\ LockRequesters \in SUBSET BusNodes
        /\ Transmitters \in SUBSET BusNodes
    BY BusNodesFacts DEF MaxRequesters, LockRequesters, Transmitters
  <2> QED BY <2>1, BusTickTypes DEF TickInterconnect, IInv, TypeOK
<1>4. turn' \in BusTurn .. FetchTurn
  BY TurnsTyped DEF TickInterconnect
<1> QED BY <1>2, <1>3, <1>4 DEF IInv, TypeOK

LEMMA NextKeepsIInv == IInv /\ [Next]_vars => IInv'
<1> SUFFICES ASSUME IInv, [Next]_vars PROVE IInv'
  OBVIOUS
<1>1. CASE InsertInstructions
  BY <1>1, InsertKeepsIInv
<1>2. CASE \E p \in Procs : TickProcessor(p)
  BY <1>2, TickProcessorKeepsIInv
<1>3. CASE TickMemory
  BY <1>3, TickMemoryKeepsIInv
<1>4. CASE TickInterconnect
  BY <1>4, TickInterconnectKeepsIInv
<1>5. CASE UNCHANGED vars
  <2>1. /\ UNCHANGED procVars /\ UNCHANGED memVars /\ UNCHANGED busVars
        /\ UNCHANGED turn
    BY <1>5 DEF vars
  <2> QED BY <2>1, UnchangedProc, UnchangedMem, UnchangedBus DEF IInv, TypeOK
<1> QED BY <1>1, <1>2, <1>3, <1>4, <1>5 DEF Next

(* The types of the machine: every handler, every tick and every bus cycle *)
(* finds its records, queues and counters in their ranges; a controller's  *)
(* burst counter never passes BurstLen (CacheController.cpp:58-77), and the*)
(* memory's searches never miss (Memory.cpp:86-118).                       *)
THEOREM TypesHold == Spec => []TypeOK
<1>1. IInv => TypeOK
  BY DEF IInv
<1> QED BY InitIInv, NextKeepsIInv, <1>1, PTL DEF Spec

(* A processor and its controller agree on the instruction in progress     *)
(* (Processor.cpp:48-73, CacheController.cpp:139-150): the Instruction     *)
(* object exists in every state that dereferences it, and no instruction is*)
(* handed over while one is pending.                                       *)
THEOREM ProcessorsAgree == Spec => []ProcessorControllerAgreement
<1>1. IInv => ProcessorControllerAgreement
  BY DEF IInv
<1> QED BY InitIInv, NextKeepsIInv, <1>1, PTL DEF Spec

(* The memory answers reads in the order they arrived: ages never increase *)
(* along its list, and getOldestOp takes the first of the oldest           *)
(* (Memory.cpp:79-118).                                                    *)
THEOREM ReadsStayInOrder == Spec => []ReadsInOrder
<1>1. IInv => ReadsInOrder
  BY DEF IInv
<1> QED BY InitIInv, NextKeepsIInv, <1>1, PTL DEF Spec

-----------------------------------------------------------------------------
(* With transfers of at least two cycles a burst of the memory ends: its   *)
(* counter stays below BurstLen (Memory.cpp:52-72). A BurstLen of 1, which *)
(* the program accepts, is where this fails.                               *)
THEOREM BurstsEnd ==
  ASSUME BurstLen > 1
  PROVE  Spec => []BurstWithinLength
<1>1. Init => BurstCounted
  BY DEF Init, MemInit, BurstCounted
<1>2. IInv /\ BurstCounted /\ [Next]_vars => BurstCounted'
  <2> SUFFICES ASSUME IInv, BurstCounted, [Next]_vars PROVE BurstCounted'
    OBVIOUS
  <2>1. CASE TickMemory
    <3>1. (MemoryAddress \in nodeIsLocked) \in BOOLEAN
      OBVIOUS
    <3> QED BY <2>1, <3>1, MemTickCounts DEF TickMemory, IInv, TypeOK
  <2>2. CASE UNCHANGED <<memBursting, memBurstCounter>>
    BY <2>2 DEF BurstCounted
  <2>3. InsertInstructions \/ TickInterconnect \/ (\E p \in Procs : TickProcessor(p))
          => UNCHANGED <<memBursting, memBurstCounter>>
    BY DEF InsertInstructions, Insert, TickInterconnect, TickProcessor, QuietCycle, MemoryTransmits,
           ProcessorTransmits, MemAccept, MemInitiate, memVars
  <2>4. UNCHANGED vars => UNCHANGED <<memBursting, memBurstCounter>>
    BY DEF vars, memVars
  <2> QED BY <2>1, <2>2, <2>3, <2>4 DEF Next
<1>3. BurstCounted => BurstWithinLength
  BY DEF BurstCounted, BurstWithinLength
<1> QED BY InitIInv, NextKeepsIInv, <1>1, <1>2, <1>3, PTL DEF Spec

=============================================================================
