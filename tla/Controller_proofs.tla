-------------------------- MODULE Controller_proofs --------------------------
(***************************************************************************)
(* What a transaction on the bus, the issue of a request and a tick do to  *)
(* one controller, in the terms of CoherenceInvariant: to the phase of its *)
(* read, its requests and its claims.                                      *)
(***************************************************************************)
EXTENDS CoherenceInvariant, System_proofs

-----------------------------------------------------------------------------
(* The requests in a queue.                                                *)

LEMMA RangeOfAppend ==
  ASSUME NEW S, NEW q \in Seq(S), NEW e \in S
  PROVE  RangeOf(Append(q, e)) = RangeOf(q) \cup {e}
<1>1. Len(q) \in Nat /\ DOMAIN q = 1 .. Len(q)
  BY LenProperties
<1>2. /\ Append(q, e) \in Seq(S) /\ Len(Append(q, e)) = Len(q) + 1
      /\ DOMAIN Append(q, e) = 1 .. Len(q) + 1
      /\ \A i \in 1 .. Len(q) : Append(q, e)[i] = q[i]
      /\ Append(q, e)[Len(q) + 1] = e
  BY AppendProperties, LenProperties
<1>3. RangeOf(q) \cup {e} \subseteq RangeOf(Append(q, e))
  BY <1>1, <1>2 DEF RangeOf
<1>4. ASSUME NEW i \in 1 .. Len(q) + 1 PROVE Append(q, e)[i] \in RangeOf(q) \cup {e}
  BY <1>1, <1>2 DEF RangeOf
<1> QED BY <1>2, <1>3, <1>4 DEF RangeOf

LEMMA RangeOfTail ==
  ASSUME NEW S, NEW q \in Seq(S), q # <<>>
  PROVE  RangeOf(q) = {Head(q)} \cup RangeOf(Tail(q))
<1>1. Len(q) \in Nat \ {0} /\ DOMAIN q = 1 .. Len(q)
  BY LenProperties, EmptySeq
<1>2. /\ Tail(q) \in Seq(S) /\ Len(Tail(q)) = Len(q) - 1 /\ Head(q) = q[1]
      /\ \A i \in 1 .. Len(q) - 1 : Tail(q)[i] = q[i + 1]
  BY <1>1, HeadTailProperties
<1>3. DOMAIN Tail(q) = 1 .. Len(q) - 1
  BY <1>2, LenProperties
<1>4. {Head(q)} \cup RangeOf(Tail(q)) \subseteq RangeOf(q)
  <2>1. ASSUME NEW i \in 1 .. Len(q) - 1 PROVE Tail(q)[i] \in RangeOf(q)
    <3>1. i + 1 \in DOMAIN q /\ Tail(q)[i] = q[i + 1]
      BY <1>1, <1>2
    <3> QED BY <3>1 DEF RangeOf
  <2>2. Head(q) \in RangeOf(q)
    BY <1>1, <1>2 DEF RangeOf
  <2> QED BY <1>3, <2>1, <2>2 DEF RangeOf
<1>5. ASSUME NEW i \in 1 .. Len(q) PROVE q[i] \in {Head(q)} \cup RangeOf(Tail(q))
  <2>1. CASE i = 1
    BY <1>2, <2>1
  <2>2. CASE i # 1
    <3>1. i - 1 \in DOMAIN Tail(q) /\ Tail(q)[i - 1] = q[i]
      BY <1>1, <1>2, <1>3, <2>2
    <3> QED BY <3>1 DEF RangeOf
  <2> QED BY <2>1, <2>2
<1> QED BY <1>1, <1>4, <1>5 DEF RangeOf

LEMMA RangeOfErase ==
  ASSUME NEW S, NEW q \in Seq(S), NEW i \in DOMAIN q
  PROVE  /\ RangeOf(Erase(q, i)) \subseteq RangeOf(q)
         /\ RangeOf(q) \ {q[i]} \subseteq RangeOf(Erase(q, i))
<1>1. Len(q) \in Nat /\ DOMAIN q = 1 .. Len(q)
  BY LenProperties
<1>2. /\ Erase(q, i) \in Seq(S) /\ Len(Erase(q, i)) = Len(q) - 1
      /\ \A j \in 1 .. Len(q) - 1 : Erase(q, i)[j] = IF j < i THEN q[j] ELSE q[j + 1]
  BY <1>1, EraseSeq
<1>3. DOMAIN Erase(q, i) = 1 .. Len(q) - 1
  BY <1>2, LenProperties
<1>4. ASSUME NEW j \in 1 .. Len(q) - 1 PROVE Erase(q, i)[j] \in RangeOf(q)
  <2>1. j \in DOMAIN q /\ j + 1 \in DOMAIN q
    BY <1>1
  <2> QED BY <1>2, <2>1 DEF RangeOf
<1>5. ASSUME NEW j \in 1 .. Len(q), j # i PROVE q[j] \in RangeOf(Erase(q, i))
  <2>1. CASE j < i
    <3>1. j \in DOMAIN Erase(q, i) /\ Erase(q, i)[j] = q[j]
      BY <1>1, <1>2, <1>3, <2>1
    <3> QED BY <3>1 DEF RangeOf
  <2>2. CASE j > i
    <3>1. j - 1 \in DOMAIN Erase(q, i) /\ Erase(q, i)[j - 1] = q[j]
      BY <1>1, <1>2, <1>3, <2>2
    <3> QED BY <3>1 DEF RangeOf
  <2> QED BY <1>1, <1>5, <2>1, <2>2
<1> QED BY <1>1, <1>3, <1>4, <1>5 DEF RangeOf

LEMMA RangeOfEmpty ==
  ASSUME NEW S, NEW q \in Seq(S)
  PROVE  /\ RangeOf(q) \subseteq S
         /\ RangeOf(q) = {} <=> q = <<>>
<1>1. Len(q) \in Nat /\ DOMAIN q = 1 .. Len(q) /\ \A i \in 1 .. Len(q) : q[i] \in S
  BY LenProperties, ElementOfSeq
<1>2. q = <<>> <=> Len(q) = 0
  BY EmptySeq
<1>3. CASE q = <<>>
  BY <1>1, <1>2, <1>3 DEF RangeOf
<1>4. CASE q # <<>>
  <2>1. 1 \in DOMAIN q
    BY <1>1, <1>2, <1>4
  <2> QED BY <1>1, <1>4, <2>1 DEF RangeOf
<1> QED BY <1>3, <1>4

-----------------------------------------------------------------------------
(* The calls the handlers make.                                            *)

(* The fields of a controller that only its own ticks and requests change. *)
SameMachine(c, d) ==
  /\ d.state = c.state /\ d.queuedBusRead = c.queuedBusRead
  /\ d.bursting = c.bursting /\ d.burstCounter = c.burstCounter
  /\ d.busReqQueue = c.busReqQueue

SameRead(c, d) ==
  /\ (d.awaitingBusRead <=> c.awaitingBusRead) /\ d.awaitingDataLocal = c.awaitingDataLocal
  /\ d.got = c.got

Request(code, x) == [command |-> code, payload |-> x]

LEMMA RequestFields ==
  ASSUME NEW code \in Commands, NEW x \in Addrs
  PROVE  Request(code, x) \in Queued /\ Request(code, x).command = code /\ Request(code, x).payload = x
BY DEF Request, Queued

LEMMA AddNewMaxPriorityAdds ==
  ASSUME NEW c \in Controller, NEW code \in Commands, NEW x \in Addrs,
         NEW d, d = AddNewMaxPriorityBusRequest(c, code, x)
  PROVE  /\ d \in Controller /\ SameMachine(c, d) /\ SameRead(c, d)
         /\ d.saw = c.saw /\ d.cache = c.cache
         /\ d.maxPriorityQueue = Append(c.maxPriorityQueue, Request(code, x))
         /\ Outgoing(d) = Outgoing(c) \cup {Request(code, x)}
<1> DEFINE e == Request(code, x)
           q == Append(c.maxPriorityQueue, e)
<1>1. e \in Queued /\ c.maxPriorityQueue \in Seq(Queued)
  BY RequestFields DEF Controller
<1>2. RangeOf(q) = RangeOf(c.maxPriorityQueue) \cup {e}
  BY <1>1, RangeOfAppend
<1>3. d = [c EXCEPT !.maxPriorityQueue = q]
  BY DEF AddNewMaxPriorityBusRequest, Controller, Request
<1>4. d \in Controller
  BY AddNewMaxPriorityServes DEF Serves
<1> HIDE DEF q, e
<1>5. SameMachine(c, d) /\ SameRead(c, d) /\ d.saw = c.saw /\ d.cache = c.cache
  BY <1>3 DEF Controller, SameMachine, SameRead
<1>6. d.maxPriorityQueue = q
  BY <1>3 DEF Controller
<1> QED BY <1>2, <1>4, <1>5, <1>6 DEF Outgoing, q, e

LEMMA SetLineSets ==
  ASSUME NEW c \in Controller, NEW x \in Addrs, NEW s \in MESI, NEW d, d = SetLine(c, x, s)
  PROVE  /\ d \in Controller /\ SameMachine(c, d) /\ SameRead(c, d)
         /\ d.saw = c.saw /\ d.maxPriorityQueue = c.maxPriorityQueue
         /\ d.cache = [c.cache EXCEPT ![x] = s]
<1>1. d \in Controller
  BY SetLineServes DEF Serves
<1> QED BY <1>1 DEF Controller, SameMachine, SameRead, SetLine

LEMMA SawAdds ==
  ASSUME NEW c \in Controller, NEW e \in {"BUSREAD", "BUSREADX", "INVALIDATE"},
         NEW d, d = Saw(c, e)
  PROVE  /\ d \in Controller /\ SameMachine(c, d) /\ SameRead(c, d)
         /\ d.saw = c.saw \cup {e} /\ d.maxPriorityQueue = c.maxPriorityQueue
         /\ d.cache = c.cache
<1>1. d \in Controller
  BY SawServes DEF Serves
<1> QED BY <1>1 DEF Controller, SameMachine, SameRead, Saw

LEMMA DataArrivedSets ==
  ASSUME NEW c \in Controller, NEW from \in {"memory", "processor", "writeback"},
         NEW d, d = DataArrived(c, from)
  PROVE  /\ d \in Controller /\ SameMachine(c, d)
         /\ d.saw = c.saw /\ d.maxPriorityQueue = c.maxPriorityQueue /\ d.cache = c.cache
         /\ ~d.awaitingBusRead /\ d.awaitingDataLocal = NoAddr
         /\ d.got = c.got \cup {from}
<1>1. d \in Controller
  BY DataArrivedServes DEF Serves
<1> QED BY <1>1 DEF Controller, SameMachine, DataArrived

(* A reply that is cancelled leaves the queue; nothing else does, and a    *)
(* controller's reads are never taken for replies.                         *)
LEMMA CancelDrops ==
  ASSUME NEW c \in Controller, NEW x \in Addrs,
         Matches(c.busReqQueue, "DATA_RETURN_PROCESSOR", x) = {},
         NEW d, d = CancelBusRequest(c, "DATA_RETURN_PROCESSOR", x)
  PROVE  /\ d \in Controller /\ SameMachine(c, d) /\ SameRead(c, d)
         /\ d.saw = c.saw /\ d.cache = c.cache
         /\ Outgoing(d) \subseteq Outgoing(c)
         /\ \A r \in Outgoing(c) : r \in Outgoing(d) \/ (r.command = "DATA_RETURN_PROCESSOR" /\ r.payload = x)
<1> DEFINE S == Matches(c.maxPriorityQueue, "DATA_RETURN_PROCESSOR", x)
<1>1. d \in Controller
  BY CancelServes DEF Serves
<1>2. CASE S = {}
  <2>1. d = c
    BY <1>2 DEF CancelBusRequest
  <2> QED BY <1>1, <2>1 DEF SameMachine, SameRead
<1>3. CASE S # {}
  <2> DEFINE i == CHOOSE i \in S : \A j \in S : j <= i
             q == Erase(c.maxPriorityQueue, i)
  <2>1. c.maxPriorityQueue \in Seq(Queued)
    BY DEF Controller
  <2>2. Len(c.maxPriorityQueue) \in Nat /\ DOMAIN c.maxPriorityQueue = 1 .. Len(c.maxPriorityQueue)
    BY <2>1, LenProperties
  <2>3. S \in SUBSET (0 .. Len(c.maxPriorityQueue))
    BY <2>2 DEF Matches
  <2>4. \E k \in S : \A j \in S : j <= k
    BY <1>3, <2>2, <2>3, GreatestNat
  <2>5. i \in S
    BY <2>4
  <2>6. /\ i \in DOMAIN c.maxPriorityQueue
        /\ c.maxPriorityQueue[i].command = "DATA_RETURN_PROCESSOR"
        /\ c.maxPriorityQueue[i].payload = x
    BY <2>5 DEF Matches
  <2> HIDE DEF i
  <2>7. /\ RangeOf(q) \subseteq RangeOf(c.maxPriorityQueue)
        /\ RangeOf(c.maxPriorityQueue) \ {c.maxPriorityQueue[i]} \subseteq RangeOf(q)
    BY <2>1, <2>6, RangeOfErase
  <2>8. d = [c EXCEPT !.maxPriorityQueue = q]
    BY <1>3 DEF CancelBusRequest, EraseNewest, i, Controller
  <2> HIDE DEF q, S
  <2>9. SameMachine(c, d) /\ SameRead(c, d) /\ d.saw = c.saw /\ d.cache = c.cache
    BY <2>8 DEF Controller, SameMachine, SameRead
  <2>10. d.maxPriorityQueue = q
    BY <2>8 DEF Controller
  <2> QED BY <1>1, <2>6, <2>7, <2>9, <2>10 DEF Outgoing
<1> QED BY <1>2, <1>3

-----------------------------------------------------------------------------
(* A transaction on the bus, field by field.                               *)

AskingCommands == {"BUSREAD", "BUSREADX", "INVALIDATE", "SHAREME"}
AnsweringCommands == {"BUSWRITE", "DATA_RETURN_MEMORY", "DATA_RETURN_PROCESSOR"}

(* A request meets a copy, or a controller that waits for the line.        *)
Hits(c, m) == m.command \in AskingCommands /\ Contains(c, m.payload)
Notes(c, m) == m.command \in AskingCommands /\ ~Contains(c, m.payload) /\ AwaitsLocally(c, m.payload)
Noted(m) == IF m.command = "SHAREME" THEN "BUSREAD" ELSE m.command
Lowered(m) == IF m.command \in {"BUSREAD", "SHAREME"} THEN "S" ELSE "I"

Answers(c, line, m) == m.command \in AnsweringCommands /\ AwaitingDataRemote(c, line, m.payload)
Origin(m) ==
  CASE m.command = "BUSWRITE" -> "writeback"
    [] m.command = "DATA_RETURN_MEMORY" -> "memory"
    [] m.command = "DATA_RETURN_PROCESSOR" -> "processor"

AcceptedFields(c, line, m, d) ==
  /\ d.saw = IF Notes(c, m) THEN c.saw \cup {Noted(m)} ELSE c.saw
  /\ d.cache = IF Hits(c, m) THEN [c.cache EXCEPT ![m.payload] = Lowered(m)] ELSE c.cache
  /\ d.awaitingBusRead <=> c.awaitingBusRead /\ ~Answers(c, line, m)
  /\ d.awaitingDataLocal = IF Answers(c, line, m) THEN NoAddr ELSE c.awaitingDataLocal
  /\ d.got = IF Answers(c, line, m) THEN c.got \cup {Origin(m)} ELSE c.got

(* What it adds to the requests and takes from them.                       *)
AcceptedRequests(c, m, d) ==
  /\ \A r \in Outgoing(d) \ Outgoing(c) :
       /\ r.payload = m.payload
       /\ \/ Hits(c, m) /\ r.command \in DataCommands
          \/ Notes(c, m) /\ m.command = "BUSREAD" /\ r.command = "SHAREME"
  /\ \A r \in Outgoing(c) \ Outgoing(d) :
       /\ r.payload = m.payload /\ r.command = "DATA_RETURN_PROCESSOR"
       /\ m.command \in {"DATA_RETURN_MEMORY", "DATA_RETURN_PROCESSOR"}
  /\ m.command = "BUSREAD" /\ (Hits(c, m) \/ Notes(c, m)) => Tells(d, m.payload)

Accepted(c, line, m, d) ==
  /\ d \in Controller /\ SameMachine(c, d)
  /\ AcceptedFields(c, line, m, d)
  /\ AcceptedRequests(c, m, d)

(* A copy is sent back.                                                    *)
LEMMA SupplyDataAdds ==
  ASSUME NEW c \in Controller, NEW x \in Addrs, NEW d, d = SupplyData(c, x)
  PROVE  /\ d \in Controller /\ SameMachine(c, d) /\ SameRead(c, d)
         /\ d.saw = c.saw /\ d.cache = c.cache
         /\ \E r \in Queued : /\ r.payload = x /\ r.command \in DataCommands
                             /\ Outgoing(d) = Outgoing(c) \cup {r}
<1> DEFINE code == IF c.cache[x] = "M" THEN "BUSWRITE" ELSE "DATA_RETURN_PROCESSOR"
<1>1. code \in Commands /\ code \in DataCommands
  BY DEF Commands, DataCommands
<1>2. d = AddNewMaxPriorityBusRequest(c, code, x)
  BY DEF SupplyData
<1>3. Request(code, x) \in Queued /\ Request(code, x).command = code /\ Request(code, x).payload = x
  BY <1>1, RequestFields
<1> HIDE DEF code
<1>4. /\ d \in Controller /\ SameMachine(c, d) /\ SameRead(c, d)
      /\ d.saw = c.saw /\ d.cache = c.cache
      /\ Outgoing(d) = Outgoing(c) \cup {Request(code, x)}
  BY <1>1, <1>2, AddNewMaxPriorityAdds
<1> QED BY <1>1, <1>3, <1>4

LEMMA BusReadAccepted ==
  ASSUME NEW c \in Controller, NEW line, NEW m \in BusRequest, m.command = "BUSREAD",
         NEW d, d = HandleBusRead(c, m.payload)
  PROVE  Accepted(c, line, m, d)
<1> DEFINE x == m.payload
<1>1. x \in Addrs
  BY DEF BusRequest
<1>2. CASE Contains(c, x)
  <2> DEFINE e == SupplyData(c, x)
  <2>1. PICK r \in Queued : /\ r.payload = x /\ r.command \in DataCommands
                           /\ Outgoing(e) = Outgoing(c) \cup {r}
    BY <1>1, SupplyDataAdds
  <2>2. /\ e \in Controller /\ SameMachine(c, e) /\ SameRead(c, e)
        /\ e.saw = c.saw /\ e.cache = c.cache
    BY <1>1, SupplyDataAdds
  <2>3. d = SetLine(e, x, "S") /\ "S" \in MESI
    BY <1>2 DEF HandleBusRead, MESI
  <2> HIDE DEF e
  <2>4. /\ d \in Controller /\ SameMachine(e, d) /\ SameRead(e, d)
        /\ d.saw = e.saw /\ d.maxPriorityQueue = e.maxPriorityQueue
        /\ d.cache = [e.cache EXCEPT ![x] = "S"]
    BY <1>1, <2>2, <2>3, SetLineSets
  <2>5. Outgoing(d) = Outgoing(c) \cup {r}
    BY <2>1, <2>4 DEF Outgoing
  <2>6. Hits(c, m) /\ ~Notes(c, m) /\ ~Answers(c, line, m) /\ Lowered(m) = "S"
    BY <1>2 DEF Hits, Notes, Answers, AskingCommands, AnsweringCommands, Lowered
  <2>7. AcceptedFields(c, line, m, d) /\ SameMachine(c, d)
    BY <2>2, <2>4, <2>6 DEF AcceptedFields, SameMachine, SameRead, Controller
  <2>8. AcceptedRequests(c, m, d)
    BY <2>1, <2>5, <2>6 DEF AcceptedRequests, Tells
  <2> QED BY <2>4, <2>7, <2>8 DEF Accepted
<1>3. CASE ~Contains(c, x) /\ AwaitsLocally(c, x)
  <2> DEFINE e == Saw(c, "BUSREAD")
             r == Request("SHAREME", x)
  <2>1. /\ e \in Controller /\ SameMachine(c, e) /\ SameRead(c, e)
        /\ e.saw = c.saw \cup {"BUSREAD"} /\ e.maxPriorityQueue = c.maxPriorityQueue
        /\ e.cache = c.cache
    BY SawAdds
  <2>2. d = AddNewMaxPriorityBusRequest(e, "SHAREME", x) /\ "SHAREME" \in Commands
    BY <1>3 DEF HandleBusRead, Commands
  <2> HIDE DEF e
  <2>3. /\ d \in Controller /\ SameMachine(e, d) /\ SameRead(e, d)
        /\ d.saw = e.saw /\ d.cache = e.cache /\ Outgoing(d) = Outgoing(e) \cup {r}
    BY <1>1, <2>1, <2>2, AddNewMaxPriorityAdds
  <2>4. Outgoing(e) = Outgoing(c)
    BY <2>1 DEF Outgoing
  <2>5. ~Hits(c, m) /\ Notes(c, m) /\ ~Answers(c, line, m) /\ Noted(m) = "BUSREAD"
    BY <1>3 DEF Hits, Notes, Answers, AskingCommands, AnsweringCommands, Noted
  <2>6. AcceptedFields(c, line, m, d) /\ SameMachine(c, d)
    BY <2>1, <2>3, <2>5 DEF AcceptedFields, SameMachine, SameRead, Controller
  <2>7. r.payload = x /\ r.command = "SHAREME"
    BY <1>1, <2>2, RequestFields
  <2> HIDE DEF r
  <2>8. AcceptedRequests(c, m, d)
    BY <2>3, <2>4, <2>5, <2>7 DEF AcceptedRequests, Tells
  <2> QED BY <2>3, <2>6, <2>8 DEF Accepted
<1>4. CASE ~Contains(c, x) /\ ~AwaitsLocally(c, x)
  <2>1. d = c
    BY <1>4 DEF HandleBusRead
  <2>2. ~Hits(c, m) /\ ~Notes(c, m) /\ ~Answers(c, line, m)
    BY <1>4 DEF Hits, Notes, Answers, AnsweringCommands
  <2> QED BY <2>1, <2>2 DEF Accepted, AcceptedFields, AcceptedRequests, SameMachine, Controller
<1> QED BY <1>2, <1>3, <1>4

LEMMA BusReadXAccepted ==
  ASSUME NEW c \in Controller, NEW line, NEW m \in BusRequest, m.command = "BUSREADX",
         NEW d, d = HandleBusReadX(c, m.payload)
  PROVE  Accepted(c, line, m, d)
<1> DEFINE x == m.payload
<1>1. x \in Addrs
  BY DEF BusRequest
<1>2. CASE Contains(c, x)
  <2> DEFINE e == SupplyData(c, x)
  <2>1. PICK r \in Queued : /\ r.payload = x /\ r.command \in DataCommands
                           /\ Outgoing(e) = Outgoing(c) \cup {r}
    BY <1>1, SupplyDataAdds
  <2>2. /\ e \in Controller /\ SameMachine(c, e) /\ SameRead(c, e)
        /\ e.saw = c.saw /\ e.cache = c.cache
    BY <1>1, SupplyDataAdds
  <2>3. d = SetLine(e, x, "I") /\ "I" \in MESI
    BY <1>2 DEF HandleBusReadX, Invalidate, MESI
  <2> HIDE DEF e
  <2>4. /\ d \in Controller /\ SameMachine(e, d) /\ SameRead(e, d)
        /\ d.saw = e.saw /\ d.maxPriorityQueue = e.maxPriorityQueue
        /\ d.cache = [e.cache EXCEPT ![x] = "I"]
    BY <1>1, <2>2, <2>3, SetLineSets
  <2>5. Outgoing(d) = Outgoing(c) \cup {r}
    BY <2>1, <2>4 DEF Outgoing
  <2>6. Hits(c, m) /\ ~Notes(c, m) /\ ~Answers(c, line, m) /\ Lowered(m) = "I"
    BY <1>2 DEF Hits, Notes, Answers, AskingCommands, AnsweringCommands, Lowered
  <2>7. AcceptedFields(c, line, m, d) /\ SameMachine(c, d)
    BY <2>2, <2>4, <2>6 DEF AcceptedFields, SameMachine, SameRead, Controller
  <2>8. AcceptedRequests(c, m, d)
    BY <2>1, <2>5, <2>6 DEF AcceptedRequests
  <2> QED BY <2>4, <2>7, <2>8 DEF Accepted
<1>3. CASE ~Contains(c, x) /\ AwaitsLocally(c, x)
  <2>1. d = Saw(c, "BUSREADX")
    BY <1>3 DEF HandleBusReadX
  <2>2. /\ d \in Controller /\ SameMachine(c, d) /\ SameRead(c, d)
        /\ d.saw = c.saw \cup {"BUSREADX"} /\ d.maxPriorityQueue = c.maxPriorityQueue
        /\ d.cache = c.cache
    BY <2>1, SawAdds
  <2>3. ~Hits(c, m) /\ Notes(c, m) /\ ~Answers(c, line, m) /\ Noted(m) = "BUSREADX"
    BY <1>3 DEF Hits, Notes, Answers, AskingCommands, AnsweringCommands, Noted
  <2>4. AcceptedFields(c, line, m, d)
    BY <2>2, <2>3 DEF AcceptedFields, SameRead, Controller
  <2>5. AcceptedRequests(c, m, d)
    BY <2>2 DEF AcceptedRequests, Outgoing
  <2> QED BY <2>2, <2>4, <2>5 DEF Accepted
<1>4. CASE ~Contains(c, x) /\ ~AwaitsLocally(c, x)
  <2>1. d = c
    BY <1>4 DEF HandleBusReadX
  <2>2. ~Hits(c, m) /\ ~Notes(c, m) /\ ~Answers(c, line, m)
    BY <1>4 DEF Hits, Notes, Answers, AnsweringCommands
  <2> QED BY <2>1, <2>2 DEF Accepted, AcceptedFields, AcceptedRequests, SameMachine, Controller
<1> QED BY <1>2, <1>3, <1>4

LEMMA InvalidateAccepted ==
  ASSUME NEW c \in Controller, NEW line, NEW m \in BusRequest, m.command = "INVALIDATE",
         NEW d, d = HandleInvalidate(c, m.payload)
  PROVE  Accepted(c, line, m, d)
<1> DEFINE x == m.payload
<1>1. x \in Addrs
  BY DEF BusRequest
<1>2. CASE Contains(c, x)
  <2> DEFINE r == Request("BUSWRITE", x)
             e == IF c.cache[x] = "M" THEN AddNewMaxPriorityBusRequest(c, "BUSWRITE", x) ELSE c
  <2>1. "BUSWRITE" \in Commands /\ "BUSWRITE" \in DataCommands
    BY DEF Commands, DataCommands
  <2>2. r.payload = x /\ r.command \in DataCommands
    BY <1>1, <2>1, RequestFields
  <2>3. /\ e \in Controller /\ SameMachine(c, e) /\ SameRead(c, e)
        /\ e.saw = c.saw /\ e.cache = c.cache
        /\ Outgoing(e) = Outgoing(c) \/ Outgoing(e) = Outgoing(c) \cup {r}
    <3>1. CASE c.cache[x] = "M"
      BY <1>1, <2>1, <3>1, AddNewMaxPriorityAdds
    <3>2. CASE c.cache[x] # "M"
      BY <3>2 DEF SameMachine, SameRead
    <3> QED BY <3>1, <3>2
  <2>4. d = SetLine(e, x, "I") /\ "I" \in MESI
    BY <1>2 DEF HandleInvalidate, Invalidate, MESI
  <2> HIDE DEF e, r
  <2>5. /\ d \in Controller /\ SameMachine(e, d) /\ SameRead(e, d)
        /\ d.saw = e.saw /\ d.maxPriorityQueue = e.maxPriorityQueue
        /\ d.cache = [e.cache EXCEPT ![x] = "I"]
    BY <1>1, <2>3, <2>4, SetLineSets
  <2>6. Outgoing(d) = Outgoing(e)
    BY <2>5 DEF Outgoing
  <2>7. Hits(c, m) /\ ~Notes(c, m) /\ ~Answers(c, line, m) /\ Lowered(m) = "I"
    BY <1>2 DEF Hits, Notes, Answers, AskingCommands, AnsweringCommands, Lowered
  <2>8. AcceptedFields(c, line, m, d) /\ SameMachine(c, d)
    BY <2>3, <2>5, <2>7 DEF AcceptedFields, SameMachine, SameRead, Controller
  <2>9. AcceptedRequests(c, m, d)
    BY <2>2, <2>3, <2>6, <2>7 DEF AcceptedRequests
  <2> QED BY <2>5, <2>8, <2>9 DEF Accepted
<1>3. CASE ~Contains(c, x) /\ AwaitsLocally(c, x)
  <2>1. d = Saw(c, "INVALIDATE")
    BY <1>3 DEF HandleInvalidate
  <2>2. /\ d \in Controller /\ SameMachine(c, d) /\ SameRead(c, d)
        /\ d.saw = c.saw \cup {"INVALIDATE"} /\ d.maxPriorityQueue = c.maxPriorityQueue
        /\ d.cache = c.cache
    BY <2>1, SawAdds
  <2>3. ~Hits(c, m) /\ Notes(c, m) /\ ~Answers(c, line, m) /\ Noted(m) = "INVALIDATE"
    BY <1>3 DEF Hits, Notes, Answers, AskingCommands, AnsweringCommands, Noted
  <2>4. AcceptedFields(c, line, m, d)
    BY <2>2, <2>3 DEF AcceptedFields, SameRead, Controller
  <2>5. AcceptedRequests(c, m, d)
    BY <2>2 DEF AcceptedRequests, Outgoing
  <2> QED BY <2>2, <2>4, <2>5 DEF Accepted
<1>4. CASE ~Contains(c, x) /\ ~AwaitsLocally(c, x)
  <2>1. d = c
    BY <1>4 DEF HandleInvalidate
  <2>2. ~Hits(c, m) /\ ~Notes(c, m) /\ ~Answers(c, line, m)
    BY <1>4 DEF Hits, Notes, Answers, AnsweringCommands
  <2> QED BY <2>1, <2>2 DEF Accepted, AcceptedFields, AcceptedRequests, SameMachine, Controller
<1> QED BY <1>2, <1>3, <1>4

LEMMA ShareMeAccepted ==
  ASSUME NEW c \in Controller, NEW line, NEW m \in BusRequest, m.command = "SHAREME",
         NEW d, d = HandleShareMe(c, m.payload)
  PROVE  Accepted(c, line, m, d)
<1> DEFINE x == m.payload
<1>1. x \in Addrs /\ ~Answers(c, line, m) /\ Lowered(m) = "S" /\ Noted(m) = "BUSREAD"
  BY DEF BusRequest, Answers, AnsweringCommands, Lowered, Noted
<1>2. CASE Contains(c, x)
  <2>1. d = SetLine(c, x, "S") /\ "S" \in MESI
    BY <1>2 DEF HandleShareMe, MESI
  <2>2. /\ d \in Controller /\ SameMachine(c, d) /\ SameRead(c, d)
        /\ d.saw = c.saw /\ d.maxPriorityQueue = c.maxPriorityQueue
        /\ d.cache = [c.cache EXCEPT ![x] = "S"]
    BY <1>1, <2>1, SetLineSets
  <2>3. Hits(c, m) /\ ~Notes(c, m)
    BY <1>2 DEF Hits, Notes, AskingCommands
  <2>4. AcceptedFields(c, line, m, d)
    BY <1>1, <2>2, <2>3 DEF AcceptedFields, SameRead, Controller
  <2>5. AcceptedRequests(c, m, d)
    BY <2>2 DEF AcceptedRequests, Outgoing
  <2> QED BY <2>2, <2>4, <2>5 DEF Accepted
<1>3. CASE ~Contains(c, x) /\ AwaitsLocally(c, x)
  <2>1. d = Saw(c, "BUSREAD")
    BY <1>3 DEF HandleShareMe
  <2>2. /\ d \in Controller /\ SameMachine(c, d) /\ SameRead(c, d)
        /\ d.saw = c.saw \cup {"BUSREAD"} /\ d.maxPriorityQueue = c.maxPriorityQueue
        /\ d.cache = c.cache
    BY <2>1, SawAdds
  <2>3. ~Hits(c, m) /\ Notes(c, m)
    BY <1>3 DEF Hits, Notes, AskingCommands
  <2>4. AcceptedFields(c, line, m, d)
    BY <1>1, <2>2, <2>3 DEF AcceptedFields, SameRead, Controller
  <2>5. AcceptedRequests(c, m, d)
    BY <2>2 DEF AcceptedRequests, Outgoing
  <2> QED BY <2>2, <2>4, <2>5 DEF Accepted
<1>4. CASE ~Contains(c, x) /\ ~AwaitsLocally(c, x)
  <2>1. d = c
    BY <1>4 DEF HandleShareMe
  <2>2. ~Hits(c, m) /\ ~Notes(c, m)
    BY <1>4 DEF Hits, Notes
  <2> QED BY <1>1, <2>1, <2>2 DEF Accepted, AcceptedFields, AcceptedRequests, SameMachine, Controller
<1> QED BY <1>2, <1>3, <1>4

(* The three answers. NoReplyAmongReads: busReqQueue only ever holds reads.*)
NoReplyAmongReads(c) == \A x \in Addrs : Matches(c.busReqQueue, "DATA_RETURN_PROCESSOR", x) = {}

LEMMA AnswerAccepted ==
  ASSUME NEW c \in Controller, NEW line, NEW m \in BusRequest, NoReplyAmongReads(c),
         m.command \in AnsweringCommands, NEW d, d = MESI_Accept(c, line, m)
  PROVE  Accepted(c, line, m, d)
<1> DEFINE x == m.payload
           e == IF AwaitingDataRemote(c, line, x) THEN DataArrived(c, Origin(m)) ELSE c
<1>1. x \in Addrs /\ Origin(m) \in {"memory", "processor", "writeback"}
  BY DEF BusRequest, Origin, AnsweringCommands
<1>2. ~Hits(c, m) /\ ~Notes(c, m) /\ (Answers(c, line, m) <=> AwaitingDataRemote(c, line, x))
  BY DEF Hits, Notes, Answers, AskingCommands, AnsweringCommands
<1>3. e \in Controller /\ SameMachine(c, e) /\ AcceptedFields(c, line, m, e) /\ Outgoing(e) = Outgoing(c)
  <2>1. CASE AwaitingDataRemote(c, line, x)
    <3>1. e = DataArrived(c, Origin(m))
      BY <2>1
    <3> HIDE DEF e
    <3>2. PICK from \in {"memory", "processor", "writeback"} : from = Origin(m)
      BY <1>1
    <3>3. /\ e \in Controller /\ SameMachine(c, e)
          /\ e.saw = c.saw /\ e.maxPriorityQueue = c.maxPriorityQueue /\ e.cache = c.cache
          /\ ~e.awaitingBusRead /\ e.awaitingDataLocal = NoAddr
          /\ e.got = c.got \cup {from}
      BY <3>1, <3>2, DataArrivedSets
    <3> QED BY <1>2, <2>1, <3>2, <3>3 DEF AcceptedFields, Outgoing
  <2>2. CASE ~AwaitingDataRemote(c, line, x)
    <3>1. e = c
      BY <2>2
    <3> HIDE DEF e
    <3> QED BY <1>2, <2>2, <3>1 DEF AcceptedFields, SameMachine, Controller
  <2> QED BY <2>1, <2>2
<1>4. CASE m.command = "BUSWRITE"
  <2>1. d = e
    BY <1>4 DEF MESI_Accept, HandleBusWrite, Origin
  <2>2. AcceptedRequests(c, m, d)
    BY <1>3, <1>4, <2>1 DEF AcceptedRequests
  <2> QED BY <1>3, <2>1, <2>2 DEF Accepted
<1>5. CASE m.command \in {"DATA_RETURN_MEMORY", "DATA_RETURN_PROCESSOR"}
  <2>1. d = CancelBusRequest(e, "DATA_RETURN_PROCESSOR", x)
    BY <1>5 DEF MESI_Accept, HandleDataReturnMemory, HandleDataReturnProcessor, HandleDataReturn, Origin
  <2> HIDE DEF e
  <2>2. Matches(e.busReqQueue, "DATA_RETURN_PROCESSOR", x) = {}
    BY <1>1, <1>3 DEF NoReplyAmongReads, SameMachine
  <2>3. /\ d \in Controller /\ SameMachine(e, d) /\ SameRead(e, d)
        /\ d.saw = e.saw /\ d.cache = e.cache
        /\ Outgoing(d) \subseteq Outgoing(e)
        /\ \A r \in Outgoing(e) : r \in Outgoing(d) \/ (r.command = "DATA_RETURN_PROCESSOR" /\ r.payload = x)
    BY <1>1, <1>3, <2>1, <2>2, CancelDrops
  <2>4. AcceptedFields(c, line, m, d) /\ SameMachine(c, d)
    BY <1>3, <2>3 DEF AcceptedFields, SameMachine, SameRead
  <2>5. AcceptedRequests(c, m, d)
    BY <1>3, <1>5, <2>3 DEF AcceptedRequests
  <2> QED BY <2>3, <2>4, <2>5 DEF Accepted
<1> QED BY <1>4, <1>5 DEF AnsweringCommands

(* An MI controller sees no BUSREAD, INVALIDATE or SHAREME, and does with  *)
(* the rest what the others do (MI_Controller.cpp:312-378).                *)
OnMIBus(m) == ControllerType = "MI" => m.command \notin {"BUSREAD", "INVALIDATE", "SHAREME"}

LEMMA AcceptAccepts ==
  ASSUME NEW c \in Controller, NEW line, NEW m \in BusRequest, NoReplyAmongReads(c), OnMIBus(m)
  PROVE  Accepted(c, line, m, Accept(c, line, m))
<1> DEFINE d == MESI_Accept(c, line, m)
<1>1. m.command \in Commands
  BY DEF BusRequest
<1>2. Accept(c, line, m) = d
  BY <1>1 DEF Accept, MI_Accept, MESI_Accept, OnMIBus, Commands
<1>3. CASE m.command = "BUSREAD"
  <2>1. d = HandleBusRead(c, m.payload)
    BY <1>3 DEF MESI_Accept
  <2> QED BY <1>2, <1>3, <2>1, BusReadAccepted
<1>4. CASE m.command = "BUSREADX"
  <2>1. d = HandleBusReadX(c, m.payload)
    BY <1>4 DEF MESI_Accept
  <2> QED BY <1>2, <1>4, <2>1, BusReadXAccepted
<1>5. CASE m.command = "INVALIDATE"
  <2>1. d = HandleInvalidate(c, m.payload)
    BY <1>5 DEF MESI_Accept
  <2> QED BY <1>2, <1>5, <2>1, InvalidateAccepted
<1>6. CASE m.command = "SHAREME"
  <2>1. d = HandleShareMe(c, m.payload)
    BY <1>6 DEF MESI_Accept
  <2> QED BY <1>2, <1>6, <2>1, ShareMeAccepted
<1>7. CASE m.command \in AnsweringCommands
  BY <1>2, <1>7, AnswerAccepted
<1>8. CASE m.command = "NULL_BURST"
  <2>1. d = c
    BY <1>8 DEF MESI_Accept
  <2>2. ~Hits(c, m) /\ ~Notes(c, m) /\ ~Answers(c, line, m)
    BY <1>8 DEF Hits, Notes, Answers, AskingCommands, AnsweringCommands
  <2> HIDE DEF d
  <2> QED BY <1>2, <1>8, <2>1, <2>2 DEF Accepted, AcceptedFields, AcceptedRequests, SameMachine, Controller
<1> QED BY <1>1, <1>3, <1>4, <1>5, <1>6, <1>7, <1>8 DEF Commands, AnsweringCommands

-----------------------------------------------------------------------------
(* A transaction on the bus, in the terms of the invariant.                *)

LEMMA ReadsAreNoReplies ==
  ASSUME NEW c \in Controller, NEW line, InPhase(c, line)
  PROVE  NoReplyAmongReads(c)
<1>1. CASE c.busReqQueue = <<>>
  BY <1>1 DEF NoReplyAmongReads, Matches
<1>2. CASE c.busReqQueue # <<>>
  <2>1. c.busReqQueue = <<[command |-> ReadOf(c), payload |-> line]>>
    BY <1>2 DEF InPhase, Quiet, ReadQueued, ReadDispatched, ReadArrived
  <2>2. ReadOf(c) # "DATA_RETURN_PROCESSOR"
    BY DEF ReadOf, ReadCommand
  <2> QED BY <2>1, <2>2 DEF NoReplyAmongReads, Matches
<1> QED BY <1>1, <1>2

LEMMA AcceptKeepsPhase ==
  ASSUME NEW c \in Controller, NEW line, NEW m \in BusRequest, NEW d,
         InPhase(c, line), ~ReadArrived(c), Accepted(c, line, m, d)
  PROVE  InPhase(d, line)
<1>1. m.payload \in Addrs /\ m.payload # NoAddr
  BY NoAddrAssumption DEF BusRequest
<1>2. SameMachine(c, d) /\ AcceptedFields(c, line, m, d) /\ d \in Controller
  BY DEF Accepted
<1>3. c.cache \in [Addrs -> MESI]
  BY DEF Controller
<1>4. CASE c.state \in IssueStates
  <2>1. /\ c.queuedBusRead /\ line \in Addrs /\ c.cache[line] = "I"
        /\ ReadQueued(c, line) \/ ReadDispatched(c, line)
    BY <1>4 DEF InPhase
  <2>2. d.state \in IssueStates /\ d.queuedBusRead /\ d.state # "IDLE"
    BY <1>2, <1>4, <2>1 DEF SameMachine, IssueStates
  <2>3. d.cache[line] = "I"
    BY <1>1, <1>2, <1>3, <2>1 DEF AcceptedFields, Hits, Contains
  <2>4. CASE ReadQueued(c, line)
    <3>1. ~Answers(c, line, m)
      BY <2>4 DEF ReadQueued, Answers, AwaitingDataRemote
    <3>2. ReadQueued(d, line)
      BY <1>2, <2>4, <3>1 DEF ReadQueued, SameMachine, AcceptedFields, ReadOf
    <3> QED BY <2>1, <2>2, <2>3, <3>2 DEF InPhase
  <2>5. CASE ReadDispatched(c, line) /\ ~Answers(c, line, m)
    <3>1. ReadDispatched(d, line)
      BY <1>2, <2>5 DEF ReadDispatched, SameMachine, AcceptedFields
    <3> QED BY <2>1, <2>2, <2>3, <3>1 DEF InPhase
  <2>6. CASE ReadDispatched(c, line) /\ Answers(c, line, m)
    <3>1. ReadArrived(d)
      BY <1>2, <2>2, <2>6 DEF ReadDispatched, ReadArrived, Quiet, SameMachine, AcceptedFields
    <3> QED BY <2>1, <2>2, <2>3, <3>1 DEF InPhase
  <2> QED BY <2>1, <2>4, <2>5, <2>6
<1>5. CASE c.state \notin IssueStates
  <2>1. Quiet(c) /\ ~Answers(c, line, m) /\ ~Notes(c, m)
    BY <1>1, <1>5 DEF InPhase, Quiet, Answers, AwaitingDataRemote, Notes, AwaitsLocally
  <2>2. Quiet(d) /\ d.state = c.state /\ d.got = c.got /\ d.saw = c.saw
        /\ d.queuedBusRead = c.queuedBusRead
    BY <1>2, <2>1 DEF Quiet, SameMachine, AcceptedFields
  <2> QED BY <1>5, <2>2 DEF InPhase
<1> QED BY <1>4, <1>5

LEMMA AcceptKeepsProtocol ==
  ASSUME NEW c \in Controller, NEW line, NEW m \in BusRequest, NEW d,
         InProtocol(c), OnMIBus(m), Accepted(c, line, m, d)
  PROVE  InProtocol(d)
<1>1. AcceptedFields(c, line, m, d) /\ AcceptedRequests(c, m, d) /\ m.payload \in Addrs
  BY DEF Accepted, BusRequest
<1>2. c.cache \in [Addrs -> MESI]
  BY DEF Controller
<1>3. ASSUME NEW r \in Outgoing(d)
      PROVE  /\ r.command \in DataCommands \cup {"INVALIDATE", "SHAREME"}
             /\ ControllerType = "MI" => r.command \in DataCommands
  <2>1. CASE r \in Outgoing(c)
    BY <2>1 DEF InProtocol
  <2>2. CASE r \notin Outgoing(c)
    BY <1>1, <1>3, <2>2 DEF AcceptedRequests, OnMIBus
  <2> QED BY <2>1, <2>2
<1>4. ControllerType = "MI" => d.saw \subseteq {"BUSREADX"}
  <2> SUFFICES ASSUME ControllerType = "MI" PROVE d.saw \subseteq {"BUSREADX"}
    OBVIOUS
  <2>1. Notes(c, m) => Noted(m) = "BUSREADX"
    BY DEF Notes, Noted, AskingCommands, OnMIBus
  <2>2. c.saw \subseteq {"BUSREADX"}
    BY DEF InProtocol
  <2> QED BY <1>1, <2>1, <2>2 DEF AcceptedFields
<1>5. ControllerType = "MI" => (Hits(c, m) => Lowered(m) = "I")
  BY DEF Hits, Lowered, AskingCommands, OnMIBus
<1>6. \A x \in Addrs : d.cache[x] = c.cache[x] \/ d.cache[x] = Lowered(m)
  BY <1>1, <1>2 DEF AcceptedFields
<1>7. \A x \in Addrs : d.cache[x] # c.cache[x] => Hits(c, m)
  BY <1>1 DEF AcceptedFields
<1>8. ControllerType = "MI" => \A x \in Addrs : d.cache[x] \in {"M", "I"}
  BY <1>5, <1>6, <1>7 DEF InProtocol
<1>9. ControllerType = "MSI" => \A x \in Addrs : d.cache[x] # "E"
  BY <1>6 DEF InProtocol, Lowered
<1> QED BY <1>3, <1>4, <1>8, <1>9 DEF InProtocol

-----------------------------------------------------------------------------
(* Claims.                                                                 *)

AnswerClaim(m) ==
  IF m.command = "DATA_RETURN_MEMORY" /\ ControllerType = "MESI" THEN "E" ELSE "S"

LEMMA ReadClaimValues ==
  ASSUME NEW c \in Controller
  PROVE  /\ Exclusively(c) /\ c.saw = {} => ReadClaim(c) = "M"
         /\ Exclusively(c) /\ c.saw # {} => ReadClaim(c) = "I"
         /\ ~Exclusively(c) /\ c.saw \cap {"BUSREADX", "INVALIDATE"} # {} => ReadClaim(c) = "I"
         /\ ~Exclusively(c) /\ c.saw = {"BUSREAD"} => ReadClaim(c) = "S"
         /\ ~Exclusively(c) /\ c.saw = {} /\ c.awaitingBusRead => ReadClaim(c) = "?"
         /\ ~Exclusively(c) /\ c.saw = {} /\ ~c.awaitingBusRead =>
              ReadClaim(c) = IF "memory" \in c.got /\ ControllerType = "MESI" THEN "E" ELSE "S"
         /\ c.saw = {} \/ c.saw = {"BUSREAD"} \/ c.saw \cap {"BUSREADX", "INVALIDATE"} # {}
         /\ ReadClaim(c) \in {"M", "E", "S", "I", "?"}
<1>1. c.saw \subseteq {"BUSREAD", "BUSREADX", "INVALIDATE"}
  BY DEF Controller
<1>2. c.saw = {} \/ c.saw = {"BUSREAD"} \/ c.saw \cap {"BUSREADX", "INVALIDATE"} # {}
  BY <1>1
<1>3. c.saw = {"BUSREAD"} => c.saw # {} /\ c.saw \cap {"BUSREADX", "INVALIDATE"} = {}
  OBVIOUS
<1> QED BY <1>2, <1>3 DEF ReadClaim

(* The claim of a controller on a line, by what it has and awaits.         *)
LEMMA ClaimCases ==
  ASSUME NEW c \in Controller, NEW line, NEW x \in Addrs, InPhase(c, line)
  PROVE  /\ c.cache[x] # "I" => ClaimOf(c, line, x) = c.cache[x] /\ ~Reading(c, line, x)
         /\ Reading(c, line, x) => ClaimOf(c, line, x) = ReadClaim(c) /\ c.cache[x] = "I" /\ x = line
         /\ c.cache[x] = "I" /\ ~Reading(c, line, x) => ClaimOf(c, line, x) = "I"
         /\ Reading(c, line, x) /\ ~ReadArrived(c) => ReadDispatched(c, line)
         /\ ClaimOf(c, line, x) \in {"M", "E", "S", "I", "?"}
<1>1. c.cache[x] \in MESI
  BY DEF Controller
<1>2. Reading(c, line, x) => c.cache[x] = "I" /\ x = line
  BY DEF Reading, InPhase
<1>3. Reading(c, line, x) /\ ~ReadArrived(c) => ReadDispatched(c, line)
  BY DEF Reading, InPhase, ReadQueued
<1> QED BY <1>1, <1>2, <1>3, ReadClaimValues DEF ClaimOf, MESI

LEMMA AcceptClaims ==
  ASSUME NEW c \in Controller, NEW line, NEW m \in BusRequest, NEW d, NEW x \in Addrs,
         InPhase(c, line), ~ReadArrived(c), Accepted(c, line, m, d)
  PROVE  /\ x # m.payload \/ m.command = "NULL_BURST" => ClaimOf(d, line, x) = ClaimOf(c, line, x)
         /\ ClaimOf(c, line, x) = "I" => ClaimOf(d, line, x) = "I"
         /\ x = m.payload /\ m.command \in {"BUSREAD", "SHAREME"} => ClaimOf(d, line, x) \in {"S", "I"}
         /\ x = m.payload /\ m.command \in {"BUSREADX", "INVALIDATE"} => ClaimOf(d, line, x) = "I"
         /\ x = m.payload /\ m.command \in AnsweringCommands =>
              ClaimOf(d, line, x) = IF ClaimOf(c, line, x) = "?" THEN AnswerClaim(m) ELSE ClaimOf(c, line, x)
         /\ x = m.payload /\ m.command = "BUSREAD" /\ ClaimOf(c, line, x) # "I" => Tells(d, x)
<1>1. /\ d \in Controller /\ SameMachine(c, d) /\ AcceptedFields(c, line, m, d)
      /\ AcceptedRequests(c, m, d) /\ InPhase(d, line) /\ m.command \in Commands
  BY AcceptKeepsPhase DEF Accepted, BusRequest
<1>2. /\ Reading(d, line, x) <=> Reading(c, line, x)
      /\ Exclusively(d) <=> Exclusively(c)
  BY <1>1 DEF Reading, Exclusively, SameMachine
<1>3. c.cache \in [Addrs -> MESI]
  BY DEF Controller
<1>4. CASE c.cache[x] # "I"
  <2>1. ClaimOf(c, line, x) = c.cache[x] /\ ~Reading(d, line, x) /\ c.cache[x] \in {"M", "E", "S"}
    BY <1>2, <1>3, <1>4, ClaimCases DEF MESI
  <2>2. ClaimOf(d, line, x) = d.cache[x]
    BY <1>1, <2>1 DEF ClaimOf
  <2>3. d.cache[x] = IF x = m.payload /\ m.command \in AskingCommands THEN Lowered(m) ELSE c.cache[x]
    BY <1>1, <1>3, <1>4 DEF AcceptedFields, Hits, Contains
  <2>4. x = m.payload /\ m.command = "BUSREAD" => Tells(d, x)
    BY <1>1, <1>4 DEF AcceptedRequests, Hits, Contains, AskingCommands
  <2> QED BY <1>1, <2>1, <2>2, <2>3, <2>4 DEF Lowered, AskingCommands, AnsweringCommands
<1>5. CASE c.cache[x] = "I" /\ ~Reading(c, line, x)
  <2>1. ClaimOf(c, line, x) = "I"
    BY <1>5, ClaimCases
  <2>2. d.cache[x] = "I"
    BY <1>1, <1>3, <1>5 DEF AcceptedFields, Hits, Contains
  <2>3. ClaimOf(d, line, x) = "I"
    BY <1>1, <1>2, <1>5, <2>2 DEF ClaimOf
  <2> QED BY <2>1, <2>3
<1>6. CASE Reading(c, line, x)
  <2>1. /\ ClaimOf(c, line, x) = ReadClaim(c) /\ ClaimOf(d, line, x) = ReadClaim(d)
        /\ ReadDispatched(c, line) /\ x = line /\ c.cache[x] = "I"
    BY <1>1, <1>2, <1>6, ClaimCases
  <2>2. /\ Notes(c, m) <=> x = m.payload /\ m.command \in AskingCommands
        /\ Answers(c, line, m) <=> x = m.payload /\ m.command \in AnsweringCommands
    BY <2>1 DEF ReadDispatched, Notes, Answers, AwaitsLocally, AwaitingDataRemote, Contains
  <2>3. CASE x # m.payload \/ m.command = "NULL_BURST"
    <3>1. ~Notes(c, m) /\ ~Answers(c, line, m)
      BY <2>2, <2>3 DEF AskingCommands, AnsweringCommands
    <3>2. d.saw = c.saw /\ d.got = c.got /\ (d.awaitingBusRead <=> c.awaitingBusRead)
      BY <1>1, <3>1 DEF AcceptedFields
    <3>3. ReadClaim(d) = ReadClaim(c)
      BY <1>1, <1>2, <3>2, ReadClaimValues
    <3> QED BY <2>1, <2>3, <3>3 DEF AskingCommands, AnsweringCommands
  <2>4. CASE x = m.payload /\ m.command \in AskingCommands
    <3>1. d.saw = c.saw \cup {Noted(m)}
      BY <1>1, <2>2, <2>4 DEF AcceptedFields
    <3>2. Noted(m) = IF m.command \in {"BUSREAD", "SHAREME"} THEN "BUSREAD" ELSE m.command
      BY DEF Noted
    <3>3. d.saw # {}
      BY <3>1
    <3>4. ReadClaim(d) \in {"S", "I"}
      BY <1>1, <3>3, ReadClaimValues
    <3>5. m.command \in {"BUSREADX", "INVALIDATE"} => ReadClaim(d) = "I"
      <4> SUFFICES ASSUME m.command \in {"BUSREADX", "INVALIDATE"} PROVE ReadClaim(d) = "I"
        OBVIOUS
      <4>1. d.saw \cap {"BUSREADX", "INVALIDATE"} # {}
        BY <3>1, <3>2
      <4> QED BY <1>1, <3>3, <4>1, ReadClaimValues
    <3>6. ReadClaim(c) = "I" => ReadClaim(d) = "I"
      <4> SUFFICES ASSUME ReadClaim(c) = "I" PROVE ReadClaim(d) = "I"
        OBVIOUS
      <4>1. CASE Exclusively(c)
        BY <1>1, <1>2, <3>3, <4>1, ReadClaimValues
      <4>2. CASE ~Exclusively(c)
        <5>1. c.saw \cap {"BUSREADX", "INVALIDATE"} # {}
          BY <2>1, <4>2, ReadClaimValues DEF ReadDispatched
        <5>2. d.saw \cap {"BUSREADX", "INVALIDATE"} # {}
          BY <3>1, <5>1
        <5> QED BY <1>1, <1>2, <4>2, <5>2, ReadClaimValues
      <4> QED BY <4>1, <4>2
    <3>7. m.command = "BUSREAD" => Tells(d, x)
      BY <1>1, <2>2, <2>4 DEF AcceptedRequests
    <3> QED BY <2>1, <2>4, <3>4, <3>5, <3>6, <3>7 DEF AskingCommands, AnsweringCommands
  <2>5. CASE x = m.payload /\ m.command \in AnsweringCommands
    <3>1. d.saw = c.saw /\ ~d.awaitingBusRead /\ d.got = {Origin(m)} /\ c.awaitingBusRead
      <4>1. Answers(c, line, m) /\ ~Notes(c, m)
        BY <2>2, <2>5 DEF AskingCommands, AnsweringCommands
      <4>2. c.got = {} /\ c.awaitingBusRead
        BY <2>1 DEF ReadDispatched
      <4>3. d.got = c.got \cup {Origin(m)} /\ d.saw = c.saw /\ ~d.awaitingBusRead
        BY <1>1, <4>1 DEF AcceptedFields
      <4> QED BY <4>2, <4>3
    <3>2. "memory" \in d.got <=> m.command = "DATA_RETURN_MEMORY"
      BY <2>5, <3>1 DEF Origin, AnsweringCommands
    <3>3. ReadClaim(d) = IF ReadClaim(c) = "?" THEN AnswerClaim(m) ELSE ReadClaim(c)
      <4>1. CASE ~Exclusively(c) /\ c.saw = {}
        BY <1>1, <1>2, <3>1, <3>2, <4>1, ReadClaimValues DEF AnswerClaim
      <4>2. CASE Exclusively(c) \/ c.saw # {}
        BY <1>1, <1>2, <3>1, <4>2, ReadClaimValues
      <4> QED BY <4>1, <4>2
    <3> QED BY <2>1, <2>5, <3>3 DEF AskingCommands, AnsweringCommands
  <2> QED BY <1>1, <2>3, <2>4, <2>5 DEF Commands, AskingCommands, AnsweringCommands
<1> QED BY <1>4, <1>5, <1>6

LEMMA AcceptKeepsOwnAnswer ==
  ASSUME NEW c \in Controller, NEW line, NEW m \in BusRequest, NEW d,
         InPhase(c, line), ~ReadArrived(c), NotItsOwnAnswer(c, line), Accepted(c, line, m, d)
  PROVE  NotItsOwnAnswer(d, line)
<1> SUFFICES ASSUME d.awaitingBusRead, NEW r \in Outgoing(d), r.payload = line
             PROVE  r.command \notin DataCommands /\ (r.command = "SHAREME" => "BUSREAD" \in d.saw)
  BY DEF NotItsOwnAnswer
<1>1. AcceptedFields(c, line, m, d) /\ AcceptedRequests(c, m, d)
  BY DEF Accepted
<1>2. c.awaitingBusRead
  BY <1>1 DEF AcceptedFields
<1>3. c.cache[line] = "I"
  BY <1>2 DEF InPhase, Quiet
<1>4. CASE r \in Outgoing(c)
  <2>1. r.command \notin DataCommands /\ (r.command = "SHAREME" => "BUSREAD" \in c.saw)
    BY <1>2, <1>4 DEF NotItsOwnAnswer
  <2>2. "BUSREAD" \in c.saw => "BUSREAD" \in d.saw
    BY <1>1 DEF AcceptedFields
  <2> QED BY <2>1, <2>2
<1>5. CASE r \notin Outgoing(c)
  <2>1. /\ r.payload = m.payload
        /\ \/ Hits(c, m) /\ r.command \in DataCommands
           \/ Notes(c, m) /\ m.command = "BUSREAD" /\ r.command = "SHAREME"
    BY <1>1, <1>5 DEF AcceptedRequests
  <2>2. ~Hits(c, m)
    BY <1>3, <2>1 DEF Hits, Contains
  <2>3. Notes(c, m) /\ m.command = "BUSREAD" /\ r.command = "SHAREME"
    BY <2>1, <2>2
  <2>4. d.saw = c.saw \cup {"BUSREAD"}
    BY <1>1, <2>3 DEF AcceptedFields, Noted
  <2> QED BY <2>3, <2>4 DEF DataCommands
<1> QED BY <1>4, <1>5

-----------------------------------------------------------------------------
(* The issue of a request: a beat of a burst, a request of the             *)
(* maximum-priority queue, or a read.                                      *)

SameCopies(c, d) == d.cache = c.cache /\ d.saw = c.saw
                      /\ d.state = c.state /\ d.queuedBusRead = c.queuedBusRead
                      /\ d.bursting = c.bursting

IssuesBeat(c, r, d) ==
  /\ r.command = "NULL_BURST" /\ SameCopies(c, d) /\ SameRead(c, d)
  /\ d.busReqQueue = c.busReqQueue /\ d.maxPriorityQueue = c.maxPriorityQueue
  /\ c.bursting /\ c.maxPriorityQueue # <<>>

IssuesRequest(c, r, d) ==
  /\ SameCopies(c, d) /\ SameRead(c, d) /\ d.busReqQueue = c.busReqQueue
  /\ \E h \in Outgoing(c) : /\ r.command = h.command /\ r.payload = h.payload
                           /\ Outgoing(c) = {h} \cup Outgoing(d)
  /\ d.burstCounter = 0

IssuesRead(c, line, r, d) ==
  /\ SameCopies(c, d)
  /\ ReadQueued(c, line) /\ ReadDispatched(d, line)
  /\ r.command = ReadOf(c) /\ r.payload = line /\ c.state \in IssueStates
  /\ Outgoing(c) = {} /\ Outgoing(d) = {}
  /\ d.burstCounter = 0

LEMMA IssueIssues ==
  ASSUME NEW c \in Controller, NEW line, NEW locked \in BOOLEAN, RequestsTransaction(c),
         InPhase(c, line), ~ReadArrived(c), InProtocol(c), c.bursting <=> CarriesLine(c),
         c.burstCounter > 0 => CarriesLine(c),
         NEW d, d = AfterIssue(c, locked), NEW r, r = Issued(c, locked)
  PROVE  IssuesBeat(c, r, d) \/ IssuesRequest(c, r, d) \/ IssuesRead(c, line, r, d)
<1>1. /\ c.maxPriorityQueue \in Seq(Queued) /\ c.busReqQueue \in Seq(Queued)
      /\ c.burstCounter \in Nat /\ c.awaitingBusRead \in BOOLEAN
  BY DEF Controller
<1>2. c.busReqQueue # <<>> => ReadQueued(c, line) /\ c.state \in IssueStates
  BY DEF InPhase, Quiet, ReadDispatched, ReadArrived
<1>3. NextToIssue(c).command \in DataCommands => c.maxPriorityQueue # <<>>
  <2> SUFFICES ASSUME c.maxPriorityQueue = <<>> PROVE NextToIssue(c).command \notin DataCommands
    OBVIOUS
  <2>1. NextToIssue(c).command = ReadOf(c)
    BY <1>2 DEF NextToIssue, RequestsTransaction, ReadQueued
  <2> QED BY <2>1 DEF ReadOf, ReadCommand, DataCommands
<1>4. CASE MidBurst(c, locked)
  <2>1. r.command = "NULL_BURST"
    BY <1>4 DEF Issued
  <2>2. c.bursting /\ c.maxPriorityQueue # <<>>
    BY <1>3, <1>4 DEF MidBurst, CarriesLine
  <2>3. /\ d.state = c.state /\ d.queuedBusRead = c.queuedBusRead /\ d.bursting = c.bursting
        /\ d.cache = c.cache /\ d.saw = c.saw /\ d.got = c.got
        /\ d.busReqQueue = c.busReqQueue /\ d.maxPriorityQueue = c.maxPriorityQueue
        /\ d.awaitingDataLocal = c.awaitingDataLocal
    BY <1>4 DEF AfterIssue, Controller
  <2>4. d.awaitingBusRead <=> c.awaitingBusRead
    BY <1>1, <1>4 DEF AfterIssue, Controller, ReadCommands, Issued
  <2> QED BY <2>1, <2>2, <2>3, <2>4 DEF IssuesBeat, SameCopies, SameRead
<1>5. CASE ~MidBurst(c, locked) /\ c.maxPriorityQueue # <<>>
  <2> DEFINE h == Head(c.maxPriorityQueue)
             q == Tail(c.maxPriorityQueue)
  <2>1. RangeOf(c.maxPriorityQueue) = {h} \cup RangeOf(q)
    BY <1>1, <1>5, RangeOfTail
  <2>2. r.command = h.command /\ r.payload = h.payload
    BY <1>5 DEF Issued, NextToIssue
  <2>3. h.command \notin ReadCommands
    <3>1. h \in Outgoing(c)
      BY <2>1 DEF Outgoing
    <3> QED BY <3>1 DEF InProtocol, ReadCommands, DataCommands
  <2>4. PopNext(c) = [c EXCEPT !.maxPriorityQueue = q]
    BY <1>5 DEF PopNext, Controller
  <2> HIDE DEF h, q
  <2>5. /\ d.state = c.state /\ d.queuedBusRead = c.queuedBusRead /\ d.bursting = c.bursting
        /\ d.cache = c.cache /\ d.saw = c.saw /\ d.got = c.got
        /\ d.busReqQueue = c.busReqQueue /\ d.maxPriorityQueue = q
        /\ d.awaitingDataLocal = c.awaitingDataLocal
        /\ d.burstCounter = IF c.bursting THEN 0 ELSE c.burstCounter
    BY <1>5, <2>4 DEF AfterIssue, Controller
  <2>6. d.awaitingBusRead <=> c.awaitingBusRead
    BY <1>1, <1>5, <2>2, <2>3, <2>4 DEF AfterIssue, Controller
  <2>7. d.burstCounter = 0
    BY <1>1, <2>5
  <2>8. h \in Outgoing(c) /\ Outgoing(c) = {h} \cup Outgoing(d)
    BY <2>1, <2>5 DEF Outgoing
  <2> QED BY <2>2, <2>5, <2>6, <2>7, <2>8 DEF IssuesRequest, SameCopies, SameRead
<1>6. CASE ~MidBurst(c, locked) /\ c.maxPriorityQueue = <<>>
  <2> DEFINE h == Head(c.busReqQueue)
             q == Tail(c.busReqQueue)
  <2>1. ReadQueued(c, line) /\ c.state \in IssueStates
    BY <1>2, <1>6 DEF RequestsTransaction
  <2>2. h.command = ReadOf(c) /\ h.payload = line /\ q = <<>>
    BY <2>1 DEF ReadQueued
  <2>3. r.command = h.command /\ r.payload = h.payload
    BY <1>6 DEF Issued, NextToIssue
  <2>4. h.command \in ReadCommands
    BY <2>2 DEF ReadOf, ReadCommand, ReadCommands
  <2>5. PopNext(c) = [c EXCEPT !.busReqQueue = q]
    BY <1>6 DEF PopNext, Controller
  <2> HIDE DEF h, q
  <2>6. /\ d.state = c.state /\ d.queuedBusRead = c.queuedBusRead /\ d.bursting = c.bursting
        /\ d.cache = c.cache /\ d.saw = c.saw /\ d.got = c.got
        /\ d.busReqQueue = q /\ d.maxPriorityQueue = c.maxPriorityQueue
        /\ d.awaitingDataLocal = c.awaitingDataLocal
        /\ d.burstCounter = IF c.bursting THEN 0 ELSE c.burstCounter
    BY <1>6, <2>5 DEF AfterIssue, Controller
  <2>7. d.awaitingBusRead
    BY <1>6, <2>3, <2>4, <2>5 DEF AfterIssue, Controller
  <2>8. d.burstCounter = 0
    BY <1>1, <2>6
  <2>9. Outgoing(c) = {} /\ Outgoing(d) = {}
    BY <1>1, <1>6, <2>6, RangeOfEmpty DEF Outgoing
  <2>10. ReadDispatched(d, line)
    BY <2>1, <2>2, <2>6, <2>7 DEF ReadQueued, ReadDispatched
  <2> QED BY <2>1, <2>2, <2>3, <2>6, <2>8, <2>9, <2>10 DEF IssuesRead, SameCopies
<1> QED BY <1>4, <1>5, <1>6

(* A request issued keeps the invariant; only the dispatch of a read gives *)
(* its source a claim, and a controller that sends a line or a SHAREME has *)
(* no undecided claim on it.                                               *)
LEMMA IssueKeeps ==
  ASSUME NEW c \in Controller, NEW d \in Controller, NEW line, NEW r,
         InPhase(c, line), ~ReadArrived(c), InProtocol(c), NotItsOwnAnswer(c, line),
         IssuesBeat(c, r, d) \/ IssuesRequest(c, r, d) \/ IssuesRead(c, line, r, d)
  PROVE  /\ InPhase(d, line) /\ InProtocol(d) /\ NotItsOwnAnswer(d, line)
         /\ Outgoing(d) \subseteq Outgoing(c)
<1>1. SameCopies(c, d) /\ Outgoing(d) \subseteq Outgoing(c)
  BY DEF IssuesBeat, IssuesRequest, IssuesRead, Outgoing
<1>2. InProtocol(d)
  BY <1>1 DEF InProtocol, SameCopies
<1>3. CASE IssuesBeat(c, r, d) \/ IssuesRequest(c, r, d)
  <2>1. SameRead(c, d) /\ d.busReqQueue = c.busReqQueue
    BY <1>3 DEF IssuesBeat, IssuesRequest
  <2>2. /\ Quiet(d) <=> Quiet(c)
        /\ ReadQueued(d, line) <=> ReadQueued(c, line)
        /\ ReadDispatched(d, line) <=> ReadDispatched(c, line)
    BY <1>1, <2>1 DEF Quiet, ReadQueued, ReadDispatched, ReadOf, SameCopies, SameRead
  <2>3. InPhase(d, line)
    BY <1>1, <2>1, <2>2 DEF InPhase, SameCopies, SameRead
  <2>4. NotItsOwnAnswer(d, line)
    BY <1>1, <2>1 DEF NotItsOwnAnswer, SameCopies, SameRead
  <2> QED BY <1>1, <1>2, <2>3, <2>4
<1>4. CASE IssuesRead(c, line, r, d)
  <2>1. InPhase(d, line)
    BY <1>1, <1>4 DEF InPhase, IssuesRead, SameCopies, IssueStates
  <2>2. NotItsOwnAnswer(d, line)
    BY <1>4 DEF NotItsOwnAnswer, IssuesRead
  <2> QED BY <1>1, <1>2, <2>1, <2>2
<1> QED BY <1>3, <1>4

LEMMA IssueClaims ==
  ASSUME NEW c \in Controller, NEW d \in Controller, NEW line, NEW r, NEW x \in Addrs,
         InPhase(c, line), ~ReadArrived(c), InProtocol(c), NotItsOwnAnswer(c, line),
         IssuesBeat(c, r, d) \/ IssuesRequest(c, r, d) \/ IssuesRead(c, line, r, d)
  PROVE  /\ ~IssuesRead(c, line, r, d) \/ x # line => ClaimOf(d, line, x) = ClaimOf(c, line, x)
         /\ IssuesRead(c, line, r, d) /\ r.command = "BUSREAD" => ClaimOf(d, line, x) \notin {"M", "E"} \/ x # line
         /\ IssuesRead(c, line, r, d) /\ r.command = "BUSREADX" => ClaimOf(d, line, x) # "?"
         /\ IssuesRequest(c, r, d) /\ r.payload = x /\ r.command \in DataCommands \cup {"SHAREME"}
              => ClaimOf(d, line, x) # "?"
<1>1. SameCopies(c, d) /\ InPhase(d, line)
  BY IssueKeeps DEF IssuesBeat, IssuesRequest, IssuesRead
<1>2. Exclusively(d) <=> Exclusively(c)
  BY <1>1 DEF Exclusively, SameCopies
<1>3. CASE ~IssuesRead(c, line, r, d)
  <2>1. SameRead(c, d) /\ d.busReqQueue = c.busReqQueue
    BY <1>3 DEF IssuesBeat, IssuesRequest
  <2>2. Reading(d, line, x) <=> Reading(c, line, x)
    BY <1>1, <2>1 DEF Reading, SameCopies
  <2>3. ReadClaim(d) = ReadClaim(c)
    BY <1>1, <1>2, <2>1, ReadClaimValues DEF SameCopies, SameRead
  <2>4. ClaimOf(d, line, x) = ClaimOf(c, line, x)
    BY <1>1, <2>2, <2>3 DEF ClaimOf, SameCopies
  <2>5. ASSUME IssuesRequest(c, r, d), r.payload = x, r.command \in DataCommands \cup {"SHAREME"},
               ClaimOf(c, line, x) = "?"
        PROVE  FALSE
    <3>1. Reading(c, line, x) /\ ReadClaim(c) = "?" /\ x = line
      <4>1. c.cache[x] \in MESI
        BY DEF Controller
      <4> QED BY <2>5, <4>1, ClaimCases DEF MESI
    <3>2. c.awaitingBusRead /\ c.saw = {}
      BY <3>1, ClaimCases, ReadClaimValues DEF ReadDispatched
    <3>3. PICK h \in Outgoing(c) : r.command = h.command /\ r.payload = h.payload
      BY <2>5 DEF IssuesRequest
    <3> QED BY <2>5, <3>1, <3>2, <3>3 DEF NotItsOwnAnswer
  <2> QED BY <1>3, <2>4, <2>5
<1>4. CASE IssuesRead(c, line, r, d) /\ x # line
  <2>1. ClaimOf(d, line, x) = ClaimOf(c, line, x)
    BY <1>1, <1>4 DEF ClaimOf, Reading, SameCopies
  <2>2. ClaimOf(d, line, x) # "?"
    <3>1. d.cache[x] \in MESI
      BY DEF Controller
    <3> QED BY <1>4, <3>1 DEF ClaimOf, Reading, MESI
  <2>3. ~IssuesRequest(c, r, d)
    BY <1>4, NoAddrAssumption DEF IssuesRead, IssuesRequest
  <2> QED BY <1>4, <2>1, <2>2, <2>3
<1>5. CASE IssuesRead(c, line, r, d) /\ x = line
  <2>1. d.state \in IssueStates /\ d.busReqQueue = <<>> /\ d.awaitingBusRead
    BY <1>1, <1>5 DEF IssuesRead, ReadDispatched, SameCopies
  <2>2. ClaimOf(d, line, x) = ReadClaim(d)
    BY <1>1, <1>5, <2>1, ClaimCases DEF Reading
  <2>3. r.command = "BUSREAD" <=> ~Exclusively(d)
    BY <1>1, <1>5 DEF IssuesRead, ReadOf, ReadCommand, Exclusively, SameCopies, IssueStates
  <2>4. r.command = "BUSREADX" => Exclusively(d)
    BY <2>3
  <2>5. ~IssuesRequest(c, r, d)
    BY <1>5 DEF IssuesRead, IssuesRequest
  <2> QED BY <1>5, <2>1, <2>2, <2>3, <2>4, <2>5, ReadClaimValues
<1> QED BY <1>3, <1>4, <1>5

-----------------------------------------------------------------------------
(* A tick.                                                                 *)

(* What the tick leaves of an outcome o of the action of state s.          *)
Becomes(o, s, d) ==
  /\ d \in Controller /\ d.state = s
  /\ (d.bursting <=> CarriesLine(d))
  /\ d.queuedBusRead = o.queuedBusRead /\ d.burstCounter = o.burstCounter
  /\ d.busReqQueue = o.busReqQueue /\ d.maxPriorityQueue = o.maxPriorityQueue
  /\ SameRead(o, d) /\ d.saw = o.saw /\ d.cache = o.cache

LEMMA EnterBecomes ==
  ASSUME ctl \in [Procs -> Controller], NEW p \in Procs, NEW s \in FsmStates,
         NEW outcomes \in SUBSET Controller, Enter(p, s, outcomes)
  PROVE  \E o \in outcomes : Becomes(o, s, ctl'[p])
<1>1. PICK o \in outcomes :
        ctl' = [ctl EXCEPT ![p] = UpdateBusBurstRequest([o EXCEPT !.state = s])]
  BY DEF Enter
<1> DEFINE e == [o EXCEPT !.state = s]
           d == ctl'[p]
           bursting == RequestsTransaction(e) /\ NextToIssue(e).command \in DataCommands
<1>2. e \in Controller /\ o \in Controller
  BY DEF Controller
<1>3. d = [e EXCEPT !.bursting = bursting]
  BY <1>1 DEF UpdateBusBurstRequest
<1>4. bursting \in BOOLEAN
  OBVIOUS
<1>5. /\ e.state = s /\ e.queuedBusRead = o.queuedBusRead /\ e.burstCounter = o.burstCounter
      /\ e.busReqQueue = o.busReqQueue /\ e.maxPriorityQueue = o.maxPriorityQueue
      /\ e.saw = o.saw /\ e.cache = o.cache /\ SameRead(o, e)
  BY <1>2 DEF Controller, SameRead
<1> HIDE DEF e
<1>6. (RequestsTransaction(e) /\ NextToIssue(e).command \in DataCommands) <=> bursting
  OBVIOUS
<1> HIDE DEF bursting, d
<1>7. /\ d \in Controller
      /\ d.state = e.state /\ d.queuedBusRead = e.queuedBusRead /\ d.burstCounter = e.burstCounter
      /\ d.busReqQueue = e.busReqQueue /\ d.maxPriorityQueue = e.maxPriorityQueue
      /\ d.saw = e.saw /\ d.cache = e.cache /\ SameRead(e, d)
      /\ d.bursting = bursting
  BY <1>2, <1>3, <1>4 DEF Controller, SameRead
<1>8. d.bursting <=> CarriesLine(d)
  BY <1>6, <1>7 DEF CarriesLine, RequestsTransaction, NextToIssue
<1>9. SameRead(o, d)
  BY <1>5, <1>7 DEF SameRead
<1>10. Becomes(o, s, d)
  BY <1>5, <1>7, <1>8, <1>9 DEF Becomes
<1> QED BY <1>10 DEF d

(* A fill takes one line out of the cache, or none, and puts one in; the   *)
(* victim is never queued as a BUSWRITE (MESI_Controller.cpp:244-258).     *)
Fills(c, line, s, v, o) ==
  /\ o \in Controller /\ SameMachine(c, o) /\ SameRead(c, o) /\ o.saw = c.saw
  /\ o.maxPriorityQueue = c.maxPriorityQueue
  /\ o.cache = [c.cache EXCEPT ![v] = "I", ![line] = s]

LEMMA FillFills ==
  ASSUME NEW c \in Controller, NEW line \in Addrs, NEW s \in MESI, c.cache[line] = "I",
         NEW o \in Fill(c, line, s)
  PROVE  \E v \in Addrs : Fills(c, line, s, v, o)
<1>1. PICK e \in MakeRoom(c, line) : o = SetLine(e, line, s)
  BY DEF Fill
<1>2. c.cache \in [Addrs -> MESI] /\ "I" \in MESI
  BY DEF Controller, MESI
<1>3. CASE ~IsFull(c, line)
  <2>1. e = c
    BY <1>1, <1>3 DEF MakeRoom
  <2>2. /\ o \in Controller /\ SameMachine(c, o) /\ SameRead(c, o) /\ o.saw = c.saw
        /\ o.maxPriorityQueue = c.maxPriorityQueue /\ o.cache = [c.cache EXCEPT ![line] = s]
    BY <1>1, <2>1, SetLineSets
  <2>3. [c.cache EXCEPT ![line] = s] = [c.cache EXCEPT ![line] = "I", ![line] = s]
    BY <1>2
  <2> QED BY <2>2, <2>3 DEF Fills
<1>4. CASE IsFull(c, line)
  <2>1. PICK v \in Addrs : e = WriteBackIfModified(Invalidate(c, v), v)
    BY <1>1, <1>4 DEF MakeRoom, CachedBeside, Cached
  <2> DEFINE i == Invalidate(c, v)
  <2>2. /\ i \in Controller /\ SameMachine(c, i) /\ SameRead(c, i) /\ i.saw = c.saw
        /\ i.maxPriorityQueue = c.maxPriorityQueue /\ i.cache = [c.cache EXCEPT ![v] = "I"]
    BY <1>2, SetLineSets DEF Invalidate
  <2>3. i.cache[v] # "M"
    BY <1>2, <2>2
  <2> HIDE DEF i
  <2>4. e = i
    BY <2>1, <2>3 DEF WriteBackIfModified, i
  <2>5. /\ o \in Controller /\ SameMachine(i, o) /\ SameRead(i, o) /\ o.saw = i.saw
        /\ o.maxPriorityQueue = i.maxPriorityQueue /\ o.cache = [i.cache EXCEPT ![line] = s]
    BY <1>1, <2>2, <2>4, SetLineSets
  <2>6. o.cache = [c.cache EXCEPT ![v] = "I", ![line] = s]
    BY <2>2, <2>5
  <2>7. SameMachine(c, o) /\ SameRead(c, o)
    BY <2>2, <2>5 DEF SameMachine, SameRead
  <2> QED BY <2>2, <2>5, <2>6, <2>7 DEF Fills
<1> QED BY <1>3, <1>4

(* A read that has arrived is taken as claimed: the line goes into the     *)
(* cache in the claimed state, or not at all, and then a store is written  *)
(* through (UpdateCacheLoad_Action, UpdateCacheStore_Action).              *)
LEMMA LoadTakesClaim ==
  ASSUME NEW c \in Controller, NEW line \in Addrs, InPhase(c, line), InProtocol(c),
         ReadArrived(c), c.state = "ISSUE_READ", NEW o \in UpdateCacheLoad(c, line)
  PROVE  \/ ReadClaim(c) = "I" /\ o = c
         \/ ReadClaim(c) \in {"M", "E", "S"} /\ \E v \in Addrs : Fills(c, line, ReadClaim(c), v, o)
<1>1. c.cache[line] = "I" /\ ~Contains(c, line) /\ ~c.awaitingBusRead
  BY DEF InPhase, ReadArrived, Quiet, IssueStates, Contains
<1>2. Exclusively(c) <=> ControllerType = "MI"
  BY DEF Exclusively
<1>3. c.saw \subseteq {"BUSREAD", "BUSREADX", "INVALIDATE"}
  BY DEF Controller
<1>4. CASE ControllerType = "MI"
  <2>1. o \in MI_UpdateCacheLoad(c, line) /\ c.saw \subseteq {"BUSREADX"}
    BY <1>4 DEF UpdateCacheLoad, InProtocol
  <2>2. CASE "BUSREADX" \in c.saw
    BY <1>2, <1>4, <2>1, <2>2, ReadClaimValues DEF MI_UpdateCacheLoad
  <2>3. CASE "BUSREADX" \notin c.saw
    <3>1. c.saw = {} /\ o \in Fill(c, line, "M") /\ "M" \in MESI
      BY <1>1, <2>1, <2>3 DEF MI_UpdateCacheLoad, MESI
    <3> QED BY <1>1, <1>2, <1>4, <3>1, ReadClaimValues, FillFills
  <2> QED BY <2>2, <2>3
<1>5. CASE ControllerType # "MI" /\ c.saw \cap {"BUSREADX", "INVALIDATE"} # {}
  <2>1. o = c
    BY <1>5, ControllerTypeAssumption DEF UpdateCacheLoad, MSI_UpdateCacheLoad, MESI_UpdateCacheLoad
  <2> QED BY <1>2, <1>5, <2>1, ReadClaimValues
<1>6. CASE ControllerType # "MI" /\ c.saw \cap {"BUSREADX", "INVALIDATE"} = {}
  <2>1. ReadClaim(c) = IF ControllerType = "MESI" THEN LoadFillState(c) ELSE "S"
    <3>1. CASE c.saw = {}
      BY <1>1, <1>2, <1>6, <3>1, ReadClaimValues DEF LoadFillState
    <3>2. CASE c.saw = {"BUSREAD"}
      BY <1>1, <1>2, <1>6, <3>2, ReadClaimValues DEF LoadFillState
    <3> QED BY <1>6, <3>1, <3>2, ReadClaimValues
  <2>2. LoadFillState(c) \in {"E", "S"} /\ {"E", "S"} \subseteq MESI
    BY DEF LoadFillState, MESI
  <2>3. o \in Fill(c, line, ReadClaim(c))
    BY <1>1, <1>6, <2>1, ControllerTypeAssumption
       DEF UpdateCacheLoad, MSI_UpdateCacheLoad, MESI_UpdateCacheLoad
  <2> QED BY <1>1, <2>1, <2>2, <2>3, FillFills
<1> QED BY <1>4, <1>5, <1>6

LEMMA StoreTakesClaim ==
  ASSUME NEW c \in Controller, NEW line \in Addrs, InPhase(c, line),
         ReadArrived(c), c.state = "ISSUE_READX", NEW o \in UpdateCacheStore(c, line)
  PROVE  \/ ReadClaim(c) = "I" /\ o = AddNewMaxPriorityBusRequest(c, "BUSWRITE", line)
         \/ ReadClaim(c) = "M" /\ \E v \in Addrs : Fills(c, line, "M", v, o)
<1>1. c.cache[line] = "I" /\ ~Contains(c, line) /\ Exclusively(c) /\ "M" \in MESI
  BY DEF InPhase, IssueStates, Contains, Exclusively, MESI
<1>2. CASE c.saw # {}
  <2>1. o = AddNewMaxPriorityBusRequest(c, "BUSWRITE", line)
    BY <1>2 DEF UpdateCacheStore, MI_UpdateCacheStore, MESI_UpdateCacheStore
  <2> QED BY <1>1, <1>2, <2>1, ReadClaimValues
<1>3. CASE c.saw = {}
  <2>1. o \in Fill(c, line, "M")
    BY <1>1, <1>3 DEF UpdateCacheStore, MI_UpdateCacheStore, MESI_UpdateCacheStore
  <2> QED BY <1>1, <1>3, <2>1, ReadClaimValues, FillFills
<1> QED BY <1>2, <1>3

(* What a tick may do to a controller: take a line it has a claim on,      *)
(* modify a line it owns, drop a line, add one request.                    *)
CopiesStep(c, line, d) ==
  \/ d.cache = c.cache
  \/ /\ line \in Addrs /\ c.cache[line] = "I" /\ ClaimOf(c, line, line) \in {"M", "E", "S"}
     /\ \E v \in Addrs : d.cache = [c.cache EXCEPT ![v] = "I", ![line] = ClaimOf(c, line, line)]
  \/ /\ line \in Addrs /\ c.cache[line] \in {"M", "E"}
     /\ d.cache = [c.cache EXCEPT ![line] = "M"]

ClaimsStep(c, line, d) == \A x \in Addrs :
  \/ ClaimOf(d, line, x) \in {ClaimOf(c, line, x), "I"}
  \/ ClaimOf(c, line, x) = "E" /\ ClaimOf(d, line, x) = "M"

QueueStep(c, d) ==
  \/ d.maxPriorityQueue = c.maxPriorityQueue
  \/ \E e \in Queued : d.maxPriorityQueue = Append(c.maxPriorityQueue, e)

Advanced(c, line, d) ==
  /\ d \in Controller /\ d.burstCounter = c.burstCounter
  /\ (d.bursting <=> CarriesLine(d))
  /\ InPhase(d, line) /\ ~ReadArrived(d) /\ InProtocol(d) /\ NotItsOwnAnswer(d, line)
  /\ d.awaitingBusRead => c.awaitingBusRead
  /\ QueueStep(c, d) /\ CopiesStep(c, line, d) /\ ClaimsStep(c, line, d)

(* A tick that leaves the controller without a read under way.             *)
LEMMA AdvancedOutOfRead ==
  ASSUME NEW c \in Controller, NEW line, NEW o, NEW s, NEW d, InPhase(c, line),
         Becomes(o, s, d), s \notin IssueStates, Quiet(o), InProtocol(o),
         o.burstCounter = c.burstCounter, QueueStep(c, o), CopiesStep(c, line, o),
         s = "IDLE" => ~o.queuedBusRead /\ o.got = {} /\ o.saw = {}
  PROVE  Advanced(c, line, d)
<1>1. /\ d \in Controller /\ d.state = s /\ d.burstCounter = c.burstCounter
      /\ (d.bursting <=> CarriesLine(d)) /\ d.cache = o.cache
      /\ QueueStep(c, d) /\ CopiesStep(c, line, d)
  BY DEF Becomes, QueueStep, CopiesStep
<1>2. Quiet(d)
  BY DEF Becomes, Quiet, SameRead
<1>3. InPhase(d, line) /\ ~ReadArrived(d) /\ ~d.awaitingBusRead
  BY <1>1, <1>2 DEF InPhase, ReadArrived, Becomes, SameRead, Quiet
<1>4. InProtocol(d)
  BY DEF InProtocol, Outgoing, Becomes
<1>5. NotItsOwnAnswer(d, line)
  BY <1>3 DEF NotItsOwnAnswer
<1>6. ASSUME NEW x \in Addrs
      PROVE  \/ ClaimOf(d, line, x) \in {ClaimOf(c, line, x), "I"}
             \/ ClaimOf(c, line, x) = "E" /\ ClaimOf(d, line, x) = "M"
  <2>1. ClaimOf(d, line, x) = d.cache[x]
    BY <1>1 DEF ClaimOf, Reading
  <2>2. c.cache \in [Addrs -> MESI]
    BY DEF Controller
  <2>3. c.cache[x] # "I" => ClaimOf(c, line, x) = c.cache[x]
    BY DEF ClaimOf
  <2>4. CASE d.cache = c.cache
    BY <2>1, <2>3, <2>4
  <2>5. CASE /\ line \in Addrs /\ c.cache[line] = "I" /\ ClaimOf(c, line, line) \in {"M", "E", "S"}
             /\ \E v \in Addrs : d.cache = [c.cache EXCEPT ![v] = "I", ![line] = ClaimOf(c, line, line)]
    BY <2>1, <2>2, <2>3, <2>5
  <2>6. CASE /\ line \in Addrs /\ c.cache[line] \in {"M", "E"}
             /\ d.cache = [c.cache EXCEPT ![line] = "M"]
    BY <2>1, <2>2, <2>3, <2>6
  <2> QED BY <1>1, <2>4, <2>5, <2>6 DEF CopiesStep
<1> QED BY <1>1, <1>3, <1>4, <1>5, <1>6 DEF Advanced, ClaimsStep

(* A tick that waits for a read under way.                                 *)
LEMMA AdvancedInRead ==
  ASSUME NEW c \in Controller, NEW line, NEW d, InPhase(c, line), InProtocol(c),
         NotItsOwnAnswer(c, line), c.state \in IssueStates, ReadOutstanding(c),
         Becomes(c, c.state, d)
  PROVE  Advanced(c, line, d)
<1>1. /\ d \in Controller /\ d.state = c.state /\ d.burstCounter = c.burstCounter
      /\ (d.bursting <=> CarriesLine(d)) /\ d.cache = c.cache /\ d.saw = c.saw
      /\ d.queuedBusRead = c.queuedBusRead /\ SameRead(c, d) /\ d.busReqQueue = c.busReqQueue
      /\ d.maxPriorityQueue = c.maxPriorityQueue
  BY DEF Becomes
<1>2. ~ReadArrived(c)
  BY DEF ReadOutstanding, ReadArrived, Quiet
<1>3. /\ Quiet(d) <=> Quiet(c)
      /\ ReadQueued(d, line) <=> ReadQueued(c, line)
      /\ ReadDispatched(d, line) <=> ReadDispatched(c, line)
      /\ ReadArrived(d) <=> ReadArrived(c)
  BY <1>1 DEF Quiet, ReadQueued, ReadDispatched, ReadArrived, ReadOf, SameRead
<1>4. InPhase(d, line)
  BY <1>1, <1>3 DEF InPhase, SameRead
<1>5. InProtocol(d) /\ NotItsOwnAnswer(d, line)
  BY <1>1 DEF InProtocol, NotItsOwnAnswer, Outgoing, SameRead
<1>6. QueueStep(c, d) /\ CopiesStep(c, line, d) /\ (d.awaitingBusRead => c.awaitingBusRead)
  BY <1>1 DEF QueueStep, CopiesStep, SameRead
<1>7. ReadClaim(d) = ReadClaim(c)
  <2>1. Exclusively(d) <=> Exclusively(c)
    BY <1>1 DEF Exclusively
  <2> QED BY <1>1, <2>1, ReadClaimValues DEF SameRead
<1>8. ClaimsStep(c, line, d)
  BY <1>1, <1>7 DEF ClaimsStep, ClaimOf, Reading
<1> QED BY <1>1, <1>2, <1>3, <1>4, <1>5, <1>6, <1>8 DEF Advanced

(* A tick that starts a read.                                              *)
LEMMA AdvancedToRead ==
  ASSUME NEW c \in Controller, NEW line \in Addrs, NEW d, NEW command \in Commands,
         NEW s \in IssueStates,
         command = IF s = "ISSUE_READ" THEN ReadCommand ELSE "BUSREADX",
         InPhase(c, line), InProtocol(c), c.state = "IDLE", ~Contains(c, line),
         Becomes(QueueReadOnce(c, line, command), s, d)
  PROVE  Advanced(c, line, d)
<1> DEFINE o == QueueReadOnce(c, line, command)
           q == Append(c.busReqQueue, [command |-> command, payload |-> line])
<1>1. Quiet(c) /\ ~c.queuedBusRead /\ c.got = {} /\ c.saw = {} /\ c.cache[line] = "I"
  BY DEF InPhase, IssueStates, Contains
<1>2. q = <<[command |-> command, payload |-> line]>>
  BY <1>1 DEF Quiet
<1>3. o = [c EXCEPT !.busReqQueue = q, !.queuedBusRead = TRUE, !.awaitingDataLocal = line]
  BY <1>1 DEF QueueReadOnce, AddNewBusRequest, Controller
<1> HIDE DEF q
<1>4. /\ o.busReqQueue = q /\ o.queuedBusRead /\ o.awaitingDataLocal = line /\ o.got = c.got
      /\ o.saw = c.saw /\ o.cache = c.cache /\ o.burstCounter = c.burstCounter
      /\ o.maxPriorityQueue = c.maxPriorityQueue /\ (o.awaitingBusRead <=> c.awaitingBusRead)
  BY <1>3 DEF Controller
<1> HIDE DEF o
<1>5. /\ d \in Controller /\ d.state = s /\ (d.bursting <=> CarriesLine(d))
      /\ d.busReqQueue = q /\ d.queuedBusRead /\ d.awaitingDataLocal = line /\ d.got = {}
      /\ d.saw = {} /\ d.cache = c.cache /\ d.burstCounter = c.burstCounter
      /\ d.maxPriorityQueue = c.maxPriorityQueue /\ ~d.awaitingBusRead
  BY <1>1, <1>4 DEF o, Becomes, SameRead, Quiet
<1>6. command = ReadOf(d) /\ d.state \in IssueStates /\ d.state # "IDLE"
  BY <1>5 DEF ReadOf, IssueStates
<1>7. ReadQueued(d, line)
  BY <1>2, <1>5, <1>6 DEF ReadQueued
<1>8. InPhase(d, line) /\ ~ReadArrived(d)
  BY <1>1, <1>5, <1>6, <1>7 DEF InPhase, ReadArrived
<1>9. InProtocol(d) /\ NotItsOwnAnswer(d, line)
  BY <1>5 DEF InProtocol, Outgoing, NotItsOwnAnswer
<1>10. QueueStep(c, d) /\ CopiesStep(c, line, d) /\ (d.awaitingBusRead => c.awaitingBusRead)
  BY <1>5 DEF QueueStep, CopiesStep
<1>11. d.busReqQueue # <<>>
  BY <1>2, <1>5
<1>12. ClaimsStep(c, line, d)
  BY <1>5, <1>11 DEF ClaimsStep, ClaimOf, Reading, IssueStates
<1> QED BY <1>5, <1>8, <1>9, <1>10, <1>12 DEF Advanced

(* The outcomes of the states' actions, each under what its caller knows.  *)
LEMMA FillAdvances ==
  ASSUME NEW c \in Controller, NEW line \in Addrs, NEW v \in Addrs, NEW o, NEW d,
         NEW s \in {"UPDATE_CACHE_LD", "UPDATE_CACHE_ST"},
         InPhase(c, line), InProtocol(c), ReadArrived(c), ReadClaim(c) \in {"M", "E", "S"},
         Fills(c, line, ReadClaim(c), v, o), Becomes(o, s, d)
  PROVE  Advanced(c, line, d)
<1>1. /\ c.cache[line] = "I" /\ ClaimOf(c, line, line) = ReadClaim(c)
      /\ c.cache \in [Addrs -> MESI]
  BY DEF InPhase, ReadArrived, Quiet, ClaimOf, Reading, Controller
<1>2. CopiesStep(c, line, o) /\ QueueStep(c, o) /\ o.burstCounter = c.burstCounter
  BY <1>1 DEF CopiesStep, QueueStep, Fills, SameMachine
<1>3. Quiet(o)
  BY DEF Fills, ReadArrived, Quiet, SameMachine, SameRead
<1>4. /\ ControllerType = "MI" => ReadClaim(c) = "M"
      /\ ControllerType = "MSI" => ReadClaim(c) # "E"
  BY ReadClaimValues DEF Exclusively
<1>5. \A x \in Addrs : o.cache[x] \in {c.cache[x], "I", ReadClaim(c)}
  BY <1>1 DEF Fills
<1>6. InProtocol(o)
  BY <1>4, <1>5 DEF InProtocol, Fills, Outgoing
<1> QED BY <1>2, <1>3, <1>6, AdvancedOutOfRead DEF IssueStates

LEMMA WriteThroughAdvances ==
  ASSUME NEW c \in Controller, NEW line \in Addrs, NEW d,
         NEW code \in {"BUSWRITE", "INVALIDATE"}, NEW s \in FsmStates \ IssueStates, s # "IDLE",
         NEW o, Becomes(o, s, d), InPhase(c, line), InProtocol(c), Quiet(c),
         code = "INVALIDATE" => ControllerType # "MI",
         NEW e, e = AddNewMaxPriorityBusRequest(c, code, line),
         SameMachine(e, o), SameRead(e, o), o.saw = e.saw, o.cache = e.cache,
         o.maxPriorityQueue = e.maxPriorityQueue
  PROVE  Advanced(c, line, d)
<1>1. code \in Commands
  BY DEF Commands
<1>2. /\ e \in Controller /\ SameMachine(c, e) /\ SameRead(c, e)
      /\ e.saw = c.saw /\ e.cache = c.cache
      /\ e.maxPriorityQueue = Append(c.maxPriorityQueue, Request(code, line))
      /\ Outgoing(e) = Outgoing(c) \cup {Request(code, line)}
  BY <1>1, AddNewMaxPriorityAdds
<1>3. /\ Request(code, line) \in Queued /\ Request(code, line).command = code
  BY <1>1, RequestFields
<1>4. Quiet(o) /\ o.burstCounter = c.burstCounter
  BY <1>2 DEF Quiet, SameMachine, SameRead
<1>5. QueueStep(c, o) /\ CopiesStep(c, line, o)
  BY <1>2, <1>3 DEF QueueStep, CopiesStep
<1>6. Outgoing(o) = Outgoing(c) \cup {Request(code, line)}
  BY <1>2 DEF Outgoing
<1>7. InProtocol(o)
  BY <1>2, <1>3, <1>6 DEF InProtocol, DataCommands
<1> QED BY <1>4, <1>5, <1>7, AdvancedOutOfRead

LEMMA UnchangedAdvances ==
  ASSUME NEW c \in Controller, NEW line, NEW d, NEW s \in FsmStates \ IssueStates, s # "IDLE",
         Becomes(c, s, d), InPhase(c, line), InProtocol(c), Quiet(c)
  PROVE  Advanced(c, line, d)
<1>1. QueueStep(c, c) /\ CopiesStep(c, line, c)
  BY DEF QueueStep, CopiesStep
<1> QED BY <1>1, AdvancedOutOfRead

LEMMA IdleAdvances ==
  ASSUME NEW c \in Controller, NEW line, NEW d, Becomes(IdleAction(c), "IDLE", d),
         InPhase(c, line), InProtocol(c), Quiet(c)
  PROVE  Advanced(c, line, d)
<1> DEFINE o == IdleAction(c)
<1>1. /\ o.got = {} /\ o.saw = {} /\ ~o.awaitingBusRead /\ ~o.queuedBusRead
      /\ o.busReqQueue = c.busReqQueue /\ o.maxPriorityQueue = c.maxPriorityQueue
      /\ o.awaitingDataLocal = c.awaitingDataLocal /\ o.cache = c.cache
      /\ o.burstCounter = c.burstCounter
  BY DEF IdleAction, Controller
<1> HIDE DEF o
<1>2. Quiet(o) /\ QueueStep(c, o) /\ CopiesStep(c, line, o)
  BY <1>1 DEF Quiet, QueueStep, CopiesStep
<1>3. InProtocol(o)
  BY <1>1 DEF InProtocol, Outgoing
<1>4. Becomes(o, "IDLE", d)
  BY DEF o
<1> QED BY <1>1, <1>2, <1>3, <1>4, AdvancedOutOfRead DEF IssueStates

LEMMA TickAdvances ==
  ASSUME ProcTypeOK, NEW p \in Procs, ControllerTick(p),
         pending[p] \/ ctl[p].state # "IDLE" => inst[p] \in Instructions,
         InPhase(ctl[p], Line(p)), InProtocol(ctl[p]), NotItsOwnAnswer(ctl[p], Line(p))
  PROVE  Advanced(ctl[p], Line(p), ctl'[p])
<1> DEFINE c == ctl[p]
           line == Line(p)
           d == ctl'[p]
<1>1. ctl \in [Procs -> Controller] /\ c \in Controller /\ c.state \in FsmStates /\ c.cache \in [Addrs -> MESI]
  BY DEF ProcTypeOK, Controller
<1>2. inst[p] \in Instructions => line \in Addrs
  BY DEF Line, Instructions
<1>3. c.state \notin IssueStates => Quiet(c)
  BY DEF InPhase
<1>4. \A s \in FsmStates : \A outcomes \in SUBSET Controller :
        Enter(p, s, outcomes) => \E o \in outcomes : Becomes(o, s, d)
  BY <1>1, EnterBecomes
<1>5. c.state \in IssueStates => line \in Addrs /\ (ReadOutstanding(c) \/ ReadArrived(c))
  BY NoAddrAssumption DEF InPhase, ReadQueued, ReadDispatched, ReadOutstanding, ReadArrived
<1>6. CASE ReturnToIdle(p) \/ StayIdle(p)
  <2>1. IdleAction(c) \in Controller /\ "IDLE" \in FsmStates /\ c.state \notin IssueStates
    BY <1>1, <1>6, IdleActionTyped DEF ReturnToIdle, StayIdle, IssueStates, FsmStates
  <2>2. Becomes(IdleAction(c), "IDLE", d)
    BY <1>4, <1>6, <2>1 DEF ReturnToIdle, StayIdle
  <2> QED BY <1>1, <1>3, <2>1, <2>2, IdleAdvances
<1>7. CASE LoadHit(p)
  <2>1. line \in Addrs /\ Contains(c, line) /\ c.state = "IDLE"
    BY <1>2, <1>7 DEF LoadHit, Start
  <2>2. UpdateCacheLoad(c, line) \subseteq {c}
    BY <2>1, ControllerTypeAssumption
       DEF UpdateCacheLoad, MI_UpdateCacheLoad, MSI_UpdateCacheLoad, MESI_UpdateCacheLoad
  <2>3. "UPDATE_CACHE_LD" \in FsmStates \ IssueStates /\ c.state \notin IssueStates
    BY <2>1 DEF FsmStates, IssueStates
  <2>4. Becomes(c, "UPDATE_CACHE_LD", d)
    BY <1>1, <1>4, <1>7, <2>2, <2>3 DEF LoadHit
  <2> QED BY <1>1, <1>3, <2>3, <2>4, UnchangedAdvances
<1>8. CASE InvalidateIssued(p)
  <2>1. "INVALIDATE_WAIT" \in FsmStates \ IssueStates /\ c.state \notin IssueStates
    BY <1>8 DEF InvalidateIssued, FsmStates, IssueStates
  <2>2. Becomes(c, "INVALIDATE_WAIT", d)
    BY <1>1, <1>4, <1>8, <2>1 DEF InvalidateIssued
  <2> QED BY <1>1, <1>3, <2>1, <2>2, UnchangedAdvances
<1>9. CASE LoadMiss(p)
  <2>1. line \in Addrs /\ ~Contains(c, line) /\ c.state = "IDLE"
    BY <1>2, <1>9 DEF LoadMiss, Start
  <2>2. ReadCommand \in Commands /\ "ISSUE_READ" \in FsmStates /\ "ISSUE_READ" \in IssueStates
    BY DEF ReadCommand, Commands, FsmStates, IssueStates
  <2>3. QueueReadOnce(c, line, ReadCommand) \in Controller
    BY <1>1, <2>1, <2>2, QueueReadTyped
  <2>4. Becomes(QueueReadOnce(c, line, ReadCommand), "ISSUE_READ", d)
    BY <1>4, <1>9, <2>2, <2>3 DEF LoadMiss
  <2> QED BY <1>1, <2>1, <2>2, <2>4, AdvancedToRead
<1>10. CASE StoreMiss(p)
  <2>1. line \in Addrs /\ ~Contains(c, line) /\ c.state = "IDLE"
    BY <1>2, <1>10 DEF StoreMiss, Start
  <2>2. "BUSREADX" \in Commands /\ "ISSUE_READX" \in FsmStates /\ "ISSUE_READX" \in IssueStates
    BY DEF Commands, FsmStates, IssueStates
  <2>3. QueueReadOnce(c, line, "BUSREADX") \in Controller
    BY <1>1, <2>1, <2>2, QueueReadTyped
  <2>4. Becomes(QueueReadOnce(c, line, "BUSREADX"), "ISSUE_READX", d)
    BY <1>4, <1>10, <2>2, <2>3 DEF StoreMiss
  <2> QED BY <1>1, <2>1, <2>2, <2>4, AdvancedToRead
<1>11. CASE AwaitRead(p) \/ AwaitReadX(p)
  <2>1. c.state \in IssueStates /\ ReadOutstanding(c) /\ c.queuedBusRead
    BY <1>11 DEF AwaitRead, AwaitReadX, IssueStates, InPhase
  <2>2. \A command : QueueReadOnce(c, line, command) = c
    BY <2>1 DEF QueueReadOnce
  <2>3. Becomes(c, c.state, d)
    BY <1>1, <1>4, <1>11, <2>2 DEF AwaitRead, AwaitReadX
  <2> QED BY <1>1, <2>1, <2>3, AdvancedInRead
<1>12. CASE StoreHitOwned(p)
  <2>1. line \in Addrs /\ Contains(c, line) /\ c.cache[line] # "S" /\ c.state = "IDLE" /\ c.saw = {}
    BY <1>2, <1>12 DEF StoreHitOwned, Start, InPhase
  <2>2. "UPDATE_CACHE_ST" \in FsmStates \ IssueStates /\ c.state \notin IssueStates
    BY <2>1 DEF FsmStates, IssueStates
  <2>3. UpdateCacheStore(c, line) \subseteq Controller
    BY <1>1, <2>1, UpdateCacheTyped
  <2>4. PICK o \in UpdateCacheStore(c, line) : Becomes(o, "UPDATE_CACHE_ST", d)
    BY <1>4, <1>12, <2>2, <2>3 DEF StoreHitOwned
  <2>5. CASE ControllerType = "MI"
    <3>1. o = c
      BY <2>1, <2>5 DEF UpdateCacheStore, MI_UpdateCacheStore
    <3> QED BY <1>1, <1>3, <2>2, <2>4, <3>1, UnchangedAdvances
  <2>6. CASE ControllerType # "MI"
    <3>1. o = SetLine(c, line, "M") /\ "M" \in MESI
      BY <2>1, <2>6 DEF UpdateCacheStore, MESI_UpdateCacheStore, MESI
    <3>2. /\ o \in Controller /\ SameMachine(c, o) /\ SameRead(c, o)
          /\ o.saw = c.saw /\ o.maxPriorityQueue = c.maxPriorityQueue
          /\ o.cache = [c.cache EXCEPT ![line] = "M"]
      BY <1>1, <2>1, <3>1, SetLineSets
    <3>3. Quiet(o) /\ o.burstCounter = c.burstCounter /\ QueueStep(c, o)
      BY <1>3, <2>2, <3>2 DEF Quiet, SameMachine, SameRead, QueueStep
    <3>4. CopiesStep(c, line, o)
      BY <1>1, <2>1, <3>2 DEF CopiesStep, Contains, MESI
    <3>5. InProtocol(o)
      BY <1>1, <2>6, <3>2 DEF InProtocol, Outgoing
    <3> QED BY <1>1, <2>2, <2>4, <3>3, <3>4, <3>5, AdvancedOutOfRead
  <2> QED BY <2>5, <2>6
<1>13. CASE StoreHitShared(p)
  <2>1. line \in Addrs /\ c.cache[line] = "S" /\ c.state = "IDLE"
    BY <1>2, <1>13 DEF StoreHitShared, Start
  <2>2. "ISSUE_INVALIDATE" \in FsmStates \ IssueStates /\ c.state \notin IssueStates
    BY <2>1 DEF FsmStates, IssueStates
  <2> DEFINE o == IssueInvalidate(c, line)
             e == AddNewMaxPriorityBusRequest(c, "INVALIDATE", line)
  <2>3. o \in Controller
    BY <1>1, <2>1, IssueInvalidateTyped
  <2>4. Becomes(o, "ISSUE_INVALIDATE", d)
    BY <1>4, <1>13, <2>2, <2>3 DEF StoreHitShared
  <2>5. e \in Controller
    BY <1>1, <2>1, AddNewMaxPriorityAdds DEF Commands
  <2>6. o = [e EXCEPT !.outgoingCommandWaitFlag = TRUE]
    BY DEF IssueInvalidate
  <2>7. ControllerType # "MI"
    BY <2>1 DEF InProtocol
  <2> HIDE DEF o
  <2>8. /\ SameMachine(e, o) /\ SameRead(e, o) /\ o.saw = e.saw /\ o.cache = e.cache
        /\ o.maxPriorityQueue = e.maxPriorityQueue
    <3> HIDE DEF e
    <3> QED BY <2>5, <2>6 DEF SameMachine, SameRead, Controller
  <2> QED BY <1>1, <1>3, <2>1, <2>2, <2>4, <2>7, <2>8, WriteThroughAdvances
<1>14. CASE ReadReturned(p)
  <2>1. c.state = "ISSUE_READ" /\ ~ReadOutstanding(c) /\ c.state \in IssueStates
    BY <1>14 DEF ReadReturned, IssueStates
  <2>2. line \in Addrs /\ ReadArrived(c) /\ Quiet(c)
    BY <1>5, <2>1 DEF ReadArrived
  <2>3. "UPDATE_CACHE_LD" \in FsmStates \ IssueStates
    BY DEF FsmStates, IssueStates
  <2>4. UpdateCacheLoad(c, line) \subseteq Controller
    BY <1>1, <2>2, UpdateCacheTyped
  <2>5. PICK o \in UpdateCacheLoad(c, line) : Becomes(o, "UPDATE_CACHE_LD", d)
    BY <1>4, <1>14, <2>3, <2>4 DEF ReadReturned
  <2>6. CASE o = c
    BY <1>1, <2>2, <2>3, <2>5, <2>6, UnchangedAdvances
  <2>7. CASE ReadClaim(c) \in {"M", "E", "S"} /\ \E v \in Addrs : Fills(c, line, ReadClaim(c), v, o)
    BY <1>1, <2>2, <2>5, <2>7, FillAdvances
  <2> QED BY <1>1, <2>1, <2>2, <2>6, <2>7, LoadTakesClaim
<1>15. CASE ReadXReturned(p)
  <2>1. c.state = "ISSUE_READX" /\ ~ReadOutstanding(c) /\ c.state \in IssueStates
    BY <1>15 DEF ReadXReturned, IssueStates
  <2>2. line \in Addrs /\ ReadArrived(c) /\ Quiet(c)
    BY <1>5, <2>1 DEF ReadArrived
  <2>3. "UPDATE_CACHE_ST" \in FsmStates \ IssueStates
    BY DEF FsmStates, IssueStates
  <2>4. UpdateCacheStore(c, line) \subseteq Controller
    BY <1>1, <2>2, UpdateCacheTyped
  <2>5. PICK o \in UpdateCacheStore(c, line) : Becomes(o, "UPDATE_CACHE_ST", d)
    BY <1>4, <1>15, <2>3, <2>4 DEF ReadXReturned
  <2>6. CASE o = AddNewMaxPriorityBusRequest(c, "BUSWRITE", line)
    <3>1. SameMachine(o, o) /\ SameRead(o, o)
      BY DEF SameMachine, SameRead
    <3> QED BY <1>1, <2>2, <2>3, <2>5, <2>6, <3>1, WriteThroughAdvances
  <2>7. CASE ReadClaim(c) = "M" /\ \E v \in Addrs : Fills(c, line, "M", v, o)
    BY <1>1, <2>2, <2>5, <2>7, FillAdvances
  <2> QED BY <1>1, <2>1, <2>2, <2>6, <2>7, StoreTakesClaim
<1> QED BY <1>6, <1>7, <1>8, <1>9, <1>10, <1>11, <1>12, <1>13, <1>14, <1>15 DEF ControllerTick

=============================================================================
