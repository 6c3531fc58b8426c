--------------------------- MODULE MemTrace_proofs ---------------------------
(***************************************************************************)
(* The trace generator, for every set of traces and every size of the log: *)
(* the expansion finds the end of the log, and the file has what was       *)
(* executed. What the recursive functions of the expansion give is found by*)
(* induction on the slots of the log.                                      *)
(***************************************************************************)
EXTENDS MemTrace, SequenceTheorems, WellFoundedInduction, TLAPS

Slots == 0 .. BufferSlots - 1

LEMMA LogBytesFacts ==
  ASSUME NEW t \in Traces
  PROVE  t # <<>> /\ Len(t) \in Nat /\ LogBytes(t) \in 1 .. BufferSlots - 1
<1>1. t \in Seq(REF) /\ t # <<>> /\ Len(t) + 1 < BufferSlots /\ BufferSlots \in Nat
  BY TracesAssumption, BufferAssumption
<1>2. Len(t) \in Nat
  BY <1>1, LenProperties
<1> QED BY <1>1, <1>2 DEF LogBytes

-----------------------------------------------------------------------------
(* Induction: a statement about numbers that fails, fails first somewhere. *)
LEMMA LeastElement ==
  ASSUME NEW T, T \subseteq Nat, T # {}
  PROVE  \E m \in T : \A k \in T : m <= k
<1>1. IsWellFoundedOn(OpToRel(<, Nat), Nat)
  BY NatLessThanWellFounded
<1>2. PICK m \in T : \A k \in T : ~ (<<k, m>> \in OpToRel(<, Nat))
  BY <1>1, WFMin
<1>3. \A k \in T : ~ (k < m)
  BY <1>2 DEF OpToRel
<1> QED BY <1>3

(* The lines of the first m references of a trace.                         *)
LINES == {Line(ref) : ref \in REF}
Lines(t, m) == [k \in 1 .. m |-> Line(t[k])]

LEMMA LinesAreLines ==
  ASSUME NEW t \in Traces, NEW m \in 0 .. Len(t)
  PROVE  /\ Lines(t, m) \in Seq(LINES) /\ Len(Lines(t, m)) = m
         /\ \A k \in 1 .. m : Lines(t, m)[k] = Line(t[k])
         /\ Lines(t, 0) = <<>>
<1>1. t \in Seq(REF) /\ Len(t) \in Nat /\ \A k \in 1 .. m : t[k] \in REF
  BY TracesAssumption, LenProperties, ElementOfSeq
<1>2. Lines(t, m) \in [1 .. m -> LINES]
  BY <1>1 DEF Lines, LINES
<1>3. Lines(t, m) \in Seq(LINES) /\ Len(Lines(t, m)) = m
  BY <1>1, <1>2, SeqDef
<1> QED BY <1>1, <1>3 DEF Lines

LEMMA LinesGrow ==
  ASSUME NEW t \in Traces, NEW m \in 1 .. Len(t)
  PROVE  Lines(t, m) = Append(Lines(t, m - 1), Line(t[m]))
<1>1. t \in Seq(REF) /\ Len(t) \in Nat /\ t[m] \in REF
  BY TracesAssumption, LenProperties, ElementOfSeq
<1>2. m - 1 \in 0 .. Len(t) /\ m \in 0 .. Len(t) /\ Line(t[m]) \in LINES
  BY <1>1 DEF LINES
<1> DEFINE s == Lines(t, m - 1)
           a == Append(s, Line(t[m]))
<1>3. s \in Seq(LINES) /\ Len(s) = m - 1 /\ \A k \in 1 .. m - 1 : s[k] = Line(t[k])
  BY <1>2, LinesAreLines
<1>4. /\ a \in Seq(LINES) /\ Len(a) = m /\ a[m] = Line(t[m])
      /\ \A k \in 1 .. m - 1 : a[k] = s[k]
  <2> HIDE DEF s
  <2> QED BY <1>1, <1>2, <1>3, AppendProperties
<1>5. DOMAIN a = 1 .. m /\ a = [k \in DOMAIN a |-> a[k]]
  BY <1>4, LenProperties
<1> HIDE DEF s, a
<1>6. \A k \in 1 .. m : a[k] = Line(t[k])
  BY <1>1, <1>3, <1>4
<1>7. a = Lines(t, m)
  BY <1>5, <1>6 DEF Lines
<1> QED BY <1>7 DEF a, s

-----------------------------------------------------------------------------
(* In a block the first m slots are taken.                                 *)
Taken(log, at, t, m) == \A i \in 1 .. Len(t) :
  IF i <= m THEN log[at + i].holds = "address" ELSE EmptySlot(log, at + i)

LEMMA BlockExpands ==
  ASSUME NEW log, NEW at, NEW t \in Traces, NEW m \in 0 .. Len(t), Taken(log, at, t, m)
  PROVE  ExpandTrace(log, t, at) = Lines(t, m)
<1> DEFINE Is(w) ==
      w = [i \in 0 .. Len(t) |->
             IF i = 0 THEN <<>>
             ELSE IF EmptySlot(log, at + i) THEN w[i - 1]
             ELSE Append(w[i - 1], Line(t[i]))]
           Min(i) == IF i <= m THEN i ELSE m
           written == CHOOSE w : Is(w)
           w0 == [i \in 0 .. Len(t) |-> Lines(t, Min(i))]
<1>1. Len(t) \in Nat
  BY LogBytesFacts
<1>2. \A i \in 1 .. Len(t) : EmptySlot(log, at + i) <=> ~ (i <= m)
  BY DEF Taken, EmptySlot, EMPTY_SLOT
<1>3. Is(w0)
  <2>1. w0[0] = <<>>
    BY <1>1, LinesAreLines
  <2>2. ASSUME NEW i \in 1 .. Len(t)
        PROVE  w0[i] = IF EmptySlot(log, at + i) THEN w0[i - 1]
                       ELSE Append(w0[i - 1], Line(t[i]))
    <3>1. i \in 0 .. Len(t) /\ i - 1 \in 0 .. Len(t)
      BY <1>1
    <3>2. w0[i] = Lines(t, Min(i)) /\ w0[i - 1] = Lines(t, Min(i - 1))
      BY <3>1
    <3>3. CASE i <= m
      <4>1. Min(i) = i /\ Min(i - 1) = i - 1
        BY <1>1, <3>3
      <4>2. Lines(t, i) = Append(Lines(t, i - 1), Line(t[i]))
        BY LinesGrow
      <4> QED BY <1>2, <3>2, <3>3, <4>1, <4>2
    <3>4. CASE ~ (i <= m)
      <4>1. Min(i) = m /\ Min(i - 1) = m
        BY <1>1, <3>4
      <4> QED BY <1>2, <3>2, <3>4, <4>1
    <3> QED BY <3>3, <3>4
  <2>3. DOMAIN w0 = 0 .. Len(t)
    OBVIOUS
  <2> HIDE DEF w0
  <2>4. \A i \in 0 .. Len(t) : i # 0 => i \in 1 .. Len(t)
    BY <1>1
  <2>5. \A i \in 0 .. Len(t) :
          w0[i] = IF i = 0 THEN <<>>
                  ELSE IF EmptySlot(log, at + i) THEN w0[i - 1]
                  ELSE Append(w0[i - 1], Line(t[i]))
    BY <2>1, <2>2, <2>4
  <2>6. w0 = [i \in 0 .. Len(t) |-> w0[i]]
    BY <2>3 DEF w0
  <2> QED BY <2>5, <2>6
<1>4. Is(written)
  <2> HIDE DEF Is, w0
  <2> QED BY <1>3
<1>5. ExpandTrace(log, t, at) = written[Len(t)]
  BY DEF ExpandTrace
<1> HIDE DEF written
<1>6. \A i \in 0 .. Len(t) : written[i] = w0[i]
  <2> DEFINE S == {i \in 0 .. Len(t) : written[i] # w0[i]}
  <2>1. SUFFICES ASSUME S # {} PROVE FALSE
    OBVIOUS
  <2>2. S \subseteq Nat
    BY <1>1
  <2> HIDE DEF S
  <2>3. PICK i \in S : \A k \in S : i <= k
    BY <2>1, <2>2, LeastElement
  <2>4. i \in 0 .. Len(t) /\ written[i] # w0[i]
    BY DEF S
  <2>5. i # 0
    BY <1>3, <1>4, <2>4
  <2>6. i - 1 \in 0 .. Len(t) /\ written[i - 1] = w0[i - 1]
    BY <1>1, <2>3, <2>4, <2>5 DEF S
  <2>7. written[i] = IF EmptySlot(log, at + i) THEN written[i - 1]
                     ELSE Append(written[i - 1], Line(t[i]))
    BY <1>4, <2>4, <2>5
  <2>8. w0[i] = IF EmptySlot(log, at + i) THEN w0[i - 1]
                ELSE Append(w0[i - 1], Line(t[i]))
    <3> HIDE DEF w0
    <3> QED BY <1>3, <2>4, <2>5
  <2> QED BY <2>4, <2>6, <2>7, <2>8
<1>7. Len(t) \in 0 .. Len(t) /\ Min(Len(t)) = m
  BY <1>1
<1> QED BY <1>5, <1>6, <1>7
-----------------------------------------------------------------------------
(* Everything from the cursor on is empty.                                 *)
EmptyBeyond(log, cursor) == \A i \in cursor .. BufferSlots - 1 : EmptySlot(log, i)

(* The log is made of blocks, one for each header, that follow each other  *)
(* up to the cursor.                                                       *)
IsHeader(log, at) == log[at].holds = "header"
Follows(log, cursor, at) == at = cursor \/ (at \in 0 .. cursor - 1 /\ IsHeader(log, at))
End(log, at) == at + LogBytes(log[at].trace)

Block(log, cursor, at) ==
  /\ log[at].trace \in Traces
  /\ Follows(log, cursor, End(log, at))
  /\ \E m \in 0 .. Len(log[at].trace) : Taken(log, at, log[at].trace, m)

Blocks(log, cursor) ==
  /\ DOMAIN log = Slots /\ cursor \in Slots
  /\ EmptyBeyond(log, cursor)
  /\ Follows(log, cursor, 0)
  /\ \A at \in Slots : IsHeader(log, at) => Block(log, cursor, at)

LEMMA HeaderFacts ==
  ASSUME NEW log, NEW cursor, Blocks(log, cursor), NEW at \in Slots, IsHeader(log, at)
  PROVE  /\ ~ EmptySlot(log, at) /\ log[at].trace \in Traces
         /\ at < End(log, at) /\ End(log, at) <= cursor /\ End(log, at) \in Heads(log)
         /\ Follows(log, cursor, End(log, at))
         /\ \E m \in 0 .. Len(log[at].trace) : Taken(log, at, log[at].trace, m)
<1>1. Block(log, cursor, at) /\ cursor \in Slots /\ BufferSlots \in Nat
  BY BufferAssumption DEF Blocks
<1>2. LogBytes(log[at].trace) \in 1 .. BufferSlots - 1
  BY <1>1, LogBytesFacts DEF Block
<1>3. ~ EmptySlot(log, at)
  BY DEF IsHeader, EmptySlot, EMPTY_SLOT
<1>4. at < End(log, at) /\ End(log, at) <= cursor /\ End(log, at) \in Slots
  BY <1>1, <1>2 DEF Block, Follows, End, Slots
<1>5. End(log, at) \in Heads(log)
  BY <1>1, <1>4 DEF Block, Blocks, EmptyBeyond, Heads, Slots, Follows, IsHeader
<1> QED BY <1>1, <1>3, <1>4, <1>5 DEF Block

LEMMA HeadFacts ==
  ASSUME NEW log, NEW cursor, Blocks(log, cursor)
  PROVE  /\ Heads(log) \subseteq Slots /\ 0 \in Heads(log) /\ cursor \in Heads(log)
         /\ \A at \in Heads(log) : EmptySlot(log, at) \/ IsHeader(log, at)
<1>1. EmptySlot(log, cursor)
  BY BufferAssumption DEF Blocks, EmptyBeyond, Slots
<1> QED BY <1>1, BufferAssumption DEF Blocks, Heads, IsHeader, Slots, Follows

-----------------------------------------------------------------------------
(* One turn of Expand's loop, given what the turns after it write.         *)
Turn(log, f, at) ==
  IF EmptySlot(log, at) THEN <<>>
  ELSE ExpandTrace(log, log[at].trace, at) \o f[End(log, at)]

Turns(log) == CHOOSE f : f = [at \in Heads(log) |-> Turn(log, f, at)]

LEMMA ExpandedIsTurns ==
  ASSUME NEW log
  PROVE  Expanded(log) = Turns(log)[0]
BY DEF Expanded, Turns, Turn, End

(* The loop ends, so that the turns are defined: by induction from the end *)
(* of the log.                                                             *)
TurnsFrom(log, n, f) ==
  /\ DOMAIN f = {at \in Heads(log) : n <= at}
  /\ \A at \in Heads(log) : n <= at => f[at] = Turn(log, f, at)

LEMMA TurnsExist ==
  ASSUME NEW log, NEW cursor, Blocks(log, cursor), NEW k \in 0 .. BufferSlots
  PROVE  \E f : TurnsFrom(log, BufferSlots - k, f)
<1> DEFINE S == {i \in 0 .. BufferSlots : ~ \E f : TurnsFrom(log, BufferSlots - i, f)}
<1>1. SUFFICES ASSUME S # {} PROVE FALSE
  OBVIOUS
<1>2. S \subseteq Nat /\ BufferSlots \in Nat /\ Heads(log) \subseteq Slots
  BY BufferAssumption, HeadFacts
<1>3. PICK i \in S : \A j \in S : i <= j
  <2> HIDE DEF S
  <2> QED BY <1>1, <1>2, LeastElement
<1>4. i \in 0 .. BufferSlots /\ ~ \E f : TurnsFrom(log, BufferSlots - i, f)
  OBVIOUS
<1>5. CASE i = 0
  <2> DEFINE none == [at \in {} |-> 0]
  <2>1. {at \in Heads(log) : BufferSlots <= at} = {}
    BY <1>2 DEF Slots
  <2>2. TurnsFrom(log, BufferSlots, none)
    BY <2>1 DEF TurnsFrom
  <2> HIDE DEF none
  <2>3. BufferSlots - i = BufferSlots
    BY <1>2, <1>5
  <2> QED BY <1>4, <2>2, <2>3
<1>6. CASE i # 0
  <2> DEFINE n == BufferSlots - i
  <2>1. i - 1 \in 0 .. BufferSlots /\ BufferSlots - (i - 1) = n + 1 /\ n \in Nat
    BY <1>2, <1>4, <1>6
  <2>2. i - 1 \notin S
    BY <1>2, <1>3, <1>4
  <2>3. PICK f : TurnsFrom(log, n + 1, f)
    BY <2>1, <2>2
  <2> HIDE DEF S
  <2> DEFINE g == [at \in {at \in Heads(log) : n <= at} |->
                     IF at = n THEN Turn(log, f, n) ELSE f[at]]
  <2>4. DOMAIN g = {at \in Heads(log) : n <= at}
        /\ \A at \in Heads(log) : n <= at => g[at] = IF at = n THEN Turn(log, f, n) ELSE f[at]
    OBVIOUS
  <2> HIDE DEF g, n
  <2>5. ASSUME NEW at \in Heads(log), n <= at
        PROVE  Turn(log, g, at) = Turn(log, f, at)
    <3>1. CASE EmptySlot(log, at)
      BY <3>1 DEF Turn
    <3>2. CASE ~ EmptySlot(log, at)
      <4>1. at \in Slots /\ IsHeader(log, at)
        BY <1>2, <2>5, <3>2, HeadFacts
      <4>2. End(log, at) \in Heads(log) /\ at < End(log, at)
        BY <4>1, HeaderFacts
      <4>3. at \in Nat /\ End(log, at) \in Nat
        BY <1>2, <4>1, <4>2 DEF Slots
      <4>4. g[End(log, at)] = f[End(log, at)]
        BY <2>1, <2>4, <2>5, <4>2, <4>3
      <4> QED BY <4>4 DEF Turn
    <3> QED BY <3>1, <3>2
  <2>6. ASSUME NEW at \in Heads(log), n <= at
        PROVE  g[at] = Turn(log, g, at)
    <3>1. at \in Nat
      BY <1>2, <2>6 DEF Slots
    <3>2. CASE at = n
      BY <2>4, <2>5, <2>6, <3>2
    <3>3. CASE at # n
      <4>1. n + 1 <= at
        BY <2>1, <2>6, <3>1, <3>3
      <4> QED BY <2>3, <2>4, <2>5, <2>6, <3>3, <4>1 DEF TurnsFrom
    <3> QED BY <3>2, <3>3
  <2>7. TurnsFrom(log, n, g)
    BY <2>4, <2>6 DEF TurnsFrom
  <2> QED BY <1>4, <2>7 DEF n
<1> QED BY <1>5, <1>6

LEMMA TurnsFacts ==
  ASSUME NEW log, NEW cursor, Blocks(log, cursor)
  PROVE  /\ \A at \in Heads(log) : Turns(log)[at] = Turn(log, Turns(log), at)
         /\ Expanded(log) = Turns(log)[0]
<1> DEFINE Is(f) == f = [at \in Heads(log) |-> Turn(log, f, at)]
<1>1. BufferSlots \in 0 .. BufferSlots /\ BufferSlots - BufferSlots = 0
      /\ Heads(log) \subseteq Nat
  BY BufferAssumption, HeadFacts DEF Slots
<1>2. PICK f : TurnsFrom(log, 0, f)
  BY <1>1, TurnsExist
<1>3. {at \in Heads(log) : 0 <= at} = Heads(log)
  BY <1>1
<1>4. DOMAIN f = Heads(log) /\ \A at \in Heads(log) : f[at] = Turn(log, f, at)
  BY <1>1, <1>2, <1>3 DEF TurnsFrom
<1>5. Is([at \in Heads(log) |-> f[at]])
  <2> DEFINE g == [at \in Heads(log) |-> f[at]]
  <2>1. \A at \in Heads(log) : Turn(log, g, at) = Turn(log, f, at)
    <3> SUFFICES ASSUME NEW at \in Heads(log), ~ EmptySlot(log, at)
                 PROVE  g[End(log, at)] = f[End(log, at)]
      BY DEF Turn
    <3>1. at \in Slots /\ IsHeader(log, at)
      BY HeadFacts
    <3>2. End(log, at) \in Heads(log)
      BY <3>1, HeaderFacts
    <3> QED BY <3>2
  <2> QED BY <1>4, <2>1
<1> HIDE DEF Is
<1>6. Is(CHOOSE h : Is(h))
  BY <1>5
<1>7. Is(Turns(log))
  BY <1>6 DEF Is, Turns
<1> QED BY <1>7, ExpandedIsTurns DEF Is
-----------------------------------------------------------------------------
LEMMA LinesAssociate ==
  \A a, c, s \in Seq(LINES) : (a \o c) \o s = a \o (c \o s)
BY ConcatAssociative

(* A block stays as it is when no slot before its end changes.             *)
LEMMA SameBlock ==
  ASSUME NEW log, NEW new, NEW b \in Slots, \A i \in Slots : i < b => new[i] = log[i],
         NEW at \in Slots, NEW t \in Traces, at + LogBytes(t) <= b,
         NEW m \in 0 .. Len(t), Taken(log, at, t, m)
  PROVE  Taken(new, at, t, m)
<1> DEFINE n == Len(t)
<1>1. n \in Nat /\ LogBytes(t) = n + 1 /\ BufferSlots \in Nat
  BY LogBytesFacts, BufferAssumption DEF LogBytes
<1>2. ASSUME NEW i \in 1 .. n
      PROVE  new[at + i] = log[at + i]
  <2> HIDE DEF n
  <2>1. at + i \in Slots /\ at + i < b
    BY <1>1 DEF Slots
  <2> QED BY <2>1
<1> QED BY <1>2 DEF Taken, EmptySlot

(* What a header's turn writes.                                            *)
LEMMA TurnOfHeader ==
  ASSUME NEW log, NEW cursor, Blocks(log, cursor), NEW at \in Slots, IsHeader(log, at)
  PROVE  /\ at \in Heads(log)
         /\ Turns(log)[at] = ExpandTrace(log, log[at].trace, at) \o Turns(log)[End(log, at)]
         /\ ExpandTrace(log, log[at].trace, at) \in Seq(LINES)
<1>1. at \in Heads(log)
  BY DEF Heads, Blocks, IsHeader
<1>2. PICK m \in 0 .. Len(log[at].trace) : Taken(log, at, log[at].trace, m)
  BY HeaderFacts
<1>3. ~ EmptySlot(log, at) /\ log[at].trace \in Traces
  BY HeaderFacts
<1>4. ExpandTrace(log, log[at].trace, at) = Lines(log[at].trace, m)
  BY <1>2, <1>3, BlockExpands
<1>5. Turns(log)[at] = Turn(log, Turns(log), at)
  BY <1>1, TurnsFacts
<1> QED BY <1>1, <1>2, <1>3, <1>4, <1>5, LinesAreLines DEF Turn

LEMMA TurnsAreLines ==
  ASSUME NEW log, NEW cursor, Blocks(log, cursor), NEW h \in Heads(log)
  PROVE  Turns(log)[h] \in Seq(LINES)
<1> DEFINE Bad(at) == Turns(log)[at] \notin Seq(LINES)
           S == {k \in 0 .. BufferSlots : \E at \in Heads(log) : k = BufferSlots - at /\ Bad(at)}
<1>1. Heads(log) \subseteq Slots /\ BufferSlots \in Nat
  BY HeadFacts, BufferAssumption
<1>2. SUFFICES ASSUME S # {} PROVE FALSE
  <2>1. h \in Slots /\ BufferSlots - h \in 0 .. BufferSlots
    BY <1>1 DEF Slots
  <2> QED BY <2>1
<1>3. S \subseteq Nat
  OBVIOUS
<1>4. PICK k \in S : \A j \in S : k <= j
  <2> HIDE DEF S
  <2> QED BY <1>2, <1>3, LeastElement
<1>5. PICK at \in Heads(log) : k = BufferSlots - at /\ Bad(at)
  OBVIOUS
<1>6. at \in Slots /\ (EmptySlot(log, at) \/ IsHeader(log, at))
  BY <1>1, HeadFacts
<1>7. CASE EmptySlot(log, at)
  <2>1. Turns(log)[at] = <<>>
    BY <1>7, TurnsFacts DEF Turn
  <2> QED BY <1>5, <2>1, EmptySeq
<1>8. CASE IsHeader(log, at)
  <2> DEFINE next == End(log, at)
  <2>1. next \in Heads(log) /\ at < next
    BY <1>6, <1>8, HeaderFacts
  <2>2. BufferSlots - next \in 0 .. BufferSlots /\ BufferSlots - next < k /\ at \in Nat /\ next \in Nat
    BY <1>1, <1>5, <1>6, <2>1 DEF Slots
  <2> HIDE DEF next
  <2>3. ~ Bad(next)
    <3>1. SUFFICES ASSUME Bad(next) PROVE FALSE
      OBVIOUS
    <3>2. BufferSlots - next \in S
      BY <2>1, <2>2, <3>1
    <3>3. k <= BufferSlots - next
      BY <1>4, <3>2
    <3>4. k \in Nat
      OBVIOUS
    <3> QED BY <1>1, <2>2, <3>3, <3>4
  <2>4. /\ Turns(log)[at] = ExpandTrace(log, log[at].trace, at) \o Turns(log)[next]
        /\ ExpandTrace(log, log[at].trace, at) \in Seq(LINES)
    BY <1>6, <1>8, TurnOfHeader DEF next
  <2>5. Turns(log)[at] \in Seq(LINES)
    BY <2>3, <2>4, ConcatProperties
  <2> QED BY <1>5, <2>5
<1> QED BY <1>6, <1>7, <1>8

(* Two logs that are the same up to slot b, where no block lies across it. *)
SameUpTo(log, cursor, new, b) ==
  /\ b \in Heads(log) /\ b \in Heads(new) /\ Follows(log, cursor, b)
  /\ \A i \in Slots : i < b => new[i] = log[i]
  /\ \A i \in Slots : i < b /\ IsHeader(log, i) => End(log, i) <= b

(* What the whole log gives grows by s if what slot b and those after it   *)
(* give does, and nothing changes before.                                  *)
LEMMA ExpandedAppends ==
  ASSUME NEW log, NEW cursor, Blocks(log, cursor),
         NEW new, NEW cursor2, Blocks(new, cursor2),
         NEW b, SameUpTo(log, cursor, new, b),
         NEW s \in Seq(LINES), Turns(new)[b] = Turns(log)[b] \o s
  PROVE  Expanded(new) = Expanded(log) \o s
<1> DEFINE Is(at) == Turns(new)[at] = Turns(log)[at] \o s
           S == {k \in 0 .. BufferSlots : \E at \in Slots :
                   k = BufferSlots - at /\ at <= b /\ Follows(log, cursor, at) /\ ~ Is(at)}
<1>0. /\ b \in Heads(log) /\ b \in Heads(new) /\ Follows(log, cursor, b)
      /\ \A i \in Slots : i < b => new[i] = log[i]
      /\ \A i \in Slots : i < b /\ IsHeader(log, i) => End(log, i) <= b
  BY DEF SameUpTo
<1>1. Heads(log) \subseteq Slots /\ BufferSlots \in Nat /\ b \in Slots /\ cursor \in Slots
  BY <1>0, HeadFacts, BufferAssumption DEF Blocks
<1>2. SUFFICES ASSUME S # {} PROVE FALSE
  <2>1. BufferSlots - 0 \in 0 .. BufferSlots /\ 0 \in Slots /\ 0 <= b
    BY <1>1 DEF Slots
  <2>2. Follows(log, cursor, 0)
    BY DEF Blocks
  <2>3. Is(0)
    BY <2>1, <2>2
  <2> QED BY <2>3, TurnsFacts
<1>3. S \subseteq Nat
  OBVIOUS
<1>4. PICK k \in S : \A j \in S : k <= j
  <2> HIDE DEF S
  <2> QED BY <1>2, <1>3, LeastElement
<1>5. PICK at \in Slots : k = BufferSlots - at /\ at <= b /\ Follows(log, cursor, at) /\ ~ Is(at)
  OBVIOUS
<1>6. at # b
  BY <1>5
<1>7. at < b /\ b <= cursor /\ at # cursor /\ at \in Nat /\ b \in Nat
  BY <1>0, <1>1, <1>5, <1>6 DEF Slots, Follows
<1>8. IsHeader(log, at)
  BY <1>5, <1>7 DEF Follows
<1> DEFINE t == log[at].trace
           next == End(log, at)
<1>9. /\ t \in Traces /\ next \in Heads(log) /\ at < next /\ next <= b
      /\ Follows(log, cursor, next) /\ next \in Slots
  BY <1>0, <1>1, <1>7, <1>8, HeaderFacts
<1>10. PICK m \in 0 .. Len(t) : Taken(log, at, t, m)
  BY <1>8, HeaderFacts
<1>11. new[at] = log[at] /\ IsHeader(new, at) /\ End(new, at) = next
  BY <1>0, <1>7, <1>8 DEF IsHeader, End
<1>12. Taken(new, at, t, m)
  <2>1. at + LogBytes(t) <= b
    BY <1>9 DEF End
  <2> HIDE DEF t
  <2> QED BY <1>0, <1>1, <1>9, <1>10, <2>1, SameBlock
<1>13. ExpandTrace(log, t, at) = Lines(t, m) /\ ExpandTrace(new, t, at) = Lines(t, m)
  <2> HIDE DEF t
  <2> QED BY <1>9, <1>10, <1>12, BlockExpands
<1>14. /\ Turns(log)[at] = Lines(t, m) \o Turns(log)[next]
       /\ Turns(new)[at] = Lines(t, m) \o Turns(new)[next]
  <2>1. Turns(log)[at] = ExpandTrace(log, t, at) \o Turns(log)[next]
    BY <1>8, TurnOfHeader
  <2>2. Turns(new)[at] = ExpandTrace(new, new[at].trace, at) \o Turns(new)[End(new, at)]
    BY <1>11, TurnOfHeader
  <2> QED BY <1>11, <1>13, <2>1, <2>2
<1>15. Is(next)
  <2> HIDE DEF next
  <2>1. BufferSlots - next \in 0 .. BufferSlots /\ BufferSlots - next < k
    BY <1>1, <1>5, <1>7, <1>9 DEF Slots
  <2>2. SUFFICES ASSUME ~ Is(next) PROVE FALSE
    OBVIOUS
  <2>3. BufferSlots - next \in S
    BY <1>9, <2>1, <2>2
  <2>4. k <= BufferSlots - next /\ k \in Nat
    BY <1>4, <2>3
  <2> QED BY <1>1, <1>9, <2>1, <2>4 DEF Slots
<1>16. Lines(t, m) \in Seq(LINES) /\ Turns(log)[next] \in Seq(LINES)
  <2> HIDE DEF t, next
  <2> QED BY <1>9, LinesAreLines, TurnsAreLines
<1>17. (Lines(t, m) \o Turns(log)[next]) \o s = Lines(t, m) \o (Turns(log)[next] \o s)
  <2> DEFINE a == Lines(t, m)
             c == Turns(log)[next]
  <2>1. a \in Seq(LINES) /\ c \in Seq(LINES)
    BY <1>16
  <2> HIDE DEF a, c
  <2>2. (a \o c) \o s = a \o (c \o s)
    BY <2>1, LinesAssociate
  <2> QED BY <2>2 DEF a, c
<1> QED BY <1>5, <1>14, <1>15, <1>17
-----------------------------------------------------------------------------
(* Blocks do not overlap.                                                  *)
LEMMA BlocksApart ==
  ASSUME NEW log, NEW cursor, Blocks(log, cursor),
         NEW at \in Slots, IsHeader(log, at), NEW h \in Slots, IsHeader(log, h), at < h
  PROVE  End(log, at) <= h
<1> DEFINE t == log[at].trace
           n == Len(t)
<1>1. PICK m \in 0 .. n : Taken(log, at, t, m)
  BY HeaderFacts
<1>2. t \in Traces
  BY HeaderFacts
<1>3. n \in Nat /\ End(log, at) = at + (n + 1)
  BY <1>2, LogBytesFacts DEF End, LogBytes
<1>4. \A i \in 1 .. n : ~ IsHeader(log, at + i)
  BY <1>1 DEF Taken, IsHeader, EmptySlot, EMPTY_SLOT
<1> HIDE DEF n
<1>5. SUFFICES ASSUME h < End(log, at) PROVE FALSE
  BY <1>3 DEF Slots
<1>6. h - at \in 1 .. n /\ at + (h - at) = h
  BY <1>3, <1>5 DEF Slots
<1> QED BY <1>4, <1>6

(* The running trace has the block in front of the cursor, and has executed*)
(* its first m references.                                                 *)
InFront(log, cursor, t, m) ==
  /\ LogBytes(t) <= cursor /\ log[cursor - LogBytes(t)] = Header(t)
  /\ m \in 0 .. Len(t) /\ Taken(log, cursor - LogBytes(t), t, m)

LEMMA ResetLog == Blocks(Reset, 0) /\ Expanded(Reset) = <<>>
<1>1. DOMAIN Reset = Slots /\ \A i \in Slots : Reset[i] = EMPTY_SLOT
  BY DEF Reset, Slots
<1>2. 0 \in Slots /\ EMPTY_SLOT.holds # "header"
  BY BufferAssumption DEF Slots, EMPTY_SLOT
<1>3. Blocks(Reset, 0)
  BY <1>1, <1>2 DEF Blocks, EmptyBeyond, EmptySlot, Follows, IsHeader, Slots
<1>4. Turns(Reset)[0] = <<>>
  BY <1>1, <1>2, <1>3, HeadFacts, TurnsFacts DEF Turn, EmptySlot
<1> QED BY <1>3, <1>4, TurnsFacts

LEMMA BlockBegins ==
  ASSUME NEW log, NEW cursor, Blocks(log, cursor),
         NEW t \in Traces, cursor + LogBytes(t) < BufferSlots,
         NEW new, DOMAIN new = Slots, new[cursor] = Header(t),
         \A i \in Slots \ {cursor} : new[i] = log[i]
  PROVE  /\ Blocks(new, cursor + LogBytes(t))
         /\ InFront(new, cursor + LogBytes(t), t, 0)
         /\ Expanded(new) = Expanded(log)
<1> DEFINE n == Len(t)
           end == cursor + LogBytes(t)
<1>1. n \in Nat /\ LogBytes(t) = n + 1 /\ BufferSlots \in Nat /\ cursor \in Slots
  BY LogBytesFacts, BufferAssumption DEF LogBytes, Blocks
<1>2. DOMAIN new = Slots /\ new[cursor] = Header(t) /\ \A i \in Slots \ {cursor} : new[i] = log[i]
  OBVIOUS
<1>3. end \in Slots /\ end - LogBytes(t) = cursor /\ LogBytes(t) <= end /\ cursor \in 0 .. end - 1
  <2> HIDE DEF n
  <2> QED BY <1>1 DEF Slots
<1>4. \A i \in Slots : i > cursor => EmptySlot(new, i)
  <2> HIDE DEF n, end
  <2> QED BY <1>1, <1>2 DEF Blocks, EmptyBeyond, EmptySlot, Slots
<1>5. Taken(new, cursor, t, 0)
  <2>1. ASSUME NEW i \in 1 .. n PROVE EmptySlot(new, cursor + i)
    <3> HIDE DEF n
    <3>1. cursor + i \in Slots /\ cursor + i > cursor
      BY <1>1, <1>3 DEF Slots
    <3> QED BY <1>4, <3>1
  <2>2. \A i \in 1 .. n : ~ (i <= 0)
    BY <1>1
  <2> QED BY <2>1, <2>2 DEF Taken
<1>6. IsHeader(new, cursor) /\ new[cursor].trace = t /\ End(new, cursor) = end
  BY <1>2 DEF IsHeader, Header, End
<1> HIDE DEF end
<1>7a. EmptySlot(new, end) /\ EmptyBeyond(new, end)
  <2> HIDE DEF n
  <2>1. \A i \in end .. BufferSlots - 1 : i \in Slots /\ i > cursor
    BY <1>1, <1>3 DEF Slots
  <2>2. end \in end .. BufferSlots - 1
    BY <1>1, <1>3 DEF Slots
  <2> QED BY <1>4, <2>1, <2>2 DEF EmptyBeyond
<1> USE DEF end
<1>7. 0 \in 0 .. n /\ InFront(new, end, t, 0)
  BY <1>1, <1>2, <1>3, <1>5 DEF InFront
<1> HIDE DEF n, end
<1>8. ASSUME NEW at \in 0 .. end, Follows(log, cursor, at) PROVE Follows(new, end, at)
  <2>1. CASE at = cursor
    BY <1>3, <1>6, <2>1 DEF Follows
  <2>2. CASE at # cursor
    <3>1. at \in 0 .. cursor - 1 /\ IsHeader(log, at)
      BY <1>8, <2>2 DEF Follows
    <3>2. at \in Slots \ {cursor} /\ at \in 0 .. end - 1
      BY <1>1, <1>3, <3>1 DEF Slots
    <3> QED BY <1>2, <3>1, <3>2 DEF Follows, IsHeader
  <2> QED BY <2>1, <2>2
<1>9. ASSUME NEW at \in Slots, IsHeader(new, at) PROVE Block(new, end, at)
  <2>1. CASE at = cursor
    BY <1>5, <1>6, <1>7, <2>1 DEF Block, Follows, n
  <2>2. CASE at # cursor
    <3>1. new[at] = log[at] /\ IsHeader(log, at) /\ End(new, at) = End(log, at)
      BY <1>2, <1>9, <2>2 DEF IsHeader, End
    <3>2. /\ log[at].trace \in Traces /\ Follows(log, cursor, End(log, at))
          /\ at < End(log, at) /\ End(log, at) <= cursor /\ End(log, at) \in Slots
      BY <3>1, HeaderFacts, HeadFacts
    <3>3. PICK m \in 0 .. Len(log[at].trace) : Taken(log, at, log[at].trace, m)
      BY <3>1, HeaderFacts
    <3>4. \A i \in Slots : i < cursor => new[i] = log[i]
      BY <1>1, <1>2 DEF Slots
    <3>5. Taken(new, at, log[at].trace, m)
      BY <1>1, <3>2, <3>3, <3>4, SameBlock DEF End
    <3>6. End(log, at) \in 0 .. end
      BY <1>1, <1>3, <3>2 DEF Slots
    <3>7. Follows(new, end, End(new, at))
      BY <1>8, <3>1, <3>2, <3>6
    <3> QED BY <3>1, <3>2, <3>5, <3>7 DEF Block
  <2> QED BY <2>1, <2>2
<1>10. Blocks(new, end)
  <2>2. 0 \in 0 .. end
    BY <1>3 DEF Slots
  <2>3. Follows(new, end, 0)
    BY <1>8, <2>2 DEF Blocks
  <2> QED BY <1>2, <1>3, <1>7a, <1>9, <2>3 DEF Blocks
<1>11. cursor \in Heads(log) /\ cursor \in Heads(new)
  BY <1>1, <1>2, <1>6, HeadFacts DEF Heads, IsHeader
<1>12. Turns(log)[cursor] = <<>>
  <2>1. EmptySlot(log, cursor)
    BY <1>1 DEF Blocks, EmptyBeyond, Slots
  <2> QED BY <1>11, <2>1, TurnsFacts DEF Turn
<1>13. Turns(new)[cursor] = <<>>
  <2>1. Turns(new)[end] = <<>>
    <3>1. end \in Heads(new)
      BY <1>10, HeadFacts
    <3> QED BY <1>7a, <1>10, <3>1, TurnsFacts DEF Turn
  <2>2. ExpandTrace(new, t, cursor) = <<>>
    BY <1>5, <1>7, BlockExpands, LinesAreLines DEF n
  <2>3. Turns(new)[cursor] = ExpandTrace(new, t, cursor) \o Turns(new)[end]
    BY <1>1, <1>6, <1>10, TurnOfHeader
  <2>4. <<>> \in Seq(LINES)
    BY EmptySeq
  <2> QED BY <2>1, <2>2, <2>3, <2>4, ConcatEmptySeq
<1>14. Expanded(new) = Expanded(log)
  <2> DEFINE none == <<>>
  <2>1. none \in Seq(LINES) /\ Turns(new)[cursor] = Turns(log)[cursor] \o none
    BY <1>12, <1>13, EmptySeq, ConcatEmptySeq
  <2> HIDE DEF none
  <2>2. SameUpTo(log, cursor, new, cursor)
    <3>1. /\ \A i \in Slots : i < cursor => new[i] = log[i]
          /\ \A i \in Slots : i < cursor /\ IsHeader(log, i) => End(log, i) <= cursor
      BY <1>1, <1>2, HeaderFacts DEF Slots
    <3> QED BY <1>11, <3>1 DEF SameUpTo, Follows
  <2>3. Expanded(new) = Expanded(log) \o none
    BY <1>10, <2>1, <2>2, ExpandedAppends
  <2>4. Expanded(log) \in Seq(LINES)
    BY HeadFacts, TurnsFacts, TurnsAreLines
  <2> QED BY <2>3, <2>4, ConcatEmptySeq DEF none
<1> QED BY <1>7, <1>10, <1>14 DEF end
LEMMA SlotTaken ==
  ASSUME NEW log, NEW cursor, Blocks(log, cursor),
         NEW t \in Traces, NEW m, InFront(log, cursor, t, m), m < Len(t),
         NEW at \in Nat, at + LogBytes(t) = cursor, NEW adx,
         NEW new, DOMAIN new = Slots, new[at + (m + 1)] = Immediate(adx),
         \A i \in Slots \ {at + (m + 1)} : new[i] = log[i]
  PROVE  /\ at + (m + 1) \in Slots
         /\ Blocks(new, cursor)
         /\ InFront(new, cursor, t, m + 1)
         /\ Expanded(new) = Expanded(log) \o <<Line(t[m + 1])>>
<1> DEFINE n == Len(t)
           j == at + (m + 1)
<1>1. /\ n \in Nat /\ LogBytes(t) = n + 1 /\ BufferSlots \in Nat /\ cursor \in Slots
      /\ m \in 0 .. n /\ m + 1 \in 1 .. n /\ m + 1 \in 0 .. n
  BY LogBytesFacts, BufferAssumption DEF LogBytes, Blocks, InFront
<1>2. at + LogBytes(t) = cursor /\ at \in Nat /\ at + n < cursor /\ at = cursor - LogBytes(t)
  <2>1. LogBytes(t) <= cursor
    BY DEF InFront
  <2> HIDE DEF n
  <2> QED BY <1>1, <2>1 DEF Slots
<1>3. /\ log[at] = Header(t) /\ Taken(log, at, t, m) /\ m \in Nat
  BY <1>1, <1>2 DEF InFront
<1>4. at \in Slots /\ j \in Slots /\ at < j /\ j < cursor
  <2> HIDE DEF n
  <2> QED BY <1>1, <1>2 DEF Slots
<1>5. /\ DOMAIN new = Slots /\ new[j] = Immediate(adx) /\ new[at] = Header(t)
      /\ \A i \in Slots \ {j} : new[i] = log[i]
  BY <1>3, <1>4
<1>6. ~ IsHeader(new, j) /\ new[j].holds = "address"
  BY <1>5 DEF IsHeader, Immediate
<1>7. /\ IsHeader(log, at) /\ log[at].trace = t /\ End(log, at) = cursor
      /\ IsHeader(new, at) /\ new[at].trace = t /\ End(new, at) = cursor
  BY <1>2, <1>3, <1>5 DEF IsHeader, Header, End
<1>8. Taken(new, at, t, m + 1)
  <2>1. ASSUME NEW i \in 1 .. n
        PROVE  IF i <= m + 1 THEN new[at + i].holds = "address" ELSE EmptySlot(new, at + i)
    <3>1. IF i <= m THEN log[at + i].holds = "address" ELSE EmptySlot(log, at + i)
      BY <1>3 DEF Taken
    <3> HIDE DEF n
    <3>2. CASE i = m + 1
      <4>1. at + i = j /\ i <= m + 1
        BY <1>1, <3>2
      <4> QED BY <1>6, <4>1
    <3>3. CASE i # m + 1
      <4>1. at + i \in Slots \ {j} /\ (i <= m + 1 <=> i <= m)
        BY <1>1, <1>2, <3>3 DEF Slots
      <4>2. new[at + i] = log[at + i]
        BY <1>5, <4>1
      <4> QED BY <3>1, <4>1, <4>2 DEF EmptySlot
    <3> QED BY <3>2, <3>3
  <2> QED BY <2>1 DEF Taken
<1>9. InFront(new, cursor, t, m + 1)
  BY <1>1, <1>2, <1>5, <1>8 DEF InFront, Slots
<1> HIDE DEF j, n
<1>10. ASSUME NEW i \in Nat, Follows(log, cursor, i) PROVE Follows(new, cursor, i)
  <2>1. CASE i = cursor
    BY <2>1 DEF Follows
  <2>2. CASE i # cursor
    <3>1. i \in 0 .. cursor - 1 /\ IsHeader(log, i) /\ i \in Slots
      BY <1>1, <1>10, <2>2 DEF Follows, Slots
    <3>2. i # j
      <4>1. log[j] = log[at + (m + 1)] /\ m + 1 \in 1 .. Len(t)
        BY <1>1 DEF j, n
      <4>2. ~ (m + 1 <= m)
        BY <1>3
      <4>3. EmptySlot(log, j)
        BY <1>3, <4>1, <4>2 DEF Taken, EmptySlot
      <4> QED BY <3>1, <4>3, HeaderFacts
    <3> QED BY <1>5, <3>1, <3>2 DEF Follows, IsHeader
  <2> QED BY <2>1, <2>2
<1>11. \A i \in Slots : i < at => new[i] = log[i]
  BY <1>4, <1>5 DEF Slots
<1>12. ASSUME NEW i \in Slots, IsHeader(new, i), i # at
       PROVE  /\ i < at /\ new[i] = log[i] /\ IsHeader(log, i)
              /\ End(log, i) <= at /\ Block(new, cursor, i)
  <2>1. new[i] = log[i] /\ IsHeader(log, i) /\ End(new, i) = End(log, i)
    BY <1>5, <1>6, <1>12 DEF IsHeader, End
  <2>2. i < End(log, i) /\ End(log, i) <= cursor /\ End(log, i) \in Slots
        /\ log[i].trace \in Traces /\ Follows(log, cursor, End(log, i))
    BY <2>1, HeaderFacts, HeadFacts
  <2>3. i < at
    <3>1. SUFFICES ASSUME at < i PROVE FALSE
      BY <1>4, <1>12 DEF Slots
    <3>2. cursor <= i
      BY <1>4, <1>7, <2>1, <3>1, BlocksApart
    <3> QED BY <1>1, <2>2, <3>2 DEF Slots
  <2>4. End(log, i) <= at
    BY <1>4, <1>7, <2>1, <2>3, BlocksApart
  <2>5. PICK k \in 0 .. Len(log[i].trace) : Taken(log, i, log[i].trace, k)
    BY <2>1, HeaderFacts
  <2>6. Taken(new, i, log[i].trace, k)
    BY <1>4, <1>11, <2>2, <2>4, <2>5, SameBlock DEF End
  <2>7. Follows(new, cursor, End(new, i))
    BY <1>10, <2>1, <2>2 DEF Slots
  <2> QED BY <2>1, <2>2, <2>3, <2>4, <2>6, <2>7 DEF Block
<1>13. Blocks(new, cursor)
  <2>1. EmptyBeyond(new, cursor)
    <3>1. \A i \in cursor .. BufferSlots - 1 : i \in Slots \ {j} /\ EmptySlot(log, i)
      BY <1>1, <1>4 DEF Slots, Blocks, EmptyBeyond
    <3> QED BY <1>5, <3>1 DEF EmptyBeyond, EmptySlot
  <2>2. Follows(new, cursor, 0)
    BY <1>10 DEF Blocks
  <2>3. Block(new, cursor, at)
    BY <1>1, <1>7, <1>8 DEF Block, Follows, n
  <2> QED BY <1>1, <1>5, <1>12, <2>1, <2>2, <2>3 DEF Blocks
<1>14. Turns(log)[cursor] = <<>> /\ Turns(new)[cursor] = <<>>
  <2>1. EmptySlot(log, cursor) /\ EmptySlot(new, cursor)
    BY <1>1, <1>13 DEF Blocks, EmptyBeyond, Slots
  <2>2. cursor \in Heads(log) /\ cursor \in Heads(new)
    BY <1>13, HeadFacts
  <2> QED BY <1>13, <2>1, <2>2, TurnsFacts DEF Turn
<1>15. Turns(log)[at] = Lines(t, m) /\ Turns(new)[at] = Lines(t, m + 1)
  <2>1. Lines(t, m) \in Seq(LINES) /\ Lines(t, m + 1) \in Seq(LINES)
    BY <1>1, LinesAreLines DEF n
  <2>2. ExpandTrace(log, t, at) = Lines(t, m) /\ ExpandTrace(new, t, at) = Lines(t, m + 1)
    BY <1>1, <1>3, <1>8, BlockExpands DEF n
  <2>3. Turns(log)[at] = ExpandTrace(log, t, at) \o Turns(log)[cursor]
    BY <1>4, <1>7, TurnOfHeader
  <2>4. Turns(new)[at] = ExpandTrace(new, t, at) \o Turns(new)[cursor]
    BY <1>4, <1>7, <1>13, TurnOfHeader
  <2> QED BY <1>14, <2>1, <2>2, <2>3, <2>4, ConcatEmptySeq
<1>16. t[m + 1] \in REF
  BY <1>1, TracesAssumption, ElementOfSeq DEF n
<1> DEFINE s == <<Line(t[m + 1])>>
<1>17. s \in Seq(LINES) /\ Turns(new)[at] = Turns(log)[at] \o s
  <2>1. Line(t[m + 1]) \in LINES /\ Lines(t, m) \in Seq(LINES)
    BY <1>1, <1>16, LinesAreLines DEF LINES, n
  <2>2. (m + 1) - 1 = m
    BY <1>3
  <2>3. Lines(t, m + 1) = Append(Lines(t, m), Line(t[m + 1]))
    BY <1>1, <2>2, LinesGrow DEF n
  <2>4. Append(Lines(t, m), Line(t[m + 1])) = Lines(t, m) \o s
    BY <2>1, AppendIsConcat
  <2>5. s \in Seq(LINES)
    BY <2>1
  <2> QED BY <1>15, <2>3, <2>4, <2>5
<1> HIDE DEF s
<1>18. SameUpTo(log, cursor, new, at)
  <2>1. at \in Heads(log) /\ at \in Heads(new)
    BY <1>4, <1>7, <1>13, TurnOfHeader
  <2>2. Follows(log, cursor, at)
    BY <1>1, <1>4, <1>7 DEF Follows, Slots
  <2>3. \A i \in Slots : i < at /\ IsHeader(log, i) => End(log, i) <= at
    BY <1>4, <1>7, BlocksApart
  <2> QED BY <1>11, <2>1, <2>2, <2>3 DEF SameUpTo
<1>19. Expanded(new) = Expanded(log) \o s
  BY <1>13, <1>17, <1>18, ExpandedAppends
<1> QED BY <1>4, <1>9, <1>13, <1>19 DEF s, j
-----------------------------------------------------------------------------
(* The invariant: until the thread ends the log is made of blocks, the last*)
(* of them that of the running trace with what it has executed; and with   *)
(* the file it has all the references executed.                            *)
LogInv == ~finished =>
  /\ Blocks(data, logCursor)
  /\ current \in Traces \cup {<<>>}
  /\ current # <<>> => nextRef \in Nat /\ InFront(data, logCursor, current, nextRef - 1)
  /\ current = <<>> => nextRef = 1

Executed == [ref : REF, address : Addresses]

FileInv ==
  /\ executed \in Seq(Executed) /\ ofile \in Seq(LINES) /\ finished \in BOOLEAN
  /\ TraceIsComplete

LEMMA ExpandedIsLines ==
  ASSUME NEW log, NEW cursor, Blocks(log, cursor)
  PROVE  Expanded(log) \in Seq(LINES)
BY HeadFacts, TurnsFacts, TurnsAreLines

LinesOf(e) == [i \in DOMAIN e |-> Line(e[i].ref)]

LEMMA LinesOfAppend ==
  ASSUME NEW e \in Seq(Executed), NEW x \in Executed
  PROVE  LinesOf(Append(e, x)) = LinesOf(e) \o <<Line(x.ref)>>
<1> DEFINE a == Append(e, x)
           c == LinesOf(e) \o <<Line(x.ref)>>
           n == Len(e)
<1>1. /\ n \in Nat /\ DOMAIN e = 1 .. n /\ \A i \in 1 .. n : e[i] \in Executed
  BY LenProperties, ElementOfSeq
<1>2. /\ a \in Seq(Executed) /\ Len(a) = n + 1 /\ a[n + 1] = x
      /\ \A i \in 1 .. n : a[i] = e[i]
  BY AppendProperties
<1>3. DOMAIN a = 1 .. n + 1
  <2> HIDE DEF a, n
  <2> QED BY <1>2, LenProperties
<1>4. LinesOf(e) \in Seq(LINES) /\ Len(LinesOf(e)) = n /\ <<Line(x.ref)>> \in Seq(LINES)
  <2>1. x.ref \in REF /\ \A i \in 1 .. n : e[i].ref \in REF
    BY <1>1 DEF Executed
  <2>2. LinesOf(e) \in [1 .. n -> LINES]
    BY <1>1, <2>1 DEF LinesOf, LINES
  <2>3. Line(x.ref) \in LINES
    BY <2>1 DEF LINES
  <2> HIDE DEF n
  <2>4. LinesOf(e) \in Seq(LINES) /\ Len(LinesOf(e)) = n
    BY <1>1, <2>2, SeqDef
  <2> QED BY <2>3, <2>4
<1>5. /\ c \in Seq(LINES) /\ Len(c) = n + 1 /\ c[n + 1] = Line(x.ref)
      /\ \A i \in 1 .. n : c[i] = Line(e[i].ref)
  <2> DEFINE p == LinesOf(e)
             q == <<Line(x.ref)>>
  <2>1. p \in Seq(LINES) /\ Len(p) = n /\ q \in Seq(LINES) /\ Len(q) = 1 /\ q[1] = Line(x.ref)
        /\ \A i \in 1 .. n : p[i] = Line(e[i].ref)
    BY <1>1, <1>4 DEF LinesOf
  <2> HIDE DEF p, q, n
  <2> DEFINE pq == p \o q
  <2>a. /\ pq \in Seq(LINES) /\ Len(pq) = Len(p) + Len(q)
        /\ \A i \in 1 .. Len(p) + Len(q) : pq[i] = IF i <= Len(p) THEN p[i] ELSE q[i - Len(p)]
    BY <2>1, ConcatProperties
  <2> HIDE DEF pq
  <2>2. /\ pq \in Seq(LINES) /\ Len(pq) = n + 1
        /\ \A i \in 1 .. n + 1 : pq[i] = IF i <= n THEN p[i] ELSE q[i - n]
    BY <2>a, <2>1
  <2>3. n + 1 \in 1 .. n + 1 /\ ~ (n + 1 <= n) /\ (n + 1) - n = 1
        /\ \A i \in 1 .. n : i \in 1 .. n + 1 /\ i <= n
    BY <1>1
  <2>4. pq[n + 1] = Line(x.ref) /\ \A i \in 1 .. n : pq[i] = Line(e[i].ref)
    BY <2>1, <2>2, <2>3
  <2> QED BY <2>2, <2>4 DEF p, q, pq
<1> HIDE DEF a, c, n
<1>6. DOMAIN c = 1 .. n + 1 /\ c = [i \in DOMAIN c |-> c[i]]
  BY <1>5, LenProperties
<1>7. \A i \in 1 .. n + 1 : c[i] = Line(a[i].ref)
  <2>1. \A i \in 1 .. n + 1 : i = n + 1 \/ i \in 1 .. n
    BY <1>1
  <2> QED BY <1>2, <1>5, <2>1
<1>8. c = LinesOf(a)
  BY <1>3, <1>6, <1>7 DEF LinesOf
<1> QED BY <1>8 DEF a, c

LEMMA InitTrace == Init => LogInv /\ FileInv
<1> SUFFICES ASSUME Init PROVE LogInv /\ FileInv
  OBVIOUS
<1>1. Blocks(data, logCursor) /\ Expanded(data) = <<>>
  BY ResetLog DEF Init
<1>2. LogInv
  BY <1>1 DEF Init, LogInv
<1>3. executed = <<>> /\ ofile = <<>> /\ finished = FALSE
  BY DEF Init
<1>4. LinesOf(<<>>) = <<>> /\ <<>> \o <<>> = <<>>
  BY DEF LinesOf
<1>5. TraceIsComplete
  BY <1>1, <1>3, <1>4 DEF TraceIsComplete, LinesOf
<1> QED BY <1>2, <1>3, <1>5, EmptySeq DEF FileInv

-----------------------------------------------------------------------------
LEMMA BeginTraceKeeps ==
  ASSUME LogInv, FileInv, NEW t \in Traces, BeginTrace(t)
  PROVE  LogInv' /\ FileInv'
<1>1. /\ ~ finished /\ finished' = finished /\ current' = t /\ nextRef' = 1
      /\ executed' = executed /\ Blocks(data, logCursor) /\ logCursor \in Slots
  BY DEF LogInv, BeginTrace, Blocks
<1>2. LogBytes(t) \in 1 .. BufferSlots - 1 /\ BufferSlots \in Nat /\ t # <<>>
  BY LogBytesFacts, BufferAssumption
<1>3. executed \in Seq(Executed) /\ ofile \in Seq(LINES) /\ Expanded(data) \in Seq(LINES)
  BY <1>1, ExpandedIsLines DEF FileInv
<1>4. ofile \o Expanded(data) = LinesOf(executed)
  BY <1>1 DEF FileInv, TraceIsComplete, LinesOf
<1>5. /\ Blocks(data', logCursor') /\ InFront(data', logCursor', t, 0)
      /\ ofile' \in Seq(LINES) /\ ofile' \o Expanded(data') = ofile \o Expanded(data)
  <2>1. CASE NoRoom(t)
    <3> DEFINE log == Reset
    <3>1. Blocks(log, 0) /\ Expanded(log) = <<>> /\ 0 \in Slots
      BY ResetLog DEF Blocks
    <3>2. data' = [log EXCEPT ![0] = Header(t)] /\ logCursor' = 0 + LogBytes(t)
      BY <1>2, <2>1 DEF BeginTrace
    <3>3. ofile' = ofile \o Expanded(data)
      BY <2>1 DEF BeginTrace
    <3> HIDE DEF log
    <3>4. /\ DOMAIN data' = Slots /\ data'[0] = Header(t)
          /\ \A i \in Slots \ {0} : data'[i] = log[i]
      BY <3>1, <3>2 DEF Blocks
    <3>5. 0 + LogBytes(t) < BufferSlots
      BY <1>2
    <3>a. /\ Blocks(data', 0 + LogBytes(t)) /\ InFront(data', 0 + LogBytes(t), t, 0)
          /\ Expanded(data') = Expanded(log)
      BY <3>1, <3>4, <3>5, BlockBegins
    <3>6. /\ Blocks(data', logCursor') /\ InFront(data', logCursor', t, 0)
          /\ Expanded(data') = <<>>
      BY <3>1, <3>2, <3>a
    <3>7. ofile' \in Seq(LINES)
      BY <1>3, <3>3, ConcatProperties
    <3> QED BY <3>3, <3>6, <3>7, ConcatEmptySeq
  <2>2. CASE ~ NoRoom(t)
    <3>1. data' = [data EXCEPT ![logCursor] = Header(t)] /\ logCursor' = logCursor + LogBytes(t)
          /\ ofile' = ofile
      BY <2>2 DEF BeginTrace
    <3>2. /\ DOMAIN data' = Slots /\ data'[logCursor] = Header(t)
          /\ \A i \in Slots \ {logCursor} : data'[i] = data[i]
      BY <1>1, <3>1 DEF Blocks
    <3>3. logCursor + LogBytes(t) < BufferSlots
      BY <1>1, <1>2, <2>2 DEF NoRoom, Slots
    <3>a. /\ Blocks(data', logCursor + LogBytes(t)) /\ InFront(data', logCursor + LogBytes(t), t, 0)
          /\ Expanded(data') = Expanded(data)
      BY <1>1, <3>2, <3>3, BlockBegins
    <3>4. /\ Blocks(data', logCursor') /\ InFront(data', logCursor', t, 0)
          /\ Expanded(data') = Expanded(data)
      BY <3>1, <3>a
    <3> QED BY <1>3, <3>1, <3>4
  <2> QED BY <2>1, <2>2
<1>6. LogInv'
  BY <1>1, <1>2, <1>5 DEF LogInv
<1>7. TraceIsComplete'
  BY <1>1, <1>4, <1>5 DEF TraceIsComplete, LinesOf
<1> QED BY <1>1, <1>3, <1>5, <1>6, <1>7 DEF FileInv

LEMMA RecordImmediateKeeps ==
  ASSUME LogInv, FileInv, NEW adx \in Addresses, RecordImmediate(adx)
  PROVE  LogInv' /\ FileInv'
<1>1. /\ ~ finished /\ finished' = finished /\ current' = current /\ logCursor' = logCursor
      /\ ofile' = ofile /\ nextRef' = nextRef + 1 /\ nextRef <= Len(current)
      /\ executed' = Append(executed, [ref |-> current[nextRef], address |-> adx])
      /\ data' = [data EXCEPT ![logCursor - LogBytes(current) + nextRef] = Immediate(adx)]
  BY DEF RecordImmediate
<1>2. Blocks(data, logCursor) /\ logCursor \in Slots
  BY <1>1 DEF LogInv, Blocks
<1>3. current # <<>>
  BY <1>1 DEF LogInv
<1>4. current \in Traces /\ nextRef \in Nat /\ InFront(data, logCursor, current, nextRef - 1)
  BY <1>1, <1>3 DEF LogInv
<1> DEFINE n == Len(current)
           at == logCursor - LogBytes(current)
           m == nextRef - 1
<1>5. n \in Nat /\ LogBytes(current) = n + 1 /\ LogBytes(current) <= logCursor /\ m \in 0 .. n
  BY <1>4, LogBytesFacts DEF InFront, LogBytes
<1> HIDE DEF n
<1>6. /\ at \in Nat /\ at + LogBytes(current) = logCursor /\ m + 1 = nextRef
      /\ m < n /\ at + nextRef = at + (m + 1) /\ nextRef \in 1 .. n /\ nextRef = (nextRef + 1) - 1
      /\ at + nextRef \in Slots /\ nextRef + 1 \in Nat
  BY <1>1, <1>2, <1>4, <1>5, BufferAssumption DEF n, Slots
<1> HIDE DEF at, m
<1>7. /\ DOMAIN data' = Slots /\ data'[at + (m + 1)] = Immediate(adx)
      /\ \A i \in Slots \ {at + (m + 1)} : data'[i] = data[i]
  <2>1. data' = [data EXCEPT ![at + nextRef] = Immediate(adx)] /\ DOMAIN data = Slots
    BY <1>1, <1>2 DEF at, Blocks
  <2> QED BY <1>6, <2>1
<1>8. InFront(data, logCursor, current, m) /\ m < Len(current)
  BY <1>4, <1>6 DEF m, n
<1>9. /\ Blocks(data', logCursor) /\ InFront(data', logCursor, current, m + 1)
      /\ Expanded(data') = Expanded(data) \o <<Line(current[m + 1])>>
  BY <1>2, <1>4, <1>6, <1>7, <1>8, SlotTaken
<1>10. LogInv'
  BY <1>1, <1>3, <1>4, <1>6, <1>9 DEF LogInv
<1> DEFINE x == [ref |-> current[nextRef], address |-> adx]
           last == <<Line(current[nextRef])>>
<1>11. current[nextRef] \in REF
  BY <1>4, <1>6, TracesAssumption, ElementOfSeq DEF n
<1>12. x \in Executed /\ x.ref = current[nextRef] /\ last \in Seq(LINES)
  <2>1. Line(current[nextRef]) \in LINES
    BY <1>11 DEF LINES
  <2> QED BY <1>11, <2>1 DEF Executed
<1>13. /\ executed \in Seq(Executed) /\ ofile \in Seq(LINES) /\ Expanded(data) \in Seq(LINES)
       /\ ofile \o Expanded(data) = LinesOf(executed)
  BY <1>1, <1>2, ExpandedIsLines DEF FileInv, TraceIsComplete, LinesOf
<1>14. executed' \in Seq(Executed) /\ LinesOf(executed') = LinesOf(executed) \o last
  <2>1. LinesOf(Append(executed, x)) = LinesOf(executed) \o last
    <3> HIDE DEF x
    <3> QED BY <1>12, <1>13, LinesOfAppend
  <2>2. Append(executed, x) \in Seq(Executed)
    <3> HIDE DEF x
    <3> QED BY <1>12, <1>13, AppendProperties
  <2> QED BY <1>1, <2>1, <2>2
<1> HIDE DEF x
<1>15. ofile' \o Expanded(data') = LinesOf(executed')
  <2>1. Expanded(data') = Expanded(data) \o last
    BY <1>6, <1>9
  <2> HIDE DEF last
  <2>2. ofile \o (Expanded(data) \o last) = (ofile \o Expanded(data)) \o last
    BY <1>12, <1>13, LinesAssociate
  <2> QED BY <1>1, <1>13, <1>14, <2>1, <2>2
<1>16. TraceIsComplete'
  BY <1>1, <1>15 DEF TraceIsComplete, LinesOf
<1> QED BY <1>1, <1>10, <1>13, <1>14, <1>16 DEF FileInv

LEMMA ThreadFiniKeeps ==
  ASSUME LogInv, FileInv, ThreadFini
  PROVE  LogInv' /\ FileInv'
<1>1. /\ ~ finished /\ finished' = TRUE /\ executed' = executed
      /\ ofile' = ofile \o Expanded(data) /\ Blocks(data, logCursor)
  BY DEF LogInv, ThreadFini
<1>2. ofile \in Seq(LINES) /\ Expanded(data) \in Seq(LINES) /\ executed \in Seq(Executed)
      /\ ofile \o Expanded(data) = LinesOf(executed)
  BY <1>1, ExpandedIsLines DEF FileInv, TraceIsComplete, LinesOf
<1>3. ofile' \in Seq(LINES) /\ ofile' \o <<>> = ofile'
  BY <1>1, <1>2, ConcatProperties, ConcatEmptySeq
<1>4. TraceIsComplete'
  BY <1>1, <1>2, <1>3 DEF TraceIsComplete, LinesOf
<1> QED BY <1>1, <1>2, <1>3, <1>4 DEF LogInv, FileInv

LEMMA NextKeepsTrace == LogInv /\ FileInv /\ [Next]_vars => LogInv' /\ FileInv'
<1>1. CASE UNCHANGED vars
  BY <1>1 DEF vars, LogInv, FileInv, TraceIsComplete
<1> QED BY <1>1, BeginTraceKeeps, RecordImmediateKeeps, ThreadFiniKeeps DEF Next

(* There is an empty slot after the last trace of the log, where Expand    *)
(* stops (memtrace.cpp:458, 479): TraceAllocIf's comparison keeps one free *)
(* whatever traces follow each other and however early they are left.      *)
THEOREM ExpansionStops == Spec => []ExpandStops
<1>1. LogInv => ExpandStops
  BY BufferAssumption DEF LogInv, ExpandStops, Blocks, EmptyBeyond, InFront, Slots
<1> QED BY InitTrace, NextKeepsTrace, <1>1, PTL DEF Spec

(* The file and the log together hold the references executed, each once   *)
(* and in order, whatever traces follow each other, however early they are *)
(* left, and however often the log is expanded (memtrace.cpp:414-468).     *)
THEOREM FilesAreComplete == Spec => []TraceIsComplete
<1>1. FileInv => TraceIsComplete
  BY DEF FileInv
<1> QED BY InitTrace, NextKeepsTrace, <1>1, PTL DEF Spec

=============================================================================
