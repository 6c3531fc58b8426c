-------------------------- MODULE CacheSet_proofs --------------------------
(***************************************************************************)
(* A cache set finds the valid line of a tag, finds a victim whenever it is*)
(* full, never takes the line used last for one, and so is a map of lines  *)
(* to states for its controller, for every number of lines and tags.       *)
(***************************************************************************)
EXTENDS CacheSet, FiniteSetTheorems, TLAPS

LinesTyped(L) == L \in [Lines -> CacheLine]

(* No line in front of a valid one has the same tag, valid or not.         *)
FirstIsValid(L) == \A i, j \in Lines : i < j /\ L[j].valid => L[i].tag # L[j].tag

(* At most one valid line has LRU value 0.                                 *)
OneZero(L) == \A i, j \in Lines :
  L[i].valid /\ L[j].valid /\ L[i].lru = 0 /\ L[j].lru = 0 => i = j

LinesInv(L) == LinesTyped(L) /\ FirstIsValid(L) /\ OneZero(L)

Inv == LinesInv(lineArry)

-----------------------------------------------------------------------------
(* Counting lines.                                                         *)

LEMMA LinesFinite ==
  /\ LinesPerSet \in Nat \ {0}
  /\ IsFiniteSet(Lines) /\ Cardinality(Lines) = LinesPerSet
  /\ \A S \in SUBSET Lines : IsFiniteSet(S) /\ Cardinality(S) \in Nat
<1>1. LinesPerSet \in Nat \ {0}
  BY LinesPerSetAssumption
<1>2. IsFiniteSet(Lines) /\ Cardinality(Lines) = LinesPerSet
  BY <1>1, FS_Interval DEF Lines
<1> QED BY <1>1, <1>2, FS_Subset, FS_CardinalityType

LEMMA FewerLines ==
  ASSUME NEW i \in Lines, NEW S \in SUBSET (Lines \ {i})
  PROVE  Cardinality(S) \in 0 .. LinesPerSet - 1
<1>1. IsFiniteSet(Lines \ {i}) /\ Cardinality(Lines \ {i}) = LinesPerSet - 1
  BY LinesFinite, FS_RemoveElement
<1>2. Cardinality(S) \in Nat /\ Cardinality(S) <= Cardinality(Lines \ {i})
  BY <1>1, FS_Subset, LinesFinite
<1> QED BY <1>1, <1>2, LinesFinite

LEMMA FewerLinesByTwo ==
  ASSUME NEW i \in Lines, NEW j \in Lines, i # j, NEW S \in SUBSET (Lines \ {i, j})
  PROVE  1 + Cardinality(S) \in 1 .. LinesPerSet - 1
<1>1. IsFiniteSet(Lines \ {i}) /\ Cardinality(Lines \ {i}) = LinesPerSet - 1
  BY LinesFinite, FS_RemoveElement
<1>2. j \in Lines \ {i} /\ S \in SUBSET ((Lines \ {i}) \ {j})
  OBVIOUS
<1>3. /\ IsFiniteSet((Lines \ {i}) \ {j})
      /\ Cardinality((Lines \ {i}) \ {j}) = Cardinality(Lines \ {i}) - 1
  BY <1>1, <1>2, FS_RemoveElement
<1>4. Cardinality(S) \in Nat /\ Cardinality(S) <= Cardinality((Lines \ {i}) \ {j})
  BY <1>2, <1>3, FS_Subset, LinesFinite
<1> QED BY <1>1, <1>3, <1>4, LinesFinite

-----------------------------------------------------------------------------
(* The LRU bits. Both renumberings leave tags, valid bits and MESI bits    *)
(* alone.                                                                  *)
SameLines(L, N) == \A j \in Lines :
  N[j].tag = L[j].tag /\ N[j].valid = L[j].valid /\ N[j].mesi = L[j].mesi

LEMMA WithLRU ==
  ASSUME NEW L, LinesTyped(L), NEW r \in [Lines -> 0 .. LinesPerSet - 1]
  PROVE  \A N : N = [j \in Lines |-> [L[j] EXCEPT !.lru = r[j]]] =>
           LinesTyped(N) /\ SameLines(L, N) /\ \A j \in Lines : N[j].lru = r[j]
BY DEF LinesTyped, SameLines, CacheLine

(* After an update the line used is the only valid one with value 0.       *)
LEMMA UpdateLRUFacts ==
  ASSUME NEW L, LinesTyped(L), NEW i \in Lines
  PROVE  /\ LinesTyped(UpdateLRU(L, i)) /\ SameLines(L, UpdateLRU(L, i))
         /\ OneZero(UpdateLRU(L, i)) /\ UpdateLRU(L, i)[i].lru = 0
<1> DEFINE before(j) == {k \in 1 .. j - 1 : Renumbered(L, i, k)}
           r == [j \in Lines |-> IF j = i THEN 0
                                 ELSE IF Renumbered(L, i, j) THEN 1 + Cardinality(before(j))
                                 ELSE L[j].lru]
           N == [j \in Lines |-> [L[j] EXCEPT !.lru = r[j]]]
<1>1. \A j \in Lines : L[j].lru \in 0 .. LinesPerSet - 1 /\ L[j].valid \in BOOLEAN
  BY DEF LinesTyped, CacheLine
<1>2. ASSUME NEW j \in Lines, j # i PROVE 1 + Cardinality(before(j)) \in 1 .. LinesPerSet - 1
  <2>1. before(j) \in SUBSET (Lines \ {i, j})
    BY LinesFinite DEF Renumbered, Lines
  <2> HIDE DEF before
  <2> QED BY <1>2, <2>1, FewerLinesByTwo
<1> HIDE DEF before
<1>3. r \in [Lines -> 0 .. LinesPerSet - 1]
  BY <1>1, <1>2, LinesFinite
<1>4. UpdateLRU(L, i) = N
  BY DEF UpdateLRU, before, LinesTyped, CacheLine
<1>5. \A j \in Lines : j # i /\ L[j].valid => r[j] > 0
  <2> SUFFICES ASSUME NEW j \in Lines, j # i, L[j].valid PROVE r[j] > 0
    OBVIOUS
  <2>1. CASE Renumbered(L, i, j)
    BY <1>2, <2>1, LinesFinite
  <2>2. CASE ~Renumbered(L, i, j)
    BY <1>1, <2>2, LinesFinite DEF Renumbered
  <2> QED BY <2>1, <2>2
<1>6. r[i] = 0
  OBVIOUS
<1> HIDE DEF r
<1>7. LinesTyped(N) /\ SameLines(L, N) /\ \A j \in Lines : N[j].lru = r[j]
  BY <1>3, WithLRU
<1> HIDE DEF N
<1>8. OneZero(N) /\ N[i].lru = 0
  BY <1>3, <1>5, <1>6, <1>7, LinesFinite DEF OneZero, SameLines
<1> QED BY <1>4, <1>7, <1>8

(* Lines of the map get distinct numbers, and a valid line that is not in  *)
(* the map shares its value with another valid line, so it is not 0.       *)
LEMMA CheckAndFixLRUFacts ==
  ASSUME NEW L, LinesTyped(L)
  PROVE  /\ LinesTyped(CheckAndFixLRU(L)) /\ SameLines(L, CheckAndFixLRU(L))
         /\ OneZero(L) => /\ OneZero(CheckAndFixLRU(L))
                          /\ \A i \in Lines : L[i].valid /\ L[i].lru = 0 =>
                               CheckAndFixLRU(L)[i].lru = 0
<1> DEFINE below(j) == {k \in Lines : InMap(L, k) /\ L[k].lru < L[j].lru}
           r == [j \in Lines |-> IF InMap(L, j) THEN Cardinality(below(j)) ELSE L[j].lru]
           N == [j \in Lines |-> [L[j] EXCEPT !.lru = r[j]]]
<1>1. \A j \in Lines : L[j].lru \in 0 .. LinesPerSet - 1 /\ L[j].valid \in BOOLEAN
  BY DEF LinesTyped, CacheLine
<1>2. \A j \in Lines : Cardinality(below(j)) \in 0 .. LinesPerSet - 1
  <2> TAKE j \in Lines
  <2>1. below(j) \in SUBSET (Lines \ {j})
    BY <1>1, LinesFinite
  <2> HIDE DEF below
  <2> QED BY <2>1, FewerLines
<1>3. \A j \in Lines : InMap(L, j) /\ Cardinality(below(j)) = 0 =>
        \A k \in Lines : InMap(L, k) => ~(L[k].lru < L[j].lru)
  <2> TAKE j \in Lines
  <2> SUFFICES ASSUME Cardinality(below(j)) = 0 PROVE below(j) = {}
    OBVIOUS
  <2>1. below(j) \in SUBSET Lines
    OBVIOUS
  <2> HIDE DEF below
  <2> QED BY <2>1, LinesFinite, FS_EmptySet
<1>4. ASSUME NEW i \in Lines, L[i].lru = 0 PROVE Cardinality(below(i)) = 0
  <2>1. below(i) = {}
    BY <1>1, <1>4, LinesFinite
  <2> QED BY <2>1, FS_EmptySet
<1> HIDE DEF below
<1>5. \A i \in Lines : L[i].lru = 0 => r[i] = 0
  BY <1>4
<1>6. r \in [Lines -> 0 .. LinesPerSet - 1]
  BY <1>1, <1>2
<1>7. CheckAndFixLRU(L) = N
  BY DEF CheckAndFixLRU, below, LinesTyped, CacheLine
<1>8. ASSUME OneZero(L), NEW i \in Lines, NEW j \in Lines, L[i].valid, L[j].valid,
             r[i] = 0, r[j] = 0
      PROVE  i = j
  <2>1. ASSUME NEW k \in Lines, L[k].valid, r[k] = 0 PROVE InMap(L, k)
    <3> SUFFICES ASSUME ~InMap(L, k) PROVE FALSE
      OBVIOUS
    <3>1. L[k].lru = 0
      BY <2>1
    <3>2. PICK n \in Lines : n > k /\ L[n].valid /\ L[n].lru = L[k].lru
      BY <2>1 DEF InMap
    <3>3. n = k
      BY <1>8, <2>1, <3>1, <3>2 DEF OneZero
    <3> QED BY <3>2, <3>3, LinesFinite DEF Lines
  <2>2. InMap(L, i) /\ InMap(L, j)
    BY <1>8, <2>1
  <2>3. Cardinality(below(i)) = 0 /\ Cardinality(below(j)) = 0
    BY <1>8, <2>2
  <2>4. L[i].lru = L[j].lru
    BY <1>1, <1>3, <2>2, <2>3, LinesFinite
  <2> QED BY <2>2, <2>4, LinesFinite DEF InMap, Lines
<1> HIDE DEF r
<1>9. LinesTyped(N) /\ SameLines(L, N) /\ \A j \in Lines : N[j].lru = r[j]
  BY <1>6, WithLRU
<1> HIDE DEF N
<1>10. OneZero(L) => /\ OneZero(N)
                   /\ \A i \in Lines : L[i].valid /\ L[i].lru = 0 => N[i].lru = 0
  BY <1>5, <1>8, <1>9 DEF OneZero, SameLines
<1> QED BY <1>7, <1>9, <1>10

-----------------------------------------------------------------------------
(* The operations.                                                         *)

LEMMA UpdateLRUKeeps ==
  ASSUME NEW L, LinesTyped(L), FirstIsValid(L), NEW i \in Lines
  PROVE  LinesInv(UpdateLRU(L, i)) /\ SameLines(L, UpdateLRU(L, i)) /\ UpdateLRU(L, i)[i].lru = 0
<1> DEFINE N == UpdateLRU(L, i)
<1>1. LinesTyped(N) /\ SameLines(L, N) /\ OneZero(N) /\ N[i].lru = 0
  BY UpdateLRUFacts
<1> HIDE DEF N
<1>2. FirstIsValid(N)
  BY <1>1 DEF FirstIsValid, SameLines
<1>3. LinesInv(N)
  BY <1>1, <1>2 DEF LinesInv
<1> QED BY <1>1, <1>3 DEF N

LEMMA SetMESIKeeps ==
  ASSUME NEW L, LinesInv(L), NEW i \in Lines, NEW s \in ValidMESI \cup {"I"}
  PROVE  /\ LinesInv([L EXCEPT ![i].mesi = s])
         /\ \A j \in Lines : /\ [L EXCEPT ![i].mesi = s][j].tag = L[j].tag
                             /\ [L EXCEPT ![i].mesi = s][j].valid = L[j].valid
                             /\ [L EXCEPT ![i].mesi = s][j].lru = L[j].lru
                             /\ [L EXCEPT ![i].mesi = s][j].mesi =
                                  IF j = i THEN s ELSE L[j].mesi
<1> DEFINE N == [L EXCEPT ![i].mesi = s]
<1>1. LinesTyped(N) /\ \A j \in Lines : /\ N[j].tag = L[j].tag /\ N[j].valid = L[j].valid
                                        /\ N[j].lru = L[j].lru
                                        /\ N[j].mesi = IF j = i THEN s ELSE L[j].mesi
  BY DEF LinesInv, LinesTyped, CacheLine
<1> HIDE DEF N
<1>2. LinesInv(N)
  BY <1>1 DEF LinesInv, FirstIsValid, OneZero
<1> QED BY <1>1, <1>2 DEF N

(* Invalidating a line frees it and no other.                              *)
LEMMA InvalidateLineKeeps ==
  ASSUME NEW L, LinesInv(L), NEW i \in Lines
  PROVE  /\ LinesInv(InvalidateLine(L, i))
         /\ \A j \in Lines : /\ InvalidateLine(L, i)[j].tag = L[j].tag
                             /\ InvalidateLine(L, i)[j].valid = (j # i /\ L[j].valid)
                             /\ j # i => InvalidateLine(L, i)[j].mesi = L[j].mesi
                             /\ j # i /\ L[j].valid /\ L[j].lru = 0 =>
                                  InvalidateLine(L, i)[j].lru = 0
<1> DEFINE N == [L EXCEPT ![i].valid = FALSE, ![i].mesi = "I"]
<1>1. LinesTyped(N) /\ \A j \in Lines : /\ N[j].tag = L[j].tag /\ N[j].lru = L[j].lru
                                        /\ N[j].valid = (j # i /\ L[j].valid)
                                        /\ j # i => N[j].mesi = L[j].mesi
  BY DEF LinesInv, LinesTyped, CacheLine
<1>2. InvalidateLine(L, i) = CheckAndFixLRU(N)
  BY DEF InvalidateLine
<1> HIDE DEF N
<1>3. FirstIsValid(N) /\ OneZero(N)
  <2>1. FirstIsValid(L) /\ OneZero(L)
    BY DEF LinesInv
  <2>2. FirstIsValid(N)
    <3>1. \A j \in Lines : N[j].valid => L[j].valid
      BY <1>1
    <3> SUFFICES ASSUME NEW j \in Lines, NEW k \in Lines, j < k, N[k].valid
                 PROVE  N[j].tag # N[k].tag
      BY DEF FirstIsValid
    <3> QED BY <1>1, <2>1, <3>1 DEF FirstIsValid
  <2>3. OneZero(N)
    BY <1>1, <2>1 DEF OneZero
  <2> QED BY <2>2, <2>3
<1> DEFINE F == CheckAndFixLRU(N)
<1>4. /\ LinesTyped(F) /\ SameLines(N, F) /\ OneZero(F)
      /\ \A j \in Lines : N[j].valid /\ N[j].lru = 0 => F[j].lru = 0
  BY <1>1, <1>3, CheckAndFixLRUFacts
<1> HIDE DEF F
<1>5. FirstIsValid(F)
  BY <1>3, <1>4 DEF FirstIsValid, SameLines
<1>6. /\ LinesInv(F)
      /\ \A j \in Lines : /\ F[j].tag = L[j].tag /\ F[j].valid = (j # i /\ L[j].valid)
                          /\ j # i => F[j].mesi = L[j].mesi
                          /\ j # i /\ L[j].valid /\ L[j].lru = 0 => F[j].lru = 0
  BY <1>1, <1>4, <1>5 DEF LinesInv, SameLines
<1> QED BY <1>2, <1>6 DEF F

(* A tag may be given to a free line if no valid line has it, and no line  *)
(* in front of the free one has.                                           *)
LEMMA StreamInKeeps ==
  ASSUME NEW L, LinesInv(L), NEW i \in Lines, NEW t \in Tags, NEW s \in ValidMESI,
         ~Contains(L, t), \A j \in 1 .. i - 1 : L[j].tag # t
  PROVE  /\ LinesInv(StreamIn(L, i, t, s)) /\ StreamIn(L, i, t, s)[i].lru = 0
         /\ \A j \in Lines : j # i => /\ StreamIn(L, i, t, s)[j].tag = L[j].tag
                                     /\ StreamIn(L, i, t, s)[j].mesi = L[j].mesi
         /\ \A j \in Lines : StreamIn(L, i, t, s)[j].valid = (j = i \/ L[j].valid)
         /\ StreamIn(L, i, t, s)[i].tag = t /\ StreamIn(L, i, t, s)[i].mesi = s
         /\ StreamIn(L, i, t, s)[i].valid
<1> DEFINE N == [L EXCEPT ![i].valid = TRUE, ![i].tag = t]
           in == UpdateLRU(N, i)
<1>1. LinesTyped(N) /\ \A j \in Lines : /\ N[j].tag = IF j = i THEN t ELSE L[j].tag
                                        /\ N[j].valid = (j = i \/ L[j].valid)
                                        /\ N[j].mesi = L[j].mesi
  BY DEF LinesInv, LinesTyped, CacheLine
<1>2. StreamIn(L, i, t, s) = UpdateLRU([in EXCEPT ![i].mesi = s], i)
  BY DEF StreamIn
<1> HIDE DEF N
<1>3. FirstIsValid(N)
  <2> SUFFICES ASSUME NEW j \in Lines, NEW k \in Lines, j < k, N[k].valid
               PROVE  N[j].tag # N[k].tag
    BY DEF FirstIsValid
  <2>1. CASE k = i
    BY <1>1, <2>1, LinesFinite DEF Lines
  <2>2. CASE k # i /\ j = i
    BY <1>1, <2>2 DEF Contains
  <2>3. CASE k # i /\ j # i
    BY <1>1, <2>3 DEF LinesInv, FirstIsValid
  <2> QED BY <2>1, <2>2, <2>3
<1>4. LinesInv(in) /\ SameLines(N, in)
  BY <1>1, <1>3, UpdateLRUKeeps
<1> DEFINE out == [in EXCEPT ![i].mesi = s]
<1> HIDE DEF in
<1>5. LinesInv(out) /\ \A j \in Lines : /\ out[j].tag = in[j].tag /\ out[j].valid = in[j].valid
                                          /\ out[j].mesi = IF j = i THEN s ELSE in[j].mesi
  BY <1>4, SetMESIKeeps
<1> HIDE DEF out
<1>6. /\ LinesInv(UpdateLRU(out, i)) /\ SameLines(out, UpdateLRU(out, i))
      /\ UpdateLRU(out, i)[i].lru = 0
  BY <1>5, UpdateLRUKeeps DEF LinesInv
<1>7. \A j \in Lines : /\ UpdateLRU(out, i)[j].tag = N[j].tag
                       /\ UpdateLRU(out, i)[j].valid = N[j].valid
                       /\ UpdateLRU(out, i)[j].mesi = IF j = i THEN s ELSE N[j].mesi
  BY <1>4, <1>5, <1>6 DEF SameLines
<1>8. StreamIn(L, i, t, s) = UpdateLRU(out, i)
  BY <1>2 DEF out
<1> QED BY <1>1, <1>6, <1>7, <1>8

(* getLine finds the valid line of a tag the set contains.                 *)
LEMMA GetLineFinds ==
  ASSUME NEW L, FirstIsValid(L), NEW t \in Tags, Contains(L, t)
  PROVE  /\ \E i \in Lines : IsGetLine(L, t, i) /\ L[i].valid
         /\ GetLine(L, t) \in Lines /\ L[GetLine(L, t)].valid /\ L[GetLine(L, t)].tag = t
<1>1. PICK i \in Lines : L[i].valid /\ L[i].tag = t
  BY DEF Contains
<1>2. \A j \in 1 .. i - 1 : j \in Lines /\ j < i
  BY LinesFinite DEF Lines
<1>3. IsGetLine(L, t, i)
  BY <1>1, <1>2 DEF IsGetLine, FirstIsValid
<1>4. IsGetLine(L, t, GetLine(L, t)) /\ GetLine(L, t) \in Lines
  BY <1>3 DEF GetLine
<1>5. GetLine(L, t) = i
  BY <1>1, <1>3, <1>4, LinesFinite DEF IsGetLine, Lines
<1> QED BY <1>1, <1>3, <1>4, <1>5

LEMMA NextKeepsInv == Inv /\ [Next]_vars => Inv'
<1> SUFFICES ASSUME LinesInv(lineArry), [Next]_vars PROVE LinesInv(lineArry')
  BY DEF Inv
<1>1. FirstIsValid(lineArry) /\ LinesTyped(lineArry)
  BY DEF LinesInv
<1>2. ASSUME NEW t \in Tags, NEW s \in ValidMESI, Hit(t, s) PROVE LinesInv(lineArry')
  <2> DEFINE i == GetLine(lineArry, t)
             N == [lineArry EXCEPT ![i].mesi = s]
  <2>1. i \in Lines
    BY <1>1, <1>2, GetLineFinds DEF Hit
  <2>2. lineArry' = UpdateLRU(N, i)
    BY <1>2 DEF Hit
  <2> HIDE DEF i
  <2>3. LinesInv(N)
    BY <2>1, SetMESIKeeps
  <2> HIDE DEF N
  <2> QED BY <2>1, <2>2, <2>3, UpdateLRUKeeps DEF LinesInv
<1>3. ASSUME NEW t \in Tags, NEW s \in ValidMESI, Insert(t, s) PROVE LinesInv(lineArry')
  <2>1. PICK i \in Lines : IsEmptyLine(lineArry, i) /\ lineArry' = StreamIn(lineArry, i, t, s)
    BY <1>3 DEF Insert
  <2>2. ~Contains(lineArry, t)
    BY <1>3 DEF Insert
  <2>3. \A j \in 1 .. i - 1 : j \in Lines /\ lineArry[j].valid
    BY <2>1, LinesFinite DEF IsEmptyLine, Lines
  <2>4. \A j \in 1 .. i - 1 : lineArry[j].tag # t
    BY <2>2, <2>3 DEF Contains
  <2> QED BY <2>1, <2>2, <2>4, StreamInKeeps
<1>4. ASSUME NEW t \in Tags, NEW s \in ValidMESI, EvictAndInsert(t, s) PROVE LinesInv(lineArry')
  <2>1. PICK v \in Lines : lineArry' = StreamIn(InvalidateLine(lineArry, v), v, t, s)
    BY <1>4 DEF EvictAndInsert
  <2>2. ~Contains(lineArry, t) /\ \A j \in Lines : lineArry[j].valid
    BY <1>4 DEF EvictAndInsert, IsFull
  <2> DEFINE N == InvalidateLine(lineArry, v)
  <2>3. LinesInv(N) /\ \A j \in Lines : N[j].tag = lineArry[j].tag
    BY InvalidateLineKeeps
  <2>4. \A j \in Lines : N[j].tag # t
    BY <2>2, <2>3 DEF Contains
  <2>5. ~Contains(N, t) /\ \A j \in 1 .. v - 1 : N[j].tag # t
    BY <2>4, LinesFinite DEF Contains, Lines
  <2> HIDE DEF N
  <2>6. LinesInv(StreamIn(N, v, t, s))
    BY <2>3, <2>5, StreamInKeeps
  <2> QED BY <2>1, <2>6 DEF N
<1>5. ASSUME NEW t \in Tags, Share(t) PROVE LinesInv(lineArry')
  <2>1. GetLine(lineArry, t) \in Lines
    BY <1>1, <1>5, GetLineFinds DEF Share
  <2> QED BY <1>5, <2>1, SetMESIKeeps DEF Share, ValidMESI
<1>6. ASSUME NEW t \in Tags, Invalidate(t) PROVE LinesInv(lineArry')
  <2>1. GetLine(lineArry, t) \in Lines
    BY <1>1, <1>6, GetLineFinds DEF Invalidate
  <2> QED BY <1>6, <2>1, InvalidateLineKeeps DEF Invalidate
<1>7. CASE UNCHANGED vars
  BY <1>7 DEF vars
<1> QED BY <1>2, <1>3, <1>4, <1>5, <1>6, <1>7 DEF Next

LEMMA InitInv == Init => Inv
<1> SUFFICES ASSUME Init PROVE LinesInv(lineArry)
  BY DEF Inv
<1>1. LinesTyped(lineArry) /\ \A i \in Lines : ~lineArry[i].valid
  BY ColdTagAssumption, LinesFinite DEF Init, LinesTyped, CacheLine
<1> QED BY <1>1 DEF LinesInv, FirstIsValid, OneZero

-----------------------------------------------------------------------------
(* The line used last, if it is still valid, has LRU value 0: it is not    *)
(* the victim. Nothing of the sort holds of the line used before it.       *)
RecentIsZero == \A i \in Lines :
  lineArry[i].valid /\ usedAfter[lineArry[i].tag] = {} => lineArry[i].lru = 0

RecencyInv == Inv /\ usedAfter \in [Tags -> SUBSET Tags] /\ RecentIsZero

LEMMA UseFacts ==
  ASSUME NEW t \in Tags, usedAfter \in [Tags -> SUBSET Tags]
  PROVE  Use(t) \in [Tags -> SUBSET Tags] /\ \A u \in Tags : Use(t)[u] = {} => u = t
BY DEF Use

(* After a use, the line of the tag used has LRU value 0, and no other     *)
(* valid line has that tag.                                                *)
LEMMA UsedIsZero ==
  ASSUME LinesInv(lineArry'), NEW t \in Tags, usedAfter \in [Tags -> SUBSET Tags],
         usedAfter' = Use(t), NEW i \in Lines,
         lineArry'[i].lru = 0, lineArry'[i].tag = t, lineArry'[i].valid
  PROVE  RecentIsZero'
<1> SUFFICES ASSUME NEW j \in Lines, lineArry'[j].valid, usedAfter'[lineArry'[j].tag] = {}
             PROVE  lineArry'[j].lru = 0
  BY DEF RecentIsZero
<1>1. lineArry'[j].tag \in Tags
  BY DEF LinesInv, LinesTyped, CacheLine
<1>2. lineArry'[j].tag = t
  BY <1>1, UseFacts
<1>3. j = i
  BY <1>2, LinesFinite DEF LinesInv, FirstIsValid, Lines
<1> QED BY <1>3

LEMMA NextKeepsRecency == RecencyInv /\ [Next]_vars => RecencyInv'
<1> SUFFICES ASSUME RecencyInv, [Next]_vars
             PROVE  (usedAfter \in [Tags -> SUBSET Tags])' /\ RecentIsZero'
  BY NextKeepsInv DEF RecencyInv
<1>1. /\ LinesInv(lineArry) /\ LinesInv(lineArry') /\ FirstIsValid(lineArry)
      /\ LinesTyped(lineArry) /\ usedAfter \in [Tags -> SUBSET Tags] /\ RecentIsZero
  BY NextKeepsInv DEF RecencyInv, Inv, LinesInv
<1>2. ASSUME NEW t \in Tags, NEW s \in ValidMESI, Hit(t, s)
      PROVE  (usedAfter \in [Tags -> SUBSET Tags])' /\ RecentIsZero'
  <2> DEFINE i == GetLine(lineArry, t)
             N == [lineArry EXCEPT ![i].mesi = s]
  <2>1. i \in Lines /\ lineArry[i].valid /\ lineArry[i].tag = t
    BY <1>1, <1>2, GetLineFinds DEF Hit
  <2>2. lineArry' = UpdateLRU(N, i) /\ usedAfter' = Use(t)
    BY <1>2 DEF Hit
  <2> HIDE DEF i
  <2>3. s \in ValidMESI \cup {"I"}
    OBVIOUS
  <2>4. LinesInv(N) /\ \A j \in Lines : /\ N[j].tag = lineArry[j].tag
                                        /\ N[j].valid = lineArry[j].valid
    BY <1>1, <2>1, <2>3, SetMESIKeeps
  <2> HIDE DEF N
  <2>5. SameLines(N, lineArry') /\ lineArry'[i].lru = 0
    BY <2>1, <2>2, <2>4, UpdateLRUKeeps DEF LinesInv
  <2>6. lineArry'[i].tag = t /\ lineArry'[i].valid
    BY <2>1, <2>4, <2>5 DEF SameLines
  <2> QED BY <1>1, <2>1, <2>2, <2>5, <2>6, UsedIsZero, UseFacts
<1>3. ASSUME NEW t \in Tags, NEW s \in ValidMESI, Insert(t, s)
      PROVE  (usedAfter \in [Tags -> SUBSET Tags])' /\ RecentIsZero'
  <2>1. PICK i \in Lines : IsEmptyLine(lineArry, i) /\ lineArry' = StreamIn(lineArry, i, t, s)
    BY <1>3 DEF Insert
  <2>2. ~Contains(lineArry, t) /\ usedAfter' = Use(t)
    BY <1>3 DEF Insert
  <2>3. \A j \in 1 .. i - 1 : j \in Lines /\ lineArry[j].valid
    BY <2>1, LinesFinite DEF IsEmptyLine, Lines
  <2>4. \A j \in 1 .. i - 1 : lineArry[j].tag # t
    BY <2>2, <2>3 DEF Contains
  <2>5. lineArry'[i].lru = 0 /\ lineArry'[i].tag = t /\ lineArry'[i].valid
    BY <1>1, <2>1, <2>2, <2>4, StreamInKeeps
  <2> QED BY <1>1, <2>2, <2>5, UsedIsZero, UseFacts
<1>4. ASSUME NEW t \in Tags, NEW s \in ValidMESI, EvictAndInsert(t, s)
      PROVE  (usedAfter \in [Tags -> SUBSET Tags])' /\ RecentIsZero'
  <2>1. PICK v \in Lines : lineArry' = StreamIn(InvalidateLine(lineArry, v), v, t, s)
    BY <1>4 DEF EvictAndInsert
  <2>2. /\ ~Contains(lineArry, t) /\ usedAfter' = Use(t)
        /\ \A j \in Lines : lineArry[j].valid
    BY <1>4 DEF EvictAndInsert, IsFull
  <2> DEFINE N == InvalidateLine(lineArry, v)
  <2>3. LinesInv(N) /\ \A j \in Lines : N[j].tag = lineArry[j].tag
    BY <1>1, InvalidateLineKeeps
  <2>4. \A j \in Lines : N[j].tag # t
    BY <2>2, <2>3 DEF Contains
  <2>5. ~Contains(N, t) /\ \A j \in 1 .. v - 1 : N[j].tag # t
    BY <2>4, LinesFinite DEF Contains, Lines
  <2>6. lineArry' = StreamIn(N, v, t, s)
    BY <2>1
  <2> HIDE DEF N
  <2>7. lineArry'[v].lru = 0 /\ lineArry'[v].tag = t /\ lineArry'[v].valid
    BY <2>3, <2>5, <2>6, StreamInKeeps
  <2> QED BY <1>1, <2>2, <2>7, UsedIsZero, UseFacts
<1>5. ASSUME NEW t \in Tags, Share(t)
      PROVE  (usedAfter \in [Tags -> SUBSET Tags])' /\ RecentIsZero'
  <2>1. GetLine(lineArry, t) \in Lines
    BY <1>1, <1>5, GetLineFinds DEF Share
  <2>2. \A j \in Lines : /\ lineArry'[j].tag = lineArry[j].tag
                         /\ lineArry'[j].valid = lineArry[j].valid
                         /\ lineArry'[j].lru = lineArry[j].lru
    BY <1>1, <1>5, <2>1, SetMESIKeeps DEF Share, ValidMESI
  <2> QED BY <1>1, <1>5, <2>2 DEF Share, RecentIsZero
<1>6. ASSUME NEW t \in Tags, Invalidate(t)
      PROVE  (usedAfter \in [Tags -> SUBSET Tags])' /\ RecentIsZero'
  <2> DEFINE i == GetLine(lineArry, t)
  <2>1. i \in Lines
    BY <1>1, <1>6, GetLineFinds DEF Invalidate
  <2>2. lineArry' = InvalidateLine(lineArry, i) /\ usedAfter' = usedAfter
    BY <1>6 DEF Invalidate
  <2> HIDE DEF i
  <2>3. \A j \in Lines : /\ lineArry'[j].tag = lineArry[j].tag
                         /\ lineArry'[j].valid = (j # i /\ lineArry[j].valid)
                         /\ j # i /\ lineArry[j].valid /\ lineArry[j].lru = 0 =>
                              lineArry'[j].lru = 0
    BY <1>1, <2>1, <2>2, InvalidateLineKeeps
  <2>4. ASSUME NEW j \in Lines, lineArry'[j].valid, usedAfter'[lineArry'[j].tag] = {}
        PROVE  lineArry'[j].lru = 0
    <3>1. j # i /\ lineArry[j].valid
      BY <2>3, <2>4
    <3>2. lineArry[j].lru = 0
      BY <1>1, <2>2, <2>3, <2>4, <3>1 DEF RecentIsZero
    <3> QED BY <2>3, <3>1, <3>2
  <2> QED BY <1>1, <2>2, <2>4 DEF RecentIsZero
<1>7. CASE UNCHANGED vars
  BY <1>1, <1>7 DEF vars, RecentIsZero
<1> QED BY <1>2, <1>3, <1>4, <1>5, <1>6, <1>7 DEF Next

LEMMA InitRecency == Init => RecencyInv
<1> SUFFICES ASSUME Init PROVE RecencyInv
  OBVIOUS
<1>1. Inv /\ \A i \in Lines : ~lineArry[i].valid
  BY InitInv, LinesFinite DEF Init
<1>2. usedAfter \in [Tags -> SUBSET Tags]
  BY DEF Init
<1> QED BY <1>1, <1>2 DEF RecencyInv, RecentIsZero

-----------------------------------------------------------------------------
(* getLine ignores the valid bit (CacheSet.cpp:139-147), but the line it   *)
(* returns for a tag the set contains is the valid one: getEmptyLine always*)
(* takes the first free line, so no stale line is left in front.           *)
THEOREM GetLineFindsValid == Spec => []GetLineIsValid
<1>1. Inv => GetLineIsValid
  BY GetLineFinds DEF Inv, LinesInv, GetLineIsValid
<1> QED BY InitInv, NextKeepsInv, <1>1, PTL DEF Spec

(* A full set of at least two lines has one with an LRU value above 0, so  *)
(* findLRU (CacheSet.cpp:149-161) does not return its uninitialised        *)
(* pointer: although lines come to share LRU values, no two valid lines    *)
(* share the value 0. A set of one line has no such line.                  *)
THEOREM VictimExists ==
  ASSUME LinesPerSet > 1
  PROVE  Spec => []VictimDefined
<1>1. Inv => VictimDefined
  <2> SUFFICES ASSUME LinesInv(lineArry), IsFull(lineArry)
               PROVE  \E i \in Lines : lineArry[i].lru > 0
    BY DEF Inv, VictimDefined
  <2>1. 1 \in Lines /\ 2 \in Lines
    BY LinesFinite DEF Lines
  <2>2. \A i \in Lines : lineArry[i].valid /\ lineArry[i].lru \in 0 .. LinesPerSet - 1
    BY DEF IsFull, LinesInv, LinesTyped, CacheLine
  <2>3. ~(lineArry[1].lru = 0 /\ lineArry[2].lru = 0)
    BY <2>1, <2>2 DEF LinesInv, OneZero
  <2> QED BY <2>1, <2>2, <2>3, LinesFinite
<1> QED BY InitInv, NextKeepsInv, <1>1, PTL DEF Spec

(* Lines, MESI and LRU bits stay in range, the numbers that updateLRU and  *)
(* checkAndFixLRU (CacheSet.cpp:59-72, 109-125) give out in particular.    *)
THEOREM TypesHold == Spec => []TypeOK
<1>1. RecencyInv => TypeOK
  BY DEF RecencyInv, Inv, LinesInv, LinesTyped, TypeOK
<1> QED BY InitRecency, NextKeepsRecency, <1>1, PTL DEF Spec

(* The line used last is never the one findLRU (CacheSet.cpp:149-161)      *)
(* picks, whatever invalidations did to the LRU bits.                      *)
THEOREM RecentLineStays == Spec => []MostRecentSurvives
<1>1. RecencyInv => MostRecentSurvives
  <2> SUFFICES ASSUME RecencyInv, NEW i \in Lines, IsFull(lineArry), IsVictim(lineArry, i)
               PROVE  usedAfter[lineArry[i].tag] # {}
    BY DEF MostRecentSurvives
  <2>1. lineArry[i].valid /\ lineArry[i].lru > 0
    BY DEF IsFull, IsVictim
  <2>2. lineArry[i].lru # 0
    BY <2>1, LinesFinite DEF RecencyInv, Inv, LinesInv, LinesTyped, CacheLine
  <2> QED BY <2>1, <2>2 DEF RecencyInv, RecentIsZero
<1> QED BY InitRecency, NextKeepsRecency, <1>1, PTL DEF Spec

-----------------------------------------------------------------------------
(* The set as a map of tags to states.                                     *)
ValidHaveState(L) == \A i \in Lines : L[i].valid => L[i].mesi # "I"

LEMMA StateOfLine ==
  ASSUME NEW L, LinesInv(L), NEW i \in Lines, L[i].valid
  PROVE  L[i].tag \in Tags /\ StatesOf(L)[L[i].tag] = L[i].mesi
<1> DEFINE t == L[i].tag
<1>1. t \in Tags /\ Contains(L, t)
  BY DEF LinesInv, LinesTyped, CacheLine, Contains
<1> HIDE DEF t
<1>2. GetLine(L, t) \in Lines /\ L[GetLine(L, t)].valid /\ L[GetLine(L, t)].tag = t
  BY <1>1, GetLineFinds DEF LinesInv
<1>3. GetLine(L, t) = i
  BY <1>2, LinesFinite DEF LinesInv, FirstIsValid, Lines, t
<1>4. StatesOf(L)[t] = L[i].mesi
  BY <1>1, <1>3 DEF StatesOf
<1> QED BY <1>1, <1>4 DEF t

(* A step that only concerns the lines with tag t changes the state of t.  *)
LEMMA OnlyTagChanges ==
  ASSUME NEW L, LinesInv(L), NEW N, LinesInv(N), NEW t \in Tags, NEW s,
         \A i \in Lines : L[i].valid /\ L[i].tag # t =>
           N[i].valid /\ N[i].tag = L[i].tag /\ N[i].mesi = L[i].mesi,
         \A i \in Lines : N[i].valid /\ N[i].tag # t => L[i].valid /\ L[i].tag = N[i].tag,
         \/ \E i \in Lines : N[i].valid /\ N[i].tag = t /\ N[i].mesi = s
         \/ s = "I" /\ ~Contains(N, t)
  PROVE  StatesOf(N) = [StatesOf(L) EXCEPT ![t] = s]
<1>1. StatesOf(N)[t] = s
  <2>1. CASE \E i \in Lines : N[i].valid /\ N[i].tag = t /\ N[i].mesi = s
    BY <2>1, StateOfLine
  <2>2. CASE s = "I" /\ ~Contains(N, t)
    BY <2>2 DEF StatesOf
  <2> QED BY <2>1, <2>2
<1>2. ASSUME NEW u \in Tags, u # t PROVE StatesOf(N)[u] = StatesOf(L)[u]
  <2>1. CASE Contains(L, u)
    <3>1. PICK i \in Lines : L[i].valid /\ L[i].tag = u
      BY <2>1 DEF Contains
    <3>2. N[i].valid /\ N[i].tag = u /\ N[i].mesi = L[i].mesi
      BY <1>2, <3>1
    <3> QED BY <3>1, <3>2, StateOfLine
  <2>2. CASE ~Contains(L, u)
    <3>1. ~Contains(N, u)
      BY <1>2, <2>2 DEF Contains
    <3> QED BY <2>2, <3>1 DEF StatesOf
  <2> QED BY <2>1, <2>2
<1>3. DOMAIN StatesOf(L) = Tags /\ DOMAIN StatesOf(N) = Tags
  BY DEF StatesOf
<1>4. /\ StatesOf(N) = [u \in Tags |-> StatesOf(N)[u]]
      /\ StatesOf(L) = [u \in Tags |-> StatesOf(L)[u]]
  BY DEF StatesOf
<1> QED BY <1>1, <1>2, <1>3, <1>4

(* A set holds as many tags as it has valid lines.                         *)
LEMMA HeldTags ==
  ASSUME NEW L, LinesInv(L), ValidHaveState(L)
  PROVE  LET held == {t \in Tags : StatesOf(L)[t] # "I"} IN
         /\ IsFiniteSet(held)
         /\ IsFull(L) => Cardinality(held) = LinesPerSet
         /\ ~IsFull(L) => Cardinality(held) < LinesPerSet
<1> DEFINE held == {t \in Tags : StatesOf(L)[t] # "I"}
           valid == {i \in Lines : L[i].valid}
           f == [i \in valid |-> L[i].tag]
<1>1. \A i \in valid : L[i].tag \in held
  BY StateOfLine DEF ValidHaveState
<1>2. \A t \in held : \E i \in valid : L[i].tag = t
  BY DEF StatesOf, Contains
<1>3. \A i, j \in valid : L[i].tag = L[j].tag => i = j
  BY LinesFinite DEF LinesInv, FirstIsValid, Lines
<1>4. f \in Surjection(valid, held) /\ f \in Injection(valid, held)
  BY <1>1, <1>2, <1>3 DEF Surjection, Injection, IsInjective
<1>5. IsFiniteSet(valid) /\ Cardinality(valid) \in Nat
  BY LinesFinite
<1> HIDE DEF f, held
<1>6. IsFiniteSet(held) /\ Cardinality(held) = Cardinality(valid)
  BY <1>4, <1>5, FS_Surjection
<1>7. IsFull(L) => valid = Lines
  BY DEF IsFull
<1>8. ASSUME ~IsFull(L) PROVE Cardinality(valid) < LinesPerSet
  <2>1. PICK i \in Lines : ~L[i].valid
    BY <1>8 DEF IsFull
  <2>2. valid \in SUBSET (Lines \ {i})
    BY <2>1
  <2> HIDE DEF valid
  <2> QED BY <2>2, FewerLines, LinesFinite
<1> HIDE DEF valid
<1> QED BY <1>6, <1>7, <1>8, LinesFinite DEF held

(* What an operation makes of the lines, and of the map they stand for.    *)
Maps(L, N, t, s) ==
  /\ LinesInv(N) /\ ValidHaveState(N)
  /\ StatesOf(N) = [StatesOf(L) EXCEPT ![t] = s]

(* A hit, with its LRU update, and a snooped read, without one.            *)
LEMMA HitMaps ==
  ASSUME NEW L, LinesInv(L), ValidHaveState(L), NEW t \in Tags, Contains(L, t),
         NEW s \in ValidMESI, NEW i, i = GetLine(L, t)
  PROVE  /\ Maps(L, UpdateLRU([L EXCEPT ![i].mesi = s], i), t, s)
         /\ Maps(L, [L EXCEPT ![i].mesi = s], t, s)
<1> DEFINE M == [L EXCEPT ![i].mesi = s]
           N == UpdateLRU(M, i)
<1>1. i \in Lines /\ L[i].valid /\ L[i].tag = t
  BY GetLineFinds DEF LinesInv
<1>2. s \in ValidMESI \cup {"I"} /\ s # "I"
  BY DEF ValidMESI
<1>3. LinesInv(M) /\ \A j \in Lines : /\ M[j].tag = L[j].tag /\ M[j].valid = L[j].valid
                                      /\ M[j].mesi = IF j = i THEN s ELSE L[j].mesi
  BY <1>1, <1>2, SetMESIKeeps
<1> HIDE DEF M
<1>4. LinesInv(N) /\ SameLines(M, N)
  BY <1>1, <1>3, UpdateLRUKeeps DEF LinesInv
<1> HIDE DEF N
<1>5. ASSUME NEW K, LinesInv(K), SameLines(M, K) PROVE Maps(L, K, t, s)
  <2>1. \A j \in Lines : /\ K[j].tag = L[j].tag /\ K[j].valid = L[j].valid
                        /\ K[j].mesi = IF j = i THEN s ELSE L[j].mesi
    BY <1>3, <1>5 DEF SameLines
  <2>2. ValidHaveState(K)
    BY <1>2, <2>1 DEF ValidHaveState
  <2>3. StatesOf(K) = [StatesOf(L) EXCEPT ![t] = s]
    BY <1>1, <1>5, <2>1, OnlyTagChanges
  <2> QED BY <1>5, <2>2, <2>3 DEF Maps
<1>6. SameLines(M, M)
  BY DEF SameLines
<1> QED BY <1>3, <1>4, <1>5, <1>6 DEF M, N

(* Without the line of a tag, the set does not contain the tag.            *)
LEMMA InvalidatingForgets ==
  ASSUME NEW L, LinesInv(L), ValidHaveState(L), NEW i \in Lines, L[i].valid
  PROVE  /\ ValidHaveState(InvalidateLine(L, i))
         /\ StatesOf(InvalidateLine(L, i)) = [StatesOf(L) EXCEPT ![L[i].tag] = "I"]
<1> DEFINE N == InvalidateLine(L, i)
           t == L[i].tag
<1>1. LinesInv(N) /\ \A j \in Lines : /\ N[j].tag = L[j].tag
                                      /\ N[j].valid = (j # i /\ L[j].valid)
                                      /\ j # i => N[j].mesi = L[j].mesi
  BY InvalidateLineKeeps
<1>2. t \in Tags
  BY StateOfLine
<1> HIDE DEF N
<1>3. ValidHaveState(N)
  BY <1>1 DEF ValidHaveState
<1>4. \A j \in Lines : j # i /\ L[j].valid => L[j].tag # t
  BY LinesFinite DEF LinesInv, FirstIsValid, Lines
<1>5. ~Contains(N, t)
  BY <1>1, <1>4 DEF Contains
<1>6. \A j \in Lines : L[j].valid /\ L[j].tag # t =>
        N[j].valid /\ N[j].tag = L[j].tag /\ N[j].mesi = L[j].mesi
  BY <1>1
<1>7. \A j \in Lines : N[j].valid /\ N[j].tag # t => L[j].valid /\ L[j].tag = N[j].tag
  BY <1>1
<1> HIDE DEF t
<1>8. StatesOf(N) = [StatesOf(L) EXCEPT ![t] = "I"]
  BY <1>1, <1>2, <1>5, <1>6, <1>7, OnlyTagChanges
<1> QED BY <1>3, <1>8 DEF N, t

LEMMA InvalidateMaps ==
  ASSUME NEW L, LinesInv(L), ValidHaveState(L), NEW t \in Tags, Contains(L, t)
  PROVE  Maps(L, InvalidateLine(L, GetLine(L, t)), t, "I")
<1> DEFINE i == GetLine(L, t)
<1>1. i \in Lines /\ L[i].valid /\ L[i].tag = t
  BY GetLineFinds DEF LinesInv
<1> HIDE DEF i
<1>2. Maps(L, InvalidateLine(L, i), t, "I")
  BY <1>1, InvalidatingForgets, InvalidateLineKeeps DEF Maps
<1> QED BY <1>2 DEF i

(* A new line adds its tag to the map.                                     *)
LEMMA StreamingAdds ==
  ASSUME NEW L, LinesInv(L), ValidHaveState(L), NEW i \in Lines, ~L[i].valid,
         NEW t \in Tags, NEW s \in ValidMESI, ~Contains(L, t), \A j \in 1 .. i - 1 : L[j].tag # t
  PROVE  /\ ValidHaveState(StreamIn(L, i, t, s))
         /\ StatesOf(StreamIn(L, i, t, s)) = [StatesOf(L) EXCEPT ![t] = s]
<1> DEFINE N == StreamIn(L, i, t, s)
<1>1. /\ LinesInv(N) /\ N[i].tag = t /\ N[i].mesi = s /\ N[i].valid
      /\ \A j \in Lines : j # i => N[j].tag = L[j].tag /\ N[j].mesi = L[j].mesi
      /\ \A j \in Lines : N[j].valid = (j = i \/ L[j].valid)
  BY StreamInKeeps
<1>2. s # "I"
  BY DEF ValidMESI
<1> HIDE DEF N
<1>3. ValidHaveState(N)
  BY <1>1, <1>2 DEF ValidHaveState
<1>4. \A j \in Lines : L[j].valid /\ L[j].tag # t =>
        N[j].valid /\ N[j].tag = L[j].tag /\ N[j].mesi = L[j].mesi
  BY <1>1
<1>5. \A j \in Lines : N[j].valid /\ N[j].tag # t => L[j].valid /\ L[j].tag = N[j].tag
  BY <1>1
<1>6. \E j \in Lines : N[j].valid /\ N[j].tag = t /\ N[j].mesi = s
  BY <1>1
<1>7. LinesInv(N)
  BY <1>1
<1>8. StatesOf(N) = [StatesOf(L) EXCEPT ![t] = s]
  BY <1>4, <1>5, <1>6, <1>7, OnlyTagChanges
<1> QED BY <1>3, <1>8 DEF N

LEMMA InsertMaps ==
  ASSUME NEW L, LinesInv(L), ValidHaveState(L), NEW t \in Tags, NEW s \in ValidMESI,
         ~Contains(L, t), NEW i \in Lines, IsEmptyLine(L, i)
  PROVE  ~IsFull(L) /\ Maps(L, StreamIn(L, i, t, s), t, s)
<1>1. ~L[i].valid /\ \A j \in 1 .. i - 1 : j \in Lines /\ L[j].valid
  BY LinesFinite DEF IsEmptyLine, Lines
<1>2. \A j \in 1 .. i - 1 : L[j].tag # t
  BY <1>1 DEF Contains
<1>3. LinesInv(StreamIn(L, i, t, s))
  BY <1>2, StreamInKeeps
<1> QED BY <1>1, <1>2, <1>3, StreamingAdds DEF Maps, IsFull

LEMMA EvictAndInsertMaps ==
  ASSUME NEW L, LinesInv(L), ValidHaveState(L), NEW t \in Tags, NEW s \in ValidMESI,
         ~Contains(L, t), IsFull(L), NEW v \in Lines,
         NEW N, N = StreamIn(InvalidateLine(L, v), v, t, s)
  PROVE  /\ LinesInv(N) /\ ValidHaveState(N)
         /\ L[v].tag \in Tags /\ StatesOf(L)[L[v].tag] # "I"
         /\ StatesOf(N) = [StatesOf(L) EXCEPT ![L[v].tag] = "I", ![t] = s]
<1>1. \A j \in Lines : L[j].valid
  BY DEF IsFull
<1> DEFINE M == InvalidateLine(L, v)
           u == L[v].tag
<1>2. /\ LinesInv(M) /\ M[v].valid = (v # v /\ L[v].valid)
      /\ \A j \in Lines : M[j].tag = L[j].tag
  BY <1>1, InvalidateLineKeeps
<1>3. u \in Tags /\ StatesOf(L)[u] # "I"
  BY <1>1, StateOfLine DEF ValidHaveState
<1>4. ValidHaveState(M) /\ StatesOf(M) = [StatesOf(L) EXCEPT ![u] = "I"]
  BY <1>1, InvalidatingForgets
<1>5. N = StreamIn(M, v, t, s)
  OBVIOUS
<1> HIDE DEF M
<1>6. \A j \in Lines : M[j].tag # t
  BY <1>1, <1>2 DEF Contains
<1>7. ~Contains(M, t) /\ \A j \in 1 .. v - 1 : M[j].tag # t
  BY <1>6, LinesFinite DEF Contains, Lines
<1>8. LinesInv(N) /\ ValidHaveState(N) /\ StatesOf(N) = [StatesOf(M) EXCEPT ![t] = s]
  <2>1. ~M[v].valid /\ LinesInv(M) /\ ValidHaveState(M)
    BY <1>2, <1>4
  <2>2. LinesInv(StreamIn(M, v, t, s))
    BY <1>7, <2>1, StreamInKeeps
  <2>3. /\ ValidHaveState(StreamIn(M, v, t, s))
        /\ StatesOf(StreamIn(M, v, t, s)) = [StatesOf(M) EXCEPT ![t] = s]
    BY <1>7, <2>1, StreamingAdds
  <2> QED BY <1>5, <2>2, <2>3
<1> HIDE DEF u
<1>9. StatesOf(N) = [StatesOf(L) EXCEPT ![u] = "I", ![t] = s]
  BY <1>4, <1>8
<1> QED BY <1>3, <1>8, <1>9 DEF u

(* The instance brings in an operator of its own for the same cardinality. *)
LEMMA SameCardinality ==
  ASSUME NEW S
  PROVE  Contents!Cardinality(S) = Cardinality(S)
BY DEF Contents!Cardinality, Cardinality, Contents!IsFiniteSet, IsFiniteSet

(* In the map, the tags beside a tag are all those the set holds.          *)
LEMMA BesideIsHeld ==
  ASSUME NEW t \in Tags
  PROVE  Contents!Beside(t) = {u \in Tags : StatesOf(lineArry)[u] # "I"}
BY DEF Contents!Beside

LEMMA AbsentIsI ==
  ASSUME NEW L, NEW t \in Tags, ~Contains(L, t)
  PROVE  StatesOf(L)[t] = "I"
BY DEF StatesOf

LEMMA PresentIsNotI ==
  ASSUME NEW L, LinesInv(L), ValidHaveState(L), NEW t \in Tags, Contains(L, t)
  PROVE  StatesOf(L)[t] # "I"
<1>1. PICK i \in Lines : L[i].valid /\ L[i].tag = t
  BY DEF Contains
<1> QED BY <1>1, StateOfLine DEF ValidHaveState

LEMMA SetInImplementation ==
  ASSUME NEW t \in Tags, NEW s \in {"M", "E", "S", "I"}, StatesOf(lineArry)[t] # "I",
         StatesOf(lineArry') = [StatesOf(lineArry) EXCEPT ![t] = s]
  PROVE  Contents!Next
BY DEF Contents!Next, Contents!SetState

LEMMA StepImplements ==
  Inv /\ ValidHaveState(lineArry) /\ [Next]_vars =>
    ValidHaveState(lineArry') /\ [Contents!Next]_(StatesOf(lineArry))
<1> SUFFICES ASSUME LinesInv(lineArry), ValidHaveState(lineArry), [Next]_vars
             PROVE  ValidHaveState(lineArry') /\ [Contents!Next]_(StatesOf(lineArry))
  BY DEF Inv
<1> USE DEF ValidMESI
<1>1. ASSUME NEW t \in Tags, NEW s \in ValidMESI, Contains(lineArry, t),
             Maps(lineArry, lineArry', t, s) \/ Maps(lineArry, lineArry', t, "I")
      PROVE  ValidHaveState(lineArry') /\ Contents!Next
  <2>1. StatesOf(lineArry)[t] # "I"
    BY <1>1, PresentIsNotI
  <2> QED BY <1>1, <2>1, SetInImplementation DEF Maps
<1>2. ASSUME NEW t \in Tags, NEW s \in ValidMESI, Hit(t, s)
      PROVE  ValidHaveState(lineArry') /\ Contents!Next
  BY <1>1, <1>2, HitMaps DEF Hit
<1>3. ASSUME NEW t \in Tags, NEW s \in ValidMESI, Insert(t, s)
      PROVE  ValidHaveState(lineArry') /\ Contents!Next
  <2>1. ~Contains(lineArry, t) /\ ~IsFull(lineArry) /\ Maps(lineArry, lineArry', t, s)
    BY <1>3, InsertMaps DEF Insert
  <2>2. Cardinality(Contents!Beside(t)) < LinesPerSet
    BY <2>1, HeldTags, BesideIsHeld
  <2>3. Contents!Fill(t, s)
    BY <2>1, <2>2, AbsentIsI, SameCardinality DEF Contents!Fill, Maps
  <2> QED BY <2>1, <2>3 DEF Contents!Next, Maps
<1>4. ASSUME NEW t \in Tags, NEW s \in ValidMESI, EvictAndInsert(t, s)
      PROVE  ValidHaveState(lineArry') /\ Contents!Next
  <2>1. ~Contains(lineArry, t) /\ IsFull(lineArry)
    BY <1>4 DEF EvictAndInsert
  <2>2. PICK v \in Lines : lineArry' = StreamIn(InvalidateLine(lineArry, v), v, t, s)
    BY <1>4 DEF EvictAndInsert
  <2>3. PICK u \in Tags : /\ StatesOf(lineArry)[u] # "I" /\ ValidHaveState(lineArry')
                          /\ StatesOf(lineArry') =
                               [StatesOf(lineArry) EXCEPT ![u] = "I", ![t] = s]
    BY <2>1, <2>2, EvictAndInsertMaps
  <2>4. Cardinality(Contents!Beside(t)) = LinesPerSet /\ u \in Contents!Beside(t)
    BY <2>1, <2>3, HeldTags, BesideIsHeld
  <2>5. Contents!Replace(u, t, s)
    BY <2>1, <2>3, <2>4, AbsentIsI, SameCardinality DEF Contents!Replace
  <2> QED BY <2>3, <2>5 DEF Contents!Next
<1>5. ASSUME NEW t \in Tags, Share(t) PROVE ValidHaveState(lineArry') /\ Contents!Next
  BY <1>1, <1>5, HitMaps DEF Share
<1>6. ASSUME NEW t \in Tags, Invalidate(t) PROVE ValidHaveState(lineArry') /\ Contents!Next
  BY <1>1, <1>6, InvalidateMaps DEF Invalidate
<1>7. CASE UNCHANGED vars
  BY <1>7 DEF vars, ValidHaveState, StatesOf, Contains, GetLine, IsGetLine
<1> QED BY <1>2, <1>3, <1>4, <1>5, <1>6, <1>7 DEF Next

LEMMA InitImplements == Init => ValidHaveState(lineArry) /\ Contents!Init
<1> SUFFICES ASSUME Init PROVE ValidHaveState(lineArry) /\ Contents!Init
  OBVIOUS
<1>1. \A i \in Lines : ~lineArry[i].valid
  BY DEF Init
<1> QED BY <1>1 DEF ValidHaveState, Contents!Init, StatesOf, Contains

(* The set is a map with room for LinesPerSet tags: what a controller puts *)
(* in is found again in the state it was given, whichever line getLine     *)
(* returns (CacheSet.cpp:31-57, 74-137), and a tag is only given up for    *)
(* another one, in a full set.                                             *)
THEOREM SetImplementsContents == Spec => ImplementsContents
<1> DEFINE IInv == Inv /\ ValidHaveState(lineArry)
<1>1. Init => IInv /\ Contents!Init
  BY InitInv, InitImplements
<1>2. IInv /\ [Next]_vars => IInv' /\ [Contents!Next]_(StatesOf(lineArry))
  BY NextKeepsInv, StepImplements
<1> HIDE DEF IInv
<1> QED BY <1>1, <1>2, PTL DEF Spec, ImplementsContents, Contents!Spec

=============================================================================
