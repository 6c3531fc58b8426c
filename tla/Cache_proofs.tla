---------------------------- MODULE Cache_proofs ----------------------------
(***************************************************************************)
(* The cache is the map of line addresses to states its controller takes   *)
(* it for, and each of its sets a CacheSet, for every number of sets, lines*)
(* and bytes in a line, and every width of the tags that fits the          *)
(* addresses.                                                              *)
(***************************************************************************)
EXTENDS Cache, FiniteSetTheorems, TLAPS

(* What is proved of the lines of one set holds of any array of lines: the *)
(* variables of this instance play no part in it.                          *)
One == INSTANCE CacheSet_proofs WITH
  ColdTag <- 0, lineArry <- setArry[0], usedAfter <- usedAfter[0]

LEMMA Geometry ==
  /\ BytesPerLine \in Nat \ {0} /\ NumSets \in Nat \ {0} /\ LinesPerSet \in Nat \ {0}
  /\ TagLimit \in Nat \ {0} /\ 0 \in Tags /\ 0 \in Sets
BY GeometryAssumption DEF Tags, Sets

LEMMA SameLookups ==
  ASSUME NEW n, NEW L, NEW i, NEW t
  PROVE  /\ Set(n)!Lines = Lines /\ One!Lines = Lines
         /\ Set(n)!Contains(L, t) = One!Contains(L, t)
         /\ Set(n)!GetLine(L, t) = One!GetLine(L, t)
         /\ Set(n)!IsFull(L) = One!IsFull(L)
         /\ Set(n)!IsEmptyLine(L, i) = One!IsEmptyLine(L, i)
         /\ Set(n)!IsVictim(L, i) = One!IsVictim(L, i)
BY DEF Set!Lines, One!Lines, Lines, Set!Contains, One!Contains, Set!GetLine, One!GetLine,
       Set!IsGetLine, One!IsGetLine, Set!IsFull, One!IsFull, Set!IsEmptyLine, One!IsEmptyLine,
       Set!IsVictim, One!IsVictim

LEMMA SameCounts ==
  ASSUME NEW n, NEW S
  PROVE  /\ Set(n)!Cardinality(S) = Cardinality(S) /\ One!Cardinality(S) = Cardinality(S)
         /\ Contents!Cardinality(S) = Cardinality(S) /\ One!IsFiniteSet(S) = IsFiniteSet(S)
BY DEF Set!Cardinality, One!Cardinality, Contents!Cardinality, Cardinality,
       Set!IsFiniteSet, One!IsFiniteSet, Contents!IsFiniteSet, IsFiniteSet

LEMMA SameUpdateLRU ==
  ASSUME NEW n, NEW L, NEW i
  PROVE  Set(n)!UpdateLRU(L, i) = One!UpdateLRU(L, i)
<1>1. \A j : Set(n)!Renumbered(L, i, j) = One!Renumbered(L, i, j)
  BY DEF Set!Renumbered, One!Renumbered
<1> QED BY <1>1, SameLookups, SameCounts DEF Set!UpdateLRU, One!UpdateLRU

LEMMA SameUpdates ==
  ASSUME NEW n, NEW L, NEW i, NEW t, NEW s
  PROVE  /\ Set(n)!InvalidateLine(L, i) = One!InvalidateLine(L, i)
         /\ Set(n)!StreamIn(L, i, t, s) = One!StreamIn(L, i, t, s)
<1>1. \A N : Set(n)!CheckAndFixLRU(N) = One!CheckAndFixLRU(N)
  <2> TAKE N
  <2>1. \A j : Set(n)!InMap(N, j) = One!InMap(N, j)
    BY SameLookups DEF Set!InMap, One!InMap
  <2> QED BY <2>1, SameLookups, SameCounts DEF Set!CheckAndFixLRU, One!CheckAndFixLRU
<1> QED BY <1>1, SameUpdateLRU
       DEF Set!InvalidateLine, One!InvalidateLine, Set!StreamIn, One!StreamIn

-----------------------------------------------------------------------------
(* The parts of an address: the tag is what is left of the number of the   *)
(* line when the number of the set is taken from it, and it fits a line.   *)

LineNumber(adx) == adx \div BytesPerLine

LEMMA AddressParts ==
  ASSUME NEW adx \in Addresses
  PROVE  /\ adx \in Nat /\ LineNumber(adx) \in Nat
         /\ GetAdxSetNum(adx) = LineNumber(adx) % NumSets
         /\ TagOf(adx) = LineNumber(adx) \div NumSets
         /\ GetAdxSetNum(adx) \in Sets /\ TagOf(adx) \in Tags
         /\ GetTag(adx) = TagOf(adx)
         /\ LineStart(adx) = LineNumber(adx) * BytesPerLine
<1>1. adx \in Nat /\ adx < TagLimit * NumSets * BytesPerLine
  BY AddressesAssumption
<1>2. LineNumber(adx) \in Nat
  BY <1>1, Geometry DEF LineNumber
<1>3. GetTag(adx) = LineNumber(adx) \div NumSets
  BY <1>1, Geometry DEF GetTag, LineNumber
<1>4. GetTag(adx) \in Nat /\ GetTag(adx) < TagLimit
  BY <1>1, Geometry DEF GetTag
<1>5. TagOf(adx) = GetTag(adx)
  BY <1>4, Geometry DEF TagOf, Masked
<1>6. GetAdxSetNum(adx) \in Sets
  BY <1>2, Geometry DEF GetAdxSetNum, LineNumber, Sets
<1>7. TagOf(adx) \in Tags
  BY <1>4, <1>5, Geometry DEF Tags
<1> QED BY <1>1, <1>2, <1>3, <1>5, <1>6, <1>7 DEF GetAdxSetNum, LineNumber, LineStart

(* Rebuilt from the parts, an address is that of the first byte.           *)
LEMMA RebuiltAddress ==
  ASSUME NEW adx \in Addresses
  PROVE  /\ GetAddress(GetAdxSetNum(adx), TagOf(adx)) = LineStart(adx)
         /\ GetLineAlignedAddress(adx) = LineStart(adx)
<1>1. /\ LineNumber(adx) \in Nat /\ TagOf(adx) = LineNumber(adx) \div NumSets
      /\ GetAdxSetNum(adx) = LineNumber(adx) % NumSets /\ GetTag(adx) = TagOf(adx)
      /\ LineStart(adx) = LineNumber(adx) * BytesPerLine
  BY AddressParts
<1>2. \A k \in Nat, d \in Nat \ {0} : k = (k % d) + (k \div d) * d /\ k % d \in Nat /\ k \div d \in Nat
  OBVIOUS
<1>3. /\ LineNumber(adx) = GetAdxSetNum(adx) + TagOf(adx) * NumSets
      /\ GetAdxSetNum(adx) \in Nat /\ TagOf(adx) \in Nat
  BY <1>1, <1>2, Geometry
<1>4. \A a, b, c, d \in Nat : (a + b * c) * d = a * d + b * (d * c)
  OBVIOUS
<1>5. LineStart(adx) = GetAdxSetNum(adx) * BytesPerLine + TagOf(adx) * (BytesPerLine * NumSets)
  BY <1>1, <1>3, <1>4, Geometry
<1> QED BY <1>1, <1>5 DEF GetAddress, GetLineAlignedAddress

(* The name of a line has the parts of every byte of it, and no other line *)
(* has both.                                                               *)
LEMMA NamesOfLines ==
  ASSUME NEW adx \in Addresses
  PROVE  /\ LineStart(adx) \in LineAddresses
         /\ GetAdxSetNum(LineStart(adx)) = GetAdxSetNum(adx)
         /\ TagOf(LineStart(adx)) = TagOf(adx)
<1>1. LineNumber(adx) \in Nat /\ LineStart(adx) = LineNumber(adx) * BytesPerLine /\ adx \in Nat
  BY AddressParts
<1>2. LineNumber(LineStart(adx)) = LineNumber(adx)
  <2>1. \A k \in Nat, d \in Nat \ {0} : (k * d) \div d = k
    OBVIOUS
  <2> QED BY <1>1, <2>1, Geometry DEF LineNumber
<1>3. GetAdxSetNum(LineStart(adx)) = GetAdxSetNum(adx)
  BY <1>2 DEF GetAdxSetNum, LineNumber
<1>4. GetTag(LineStart(adx)) = GetTag(adx)
  <2>1. \A k \in Nat : k \div (BytesPerLine * NumSets) = (k \div BytesPerLine) \div NumSets
    BY Geometry
  <2>2. LineStart(adx) \in Nat
    BY <1>1, Geometry
  <2> QED BY <1>1, <1>2, <2>1, <2>2 DEF GetTag, LineNumber
<1> QED BY <1>3, <1>4 DEF TagOf, LineAddresses

LEMMA LineParts ==
  ASSUME NEW x \in LineAddresses
  PROVE  /\ GetAdxSetNum(x) \in Sets /\ TagOf(x) \in Tags
         /\ x = GetAddress(GetAdxSetNum(x), TagOf(x))
<1>1. PICK adx \in Addresses : x = LineStart(adx)
  BY DEF LineAddresses
<1> QED BY <1>1, AddressParts, RebuiltAddress, NamesOfLines

-----------------------------------------------------------------------------
(* The sets. Every line that is not invalid has the tag of an address that *)
(* was used.                                                               *)

StatesIn(n) == One!StatesOf(setArry[n])

SetInv(n) == One!LinesInv(setArry[n]) /\ One!ValidHaveState(setArry[n])

Named(n) == \A t \in Tags : StatesIn(n)[t] # "I" =>
  \E adx \in Addresses : GetAdxSetNum(adx) = n /\ TagOf(adx) = t

CacheInv ==
  /\ DOMAIN setArry = Sets /\ DOMAIN usedAfter = Sets
  /\ \A n \in Sets : SetInv(n) /\ Named(n)

(* What the three kinds of operations make of the set L of their address:  *)
(* a line they find changes its state, or they bring in a line, in a set   *)
(* with room or in the place of another one.                               *)
States == {"M", "E", "S", "I"}

Changes(L, N, t) ==
  \/ One!Contains(L, t) /\ \E s \in States : One!Maps(L, N, t, s)
  \/ /\ ~One!Contains(L, t) /\ ~One!IsFull(L)
     /\ \E s \in States \ {"I"} : One!Maps(L, N, t, s)
  \/ /\ ~One!Contains(L, t) /\ One!IsFull(L) /\ One!LinesInv(N) /\ One!ValidHaveState(N)
     /\ \E u \in Tags, s \in States \ {"I"} :
          /\ One!StatesOf(L)[u] # "I"
          /\ One!StatesOf(N) = [One!StatesOf(L) EXCEPT ![u] = "I", ![t] = s]

Operation(adx) ==
  \/ \E s \in {"M", "E", "S"} : Hit(adx, s) \/ Insert(adx, s) \/ EvictLineInSetAndInsert(adx, s)
  \/ SetShared(adx)
  \/ Invalidate(adx)

LEMMA OperationChanges ==
  ASSUME CacheInv, NEW adx \in Addresses, Operation(adx)
  PROVE  /\ DOMAIN usedAfter' = Sets
         /\ \E N : /\ setArry' = [setArry EXCEPT ![GetAdxSetNum(adx)] = N]
                   /\ Changes(setArry[GetAdxSetNum(adx)], N, TagOf(adx))
<1> DEFINE n == GetAdxSetNum(adx)
           t == TagOf(adx)
           L == setArry[n]
           i == One!GetLine(L, t)
<1>1. n \in Sets /\ t \in Tags
  BY AddressParts
<1>2. /\ One!LinesInv(L) /\ One!ValidHaveState(L) /\ DOMAIN usedAfter = Sets
      /\ 0 \in Tags /\ LinesPerSet \in Nat \ {0} /\ One!Lines = Lines
  BY <1>1, Geometry, SameLookups DEF CacheInv, SetInv
<1>3. DOMAIN usedAfter' = Sets
  BY <1>2 DEF Operation, Hit, Insert, EvictLineInSetAndInsert, SetShared, Invalidate, Used
<1>4. /\ Contains(adx) <=> One!Contains(L, t)
      /\ LineOf(adx) = i
  BY SameLookups DEF Contains, LineOf
<1>5. One!ValidMESI = States \ {"I"}
  BY DEF One!ValidMESI, States
<1> HIDE DEF n, t, L, i
<1>6. ASSUME NEW s \in States \ {"I"}, Hit(adx, s)
      PROVE  \E N : setArry' = [setArry EXCEPT ![n] = N] /\ Changes(L, N, t)
  <2> DEFINE N == One!UpdateLRU([L EXCEPT ![i].mesi = s], i)
  <2>1. setArry' = [setArry EXCEPT ![n] = N] /\ One!Contains(L, t)
    BY <1>4, <1>6, SameUpdateLRU DEF Hit, Becomes, n, L
  <2>2. One!Maps(L, N, t, s)
    BY <1>1, <1>2, <1>5, <2>1, One!HitMaps DEF i
  <2> QED BY <2>1, <2>2 DEF Changes
<1>7. ASSUME NEW s \in States \ {"I"}, Insert(adx, s)
      PROVE  \E N : setArry' = [setArry EXCEPT ![n] = N] /\ Changes(L, N, t)
  <2>1. ~One!Contains(L, t)
    BY <1>4, <1>7 DEF Insert
  <2>2. PICK j \in Lines : Set(0)!IsEmptyLine(L, j) /\ Becomes(adx, Set(0)!StreamIn(L, j, t, s))
    BY <1>7 DEF Insert, n, L, t
  <2>3. One!IsEmptyLine(L, j) /\ Set(0)!StreamIn(L, j, t, s) = One!StreamIn(L, j, t, s)
    BY <2>2, SameLookups, SameUpdates
  <2>4. setArry' = [setArry EXCEPT ![n] = One!StreamIn(L, j, t, s)]
    BY <2>2, <2>3 DEF Becomes, n
  <2>5. ~One!IsFull(L) /\ One!Maps(L, One!StreamIn(L, j, t, s), t, s)
    BY <1>1, <1>2, <1>5, <2>1, <2>3, One!InsertMaps
  <2> QED BY <2>1, <2>4, <2>5 DEF Changes
<1>8. ASSUME NEW s \in States \ {"I"}, EvictLineInSetAndInsert(adx, s)
      PROVE  \E N : setArry' = [setArry EXCEPT ![n] = N] /\ Changes(L, N, t)
  <2>1. ~One!Contains(L, t) /\ One!IsFull(L)
    BY <1>4, <1>8, SameLookups DEF EvictLineInSetAndInsert, n, L
  <2>2. PICK v \in Lines : Becomes(adx, Set(0)!StreamIn(Set(0)!InvalidateLine(L, v), v, t, s))
    BY <1>8 DEF EvictLineInSetAndInsert, n, L, t
  <2> DEFINE N == One!StreamIn(One!InvalidateLine(L, v), v, t, s)
  <2>3. Set(0)!StreamIn(Set(0)!InvalidateLine(L, v), v, t, s) = N
    BY SameUpdates
  <2>4. /\ One!LinesInv(N) /\ One!ValidHaveState(N)
        /\ L[v].tag \in Tags /\ One!StatesOf(L)[L[v].tag] # "I"
        /\ One!StatesOf(N) = [One!StatesOf(L) EXCEPT ![L[v].tag] = "I", ![t] = s]
    BY <1>1, <1>2, <1>5, <2>1, One!EvictAndInsertMaps
  <2> HIDE DEF N
  <2>5. Changes(L, N, t)
    BY <2>1, <2>4 DEF Changes
  <2> QED BY <2>2, <2>3, <2>5 DEF Becomes, n
<1>9. ASSUME SetShared(adx)
      PROVE  \E N : setArry' = [setArry EXCEPT ![n] = N] /\ Changes(L, N, t)
  <2> DEFINE N == [L EXCEPT ![i].mesi = "S"]
  <2>1. setArry' = [setArry EXCEPT ![n] = N] /\ One!Contains(L, t)
    BY <1>4, <1>9 DEF SetShared, Becomes, n, L
  <2>2. "S" \in One!ValidMESI /\ "S" \in States
    BY <1>5 DEF States
  <2>3. One!Maps(L, N, t, "S")
    BY <1>1, <1>2, <2>1, <2>2, One!HitMaps DEF i
  <2> QED BY <2>1, <2>2, <2>3 DEF Changes
<1>10. ASSUME Invalidate(adx)
       PROVE  \E N : setArry' = [setArry EXCEPT ![n] = N] /\ Changes(L, N, t)
  <2> DEFINE N == One!InvalidateLine(L, i)
  <2>1. setArry' = [setArry EXCEPT ![n] = N] /\ One!Contains(L, t)
    BY <1>4, <1>10, SameUpdates DEF Invalidate, Becomes, n, L
  <2>2. One!Maps(L, N, t, "I")
    BY <1>1, <1>2, <2>1, One!InvalidateMaps DEF i
  <2>3. "I" \in States
    BY DEF States
  <2> QED BY <2>1, <2>2, <2>3 DEF Changes
<1>11. \E N : setArry' = [setArry EXCEPT ![n] = N] /\ Changes(L, N, t)
  <2>1. {"M", "E", "S"} = States \ {"I"}
    BY DEF States
  <2> QED BY <1>6, <1>7, <1>8, <1>9, <1>10, <2>1 DEF Operation
<1> QED BY <1>3, <1>11 DEF n, t, L

(* However the set changes, its lines stay in order, and only its tag gets *)
(* a state.                                                                *)
LEMMA ChangesKeepSet ==
  ASSUME NEW L, NEW N, NEW t \in Tags, Changes(L, N, t)
  PROVE  /\ One!LinesInv(N) /\ One!ValidHaveState(N)
         /\ \A u \in Tags \ {t} : One!StatesOf(N)[u] # "I" => One!StatesOf(L)[u] # "I"
<1>1. DOMAIN One!StatesOf(L) = Tags
  BY DEF One!StatesOf
<1>2. CASE \E s \in States : One!Maps(L, N, t, s)
  BY <1>1, <1>2 DEF One!Maps
<1>3. CASE /\ One!LinesInv(N) /\ One!ValidHaveState(N)
           /\ \E u \in Tags, s \in States \ {"I"} :
                One!StatesOf(N) = [One!StatesOf(L) EXCEPT ![u] = "I", ![t] = s]
  <2>1. PICK u \in Tags, s \in States \ {"I"} :
          One!StatesOf(N) = [One!StatesOf(L) EXCEPT ![u] = "I", ![t] = s]
    BY <1>3
  <2> QED BY <1>1, <1>3, <2>1
<1> QED BY <1>2, <1>3 DEF Changes

LEMMA InitCache == Init => CacheInv
<1> SUFFICES ASSUME Init PROVE CacheInv
  OBVIOUS
<1>1. DOMAIN setArry = Sets /\ DOMAIN usedAfter = Sets
  BY DEF Init
<1>2. ASSUME NEW n \in Sets PROVE SetInv(n) /\ Named(n)
  <2>1. \A i \in Lines : setArry[n][i] = [tag |-> 0, valid |-> FALSE, mesi |-> "I", lru |-> 0]
    BY DEF Init
  <2>2. setArry[n] \in [Lines -> One!CacheLine]
    BY Geometry DEF Init, One!CacheLine, One!ValidMESI
  <2>3. One!LinesInv(setArry[n]) /\ One!ValidHaveState(setArry[n])
    BY <2>1, <2>2, SameLookups
       DEF One!LinesInv, One!LinesTyped, One!FirstIsValid, One!OneZero, One!ValidHaveState
  <2>4. \A t \in Tags : ~One!Contains(setArry[n], t)
    <3>1. One!Lines = Lines
      BY SameLookups
    <3>2. \A i \in Lines : ~setArry[n][i].valid
      BY <2>1
    <3> QED BY <3>1, <3>2 DEF One!Contains
  <2>5. \A t \in Tags : StatesIn(n)[t] = "I"
    BY <2>4 DEF StatesIn, One!StatesOf
  <2> QED BY <2>3, <2>5 DEF SetInv, Named
<1> QED BY <1>1, <1>2 DEF CacheInv

LEMMA NextKeepsCache == CacheInv /\ [Next]_vars => CacheInv'
<1> SUFFICES ASSUME CacheInv, [Next]_vars PROVE CacheInv'
  OBVIOUS
<1>1. ASSUME NEW adx \in Addresses, Operation(adx) PROVE CacheInv'
  <2> DEFINE n == GetAdxSetNum(adx)
  <2>1. PICK N : setArry' = [setArry EXCEPT ![n] = N] /\ Changes(setArry[n], N, TagOf(adx))
    BY <1>1, OperationChanges
  <2>2. n \in Sets /\ TagOf(adx) \in Tags /\ DOMAIN usedAfter' = Sets
    BY <1>1, AddressParts, OperationChanges
  <2>3. DOMAIN setArry' = Sets
    BY <2>1 DEF CacheInv
  <2>4. ASSUME NEW m \in Sets PROVE SetInv(m)' /\ Named(m)'
    <3>1. CASE m # n
      <4>1. setArry'[m] = setArry[m]
        BY <2>1, <2>4, <3>1 DEF CacheInv
      <4> QED BY <4>1 DEF CacheInv, SetInv, Named, StatesIn
    <3>2. CASE m = n
      <4>1. setArry'[n] = N
        BY <2>1, <2>2 DEF CacheInv
      <4>2. /\ One!LinesInv(N) /\ One!ValidHaveState(N)
            /\ \A u \in Tags \ {TagOf(adx)} :
                 One!StatesOf(N)[u] # "I" => One!StatesOf(setArry[n])[u] # "I"
        BY <2>1, <2>2, ChangesKeepSet
      <4>3. Named(n)
        BY <2>2 DEF CacheInv
      <4>4. Named(n)'
        BY <4>1, <4>2, <4>3 DEF Named, StatesIn
      <4> QED BY <3>2, <4>1, <4>2, <4>4 DEF SetInv
    <3> QED BY <3>1, <3>2
  <2> QED BY <2>2, <2>3, <2>4 DEF CacheInv
<1>2. CASE UNCHANGED vars
  BY <1>2 DEF vars, CacheInv, SetInv, Named, StatesIn
<1> QED BY <1>1, <1>2 DEF Next, Operation

-----------------------------------------------------------------------------
(* An operation on an address is the CacheSet's on its tag, and leaves the *)
(* other sets alone.                                                       *)
LEMMA OperationInSet ==
  ASSUME CacheInv, NEW adx \in Addresses, Operation(adx), NEW n, n = GetAdxSetNum(adx)
  PROVE  Set(n)!Next /\ \A m \in Sets \ {n} : UNCHANGED Set(m)!vars
<1> DEFINE t == TagOf(adx)
           L == setArry[n]
           i == Set(n)!GetLine(L, t)
<1>1. n \in Sets /\ t \in Tags /\ DOMAIN setArry = Sets /\ DOMAIN usedAfter = Sets
  BY AddressParts DEF CacheInv
<1>2. /\ Contains(adx) <=> Set(n)!Contains(L, t)
      /\ LineOf(adx) = i
  BY SameLookups DEF Contains, LineOf
<1>3. ASSUME NEW N, Becomes(adx, N) PROVE setArry'[n] = N
  BY <1>1, <1>3 DEF Becomes
<1>4. Used(adx) => usedAfter'[n] = Set(n)!Use(t)
  BY <1>1 DEF Used
<1>5. \A m \in Sets \ {n} : UNCHANGED Set(m)!vars
  <2> SUFFICES ASSUME NEW m \in Sets \ {n}
               PROVE  setArry'[m] = setArry[m] /\ usedAfter'[m] = usedAfter[m]
    BY DEF Set!vars
  <2>1. setArry'[m] = setArry[m]
    BY <1>1, OperationChanges
  <2>2. usedAfter'[m] = usedAfter[m]
    BY <1>1 DEF Operation, Hit, Insert, EvictLineInSetAndInsert, SetShared, Invalidate, Used
  <2> QED BY <2>1, <2>2
<1> HIDE DEF t, i
<1>6. ASSUME NEW s \in {"M", "E", "S"}, Hit(adx, s) PROVE Set(n)!Next
  <2>1. setArry'[n] = Set(n)!UpdateLRU([L EXCEPT ![i].mesi = s], i)
    BY <1>2, <1>3, <1>6, SameUpdateLRU DEF Hit
  <2>2. Set(n)!Hit(t, s)
    BY <1>2, <1>4, <1>6, <2>1 DEF Hit, Set!Hit, i
  <2> QED BY <1>1, <1>6, <2>2 DEF Set!Next, Set!ValidMESI
<1>7. ASSUME NEW s \in {"M", "E", "S"}, Insert(adx, s) PROVE Set(n)!Next
  <2>1. PICK j \in Lines : Set(0)!IsEmptyLine(L, j) /\ Becomes(adx, Set(0)!StreamIn(L, j, t, s))
    BY <1>7 DEF Insert, t
  <2>2. setArry'[n] = Set(n)!StreamIn(L, j, t, s) /\ Set(n)!IsEmptyLine(L, j)
    BY <1>3, <2>1, SameUpdates, SameLookups
  <2>3. j \in Set(n)!Lines
    BY <2>1, SameLookups
  <2>4. Set(n)!Insert(t, s)
    BY <1>2, <1>4, <1>7, <2>2, <2>3 DEF Insert, Set!Insert
  <2> QED BY <1>1, <1>7, <2>4 DEF Set!Next, Set!ValidMESI
<1>8. ASSUME NEW s \in {"M", "E", "S"}, EvictLineInSetAndInsert(adx, s) PROVE Set(n)!Next
  <2>1. PICK v \in Lines :
          /\ Set(0)!IsVictim(L, v)
          /\ Becomes(adx, Set(0)!StreamIn(Set(0)!InvalidateLine(L, v), v, t, s))
    BY <1>8 DEF EvictLineInSetAndInsert, t
  <2>2. /\ setArry'[n] = Set(n)!StreamIn(Set(n)!InvalidateLine(L, v), v, t, s)
        /\ Set(n)!IsVictim(L, v)
    BY <1>3, <2>1, SameUpdates, SameLookups
  <2>3. v \in Set(n)!Lines /\ Set(n)!IsFull(L)
    BY <1>8, <2>1, SameLookups DEF EvictLineInSetAndInsert
  <2>4. Set(n)!EvictAndInsert(t, s)
    BY <1>2, <1>4, <1>8, <2>2, <2>3 DEF EvictLineInSetAndInsert, Set!EvictAndInsert
  <2> QED BY <1>1, <1>8, <2>4 DEF Set!Next, Set!ValidMESI
<1>9. ASSUME SetShared(adx) PROVE Set(n)!Next
  <2>1. setArry'[n] = [L EXCEPT ![i].mesi = "S"] /\ usedAfter'[n] = usedAfter[n]
    BY <1>2, <1>3, <1>9 DEF SetShared
  <2>2. Set(n)!Share(t)
    BY <1>2, <1>9, <2>1 DEF SetShared, Set!Share, i
  <2> QED BY <1>1, <2>2 DEF Set!Next
<1>10. ASSUME Invalidate(adx) PROVE Set(n)!Next
  <2>1. setArry'[n] = Set(n)!InvalidateLine(L, i) /\ usedAfter'[n] = usedAfter[n]
    BY <1>2, <1>3, <1>10, SameUpdates DEF Invalidate
  <2>2. Set(n)!Invalidate(t)
    BY <1>2, <1>10, <2>1 DEF Invalidate, Set!Invalidate, i
  <2> QED BY <1>1, <2>2 DEF Set!Next
<1> QED BY <1>5, <1>6, <1>7, <1>8, <1>9, <1>10 DEF Operation

(* Each set of the cache is a CacheSet: an address only ever touches its   *)
(* own set (Cache.cpp:21-33), so what is proved of a CacheSet - it finds   *)
(* the valid line, it has a victim when full - holds of each.              *)
THEOREM CacheImplementsSets == Spec => ImplementsSets
<1>1. Init => \A n \in Sets : Set(n)!Init
  <2> SUFFICES ASSUME Init, NEW n \in Sets PROVE Set(n)!Init
    OBVIOUS
  <2>1. Set(n)!Lines = Lines
    BY SameLookups
  <2> QED BY <2>1 DEF Init, Set!Init
<1>2. CacheInv /\ [Next]_vars => [\A n \in Sets : [Set(n)!Next]_(Set(n)!vars)]_vars
  <2> SUFFICES ASSUME CacheInv, Next, NEW n \in Sets PROVE [Set(n)!Next]_(Set(n)!vars)
    OBVIOUS
  <2>1. PICK adx \in Addresses : Operation(adx)
    BY DEF Next, Operation
  <2>2. PICK k : k = GetAdxSetNum(adx)
    OBVIOUS
  <2>3. Set(k)!Next /\ \A m \in Sets \ {k} : UNCHANGED Set(m)!vars
    BY <2>1, <2>2, OperationInSet
  <2> QED BY <2>3
<1> QED BY <1>1, <1>2, InitCache, NextKeepsCache, PTL DEF Spec, ImplementsSets

-----------------------------------------------------------------------------
(* The address of a line.                                                  *)
LEMMA CacheAddressable == CacheInv => LinesAreAddressable
<1> SUFFICES ASSUME CacheInv, NEW n \in Sets, NEW i \in Lines, setArry[n][i].valid
             PROVE  /\ GetAddress(n, setArry[n][i].tag) \in LineAddresses
                    /\ \A adx \in Addresses : LineStart(adx) = GetAddress(n, setArry[n][i].tag) =>
                         /\ GetLineAlignedAddress(adx) = LineStart(adx)
                         /\ Contains(adx) /\ LineOf(adx) = i
  BY DEF LinesAreAddressable
<1> DEFINE L == setArry[n]
           t == L[i].tag
<1>1. /\ One!LinesInv(L) /\ One!ValidHaveState(L) /\ Named(n) /\ One!Lines = Lines
      /\ 0 \in Tags /\ LinesPerSet \in Nat \ {0}
  BY SameLookups, Geometry DEF CacheInv, SetInv
<1>2. t \in Tags /\ One!StatesOf(L)[t] # "I"
  <2>1. t \in Tags /\ One!StatesOf(L)[t] = L[i].mesi
    BY <1>1, One!StateOfLine
  <2> QED BY <1>1, <2>1 DEF One!ValidHaveState
<1>3. PICK a \in Addresses : GetAdxSetNum(a) = n /\ TagOf(a) = t
  BY <1>1, <1>2 DEF Named, StatesIn
<1>4. LineStart(a) = GetAddress(n, t) /\ LineStart(a) \in LineAddresses
  BY <1>3, RebuiltAddress, NamesOfLines
<1>5. One!Contains(L, t)
  BY <1>1 DEF One!Contains
<1>6. One!GetLine(L, t) = i
  <2>1. /\ One!GetLine(L, t) \in Lines /\ L[One!GetLine(L, t)].valid
        /\ L[One!GetLine(L, t)].tag = t
    BY <1>1, <1>2, <1>5, One!GetLineFinds DEF One!LinesInv
  <2> QED BY <1>1, <2>1 DEF One!LinesInv, One!FirstIsValid, Lines
<1>7. ASSUME NEW adx \in Addresses, LineStart(adx) = GetAddress(n, t)
      PROVE  /\ GetLineAlignedAddress(adx) = LineStart(adx)
             /\ Contains(adx) /\ LineOf(adx) = i
  <2>1. GetAdxSetNum(adx) = n /\ TagOf(adx) = t
    BY <1>3, <1>4, <1>7, NamesOfLines
  <2> QED BY <1>5, <1>6, <2>1, RebuiltAddress, SameLookups DEF Contains, LineOf
<1> QED BY <1>4, <1>7

(* The address rebuilt from the place and the tag of a valid line is that  *)
(* of its first byte, and every byte of the line finds it (Cache.cpp:40-52,*)
(* MESI_Controller.cpp:250-251), although a line keeps only part of a tag: *)
(* the addresses fit it.                                                   *)
THEOREM LinesStayAddressable == Spec => []LinesAreAddressable
BY InitCache, NextKeepsCache, CacheAddressable, PTL DEF Spec

-----------------------------------------------------------------------------
(* The cache as a map of line addresses to states.                         *)
Shown == [x \in LineAddresses |->
  IF Contains(x) THEN setArry[GetAdxSetNum(x)][LineOf(x)].mesi ELSE "I"]

LEMMA ShownStates ==
  ASSUME NEW x \in LineAddresses
  PROVE  /\ Shown[x] = StatesIn(GetAdxSetNum(x))[TagOf(x)]
         /\ Shown'[x] = StatesIn(GetAdxSetNum(x))'[TagOf(x)]
<1>1. TagOf(x) \in Tags
  BY LineParts
<1>2. \A L : /\ Set(GetAdxSetNum(x))!Contains(L, TagOf(x)) = One!Contains(L, TagOf(x))
             /\ Set(GetAdxSetNum(x))!GetLine(L, TagOf(x)) = One!GetLine(L, TagOf(x))
  BY SameLookups
<1> QED BY <1>1, <1>2 DEF Shown, Contains, LineOf, StatesIn, One!StatesOf

(* A change of the lines of one set is one of the states of its names.     *)
LEMMA ShownChanges ==
  ASSUME CacheInv, NEW n \in Sets, NEW N, setArry' = [setArry EXCEPT ![n] = N]
  PROVE  /\ DOMAIN Shown = LineAddresses /\ DOMAIN Shown' = LineAddresses
         /\ \A y \in LineAddresses : Shown'[y] =
              IF GetAdxSetNum(y) = n THEN One!StatesOf(N)[TagOf(y)] ELSE Shown[y]
<1>1. DOMAIN Shown = LineAddresses /\ DOMAIN Shown' = LineAddresses
  BY DEF Shown
<1>2. ASSUME NEW y \in LineAddresses
      PROVE  Shown'[y] = IF GetAdxSetNum(y) = n THEN One!StatesOf(N)[TagOf(y)] ELSE Shown[y]
  <2>1. /\ Shown[y] = StatesIn(GetAdxSetNum(y))[TagOf(y)]
        /\ Shown'[y] = StatesIn(GetAdxSetNum(y))'[TagOf(y)]
        /\ GetAdxSetNum(y) \in Sets
    BY ShownStates, LineParts
  <2>2. setArry'[GetAdxSetNum(y)] = IF GetAdxSetNum(y) = n THEN N ELSE setArry[GetAdxSetNum(y)]
    BY <2>1 DEF CacheInv
  <2> QED BY <2>1, <2>2 DEF StatesIn
<1> QED BY <1>1, <1>2

(* Of all the lines of a set, only the one named x has the tag of x.       *)
LEMMA OnlyNameOfTag ==
  ASSUME NEW x \in LineAddresses, NEW y \in LineAddresses,
         GetAdxSetNum(x) = GetAdxSetNum(y), TagOf(x) = TagOf(y)
  PROVE  x = y
BY LineParts

(* The lines beside a line are as many as its set holds tags.              *)
LEMMA BesideCounted ==
  ASSUME CacheInv, NEW x \in LineAddresses, NEW n, n = GetAdxSetNum(x)
  PROVE  /\ One!IsFull(setArry[n]) => Contents!Cardinality(Contents!Beside(x)) = LinesPerSet
         /\ ~One!IsFull(setArry[n]) => Contents!Cardinality(Contents!Beside(x)) < LinesPerSet
         /\ \A y \in LineAddresses :
              GetAdxSetNum(y) = n /\ Shown[y] # "I" => y \in Contents!Beside(x)
<1> DEFINE held == {t \in Tags : One!StatesOf(setArry[n])[t] # "I"}
           beside == Contents!Beside(x)
           g == [t \in held |-> GetAddress(n, t)]
<1>1. n \in Sets
  BY LineParts
<1>2. beside = {y \in LineAddresses : Shown[y] # "I" /\ GetAdxSetNum(y) = n}
  BY DEF Contents!Beside, Shown
<1>3. ASSUME NEW t \in held
      PROVE  /\ GetAddress(n, t) \in beside
             /\ TagOf(GetAddress(n, t)) = t
  <2>1. PICK a \in Addresses : GetAdxSetNum(a) = n /\ TagOf(a) = t
    BY <1>1 DEF CacheInv, Named, StatesIn
  <2>2. /\ GetAddress(n, t) = LineStart(a) /\ LineStart(a) \in LineAddresses
        /\ GetAdxSetNum(LineStart(a)) = n /\ TagOf(LineStart(a)) = t
    BY <2>1, RebuiltAddress, NamesOfLines
  <2>3. Shown[LineStart(a)] # "I"
    BY <2>2, ShownStates DEF StatesIn
  <2> QED BY <1>2, <2>2, <2>3
<1>4. ASSUME NEW y \in beside PROVE TagOf(y) \in held /\ GetAddress(n, TagOf(y)) = y
  <2>1. y \in LineAddresses /\ Shown[y] # "I" /\ GetAdxSetNum(y) = n
    BY <1>2
  <2> QED BY <2>1, LineParts, ShownStates DEF StatesIn
<1> HIDE DEF beside, held
<1>5. g \in Surjection(held, beside) /\ g \in Injection(held, beside)
  <2>1. g \in [held -> beside]
    BY <1>3
  <2>2. \A y \in beside : \E t \in held : g[t] = y
    BY <1>4
  <2>3. \A t, u \in held : g[t] = g[u] => t = u
    BY <1>3
  <2> QED BY <2>1, <2>2, <2>3 DEF Surjection, Injection, IsInjective
<1> HIDE DEF g
<1>6. /\ IsFiniteSet(held)
      /\ One!IsFull(setArry[n]) => Cardinality(held) = LinesPerSet
      /\ ~One!IsFull(setArry[n]) => Cardinality(held) < LinesPerSet
  <2>1. One!LinesInv(setArry[n]) /\ One!ValidHaveState(setArry[n])
    BY <1>1 DEF CacheInv, SetInv
  <2> QED BY <2>1, Geometry, SameCounts, One!HeldTags DEF held
<1>7. Cardinality(beside) = Cardinality(held)
  BY <1>5, <1>6, FS_Surjection
<1> QED BY <1>2, <1>6, <1>7, SameCounts DEF beside

LEMMA OperationImplements ==
  ASSUME CacheInv, NEW adx \in Addresses, Operation(adx)
  PROVE  Contents!Next
<1> DEFINE x == LineStart(adx)
           t == TagOf(adx)
<1>1. PICK n : n = GetAdxSetNum(adx)
  OBVIOUS
<1>2. /\ n \in Sets /\ t \in Tags /\ x \in LineAddresses
      /\ GetAdxSetNum(x) = n /\ TagOf(x) = t
  BY <1>1, AddressParts, NamesOfLines
<1>3. PICK N : setArry' = [setArry EXCEPT ![n] = N] /\ Changes(setArry[n], N, t)
  BY <1>1, OperationChanges
<1>4. /\ DOMAIN Shown = LineAddresses /\ DOMAIN Shown' = LineAddresses
      /\ \A y \in LineAddresses : Shown'[y] =
           IF GetAdxSetNum(y) = n THEN One!StatesOf(N)[TagOf(y)] ELSE Shown[y]
  BY <1>2, <1>3, ShownChanges
<1> HIDE DEF x, t
<1> DEFINE L == setArry[n]
<1>5. /\ One!LinesInv(L) /\ One!ValidHaveState(L) /\ DOMAIN One!StatesOf(L) = Tags
      /\ 0 \in Tags /\ LinesPerSet \in Nat \ {0}
  BY <1>2, Geometry DEF CacheInv, SetInv, One!StatesOf
<1>6. \A y \in LineAddresses :
        /\ TagOf(y) \in Tags /\ (GetAdxSetNum(y) = n => Shown[y] = One!StatesOf(L)[TagOf(y)])
        /\ GetAdxSetNum(y) = n /\ TagOf(y) = t => y = x
  BY <1>2, ShownStates, LineParts, OnlyNameOfTag DEF StatesIn
<1>7. (One!Contains(L, t) => Shown[x] # "I") /\ (~One!Contains(L, t) => Shown[x] = "I")
  BY <1>2, <1>5, <1>6, One!AbsentIsI, One!PresentIsNotI
<1>8. ASSUME NEW s, One!Maps(L, N, t, s) PROVE Shown' = [Shown EXCEPT ![x] = s]
  <2>1. One!StatesOf(N) = [One!StatesOf(L) EXCEPT ![t] = s]
    BY <1>8 DEF One!Maps
  <2>2. \A y \in LineAddresses : Shown'[y] = IF y = x THEN s ELSE Shown[y]
    BY <1>2, <1>4, <1>5, <1>6, <2>1
  <2>3. Shown' = [y \in LineAddresses |-> Shown'[y]] /\ Shown = [y \in LineAddresses |-> Shown[y]]
    BY DEF Shown
  <2> QED BY <1>2, <2>2, <2>3
<1>9. CASE One!Contains(L, t) /\ \E s \in States : One!Maps(L, N, t, s)
  <2>1. PICK s \in States : One!Maps(L, N, t, s)
    BY <1>9
  <2>2. Contents!SetState(x, s)
    BY <1>7, <1>8, <1>9, <2>1 DEF Contents!SetState, Shown
  <2> QED BY <1>2, <2>2 DEF Contents!Next, States
<1>10. CASE /\ ~One!Contains(L, t) /\ ~One!IsFull(L)
            /\ \E s \in States \ {"I"} : One!Maps(L, N, t, s)
  <2>1. PICK s \in States \ {"I"} : One!Maps(L, N, t, s)
    BY <1>10
  <2>2. Contents!Fill(x, s)
    BY <1>2, <1>7, <1>8, <1>10, <2>1, BesideCounted DEF Contents!Fill, Shown
  <2> QED BY <1>2, <2>2 DEF Contents!Next, States
<1>11. CASE /\ ~One!Contains(L, t) /\ One!IsFull(L)
            /\ \E u \in Tags, s \in States \ {"I"} :
                 /\ One!StatesOf(L)[u] # "I"
                 /\ One!StatesOf(N) = [One!StatesOf(L) EXCEPT ![u] = "I", ![t] = s]
  <2>1. PICK u \in Tags, s \in States \ {"I"} :
          /\ One!StatesOf(L)[u] # "I"
          /\ One!StatesOf(N) = [One!StatesOf(L) EXCEPT ![u] = "I", ![t] = s]
    BY <1>11
  <2>2. PICK a \in Addresses : GetAdxSetNum(a) = n /\ TagOf(a) = u
    BY <1>2, <2>1 DEF CacheInv, Named, StatesIn
  <2>3. PICK v \in LineAddresses : GetAdxSetNum(v) = n /\ TagOf(v) = u
    BY <2>2, NamesOfLines
  <2>4. Shown[v] # "I" /\ v \in Contents!Beside(x)
    BY <1>2, <1>6, <2>1, <2>3, BesideCounted
  <2>5. \A y \in LineAddresses :
          Shown'[y] = IF y = x THEN s ELSE IF y = v THEN "I" ELSE Shown[y]
    <3> SUFFICES ASSUME NEW y \in LineAddresses
                 PROVE  Shown'[y] = IF y = x THEN s ELSE IF y = v THEN "I" ELSE Shown[y]
      OBVIOUS
    <3>1. GetAdxSetNum(y) = n /\ TagOf(y) = u => y = v
      BY <2>3, OnlyNameOfTag
    <3> QED BY <1>2, <1>4, <1>5, <1>6, <2>1, <2>3, <3>1
  <2>6. Shown' = [y \in LineAddresses |-> Shown'[y]] /\ Shown = [y \in LineAddresses |-> Shown[y]]
    BY DEF Shown
  <2>7. Shown' = [Shown EXCEPT ![v] = "I", ![x] = s]
    BY <1>2, <2>5, <2>6
  <2>8. Contents!Replace(v, x, s)
    BY <1>2, <1>7, <1>11, <2>1, <2>4, <2>7, BesideCounted DEF Contents!Replace, Shown
  <2> QED BY <1>2, <2>8 DEF Contents!Next, States
<1> QED BY <1>3, <1>9, <1>10, <1>11 DEF Changes

(* The cache is the map of line addresses to states its controller takes it*)
(* for (Cache.cpp:35-78): each address has a line of its own, no two share *)
(* one, and a line makes room in its own set.                              *)
THEOREM CacheImplementsContents == Spec => ImplementsContents
<1>1. Init => Contents!Init
  <2> SUFFICES ASSUME Init PROVE \A x \in LineAddresses : Shown[x] = "I"
    BY DEF Contents!Init, Shown
  <2> TAKE x \in LineAddresses
  <2>1. GetAdxSetNum(x) \in Sets
    BY LineParts
  <2>2. \A i \in Lines : ~setArry[GetAdxSetNum(x)][i].valid
    BY <2>1 DEF Init
  <2>3. One!Lines = Lines
    BY SameLookups
  <2>4. ~One!Contains(setArry[GetAdxSetNum(x)], TagOf(x))
    BY <2>2, <2>3 DEF One!Contains
  <2> QED BY <2>4, ShownStates, LineParts DEF StatesIn, One!StatesOf
<1>2. CacheInv /\ [Next]_vars => [Contents!Next]_Shown
  <2> SUFFICES ASSUME CacheInv, [Next]_vars PROVE [Contents!Next]_Shown
    OBVIOUS
  <2>1. CASE Next
    BY <2>1, OperationImplements DEF Next, Operation
  <2>2. CASE UNCHANGED vars
    BY <2>2 DEF vars, Shown, Contains, LineOf, Set!Contains, Set!GetLine, Set!IsGetLine
  <2> QED BY <2>1, <2>2
<1>3. CacheInv /\ [Next]_vars => [Contents!Next]_[x \in LineAddresses |->
        IF Contains(x) THEN setArry[GetAdxSetNum(x)][LineOf(x)].mesi ELSE "I"]
  BY <1>2 DEF Shown
<1> QED BY <1>1, <1>3, InitCache, NextKeepsCache, PTL
       DEF Spec, ImplementsContents, Contents!Spec

=============================================================================
