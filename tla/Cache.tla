-------------------------------- MODULE Cache --------------------------------
(***************************************************************************)
(* The cache of a controller (Cache.cpp): an array of sets, and the split  *)
(* of an address into the number of a set and a tag. Every operation finds *)
(* the set of the address and passes it the tag, of which a line stores    *)
(* and compares 32 bits (CacheLine.cpp): TagLimit is 2^32 in the program.  *)
(* `usedAfter' is CacheSet's, one per set.                                 *)
(***************************************************************************)
EXTENDS Integers, FiniteSets

CONSTANTS
  Addresses,       \* the byte addresses the program is given
  BytesPerLine, NumSets, LinesPerSet,   \* CacheParams.h; all powers of two
  TagLimit

ASSUME GeometryAssumption ==
  {BytesPerLine, NumSets, LinesPerSet, TagLimit} \subseteq Nat \ {0}

(* The addresses of a user program have 47 bits: their tags have 32.       *)
ASSUME AddressesAssumption ==
  \A adx \in Addresses : adx \in Nat /\ adx < TagLimit * NumSets * BytesPerLine

VARIABLES setArry, usedAfter

vars == <<setArry, usedAfter>>

Sets == 0 .. NumSets - 1
Tags == 0 .. TagLimit - 1
Lines == 1 .. LinesPerSet

-----------------------------------------------------------------------------
(* The parts of an address.                                                *)
GetAdxSetNum(adx) == (adx \div BytesPerLine) % NumSets
GetTag(adx) == adx \div (BytesPerLine * NumSets)

(* Broken: the tag is not shifted past the bits of the set.                *)
GetAddressUnshifted(setNum, tag) == setNum * BytesPerLine + tag * BytesPerLine

GetAddress(setNum, tag) == setNum * BytesPerLine + tag * (BytesPerLine * NumSets)

GetLineAlignedAddress(adx) == GetAddress(GetAdxSetNum(adx), GetTag(adx))

(* Broken: a mask one bit narrower.                                        *)
MaskedByOneBitLess(tag) == tag % (TagLimit \div 2)

Masked(tag) == tag % TagLimit

TagOf(adx) == Masked(GetTag(adx))

-----------------------------------------------------------------------------
Set(n) == INSTANCE CacheSet WITH
  ColdTag <- 0, lineArry <- setArry[n], usedAfter <- usedAfter[n]

Init ==
  /\ setArry = [n \in Sets |->
       [i \in Lines |-> [tag |-> 0, valid |-> FALSE, mesi |-> "I", lru |-> 0]]]
  /\ usedAfter = [n \in Sets |-> [t \in Tags |-> {}]]

Contains(adx) == LET n == GetAdxSetNum(adx) IN Set(n)!Contains(setArry[n], TagOf(adx))

LineOf(adx) == LET n == GetAdxSetNum(adx) IN Set(n)!GetLine(setArry[n], TagOf(adx))

(* The set of the address becomes L.                                       *)
Becomes(adx, L) == setArry' = [setArry EXCEPT ![GetAdxSetNum(adx)] = L]

Used(adx) == LET n == GetAdxSetNum(adx) IN
  usedAfter' = [usedAfter EXCEPT ![n] = Set(n)!Use(TagOf(adx))]

(* The operations CacheSet describes for a tag, for an address.            *)
(* Broken: a hit does not touch the LRU bits.                              *)
HitWithoutLRU(adx, s) == LET L == setArry[GetAdxSetNum(adx)] IN
  /\ Contains(adx)
  /\ s \in {L[LineOf(adx)].mesi, "M"}
  /\ Becomes(adx, [L EXCEPT ![LineOf(adx)].mesi = s])
  /\ Used(adx)

Hit(adx, s) == LET L == setArry[GetAdxSetNum(adx)] IN
  /\ Contains(adx)
  /\ s \in {L[LineOf(adx)].mesi, "M"}
  /\ Becomes(adx, Set(0)!UpdateLRU([L EXCEPT ![LineOf(adx)].mesi = s], LineOf(adx)))
  /\ Used(adx)

Insert(adx, s) == LET L == setArry[GetAdxSetNum(adx)] IN
  /\ ~Contains(adx)
  /\ \E i \in Lines :
       Set(0)!IsEmptyLine(L, i) /\ Becomes(adx, Set(0)!StreamIn(L, i, TagOf(adx), s))
  /\ Used(adx)

EvictLineInSetAndInsert(adx, s) == LET L == setArry[GetAdxSetNum(adx)] IN
  /\ ~Contains(adx) /\ Set(0)!IsFull(L)
  /\ \E v \in Lines : Set(0)!IsVictim(L, v) /\
       Becomes(adx, Set(0)!StreamIn(Set(0)!InvalidateLine(L, v), v, TagOf(adx), s))
  /\ Used(adx)

SetShared(adx) == LET L == setArry[GetAdxSetNum(adx)] IN
  /\ Contains(adx)
  /\ Becomes(adx, [L EXCEPT ![LineOf(adx)].mesi = "S"])
  /\ UNCHANGED usedAfter

Invalidate(adx) ==
  /\ Contains(adx)
  /\ Becomes(adx, Set(0)!InvalidateLine(setArry[GetAdxSetNum(adx)], LineOf(adx)))
  /\ UNCHANGED usedAfter

Next == \E adx \in Addresses :
  \/ \E s \in {"M", "E", "S"} : Hit(adx, s) \/ Insert(adx, s) \/ EvictLineInSetAndInsert(adx, s)
  \/ SetShared(adx)
  \/ Invalidate(adx)

Spec == Init /\ [][Next]_vars

-----------------------------------------------------------------------------
(* Properties.                                                             *)
LineStart(adx) == (adx \div BytesPerLine) * BytesPerLine
LineAddresses == {LineStart(adx) : adx \in Addresses}

(* The cache is the map of line addresses to states its controller takes it*)
(* for (Cache.cpp:35-78): each address has a line of its own, no two share *)
(* one although only part of the tag is kept, and a line makes room in its *)
(* own set.                                                                *)
Contents == INSTANCE CacheContents WITH
  Names <- LineAddresses, SetOf <- [x \in LineAddresses |-> GetAdxSetNum(x)],
  Capacity <- LinesPerSet,
  contents <- [x \in LineAddresses |->
    IF Contains(x) THEN setArry[GetAdxSetNum(x)][LineOf(x)].mesi ELSE "I"]

ImplementsContents == Contents!Spec

(* Each set by itself is a CacheSet: what holds of that holds of it.       *)
ImplementsSets ==
  /\ \A n \in Sets : Set(n)!Init
  /\ [][\A n \in Sets : [Set(n)!Next]_(Set(n)!vars)]_vars

(* The address rebuilt from the place and the tag of a line, which is also *)
(* the one requests carry, is that of its first byte, and every byte of it *)
(* finds it (Cache.cpp:40-52, MESI_Controller.cpp:250-251).                *)
LinesAreAddressable == \A n \in Sets, i \in Lines : setArry[n][i].valid =>
  /\ GetAddress(n, setArry[n][i].tag) \in LineAddresses
  /\ \A adx \in Addresses : LineStart(adx) = GetAddress(n, setArry[n][i].tag) =>
       GetLineAlignedAddress(adx) = LineStart(adx) /\ Contains(adx) /\ LineOf(adx) = i

=============================================================================
