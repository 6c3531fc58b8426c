------------------------------ MODULE CacheSet ------------------------------
(***************************************************************************)
(* One set of the cache (CacheSet.cpp, CacheLine.cpp): an array of lines   *)
(* with a tag, a valid bit, MESI bits and LRU bits, and the operations the *)
(* controllers perform on it through Cache.cpp. The dirty bit is left out: *)
(* nothing ever sets it, so every line counts as clean in an eviction.     *)
(* `usedAfter' is not in the program: it records, for every tag, the tags  *)
(* used since it was last used itself, to compare the LRU bits with.       *)
(***************************************************************************)
EXTENDS Integers, FiniteSets

CONSTANTS
  Tags,          \* tags that map to this set
  ColdTag,       \* the tag 0 every line is constructed with
  LinesPerSet    \* LINES_PER_SET of CacheParams.h

ASSUME ColdTagAssumption == ColdTag \in Tags
ASSUME LinesPerSetAssumption == LinesPerSet \in Nat \ {0}

VARIABLES lineArry, usedAfter

vars == <<lineArry, usedAfter>>

Lines == 1 .. LinesPerSet
ValidMESI == {"M", "E", "S"}
CacheLine == [tag : Tags, valid : BOOLEAN, mesi : ValidMESI \cup {"I"}, lru : 0 .. LinesPerSet - 1]

TypeOK ==
  /\ lineArry \in [Lines -> CacheLine]
  /\ usedAfter \in [Tags -> SUBSET Tags]

Init ==
  /\ lineArry = [i \in Lines |-> [tag |-> ColdTag, valid |-> FALSE, mesi |-> "I", lru |-> 0]]
  /\ usedAfter = [t \in Tags |-> {}]

-----------------------------------------------------------------------------
(* Finding lines. contains looks at valid lines only, getLine returns the  *)
(* first line with the tag, valid or not.                                  *)
Contains(L, t) == \E i \in Lines : L[i].valid /\ L[i].tag = t
IsFull(L) == \A i \in Lines : L[i].valid

IsGetLine(L, t, i) == L[i].tag = t /\ \A j \in 1 .. i - 1 : L[j].tag # t
GetLine(L, t) == CHOOSE i \in Lines : IsGetLine(L, t, i)

(* Broken: getEmptyLine searches from the back.                            *)
IsLastEmptyLine(L, i) == ~L[i].valid /\ \A j \in i + 1 .. LinesPerSet : L[j].valid

IsEmptyLine(L, i) == ~L[i].valid /\ \A j \in 1 .. i - 1 : L[j].valid

(* findLRU, over a set whose lines are all clean: the first line with the  *)
(* greatest LRU value above 0. If there is none, the pointer it returns is *)
(* uninitialised.                                                          *)
IsVictim(L, i) ==
  /\ L[i].lru > 0
  /\ \A j \in Lines : L[j].lru <= L[i].lru
  /\ \A j \in 1 .. i - 1 : L[j].lru < L[i].lru

-----------------------------------------------------------------------------
(* updateLRU: the line becomes 0, and the valid lines that were not above  *)
(* it are renumbered from 1 in the order of the array.                     *)
Renumbered(L, i, j) == j # i /\ L[j].valid /\ L[j].lru <= L[i].lru

(* Broken variants: every other line ages at every use; no other line does;*)
(* the line used becomes the highest instead of the lowest.                *)
UpdateLRUAgingAll(L, i) == [j \in Lines |->
  [L[j] EXCEPT !.lru = IF j = i THEN 0 ELSE IF L[j].valid THEN @ + 1 ELSE @]]

UpdateLRUWithoutAging(L, i) == [L EXCEPT ![i].lru = 0]

UpdateLRUInverted(L, i) == [L EXCEPT ![i].lru = LinesPerSet - 1]

UpdateLRU(L, i) == [j \in Lines |->
  [L[j] EXCEPT !.lru = IF j = i THEN 0
                       ELSE IF Renumbered(L, i, j)
                            THEN 1 + Cardinality({k \in 1 .. j - 1 : Renumbered(L, i, k)})
                            ELSE @]]

(* checkAndFixLRU: the map keeps the last valid line of each LRU value and *)
(* numbers those from 0; the other lines keep their value.                 *)
InMap(L, j) == L[j].valid /\ \A k \in Lines : k > j /\ L[k].valid => L[k].lru # L[j].lru

CheckAndFixLRU(L) == [j \in Lines |->
  [L[j] EXCEPT !.lru = IF InMap(L, j)
                       THEN Cardinality({k \in Lines : InMap(L, k) /\ L[k].lru < L[j].lru})
                       ELSE @]]

InvalidateLineStillValid(L, i) == CheckAndFixLRU([L EXCEPT ![i].mesi = "I"])  \* broken

InvalidateLine(L, i) ==
  CheckAndFixLRU([L EXCEPT ![i].valid = FALSE, ![i].mesi = "I"])

(* insertLine on an empty line, with the MESI bits its caller sets next    *)
(* and the updateLRU its caller ends with.                                 *)
StreamIn(L, i, t, s) ==
  LET in == UpdateLRU([L EXCEPT ![i].valid = TRUE, ![i].tag = t], i)
  IN UpdateLRU([in EXCEPT ![i].mesi = s], i)

-----------------------------------------------------------------------------
Use(t) == [u \in Tags |-> IF u = t THEN {} ELSE usedAfter[u] \cup {t}]

(* A hit: setModified for a store, nothing for a load, then updateLRU.     *)
Hit(t, s) ==
  /\ Contains(lineArry, t)
  /\ s \in {lineArry[GetLine(lineArry, t)].mesi, "M"}
  /\ lineArry' = UpdateLRU([lineArry EXCEPT ![GetLine(lineArry, t)].mesi = s],
                           GetLine(lineArry, t))
  /\ usedAfter' = Use(t)

(* A miss, in a set with room or after evicting a line.                    *)
Insert(t, s) ==
  /\ ~Contains(lineArry, t)
  /\ \E i \in Lines : IsEmptyLine(lineArry, i) /\ lineArry' = StreamIn(lineArry, i, t, s)
  /\ usedAfter' = Use(t)

EvictAndInsert(t, s) ==
  /\ ~Contains(lineArry, t) /\ IsFull(lineArry)
  /\ \E v \in Lines :
       /\ IsVictim(lineArry, v)
       /\ lineArry' = StreamIn(InvalidateLine(lineArry, v), v, t, s)
  /\ usedAfter' = Use(t)

(* A snooped request: setShared, or invalidate.                            *)
Share(t) ==
  /\ Contains(lineArry, t)
  /\ lineArry' = [lineArry EXCEPT ![GetLine(lineArry, t)].mesi = "S"]
  /\ UNCHANGED usedAfter

Invalidate(t) ==
  /\ Contains(lineArry, t)
  /\ lineArry' = InvalidateLine(lineArry, GetLine(lineArry, t))
  /\ UNCHANGED usedAfter

Next == \E t \in Tags :
  \/ \E s \in ValidMESI : Hit(t, s) \/ Insert(t, s) \/ EvictAndInsert(t, s)
  \/ Share(t)
  \/ Invalidate(t)

Spec == Init /\ [][Next]_vars

-----------------------------------------------------------------------------
(* Properties.                                                             *)

(* getLine ignores the valid bit (CacheSet.cpp:139-147), but the line it   *)
(* returns for a tag the set contains is the valid one: no stale line with *)
(* the same tag is in front of it.                                         *)
GetLineIsValid == \A t \in Tags : Contains(lineArry, t) =>
  \E i \in Lines : IsGetLine(lineArry, t, i) /\ lineArry[i].valid

(* A full set has a line with an LRU value above 0, so findLRU             *)
(* (CacheSet.cpp:149-161) returns a line and not an uninitialised pointer, *)
(* although updateLRU and checkAndFixLRU let lines share LRU values.       *)
VictimDefined == IsFull(lineArry) => \E i \in Lines : lineArry[i].lru > 0

(* The line used last is not the one evicted.                              *)
MostRecentSurvives == \A i \in Lines :
  IsFull(lineArry) /\ IsVictim(lineArry, i) => usedAfter[lineArry[i].tag] # {}

(* CacheSet.h:74, `Line will be selected using LRU policy': every line of  *)
(* a full set other than the victim was used after it.                     *)
EvictsLeastRecentlyUsed == \A i \in Lines :
  IsFull(lineArry) /\ IsVictim(lineArry, i) =>
    \A j \in Lines \ {i} : lineArry[j].tag \in usedAfter[lineArry[i].tag]

(* The set implements the map its controller relies on                     *)
(* (CacheSet.cpp:31-57, 74-137): a line is found under its tag with the    *)
(* state it was given, until it is invalidated or evicted.                 *)
StatesOf(L) == [t \in Tags |-> IF Contains(L, t) THEN L[GetLine(L, t)].mesi ELSE "I"]

Contents == INSTANCE CacheContents WITH
  Names <- Tags, SetOf <- [t \in Tags |-> 0], Capacity <- LinesPerSet,
  contents <- StatesOf(lineArry)

ImplementsContents == Contents!Spec

=============================================================================
