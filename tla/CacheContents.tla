---------------------------- MODULE CacheContents ----------------------------
(***************************************************************************)
(* What a cache promises its controller: a partial map of lines to MESI    *)
(* states with room for Capacity lines in each set, where a full set gives *)
(* up one of its lines for a new one. CacheSet (a single set, its lines    *)
(* named by their tags) and Cache implement it, and the controllers are    *)
(* modelled over it.                                                       *)
(***************************************************************************)
EXTENDS Integers, FiniteSets

CONSTANTS Names, SetOf, Capacity   \* SetOf[t]: the set of the line named t

VARIABLE contents

Beside(t) == {u \in Names : contents[u] # "I" /\ SetOf[u] = SetOf[t]}

Init == contents = [t \in Names |-> "I"]

Fill(t, s) ==
  /\ contents[t] = "I" /\ s # "I"
  /\ Cardinality(Beside(t)) < Capacity
  /\ contents' = [contents EXCEPT ![t] = s]

Replace(v, t, s) ==
  /\ contents[t] = "I" /\ s # "I"
  /\ Cardinality(Beside(t)) = Capacity /\ v \in Beside(t)
  /\ contents' = [contents EXCEPT ![v] = "I", ![t] = s]

SetState(t, s) ==
  /\ contents[t] # "I"
  /\ contents' = [contents EXCEPT ![t] = s]

Next == \E t \in Names, s \in {"M", "E", "S", "I"} :
  \/ Fill(t, s)
  \/ \E v \in Names : Replace(v, t, s)
  \/ SetState(t, s)

Spec == Init /\ [][Next]_contents

=============================================================================
