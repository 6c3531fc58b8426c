------------------------------ MODULE MCSystem ------------------------------
(* Instances of System small enough for TLC. *)
EXTENDS CoherenceInvariant
CONSTANTS a, b, c
OneAddr == {a}
ThreeAddrs == {a, b, c}
OneSet == [x \in Addrs |-> 0]
LD(x) == [op |-> "LOAD", line |-> x]
ST(x) == [op |-> "STORE", line |-> x]

(* Every trace over the addresses of the instance.                         *)
AnyTrace == [p \in Procs |-> Instructions \cup {NOP}]

(* Three processors and one line, each with gaps in its trace: two readers *)
(* and a writer, a reader and two writers.                                 *)
ReadersAndWriter == <<{LD(a), NOP}, {LD(a), NOP}, {ST(a), NOP}>>
ReaderAndWriters == <<{LD(a), NOP}, {ST(a), NOP}, {ST(a), NOP}>>

(* Three processors that store to one line without a pause.                *)
AllWriters == [p \in Procs |-> {ST(a)}]
=============================================================================
