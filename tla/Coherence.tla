------------------------------ MODULE Coherence ------------------------------
(***************************************************************************)
(* What a coherence protocol promises, whatever its messages: the caches   *)
(* of the machine as one map, changed by steps that each leave a line      *)
(* either with one owner (M or E) or with readers only.                    *)
(***************************************************************************)
CONSTANTS Procs, Addrs

VARIABLE caches     \* caches[p][x]: the state of line x at processor p

States == {"M", "E", "S", "I"}
Owns(s) == s \in {"M", "E"}

TypeOK == caches \in [Procs -> [Addrs -> States]]

Init == caches = [p \in Procs |-> [x \in Addrs |-> "I"]]

(* Cache p gets line x in state s, and may drop a line v to make room.     *)
Acquire(p, x, s, v) ==
  /\ caches[p][x] = "I" /\ s # "I"
  /\ \A q \in Procs \ {p} : ~Owns(caches[q][x]) /\ (Owns(s) => caches[q][x] = "I")
  /\ caches' = [caches EXCEPT ![p] = [@ EXCEPT ![v] = "I", ![x] = s]]

(* An owner stores to its line.                                            *)
Modify(p, x) ==
  /\ Owns(caches[p][x])
  /\ caches' = [caches EXCEPT ![p][x] = "M"]

(* A transaction on the bus lowers the copies of a line in some caches.    *)
Lower(Q, x, s) ==
  /\ s \in {"S", "I"}
  /\ \A q \in Q : caches[q][x] # "I"
  /\ caches' = [q \in Procs |-> IF q \in Q THEN [caches[q] EXCEPT ![x] = s] ELSE caches[q]]

Next == \E x \in Addrs, s \in States :
  \/ \E p \in Procs, v \in Addrs : Acquire(p, x, s, v)
  \/ \E p \in Procs : Modify(p, x)
  \/ \E Q \in SUBSET Procs : Lower(Q, x, s)

Spec == Init /\ [][Next]_caches

(* A line owned by one cache is in no other (MESI_Controller.cpp:155, `We  *)
(* have the only copy, so we can freely update the cache').                *)
SingleWriter == \A p, q \in Procs, x \in Addrs :
  p # q /\ Owns(caches[p][x]) => caches[q][x] = "I"

=============================================================================
