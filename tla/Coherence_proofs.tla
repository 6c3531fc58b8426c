-------------------------- MODULE Coherence_proofs --------------------------
(***************************************************************************)
(* A protocol that only takes the steps of Coherence never has two owners  *)
(* of a line, nor a reader beside an owner, for any number of processors.  *)
(***************************************************************************)
EXTENDS Coherence, TLAPS

LEMMA NextKeepsTypeOK == TypeOK /\ [Next]_caches => TypeOK'
<1> SUFFICES ASSUME TypeOK, [Next]_caches PROVE TypeOK'
  OBVIOUS
<1>1. ASSUME NEW x \in Addrs, NEW s \in States, NEW p \in Procs, NEW v \in Addrs,
             Acquire(p, x, s, v)
      PROVE  TypeOK'
  BY <1>1 DEF TypeOK, Acquire, States
<1>2. ASSUME NEW x \in Addrs, NEW p \in Procs, Modify(p, x)
      PROVE  TypeOK'
  BY <1>2 DEF TypeOK, Modify, States
<1>3. ASSUME NEW x \in Addrs, NEW s \in States, NEW Q \in SUBSET Procs, Lower(Q, x, s)
      PROVE  TypeOK'
  BY <1>3 DEF TypeOK, Lower, States
<1> QED BY <1>1, <1>2, <1>3 DEF Next, TypeOK

LEMMA NextKeepsSingleWriter == TypeOK /\ SingleWriter /\ [Next]_caches => SingleWriter'
<1> SUFFICES ASSUME TypeOK, SingleWriter, [Next]_caches,
                    NEW p \in Procs, NEW q \in Procs, NEW x \in Addrs,
                    p # q, Owns(caches'[p][x])
             PROVE  caches'[q][x] = "I"
  BY DEF SingleWriter
<1>1. ASSUME NEW y \in Addrs, NEW s \in States, NEW r \in Procs, NEW v \in Addrs,
             Acquire(r, y, s, v)
      PROVE  caches'[q][x] = "I"
  <2>1. caches' = [caches EXCEPT ![r] = [caches[r] EXCEPT ![v] = "I", ![y] = s]]
    BY <1>1 DEF Acquire, TypeOK
  <2>2. CASE x = y /\ r = p
    <3>1. Owns(s)
      BY <2>1, <2>2 DEF TypeOK
    <3> QED BY <1>1, <2>1, <2>2, <3>1 DEF Acquire, TypeOK
  <2>3. CASE x = y /\ r = q
    <3>1. caches'[p][x] = caches[p][x]
      BY <2>1, <2>3 DEF TypeOK
    <3> QED BY <1>1, <2>3, <3>1 DEF Acquire
  <2>4. CASE x = y /\ r \notin {p, q}
    BY <1>1, <2>1, <2>4 DEF Acquire, TypeOK
  <2>5. CASE x # y
    <3>1. caches'[p][x] \in {caches[p][x], "I"} /\ caches'[q][x] \in {caches[q][x], "I"}
      BY <2>1, <2>5 DEF TypeOK
    <3>2. Owns(caches[p][x])
      BY <3>1 DEF Owns
    <3> QED BY <3>1, <3>2 DEF SingleWriter
  <2> QED BY <2>2, <2>3, <2>4, <2>5
<1>2. ASSUME NEW y \in Addrs, NEW r \in Procs, Modify(r, y)
      PROVE  caches'[q][x] = "I"
  <2>1. Owns(caches[p][x]) /\ caches[q][x] = "I"
    BY <1>2 DEF Modify, TypeOK, SingleWriter
  <2>2. ~(r = q /\ y = x)
    BY <1>2, <2>1 DEF Modify, Owns
  <2> QED BY <1>2, <2>1, <2>2 DEF Modify, TypeOK
<1>3. ASSUME NEW y \in Addrs, NEW s \in States, NEW Q \in SUBSET Procs, Lower(Q, y, s)
      PROVE  caches'[q][x] = "I"
  <2>1. \A r \in Procs : caches'[r][x] = IF r \in Q /\ x = y THEN s ELSE caches[r][x]
    BY <1>3 DEF Lower, TypeOK
  <2>2. Owns(caches[p][x])
    BY <1>3, <2>1 DEF Lower, Owns
  <2>3. caches[q][x] = "I"
    BY <2>2 DEF SingleWriter
  <2> QED BY <1>3, <2>1, <2>3 DEF Lower
<1>4. CASE UNCHANGED caches
  BY <1>4 DEF SingleWriter
<1> QED BY <1>1, <1>2, <1>3, <1>4 DEF Next

(* A line owned by one cache is in no other (MESI_Controller.cpp:155, `We  *)
(* have the only copy, so we can freely update the cache'): what a system  *)
(* that implements Coherence may rely on.                                  *)
THEOREM CoherentSingleWriter == Spec => [](TypeOK /\ SingleWriter)
<1>1. Init => TypeOK /\ SingleWriter
  BY DEF Init, TypeOK, States, SingleWriter, Owns
<1>2. (TypeOK /\ SingleWriter) /\ [Next]_caches => (TypeOK /\ SingleWriter)'
  BY NextKeepsTypeOK, NextKeepsSingleWriter
<1> QED BY <1>1, <1>2, PTL DEF Spec

=============================================================================
