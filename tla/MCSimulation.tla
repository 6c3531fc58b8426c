---------------------------- MODULE MCSimulation ----------------------------
(* Runs over short traces: P1 has any file of up to three entries over three*)
(* operations, P2 any of up to two over two, or a load that comes when P1  *)
(* is idle.                                                                *)
EXTENDS MCSystem, Simulation

UpTo(n, S) == UNION {[1 .. k -> S] : k \in 0 .. n}
LateLoad == [i \in 1 .. 24 |-> IF i = 24 THEN LD(a) ELSE NOP]
ShortTraces == <<UpTo(3, {ST(a), LD(b), LD(c)}),
                 UpTo(2, {ST(a), LD(a), NOP}) \cup {LateLoad}>>
=============================================================================
