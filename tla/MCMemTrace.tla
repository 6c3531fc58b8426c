----------------------------- MODULE MCMemTrace -----------------------------
(* Three traces at places 1 to 3, and a log that has room for two of them. *)
EXTENDS MemTrace
Load(ip) == [ip |-> ip, read |-> TRUE]
Store(ip) == [ip |-> ip, read |-> FALSE]
SomeTraces == {<<Load(1)>>, <<Load(2), Store(3)>>, <<Store(3), Load(1), Load(2)>>}
=============================================================================
