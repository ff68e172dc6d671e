------------------------------ MODULE MCDartFn -------------------------------
(* An instance of DartFn for TLC: closures of one or two isolates. *)
EXTENDS DartFn

CONSTANTS o1, o2, i1, i2, h1, h2, k1, k2, k3

MCHome == [o \in Objects |-> IF o = o1 THEN i1 ELSE i2]
MCFallible == {o1}
MCFaults == {"decode", "encode"}
=============================================================================
