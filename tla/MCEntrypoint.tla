---------------------------- MODULE MCEntrypoint -----------------------------
(* An instance of Entrypoint for TLC: an isolate with two inits, and another. *)
EXTENDS Entrypoint

CONSTANTS i1, i2, n1, n2, n3

MCIsolateOf == [n \in Inits |-> IF n = n3 THEN i2 ELSE i1]
=============================================================================
