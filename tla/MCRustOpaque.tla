---------------------------- MODULE MCRustOpaque -----------------------------
(* An instance of RustOpaque for TLC. *)
EXTENDS RustOpaque

CONSTANTS o1, o2, h1, h2, a1, a2, c1, p1

=============================================================================
