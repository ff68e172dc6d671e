---------------------------- MODULE MCStreamSink -----------------------------
(* An instance of StreamSink for TLC: two calls with the same RustStreamSink. *)
EXTENDS StreamSink

CONSTANTS c1, c2, s1, s2, s3

MCCloserOf == [s \in Sinks |-> IF s = s3 THEN c2 ELSE c1]
=============================================================================
