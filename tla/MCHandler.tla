----------------------------- MODULE MCHandler -------------------------------
(* An instance of Handler for TLC: the calls, where they go, what they await. *)
EXTENDS Handler

CONSTANTS c1, c2, c3, c4, c5, i1, i2, l1, l2

MCIsolateOf == [c \in Calls |-> IF c \in {c2, c4} THEN i1 ELSE i2]
MCMode == [c \in Calls |->
  CASE c \in {c1, c5} -> "async" [] c \in {c2, c3} -> "normal" [] OTHER -> "sync"]

\* An async and a normal call share a lane; the others are SimpleExecutor's, and
\* the second lane only has to stay up.
MCRoutedTo == [c \in Calls |-> IF c \in {c1, c2} THEN l1 ELSE Pool]

\* The first call awaits the second, as in single_worker_lane_pinning_tests.
MCAwaits == [c \in Calls |-> IF c = c1 THEN {c2} ELSE {}]
=============================================================================
