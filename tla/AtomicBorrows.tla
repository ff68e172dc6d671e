---------------------------- MODULE AtomicBorrows ----------------------------
(***************************************************************************)
(* What the locking of RustAutoOpaque arguments promises to the functions  *)
(* that borrow them (frb_rust/src/lockable): a function runs as if it had  *)
(* got all its borrows in one step and gave them back in one step, and no  *)
(* two borrows that are held at a time are in conflict.  Locks, queues and *)
(* the order of the arguments are left to the implementation.              *)
(***************************************************************************)
CONSTANTS Calls,    \* wrapped functions that run at the same time
          Inputs    \* the lists of borrows that functions are called with

VARIABLE inside     \* inside[c]: what call c borrows while its function runs

Nothing == <<>>

Init == inside = [c \in Calls |-> Nothing]

Conflict(x, y) == x.object_order = y.object_order /\ (x.mutable \/ y.mutable)

\* The borrows of one call do not conflict with each other ...
Coherent(a) == \A i, j \in DOMAIN a : i # j => ~Conflict(a[i], a[j])

\* ... and those of different calls do not either.
Apart(a, b) == \A i \in DOMAIN a, j \in DOMAIN b : ~Conflict(a[i], b[j])

Enter(c, a) ==
  /\ inside[c] = Nothing
  /\ Coherent(a) /\ \A d \in Calls : Apart(a, inside[d])
  /\ inside' = [inside EXCEPT ![c] = a]

Leave(c) ==
  /\ inside[c] # Nothing
  /\ inside' = [inside EXCEPT ![c] = Nothing]

Next == \E c \in Calls : Leave(c) \/ \E a \in Inputs : Enter(c, a)

Spec == Init /\ [][Next]_inside
==============================================================================
