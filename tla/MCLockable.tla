----------------------------- MODULE MCLockable ------------------------------
(* Instances of Lockable for TLC. *)
EXTENDS Lockable

Read(o) == [object_order |-> o, mutable |-> FALSE]
Write(o) == [object_order |-> o, mutable |-> TRUE]

\* Both orders of two objects, aliased arguments, valid and not.
MCInputs ==
  {<<Read(0)>>, <<Write(0)>>, <<Write(1)>>,
   <<Read(0), Write(1)>>, <<Write(1), Write(0)>>, <<Read(1), Read(0)>>,
   <<Read(0), Read(0)>>, <<Write(0), Read(0)>>}
=============================================================================
