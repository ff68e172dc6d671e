----------------------------- MODULE EventStream ------------------------------
(***************************************************************************)
(* What a Dart stream that is fed from Rust promises its listener          *)
(* (frb_rust/src/stream, frb_dart/lib/src/stream/stream_sink.dart): there  *)
(* is one order of all events of all sources, a source says nothing after  *)
(* its close, and the listener gets the values in that order, without a    *)
(* gap, up to the first event that ends the stream.  Ports, clones and     *)
(* threads are left to the implementation.                                 *)
(***************************************************************************)
EXTENDS Naturals, Sequences

CONSTANT Sources    \* the calls that have got the stream's sink

VARIABLES log,      \* all events in their order, each with its source
          yielded,  \* what the listener has got
          stream    \* the stream as its listener knows it

streamVars == <<log, yielded, stream>>

Event(kind, source) == [kind |-> kind, source |-> source]
IsClose(e) == e.kind = "CloseStream"
IsValue(e) == e.kind = "Success"

Init == log = <<>> /\ yielded = <<>> /\ stream = "none"

Open ==
  /\ stream = "none"
  /\ stream' = "active"
  /\ UNCHANGED <<log, yielded>>

\* A source sends as long as the stream takes events and it has not closed.
Send(source, kind) ==
  /\ stream \in {"active", "cancelled"}
  /\ \A n \in DOMAIN log : ~(IsClose(log[n]) /\ log[n].source = source)
  /\ log' = Append(log, Event(kind, source))
  /\ UNCHANGED <<yielded, stream>>

Position == Len(yielded) + 1

Yield ==
  /\ stream = "active" /\ Position <= Len(log) /\ IsValue(log[Position])
  /\ yielded' = Append(yielded, log[Position])
  /\ UNCHANGED <<log, stream>>

\* The next event is an error or the close of some source.
End ==
  /\ stream = "active" /\ Position <= Len(log) /\ ~IsValue(log[Position])
  /\ stream' = IF IsClose(log[Position]) THEN "done" ELSE "error"
  /\ UNCHANGED <<log, yielded>>

Cancel ==
  /\ stream = "active"
  /\ stream' = "cancelled"
  /\ UNCHANGED <<log, yielded>>

\* The isolate of the listener exits, before or after the end.
Gone ==
  /\ stream \notin {"none", "gone"}
  /\ stream' = "gone"
  /\ UNCHANGED <<log, yielded>>

Next ==
  \/ Open \/ Yield \/ End \/ Cancel \/ Gone
  \/ \E source \in Sources, kind \in {"Success", "Error", "CloseStream"} : Send(source, kind)

Spec == Init /\ [][Next]_streamVars
===============================================================================
