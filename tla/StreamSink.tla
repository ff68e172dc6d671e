----------------------------- MODULE StreamSink ------------------------------
(***************************************************************************)
(* One Dart RustStreamSink and its Rust ends (frb_rust/src/stream,         *)
(* frb_dart/lib/src/stream/stream_sink.dart).  Every call that takes the   *)
(* RustStreamSink as an argument makes a new StreamSink with a closer of   *)
(* its own, on the same port; the clones of a StreamSink share its closer, *)
(* and whichever thread drops the last clone posts CloseStream.  The Dart  *)
(* side is an `async*` loop over the port that ends at a CloseStream, at   *)
(* an error message or when its listener has cancelled.                    *)
(***************************************************************************)
EXTENDS Naturals, Sequences

CONSTANTS Closers,      \* one for each call that takes the sink
          Sinks,        \* the StreamSink values of Rust code
          CloserOf,     \* CloserOf[s]: the closer that s and its clones share
          MaxMessages   \* bound: messages that the port accepts

ASSUME StreamAssumption ==
  /\ CloserOf \in [Sinks -> Closers]
  /\ MaxMessages \in Nat
  /\ Closers \cap Sinks = {}

VARIABLES
  sinks,      \* the StreamSink values that exist
  adding,     \* the sinks with an `add` in progress
  closer,     \* closer[c]: the StreamSinkCloser
  port,       \* the receive port
  mail,       \* messages in the port
  accepted,   \* all messages that the port has accepted, in order
  stream,     \* the Dart stream
  delivered   \* what the stream has yielded

vars == <<sinks, adding, closer, port, mail, accepted, stream, delivered>>

\* Rust2DartAction, with its sender.
Messages == ({"Success", "Error"} \X Sinks) \cup ({"CloseStream"} \X Closers)
Sender(m) == IF m[1] = "CloseStream" THEN m[2] ELSE CloserOf[m[2]]

TypeOK ==
  /\ sinks \subseteq Sinks
  /\ adding \subseteq sinks
  /\ closer \in [Closers -> {"none", "live", "dropping", "dropped"}]
  /\ port \in {"none", "open", "closed"}
  /\ mail \in Seq(Messages)
  /\ accepted \in Seq(Messages)
  /\ stream \in {"none", "active", "done", "error", "cancelled", "gone"}
  /\ delivered \in Seq(Messages)

Init ==
  /\ sinks = {}
  /\ adding = {}
  /\ closer = [c \in Closers |-> "none"]
  /\ port = "none"
  /\ mail = <<>>
  /\ accepted = <<>>
  /\ stream = "none"
  /\ delivered = <<>>

-----------------------------------------------------------------------------
(* Rust                                                                    *)

\* Rust2DartSender: the port accepts the message, or the sender is told so.
Post(m) ==
  IF port = "open"
    THEN /\ mail' = Append(mail, m)
         /\ accepted' = Append(accepted, m)
    ELSE UNCHANGED <<mail, accepted>>

Room == Len(accepted) < MaxMessages

\* setupAndSerialize makes the port and starts the loop, unless there is one;
\* StreamSinkBase::deserialize makes a sink and its closer.
Deserialize(s) ==
  LET c == CloserOf[s] IN
  /\ closer[c] = "none" /\ s \notin sinks /\ stream # "gone"
  /\ closer' = [closer EXCEPT ![c] = "live"]
  /\ sinks' = sinks \cup {s}
  /\ port' = IF port = "none" THEN "open" ELSE port
  /\ stream' = IF stream = "none" THEN "active" ELSE stream
  /\ UNCHANGED <<adding, mail, accepted, delivered>>

\* Clone::clone
CloneSink(s, t) ==
  /\ s \in sinks /\ t \notin sinks /\ CloserOf[t] = CloserOf[s]
  /\ sinks' = sinks \cup {t}
  /\ UNCHANGED <<adding, closer, port, mail, accepted, stream, delivered>>

\* add and add_error borrow the sink, encode, and post.
BeginAdd(s) ==
  /\ s \in sinks \ adding /\ Room
  /\ adding' = adding \cup {s}
  /\ UNCHANGED <<sinks, closer, port, mail, accepted, stream, delivered>>

AddRaw(s) ==
  /\ s \in adding /\ Room
  /\ adding' = adding \ {s}
  /\ \E action \in {"Success", "Error"} : Post(<<action, s>>)
  /\ UNCHANGED <<sinks, closer, port, stream, delivered>>

Shared(s) == \E t \in sinks \ {s} : CloserOf[t] = CloserOf[s]

\* Faulty variant: every clone has a closer of its own.
DropSinkCloses(s) ==
  /\ s \in sinks \ adding
  /\ sinks' = sinks \ {s}
  /\ closer' = [closer EXCEPT ![CloserOf[s]] = "dropping"]
  /\ UNCHANGED <<adding, port, mail, accepted, stream, delivered>>

\* A sink is dropped; with the last clone the Arc of the closer reaches zero ...
DropSink(s) ==
  /\ s \in sinks \ adding
  /\ sinks' = sinks \ {s}
  /\ closer' = [closer EXCEPT ![CloserOf[s]] = IF Shared(s) THEN @ ELSE "dropping"]
  /\ UNCHANGED <<adding, port, mail, accepted, stream, delivered>>

\* ... and StreamSinkCloser::drop sends the close, or warns.
Close(c) ==
  /\ closer[c] = "dropping"
  /\ closer' = [closer EXCEPT ![c] = "dropped"]
  /\ Post(<<"CloseStream", c>>)
  /\ UNCHANGED <<sinks, adding, port, stream, delivered>>

-----------------------------------------------------------------------------
(* Dart                                                                    *)

\* Faulty variants: the loop ends without its `finally`; the messages in the
\* port are discarded and the port stays open.
EndLoopWithoutFinally(how) == stream' = how /\ UNCHANGED <<port, mail, delivered>>
EndLoopLeavesPort(how) ==
  /\ mail' = <<>>
  /\ stream' = how
  /\ UNCHANGED <<port, delivered>>

\* The `finally` of the loop: receivePort.close() discards what is in the port.
EndLoop(how) ==
  /\ port' = "closed"
  /\ mail' = <<>>
  /\ stream' = how
  /\ UNCHANGED delivered

\* What ends the loop: decodeObject throws.
Throws(m) == m[1] # "Success"
HowItEnds(m) == IF m[1] = "CloseStream" THEN "done" ELSE "error"

\* Faulty variant: the newest message is taken.
ReceiveNewest ==
  LET m == mail[Len(mail)] IN
  /\ port = "open" /\ mail # <<>>
  /\ \/ stream = "active" /\ Throws(m) /\ EndLoop(HowItEnds(m))
     \/ /\ stream = "active" /\ ~Throws(m)
        /\ delivered' = Append(delivered, m)
        /\ mail' = SubSeq(mail, 1, Len(mail) - 1)
        /\ UNCHANGED <<port, stream>>
     \/ stream = "cancelled" /\ EndLoop("cancelled")
  /\ UNCHANGED <<sinks, adding, closer, accepted>>

\* The loop takes the next message.  A cancelled generator stops at its next
\* yield, and a message that throws ends it before.
Receive ==
  LET m == Head(mail) IN
  /\ port = "open" /\ mail # <<>>
  /\ \/ stream = "active" /\ Throws(m) /\ EndLoop(HowItEnds(m))
     \/ /\ stream = "active" /\ ~Throws(m)
        /\ delivered' = Append(delivered, m)
        /\ mail' = Tail(mail)
        /\ UNCHANGED <<port, stream>>
     \/ stream = "cancelled" /\ EndLoop("cancelled")
  /\ UNCHANGED <<sinks, adding, closer, accepted>>

\* The listener cancels: a loop that is suspended at a yield ends at once, one
\* that waits for a message goes on waiting.
Cancel ==
  /\ stream = "active"
  /\ \/ EndLoop("cancelled")
     \/ stream' = "cancelled" /\ UNCHANGED <<port, mail, delivered>>
  /\ UNCHANGED <<sinks, adding, closer, accepted>>

\* The isolate exits.
Exit ==
  /\ stream # "gone" /\ port # "none"
  /\ EndLoop("gone")
  /\ UNCHANGED <<sinks, adding, closer, accepted>>

Next ==
  \/ \E s \in Sinks :
       \/ Deserialize(s) \/ BeginAdd(s) \/ AddRaw(s) \/ DropSink(s)
       \/ \E t \in Sinks : CloneSink(s, t)
  \/ \E c \in Closers : Close(c)
  \/ Receive \/ Cancel \/ Exit

\* A destructor that has started runs to its end, and the event loop turns.
Fairness == WF_vars(Receive) /\ \A c \in Closers : WF_vars(Close(c))

Spec == Init /\ [][Next]_vars
FairSpec == Spec /\ Fairness

-----------------------------------------------------------------------------
(* Properties                                                              *)

\* The listener sees values in the order in which the port accepted them,
\* without a gap, whatever clone on whatever thread sent them.
DeliveredInOrder ==
  /\ Len(delivered) <= Len(accepted)
  /\ \A n \in 1 .. Len(delivered) : delivered[n] = accepted[n] /\ delivered[n][1] = "Success"

\* The close of a StreamSink comes after all that any of its clones has sent: a
\* stream that is done has yielded every value of the StreamSink that ended it.
DoneAfterAllValues ==
  stream = "done" =>
    LET last == Len(delivered) + 1
    IN /\ last <= Len(accepted) /\ accepted[last][1] = "CloseStream"
       /\ \A n \in last + 1 .. Len(accepted) : Sender(accepted[n]) # Sender(accepted[last])

\* While the loop runs nothing that was accepted is lost: it has been yielded or
\* is in the port.
NothingLostWhileOpen ==
  port = "open" =>
    /\ Len(accepted) = Len(delivered) + Len(mail)
    /\ \A n \in DOMAIN mail : accepted[Len(delivered) + n] = mail[n]

\* When a closer has run and the port is still open, its close is in the port: no
\* thread's drop of the last clone goes unnoticed by a loop that can still read.
CloseIsComing ==
  \A c \in Closers : closer[c] = "dropped" /\ port = "open" =>
    \E n \in DOMAIN mail : mail[n] = <<"CloseStream", c>>

\* After the last clone of some StreamSink is dropped the stream ends and its
\* port is closed, also when the listener had cancelled before.
DroppedSinkEndsStream ==
  \A c \in Closers : closer[c] \in {"dropping", "dropped"} ~> port = "closed"

-----------------------------------------------------------------------------
(* The inductive invariant                                                 *)

\* A closer lives as long as a sink that shares it, and sends one message, after
\* which nothing comes from its sinks.
CloserInv ==
  \A c \in Closers :
    /\ closer[c] = "live" <=> \E s \in sinks : CloserOf[s] = c
    /\ \A n \in DOMAIN accepted : accepted[n] = <<"CloseStream", c>> =>
         /\ closer[c] = "dropped"
         /\ \A k \in n + 1 .. Len(accepted) : Sender(accepted[k]) # c

PortInv ==
  /\ port = "none" <=> stream = "none"
  /\ port = "none" => accepted = <<>> /\ delivered = <<>> /\ mail = <<>>
  /\ port = "open" => stream \in {"active", "cancelled"}
  /\ stream = "active" => port = "open"

\* There are closers only once there is a port, and a close waits for the loop.
NoticeInv == CloseIsComing /\ \A c \in Closers : closer[c] # "none" => port # "none"

Inv ==
  /\ TypeOK /\ CloserInv /\ PortInv
  /\ DeliveredInOrder /\ NothingLostWhileOpen /\ DoneAfterAllValues

-----------------------------------------------------------------------------
(* The abstract specification                                              *)

\* The messages with the StreamSink that they come from, whichever clone it was.
Events(s) == [n \in DOMAIN s |-> [kind |-> s[n][1], source |-> Sender(s[n])]]
Abs == INSTANCE EventStream
         WITH Sources <- Closers, log <- Events(accepted), yielded <- Events(delivered)

\* Clones on many threads, closers, the port and the `async*` loop together are
\* one ordered log of events that the listener gets up to the first end.
ImplementsEventStream == Abs!Spec
=============================================================================
