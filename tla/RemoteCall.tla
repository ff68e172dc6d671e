----------------------------- MODULE RemoteCall ------------------------------
(***************************************************************************)
(* What BaseHandler.executeNormal and executeSync promise the Dart caller  *)
(* (frb_dart/lib/src/main_components/handler.dart): the Rust function runs *)
(* at most once, its future is settled at most once, and with what the     *)
(* function really did.  Executors, ports and messages are left to the     *)
(* implementation.                                                         *)
(***************************************************************************)
CONSTANTS
  Calls,
  Isolates,
  IsolateOf,   \* the isolate that makes the call
  Sync,        \* the calls that block their caller
  Timed,       \* the calls whose caller gives up in the end
  Noisy        \* the calls in which the ErrorListener may panic

VARIABLES
  result,   \* result[c]: how the Rust function ended
  future    \* future[c]: what the caller sees

callVars == <<result, future>>

Init ==
  /\ result = [c \in Calls |-> "none"]
  /\ future = [c \in Calls |-> "none"]

\* What a caller may be told of a function that ended so.
Tells(c, r) ==
  CASE r = "ok" -> {"value"}
    [] r = "err" -> {"error"} \cup (IF c \in Noisy THEN {"panic"} ELSE {})
    [] OTHER -> {"panic"}

\* The arguments cannot be sent: the caller gets an exception and the function
\* never runs.
Throw(c) ==
  /\ future[c] = "none"
  /\ future' = [future EXCEPT ![c] = "threw"]
  /\ UNCHANGED result

\* The arguments may be such that the function panics before it runs.
Make(c) ==
  /\ c \notin Sync /\ future[c] = "none"
  /\ future' = [future EXCEPT ![c] = "pending"]
  /\ result' \in {result, [result EXCEPT ![c] = "panic"]}

\* The function does not wait for a caller that has given up.
Run(c) ==
  /\ future[c] \notin {"none", "threw"} /\ result[c] = "none"
  /\ \E r \in {"ok", "err", "panic"} : result' = [result EXCEPT ![c] = r]
  /\ UNCHANGED future

Answer(c) ==
  /\ future[c] = "pending" /\ result[c] # "none"
  /\ \E f \in Tells(c, result[c]) : future' = [future EXCEPT ![c] = f]
  /\ UNCHANGED result

\* A blocking call runs and answers at once; the message of a panicking
\* listener cannot be decoded.
MakeSync(c) ==
  /\ c \in Sync /\ future[c] = "none"
  /\ \E r \in {"ok", "err", "panic"} :
       /\ result' = [result EXCEPT ![c] = r]
       /\ \E f \in Tells(c, r) \cup (IF r # "ok" /\ c \in Noisy THEN {"garbled"} ELSE {}) :
            future' = [future EXCEPT ![c] = f]

GiveUp(c) ==
  /\ c \in Timed /\ future[c] = "pending"
  /\ future' = [future EXCEPT ![c] = "timeout"]
  /\ UNCHANGED result

\* An isolate takes its callers with it.
Leave(i) ==
  /\ future' = [c \in Calls |->
       IF IsolateOf[c] = i /\ future[c] = "pending" THEN "gone" ELSE future[c]]
  /\ UNCHANGED result

Next ==
  \/ \E c \in Calls : Throw(c) \/ Make(c) \/ MakeSync(c) \/ Run(c) \/ Answer(c) \/ GiveUp(c)
  \/ \E i \in Isolates : Leave(i)

Spec == Init /\ [][Next]_callVars
=============================================================================
