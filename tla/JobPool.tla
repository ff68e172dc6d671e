------------------------------- MODULE JobPool --------------------------------
(***************************************************************************)
(* What the doc comments of frb_rust/src/third_party/wasm_bindgen/         *)
(* worker_pool.rs promise to a caller of `run`: a job is refused, started  *)
(* at once or queued; a hard cap bounds the jobs that run at a time; every *)
(* job is started at most once, the queued ones in their order, and        *)
(* nothing overtakes them.  Only a queued job whose start fails is lost,   *)
(* which leaves a place free beside the queue.  Workers are left to the    *)
(* implementation.                                                         *)
(***************************************************************************)
EXTENDS Naturals, Sequences

CONSTANTS Jobs,     \* the jobs that are ever submitted
          Places    \* as many as jobs may run at a time
NoJob == 0

VARIABLES waiting,  \* the queue
          running,  \* running[p]: the job that has place p, or NoJob
          state,    \* state[j]: what has become of job j
          loss      \* a queued job could not be started

poolVars == <<waiting, running, state, loss>>

Init ==
  /\ waiting = <<>>
  /\ running = [p \in Places |-> NoJob]
  /\ state = [j \in Jobs |-> "new"]
  /\ loss = FALSE

Become(j, s) == state' = [state EXCEPT ![j] = s]
Occupy(p, j) == running' = [running EXCEPT ![p] = j]

\* A new job starts at once only if nobody waits, until a loss ...
StartNew(j, p) ==
  /\ state[j] = "new" /\ running[p] = NoJob
  /\ waiting = <<>> \/ loss
  /\ Occupy(p, j) /\ Become(j, "posted")
  /\ UNCHANGED <<waiting, loss>>

\* ... and waits only if every place is taken.
Queue(j) ==
  /\ state[j] = "new" /\ \A p \in Places : running[p] # NoJob
  /\ waiting' = Append(waiting, j)
  /\ Become(j, "pending")
  /\ UNCHANGED <<running, loss>>

Refuse(j) ==
  /\ state[j] = "new"
  /\ Become(j, "refused")
  /\ UNCHANGED <<waiting, running, loss>>

\* The job in place p returns or throws ...
End(p) ==
  /\ running[p] # NoJob /\ state[running[p]] = "posted"
  /\ \E s \in {"done", "thrown"} : Become(running[p], s)
  /\ UNCHANGED <<waiting, running, loss>>

Over(p) == running[p] # NoJob /\ state[running[p]] \in {"done", "thrown"}

\* ... and its place goes to the first that waits, is free when nobody does, ...
StartNext(p) ==
  /\ Over(p) /\ waiting # <<>>
  /\ waiting' = Tail(waiting)
  /\ Occupy(p, Head(waiting)) /\ Become(Head(waiting), "posted")
  /\ UNCHANGED loss

Free(p) ==
  /\ Over(p) /\ waiting = <<>>
  /\ Occupy(p, NoJob)
  /\ UNCHANGED <<waiting, state, loss>>

\* ... or when the start of the first that waits fails.
Lose(p) ==
  /\ Over(p) /\ waiting # <<>>
  /\ waiting' = Tail(waiting)
  /\ Occupy(p, NoJob) /\ Become(Head(waiting), "lost")
  /\ loss' = TRUE

Next ==
  \/ \E j \in Jobs : Queue(j) \/ Refuse(j) \/ \E p \in Places : StartNew(j, p)
  \/ \E p \in Places : End(p) \/ StartNext(p) \/ Free(p) \/ Lose(p)

Spec == Init /\ [][Next]_poolVars
===============================================================================
