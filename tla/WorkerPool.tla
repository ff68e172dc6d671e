----------------------------- MODULE WorkerPool ------------------------------
(***************************************************************************)
(* The web worker pool that stands for threads on the Web platform         *)
(* (frb_rust/src/third_party/wasm_bindgen/worker_pool.rs and web_transfer/ *)
(* transfer_closure.rs).  The host keeps a stack of idle workers, a FIFO   *)
(* queue of jobs and the number of workers it has spawned; a job is posted *)
(* to a worker, the worker posts a message back when the job has returned  *)
(* or thrown, and the host's onmessage callback reclaims the worker.       *)
(*                                                                         *)
(* The host is one event loop: `execute` and the callback are one step     *)
(* each.  Workers run concurrently.  Worker w is the w-th one spawned.     *)
(***************************************************************************)
EXTENDS Naturals, Sequences

CONSTANTS Initial,      \* workers to prewarm
          MaxWorkers,   \* requested hard cap
          NumJobs,      \* bound: how many jobs are submitted
          Faults        \* what may fail: subset of {"post", "spawn", "init"}

ASSUME PoolAssumption ==
  /\ Initial \in Nat /\ MaxWorkers \in Nat /\ NumJobs \in Nat
  /\ Faults \subseteq {"post", "spawn", "init"}

\* new_raw_with_max: `max_workers.max(1)` and `initial.min(max_workers)`.
Cap == IF MaxWorkers > 1 THEN MaxWorkers ELSE 1
Prewarmed == IF Initial < Cap THEN Initial ELSE Cap

Workers == 1 .. Cap
Jobs == 1 .. NumJobs
NoJob == 0

VARIABLES
  idle,      \* PoolState.workers: the idle workers, a stack
  pending,   \* PoolState.pending: the queue of jobs
  live,      \* PoolState.live_workers
  job,       \* job[w]: the job posted to w and not yet reclaimed, or NoJob
  reply,     \* reply[w]: w has posted its message to the host
  broken,    \* broken[w]: the wasm module fails to load in w
  status     \* status[j]: what has become of job j

vars == <<idle, pending, live, job, reply, broken, status>>

\* "refused": execute returned an error; "lost": the console error of
\* PoolState::complete, nobody is told; "thrown": the closure trapped.
Statuses == {"new", "pending", "posted", "done", "thrown", "refused", "lost"}

TypeOK ==
  /\ idle \in Seq(Workers)
  /\ pending \in Seq(Jobs)
  /\ live \in 0 .. Cap
  /\ job \in [Workers -> Jobs \cup {NoJob}]
  /\ reply \in [Workers -> BOOLEAN]
  /\ broken \in [Workers -> BOOLEAN]
  /\ status \in [Jobs -> Statuses]

\* `await init` in the worker's script may reject, now or at any later load.
Loads == IF "init" \in Faults THEN BOOLEAN ELSE {FALSE}

Init ==
  /\ idle = [w \in 1 .. Prewarmed |-> w]
  /\ pending = <<>>
  /\ live = Prewarmed
  /\ job = [w \in Workers |-> NoJob]
  /\ reply = [w \in Workers |-> FALSE]
  /\ broken \in [Workers -> Loads]
  /\ status = [j \in Jobs |-> "new"]

-----------------------------------------------------------------------------

Become(j, s) == status' = [status EXCEPT ![j] = s]

\* PoolState::dispatch, TransferClosure::apply: the message goes out ...
Post(w, j) ==
  /\ job' = [job EXCEPT ![w] = j]
  /\ Become(j, "posted")

\* ... or post_message throws; the caller of dispatch pushes the worker back.
PostFails(w, j, s) ==
  /\ "post" \in Faults
  /\ UNCHANGED job
  /\ Become(j, s)

\* Jobs are numbered in the order of the calls.
NextJob(j) == status[j] = "new" /\ \A i \in 1 .. j - 1 : status[i] # "new"

\* execute with an idle worker: the last one that became idle.
ExecuteIdle(j) ==
  /\ NextJob(j) /\ idle # <<>>
  /\ LET w == idle[Len(idle)]
     IN \/ Post(w, j) /\ idle' = SubSeq(idle, 1, Len(idle) - 1)
        \/ PostFails(w, j, "refused") /\ UNCHANGED idle
  /\ UNCHANGED <<pending, live, reply, broken>>

BelowCap == live < Cap

\* execute below the cap: spawn_for_pool, then dispatch_to_worker.
ExecuteSpawn(j) ==
  /\ NextJob(j) /\ idle = <<>> /\ BelowCap
  /\ live' = live + 1
  /\ LET w == live + 1
     IN \/ Post(w, j) /\ UNCHANGED idle
        \/ PostFails(w, j, "refused") /\ idle' = <<w>>
  /\ UNCHANGED <<pending, reply, broken>>

\* execute when the browser cannot create the worker: an error for the caller.
ExecuteSpawnFails(j) ==
  /\ NextJob(j) /\ idle = <<>> /\ BelowCap
  /\ "spawn" \in Faults
  /\ Become(j, "refused")
  /\ UNCHANGED <<idle, pending, live, job, reply, broken>>

\* execute at the cap.
ExecuteQueue(j) ==
  /\ NextJob(j) /\ idle = <<>> /\ ~BelowCap
  /\ pending' = Append(pending, j)
  /\ Become(j, "pending")
  /\ UNCHANGED <<idle, live, job, reply, broken>>

-----------------------------------------------------------------------------

\* Faulty variant: the worker's script does not post when the closure throws.
RunSilentThrow(w) ==
  /\ job[w] # NoJob /\ ~reply[w] /\ ~broken[w] /\ status[job[w]] = "posted"
  /\ \/ Become(job[w], "done") /\ reply' = [reply EXCEPT ![w] = TRUE]
     \/ Become(job[w], "thrown") /\ UNCHANGED reply
  /\ UNCHANGED <<idle, pending, live, job, broken>>

\* The worker runs the closure: receive_transfer_closure posts `undefined`, or
\* the script catches what it throws and posts `null`.  A worker whose module
\* did not load never gets here: `await init` is outside the script's `try`.
Run(w) ==
  /\ job[w] # NoJob /\ ~reply[w] /\ ~broken[w]
  /\ \E s \in {"done", "thrown"} : Become(job[w], s)
  /\ reply' = [reply EXCEPT ![w] = TRUE]
  /\ UNCHANGED <<idle, pending, live, job, broken>>

\* The reclaim callback, PoolState::complete with an empty queue.
CompleteIdle(w) ==
  /\ reply[w] /\ pending = <<>>
  /\ reply' = [reply EXCEPT ![w] = FALSE]
  /\ job' = [job EXCEPT ![w] = NoJob]
  /\ idle' = Append(idle, w)
  /\ UNCHANGED <<pending, live, broken, status>>

\* Faulty variants: the newest job first; the job stays in the queue; the
\* worker goes to the idle stack although it got a job.
CompleteLifo(w) ==
  /\ reply[w] /\ pending # <<>>
  /\ reply' = [reply EXCEPT ![w] = FALSE]
  /\ pending' = SubSeq(pending, 1, Len(pending) - 1)
  /\ Post(w, pending[Len(pending)])
  /\ UNCHANGED <<idle, live, broken>>
CompletePeeks(w) ==
  /\ reply[w] /\ pending # <<>>
  /\ reply' = [reply EXCEPT ![w] = FALSE]
  /\ Post(w, Head(pending))
  /\ UNCHANGED <<idle, pending, live, broken>>
CompletePushesToo(w) ==
  /\ reply[w] /\ pending # <<>>
  /\ reply' = [reply EXCEPT ![w] = FALSE]
  /\ pending' = Tail(pending)
  /\ Post(w, Head(pending)) /\ idle' = Append(idle, w)
  /\ UNCHANGED <<live, broken>>
\* Faulty variant: the queue is not looked at.
CompleteForgetsQueue(w) ==
  /\ reply[w] /\ pending # <<>>
  /\ reply' = [reply EXCEPT ![w] = FALSE]
  /\ job' = [job EXCEPT ![w] = NoJob]
  /\ idle' = Append(idle, w)
  /\ UNCHANGED <<pending, live, broken, status>>

\* PoolState::complete with a job in the queue.  When the post fails the job
\* is gone, the worker becomes idle, and the rest of the queue stays.
CompleteNext(w) ==
  /\ reply[w] /\ pending # <<>>
  /\ reply' = [reply EXCEPT ![w] = FALSE]
  /\ pending' = Tail(pending)
  /\ \/ Post(w, Head(pending)) /\ UNCHANGED idle
     \/ /\ "post" \in Faults
        /\ job' = [job EXCEPT ![w] = NoJob]
        /\ Become(Head(pending), "lost")
        /\ idle' = Append(idle, w)
  /\ UNCHANGED <<live, broken>>

Execute(j) == ExecuteIdle(j) \/ ExecuteSpawn(j) \/ ExecuteSpawnFails(j) \/ ExecuteQueue(j)

Next ==
  \/ \E j \in Jobs : Execute(j)
  \/ \E w \in Workers : Run(w) \/ CompleteIdle(w) \/ CompleteNext(w)

\* A closure returns or throws, and the host's event loop handles messages.
\* Nothing makes the caller submit another job.
Fairness == \A w \in Workers : WF_vars(Run(w)) /\ WF_vars(CompleteIdle(w) \/ CompleteNext(w))

Spec == Init /\ [][Next]_vars
FairSpec == Spec /\ Fairness

-----------------------------------------------------------------------------
(* Properties                                                              *)

\* Every spawned worker is either idle, and then once on the stack (the
\* assertion in PoolState::push), or has a job, and there are at most
\* max_workers of them, whatever fails.
WorkersAccounted ==
  /\ \A w \in Workers : w <= live =>
       ((\E k \in DOMAIN idle : idle[k] = w) <=> job[w] = NoJob)
  /\ \A k, l \in DOMAIN idle : idle[k] = idle[l] => k = l
  /\ \A k \in DOMAIN idle : idle[k] <= live
  /\ \A w \in Workers : reply[w] => job[w] # NoJob

\* A job has one owner: the queue or one worker.  Its boxed closure, a raw
\* pointer in the message, is therefore freed exactly once.
JobHasOneOwner ==
  \A j \in Jobs :
    /\ status[j] = "pending" <=> \E k \in DOMAIN pending : pending[k] = j
    /\ \A k, l \in DOMAIN pending : pending[k] = pending[l] => k = l
    /\ status[j] = "posted" <=> \E w \in Workers : job[w] = j /\ ~reply[w]
    /\ \A v, w \in Workers : job[v] = j /\ job[w] = j => v = w

\* worker_pool.rs: "If the cap has been reached, `f` is queued FIFO until a
\* worker completes its current job."  No job overtakes a queued one.
QueuedFifo ==
  \A i, j \in Jobs : i < j /\ status[i] = "pending" => status[j] \in {"new", "pending"}

\* What does hold of it whatever the browser refuses: no job overtakes a queued
\* one before a queued job is lost because it could not be posted.
NothingLost == \A j \in Jobs : status[j] # "lost"
FifoUntilLoss == NothingLost => QueuedFifo

\* Nobody is idle while a job waits, and the pool has then grown to its cap,
\* again until a queued job is lost.
WorkConserving == NothingLost /\ pending # <<>> => idle = <<>> /\ live = Cap

\* A worker whose module does not load keeps its job for ever.
StuckWith(w, j) == broken[w] /\ job[w] = j
AllStuck == \A w \in 1 .. Cap : broken[w] /\ job[w] # NoJob

\* A job that was posted runs to its end unless the module of its own worker
\* does not load; one that waits is posted and runs unless that happens to every
\* worker or a queued job is lost, after which a worker idles beside the queue.
AcceptedJobEnds ==
  \A j \in Jobs :
    /\ status[j] = "posted" ~>
         status[j] \in {"done", "thrown"} \/ \E w \in Workers : StuckWith(w, j)
    /\ status[j] = "pending" ~>
         \/ status[j] \in {"done", "thrown"} \/ \E w \in Workers : StuckWith(w, j)
         \/ AllStuck \/ ~NothingLost

-----------------------------------------------------------------------------
(* The inductive invariant                                                 *)

\* Workers that are still to be spawned have no job, and a message in flight
\* means that the job of its worker is over.
WorkersInv ==
  \A w \in Workers :
    /\ w > live => job[w] = NoJob
    /\ reply[w] => status[job[w]] \in {"done", "thrown"}

\* Jobs are submitted in their order, and the queue keeps it.
JobsInOrder ==
  /\ \A i, j \in Jobs : i < j /\ status[i] = "new" => status[j] = "new"
  /\ \A k, l \in DOMAIN pending : k < l => pending[k] < pending[l]

\* What is true of the pool whatever fails: the cap holds, workers and jobs are
\* accounted for, and the queue is in the order of the calls.
Inv == TypeOK /\ WorkersAccounted /\ JobHasOneOwner /\ WorkersInv /\ JobsInOrder

-----------------------------------------------------------------------------
(* The abstract specification                                              *)

Abs == INSTANCE JobPool
         WITH Places <- Workers, waiting <- pending, running <- job, state <- status,
              loss <- ~NothingLost

\* The idle stack, the counter of spawned workers and the reclaim callbacks make
\* up what the doc comments promise: a hard cap, a FIFO queue that is used only
\* at the cap, and one start for each job.
ImplementsJobPool == Abs!Spec
=============================================================================
