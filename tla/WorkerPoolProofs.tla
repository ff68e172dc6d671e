-------------------------- MODULE WorkerPoolProofs ---------------------------
(***************************************************************************)
(* The web worker pool accounts for its workers and its jobs, for every    *)
(* cap and every number of jobs, whatever fails; its queue is FIFO unless  *)
(* a message cannot be posted; and it implements JobPool.                  *)
(***************************************************************************)
EXTENDS WorkerPool, SequenceTheorems, TLAPS

LEMMA CapFacts == Cap \in Nat \ {0} /\ Prewarmed \in 0 .. Cap
  BY PoolAssumption DEF Cap, Prewarmed

(* The elements of a sequence after the three changes the pool makes to it. *)
LEMMA Appended ==
  ASSUME NEW S, NEW s \in Seq(S), NEW x \in S
  PROVE  /\ Append(s, x) \in Seq(S)
         /\ DOMAIN Append(s, x) = 1 .. Len(s) + 1
         /\ \A k \in 1 .. Len(s) : Append(s, x)[k] = s[k]
         /\ Append(s, x)[Len(s) + 1] = x
         /\ DOMAIN s = 1 .. Len(s) /\ Len(s) \in Nat
  OBVIOUS

LEMMA Tailed ==
  ASSUME NEW S, NEW s \in Seq(S), s # <<>>
  PROVE  /\ Tail(s) \in Seq(S)
         /\ DOMAIN Tail(s) = 1 .. Len(s) - 1
         /\ \A k \in 1 .. Len(s) - 1 : Tail(s)[k] = s[k + 1]
         /\ Head(s) = s[1] /\ 1 \in DOMAIN s /\ Head(s) \in S
         /\ DOMAIN s = 1 .. Len(s) /\ Len(s) \in Nat \ {0}
  OBVIOUS

LEMMA Popped ==
  ASSUME NEW S, NEW s \in Seq(S), s # <<>>
  PROVE  /\ SubSeq(s, 1, Len(s) - 1) \in Seq(S)
         /\ DOMAIN SubSeq(s, 1, Len(s) - 1) = 1 .. Len(s) - 1
         /\ \A k \in 1 .. Len(s) - 1 : SubSeq(s, 1, Len(s) - 1)[k] = s[k]
         /\ Len(s) \in DOMAIN s /\ s[Len(s)] \in S
         /\ DOMAIN s = 1 .. Len(s) /\ Len(s) \in Nat \ {0}
  <1>1. Len(s) \in Nat \ {0} /\ DOMAIN s = 1 .. Len(s)
    OBVIOUS
  <1>2. /\ SubSeq(s, 1, Len(s) - 1) \in Seq(S)
        /\ Len(SubSeq(s, 1, Len(s) - 1)) = Len(s) - 1
        /\ \A k \in 1 .. Len(s) - 1 : SubSeq(s, 1, Len(s) - 1)[k] = s[k]
    BY <1>1, SubSeqProperties
  <1> QED BY <1>1, <1>2

LEMMA InitInv == Init => Inv
  <1> SUFFICES ASSUME Init PROVE Inv
    OBVIOUS
  <1> USE CapFacts DEF Init
  <1>1. TypeOK
    <2>1. idle \in Seq(Workers) /\ DOMAIN idle = 1 .. Prewarmed
      BY DEF Workers
    <2>2. broken \in [Workers -> BOOLEAN]
      BY DEF Loads
    <2> QED BY <2>1, <2>2 DEF TypeOK, Jobs, Statuses
  <1>2. WorkersAccounted
    BY DEF WorkersAccounted, Workers
  <1>3. JobHasOneOwner
    BY DEF JobHasOneOwner, Jobs, NoJob
  <1>4. WorkersInv /\ JobsInOrder
    BY DEF WorkersInv, JobsInOrder
  <1> QED BY <1>1, <1>2, <1>3, <1>4 DEF Inv

(* A job that was not handed to a worker yet is in the hands of none. *)
LEMMA Unposted ==
  ASSUME Inv, NEW j \in Jobs, status[j] \in {"new", "pending"}
  PROVE  /\ \A w \in Workers : job[w] # j
         /\ j # NoJob /\ j \in Nat
  <1>1. ASSUME NEW w \in Workers, job[w] = j PROVE FALSE
    <2>1. CASE reply[w]
      BY <1>1, <2>1 DEF Inv, WorkersInv
    <2>2. CASE ~reply[w]
      BY <1>1, <2>2 DEF Inv, JobHasOneOwner
    <2> QED BY <2>1, <2>2
  <1> QED BY <1>1, PoolAssumption DEF Jobs, NoJob

(* A job that has just been submitted is the newest one: every older job is  *)
(* not new, every younger one is, and the queue holds older jobs only.       *)
LEMMA Newest ==
  ASSUME Inv, NEW j \in Jobs, NextJob(j)
  PROVE  /\ status[j] = "new"
         /\ \A i \in Jobs : i < j <=> status[i] # "new"
         /\ \A k \in DOMAIN pending : pending[k] \in Jobs /\ pending[k] < j
  <1>1. status[j] = "new"
    BY DEF NextJob
  <1>2. \A i \in Jobs : i < j <=> status[i] # "new"
    BY PoolAssumption DEF NextJob, Inv, JobsInOrder, Jobs
  <1>3. ASSUME NEW k \in DOMAIN pending PROVE pending[k] \in Jobs /\ pending[k] < j
    <2>1. pending[k] \in Jobs
      BY <1>3 DEF Inv, TypeOK
    <2>2. status[pending[k]] = "pending"
      BY <1>3, <2>1 DEF Inv, JobHasOneOwner
    <2> QED BY <1>2, <2>1, <2>2
  <1> QED BY <1>1, <1>2, <1>3

(* The job invariants when execute refuses the newest job ... *)
LEMMA RefusedJobs ==
  ASSUME Inv, NEW j \in Jobs, NextJob(j), Become(j, "refused"),
         UNCHANGED <<pending, job, reply>>
  PROVE  JobHasOneOwner' /\ JobsInOrder' /\ status' \in [Jobs -> Statuses]
         /\ \A w \in Workers : reply'[w] => status'[job'[w]] \in {"done", "thrown"}
  <1>1. status' \in [Jobs -> Statuses]
        /\ status'[j] = "refused"
        /\ \A i \in Jobs : i # j => status'[i] = status[i]
    BY DEF Inv, TypeOK, Statuses, Become
  <1>2. JobHasOneOwner'
    BY <1>1, Newest, Unposted DEF Inv, JobHasOneOwner
  <1>3. JobsInOrder'
    BY <1>1, Newest, PoolAssumption DEF Inv, JobsInOrder, Jobs
  <1>4. \A w \in Workers : reply'[w] => status'[job'[w]] \in {"done", "thrown"}
    BY <1>1, Newest, Unposted DEF Inv, WorkersInv, WorkersAccounted, TypeOK, NoJob
  <1> QED BY <1>1, <1>2, <1>3, <1>4

(* ... and when it hands it to worker w, which has no job. *)
LEMMA PostedJobs ==
  ASSUME Inv, NEW j \in Jobs, NextJob(j), NEW w \in Workers, Post(w, j),
         job[w] = NoJob, UNCHANGED <<pending, reply>>
  PROVE  JobHasOneOwner' /\ JobsInOrder' /\ status' \in [Jobs -> Statuses]
         /\ \A v \in Workers : reply'[v] => status'[job'[v]] \in {"done", "thrown"}
  <1>1. status' \in [Jobs -> Statuses]
        /\ status'[j] = "posted"
        /\ \A i \in Jobs : i # j => status'[i] = status[i]
    BY DEF Inv, TypeOK, Statuses, Post, Become
  <1>2. job'[w] = j /\ \A v \in Workers : v # w => job'[v] = job[v]
    BY DEF Inv, TypeOK, Post
  <1>3. ~reply[w]
    BY DEF Inv, WorkersAccounted
  <1>4. JobHasOneOwner'
    <2> SUFFICES ASSUME NEW i \in Jobs
                 PROVE  /\ status'[i] = "pending" <=> \E k \in DOMAIN pending' : pending'[k] = i
                        /\ \A k, l \in DOMAIN pending' : pending'[k] = pending'[l] => k = l
                        /\ status'[i] = "posted" <=> \E v \in Workers : job'[v] = i /\ ~reply'[v]
                        /\ \A u, v \in Workers : job'[u] = i /\ job'[v] = i => u = v
      BY DEF JobHasOneOwner
    <2>0. JobHasOneOwner /\ j # NoJob /\ (\A v \in Workers : job[v] # j) /\ status[j] = "new"
      BY Newest, Unposted DEF Inv
    <2>1. status'[i] = "pending" <=> \E k \in DOMAIN pending' : pending'[k] = i
      BY <1>1, <2>0 DEF JobHasOneOwner
    <2>2. \A k, l \in DOMAIN pending' : pending'[k] = pending'[l] => k = l
      BY <2>0 DEF JobHasOneOwner
    <2>3. status'[i] = "posted" <=> \E v \in Workers : job'[v] = i /\ ~reply'[v]
      <3>1. CASE i = j
        BY <1>1, <1>2, <1>3, <3>1
      <3>2. CASE i # j
        <4>1. \A v \in Workers : job'[v] = i <=> job[v] = i
          BY <1>2, <3>2, PoolAssumption DEF NoJob, Jobs
        <4> QED BY <1>1, <2>0, <3>2, <4>1 DEF JobHasOneOwner
      <3> QED BY <3>1, <3>2
    <2>4. \A u, v \in Workers : job'[u] = i /\ job'[v] = i => u = v
      BY <1>2, <2>0 DEF JobHasOneOwner
    <2> QED BY <2>1, <2>2, <2>3, <2>4
  <1>5. JobsInOrder'
    BY <1>1, Newest, PoolAssumption DEF Inv, JobsInOrder, Jobs
  <1>6. \A v \in Workers : reply'[v] => status'[job'[v]] \in {"done", "thrown"}
    BY <1>1, <1>2, <1>3, Newest, Unposted DEF Inv, WorkersInv, WorkersAccounted, TypeOK, NoJob
  <1> QED BY <1>1, <1>4, <1>5, <1>6

LEMMA ExecuteIdleInv == ASSUME Inv, NEW j \in Jobs, ExecuteIdle(j) PROVE Inv'
  <1> DEFINE w == idle[Len(idle)]
  <1>0. /\ idle \in Seq(Workers) /\ idle # <<>> /\ NextJob(j)
        /\ UNCHANGED <<pending, live, reply, broken>> /\ w \in Workers
        /\ Len(idle) \in DOMAIN idle
    BY Popped DEF ExecuteIdle, Inv, TypeOK
  <1>1. job[w] = NoJob /\ w <= live
    BY <1>0 DEF Inv, WorkersAccounted
  <1>2. CASE Post(w, j) /\ idle' = SubSeq(idle, 1, Len(idle) - 1)
    <2>0. JobHasOneOwner' /\ JobsInOrder' /\ status' \in [Jobs -> Statuses]
          /\ \A v \in Workers : reply'[v] => status'[job'[v]] \in {"done", "thrown"}
      BY <1>0, <1>1, <1>2, PostedJobs
    <2>1. /\ job' \in [Workers -> Jobs \cup {NoJob}] /\ job'[w] = j /\ j # NoJob
          /\ \A v \in Workers : v # w => job'[v] = job[v]
      BY <1>0, <1>2, PoolAssumption DEF Inv, TypeOK, Post, Jobs, NoJob
    <2>2. TypeOK'
      BY <1>0, <1>2, <2>0, <2>1, Popped DEF Inv, TypeOK
    <2>3. /\ DOMAIN idle' = 1 .. Len(idle) - 1 /\ DOMAIN idle = 1 .. Len(idle)
          /\ Len(idle) \in Nat \ {0}
          /\ \A k \in 1 .. Len(idle) - 1 : idle'[k] = idle[k]
      BY <1>0, <1>2, Popped
    <2>4. \A v \in Workers : (\E k \in DOMAIN idle' : idle'[k] = v)
                              <=> (v # w /\ \E k \in DOMAIN idle : idle[k] = v)
      <3>1. \A k \in 1 .. Len(idle) - 1 : idle[k] # w
        BY <2>3 DEF Inv, WorkersAccounted
      <3>2. \A k \in DOMAIN idle : k # Len(idle) => k \in 1 .. Len(idle) - 1
        BY <2>3
      <3>3. \A k \in 1 .. Len(idle) - 1 : k \in DOMAIN idle
        BY <2>3
      <3> QED BY <2>3, <3>1, <3>2, <3>3
    <2>5. WorkersAccounted'
      <3>1. \A v \in Workers : v <= live' =>
              ((\E k \in DOMAIN idle' : idle'[k] = v) <=> job'[v] = NoJob)
        BY <1>0, <2>1, <2>4 DEF Inv, WorkersAccounted
      <3>2. \A k \in DOMAIN idle' : k \in DOMAIN idle /\ idle'[k] = idle[k]
        BY <2>3
      <3>3. /\ \A k, l \in DOMAIN idle' : idle'[k] = idle'[l] => k = l
            /\ \A k \in DOMAIN idle' : idle'[k] <= live'
        BY <1>0, <3>2 DEF Inv, WorkersAccounted
      <3>4. \A v \in Workers : reply'[v] => job'[v] # NoJob
        BY <1>0, <2>1 DEF Inv, WorkersAccounted
      <3> QED BY <3>1, <3>3, <3>4 DEF WorkersAccounted
    <2>6. WorkersInv'
      BY <1>0, <1>1, <2>0, <2>1, CapFacts DEF Inv, WorkersInv, TypeOK, Workers
    <2> QED BY <2>0, <2>2, <2>5, <2>6 DEF Inv
  <1>3. CASE PostFails(w, j, "refused") /\ UNCHANGED idle
    <2>0. UNCHANGED <<idle, pending, live, job, reply, broken>> /\ Become(j, "refused")
      BY <1>0, <1>3 DEF PostFails
    <2>1. JobHasOneOwner' /\ JobsInOrder' /\ status' \in [Jobs -> Statuses]
          /\ \A v \in Workers : reply'[v] => status'[job'[v]] \in {"done", "thrown"}
      BY <1>0, <2>0, RefusedJobs
    <2> QED BY <2>0, <2>1 DEF Inv, TypeOK, WorkersAccounted, WorkersInv
  <1> QED BY <1>2, <1>3 DEF ExecuteIdle

LEMMA ExecuteSpawnInv == ASSUME Inv, NEW j \in Jobs, ExecuteSpawn(j) PROVE Inv'
  <1> DEFINE w == live + 1
  <1>0. /\ idle = <<>> /\ NextJob(j) /\ live' = w /\ live \in Nat /\ live < Cap
        /\ UNCHANGED <<pending, reply, broken>> /\ w \in Workers /\ w \in 0 .. Cap
    BY CapFacts DEF ExecuteSpawn, BelowCap, Inv, TypeOK, Workers
  <1>1. job[w] = NoJob /\ \A v \in Workers : v <= live => job[v] # NoJob
    BY <1>0 DEF Inv, WorkersAccounted, WorkersInv
  <1>2. \A v \in Workers : v \in Nat /\ (v <= w <=> v = w \/ v <= live) /\ (v > w => v > live)
    BY <1>0, CapFacts DEF Workers
  <1>3. CASE Post(w, j) /\ UNCHANGED idle
    <2>0. JobHasOneOwner' /\ JobsInOrder' /\ status' \in [Jobs -> Statuses]
          /\ \A v \in Workers : reply'[v] => status'[job'[v]] \in {"done", "thrown"}
      BY <1>0, <1>1, <1>3, PostedJobs
    <2>1. /\ job' \in [Workers -> Jobs \cup {NoJob}] /\ job'[w] = j /\ j # NoJob
          /\ \A v \in Workers : v # w => job'[v] = job[v]
      BY <1>0, <1>3, PoolAssumption DEF Inv, TypeOK, Post, Jobs, NoJob
    <2>2. TypeOK'
      BY <1>0, <1>3, <2>0, <2>1 DEF Inv, TypeOK
    <2>3. WorkersAccounted'
      BY <1>0, <1>1, <1>2, <1>3, <2>1 DEF Inv, WorkersAccounted
    <2>4. WorkersInv'
      BY <1>0, <1>2, <2>0, <2>1 DEF Inv, WorkersInv
    <2> QED BY <2>0, <2>2, <2>3, <2>4 DEF Inv
  <1>4. CASE PostFails(w, j, "refused") /\ idle' = <<w>>
    <2>0. UNCHANGED <<pending, job, reply, broken>> /\ Become(j, "refused")
          /\ idle' = <<w>> /\ DOMAIN idle' = {1} /\ idle'[1] = w
      BY <1>0, <1>4 DEF PostFails
    <2>1. JobHasOneOwner' /\ JobsInOrder' /\ status' \in [Jobs -> Statuses]
          /\ \A v \in Workers : reply'[v] => status'[job'[v]] \in {"done", "thrown"}
      BY <1>0, <2>0, RefusedJobs
    <2>2. TypeOK'
      BY <1>0, <2>0, <2>1 DEF Inv, TypeOK
    <2>3. WorkersAccounted'
      BY <1>0, <1>1, <1>2, <2>0 DEF Inv, WorkersAccounted
    <2>4. WorkersInv'
      BY <1>0, <1>2, <2>0, <2>1 DEF Inv, WorkersInv
    <2> QED BY <2>1, <2>2, <2>3, <2>4 DEF Inv
  <1> QED BY <1>3, <1>4 DEF ExecuteSpawn

LEMMA ExecuteSpawnFailsInv == ASSUME Inv, NEW j \in Jobs, ExecuteSpawnFails(j) PROVE Inv'
  <1>0. /\ NextJob(j) /\ Become(j, "refused")
        /\ UNCHANGED <<idle, pending, live, job, reply, broken>>
    BY DEF ExecuteSpawnFails
  <1>1. JobHasOneOwner' /\ JobsInOrder' /\ status' \in [Jobs -> Statuses]
        /\ \A v \in Workers : reply'[v] => status'[job'[v]] \in {"done", "thrown"}
    BY <1>0, RefusedJobs
  <1> QED BY <1>0, <1>1 DEF Inv, TypeOK, WorkersAccounted, WorkersInv

LEMMA ExecuteQueueInv == ASSUME Inv, NEW j \in Jobs, ExecuteQueue(j) PROVE Inv'
  <1>0. /\ NextJob(j) /\ Become(j, "pending") /\ pending' = Append(pending, j)
        /\ UNCHANGED <<idle, live, job, reply, broken>> /\ pending \in Seq(Jobs)
    BY DEF ExecuteQueue, Inv, TypeOK
  <1>1. status' \in [Jobs -> Statuses] /\ status'[j] = "pending"
        /\ \A i \in Jobs : i # j => status'[i] = status[i]
    BY <1>0 DEF Inv, TypeOK, Statuses, Become
  <1>2. /\ pending' \in Seq(Jobs) /\ Len(pending) \in Nat
        /\ DOMAIN pending' = 1 .. Len(pending) + 1 /\ DOMAIN pending = 1 .. Len(pending)
        /\ \A k \in 1 .. Len(pending) : pending'[k] = pending[k]
        /\ pending'[Len(pending) + 1] = j
    BY <1>0, Appended
  <1>3. /\ status[j] = "new" /\ j \in Nat /\ j # NoJob
        /\ \A i \in Jobs : i < j <=> status[i] # "new"
        /\ \A k \in 1 .. Len(pending) : pending[k] \in Jobs /\ pending[k] < j
        /\ \A w \in Workers : job[w] # j
    BY <1>0, <1>2, Newest, Unposted
  <1>4. TypeOK'
    BY <1>0, <1>1, <1>2 DEF Inv, TypeOK
  <1>5. WorkersAccounted'
    BY <1>0 DEF Inv, WorkersAccounted
  <1>6. JobHasOneOwner'
    <2> SUFFICES ASSUME NEW i \in Jobs
                 PROVE  /\ status'[i] = "pending" <=> \E k \in DOMAIN pending' : pending'[k] = i
                        /\ \A k, l \in DOMAIN pending' : pending'[k] = pending'[l] => k = l
                        /\ status'[i] = "posted" <=> \E v \in Workers : job'[v] = i /\ ~reply'[v]
                        /\ \A u, v \in Workers : job'[u] = i /\ job'[v] = i => u = v
      BY DEF JobHasOneOwner
    <2>1. status'[i] = "pending" <=> \E k \in DOMAIN pending' : pending'[k] = i
      <3>1. CASE i = j
        BY <1>1, <1>2, <3>1
      <3>2. CASE i # j
        BY <1>1, <1>2, <3>2 DEF Inv, JobHasOneOwner
      <3> QED BY <3>1, <3>2
    <2>2. \A k, l \in DOMAIN pending' : pending'[k] = pending'[l] => k = l
      <3>1. \A k, l \in 1 .. Len(pending) : pending[k] = pending[l] => k = l
        BY <1>2 DEF Inv, JobHasOneOwner
      <3>2. \A k \in DOMAIN pending' : k \in 1 .. Len(pending) \/ k = Len(pending) + 1
        BY <1>2
      <3>3. \A k \in 1 .. Len(pending) : pending'[k] # j
        BY <1>2, <1>3, PoolAssumption DEF Jobs
      <3> QED BY <1>2, <3>1, <3>2, <3>3
    <2>3. status'[i] = "posted" <=> \E v \in Workers : job'[v] = i /\ ~reply'[v]
      BY <1>0, <1>1, <1>3 DEF Inv, JobHasOneOwner
    <2>4. \A u, v \in Workers : job'[u] = i /\ job'[v] = i => u = v
      BY <1>0 DEF Inv, JobHasOneOwner
    <2> QED BY <2>1, <2>2, <2>3, <2>4
  <1>7. WorkersInv'
    BY <1>0, <1>1, <1>3 DEF Inv, WorkersInv, WorkersAccounted, TypeOK, NoJob
  <1>8. JobsInOrder'
    <2>1. \A h, i \in Jobs : h < i /\ status'[h] = "new" => status'[i] = "new"
      BY <1>1, <1>3, PoolAssumption DEF Inv, JobsInOrder, Jobs
    <2>2. \A k, l \in DOMAIN pending' : k < l => pending'[k] < pending'[l]
      <3>1. \A k, l \in 1 .. Len(pending) : k < l => pending[k] < pending[l]
        BY <1>2 DEF Inv, JobsInOrder
      <3>2. ASSUME NEW k \in DOMAIN pending', NEW l \in DOMAIN pending', k < l
            PROVE  k \in 1 .. Len(pending) /\ (l \in 1 .. Len(pending) \/ l = Len(pending) + 1)
        BY <1>2, <3>2
      <3> QED BY <1>2, <1>3, <3>1, <3>2
    <2> QED BY <2>1, <2>2 DEF JobsInOrder
  <1> QED BY <1>4, <1>5, <1>6, <1>7, <1>8 DEF Inv

LEMMA RunInv == ASSUME Inv, NEW w \in Workers, Run(w) PROVE Inv'
  <1>0. /\ job[w] # NoJob /\ ~reply[w] /\ reply' = [reply EXCEPT ![w] = TRUE]
        /\ UNCHANGED <<idle, pending, live, job, broken>>
    BY DEF Run
  <1>1. PICK s \in {"done", "thrown"} : Become(job[w], s)
    BY DEF Run
  <1>2. job[w] \in Jobs /\ status[job[w]] = "posted"
    BY <1>0 DEF Inv, TypeOK, JobHasOneOwner
  <1>3. status' \in [Jobs -> Statuses] /\ status'[job[w]] = s
        /\ \A i \in Jobs : i # job[w] => status'[i] = status[i]
    BY <1>1, <1>2 DEF Inv, TypeOK, Statuses, Become
  <1>4. reply' \in [Workers -> BOOLEAN] /\ reply'[w]
        /\ \A v \in Workers : v # w => reply'[v] = reply[v]
    BY <1>0 DEF Inv, TypeOK
  <1>5. TypeOK'
    BY <1>0, <1>3, <1>4 DEF Inv, TypeOK
  <1>6. WorkersAccounted'
    BY <1>0, <1>4 DEF Inv, WorkersAccounted
  <1>7. JobHasOneOwner'
    <2> SUFFICES ASSUME NEW i \in Jobs
                 PROVE  /\ status'[i] = "pending" <=> \E k \in DOMAIN pending' : pending'[k] = i
                        /\ \A k, l \in DOMAIN pending' : pending'[k] = pending'[l] => k = l
                        /\ status'[i] = "posted" <=> \E v \in Workers : job'[v] = i /\ ~reply'[v]
                        /\ \A u, v \in Workers : job'[u] = i /\ job'[v] = i => u = v
      BY DEF JobHasOneOwner
    <2>0. \A u, v \in Workers : job[u] = i /\ job[v] = i => u = v
      BY DEF Inv, JobHasOneOwner
    <2>1. status'[i] = "pending" <=> \E k \in DOMAIN pending' : pending'[k] = i
      BY <1>0, <1>2, <1>3 DEF Inv, JobHasOneOwner
    <2>2. status'[i] = "posted" <=> \E v \in Workers : job'[v] = i /\ ~reply'[v]
      <3>1. CASE i = job[w]
        BY <1>0, <1>3, <1>4, <2>0, <3>1
      <3>2. CASE i # job[w]
        BY <1>0, <1>3, <1>4, <3>2 DEF Inv, JobHasOneOwner
      <3> QED BY <3>1, <3>2
    <2> QED BY <1>0, <2>0, <2>1, <2>2 DEF Inv, JobHasOneOwner
  <1>8. WorkersInv'
    <2>1. \A v \in Workers : v # w /\ reply[v] => job[v] \in Jobs /\ job[v] # job[w]
      BY <1>2 DEF Inv, WorkersInv, WorkersAccounted, TypeOK
    <2> QED BY <1>0, <1>2, <1>3, <1>4, <2>1 DEF Inv, WorkersInv
  <1>9. JobsInOrder'
    BY <1>0, <1>2, <1>3 DEF Inv, JobsInOrder
  <1> QED BY <1>5, <1>6, <1>7, <1>8, <1>9 DEF Inv

(* The reclaim callback when worker w becomes idle: what holds of the workers. *)
LEMMA Reclaimed ==
  ASSUME Inv, NEW w \in Workers, reply[w],
         reply' = [reply EXCEPT ![w] = FALSE], job' = [job EXCEPT ![w] = NoJob],
         idle' = Append(idle, w), UNCHANGED live
  PROVE  /\ idle' \in Seq(Workers)
         /\ job' \in [Workers -> Jobs \cup {NoJob}] /\ reply' \in [Workers -> BOOLEAN]
         /\ job'[w] = NoJob /\ ~reply'[w] /\ job[w] # NoJob
         /\ \A v \in Workers : v # w => job'[v] = job[v] /\ reply'[v] = reply[v]
         /\ WorkersAccounted'
  <1>1. /\ job' \in [Workers -> Jobs \cup {NoJob}] /\ reply' \in [Workers -> BOOLEAN]
        /\ job'[w] = NoJob /\ ~reply'[w]
        /\ \A v \in Workers : v # w => job'[v] = job[v] /\ reply'[v] = reply[v]
    BY DEF Inv, TypeOK
  <1>2. /\ idle' \in Seq(Workers) /\ Len(idle) \in Nat
        /\ DOMAIN idle' = 1 .. Len(idle) + 1 /\ DOMAIN idle = 1 .. Len(idle)
        /\ \A k \in 1 .. Len(idle) : idle'[k] = idle[k]
        /\ idle'[Len(idle) + 1] = w
    BY Appended DEF Inv, TypeOK
  <1>3. job[w] # NoJob
    BY DEF Inv, WorkersAccounted
  <1>4. w <= live
    BY <1>3, CapFacts DEF Inv, WorkersInv, TypeOK, Workers
  <1>5. \A k \in 1 .. Len(idle) : idle[k] # w
    BY <1>2, <1>3, <1>4 DEF Inv, WorkersAccounted
  <1>6. \A k \in DOMAIN idle' : k \in 1 .. Len(idle) \/ k = Len(idle) + 1
    BY <1>2
  <1>7. WorkersAccounted'
    <2>1. ASSUME NEW v \in Workers, v <= live
          PROVE  (\E k \in DOMAIN idle' : idle'[k] = v) <=> job'[v] = NoJob
      <3>1. CASE v = w
        BY <1>1, <1>2, <3>1
      <3>2. CASE v # w
        BY <1>1, <1>2, <2>1, <3>2 DEF Inv, WorkersAccounted
      <3> QED BY <3>1, <3>2
    <2>2. \A k, l \in DOMAIN idle' : idle'[k] = idle'[l] => k = l
      <3>1. \A k, l \in 1 .. Len(idle) : idle[k] = idle[l] => k = l
        BY <1>2 DEF Inv, WorkersAccounted
      <3> QED BY <1>2, <1>5, <1>6, <3>1
    <2>3. \A k \in DOMAIN idle' : idle'[k] <= live
      BY <1>2, <1>4, <1>6 DEF Inv, WorkersAccounted
    <2>4. \A v \in Workers : reply'[v] => job'[v] # NoJob
      BY <1>1 DEF Inv, WorkersAccounted
    <2> QED BY <2>1, <2>2, <2>3, <2>4 DEF WorkersAccounted
  <1> QED BY <1>1, <1>2, <1>3, <1>7

LEMMA CompleteIdleInv == ASSUME Inv, NEW w \in Workers, CompleteIdle(w) PROVE Inv'
  <1>0. /\ reply[w] /\ UNCHANGED <<pending, live, broken, status>>
        /\ reply' = [reply EXCEPT ![w] = FALSE] /\ job' = [job EXCEPT ![w] = NoJob]
        /\ idle' = Append(idle, w)
    BY DEF CompleteIdle
  <1>1. /\ idle' \in Seq(Workers)
        /\ job' \in [Workers -> Jobs \cup {NoJob}] /\ reply' \in [Workers -> BOOLEAN]
        /\ job'[w] = NoJob /\ ~reply'[w] /\ job[w] # NoJob
        /\ \A v \in Workers : v # w => job'[v] = job[v] /\ reply'[v] = reply[v]
        /\ WorkersAccounted'
    BY <1>0, Reclaimed
  <1>2. TypeOK'
    BY <1>0, <1>1 DEF Inv, TypeOK
  <1>3. NoJob \notin Jobs
    BY PoolAssumption DEF NoJob, Jobs
  <1>4. JobHasOneOwner'
    <2> SUFFICES ASSUME NEW i \in Jobs
                 PROVE  /\ status'[i] = "pending" <=> \E k \in DOMAIN pending' : pending'[k] = i
                        /\ \A k, l \in DOMAIN pending' : pending'[k] = pending'[l] => k = l
                        /\ status'[i] = "posted" <=> \E v \in Workers : job'[v] = i /\ ~reply'[v]
                        /\ \A u, v \in Workers : job'[u] = i /\ job'[v] = i => u = v
      BY DEF JobHasOneOwner
    <2>1. \A v \in Workers : job'[v] = i /\ ~reply'[v] <=> job[v] = i /\ ~reply[v]
      BY <1>0, <1>1, <1>3
    <2>2. \A v \in Workers : job'[v] = i => job[v] = i
      BY <1>1, <1>3
    <2> QED BY <1>0, <2>1, <2>2 DEF Inv, JobHasOneOwner
  <1>5. WorkersInv'
    BY <1>0, <1>1 DEF Inv, WorkersInv
  <1>6. JobsInOrder'
    BY <1>0 DEF Inv, JobsInOrder
  <1> QED BY <1>1, <1>2, <1>4, <1>5, <1>6 DEF Inv

(* The queue without its head: the head is the oldest job in it. *)
LEMMA Dequeued ==
  ASSUME Inv, pending # <<>>, pending' = Tail(pending)
  PROVE  /\ pending' \in Seq(Jobs) /\ Head(pending) \in Jobs
         /\ status[Head(pending)] = "pending"
         /\ \A i \in Jobs : (\E k \in DOMAIN pending' : pending'[k] = i)
              <=> i # Head(pending) /\ \E k \in DOMAIN pending : pending[k] = i
         /\ \A k, l \in DOMAIN pending' : pending'[k] = pending'[l] => k = l
         /\ \A k, l \in DOMAIN pending' : k < l => pending'[k] < pending'[l]
         /\ \A i \in Jobs : status[i] = "pending" => Head(pending) <= i
  <1>1. /\ pending' \in Seq(Jobs) /\ Head(pending) \in Jobs
        /\ DOMAIN pending' = 1 .. Len(pending) - 1 /\ DOMAIN pending = 1 .. Len(pending)
        /\ Len(pending) \in Nat \ {0}
        /\ \A k \in 1 .. Len(pending) - 1 : pending'[k] = pending[k + 1]
        /\ Head(pending) = pending[1] /\ 1 \in DOMAIN pending
    BY Tailed DEF Inv, TypeOK
  <1>2. status[Head(pending)] = "pending"
    BY <1>1 DEF Inv, JobHasOneOwner
  <1>3. /\ \A k, l \in 1 .. Len(pending) : pending[k] = pending[l] => k = l
        /\ \A k, l \in 1 .. Len(pending) : k < l => pending[k] < pending[l]
    <2>1. \A k, l \in DOMAIN pending : pending[k] = pending[l] => k = l
      BY <1>1 DEF Inv, JobHasOneOwner
    <2>2. \A k, l \in DOMAIN pending : k < l => pending[k] < pending[l]
      BY DEF Inv, JobsInOrder
    <2> QED BY <1>1, <2>1, <2>2
  <1>4. \A k \in 1 .. Len(pending) - 1 : k + 1 \in 1 .. Len(pending) /\ k + 1 # 1
    BY <1>1
  <1>5. \A i \in Jobs : (\E k \in DOMAIN pending' : pending'[k] = i)
              <=> i # Head(pending) /\ \E k \in DOMAIN pending : pending[k] = i
    <2> SUFFICES ASSUME NEW i \in Jobs
                 PROVE  (\E k \in DOMAIN pending' : pending'[k] = i)
                          <=> i # Head(pending) /\ \E k \in DOMAIN pending : pending[k] = i
      OBVIOUS
    <2>1. ASSUME NEW k \in DOMAIN pending', pending'[k] = i
          PROVE  i # Head(pending) /\ \E l \in DOMAIN pending : pending[l] = i
      BY <1>1, <1>3, <1>4, <2>1
    <2>2. ASSUME NEW k \in DOMAIN pending, pending[k] = i, i # Head(pending)
          PROVE  \E l \in DOMAIN pending' : pending'[l] = i
      <3>1. k - 1 \in 1 .. Len(pending) - 1 /\ (k - 1) + 1 = k
        BY <1>1, <2>2
      <3> QED BY <1>1, <2>2, <3>1
    <2> QED BY <2>1, <2>2
  <1>6. \A k, l \in DOMAIN pending' : pending'[k] = pending'[l] => k = l
    BY <1>1, <1>3, <1>4
  <1>7. \A k, l \in DOMAIN pending' : k < l => pending'[k] < pending'[l]
    BY <1>1, <1>3, <1>4
  <1>8. ASSUME NEW i \in Jobs, status[i] = "pending" PROVE Head(pending) <= i
    <2>1. PICK k \in DOMAIN pending : pending[k] = i
      BY <1>8 DEF Inv, JobHasOneOwner
    <2>2. k = 1 \/ pending[1] < pending[k]
      BY <1>1, <1>3
    <2> QED BY <1>1, <2>1, <2>2, PoolAssumption DEF Jobs
  <1> QED BY <1>1, <1>2, <1>5, <1>6, <1>7, <1>8

LEMMA CompleteNextInv == ASSUME Inv, NEW w \in Workers, CompleteNext(w) PROVE Inv'
  <1> DEFINE j == Head(pending)
  <1>0. /\ reply[w] /\ pending # <<>> /\ UNCHANGED <<live, broken>>
        /\ reply' = [reply EXCEPT ![w] = FALSE] /\ pending' = Tail(pending)
    BY DEF CompleteNext
  <1>1. /\ pending' \in Seq(Jobs) /\ j \in Jobs /\ status[j] = "pending"
        /\ \A i \in Jobs : (\E k \in DOMAIN pending' : pending'[k] = i)
             <=> i # j /\ \E k \in DOMAIN pending : pending[k] = i
        /\ \A k, l \in DOMAIN pending' : pending'[k] = pending'[l] => k = l
        /\ \A k, l \in DOMAIN pending' : k < l => pending'[k] < pending'[l]
    BY <1>0, Dequeued
  <1>2. (\A v \in Workers : job[v] # j) /\ NoJob \notin Jobs
    BY <1>1, Unposted, PoolAssumption DEF NoJob, Jobs
  <1>3. reply' \in [Workers -> BOOLEAN] /\ ~reply'[w]
        /\ \A v \in Workers : v # w => reply'[v] = reply[v]
    BY <1>0 DEF Inv, TypeOK
  <1>4. PICK s \in {"posted", "lost"} : /\ Become(j, s)
                                        /\ s = "posted" => Post(w, j) /\ UNCHANGED idle
                                        /\ s = "lost" => /\ job' = [job EXCEPT ![w] = NoJob]
                                                         /\ idle' = Append(idle, w)
    BY DEF CompleteNext, Post
  <1>5. status' \in [Jobs -> Statuses] /\ status'[j] = s
        /\ \A i \in Jobs : i # j => status'[i] = status[i]
    BY <1>1, <1>4 DEF Inv, TypeOK, Statuses, Become
  <1>6. /\ job' \in [Workers -> Jobs \cup {NoJob}]
        /\ job'[w] = IF s = "posted" THEN j ELSE NoJob
        /\ \A v \in Workers : v # w => job'[v] = job[v]
    <2>1. CASE s = "posted"
      BY <1>1, <1>4, <2>1 DEF Inv, TypeOK, Post
    <2>2. CASE s = "lost"
      BY <1>4, <2>2 DEF Inv, TypeOK
    <2> QED BY <2>1, <2>2
  <1>7. idle' \in Seq(Workers) /\ WorkersAccounted'
    <2>1. CASE s = "posted"
      <3>1. job[w] # NoJob /\ job'[w] # NoJob /\ UNCHANGED idle
        BY <1>0, <1>1, <1>2, <1>4, <1>6, <2>1 DEF Inv, WorkersAccounted
      <3> QED BY <1>0, <1>3, <1>6, <3>1 DEF Inv, TypeOK, WorkersAccounted
    <2>2. CASE s = "lost"
      BY <1>0, <1>4, <2>2, Reclaimed
    <2> QED BY <2>1, <2>2
  <1>8. TypeOK'
    BY <1>0, <1>1, <1>3, <1>5, <1>6, <1>7 DEF Inv, TypeOK
  <1>9. JobHasOneOwner'
    <2> SUFFICES ASSUME NEW i \in Jobs
                 PROVE  /\ status'[i] = "pending" <=> \E k \in DOMAIN pending' : pending'[k] = i
                        /\ \A k, l \in DOMAIN pending' : pending'[k] = pending'[l] => k = l
                        /\ status'[i] = "posted" <=> \E v \in Workers : job'[v] = i /\ ~reply'[v]
                        /\ \A u, v \in Workers : job'[u] = i /\ job'[v] = i => u = v
      BY DEF JobHasOneOwner
    <2>1. status'[i] = "pending" <=> \E k \in DOMAIN pending' : pending'[k] = i
      BY <1>1, <1>4, <1>5 DEF Inv, JobHasOneOwner
    <2>2. status'[i] = "posted" <=> \E v \in Workers : job'[v] = i /\ ~reply'[v]
      <3>1. CASE i = j
        BY <1>2, <1>3, <1>4, <1>5, <1>6, <3>1
      <3>2. CASE i # j
        <4>1. \A v \in Workers : job'[v] = i /\ ~reply'[v] <=> job[v] = i /\ ~reply[v]
          BY <1>0, <1>2, <1>3, <1>6, <3>2
        <4> QED BY <1>5, <3>2, <4>1 DEF Inv, JobHasOneOwner
      <3> QED BY <3>1, <3>2
    <2>3. \A u, v \in Workers : job'[u] = i /\ job'[v] = i => u = v
      BY <1>2, <1>6 DEF Inv, JobHasOneOwner
    <2> QED BY <1>1, <2>1, <2>2, <2>3
  <1>10. WorkersInv'
    <2>1. w <= live
      BY <1>0, CapFacts DEF Inv, WorkersInv, WorkersAccounted, TypeOK, Workers
    <2>2. ASSUME NEW v \in Workers, v > live PROVE job'[v] = NoJob
      <3>1. v # w
        BY <2>1, <2>2, CapFacts DEF Inv, TypeOK, Workers
      <3> QED BY <1>6, <2>2, <3>1 DEF Inv, WorkersInv
    <2>3. ASSUME NEW v \in Workers, reply'[v] PROVE status'[job'[v]] \in {"done", "thrown"}
      <3>1. v # w /\ reply[v] /\ job'[v] = job[v] /\ job[v] \in Jobs /\ job[v] # j
        BY <1>2, <1>3, <1>6, <2>3 DEF Inv, WorkersAccounted, TypeOK
      <3> QED BY <1>5, <3>1 DEF Inv, WorkersInv
    <2> QED BY <1>0, <2>2, <2>3 DEF WorkersInv
  <1>11. JobsInOrder'
    BY <1>1, <1>4, <1>5 DEF Inv, JobsInOrder
  <1> QED BY <1>7, <1>8, <1>9, <1>10, <1>11 DEF Inv

LEMMA NextInv == Inv /\ [Next]_vars => Inv'
  <1> SUFFICES ASSUME Inv, [Next]_vars PROVE Inv'
    OBVIOUS
  <1>1. ASSUME NEW j \in Jobs, Execute(j) PROVE Inv'
    BY <1>1, ExecuteIdleInv, ExecuteSpawnInv, ExecuteSpawnFailsInv, ExecuteQueueInv DEF Execute
  <1>2. ASSUME NEW w \in Workers, Run(w) \/ CompleteIdle(w) \/ CompleteNext(w) PROVE Inv'
    BY <1>2, RunInv, CompleteIdleInv, CompleteNextInv
  <1>3. CASE UNCHANGED vars
    BY <1>3 DEF vars, Inv, TypeOK, WorkersAccounted, JobHasOneOwner, WorkersInv, JobsInOrder
  <1> QED BY <1>1, <1>2, <1>3 DEF Next

(***************************************************************************)
(* Whatever cannot be posted, spawned or loaded, the pool keeps its cap    *)
(* and its accounts (execute, PoolState::complete).                        *)
(***************************************************************************)
THEOREM Invariance == Spec => []Inv
  BY InitInv, NextInv, PTL DEF Spec

(***************************************************************************)
(* Every spawned worker is idle, once, or busy: PoolState::push never      *)
(* fails its assertion and live_workers never passes the cap.              *)
(***************************************************************************)
THEOREM Accounted == Spec => []WorkersAccounted
  <1>1. Inv => WorkersAccounted
    BY DEF Inv
  <1> QED BY <1>1, Invariance, PTL

(***************************************************************************)
(* Every job is in the queue once or with one worker, so that its boxed    *)
(* closure is taken out of the raw pointer once.                           *)
(***************************************************************************)
THEOREM OneOwner == Spec => []JobHasOneOwner
  <1>1. Inv => JobHasOneOwner
    BY DEF Inv
  <1> QED BY <1>1, Invariance, PTL

(* A job that is lost stays lost: steps move new, waiting and posted jobs.   *)
LEMMA LossStays ==
  ASSUME Inv, [Next]_vars, NothingLost'
  PROVE  NothingLost
  <1> SUFFICES ASSUME NEW i \in Jobs, status[i] = "lost" PROVE status'[i] = "lost"
    BY DEF NothingLost
  <1>1. ASSUME NEW j \in Jobs, NEW s, Become(j, s), j # i PROVE status'[i] = "lost"
    BY <1>1 DEF Become, Inv, TypeOK
  <1>2. ASSUME NEW j \in Jobs, Execute(j) PROVE status'[i] = "lost"
    <2>1. j # i
      BY <1>2 DEF Execute, ExecuteIdle, ExecuteSpawn, ExecuteSpawnFails, ExecuteQueue, NextJob
    <2> QED BY <1>1, <1>2, <2>1 DEF Execute, ExecuteIdle, ExecuteSpawn, ExecuteSpawnFails,
                                    ExecuteQueue, Post, PostFails
  <1>3. ASSUME NEW w \in Workers, Run(w) PROVE status'[i] = "lost"
    <2>1. job[w] \in Jobs /\ job[w] # i
      BY <1>3 DEF Run, Inv, TypeOK, JobHasOneOwner
    <2> QED BY <1>1, <1>3, <2>1 DEF Run
  <1>4. ASSUME NEW w \in Workers, CompleteIdle(w) PROVE status'[i] = "lost"
    BY <1>4 DEF CompleteIdle
  <1>5. ASSUME NEW w \in Workers, CompleteNext(w) PROVE status'[i] = "lost"
    <2>1. pending # <<>>
      BY <1>5 DEF CompleteNext
    <2>2. Head(pending) \in Jobs /\ status[Head(pending)] = "pending"
      BY <2>1 DEF Inv, TypeOK, JobHasOneOwner
    <2> QED BY <1>1, <1>5, <2>2 DEF CompleteNext, Post
  <1>6. CASE UNCHANGED vars
    BY <1>6 DEF vars
  <1> QED BY <1>2, <1>3, <1>4, <1>5, <1>6 DEF Next

(* Before a job is lost the queue is the only place where a job waits and it *)
(* is empty unless every worker there may be is busy.                        *)
LEMMA NextOrder ==
  ASSUME Inv, NothingLost, NothingLost', WorkConserving, QueuedFifo, [Next]_vars
  PROVE  WorkConserving' /\ QueuedFifo'
  <1>1. ASSUME NEW j \in Jobs, Execute(j) PROVE WorkConserving' /\ QueuedFifo'
    <2>0. NextJob(j)
      BY <1>1 DEF Execute, ExecuteIdle, ExecuteSpawn, ExecuteSpawnFails, ExecuteQueue
    <2>1. CASE pending = <<>> /\ UNCHANGED pending
      <3>1. PICK s \in {"posted", "refused"} : Become(j, s)
        <4>1. ~ExecuteQueue(j)
          BY <2>1 DEF ExecuteQueue, Inv, TypeOK
        <4> QED BY <1>1, <4>1 DEF Execute, ExecuteIdle, ExecuteSpawn, ExecuteSpawnFails, Post, PostFails
      <3>2. \A i \in Jobs : status'[i] # "pending"
        BY <2>1, <3>1 DEF Become, Inv, TypeOK, JobHasOneOwner
      <3> QED BY <2>1, <3>2 DEF WorkConserving, QueuedFifo
    <2>2. CASE ExecuteQueue(j)
      <3>1. live = Cap
        BY <2>2, CapFacts DEF ExecuteQueue, BelowCap, Inv, TypeOK
      <3>2. status'[j] = "pending" /\ \A i \in Jobs : i # j => status'[i] = status[i]
        BY <2>2 DEF ExecuteQueue, Become, Inv, TypeOK
      <3>3. \A i \in Jobs : i > j => status[i] = "new"
        BY <2>0, Newest, PoolAssumption DEF Jobs
      <3>4. QueuedFifo'
        BY <3>2, <3>3 DEF QueuedFifo
      <3> QED BY <2>2, <3>1, <3>4 DEF WorkConserving, ExecuteQueue
    <2>3. pending # <<>> => ExecuteQueue(j)
      BY <1>1, CapFacts DEF Execute, ExecuteIdle, ExecuteSpawn, ExecuteSpawnFails, BelowCap,
                            WorkConserving, Inv, TypeOK
    <2>4. ~ExecuteQueue(j) => UNCHANGED pending
      BY <1>1 DEF Execute, ExecuteIdle, ExecuteSpawn, ExecuteSpawnFails
    <2> QED BY <2>1, <2>2, <2>3, <2>4
  <1>2. ASSUME NEW w \in Workers, Run(w) PROVE WorkConserving' /\ QueuedFifo'
    <2>1. job[w] \in Jobs /\ status[job[w]] = "posted"
      BY <1>2 DEF Run, Inv, TypeOK, JobHasOneOwner
    <2>2. PICK s \in {"done", "thrown"} : Become(job[w], s)
      BY <1>2 DEF Run
    <2>3. status'[job[w]] = s /\ \A i \in Jobs : i # job[w] => status'[i] = status[i]
      BY <2>1, <2>2 DEF Become, Inv, TypeOK
    <2> QED BY <1>2, <2>1, <2>3 DEF Run, WorkConserving, QueuedFifo
  <1>3. ASSUME NEW w \in Workers, CompleteIdle(w) PROVE WorkConserving' /\ QueuedFifo'
    BY <1>3 DEF CompleteIdle, WorkConserving, QueuedFifo
  <1>4. ASSUME NEW w \in Workers, CompleteNext(w) PROVE WorkConserving' /\ QueuedFifo'
    <2> DEFINE j == Head(pending)
    <2>1. pending # <<>> /\ j \in Jobs /\ \A i \in Jobs : status[i] = "pending" => j <= i
      BY <1>4, Dequeued DEF CompleteNext
    <2>4. ~Become(j, "lost")
      BY <2>1 DEF Become, NothingLost, Inv, TypeOK
    <2>0. pending' = Tail(pending) /\ Post(w, j) /\ UNCHANGED <<idle, live>>
      BY <1>4, <2>4 DEF CompleteNext
    <2>2. status'[j] = "posted" /\ \A i \in Jobs : i # j => status'[i] = status[i]
      BY <2>0, <2>1 DEF Post, Become, Inv, TypeOK
    <2>3. QueuedFifo'
      BY <2>1, <2>2, PoolAssumption DEF QueuedFifo, Jobs
    <2> QED BY <2>0, <2>1, <2>3 DEF WorkConserving
  <1>5. CASE UNCHANGED vars
    BY <1>5 DEF vars, WorkConserving, QueuedFifo
  <1> QED BY <1>1, <1>2, <1>3, <1>4, <1>5 DEF Next

(***************************************************************************)
(* Whatever fails, until a queued job is lost because it cannot be posted  *)
(* no job overtakes a queued one (the comment of WorkerPool::execute).     *)
(***************************************************************************)
THEOREM Fifo == Spec => []FifoUntilLoss
  <1>1. Init => WorkConserving /\ FifoUntilLoss
    BY DEF Init, WorkConserving, FifoUntilLoss, QueuedFifo
  <1>2. Inv /\ WorkConserving /\ FifoUntilLoss /\ [Next]_vars => (WorkConserving /\ FifoUntilLoss)'
    BY NextOrder, LossStays DEF FifoUntilLoss, WorkConserving
  <1> QED BY <1>1, <1>2, Invariance, PTL DEF Spec

(***************************************************************************)
(* Until then a job waits only while the pool has grown to its cap and     *)
(* none of its workers is idle (PoolState::complete looks at the queue).   *)
(***************************************************************************)
THEOREM Conserving == Spec => []WorkConserving
  <1>1. Init => WorkConserving /\ FifoUntilLoss
    BY DEF Init, WorkConserving, FifoUntilLoss, QueuedFifo
  <1>2. Inv /\ WorkConserving /\ FifoUntilLoss /\ [Next]_vars => (WorkConserving /\ FifoUntilLoss)'
    BY NextOrder, LossStays DEF FifoUntilLoss, WorkConserving
  <1> QED BY <1>1, <1>2, Invariance, PTL DEF Spec

(***************************************************************************)
(* Only a refused post breaks the promise of WorkerPool::execute: where    *)
(* post_message does not fail the queue is FIFO for ever and every worker  *)
(* is busy while a job waits, whatever else fails.                         *)
(***************************************************************************)
THEOREM FifoWhilePostsWork ==
  "post" \notin Faults => (Spec => [](QueuedFifo /\ (pending # <<>> => idle = <<>> /\ live = Cap)))
  <1> SUFFICES ASSUME "post" \notin Faults
               PROVE  Spec => [](QueuedFifo /\ (pending # <<>> => idle = <<>> /\ live = Cap))
    OBVIOUS
  <1>1. Init => NothingLost
    BY DEF Init, NothingLost
  <1>2. Inv /\ NothingLost /\ [Next]_vars => NothingLost'
    <2> SUFFICES ASSUME Inv, NothingLost, [Next]_vars PROVE NothingLost'
      OBVIOUS
    <2>1. ASSUME NEW j, NEW s, s # "lost", Become(j, s) PROVE NothingLost'
      BY <2>1 DEF Become, NothingLost, Inv, TypeOK
    <2>2. ASSUME NEW j \in Jobs, Execute(j) PROVE NothingLost'
      BY <2>1, <2>2 DEF Execute, ExecuteIdle, ExecuteSpawn, ExecuteSpawnFails, ExecuteQueue, Post, PostFails
    <2>3. ASSUME NEW w \in Workers, Run(w) PROVE NothingLost'
      BY <2>1, <2>3 DEF Run
    <2>4. ASSUME NEW w \in Workers, CompleteIdle(w) \/ CompleteNext(w) PROVE NothingLost'
      BY <2>1, <2>4 DEF CompleteIdle, CompleteNext, Post, NothingLost
    <2>5. CASE UNCHANGED vars
      BY <2>5 DEF vars, NothingLost
    <2> QED BY <2>2, <2>3, <2>4, <2>5 DEF Next
  <1>3. NothingLost /\ FifoUntilLoss /\ WorkConserving
          => QueuedFifo /\ (pending # <<>> => idle = <<>> /\ live = Cap)
    BY DEF FifoUntilLoss, WorkConserving
  <1> QED BY <1>1, <1>2, <1>3, Invariance, Fifo, Conserving, PTL DEF Spec

-----------------------------------------------------------------------------
(* The abstract specification                                              *)

PoolInv == Inv /\ WorkConserving
AbsStep == Abs!Next \/ UNCHANGED <<pending, job, status>>

(* Only the loss of a queued job changes whether something was lost. *)
LEMMA LossKept ==
  ASSUME Inv, NEW j \in Jobs, NEW s, Become(j, s), s # "lost", status[j] # "lost"
  PROVE  NothingLost' = NothingLost
  <1>1. \A i \in Jobs : status'[i] = "lost" <=> status[i] = "lost"
    BY DEF Become, Inv, TypeOK
  <1> QED BY <1>1 DEF NothingLost

LEMMA ExecuteStarts ==
  ASSUME PoolInv, NEW j \in Jobs, Execute(j) PROVE AbsStep
  <1>0. /\ status[j] = "new" /\ job \in [Workers -> Jobs \cup {NoJob}]
        /\ pending = <<>> \/ ~NothingLost \/ (idle = <<>> /\ live = Cap)
    BY DEF PoolInv, Inv, TypeOK, WorkConserving, Execute, ExecuteIdle, ExecuteSpawn,
           ExecuteSpawnFails, ExecuteQueue, NextJob
  <1>1. ASSUME Become(j, "refused"), UNCHANGED <<pending, job>> PROVE Abs!Next
    <2>1. NothingLost' = NothingLost
      BY <1>0, <1>1, LossKept DEF PoolInv
    <2> QED BY <1>0, <1>1, <2>1 DEF Abs!Next, Abs!Refuse, Abs!Become, Become
  <1>2. ASSUME NEW w \in Workers, job[w] = NoJob, Post(w, j), UNCHANGED pending,
               pending = <<>> \/ ~NothingLost
        PROVE  Abs!Next
    <2>1. NothingLost' = NothingLost
      BY <1>0, <1>2, LossKept DEF PoolInv, Post
    <2>2. Abs!StartNew(j, w)
      BY <1>0, <1>2, <2>1 DEF Abs!StartNew, Abs!Become, Abs!Occupy, Abs!NoJob, NoJob, Post, Become
    <2> QED BY <2>2 DEF Abs!Next
  <1>3. CASE ExecuteIdle(j)
    <2> DEFINE w == idle[Len(idle)]
    <2>1. Len(idle) \in DOMAIN idle /\ w \in Workers
      BY <1>3, Popped DEF ExecuteIdle, PoolInv, Inv, TypeOK
    <2>2. w <= live /\ job[w] = NoJob
      BY <2>1 DEF PoolInv, Inv, WorkersAccounted
    <2>3. Post(w, j) \/ (Become(j, "refused") /\ UNCHANGED job)
      BY <1>3 DEF ExecuteIdle, PostFails
    <2> QED BY <1>0, <1>1, <1>2, <1>3, <2>1, <2>2, <2>3 DEF ExecuteIdle, AbsStep
  <1>4. CASE ExecuteSpawn(j)
    <2> DEFINE w == live + 1
    <2>1. w \in Workers /\ w > live /\ live # Cap
      BY <1>4, CapFacts DEF ExecuteSpawn, BelowCap, Workers, PoolInv, Inv, TypeOK
    <2>2. job[w] = NoJob
      BY <2>1 DEF PoolInv, Inv, WorkersInv
    <2>3. Post(w, j) \/ (Become(j, "refused") /\ UNCHANGED job)
      BY <1>4 DEF ExecuteSpawn, PostFails
    <2> QED BY <1>0, <1>1, <1>2, <1>4, <2>1, <2>2, <2>3 DEF ExecuteSpawn, AbsStep
  <1>5. CASE ExecuteSpawnFails(j)
    BY <1>1, <1>5 DEF ExecuteSpawnFails, AbsStep
  <1>6. CASE ExecuteQueue(j)
    <2>1. \A w \in Workers : job[w] # NoJob
      <3>1. live = Cap /\ idle = <<>>
        BY <1>6, CapFacts DEF ExecuteQueue, BelowCap, PoolInv, Inv, TypeOK
      <3> QED BY <3>1, CapFacts DEF Workers, PoolInv, Inv, WorkersAccounted
    <2>2. NothingLost' = NothingLost
      BY <1>0, <1>6, LossKept DEF PoolInv, ExecuteQueue
    <2>3. Abs!Queue(j)
      BY <1>0, <1>6, <2>1, <2>2 DEF Abs!Queue, Abs!Become, Abs!NoJob, NoJob, ExecuteQueue, Become
    <2> QED BY <2>3 DEF Abs!Next, AbsStep
  <1> QED BY <1>3, <1>4, <1>5, <1>6 DEF Execute

LEMMA RunEnds ==
  ASSUME Inv, NEW w \in Workers, Run(w) PROVE AbsStep
  <1>1. job[w] \in Jobs /\ status[job[w]] = "posted"
    BY DEF Run, Inv, TypeOK, JobHasOneOwner
  <1>2. PICK s \in {"done", "thrown"} : Become(job[w], s)
    BY DEF Run
  <1>3. NothingLost' = NothingLost
    BY <1>1, <1>2, LossKept
  <1>4. Abs!End(w)
    BY <1>1, <1>2, <1>3 DEF Abs!End, Abs!Become, Abs!NoJob, NoJob, Run, Become
  <1> QED BY <1>4 DEF Abs!Next, AbsStep

LEMMA CompleteFrees ==
  ASSUME Inv, NEW w \in Workers, CompleteIdle(w) \/ CompleteNext(w) PROVE AbsStep
  <1>1. Abs!Over(w)
    BY DEF Abs!Over, Abs!NoJob, NoJob, CompleteIdle, CompleteNext, Inv, WorkersAccounted, WorkersInv
  <1>2. CASE CompleteIdle(w)
    <2>1. NothingLost' = NothingLost
      BY <1>2 DEF CompleteIdle, NothingLost
    <2>2. Abs!Free(w)
      BY <1>1, <1>2, <2>1 DEF Abs!Free, Abs!Occupy, Abs!NoJob, NoJob, CompleteIdle
    <2> QED BY <2>2 DEF Abs!Next, AbsStep
  <1>3. CASE CompleteNext(w)
    <2> DEFINE j == Head(pending)
    <2>1. pending # <<>> /\ pending' = Tail(pending)
      BY <1>3 DEF CompleteNext
    <2>2. j \in Jobs /\ status[j] = "pending"
      BY <2>1, Tailed DEF Inv, TypeOK, JobHasOneOwner
    <2>3. CASE Post(w, j)
      <3>1. NothingLost' = NothingLost
        BY <2>2, <2>3, LossKept DEF Post
      <3>2. Abs!StartNext(w)
        BY <1>1, <2>1, <2>3, <3>1 DEF Abs!StartNext, Abs!Occupy, Abs!Become, Post, Become
      <3> QED BY <3>2 DEF Abs!Next, AbsStep
    <2>4. CASE job' = [job EXCEPT ![w] = NoJob] /\ Become(j, "lost")
      <3>1. status'[j] = "lost"
        BY <2>2, <2>4 DEF Become, Inv, TypeOK
      <3>2. ~NothingLost'
        BY <2>2, <3>1 DEF NothingLost
      <3>3. Abs!Lose(w)
        BY <1>1, <2>1, <2>4, <3>2 DEF Abs!Lose, Abs!Occupy, Abs!Become, Abs!NoJob, NoJob, Become
      <3> QED BY <3>3 DEF Abs!Next, AbsStep
    <2> QED BY <1>3, <2>3, <2>4 DEF CompleteNext
  <1> QED BY <1>2, <1>3

(***************************************************************************)
(* The pool does what its doc comments promise (FIFO, hard cap, one start  *)
(* for each job), for every cap, every number of jobs and every failure.   *)
(***************************************************************************)
THEOREM Refinement == Spec => ImplementsJobPool
  <1>1. Init => Abs!Init
    <2> SUFFICES ASSUME Init PROVE Abs!Init
      OBVIOUS
    <2>1. NothingLost
      BY DEF Init, NothingLost
    <2> QED BY <2>1 DEF Init, Abs!Init, Abs!NoJob, NoJob
  <1>2. PoolInv /\ [Next]_vars => [Abs!Next]_(Abs!poolVars)
    <2> SUFFICES ASSUME PoolInv, [Next]_vars PROVE AbsStep
      BY DEF AbsStep, Abs!poolVars, NothingLost
    <2>1. CASE UNCHANGED vars
      BY <2>1 DEF vars, AbsStep
    <2> QED BY <2>1, ExecuteStarts, RunEnds, CompleteFrees DEF Next, PoolInv
  <1> QED BY <1>1, <1>2, Invariance, Conserving, PTL
             DEF Spec, PoolInv, ImplementsJobPool, Abs!Spec
=============================================================================
