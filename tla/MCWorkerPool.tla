---------------------------- MODULE MCWorkerPool -----------------------------
(* Instances of WorkerPool for TLC. *)
EXTENDS WorkerPool

NoFaults == {}
AllFaults == {"post", "spawn", "init"}
PostFault == {"post"}
=============================================================================
