-------------------------- MODULE ExportJobContract --------------------------
(***************************************************************************)
(* What the export-PDF worker promises the orchestrator about its jobs,    *)
(* whatever happens inside: the life of a job as a poll of                 *)
(* GET /jobs/{worker_job_id} shows it.  "none" is an id no submit has      *)
(* returned yet, "gone" an id the worker has forgotten (it answers 404).   *)
(*                                                                         *)
(* There is no queue, no consumer, no lifespan here: jobs are accepted,    *)
(* served one at a time and in the order of acceptance, finish once, and   *)
(* are forgotten only when they are finished or when the process is lost.  *)
(***************************************************************************)

CONSTANT Jobs           \* the worker_job_ids uuid4 may draw

VARIABLES status,       \* what a poll of the job shows
          ahead         \* ahead[j]: the jobs accepted before j

vars == <<status, ahead>>

TERMINAL == {"completed", "failed", "cancelled"}

Init ==
  /\ status = [j \in Jobs |-> "none"]
  /\ ahead  = [j \in Jobs |-> {}]

Accept(j) ==
  /\ status[j] = "none"
  /\ status' = [status EXCEPT ![j] = "queued"]
  /\ ahead'  = [ahead EXCEPT ![j] = {k \in Jobs : status[k] # "none"}]

\* Jobs start one at a time, and no job overtakes one accepted before it.
Start(j) ==
  /\ status[j] = "queued"
  /\ \A k \in Jobs : status[k] # "running"
  /\ \A k \in ahead[j] : status[k] # "queued"
  /\ status' = [status EXCEPT ![j] = "running"]
  /\ UNCHANGED ahead

\* A job may be withdrawn before it starts.
Withdraw(j) ==
  /\ status[j] = "queued"
  /\ status' = [status EXCEPT ![j] = "cancelled"]
  /\ UNCHANGED ahead

Finish(j, outcome) ==
  /\ status[j] = "running"
  /\ status' = [status EXCEPT ![j] = outcome]
  /\ UNCHANGED ahead

\* Retention: only finished jobs are dropped from memory.
Forget(S) ==
  /\ \A j \in S : status[j] \in TERMINAL
  /\ status' = [j \in Jobs |-> IF j \in S THEN "gone" ELSE status[j]]
  /\ UNCHANGED ahead

\* The process exits or is killed: its memory is all there was.
LoseAll ==
  /\ status' = [j \in Jobs |-> IF status[j] = "none" THEN "none" ELSE "gone"]
  /\ UNCHANGED ahead

Next ==
  \/ \E j \in Jobs : Accept(j) \/ Start(j) \/ Withdraw(j)
  \/ \E j \in Jobs, outcome \in TERMINAL : Finish(j, outcome)
  \/ \E S \in SUBSET Jobs : Forget(S)
  \/ LoseAll

Spec == Init /\ [][Next]_vars

=============================================================================
