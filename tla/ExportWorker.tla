---------------------------- MODULE ExportWorker ----------------------------
(***************************************************************************)
(* The export-PDF worker process: the in-memory job registry, the bounded  *)
(* FIFO queue, the single queue consumer, the HTTP handlers, the prune     *)
(* loop, the graceful shutdown and the loss of the process.                *)
(*                                                                         *)
(* Everything runs on one asyncio event loop, so a step of this module is  *)
(* what one task does between two suspensions.  The consumer does not      *)
(* suspend between the end of a job and its next Queue.get() on an empty   *)
(* queue; while it is in that stretch ("looping") no handler can run.      *)
(*                                                                         *)
(* run_job is seen at the granularity of its suspensions and of its        *)
(* checks of job.cancel_requested; what it computes is abstracted.         *)
(***************************************************************************)
EXTENDS Integers, Sequences

CONSTANTS
  Jobs,            \* the worker_job_ids uuid4 may draw
  NoJob,           \* run_job is not active
  QueueMax,        \* settings.queue_max; 0 or less is no limit
  MaxSpreads,      \* bound on the number of spreads of a request
  CleanupMayRaise  \* may the clean-up of a cancelled await raise on its own?

ASSUME NoJobAssumption == NoJob \notin Jobs
ASSUME QueueMaxAssumption == QueueMax \in Int
ASSUME MaxSpreadsAssumption == MaxSpreads \in Nat \ {0}
ASSUME CleanupAssumption == CleanupMayRaise \in BOOLEAN

VARIABLES
  server,            \* the lifespan: "up", "draining", "aborting" or "down"
  status,            \* job.status; "none" before submit, "gone" out of _JOBS
  cancel_requested,  \* job.cancel_requested
  queue,             \* _QUEUE
  consumer,          \* "waiting" in get(), "looping", "running" a job, "dead"
  current,           \* the job of the active run_job
  phase,             \* where run_job is suspended
  left,              \* spreads of the request whose capture has not started
  timer,             \* the wall clock of the run: "set", or "fired" for good
  cancelling,        \* CancelledError on its way: "no", "timeout", "shutdown"
  ahead              \* history: ahead[j] is the set of jobs accepted before j

runVars == <<current, phase, left, timer>>
vars == <<server, status, cancel_requested, queue, consumer, current, phase,
          left, timer, cancelling, ahead>>

NONE      == "none"
QUEUED    == "queued"
RUNNING   == "running"
COMPLETED == "completed"
FAILED    == "failed"
CANCELLED == "cancelled"
GONE      == "gone"
TERMINAL  == {COMPLETED, FAILED, CANCELLED}

Phases == {"idle", "render", "color", "merge", "upload"}

-----------------------------------------------------------------------------
(* _finalize: the first terminal status stays.                             *)
Finalized(j, s) == [status EXCEPT ![j] = IF @ \in TERMINAL THEN @ ELSE s]

\* _JOBS is the process's memory: when the process is lost, so is every job.
Lost == [j \in Jobs |-> IF status[j] = NONE THEN NONE ELSE GONE]

\* running_count() > 0
SomeRunning == \E j \in Jobs : status[j] = RUNNING

\* A callback of another task can run: the consumer is suspended (or gone).
LoopFree == consumer # "looping"

-----------------------------------------------------------------------------
Init ==
  /\ server = "up"
  /\ status = [j \in Jobs |-> NONE]
  /\ cancel_requested = [j \in Jobs |-> FALSE]
  /\ queue = <<>>
  /\ consumer = "waiting"
  /\ current = NoJob
  /\ phase = "idle"
  /\ left = 0
  /\ timer = "set"
  /\ cancelling = "no"
  /\ ahead = [j \in Jobs |-> {}]

-----------------------------------------------------------------------------
(* HTTP handlers (polls read the state and change nothing).  uvicorn runs  *)
(* the lifespan's shutdown only after the last request is answered, so     *)
(* there are requests only while the server is up.                         *)

HasRoomOffByOne == QueueMax <= 0 \/ Len(queue) <= QueueMax      \* mutant

\* put_nowait() finds room for one more entry: asyncio takes a maxsize that is
\* not positive for no limit.
HasRoom == QueueMax <= 0 \/ Len(queue) < QueueMax

Registered(j) ==
  /\ status' = [status EXCEPT ![j] = QUEUED]
  /\ ahead'  = [ahead EXCEPT ![j] = {k \in Jobs : status[k] # NONE}]

EnqueueInFront(j) == queue' = <<j>> \o queue /\ Registered(j)   \* mutant

Enqueue(j) == queue' = Append(queue, j) /\ Registered(j)

SubmitRegistersFirst(j) ==                                      \* mutant
  /\ server = "up" /\ LoopFree
  /\ status[j] = NONE
  /\ Registered(j)
  /\ queue' = IF HasRoom THEN Append(queue, j) ELSE queue
  /\ UNCHANGED <<server, cancel_requested, consumer, runVars, cancelling>>

\* POST /export-pdf.  A full queue is answered 503 and registers nothing.
Submit(j) ==
  /\ server = "up" /\ LoopFree
  /\ status[j] = NONE
  /\ IF HasRoom THEN Enqueue(j) ELSE UNCHANGED <<queue, status, ahead>>
  /\ UNCHANGED <<server, cancel_requested, consumer, runVars, cancelling>>

CancelOnlyFlags(j) ==                                           \* mutant
  /\ server = "up" /\ LoopFree
  /\ status[j] \in {QUEUED, RUNNING}
  /\ cancel_requested' = [cancel_requested EXCEPT ![j] = TRUE]
  /\ UNCHANGED <<server, status, queue, consumer, runVars, cancelling, ahead>>

\* POST /jobs/{id}/cancel.  Unknown and terminal jobs are left as they are.
Cancel(j) ==
  /\ server = "up" /\ LoopFree
  /\ status[j] \in {QUEUED, RUNNING}
  /\ cancel_requested' = [cancel_requested EXCEPT ![j] = TRUE]
  /\ status' = IF status[j] = QUEUED THEN Finalized(j, CANCELLED) ELSE status
  /\ UNCHANGED <<server, queue, consumer, runVars, cancelling, ahead>>

-----------------------------------------------------------------------------
(* The consumer loop.                                                      *)

StartRun(j) ==
  /\ status' = [status EXCEPT ![j] = RUNNING]
  /\ consumer' = "running"
  /\ current' = j
  /\ phase' = "render"
  /\ \E n \in 1..MaxSpreads : left' = n - 1
  /\ UNCHANGED <<cancel_requested, timer>>

\* The job of the entry is terminal, or pruned.
Stale(j) == status[j] = GONE \/ status[j] \in TERMINAL

ServeRunsCancelled(j) ==                                        \* mutant
  IF status[j] = GONE
    THEN consumer' = "looping" /\ UNCHANGED <<status, cancel_requested, runVars>>
    ELSE StartRun(j)

ServeStopsAtStale(j) ==                                         \* mutant
  IF Stale(j)
    THEN consumer' = "dead" /\ UNCHANGED <<status, cancel_requested, runVars>>
    ELSE StartRun(j)

\* Skip the entry, finalize its job if a cancel is pending, or run it.
Serve(j) ==
  IF Stale(j)
    THEN consumer' = "looping" /\ UNCHANGED <<status, cancel_requested, runVars>>
    ELSE IF cancel_requested[j]
      THEN /\ status' = Finalized(j, CANCELLED)
           /\ consumer' = "looping"
           /\ UNCHANGED <<cancel_requested, runVars>>
      ELSE StartRun(j)

\* get() returns an id.  All that follows, down to the suspension in the first
\* capture, is one stretch of the consumer task.
Dequeue ==
  /\ consumer \in {"waiting", "looping"}
  /\ cancelling = "no"
  /\ queue # <<>>
  /\ queue' = Tail(queue)
  /\ Serve(Head(queue))
  /\ UNCHANGED <<server, cancelling, ahead>>

\* get() finds the queue empty and suspends.
AwaitQueue ==
  /\ consumer = "looping" /\ queue = <<>>
  /\ consumer' = "waiting"
  /\ UNCHANGED <<server, status, cancel_requested, queue, runVars,
                 cancelling, ahead>>

-----------------------------------------------------------------------------
(* run_job, resumed after one of its awaits.                               *)

Resumed(p) == consumer = "running" /\ cancelling = "no" /\ phase = p

NotRunning ==
  current' = NoJob /\ phase' = "idle" /\ left' = 0 /\ timer' = "set"

EndRunForgetsFailures(s) ==                                     \* mutant
  /\ status' = IF s = FAILED THEN status ELSE Finalized(current, s)
  /\ consumer' = "looping" /\ NotRunning

EndRunFailureStopsLoop(s) ==                                    \* mutant
  /\ status' = Finalized(current, s)
  /\ consumer' = IF s = FAILED THEN "dead" ELSE "looping"
  /\ NotRunning

\* run_job is over (or was abandoned): the job is finalized, the loop goes on.
EndRun(s) ==
  /\ status' = Finalized(current, s)
  /\ consumer' = "looping" /\ NotRunning

BoundaryUnchecked(nextPhase, nextLeft) ==                       \* mutant
  /\ phase' = nextPhase /\ left' = nextLeft
  /\ UNCHANGED <<status, consumer, current, timer>>

\* The check of job.cancel_requested that precedes the next piece of work.
Boundary(nextPhase, nextLeft) ==
  IF cancel_requested[current]
    THEN EndRun(CANCELLED)
    ELSE /\ phase' = nextPhase /\ left' = nextLeft
         /\ UNCHANGED <<status, consumer, current, timer>>

\* A spread was captured, or its failure recorded, and there is another one.
NextSpread ==
  /\ Resumed("render") /\ left > 0
  /\ Boundary("render", left - 1)
  /\ UNCHANGED <<server, cancel_requested, queue, cancelling, ahead>>

\* It was the last one, and some spread gave a page.
SpreadsDone ==
  /\ Resumed("render") /\ left = 0
  /\ Boundary("color", 0)
  /\ UNCHANGED <<server, cancel_requested, queue, cancelling, ahead>>

ColorDone ==
  /\ Resumed("color")
  /\ Boundary("merge", 0)
  /\ UNCHANGED <<server, cancel_requested, queue, cancelling, ahead>>

MergeDone ==
  /\ Resumed("merge")
  /\ Boundary("upload", 0)
  /\ UNCHANGED <<server, cancel_requested, queue, cancelling, ahead>>

UploadDone ==
  /\ Resumed("upload")
  /\ EndRun(COMPLETED)
  /\ UNCHANGED <<server, cancel_requested, queue, cancelling, ahead>>

\* No spread rendered, ICC / conversion / merge / upload error, or an
\* exception that escapes run_job: the flag is not looked at on these paths.
RunFails ==
  /\ consumer = "running" /\ cancelling = "no"
  /\ EndRun(FAILED)
  /\ UNCHANGED <<server, cancel_requested, queue, cancelling, ahead>>

-----------------------------------------------------------------------------
(* Cancellation of the consumer's await: the wall clock of wait_for, or    *)
(* the shutdown.  The awaited call may have had its effect already.        *)

TimeoutOfCaptures ==                                            \* mutant
  /\ consumer = "running" /\ cancelling = "no" /\ phase = "render"
  /\ timer = "set" /\ timer' = "fired" /\ cancelling' = "timeout"
  /\ UNCHANGED <<server, status, cancel_requested, queue, consumer, current,
                 phase, left, ahead>>

Timeout ==
  /\ consumer = "running" /\ cancelling = "no"
  /\ timer = "set" /\ timer' = "fired" /\ cancelling' = "timeout"
  /\ UNCHANGED <<server, status, cancel_requested, queue, consumer, current,
                 phase, left, ahead>>

AbortSwallowed == EndRun(CANCELLED)                             \* mutant

\* The shutdown's CancelledError: finalize, re-raise, and the task ends.
Abort ==
  /\ status' = Finalized(current, CANCELLED)
  /\ consumer' = "dead" /\ NotRunning

\* CancelledError has unwound run_job: wait_for turns its own into
\* TimeoutError; one of the shutdown ends the consumer, in get() as well.
Unwound ==
  /\ \/ /\ consumer = "running" /\ cancelling = "timeout"
        /\ EndRun(FAILED)
     \/ /\ consumer = "running" /\ cancelling = "shutdown"
        /\ Abort
     \/ /\ consumer = "waiting" /\ cancelling = "shutdown"
        /\ consumer' = "dead"
        /\ UNCHANGED <<status, runVars>>
  /\ cancelling' = "no"
  /\ UNCHANGED <<server, cancel_requested, queue, ahead>>

\* A clean-up on the way out (browser.close() in a finally, the close of an HTTP
\* client) raises, and its exception replaces CancelledError.  It ends the job,
\* in run_job or by "except Exception" of the loop, which goes on; or put_object
\* takes it for the transport error of its first attempt and retries.  What runs
\* in a thread is not awaited on the way out.
UnwindRaises ==
  /\ CleanupMayRaise
  /\ consumer = "running" /\ cancelling # "no"
  /\ phase \in {"render", "color", "upload"}
  /\ \/ EndRun(FAILED)
     \/ phase = "upload" /\ UNCHANGED <<status, consumer, runVars>>
  /\ cancelling' = "no"
  /\ UNCHANGED <<server, cancel_requested, queue, ahead>>

-----------------------------------------------------------------------------
(* The prune loop drops the jobs whose retention is over: any set of       *)
(* finished ones, as no property depends on when a job was finalized.      *)

PruneByAge(S) ==                                                \* mutant
  /\ server \in {"up", "draining"} /\ LoopFree
  /\ \A j \in S : status[j] # NONE
  /\ status' = [j \in Jobs |-> IF j \in S THEN GONE ELSE status[j]]
  /\ cancel_requested' = [j \in Jobs |-> cancel_requested[j] /\ j \notin S]
  /\ UNCHANGED <<server, queue, consumer, runVars, cancelling, ahead>>

Prune(S) ==
  /\ server \in {"up", "draining"} /\ LoopFree
  /\ \A j \in S : status[j] \in TERMINAL
  /\ status' = [j \in Jobs |-> IF j \in S THEN GONE ELSE status[j]]
  /\ cancel_requested' = [j \in Jobs |-> cancel_requested[j] /\ j \notin S]
  /\ UNCHANGED <<server, queue, consumer, runVars, cancelling, ahead>>

-----------------------------------------------------------------------------
(* stop(): flag the running jobs, wait for them, then cancel the tasks.    *)

CancelTasks ==
  /\ server' = "aborting"
  /\ cancelling' = "shutdown"

StopBegin ==
  /\ server = "up" /\ LoopFree
  /\ cancel_requested' =
       [j \in Jobs |-> cancel_requested[j] \/ status[j] = RUNNING]
  /\ IF SomeRunning
       THEN server' = "draining" /\ UNCHANGED cancelling
       ELSE CancelTasks
  /\ UNCHANGED <<status, queue, consumer, runVars, ahead>>

\* The wait is over: nothing runs any more ...
Drained ==
  /\ server = "draining" /\ LoopFree
  /\ ~SomeRunning
  /\ CancelTasks
  /\ UNCHANGED <<status, cancel_requested, queue, consumer, runVars, ahead>>

\* ... or shutdown_timeout_sec has passed.
DrainDeadline ==
  /\ server = "draining" /\ LoopFree
  /\ SomeRunning
  /\ CancelTasks
  /\ UNCHANGED <<status, cancel_requested, queue, consumer, runVars, ahead>>

ProcessLost ==
  /\ server' = "down"
  /\ status' = Lost
  /\ cancel_requested' = [j \in Jobs |-> FALSE]
  /\ queue' = <<>>
  /\ consumer' = "dead" /\ NotRunning
  /\ cancelling' = "no"
  /\ UNCHANGED ahead

\* gather() returns once the consumer task is done; the process exits.
Exit ==
  /\ server = "aborting" /\ consumer = "dead"
  /\ ProcessLost

-----------------------------------------------------------------------------
(* The environment: the process is killed, and started again.              *)

Kill ==
  /\ server # "down"
  /\ ProcessLost

Restart ==
  /\ server = "down"
  /\ server' = "up"
  /\ consumer' = "waiting"
  /\ UNCHANGED <<status, cancel_requested, queue, runVars, cancelling, ahead>>

-----------------------------------------------------------------------------
Handlers == \E j \in Jobs : Submit(j) \/ Cancel(j)
RunJob   == NextSpread \/ SpreadsDone \/ ColorDone \/ MergeDone \/ UploadDone
            \/ RunFails
Consumer == Dequeue \/ AwaitQueue \/ Unwound \/ UnwindRaises
Stop     == Drained \/ DrainDeadline \/ Exit

Next ==
  \/ Handlers
  \/ Consumer
  \/ RunJob
  \/ Timeout
  \/ \E S \in SUBSET Jobs : Prune(S)
  \/ StopBegin
  \/ Stop
  \/ Kill
  \/ Restart

Spec == Init /\ [][Next]_vars

(***************************************************************************)
(* Fairness.  The event loop runs every callback that is ready: the        *)
(* consumer's own steps, the poll of stop(), the delivery of a             *)
(* cancellation.  Wall-clock time passes: the timer of wait_for and the    *)
(* deadline of stop() fire.  Nothing is assumed of the renderer, the       *)
(* converter or the storage service: RunJob is not fair.                   *)
(***************************************************************************)
Fairness ==
  /\ WF_vars(Dequeue \/ AwaitQueue)
  /\ WF_vars(Unwound \/ UnwindRaises)
  /\ WF_vars(Timeout)
  /\ WF_vars(Stop)

LiveSpec == Spec /\ Fairness

-----------------------------------------------------------------------------
(* Invariants.                                                             *)

InQueue(j) == \E i \in DOMAIN queue : queue[i] = j

\* Type invariant, with the bound of the queue (settings.queue_max).
TypeOK ==
  /\ server \in {"up", "draining", "aborting", "down"}
  /\ status \in [Jobs -> {NONE, QUEUED, RUNNING, GONE} \cup TERMINAL]
  /\ cancel_requested \in [Jobs -> BOOLEAN]
  /\ queue \in Seq(Jobs) /\ (QueueMax > 0 => Len(queue) <= QueueMax)
  /\ consumer \in {"waiting", "looping", "running", "dead"}
  /\ current \in Jobs \cup {NoJob}
  /\ phase \in Phases
  /\ left \in 0..(MaxSpreads - 1)
  /\ timer \in {"set", "fired"}
  /\ cancelling \in {"no", "timeout", "shutdown"}
  /\ ahead \in [Jobs -> SUBSET Jobs]

\* No accepted job is lost and none is served twice: a job shown as "queued"
\* has exactly one entry in the queue, and no job ever has two, whatever
\* cancels, prunes and refusals happened while it waited.
QueueAccounts ==
  /\ \A j \in Jobs : status[j] = QUEUED => InQueue(j)
  /\ \A i, k \in DOMAIN queue : queue[i] = queue[k] => i = k

\* There is no zombie: a job shown as "running" is the one whose run_job the
\* consumer is awaiting, so some code path is left that will finalize it;
\* hence also at most one job (one Chromium) runs at a time.
RunningHasOwner ==
  \A j \in Jobs : status[j] = RUNNING <=> consumer = "running" /\ current = j

\* A cancel of a waiting job is final at once: no waiting job carries the
\* flag, so the next poll shows "cancelled" (and the consumer's own check of
\* the flag before it runs a job has nothing to find).
NoFlaggedJobWaits == \A j \in Jobs : status[j] = QUEUED => ~cancel_requested[j]

\* First in, first out across cancels and skipped entries: while a job runs,
\* no job that was accepted before it is still waiting.
NoOvertaking ==
  \A j \in Jobs : status[j] = RUNNING => \A k \in ahead[j] : status[k] # QUEUED

\* What stop() promises: while it drains, every running job has been told to
\* cancel at its next boundary.
DrainSignalsRunningJobs ==
  server = "draining" =>
    \A j \in Jobs : status[j] = RUNNING => cancel_requested[j]

-----------------------------------------------------------------------------
(* Action properties.                                                      *)

\* A job lives once: it is not run again after it ended, not even by the
\* consumer reaching the stale entry of a cancelled job; its end is not taken
\* back by a timeout or the shutdown; and while it waits or runs it is
\* forgotten only with the whole process, never by the prune loop.
JobsLiveOnce ==
  [][\A j \in Jobs : status'[j] # status[j] =>
       \/ status[j] = NONE /\ status'[j] = QUEUED
       \/ status[j] = QUEUED /\ status'[j] \in {RUNNING, CANCELLED}
       \/ status[j] = RUNNING /\ status'[j] \in TERMINAL
       \/ status'[j] = GONE /\ (status[j] \in TERMINAL \/ server' = "down")]_vars

\* Once a cancel was requested, run_job starts no further piece of work for
\* the job: no other spread, no conversion, no merge, no upload.  The request
\* stands until the job has ended, so that a job which was cancelled before its
\* upload is never completed.
NoWorkAfterCancel ==
  [][\A j \in Jobs : status[j] = RUNNING /\ cancel_requested[j] =>
       /\ status'[j] = RUNNING =>
            phase' = phase /\ left' = left /\ cancel_requested'[j]
       /\ status'[j] = COMPLETED => phase = "upload"]_vars

-----------------------------------------------------------------------------
(* Liveness, under LiveSpec.                                               *)

\* Every accepted job leaves the queue, even if nothing it waits for ever
\* answers: each job ahead of it ends at the latest by its timeout.
AcceptedJobsAreServed == \A j \in Jobs : status[j] = QUEUED ~> status[j] # QUEUED

\* Every run ends, even if the renderer or the storage service never answers.
RunsEnd == \A j \in Jobs : status[j] = RUNNING ~> status[j] # RUNNING

\* QUEUE_FULL is a passing condition, even when all the entries are stale.
FullQueueDrains == Len(queue) = QueueMax ~> Len(queue) < QueueMax

\* A shutdown that has begun ends with the process gone.
ShutdownCompletes == server \in {"draining", "aborting"} ~> server = "down"

-----------------------------------------------------------------------------
(* The worker implements the contract it has with the orchestrator.        *)
Contract == INSTANCE ExportJobContract

ImplementsContract == Contract!Spec

=============================================================================
