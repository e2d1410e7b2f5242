------------------------- MODULE PipelineRefinements -------------------------
(***************************************************************************)
(* run_job, in full, implements the run of a job as ExportWorker sees it,  *)
(* and its upload is one of PutContract.                                   *)
(***************************************************************************)
EXTENDS PipelineProofs

-----------------------------------------------------------------------------
(* The upload of run_job is an upload of PutContract.                      *)

\* What run_job knows of its upload.
Outcome == IF put = "none" THEN "none" ELSE
           IF at = "upload" THEN "pending" ELSE
           IF status = "completed" THEN "url" ELSE "error"

PutSteps ==
  \/ UNCHANGED put /\ Outcome' = Outcome
  \/ put = "none" /\ put' = "sent" /\ Outcome' = "pending"
  \/ put = "sent" /\ put' = "stored" /\ Outcome' = Outcome /\ Outcome # "url"
  \/ put = "stored" /\ UNCHANGED put /\ Outcome = "pending" /\ Outcome' = "url"
  \/ UNCHANGED put /\ Outcome = "pending" /\ Outcome' = "error"

LEMMA StepsArePutSteps ==
  ASSUME IInv, [Next]_vars
  PROVE  PutSteps
<1> USE DEF IInv, PutSteps, Outcome
<1>1. /\ Active => status = "running"
      /\ at \in {"new", "queued", "capture", "crop", "icc", "convert", "merge", "assemble"}
           => put = "none"
      /\ at = "upload" => put # "none"
      /\ status = "completed" => put = "stored"
  BY DEF Control, Places, Untouched, StagesByPlace, Endings, Delivered
<1>2. CASE Submit \/ Cancel \/ SkipStale \/ Start
  <2>1. UNCHANGED put
    BY <1>2 DEF Submit, Cancel, SkipStale, Start, object
  <2>2. put = "none" \/ (UNCHANGED at /\ (status' = "completed" <=> status = "completed"))
    <3>1. CASE Submit \/ Start
      BY <1>1, <3>1 DEF Submit, Start
    <3>2. CASE SkipStale
      BY <1>1, <3>2 DEF SkipStale
    <3>3. CASE Cancel
      BY <3>3 DEF Cancel, Finalize, TERMINAL
    <3> QED BY <1>2, <3>1, <3>2, <3>3
  <2> QED BY <2>1, <2>2
<1>3. CASE Captured \/ CaptureFails \/ Cropped
  <2>1. put = "none" /\ UNCHANGED put
    BY <1>1, <1>3 DEF Captured, CaptureFails, Cropped, SpreadEnds, Resumed, object
  <2> QED BY <2>1
<1>4. CASE CustomerIcc \/ Converted \/ ConvertFails \/ MergeFails
  <2>1. put = "none" /\ UNCHANGED put
    BY <1>1, <1>4 DEF CustomerIcc, Converted, ConvertFails, MergeFails, Resumed, object
  <2> QED BY <2>1
<1>5. CASE Merged \/ Assembled
  <2>1. put = "none" /\ (UNCHANGED put \/ (put' = "sent" /\ at' = "upload"))
    BY <1>1, <1>5 DEF Merged, Assembled, MergeOver, Crash, Resumed, Goto
  <2> QED BY <2>1
<1>6. CASE UploadDone \/ UploadFails
  <2>1. at = "upload" /\ status = "running" /\ put # "none" /\ UNCHANGED put
    BY <1>1, <1>6 DEF UploadDone, UploadFails, Resumed, Active, object
  <2>2. CASE UploadDone
    BY <2>1, <2>2, EndMeans DEF UploadDone
  <2>3. CASE UploadFails
    BY <2>1, <2>3, EndMeans DEF UploadFails, UploadRefused
  <2> QED BY <1>6, <2>2, <2>3
<1>7. CASE StorageStores
  BY <1>1, <1>7 DEF StorageStores
<1>8. CASE Raises \/ Unwound
  <2>1. /\ UNCHANGED put /\ at' \in {"over", "aborted"} /\ Active
        /\ status' \in {"failed", "cancelled"}
    BY <1>1, <1>8 DEF Raises, Unwound, Abandoned, Finalize, Active, Resumed, TERMINAL, object
  <2> QED BY <1>1, <2>1 DEF Active, Types
<1>9. CASE Timeout \/ StopBegin \/ DrainDeadline \/ UNCHANGED vars
  BY <1>9 DEF Timeout, StopBegin, DrainDeadline, vars, object
<1>10. CASE UnwindRaises
  <2>1. status = "running" /\ UNCHANGED put
    BY <1>1, <1>10 DEF UnwindRaises, object
  <2>2. \/ at' = "over" /\ status' = "failed"
        \/ at = "upload" /\ UNCHANGED <<at, status>>
    BY <1>10, <2>1, EndMeans DEF UnwindRaises, Crash, IccRefused, UploadRefused, Goto
  <2> QED BY <1>1, <1>10, <2>1, <2>2 DEF UnwindRaises, Active, Types
<1> QED BY <1>2, <1>3, <1>4, <1>5, <1>6, <1>7, <1>8, <1>9, <1>10 DEF Next, RunJob

\* What PutContract says of an upload, run_job and the storage service do, for
\* every request: a URL only for a stored PDF, and one PUT.
THEOREM RunJobUsesPutContract == Spec => UsesPutContract
<1>1. Init => Put!Init
  BY DEF Init, Put!Init
<1>2. ASSUME IInv, [Next]_vars PROVE [Put!Next]_(Put!vars)
  <2> DEFINE p == [k \in {"job"} |-> put]
             o == [k \in {"job"} |-> Outcome]
  <2>1. PutSteps
    BY <1>2, StepsArePutSteps
  <2>2. [Put!Next]_(Put!vars) <=>
          \/ \E k \in {"job"} :
               \/ o[k] = "none" /\ p' = [p EXCEPT ![k] = "sent"] /\ o' = [o EXCEPT ![k] = "pending"]
               \/ p[k] = "sent" /\ o[k] # "url" /\ p' = [p EXCEPT ![k] = "stored"] /\ o' = o
               \/ o[k] = "pending" /\ p[k] = "stored" /\ o' = [o EXCEPT ![k] = "url"] /\ p' = p
               \/ o[k] = "pending" /\ o' = [o EXCEPT ![k] = "error"] /\ p' = p
          \/ p' = p /\ o' = o
    BY DEF Put!Next, Put!Send, Put!Store, Put!Return, Put!Fail, Put!vars, Outcome
  <2>3. p["job"] = put /\ o["job"] = Outcome
    OBVIOUS
  <2>4. /\ \A v : [p EXCEPT !["job"] = v] = [k \in {"job"} |-> v]
        /\ \A v : [o EXCEPT !["job"] = v] = [k \in {"job"} |-> v]
    OBVIOUS
  <2>5. p' = [k \in {"job"} |-> put'] /\ o' = [k \in {"job"} |-> Outcome']
    OBVIOUS
  <2> HIDE DEF p, o
  <2> QED BY <2>1, <2>2, <2>3, <2>4, <2>5 DEF PutSteps
<1> QED BY <1>1, <1>2, InvHolds, PTL DEF Spec, UsesPutContract, Put!Spec

-----------------------------------------------------------------------------
(* A job in run_job is the job of ExportWorker.                            *)

\* The state of ExportWorker that a state of Pipeline stands for.
Queue    == IF at = "queued" THEN <<"job">> ELSE <<>>
Consumer == IF at \in {"new", "queued"} THEN "waiting" ELSE
            IF at = "over" THEN "looping" ELSE
            IF at = "aborted" THEN "dead" ELSE "running"
Current  == IF Active THEN "job" ELSE "none"
Phase    == IF at \in {"capture", "crop"} THEN "render" ELSE
            IF at \in {"icc", "convert"} THEN "color" ELSE
            IF at \in {"merge", "assemble"} THEN "merge" ELSE
            IF at = "upload" THEN "upload" ELSE "idle"
Left     == IF at \in {"capture", "crop"} THEN req.n - i ELSE 0
Timer    == IF Active THEN timer ELSE "set"

runState == <<server, status, cancel_requested, Queue, Consumer, Current, Phase,
              Left, Timer, cancelling>>

LEMMA One == \A u, v : [[j \in {"job"} |-> u] EXCEPT !["job"] = v] = [j \in {"job"} |-> v]
OBVIOUS

LEMMA RunStutters ==
  ASSUME UNCHANGED runState
  PROVE  UNCHANGED Run!vars
BY DEF runState, Queue, Consumer, Current, Phase, Left, Timer, Run!vars, Run!runVars

\* run_job, suspended in phase p, ends with the status s.
LEMMA RunEnds ==
  ASSUME Active, status = "running", at' = "over",
         NEW s \in {"completed", "failed", "cancelled"}, status' = s
  PROVE  Run!EndRun(s)
<1>1. /\ Run!Finalized("job", s) = [j \in {"job"} |-> status']
      /\ Current = "job" /\ Consumer' = "looping" /\ Current' = "none"
      /\ Phase' = "idle" /\ Left' = 0 /\ Timer' = "set"
  BY One DEF Run!Finalized, Run!TERMINAL, Run!COMPLETED, Run!FAILED, Run!CANCELLED,
     Current, Consumer, Phase, Left, Timer, Active
<1> QED BY <1>1 DEF Run!EndRun, Run!NotRunning, Current, Consumer, Phase, Left, Timer

LEMMA HandlersAreRunSteps ==
  ASSUME IInv, Submit \/ Cancel \/ SkipStale \/ Start
  PROVE  Run!Next
<1> USE DEF Run!NONE, Run!QUEUED, Run!RUNNING, Run!COMPLETED, Run!FAILED, Run!CANCELLED,
            Run!GONE, Run!TERMINAL, TERMINAL, IInv, env, locals, object, Active
<1>1. CASE Submit
  <2>1. Run!Submit("job")
    BY <1>1, One DEF Submit, Control, Run!Submit, Run!LoopFree, Run!HasRoom, Run!Enqueue,
       Run!Registered, Run!runVars
  <2> QED BY <2>1 DEF Run!Next, Run!Handlers
<1>2. CASE Cancel
  <2>1. Run!Cancel("job")
    BY <1>2, One DEF Cancel, Finalize, Control, Run!Cancel, Run!LoopFree, Run!Finalized, Run!runVars
  <2> QED BY <2>1 DEF Run!Next, Run!Handlers
<1>3. CASE SkipStale
  <2>1. Run!Dequeue
    BY <1>3, One DEF SkipStale, Goto, Control, Run!Dequeue, Run!Serve, Run!Stale, Run!runVars
  <2> QED BY <2>1 DEF Run!Next, Run!Consumer
<1>4. CASE Start
  <2>1. Run!Dequeue
    BY <1>4, One, RequestFacts DEF Start, Control, Types, Run!Dequeue, Run!Serve, Run!Stale, Run!StartRun, Run!runVars
  <2> QED BY <2>1 DEF Run!Next, Run!Consumer
<1> QED BY <1>1, <1>2, <1>3, <1>4

\* run_job ends as failed, by itself.
LEMMA RunFailsIsStep ==
  ASSUME Active, status = "running", cancelling = "no", at' = "over", status' = "failed",
         UNCHANGED <<server, cancel_requested, cancelling>>
  PROVE  Run!Next
<1>1. Run!EndRun(Run!FAILED)
  BY RunEnds DEF Run!FAILED
<1>2. Consumer = "running" /\ Queue = <<>> /\ Queue' = <<>>
  BY DEF Consumer, Queue, Active
<1>3. Run!RunFails
  BY <1>1, <1>2 DEF Run!RunFails, Consumer, Queue
<1> QED BY <1>3 DEF Run!Next, Run!RunJob

LEMMA SpreadsAreRunSteps ==
  ASSUME IInv, Captured \/ CaptureFails \/ Cropped
  PROVE  [Run!Next]_(Run!vars)
<1> USE DEF IInv
<1>1. at \in {"capture", "crop"} /\ cancelling = "no" /\ Active /\ status = "running"
  BY DEF Captured, CaptureFails, Cropped, Resumed, Active, Control
<1>2. i \in 1..req.n /\ req.n \in Nat \ {0}
  BY RequestFacts DEF Types
<1>3. CASE Captured /\ i \in req.split
  <2>1. at' = "crop" /\ at = "capture" /\ UNCHANGED <<env, i, cancel_requested, status>>
    BY <1>3 DEF Captured, Resumed, Goto
  <2>2. UNCHANGED runState
    BY <2>1 DEF runState, Queue, Consumer, Current, Phase, Left, Timer, Active, env
  <2> QED BY <2>2, RunStutters
<1>4. CASE ~(Captured /\ i \in req.split)
  <2>0. PICK outcome \in {"done", "failed"} : \E pages : SpreadEnds(outcome, pages)
    BY <1>4 DEF Captured, CaptureFails, Cropped
  <2>1. PICK pages : SpreadEnds(outcome, pages)
    BY <2>0
  <2>2. Body(outcome, pages) /\ UNCHANGED <<server, timer, cancelling, cancel_requested, req>>
    BY <1>1, <2>1, SpreadEndsMeans DEF Body, env
  <2> DEFINE goes == IF at' = "capture"
                     THEN i # req.n /\ i' = i + 1 ELSE i = req.n /\ at' \in {"icc", "convert"}
  <2>3. \/ goes /\ ~cancel_requested /\ UNCHANGED status
        \/ at' = "over" /\ status' = "cancelled" /\ cancel_requested
        \/ at' = "over" /\ status' = "failed"
    BY <2>2 DEF Body, NextSpread, StopsAtFlag, StopsWithNone, StopsAtIcc, StopsReading,
       LeavesLoop, Stops, Ends
  <2>4. CASE at' = "over" /\ status' = "failed"
    BY <1>1, <2>2, <2>4, RunFailsIsStep
  <2>5. CASE at' = "over" /\ status' = "cancelled" /\ cancel_requested
    <3>1. Run!EndRun(Run!CANCELLED)
      BY <1>1, <2>5, RunEnds DEF Run!CANCELLED
    <3>2. Run!NextSpread \/ Run!SpreadsDone
      BY <1>1, <1>2, <2>2, <2>5, <3>1 DEF Run!NextSpread, Run!SpreadsDone, Run!Boundary,
         Run!Resumed, Active
    <3> QED BY <3>2 DEF Run!Next, Run!RunJob
  <2>6. CASE goes /\ ~cancel_requested /\ UNCHANGED status
    <3>1. CASE at' = "capture"
      <4>1. Run!NextSpread
        BY <1>1, <1>2, <2>2, <2>6, <3>1 DEF Run!NextSpread, Run!Boundary, Run!Resumed, Active
      <4> QED BY <4>1 DEF Run!Next, Run!RunJob
    <3>2. CASE at' # "capture"
      <4>1. Run!SpreadsDone
        BY <1>1, <1>2, <2>2, <2>6, <3>2 DEF Run!SpreadsDone, Run!Boundary, Run!Resumed, Active
      <4> QED BY <4>1 DEF Run!Next, Run!RunJob
    <3> QED BY <3>1, <3>2
  <2> QED BY <2>3, <2>4, <2>5, <2>6
<1> QED BY <1>3, <1>4

\* What the production stages do to the run: go on in their phase, pass the
\* boundary that the flag allows, stop at it, complete, or fail.
RunMoves ==
  \/ UNCHANGED <<status, Phase>> /\ Active'
  \/ /\ ~cancel_requested /\ UNCHANGED status
     /\ \/ Phase = "color" /\ at' = "merge"
        \/ Phase = "merge" /\ at' = "upload"
  \/ /\ cancel_requested /\ Phase \in {"color", "merge"}
     /\ at' = "over" /\ status' = "cancelled"
  \/ at = "upload" /\ at' = "over" /\ status' = "completed"
  \/ at' = "over" /\ status' = "failed"

LEMMA ProductionMoves ==
  ASSUME status = "running",
         \/ CustomerIcc \/ Converted \/ ConvertFails \/ Merged \/ Assembled
         \/ MergeFails \/ UploadDone \/ UploadFails
  PROVE  /\ RunMoves
         /\ at \in {"icc", "convert", "merge", "assemble", "upload"} /\ cancelling = "no"
         /\ UNCHANGED <<server, timer, cancelling, cancel_requested>>
<1> USE DEF RunMoves, Phase, Active, Goto, Resumed, env
<1>1. CASE CustomerIcc
  BY <1>1, EndMeans DEF CustomerIcc, IccFound, IccRefused, ReadBack, Crash
<1>2. CASE Converted
  BY <1>2, EndMeans DEF Converted
<1>3. CASE ConvertFails
  BY <1>3, EndMeans DEF ConvertFails, IccRefused
<1>4. CASE Merged
  BY <1>4, EndMeans DEF Merged, MergeOver, Crash
<1>5. CASE Assembled
  BY <1>5, EndMeans DEF Assembled, MergeOver, Crash
<1>6. CASE MergeFails
  BY <1>6, EndMeans DEF MergeFails
<1>7. CASE UploadDone
  BY <1>7, EndMeans DEF UploadDone
<1>8. CASE UploadFails
  BY <1>8, EndMeans DEF UploadFails, UploadRefused
<1> QED BY <1>1, <1>2, <1>3, <1>4, <1>5, <1>6, <1>7, <1>8

LEMMA ProductionIsRunStep ==
  ASSUME IInv,
         \/ CustomerIcc \/ Converted \/ ConvertFails \/ Merged \/ Assembled
         \/ MergeFails \/ UploadDone \/ UploadFails
  PROVE  [Run!Next]_(Run!vars)
<1>1. status = "running"
  BY DEF IInv, Control, Active, CustomerIcc, Converted, ConvertFails, Merged, Assembled,
         MergeFails, UploadDone, UploadFails, Resumed
<1>2. /\ RunMoves
      /\ at \in {"icc", "convert", "merge", "assemble", "upload"} /\ cancelling = "no"
      /\ UNCHANGED <<server, timer, cancelling, cancel_requested>>
  BY <1>1, ProductionMoves
<1>3. Active
  BY <1>2 DEF Active
<1>4. CASE UNCHANGED <<status, Phase>> /\ Active'
  <2>1. UNCHANGED runState
    BY <1>2, <1>4 DEF runState, Queue, Consumer, Current, Phase, Left, Timer, Active
  <2> QED BY <2>1, RunStutters
<1>5. CASE /\ ~cancel_requested /\ UNCHANGED status
           /\ \/ Phase = "color" /\ at' = "merge"
              \/ Phase = "merge" /\ at' = "upload"
  <2>1. Run!ColorDone \/ Run!MergeDone
    BY <1>2, <1>5 DEF Run!ColorDone, Run!MergeDone, Run!Boundary, Run!Resumed, Phase, Active
  <2> QED BY <2>1 DEF Run!Next, Run!RunJob
<1>6. CASE /\ cancel_requested /\ Phase \in {"color", "merge"}
           /\ at' = "over" /\ status' = "cancelled"
  <2>1. Run!EndRun(Run!CANCELLED)
    BY <1>1, <1>3, <1>6, RunEnds DEF Run!CANCELLED
  <2>2. Run!ColorDone \/ Run!MergeDone
    BY <1>2, <1>3, <1>6, <2>1 DEF Run!ColorDone, Run!MergeDone, Run!Boundary, Run!Resumed,
       Phase, Active
  <2> QED BY <2>2 DEF Run!Next, Run!RunJob
<1>7. CASE at = "upload" /\ at' = "over" /\ status' = "completed"
  <2>1. Run!EndRun(Run!COMPLETED)
    BY <1>1, <1>3, <1>7, RunEnds DEF Run!COMPLETED
  <2>2. Run!UploadDone
    BY <1>2, <1>7, <2>1 DEF Run!UploadDone, Run!Resumed
  <2> QED BY <2>2 DEF Run!Next, Run!RunJob
<1>8. CASE at' = "over" /\ status' = "failed"
  BY <1>1, <1>2, <1>3, <1>8, RunFailsIsStep
<1> QED BY <1>2, <1>4, <1>5, <1>6, <1>7, <1>8 DEF RunMoves

LEMMA EnvironmentIsRunStep ==
  ASSUME IInv,
         \/ Raises \/ StorageStores \/ Timeout \/ Unwound \/ StopBegin
         \/ DrainDeadline \/ UnwindRaises \/ UNCHANGED vars
  PROVE  [Run!Next]_(Run!vars)
<1>1. CASE StorageStores \/ UNCHANGED vars
  <2>1. UNCHANGED runState
    BY <1>1 DEF StorageStores, vars, env, runState, Queue, Consumer, Current, Phase, Left, Timer,
               Active
  <2> QED BY <2>1, RunStutters
<1>2. CASE Raises
  <2>1. /\ Active /\ status = "running" /\ cancelling = "no" /\ at' = "over"
        /\ status' = "failed" /\ UNCHANGED <<server, cancel_requested, cancelling>>
    BY <1>2 DEF Raises, Abandoned, Finalize, Resumed, Active, IInv, Control, TERMINAL
  <2> QED BY <2>1, RunFailsIsStep
<1>3. CASE Timeout
  <2>1. Run!Timeout
    BY <1>3 DEF Timeout, Run!Timeout, Active, Run!runVars
  <2> QED BY <2>1 DEF Run!Next
<1>4. CASE StopBegin
  <2>1. Run!StopBegin
    BY <1>4 DEF StopBegin, IInv, Control, Run!StopBegin, Run!LoopFree, Run!SomeRunning,
       Run!RUNNING, Active, Run!runVars
  <2> QED BY <2>1 DEF Run!Next
<1>5. CASE DrainDeadline
  <2>1. Run!DrainDeadline
    BY <1>5 DEF DrainDeadline, IInv, Control, Run!DrainDeadline, Run!LoopFree,
       Run!SomeRunning, Run!RUNNING, Run!CancelTasks, Active, Run!runVars
  <2> QED BY <2>1 DEF Run!Next, Run!Stop
<1>6. CASE Unwound
  <2>1. /\ Active /\ status = "running" /\ UNCHANGED <<server, cancel_requested>>
        /\ cancelling' = "no"
        /\ \/ cancelling = "timeout" /\ at' = "over" /\ status' = "failed"
           \/ cancelling = "shutdown" /\ at' = "aborted" /\ status' = "cancelled"
    BY <1>6 DEF Unwound, Abandoned, Finalize, Active, IInv, Control, TERMINAL
  <2>2. CASE cancelling = "timeout" /\ at' = "over" /\ status' = "failed"
    <3>1. Run!EndRun(Run!FAILED)
      BY <2>1, <2>2, RunEnds DEF Run!FAILED
    <3>2. Run!Unwound
      BY <2>1, <2>2, <3>1 DEF Run!Unwound, Active
    <3> QED BY <3>2 DEF Run!Next, Run!Consumer
  <2>3. CASE cancelling = "shutdown" /\ at' = "aborted" /\ status' = "cancelled"
    <3>1. Run!Abort
      BY <2>1, <2>3, One DEF Run!Abort, Run!Finalized, Run!TERMINAL, Run!COMPLETED, Run!FAILED,
         Run!CANCELLED, Run!NotRunning, Active
    <3>2. Run!Unwound
      BY <2>1, <2>3, <3>1 DEF Run!Unwound, Active
    <3> QED BY <3>2 DEF Run!Next, Run!Consumer
  <2> QED BY <2>1, <2>2, <2>3
<1>7. CASE UnwindRaises
  <2>1. /\ Active /\ status = "running" /\ UNCHANGED <<server, timer, cancel_requested>>
        /\ cancelling # "no" /\ cancelling' = "no" /\ at \in {"capture", "icc", "upload"}
        /\ \/ at' = "over" /\ status' = "failed"
           \/ at = "upload" /\ UNCHANGED <<at, status>>
    BY <1>7, EndMeans DEF UnwindRaises, Crash, IccRefused, UploadRefused, Goto, IInv, Control
  <2>2. Phase \in {"render", "color", "upload"} /\ Consumer = "running" /\ UNCHANGED Queue
    BY <2>1 DEF Phase, Consumer, Queue
  <2>3. CASE at' = "over" /\ status' = "failed"
    <3>1. Run!EndRun(Run!FAILED)
      BY <2>1, <2>3, RunEnds DEF Run!FAILED
    <3>2. Run!UnwindRaises
      BY <2>1, <2>2, <3>1 DEF Run!UnwindRaises, Phase, Consumer, Queue
    <3> QED BY <3>2 DEF Run!Next, Run!Consumer
  <2>4. CASE at = "upload" /\ UNCHANGED <<at, status>>
    <3>1. UNCHANGED <<Queue, Consumer, Current, Phase, Left, Timer>> /\ Phase = "upload"
      BY <2>1, <2>4 DEF Queue, Consumer, Current, Phase, Left, Timer, Active
    <3>2. Run!UnwindRaises
      BY <2>1, <2>2, <2>4, <3>1 DEF Run!UnwindRaises, Run!runVars, Queue, Consumer, Current, Phase,
         Left, Timer
    <3> QED BY <3>2 DEF Run!Next, Run!Consumer
  <2> QED BY <2>1, <2>3, <2>4
<1> QED BY <1>1, <1>2, <1>3, <1>4, <1>5, <1>6, <1>7

\* run_job implements the run of ExportWorker, whatever the request: what holds
\* of every worker of that module (its queue, shutdown and timeout properties)
\* is true of a worker that runs this job.
THEOREM RunJobImplementsRun == Spec => ImplementsRun
<1>1. Init => Run!Init
  BY DEF Init, Run!Init, Run!NONE, Active
<1>2. ASSUME IInv, [Next]_vars PROVE [Run!Next]_(Run!vars)
  BY <1>2, HandlersAreRunSteps, SpreadsAreRunSteps, ProductionIsRunStep,
     EnvironmentIsRunStep DEF Next, RunJob
<1> QED BY <1>1, <1>2, InvHolds, PTL DEF Spec, ImplementsRun, Run!Spec

-----------------------------------------------------------------------------
(* A job in run_job keeps the contract with the orchestrator.              *)

\* The life of the job as a poll shows it, in all that happens to it.
Life ==
  \/ UNCHANGED status
  \/ status = "none" /\ status' = "queued"
  \/ status = "queued" /\ status' \in {"running", "cancelled"}
  \/ status = "running" /\ status' \in TERMINAL

LEMMA StepsAreLife ==
  ASSUME IInv, [Next]_vars
  PROVE  Life
<1> USE DEF IInv, Control, Life, TERMINAL
<1>1. CASE Submit \/ Cancel \/ SkipStale \/ Start
  BY <1>1 DEF Submit, Cancel, SkipStale, Start, Goto, Finalize
<1>2. CASE Captured \/ CaptureFails \/ Cropped
  <2>1. Captured /\ i \in req.split => UNCHANGED status
    BY DEF Captured, Goto
  <2>2. status = "running"
    BY <1>2 DEF Captured, CaptureFails, Cropped, Resumed, Active
  <2>3. CASE \E outcome \in {"done", "failed"} : \E pages : SpreadEnds(outcome, pages)
    <3>1. PICK outcome \in {"done", "failed"} : \E pages : SpreadEnds(outcome, pages)
      BY <2>3
    <3>2. PICK pages : SpreadEnds(outcome, pages)
      BY <3>1
    <3>3. Body(outcome, pages)
      BY <2>2, <3>2, SpreadEndsMeans
    <3> QED BY <2>2, <3>3 DEF Body, NextSpread, StopsAtFlag, StopsWithNone, StopsAtIcc,
               StopsReading, LeavesLoop, Stops, Ends
  <2> QED BY <1>2, <2>1, <2>3 DEF Captured, CaptureFails, Cropped
<1>3. CASE \/ CustomerIcc \/ Converted \/ ConvertFails \/ Merged \/ Assembled
           \/ MergeFails \/ UploadDone \/ UploadFails
  <2>1. status = "running"
    BY <1>3 DEF Active, CustomerIcc, Converted, ConvertFails, Merged, Assembled,
           MergeFails, UploadDone, UploadFails, Resumed
  <2> QED BY <1>3, <2>1, ProductionMoves DEF RunMoves
<1>4. CASE Raises \/ Unwound
  BY <1>4 DEF Raises, Unwound, Abandoned, Finalize, Resumed, Active
<1>6. CASE UnwindRaises
  BY <1>6, EndMeans DEF UnwindRaises, Crash, IccRefused, UploadRefused, Goto
<1>5. CASE StorageStores \/ Timeout \/ StopBegin \/ DrainDeadline \/ UNCHANGED vars
  BY <1>5 DEF StorageStores, Timeout, StopBegin, DrainDeadline, vars
<1> QED BY <1>1, <1>2, <1>3, <1>4, <1>5, <1>6 DEF Next, RunJob

\* What the orchestrator sees of a job in run_job, with every failure, cancel,
\* timeout and shutdown that may strike it, is what ExportJobContract allows.
THEOREM RunJobMeetsContract == Spec => Run!ImplementsContract
<1> DEFINE s == [j \in {"job"} |-> status]
           a == [j \in {"job"} |-> {}]
<1>1. Init => Run!Contract!Init
  BY DEF Init, Run!Contract!Init
<1>2. ASSUME IInv, [Next]_vars PROVE [Run!Contract!Next]_(Run!Contract!vars)
  <2>1. Life
    BY <1>2, StepsAreLife
  <2>2. s["job"] = status /\ a["job"] = {} /\ a' = a
    OBVIOUS
  <2>3. /\ \A v : [s EXCEPT !["job"] = v] = [j \in {"job"} |-> v]
        /\ [a EXCEPT !["job"] = {}] = a
        /\ s' = [j \in {"job"} |-> status']
    OBVIOUS
  <2>4. status = "none" => {k \in {"job"} : s[k] # "none"} = {}
    BY <2>2
  <2>5. ( \/ \E j \in {"job"} :
               /\ s[j] = "none" /\ s' = [s EXCEPT ![j] = "queued"]
               /\ a' = [a EXCEPT ![j] = {k \in {"job"} : s[k] # "none"}]
          \/ \E j \in {"job"} :
               /\ s[j] = "queued" /\ a' = a
               /\ \A k \in {"job"} : s[k] # "running"
               /\ \A k \in a[j] : s[k] # "queued"
               /\ s' = [s EXCEPT ![j] = "running"]
          \/ \E j \in {"job"} :
               s[j] = "queued" /\ s' = [s EXCEPT ![j] = "cancelled"] /\ a' = a
          \/ \E j \in {"job"}, o \in TERMINAL :
               s[j] = "running" /\ s' = [s EXCEPT ![j] = o] /\ a' = a
          \/ s' = s /\ a' = a )
          => [Run!Contract!Next]_(Run!Contract!vars)
    BY DEF Run!Contract!Next, Run!Contract!Accept, Run!Contract!Start,
       Run!Contract!Withdraw, Run!Contract!Finish, Run!Contract!vars,
       Run!Contract!TERMINAL, TERMINAL
  <2>0. UNCHANGED status => s' = s
    OBVIOUS
  <2> HIDE DEF s, a
  <2>6. CASE UNCHANGED status
    BY <2>0, <2>2, <2>5, <2>6
  <2>7. CASE status = "none" /\ status' = "queued"
    BY <2>2, <2>3, <2>4, <2>5, <2>7
  <2>8. CASE status = "queued" /\ status' = "running"
    BY <2>2, <2>3, <2>5, <2>8
  <2>9. CASE status = "queued" /\ status' = "cancelled"
    BY <2>2, <2>3, <2>5, <2>9
  <2>10. CASE status = "running" /\ status' \in TERMINAL
    BY <2>2, <2>3, <2>5, <2>10
  <2> QED BY <2>1, <2>6, <2>7, <2>8, <2>9, <2>10 DEF Life
<1> QED BY <1>1, <1>2, InvHolds, PTL
        DEF Spec, Run!ImplementsContract, Run!Contract!Spec

=============================================================================
