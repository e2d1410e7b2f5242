---------------------------- MODULE WorkdirProofs ----------------------------
(***************************************************************************)
(* The directory of a run is removed, and the run is Pipeline's.           *)
(***************************************************************************)
EXTENDS Workdir, PipelineRefinements

\* The directory and the entry in it, by the place of run_job.
DirByPlace ==
  /\ at \in {"new", "queued"} => dir = "none" /\ ~file
  /\ Active => dir \in {"present", "emptied"}
  /\ Active /\ dir = "emptied" => cancelling # "no"
  /\ dir = "emptied" => (thread = "started" \/ file => torn)

WInv == DirByPlace /\ NothingLeftBehind

LEMMA StepsOfPlaces ==
  ASSUME Types, Next
  PROVE  /\ \/ at' = at
            \/ at = "new" /\ at' = "queued"
            \/ at = "queued" /\ at' \in {"over", "capture"}
            \/ Active /\ at' \notin {"new", "queued"}
         /\ put' # put /\ at' = at => UNCHANGED cancelling
<1>1. CASE Submit \/ Cancel \/ SkipStale \/ Start
  BY <1>1 DEF Submit, Cancel, SkipStale, Start, Goto, env
<1>2. CASE Captured \/ CaptureFails \/ Cropped
  <2>1. at \in {"capture", "crop"} /\ UNCHANGED cancelling
    BY <1>2 DEF Captured, CaptureFails, Cropped, Resumed, SpreadEnds, env
  <2>2. at' \notin {"new", "queued"}
    BY <1>2 DEF Captured, CaptureFails, Cropped, SpreadEnds, AfterSpreads, ResolveIcc,
                IccFound, IccRefused, ReadBack, Crash, End, Goto
  <2> QED BY <2>1, <2>2 DEF Active
<1>3. CASE \/ CustomerIcc \/ Converted \/ ConvertFails \/ Merged \/ Assembled
           \/ MergeFails \/ UploadDone \/ UploadFails
  <2>1. at \in {"icc", "convert", "merge", "assemble", "upload"} /\ UNCHANGED cancelling
    BY <1>3 DEF CustomerIcc, Converted, ConvertFails, Merged, Assembled, MergeFails,
                UploadDone, UploadFails, Resumed, env
  <2>2. at' \notin {"new", "queued"}
    BY <1>3 DEF CustomerIcc, Converted, ConvertFails, Merged, Assembled, MergeFails,
                UploadDone, UploadFails, UploadRefused, IccFound, IccRefused, ReadBack, Crash,
                MergeOver, End, Goto
  <2> QED BY <2>1, <2>2 DEF Active
<1>4. CASE Raises \/ Unwound
  BY <1>4 DEF Raises, Unwound, Abandoned, Active, Resumed, object
<1>7. CASE UnwindRaises
  BY <1>7 DEF UnwindRaises, Crash, IccRefused, UploadRefused, End, Goto, Active, object
<1>5. CASE StorageStores
  BY <1>5 DEF StorageStores, env
<1>6. CASE Timeout \/ StopBegin \/ DrainDeadline
  BY <1>6 DEF Timeout, StopBegin, DrainDeadline, object
<1> QED BY <1>1, <1>2, <1>3, <1>4, <1>5, <1>6, <1>7 DEF Next, RunJob

LEMMA InitWInv == WorkdirInit => WInv
BY DEF WorkdirInit, Init, WInv, DirByPlace, NothingLeftBehind, Active

LEMMA JobStepsKeepWInv ==
  ASSUME Types, WInv, Next, Created \/ RunOver \/ RunGoesOn \/ Elsewhere
  PROVE  WInv'
<1> USE DEF WInv, DirByPlace, NothingLeftBehind, Active
<1>1. /\ \/ at' = at
         \/ at = "new" /\ at' = "queued"
         \/ at = "queued" /\ at' \in {"over", "capture"}
         \/ Active /\ at' \notin {"new", "queued"}
      /\ put' # put /\ at' = at => UNCHANGED cancelling
  BY StepsOfPlaces
<1>2. CASE Created
  BY <1>2 DEF Created
<1>3. CASE RunOver
  BY <1>1, <1>3 DEF RunOver, Removed, Rmdir, Types
<1>4. CASE RunGoesOn
  BY <1>4 DEF RunGoesOn
<1>5. CASE Elsewhere
  BY <1>1, <1>5 DEF Elsewhere, workdir
<1> QED BY <1>2, <1>3, <1>4, <1>5

LEMMA ThreadAndRmtreeKeepWInv ==
  ASSUME WInv, ThreadWrites \/ Rmtree \/ UNCHANGED <<vars, workdir>>
  PROVE  WInv'
<1> USE DEF WInv, DirByPlace, NothingLeftBehind, Active, vars, env
<1>1. CASE ThreadWrites
  BY <1>1 DEF ThreadWrites
<1>2. CASE Rmtree
  BY <1>2 DEF Rmtree
<1>3. CASE UNCHANGED <<vars, workdir>>
  BY <1>3 DEF workdir
<1> QED BY <1>1, <1>2, <1>3

\* By the form of WorkdirNext, every step of Workdir is one of Pipeline or leaves
\* it alone: what is proved of Pipeline can be used here.
LEMMA WorkdirImplementsPipeline == WorkdirSpec => Spec
<1>1. WorkdirInit => Init
  BY DEF WorkdirInit
<1>2. ASSUME [WorkdirNext]_<<vars, workdir>> PROVE [Next]_vars
  BY <1>2 DEF WorkdirNext, ThreadWrites, Rmtree
<1> QED BY <1>1, <1>2, PTL DEF WorkdirSpec, Spec

\* A finished job has no files left, but those a thread wrote while the rmtree
\* of an aborted run was at work.
THEOREM NothingIsLeftBehind == WorkdirSpec => []NothingLeftBehind
<1>1. ASSUME Types, WInv, [WorkdirNext]_<<vars, workdir>> PROVE WInv'
  BY <1>1, JobStepsKeepWInv, ThreadAndRmtreeKeepWInv DEF WorkdirNext
<1>2. WInv => NothingLeftBehind
  BY DEF WInv
<1>3. IInv => Types
  BY DEF IInv
<1>4. WorkdirSpec => []Types
  BY <1>3, WorkdirImplementsPipeline, InvHolds, PTL
<1> QED BY <1>1, <1>2, <1>4, InitWInv, PTL DEF WorkdirSpec

\* What is proved of run_job holds of the runs with their directories, whose
\* steps the threads and rmtree only delay.
THEOREM RunsWithDirectories ==
  WorkdirSpec => /\ [](/\ ResultAgreesWithProgress /\ StagesInOrder
                       /\ CompletedIsFaithful /\ CancelledStoresNothing
                       /\ SpreadFailuresAreIsolated)
                 /\ FinishedRecordIsFrozen /\ RunJobAdvances
                 /\ ImplementsRun /\ UsesPutContract
<1>1. Spec => /\ [](/\ ResultAgreesWithProgress /\ StagesInOrder
                    /\ CompletedIsFaithful /\ CancelledStoresNothing
                    /\ SpreadFailuresAreIsolated)
              /\ FinishedRecordIsFrozen /\ RunJobAdvances
  BY ResultAgrees, StagesAreInOrder, CompletedFaithful, CancelledStores,
     FailuresAreIsolated, FinishedIsFrozen, RunJobGoesOn, PTL
<1>2. Spec => ImplementsRun /\ UsesPutContract
  BY RunJobImplementsRun, RunJobUsesPutContract, PTL
<1> QED BY <1>1, <1>2, WorkdirImplementsPipeline, PTL

=============================================================================
