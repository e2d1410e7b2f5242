------------------------------ MODULE Pipeline ------------------------------
(***************************************************************************)
(* One export job, from its submit to its terminal record: run_job in      *)
(* full, with the cancel handler, the wall clock of the consumer and the   *)
(* shutdown that may strike it, and the storage service it PUTs to.        *)
(*                                                                         *)
(* A step is what run_job does between two suspensions; handlers run only  *)
(* at a suspension.  Spreads are named by their place in the request, the  *)
(* ids being distinct.  A page of a PDF is <<spread, part>>.               *)
(***************************************************************************)
EXTENDS Naturals, Sequences, FiniteSets

CONSTANT MaxSpreads      \* bound on the number of spreads of a request

ASSUME MaxSpreadsAssumption == MaxSpreads \in Nat \ {0}

VARIABLES
  req,               \* the request: spreads, those split in two, colour
  server,            \* the lifespan: "up", "draining" or "aborting"
  timer,             \* the wall clock of the run: "set", or "fired" for good
  cancelling,        \* CancelledError on its way: "no", "timeout", "shutdown"
  at,                \* where run_job is suspended
  i,                 \* the spread of the loop
  status,            \* job.status
  cancel_requested,  \* job.cancel_requested
  spreads,           \* job.spreads: the progress of each spread
  color_conversion,  \* job.color_conversion
  merge,             \* job.merge
  result,            \* job.result
  rendered, failed_count, errors, page_pngs, page_pdfs,  \* locals of run_job
  merged,            \* the file merged.pdf
  put,               \* the PUT: "none", "sent" or "stored"
  stored             \* the object in the storage service

env    == <<req, server, timer, cancelling>>
locals == <<rendered, failed_count, errors, page_pngs, page_pdfs, merged>>
object == <<put, stored>>
vars   == <<env, at, i, status, cancel_requested, spreads, color_conversion,
            merge, result, locals, object>>

TERMINAL == {"completed", "failed", "cancelled"}

\* page_unit = "single" splits the spreads that are double pages.
Requests == UNION {[n : {n}, split : SUBSET (1..n),
                    color : {"rgb", "bundled", "customer"}] : n \in 1..MaxSpreads}

PagesOf(k) == IF k \in req.split THEN <<<<k, "left">>, <<k, "right">>>>
                                 ELSE <<<<k, "whole">>>>

NoPdf == [pages |-> <<>>, intent |-> FALSE]

\* The worker-owned slice of the result; "media" stands for the keys only a
\* completed job has, of which "page_count" and "intent" are kept.
Report(r, f, errs) == [rendered |-> r, failed |-> f, errors |-> errs,
                       media |-> FALSE, page_count |-> 0, intent |-> FALSE]
NoResult == Report(0, 0, <<"none">>)

Delivery(r, f, errs) == [rendered |-> r, failed |-> f, errors |-> errs,
                         media |-> TRUE, page_count |-> Len(merged.pages),
                         intent |-> req.color # "rgb"]

-----------------------------------------------------------------------------
Init ==
  /\ req \in Requests
  /\ server = "up" /\ timer = "set" /\ cancelling = "no"
  /\ at = "new" /\ i = 1
  /\ status = "none" /\ cancel_requested = FALSE
  /\ spreads = [k \in 1..req.n |-> "pending"]
  /\ color_conversion = "none" /\ merge = "none"
  /\ result = NoResult
  /\ rendered = 0 /\ failed_count = 0 /\ errors = <<>>
  /\ page_pngs = <<>> /\ page_pdfs = <<>> /\ merged = NoPdf
  /\ put = "none" /\ stored = NoPdf

Finalize(s, r) ==
  IF status \in TERMINAL THEN UNCHANGED <<status, result>>
                         ELSE status' = s /\ result' = r

\* run_job returns.
End(s, r) == Finalize(s, r) /\ at' = "over"

Goto(p) == at' = p /\ UNCHANGED <<status, result>>

\* An exception that no clause of run_job expects: the consumer finalizes.
Crash == End("failed", Report(0, 0, <<"internal">>))

\* A file of the run's own directory is read back, or cannot be.
ReadBack(p) == Goto(p) \/ Crash

-----------------------------------------------------------------------------
(* Submit, cancel, and the consumer reaching the entry.                    *)

Submit ==
  /\ at = "new" /\ server = "up"
  /\ at' = "queued" /\ status' = "queued"
  /\ UNCHANGED <<env, i, cancel_requested, spreads, color_conversion, merge,
                 result, locals, object>>

Cancel ==
  /\ server = "up" /\ status \in {"queued", "running"}
  /\ cancel_requested' = TRUE
  /\ IF status = "queued" THEN Finalize("cancelled", Report(0, 0, <<>>))
                          ELSE UNCHANGED <<status, result>>
  /\ UNCHANGED <<env, at, i, spreads, color_conversion, merge, locals, object>>

\* The job was cancelled while it waited.
SkipStale ==
  /\ at = "queued" /\ status \in TERMINAL
  /\ Goto("over")
  /\ UNCHANGED <<env, i, cancel_requested, spreads, color_conversion, merge,
                 locals, object>>

\* run_job starts (no flag is set yet) and suspends in the first capture.
Start ==
  /\ at = "queued" /\ status = "queued"
  /\ at' = "capture" /\ i' = 1 /\ status' = "running"
  /\ spreads' = [k \in 1..req.n |-> IF k = 1 THEN "rendering" ELSE "pending"]
  /\ color_conversion' = "pending" /\ merge' = "pending"
  /\ UNCHANGED <<env, cancel_requested, result, locals, object>>

-----------------------------------------------------------------------------
(* R1: the spreads.                                                        *)

Resumed(p) == at = p /\ cancelling = "no"

\* What run_job reports when it ends itself.
Own(errs) == Report(rendered', failed_count', errs)

IccFound(errs) ==
  /\ errors' = errs /\ color_conversion' = "running"
  /\ ReadBack("convert")

IccRefusedUnmarked(errs) ==                                     \* mutant
  /\ errors' = Append(errs, "color") /\ UNCHANGED color_conversion
  /\ End("failed", Own(errors'))

IccRefused(errs) ==
  /\ errors' = Append(errs, "color") /\ color_conversion' = "failed"
  /\ End("failed", Own(errors'))

\* resolve_icc: only a customer profile is fetched, and only that suspends.
ResolveIcc(errs) ==
  \/ /\ req.color = "rgb" /\ errors' = errs
     /\ ReadBack("convert") /\ UNCHANGED color_conversion
  \/ /\ req.color = "customer" /\ errors' = errs
     /\ Goto("icc") /\ UNCHANGED color_conversion
  \/ req.color = "bundled" /\ (IccFound(errs) \/ IccRefused(errs))

AfterSpreadsAllOrNothing(errs) ==                               \* mutant
  IF failed_count' > 0
    THEN /\ errors' = Append(errs, "all_failed") /\ UNCHANGED color_conversion
         /\ End("failed", Report(0, failed_count', errors'))
    ELSE ResolveIcc(errs)

\* After the loop.  That no spread rendered is looked at before the flag.
AfterSpreads(errs) ==
  IF page_pngs' = <<>>
    THEN /\ errors' = Append(errs, "all_failed") /\ UNCHANGED color_conversion
         /\ End("failed", Report(0, failed_count', errors'))
    ELSE IF cancel_requested
      THEN /\ errors' = errs /\ UNCHANGED color_conversion
           /\ End("cancelled", Own(errs))
      ELSE ResolveIcc(errs)

CountedByPages(outcome, pages) ==                               \* mutant
  /\ rendered' = rendered + Len(pages)
  /\ failed_count' = IF outcome = "failed" THEN failed_count + 1 ELSE failed_count

Counted(outcome, pages) ==
  /\ rendered' = IF outcome = "done" THEN rendered + 1 ELSE rendered
  /\ failed_count' = IF outcome = "failed" THEN failed_count + 1 ELSE failed_count

\* The rest of the loop's body for spread i, and the head of the next round.
SpreadEnds(outcome, pages) ==
  LET marked == [spreads EXCEPT ![i] = outcome]
      errs == IF outcome = "failed" THEN Append(errors, "render") ELSE errors
  IN
  /\ Counted(outcome, pages)
  /\ page_pngs' = page_pngs \o pages
  /\ IF i = req.n
       THEN AfterSpreads(errs) /\ spreads' = marked /\ UNCHANGED i
       ELSE /\ errors' = errs /\ UNCHANGED color_conversion
            /\ IF cancel_requested
                 THEN /\ End("cancelled", Own(errs))
                      /\ spreads' = marked /\ UNCHANGED i
                 ELSE /\ Goto("capture") /\ i' = i + 1
                      /\ spreads' = [marked EXCEPT ![i + 1] = "rendering"]
  /\ UNCHANGED <<env, cancel_requested, merge, page_pdfs, merged, object>>

Captured ==
  /\ Resumed("capture")
  /\ IF i \in req.split
       THEN /\ Goto("crop")
            /\ UNCHANGED <<env, i, cancel_requested, spreads, color_conversion,
                           merge, locals, object>>
       ELSE SpreadEnds("done", PagesOf(i))

\* RenderError: the spread is recorded as failed and the loop goes on.
CaptureFails == Resumed("capture") /\ SpreadEnds("failed", <<>>)

CroppedSwapped ==                                               \* mutant
  Resumed("crop") /\ SpreadEnds("done", <<<<i, "right">>, <<i, "left">>>>)

Cropped == Resumed("crop") /\ SpreadEnds("done", PagesOf(i))

-----------------------------------------------------------------------------
(* R3: the customer's profile, then the conversion of each page.           *)

CustomerIcc ==
  /\ Resumed("icc")
  /\ UNCHANGED <<rendered, failed_count>>
  /\ IccFound(errors) \/ IccRefused(errors)
  /\ UNCHANGED <<env, i, cancel_requested, spreads, merge, page_pngs, page_pdfs,
                 merged, object>>

\* One page is converted; after the last the flag is looked at again.
Converted ==
  /\ Resumed("convert")
  /\ page_pdfs' = Append(page_pdfs, page_pngs[Len(page_pdfs) + 1])
  /\ UNCHANGED <<rendered, failed_count>>
  /\ IF Len(page_pdfs') < Len(page_pngs)
       THEN Goto("convert") /\ UNCHANGED <<color_conversion, merge>>
       ELSE /\ color_conversion' = IF req.color = "rgb" THEN color_conversion
                                                        ELSE "done"
            /\ IF cancel_requested
                 THEN End("cancelled", Own(errors)) /\ UNCHANGED merge
                 ELSE Goto("merge") /\ merge' = "running"
  /\ UNCHANGED <<env, i, cancel_requested, spreads, errors, page_pngs, merged,
                 object>>

\* ColorConversionError, which only the CMYK conversion raises.
ConvertFails ==
  /\ Resumed("convert") /\ req.color # "rgb"
  /\ UNCHANGED <<rendered, failed_count>>
  /\ IccRefused(errors)
  /\ UNCHANGED <<env, i, cancel_requested, spreads, merge, page_pngs, page_pdfs,
                 merged, object>>

-----------------------------------------------------------------------------
(* R2: merge, and PDF/X assembly when the profile is a bundled one.        *)

MergeOverUnchecked ==                                           \* mutant
  merge' = "done" /\ Goto("upload") /\ put' = "sent"

MergeOverSendsFirst ==                                          \* mutant
  /\ merge' = "done" /\ put' = "sent"
  /\ IF cancel_requested THEN End("cancelled", Own(errors)) ELSE Goto("upload")

MergeOverUnmarked ==                                            \* mutant
  /\ UNCHANGED merge
  /\ IF cancel_requested
       THEN End("cancelled", Own(errors)) /\ UNCHANGED put
       ELSE Goto("upload") /\ put' = "sent"

\* The merged PDF is done: the last look at the flag, then it is read back and
\* the PUT is sent.
MergeOver ==
  /\ merge' = "done"
  /\ IF cancel_requested
       THEN End("cancelled", Own(errors)) /\ UNCHANGED put
       ELSE \/ Goto("upload") /\ put' = "sent"
            \/ Crash /\ UNCHANGED put

Merged ==
  /\ Resumed("merge")
  /\ merged' = [pages |-> page_pdfs, intent |-> FALSE]
  /\ UNCHANGED <<rendered, failed_count>>
  /\ IF req.color = "bundled"
       THEN Goto("assemble") /\ UNCHANGED <<merge, put>>
       ELSE MergeOver
  /\ UNCHANGED <<env, i, cancel_requested, spreads, color_conversion, errors,
                 page_pngs, page_pdfs, stored>>

Assembled ==
  /\ Resumed("assemble")
  /\ merged' = [pages |-> merged.pages, intent |-> TRUE]
  /\ UNCHANGED <<rendered, failed_count>>
  /\ MergeOver
  /\ UNCHANGED <<env, i, cancel_requested, spreads, color_conversion, errors,
                 page_pngs, page_pdfs, stored>>

MergeFails ==
  /\ at \in {"merge", "assemble"} /\ Resumed(at)
  /\ merge' = "failed" /\ errors' = Append(errors, "merge")
  /\ UNCHANGED <<rendered, failed_count>>
  /\ End("failed", Own(errors'))
  /\ UNCHANGED <<env, i, cancel_requested, spreads, color_conversion, page_pngs,
                 page_pdfs, merged, object>>

-----------------------------------------------------------------------------
(* R4: the PUT.  The service stores the object when the request reaches it,*)
(* which may be after the worker has given up on the answer.               *)

StorageStores ==
  /\ put = "sent"
  /\ put' = "stored" /\ stored' = merged
  /\ UNCHANGED <<env, at, i, status, cancel_requested, spreads,
                 color_conversion, merge, result, locals>>

UploadDoneUnanswered ==                                         \* mutant
  /\ Resumed("upload")
  /\ UNCHANGED locals
  /\ End("completed", Own(errors))
  /\ UNCHANGED <<env, i, cancel_requested, spreads, color_conversion, merge,
                 object>>

UploadDone ==
  /\ Resumed("upload") /\ put = "stored"
  /\ UNCHANGED locals
  /\ End("completed", Delivery(rendered, failed_count, errors))
  /\ UNCHANGED <<env, i, cancel_requested, spreads, color_conversion, merge,
                 object>>

\* StorageUploadError
UploadRefused ==
  /\ errors' = Append(errors, "upload") /\ UNCHANGED color_conversion
  /\ End("failed", Own(errors'))

UploadFails ==
  /\ Resumed("upload")
  /\ UNCHANGED <<rendered, failed_count, page_pngs, page_pdfs, merged>>
  /\ UploadRefused
  /\ UNCHANGED <<env, i, cancel_requested, spreads, merge, object>>

-----------------------------------------------------------------------------
(* The consumer finalizes what run_job did not, with an empty report.      *)

Abandoned(s, p, why) ==
  /\ Finalize(s, Report(0, 0, why)) /\ at' = p /\ cancelling' = "no"
  /\ UNCHANGED <<req, server, timer, i, cancel_requested, spreads,
                 color_conversion, merge, locals, object>>

\* An exception no clause of run_job expects: a file that cannot be written,
\* an image that cannot be decoded, a browser that fails to close.
Raises ==
  /\ at \in {"capture", "crop", "convert", "upload"} /\ Resumed(at)
  /\ Abandoned("failed", "over", <<"internal">>)

Active == at \notin {"new", "queued", "over", "aborted"}

Timeout ==
  /\ Active /\ cancelling = "no"
  /\ timer = "set" /\ timer' = "fired" /\ cancelling' = "timeout"
  /\ UNCHANGED <<req, server, at, i, status, cancel_requested, spreads,
                 color_conversion, merge, result, locals, object>>

StopBegin ==
  /\ Active /\ server = "up"
  /\ server' = "draining" /\ cancel_requested' = TRUE
  /\ UNCHANGED <<req, timer, cancelling, at, i, status, spreads, color_conversion,
                 merge, result, locals, object>>

DrainDeadline ==
  /\ Active /\ server = "draining"
  /\ server' = "aborting" /\ cancelling' = "shutdown"
  /\ UNCHANGED <<req, timer, at, i, status, cancel_requested, spreads,
                 color_conversion, merge, result, locals, object>>

Unwound ==
  \/ Active /\ cancelling = "timeout" /\ Abandoned("failed", "over", <<"timeout">>)
  \/ Active /\ cancelling = "shutdown" /\ Abandoned("cancelled", "aborted", <<>>)

\* A clean-up raises on the way out, in the place of CancelledError.  Nothing
\* expects it in capture_spread; the fetch of a profile takes it for a failure
\* of its own; and put_object, if it is a TransportError, for one of its two
\* attempts: after the first it goes on.  A thread is not waited for.
UnwindRaises ==
  /\ Active /\ cancelling # "no" /\ cancelling' = "no"
  /\ UNCHANGED <<req, server, timer, i, cancel_requested, spreads, merge, rendered,
                 failed_count, page_pngs, page_pdfs, merged, object>>
  /\ \/ /\ at \in {"capture", "upload"}
        /\ Crash /\ UNCHANGED <<errors, color_conversion>>
     \/ at = "icc" /\ IccRefused(errors)
     \/ at = "upload" /\ UploadRefused
     \/ /\ at = "upload"
        /\ Goto("upload") /\ UNCHANGED <<errors, color_conversion>>

-----------------------------------------------------------------------------
RunJob == \/ Captured \/ CaptureFails \/ Cropped
          \/ CustomerIcc \/ Converted \/ ConvertFails
          \/ Merged \/ Assembled \/ MergeFails
          \/ UploadDone \/ UploadFails \/ Raises

Next ==
  \/ Submit \/ Cancel \/ SkipStale \/ Start
  \/ RunJob
  \/ StorageStores
  \/ Timeout \/ Unwound \/ UnwindRaises
  \/ StopBegin \/ DrainDeadline

Spec == Init /\ [][Next]_vars

-----------------------------------------------------------------------------
(* Invariants.                                                             *)

Elements(seq) == {seq[k] : k \in DOMAIN seq}
Pages == (1..MaxSpreads) \X {"whole", "left", "right"}
Pdfs == [pages : Seq(Pages), intent : BOOLEAN]
Stages == {"none", "render", "all_failed", "color", "merge", "upload",
           "internal", "timeout"}
With(state) == {k \in 1..req.n : spreads[k] = state}

\* Type invariant, with the bounds of the counters and of the page lists.
TypeOK ==
  /\ req \in Requests
  /\ server \in {"up", "draining", "aborting"}
  /\ timer \in {"set", "fired"}
  /\ cancelling \in {"no", "timeout", "shutdown"}
  /\ at \in {"new", "queued", "capture", "crop", "icc", "convert", "merge",
             "assemble", "upload", "over", "aborted"}
  /\ i \in 1..req.n
  /\ status \in {"none", "queued", "running"} \cup TERMINAL
  /\ cancel_requested \in BOOLEAN
  /\ spreads \in [1..req.n -> {"pending", "rendering", "done", "failed"}]
  /\ color_conversion \in {"none", "pending", "running", "done", "failed"}
  /\ merge \in {"none", "pending", "running", "done", "failed"}
  /\ rendered \in 0..req.n /\ failed_count \in 0..req.n
  /\ errors \in Seq(Stages)
  /\ page_pngs \in Seq(Pages) /\ Len(page_pngs) <= 2 * req.n
  /\ page_pdfs \in Seq(Pages) /\ Len(page_pdfs) <= Len(page_pngs)
  /\ merged \in Pdfs /\ stored \in Pdfs
  /\ put \in {"none", "sent", "stored"}
  /\ result \in [rendered : 0..req.n, failed : 0..req.n, errors : Seq(Stages),
                 media : BOOLEAN, page_count : 0..(2 * req.n), intent : BOOLEAN]

\* run_job (or the cancel of a waiting job) wrote the result, not the consumer
\* after a timeout, a shutdown or an exception.
OwnResult ==
  /\ status \in TERMINAL /\ at # "aborted"
  /\ Elements(result.errors) \cap {"internal", "timeout"} = {}

\* The two things the orchestrator reads of a finished job agree, whatever mix
\* of failures and cancels produced them: the counts and errors of the result
\* are those of the progress maps.
ResultAgreesWithProgress ==
  OwnResult =>
    /\ result.rendered = Cardinality(With("done"))
    /\ result.failed = Cardinality(With("failed"))
    /\ ("render" \in Elements(result.errors)) = (With("failed") # {})
    /\ ("color" \in Elements(result.errors)) = (color_conversion = "failed")
    /\ ("merge" \in Elements(result.errors)) = (merge = "failed")
    /\ With("rendering") = {}

\* What a poll shows is a prefix of the pipeline: no stage has started before
\* the one it needs is finished, and the PUT is the last.
StagesInOrder ==
  LET started(stage) == stage \in {"running", "done", "failed"} IN
  /\ started(color_conversion) \/ started(merge) =>
       With("done") # {} /\ With("done") \cup With("failed") = 1..req.n
  /\ started(merge) =>
       color_conversion = IF req.color = "rgb" THEN "pending" ELSE "done"
  /\ put # "none" => merge = "done"

Before(p, q) == p[1] < q[1] \/ (p[1] = q[1] /\ p[2] = "left" /\ q[2] = "right")

\* The object a completed job announces is in the storage service, and it is
\* the pages of the rendered spreads, all of them, each once, in the order of
\* the request, the left half of a double page before the right one.
CompletedIsFaithful ==
  status = "completed" =>
    /\ put = "stored" /\ result.media /\ result.page_count = Len(stored.pages)
    /\ Elements(stored.pages) = UNION {Elements(PagesOf(k)) : k \in With("done")}
    /\ \A a, b \in DOMAIN stored.pages :
         a < b => Before(stored.pages[a], stored.pages[b])

\* A cancelled job leaves no object behind: no PUT was sent for it, unless the
\* shutdown tore it out of its upload.
CancelledStoresNothing ==
  status = "cancelled" /\ at # "aborted" => put = "none"

\* Spreads are isolated: a job fails by itself only if a later stage failed or
\* if not one of its spreads rendered.
SpreadFailuresAreIsolated ==
  status = "failed" /\ OwnResult =>
    \/ color_conversion = "failed" \/ merge = "failed" \/ put # "none"
    \/ With("done") = {}

\* The CMYK route ends with a PDF/X OutputIntent in the file: the one the
\* result announces is the one the stored PDF carries.
ReportedIntentIsEmbedded ==
  status = "completed" => (result.intent => stored.intent)

-----------------------------------------------------------------------------
(* Action properties.                                                      *)

jobRecord == <<status, result, spreads, color_conversion, merge>>

\* Nothing writes to the record of a finished job: run_job is not running any
\* more when another task finalizes it.
FinishedRecordIsFrozen == [][(status \in TERMINAL) => UNCHANGED jobRecord]_vars

\* How many more resumptions run_job needs at most: two for each spread to come
\* and two for its conversions, then the profile, merge, assembly and upload ...
Rest == [capture |-> 6, crop |-> 5, icc |-> 4, convert |-> 3, merge |-> 3,
         assemble |-> 2, upload |-> 1]

\* ... or, once the flag is set, those before its next look at the flag.
RestIfFlagged == [capture |-> 2, crop |-> 1, icc |-> 1, convert |-> 0, merge |-> 2,
                  assemble |-> 1, upload |-> 1]

ToRender  == IF at \in {"capture", "crop"} THEN 4 * (req.n - i) + 2 ELSE 0
ToConvert == Len(page_pngs) - Len(page_pdfs)

StepsLeft ==
  IF ~Active THEN 0
  ELSE IF cancel_requested
    THEN RestIfFlagged[at] + (IF at \in {"icc", "convert"} THEN ToConvert ELSE 0)
    ELSE Rest[at] + ToRender + ToConvert

\* run_job comes to its end by itself, in a number of resumptions that the
\* request bounds, and a cancel or the shutdown's flag bounds it anew: by what
\* the suspension it strikes has left, a conversion of all pages at the most.
\* No resumption is for nothing, and nobody else sends run_job back.
RunJobAdvances ==
  [][/\ RunJob => StepsLeft' < StepsLeft
     /\ Active => StepsLeft' <= StepsLeft]_vars

-----------------------------------------------------------------------------
(* run_job as ExportWorker abstracts it: the same job, alone in the worker.*)

Run == INSTANCE ExportWorker WITH
  Jobs <- {"job"}, NoJob <- "none", QueueMax <- 1, CleanupMayRaise <- TRUE,
  status <- [j \in {"job"} |-> status],
  cancel_requested <- [j \in {"job"} |-> cancel_requested],
  queue <- IF at = "queued" THEN <<"job">> ELSE <<>>,
  consumer <- IF at \in {"new", "queued"} THEN "waiting" ELSE
              IF at = "over" THEN "looping" ELSE
              IF at = "aborted" THEN "dead" ELSE "running",
  current <- IF Active THEN "job" ELSE "none",
  phase <- IF at \in {"capture", "crop"} THEN "render" ELSE
           IF at \in {"icc", "convert"} THEN "color" ELSE
           IF at \in {"merge", "assemble"} THEN "merge" ELSE
           IF at = "upload" THEN "upload" ELSE "idle",
  left <- IF at \in {"capture", "crop"} THEN req.n - i ELSE 0,
  timer <- IF Active THEN timer ELSE "set",
  ahead <- [j \in {"job"} |-> {}]

\* The phases, boundaries and endings that ExportWorker gives a run are those
\* of run_job: its queue, shutdown and timeout properties carry over.
ImplementsRun == Run!Spec

(* The storage service as run_job sees it is what put_object makes of it.  *)

Put == INSTANCE PutContract WITH
  Puts <- {"job"},
  put <- [p \in {"job"} |-> put],
  outcome <- [p \in {"job"} |-> IF put = "none" THEN "none" ELSE
                                IF at = "upload" THEN "pending" ELSE
                                IF status = "completed" THEN "url" ELSE "error"]

\* run_job's upload is the one of PutContract, which StorageUpload implements:
\* one PUT, a URL only for a stored PDF, and after an abort a late store.
UsesPutContract == Put!Spec

=============================================================================
