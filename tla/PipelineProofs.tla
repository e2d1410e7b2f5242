--------------------------- MODULE PipelineProofs ---------------------------
(***************************************************************************)
(* Theorems about Pipeline, for every bound on the number of spreads.      *)
(*                                                                         *)
(* The inductive invariant IInv has seven parts, each with the lemmas that *)
(* the handlers, the loop over the spreads, the stages after it and the    *)
(* environment keep it: types; what status and at say of each other; the   *)
(* progress at each place of run_job; the counters and the page list as    *)
(* sums over the progress ("books"); the errors told so far; the files;    *)
(* and what the record of the job says ("endings").                        *)
(***************************************************************************)
EXTENDS Pipeline, SequenceTheorems, FiniteSetTheorems, TLAPS

\* Types that every step keeps, without the bounds that need more.
Types ==
  /\ req \in Requests /\ i \in 1..req.n
  /\ server \in {"up", "draining", "aborting"}
  /\ timer \in {"set", "fired"}
  /\ cancelling \in {"no", "timeout", "shutdown"}
  /\ at \in {"new", "queued", "capture", "crop", "icc", "convert", "merge",
             "assemble", "upload", "over", "aborted"}
  /\ status \in {"none", "queued", "running"} \cup TERMINAL
  /\ cancel_requested \in BOOLEAN
  /\ spreads \in [1..req.n -> {"pending", "rendering", "done", "failed"}]
  /\ color_conversion \in {"none", "pending", "running", "done", "failed"}
  /\ merge \in {"none", "pending", "running", "done", "failed"}
  /\ put \in {"none", "sent", "stored"}
  /\ rendered \in Nat /\ failed_count \in Nat

\* The status follows the place; CancelledError travels only in a run.
Control ==
  /\ at = "new" <=> status = "none"
  /\ at = "queued" => status \in {"queued", "cancelled"}
  /\ Active => status = "running"
  /\ at \in {"over", "aborted"} => status \in TERMINAL
  /\ cancelling # "no" => Active

-----------------------------------------------------------------------------
(* How the body of the loop can end.                                       *)

Errs(outcome) == IF outcome = "failed" THEN Append(errors, "render") ELSE errors
Marked(outcome) == [spreads EXCEPT ![i] = outcome]

NextSpread(outcome) ==
  /\ i # req.n /\ ~cancel_requested
  /\ at' = "capture" /\ i' = i + 1
  /\ spreads' = [Marked(outcome) EXCEPT ![i + 1] = "rendering"]
  /\ errors' = Errs(outcome)
  /\ UNCHANGED <<status, result, color_conversion>>

\* run_job ends; by an exception that it does not expect, if it crashed.
Ends(s, r) == at' = "over" /\ status' = s /\ result' = r
Crashed == Ends("failed", Report(0, 0, <<"internal">>))

Stops(outcome, s, r) ==
  /\ Ends(s, r)
  /\ spreads' = Marked(outcome) /\ UNCHANGED i

StopsAtFlag(outcome) ==
  /\ cancel_requested /\ (i = req.n => page_pngs' # <<>>)
  /\ errors' = Errs(outcome) /\ UNCHANGED color_conversion
  /\ Stops(outcome, "cancelled", Report(rendered', failed_count', errors'))

StopsWithNone(outcome) ==
  /\ i = req.n /\ page_pngs' = <<>>
  /\ errors' = Append(Errs(outcome), "all_failed") /\ UNCHANGED color_conversion
  /\ Stops(outcome, "failed", Report(0, failed_count', errors'))

StopsAtIcc(outcome) ==
  /\ i = req.n /\ page_pngs' # <<>> /\ ~cancel_requested /\ req.color = "bundled"
  /\ errors' = Append(Errs(outcome), "color") /\ color_conversion' = "failed"
  /\ Stops(outcome, "failed", Report(rendered', failed_count', errors'))

\* A page of a bundled profile's job, or of one without, cannot be read back.
StopsReading(outcome) ==
  /\ i = req.n /\ page_pngs' # <<>> /\ ~cancel_requested
  /\ color_conversion' = IF req.color = "bundled" THEN "running" ELSE color_conversion
  /\ errors' = Errs(outcome)
  /\ Stops(outcome, "failed", Report(0, 0, <<"internal">>))

LeavesLoop(outcome) ==
  /\ i = req.n /\ page_pngs' # <<>> /\ ~cancel_requested
  /\ \/ req.color = "rgb" /\ at' = "convert" /\ UNCHANGED color_conversion
     \/ req.color = "customer" /\ at' = "icc" /\ UNCHANGED color_conversion
     \/ req.color = "bundled" /\ at' = "convert" /\ color_conversion' = "running"
  /\ errors' = Errs(outcome)
  /\ spreads' = Marked(outcome) /\ UNCHANGED <<i, status, result>>

Body(outcome, pages) ==
  /\ Counted(outcome, pages) /\ page_pngs' = page_pngs \o pages
  /\ UNCHANGED <<env, cancel_requested, merge, page_pdfs, merged, object>>
  /\ \/ NextSpread(outcome) \/ StopsAtFlag(outcome) \/ StopsWithNone(outcome)
     \/ StopsAtIcc(outcome) \/ StopsReading(outcome) \/ LeavesLoop(outcome)

LEMMA EndMeans ==
  ASSUME status = "running", NEW s, NEW r, End(s, r)
  PROVE  at' = "over" /\ status' = s /\ result' = r
BY DEF End, Finalize, TERMINAL

LEMMA CrashMeans == status = "running" /\ Crash => Crashed
BY EndMeans DEF Crash, Crashed, Ends

LEMMA SpreadEndsMeans ==
  ASSUME Types, status = "running", NEW outcome, NEW pages, SpreadEnds(outcome, pages)
  PROVE  Body(outcome, pages)
<1> DEFINE errs == Errs(outcome)
<1>1. /\ Counted(outcome, pages) /\ page_pngs' = page_pngs \o pages
      /\ UNCHANGED <<env, cancel_requested, merge, page_pdfs, merged, object>>
  BY DEF SpreadEnds
<1>2. CASE i # req.n
  <2>1. /\ errors' = errs /\ UNCHANGED color_conversion
        /\ IF cancel_requested
             THEN /\ End("cancelled", Own(errs))
                  /\ spreads' = Marked(outcome) /\ UNCHANGED i
             ELSE /\ Goto("capture") /\ i' = i + 1
                  /\ spreads' = [Marked(outcome) EXCEPT ![i + 1] = "rendering"]
    BY <1>2 DEF SpreadEnds, Errs, Marked
  <2>2. CASE cancel_requested
    BY <1>1, <1>2, <2>1, <2>2, EndMeans DEF Body, StopsAtFlag, Stops, Ends, Own
  <2>3. CASE ~cancel_requested
    BY <1>1, <1>2, <2>1, <2>3 DEF Body, NextSpread, Goto
  <2> QED BY <2>2, <2>3
<1>3. CASE i = req.n
  <2>1. AfterSpreads(errs) /\ spreads' = Marked(outcome) /\ UNCHANGED i
    BY <1>3 DEF SpreadEnds, Errs, Marked
  <2>2. CASE page_pngs' = <<>>
    BY <1>1, <1>3, <2>1, <2>2, EndMeans DEF AfterSpreads, Body, StopsWithNone, Stops, Ends
  <2>3. CASE page_pngs' # <<>> /\ cancel_requested
    BY <1>1, <1>3, <2>1, <2>3, EndMeans DEF AfterSpreads, Body, StopsAtFlag, Stops, Ends,
       Own
  <2>4. CASE page_pngs' # <<>> /\ ~cancel_requested
    <3>1. ResolveIcc(errs)
      BY <2>1, <2>4 DEF AfterSpreads
    <3>2. CASE req.color = "rgb" /\ errors' = errs /\ ReadBack("convert") /\ UNCHANGED color_conversion
      <4>1. CASE Goto("convert")
        BY <1>1, <1>3, <2>1, <2>4, <3>2, <4>1 DEF Body, LeavesLoop, Goto
      <4>2. CASE Crashed
        BY <1>1, <1>3, <2>1, <2>4, <3>2, <4>2 DEF Body, StopsReading, Stops, Crashed
      <4> QED BY <3>2, <4>1, <4>2, CrashMeans DEF ReadBack
    <3>3. CASE req.color = "customer" /\ errors' = errs /\ Goto("icc") /\ UNCHANGED color_conversion
      BY <1>1, <1>3, <2>1, <2>4, <3>3 DEF Body, LeavesLoop, Goto
    <3>4. CASE req.color = "bundled" /\ IccFound(errs)
      <4>1. CASE Goto("convert")
        BY <1>1, <1>3, <2>1, <2>4, <3>4, <4>1 DEF Body, LeavesLoop, Goto, IccFound
      <4>2. CASE Crashed
        BY <1>1, <1>3, <2>1, <2>4, <3>4, <4>2 DEF Body, StopsReading, Stops, Crashed, IccFound
      <4> QED BY <3>4, <4>1, <4>2, CrashMeans DEF IccFound, ReadBack
    <3>5. CASE req.color = "bundled" /\ IccRefused(errs)
      BY <1>1, <1>3, <2>1, <2>4, <3>5, EndMeans DEF Body, StopsAtIcc, Stops, Ends,
         IccRefused, Own
    <3> QED BY <3>1, <3>2, <3>3, <3>4, <3>5 DEF ResolveIcc
  <2> QED BY <2>2, <2>3, <2>4
<1> QED BY <1>2, <1>3

-----------------------------------------------------------------------------
(* Types and control.                                                      *)

LEMMA RequestFacts ==
  ASSUME req \in Requests
  PROVE  /\ req.n \in Nat \ {0} /\ req.n <= MaxSpreads
         /\ req.split \subseteq 1..req.n
         /\ req.color \in {"rgb", "bundled", "customer"}
BY MaxSpreadsAssumption DEF Requests

LEMMA InitTypes == Init => Types /\ Control
<1> SUFFICES ASSUME Init PROVE Types /\ Control
  OBVIOUS
<1>1. 1 \in 1..req.n
  BY RequestFacts DEF Init
<1> QED BY <1>1 DEF Init, Types, Control, Active, TERMINAL

LEMMA HandlersKeepTypes ==
  ASSUME Types, Control, Submit \/ Cancel \/ SkipStale \/ Start
  PROVE  Types' /\ Control'
<1> USE DEF env, locals, object, TERMINAL
<1>1. CASE Submit
  BY <1>1 DEF Submit, Types, Control, Active
<1>2. CASE Cancel
  BY <1>2 DEF Cancel, Finalize, Types, Control, Active
<1>3. CASE SkipStale
  BY <1>3 DEF SkipStale, Goto, Types, Control, Active
<1>4. CASE Start
  <2>1. 1 \in 1..req.n
    BY RequestFacts DEF Types
  <2> QED BY <1>4, <2>1 DEF Start, Types, Control, Active
<1> QED BY <1>1, <1>2, <1>3, <1>4

LEMMA SpreadsKeepTypes ==
  ASSUME Types, Control, Active, cancelling = "no",
         NEW outcome \in {"done", "failed"}, NEW pages,
         pages \in Seq(Pages),
         Body(outcome, pages)
  PROVE  Types' /\ Control'
<1> USE DEF env, object
<1>1. req.n \in Nat \ {0} /\ i \in 1..req.n
  BY RequestFacts DEF Types
<1>2. /\ UNCHANGED <<req, server, timer, cancelling, cancel_requested, merge, put>>
      /\ rendered' \in Nat /\ failed_count' \in Nat
      /\ status = "running"
  BY DEF Body, Counted, Types, Control
<1>3. CASE NextSpread(outcome)
  <2>1. i' \in 1..req.n /\ at' = "capture" /\ UNCHANGED <<status, color_conversion>>
    BY <1>1, <1>3 DEF NextSpread
  <2>2. spreads' \in [1..req.n -> {"pending", "rendering", "done", "failed"}]
    BY <1>1, <1>3 DEF NextSpread, Marked, Types
  <2> QED BY <1>2, <2>1, <2>2 DEF Types, Control, Active, TERMINAL
<1>4. CASE ~NextSpread(outcome)
  <2>1. /\ UNCHANGED i /\ spreads' = Marked(outcome)
        /\ color_conversion' \in {color_conversion, "running", "failed"}
        /\ \/ at' = "over" /\ status' \in TERMINAL
           \/ at' \in {"icc", "convert"} /\ status' = status
    BY <1>4 DEF Body, StopsAtFlag, StopsWithNone, StopsAtIcc, StopsReading, LeavesLoop, Stops, Ends,
       TERMINAL
  <2>2. spreads' \in [1..req.n -> {"pending", "rendering", "done", "failed"}]
    BY <2>1 DEF Marked, Types
  <2> QED BY <1>2, <2>1, <2>2 DEF Types, Control, Active, TERMINAL
<1> QED BY <1>3, <1>4

LEMMA ProductionKeepsTypes ==
  ASSUME Types, Control,
         \/ CustomerIcc \/ Converted \/ ConvertFails \/ Merged \/ Assembled
         \/ MergeFails \/ UploadDone \/ UploadFails \/ (UnwindRaises /\ at # "capture")
  PROVE  Types' /\ Control'
<1> USE DEF env, locals, object, TERMINAL, Types, Control, Active, End, Finalize, Goto, Resumed
<1>1. CASE CustomerIcc
  BY <1>1 DEF CustomerIcc, IccFound, IccRefused, ReadBack, Crash
<1>2. CASE Converted
  BY <1>2 DEF Converted
<1>3. CASE ConvertFails
  BY <1>3 DEF ConvertFails, IccRefused
<1>4. CASE Merged \/ Assembled
  BY <1>4 DEF Merged, Assembled, MergeOver, Crash
<1>5. CASE MergeFails
  BY <1>5 DEF MergeFails
<1>6. CASE UploadDone
  BY <1>6 DEF UploadDone
<1>7. CASE UploadFails
  BY <1>7 DEF UploadFails, UploadRefused
<1>8. CASE UnwindRaises
  BY <1>8 DEF UnwindRaises, UploadRefused, IccRefused, Crash
<1> QED BY <1>1, <1>2, <1>3, <1>4, <1>5, <1>6, <1>7, <1>8

LEMMA EnvironmentKeepsTypes ==
  ASSUME Types, Control,
         \/ Raises \/ StorageStores \/ Timeout \/ Unwound \/ StopBegin
         \/ DrainDeadline \/ (UnwindRaises /\ at = "capture") \/ UNCHANGED vars
  PROVE  Types' /\ Control'
<1> USE DEF env, locals, object, TERMINAL, Types, Control, Active
<1>1. CASE Raises \/ Unwound
  BY <1>1 DEF Raises, Unwound, Abandoned, Finalize, Resumed
<1>7. CASE UnwindRaises /\ at = "capture"
  BY <1>7 DEF UnwindRaises, Crash, End, Finalize
<1>2. CASE StorageStores
  BY <1>2 DEF StorageStores
<1>3. CASE Timeout
  BY <1>3 DEF Timeout
<1>4. CASE StopBegin
  BY <1>4 DEF StopBegin
<1>5. CASE DrainDeadline
  BY <1>5 DEF DrainDeadline
<1>6. CASE UNCHANGED vars
  BY <1>6 DEF vars
<1> QED BY <1>1, <1>2, <1>3, <1>4, <1>5, <1>6, <1>7

-----------------------------------------------------------------------------
(* The progress at each place of run_job.                                  *)

Untouched ==
  /\ spreads = [k \in 1..req.n |-> "pending"]
  /\ color_conversion = "none" /\ merge = "none"
  /\ rendered = 0 /\ failed_count = 0 /\ errors = <<>>
  /\ page_pngs = <<>> /\ page_pdfs = <<>> /\ merged = NoPdf
  /\ put = "none" /\ stored = NoPdf

Ended(k) == spreads[k] \in {"done", "failed"}

InLoop ==
  at \in {"capture", "crop"} =>
    \A k \in 1..req.n : /\ k < i => Ended(k)
                        /\ k = i => spreads[k] = "rendering"
                        /\ k > i => spreads[k] = "pending"

AfterLoop ==
  at \in {"icc", "convert", "merge", "assemble", "upload"} =>
    page_pngs # <<>> /\ \A k \in 1..req.n : Ended(k)

Converting(c) == IF req.color = "rgb" THEN "pending" ELSE c

StagesByPlace ==
  /\ at \in {"capture", "crop", "icc"} => color_conversion = "pending"
  /\ at = "convert" => color_conversion = Converting("running")
  /\ at \in {"merge", "assemble", "upload"} => color_conversion = Converting("done")
  /\ at \in {"capture", "crop", "icc", "convert"} => merge = "pending"
  /\ at \in {"merge", "assemble"} => merge = "running"
  /\ at = "upload" => merge = "done"
  /\ at = "crop" => i \in req.split
  /\ at = "icc" => req.color = "customer"
  /\ at = "assemble" => req.color = "bundled"
  /\ at \in {"capture", "crop", "icc", "convert", "merge", "assemble"} => put = "none"
  /\ at = "upload" => put # "none"

Places ==
  /\ at \in {"new", "queued"} => Untouched
  /\ InLoop /\ AfterLoop /\ StagesByPlace

LEMMA InitPlaces == Init => Places
BY DEF Init, Places, Untouched, InLoop, AfterLoop, StagesByPlace

LEMMA HandlersKeepPlaces ==
  ASSUME Types, Control, Places, Submit \/ Cancel \/ SkipStale \/ Start
  PROVE  Places'
<1> USE DEF env, locals, object, TERMINAL, Untouched, InLoop, AfterLoop,
            StagesByPlace, Converting, Ended, Places, Types, Control, Active
<1>1. CASE Submit
  BY <1>1 DEF Submit
<1>2. CASE Cancel
  BY <1>2 DEF Cancel, Finalize
<1>3. CASE SkipStale
  BY <1>3 DEF SkipStale, Goto
<1>4. CASE Start
  BY <1>4, RequestFacts DEF Start
<1> QED BY <1>1, <1>2, <1>3, <1>4

LEMMA SpreadsKeepPlaces ==
  ASSUME Types, Control, Places, at \in {"capture", "crop"},
         NEW outcome \in {"done", "failed"}, NEW pages,
         Body(outcome, pages)
  PROVE  Places'
<1>1. req.n \in Nat \ {0} /\ i \in 1..req.n
  BY RequestFacts DEF Types
<1>2. /\ UNCHANGED <<req, merge, put>>
      /\ color_conversion = "pending" /\ merge = "pending" /\ put = "none"
  BY DEF Body, Places, StagesByPlace, env, object
<1>3. CASE NextSpread(outcome)
  <2>1. at' = "capture" /\ UNCHANGED color_conversion
    BY <1>3 DEF NextSpread
  <2>2. /\ i' = i + 1
        /\ \A k \in 1..req.n :
             spreads'[k] = IF k = i + 1 THEN "rendering" ELSE
                           IF k = i THEN outcome ELSE spreads[k]
    BY <1>1, <1>3 DEF NextSpread, Marked, Types
  <2>3. InLoop'
    BY <1>1, <1>2, <2>1, <2>2 DEF Places, InLoop, Ended
  <2> QED BY <1>2, <2>1, <2>3 DEF Places, AfterLoop, StagesByPlace
<1>4. CASE LeavesLoop(outcome)
  <2>1. \A k \in 1..req.n : spreads'[k] = IF k = i THEN outcome ELSE spreads[k]
    BY <1>4 DEF LeavesLoop, Marked, Types
  <2>2. \A k \in 1..req.n : Ended(k)'
    BY <1>1, <1>4, <2>1 DEF LeavesLoop, Places, InLoop, Ended
  <2>3. at' \in {"icc", "convert"} /\ page_pngs' # <<>>
    BY <1>4 DEF LeavesLoop
  <2>4. StagesByPlace'
    BY <1>2, <1>4 DEF LeavesLoop, StagesByPlace, Converting
  <2> QED BY <1>2, <2>2, <2>3, <2>4 DEF Places, InLoop, AfterLoop
<1>5. CASE at' = "over"
  BY <1>5 DEF Places, InLoop, AfterLoop, StagesByPlace
<1> QED BY <1>3, <1>4, <1>5 DEF Body, StopsAtFlag, StopsWithNone, StopsAtIcc, StopsReading,
       Stops, Ends

LEMMA ProductionKeepsPlaces ==
  ASSUME Types, Control, Places,
         \/ CustomerIcc \/ Converted \/ ConvertFails \/ Merged \/ Assembled
         \/ MergeFails \/ UploadDone \/ UploadFails \/ (UnwindRaises /\ at # "capture")
  PROVE  Places'
<1> USE DEF env, locals, object, InLoop, AfterLoop, StagesByPlace, Converting,
            Ended, Places, End, Goto, Resumed
<1>1. CASE CustomerIcc
  BY <1>1 DEF CustomerIcc, IccFound, IccRefused, ReadBack, Crash
<1>2. CASE Converted
  BY <1>2 DEF Converted
<1>3. CASE ConvertFails
  BY <1>3 DEF ConvertFails, IccRefused
<1>4. CASE Merged
  BY <1>4 DEF Merged, MergeOver, Crash
<1>5. CASE Assembled
  BY <1>5 DEF Assembled, MergeOver, Crash
<1>6. CASE MergeFails
  BY <1>6 DEF MergeFails
<1>7. CASE UploadDone \/ UploadFails
  BY <1>7 DEF UploadDone, UploadFails, UploadRefused
<1>8. CASE UnwindRaises /\ at # "capture"
  BY <1>8 DEF UnwindRaises, UploadRefused, IccRefused, Crash
<1> QED BY <1>1, <1>2, <1>3, <1>4, <1>5, <1>6, <1>7, <1>8

LEMMA EnvironmentKeepsPlaces ==
  ASSUME Types, Control, Places,
         \/ Raises \/ StorageStores \/ Timeout \/ Unwound \/ StopBegin
         \/ DrainDeadline \/ (UnwindRaises /\ at = "capture") \/ UNCHANGED vars
  PROVE  Places'
<1> USE DEF env, locals, object, Untouched, InLoop, AfterLoop, StagesByPlace,
            Converting, Ended, Places, Active
<1>1. CASE Raises \/ Unwound
  BY <1>1 DEF Raises, Unwound, Abandoned
<1>7. CASE UnwindRaises /\ at = "capture"
  BY <1>7 DEF UnwindRaises, Crash, End
<1>2. CASE StorageStores
  BY <1>2 DEF StorageStores, Types
<1>3. CASE Timeout
  BY <1>3 DEF Timeout
<1>4. CASE StopBegin
  BY <1>4 DEF StopBegin
<1>5. CASE DrainDeadline
  BY <1>5 DEF DrainDeadline
<1>6. CASE UNCHANGED vars
  BY <1>6 DEF vars
<1> QED BY <1>1, <1>2, <1>3, <1>4, <1>5, <1>6, <1>7

-----------------------------------------------------------------------------
(* Sequences.                                                              *)

LEMMA AppendedElements ==
  ASSUME NEW S, NEW s \in Seq(S), NEW e \in S
  PROVE  /\ Append(s, e) \in Seq(S)
         /\ Len(Append(s, e)) = Len(s) + 1
         /\ \A k \in 1..Len(s) : Append(s, e)[k] = s[k]
         /\ Append(s, e)[Len(s) + 1] = e
         /\ Elements(Append(s, e)) = Elements(s) \cup {e}
<1>1. /\ Append(s, e) \in Seq(S) /\ Len(s) \in Nat
      /\ DOMAIN s = 1..Len(s) /\ DOMAIN Append(s, e) = 1..(Len(s) + 1)
      /\ Len(Append(s, e)) = Len(s) + 1
      /\ \A k \in 1..Len(s) : Append(s, e)[k] = s[k]
      /\ Append(s, e)[Len(s) + 1] = e
  BY AppendProperties, LenProperties
<1>2. Elements(Append(s, e)) = Elements(s) \cup {e}
  BY <1>1 DEF Elements
<1> QED BY <1>1, <1>2

LEMMA ConcatenatedElements ==
  ASSUME NEW S, NEW s \in Seq(S), NEW t \in Seq(S)
  PROVE  /\ s \o t \in Seq(S)
         /\ Len(s \o t) = Len(s) + Len(t)
         /\ Elements(s \o t) = Elements(s) \cup Elements(t)
<1>1. /\ s \o t \in Seq(S) /\ Len(s \o t) = Len(s) + Len(t)
      /\ Len(s) \in Nat /\ Len(t) \in Nat
      /\ DOMAIN s = 1..Len(s) /\ DOMAIN t = 1..Len(t)
      /\ DOMAIN (s \o t) = 1..(Len(s) + Len(t))
      /\ \A k \in 1..(Len(s) + Len(t)) :
           (s \o t)[k] = IF k <= Len(s) THEN s[k] ELSE t[k - Len(s)]
  BY ConcatProperties, LenProperties
<1>2. Elements(s) \cup Elements(t) \subseteq Elements(s \o t)
  <2>1. ASSUME NEW k \in 1..Len(s) PROVE s[k] \in Elements(s \o t)
    <3>1. k \in DOMAIN (s \o t) /\ (s \o t)[k] = s[k]
      BY <1>1
    <3> QED BY <3>1 DEF Elements
  <2>2. ASSUME NEW k \in 1..Len(t) PROVE t[k] \in Elements(s \o t)
    <3>1. k + Len(s) \in DOMAIN (s \o t) /\ (s \o t)[k + Len(s)] = t[k]
      BY <1>1
    <3> QED BY <3>1 DEF Elements
  <2> QED BY <1>1, <2>1, <2>2 DEF Elements
<1>3. Elements(s \o t) \subseteq Elements(s) \cup Elements(t)
  <2>1. ASSUME NEW k \in 1..(Len(s) + Len(t))
        PROVE  (s \o t)[k] \in Elements(s) \cup Elements(t)
    <3>1. CASE k <= Len(s)
      BY <1>1, <3>1 DEF Elements
    <3>2. CASE k > Len(s)
      <4>1. k - Len(s) \in 1..Len(t) /\ (s \o t)[k] = t[k - Len(s)]
        BY <1>1, <3>2
      <4> QED BY <1>1, <4>1 DEF Elements
    <3> QED BY <1>1, <3>1, <3>2
  <2> QED BY <1>1, <2>1 DEF Elements
<1> QED BY <1>1, <1>2, <1>3

LEMMA PagesOfSpread ==
  ASSUME req \in Requests, NEW k \in 1..req.n
  PROVE  /\ PagesOf(k) \in Seq(Pages) /\ Len(PagesOf(k)) \in 1..2
         /\ \A p \in Elements(PagesOf(k)) : p[1] = k
         /\ \A a, b \in DOMAIN PagesOf(k) :
              a < b => Before(PagesOf(k)[a], PagesOf(k)[b])
         /\ PagesOf(k) # <<>>
<1>1. k \in 1..MaxSpreads
  BY RequestFacts, MaxSpreadsAssumption
<1>2. <<k, "left">> \in Pages /\ <<k, "right">> \in Pages /\ <<k, "whole">> \in Pages
  BY <1>1 DEF Pages
<1>3. CASE k \in req.split
  <2> DEFINE l == <<k, "left">>
             r == <<k, "right">>
             s == <<l, r>>
  <2>1. PagesOf(k) = s
    BY <1>3 DEF PagesOf
  <2>2. s \in Seq(Pages) /\ Len(s) = 2 /\ DOMAIN s = 1..2 /\ s[1] = l /\ s[2] = r
    BY <1>2
  <2>3. l[1] = k /\ r[1] = k /\ l[2] = "left" /\ r[2] = "right"
    OBVIOUS
  <2> HIDE DEF s
  <2>4. Elements(s) = {l, r} /\ Len(s) \in 1..2 /\ s # <<>>
    BY <2>2 DEF Elements
  <2>5. \A a, b \in DOMAIN s : a < b => Before(s[a], s[b])
    BY <2>2, <2>3 DEF Before
  <2> QED BY <2>1, <2>2, <2>3, <2>4, <2>5
<1>4. CASE k \notin req.split
  <2> DEFINE w == <<k, "whole">>
             s == <<w>>
  <2>1. PagesOf(k) = s
    BY <1>4 DEF PagesOf
  <2>2. s \in Seq(Pages) /\ Len(s) = 1 /\ DOMAIN s = 1..1 /\ s[1] = w /\ w[1] = k
    BY <1>2
  <2>3. Len(s) \in 1..2 /\ s # <<>>
    BY <2>2
  <2> HIDE DEF s, w
  <2>4. Elements(s) = {w}
    <3>1. DOMAIN s = {1}
      BY <2>2
    <3> QED BY <2>2, <3>1, Zenon DEF Elements
  <2>5. \A a, b \in DOMAIN s : a < b => Before(s[a], s[b])
    BY <2>2
  <2> QED BY <2>1, <2>2, <2>3, <2>4, <2>5
<1> QED BY <1>3, <1>4

-----------------------------------------------------------------------------
(* The locals of run_job summarise the progress of the spreads.            *)

Books ==
  /\ rendered = Cardinality(With("done"))
  /\ failed_count = Cardinality(With("failed"))
  /\ page_pngs \in Seq(Pages)
  /\ Elements(page_pngs) = UNION {Elements(PagesOf(k)) : k \in With("done")}
  /\ \A a, b \in DOMAIN page_pngs : a < b => Before(page_pngs[a], page_pngs[b])
  /\ Len(page_pngs) <= 2 * rendered

\* While the job runs, the only errors told are those of spreads.
Told ==
  /\ errors \in Seq(Stages)
  /\ Active => /\ Elements(errors) \subseteq {"render"}
               /\ "render" \in Elements(errors) <=> With("failed") # {}

LEMMA WithIsFinite ==
  ASSUME Types, NEW state
  PROVE  /\ IsFiniteSet(With(state))
         /\ Cardinality(With(state)) \in 0..req.n
<1>1. req.n \in Nat /\ With(state) \in SUBSET (1..req.n)
  BY RequestFacts DEF Types, With
<1>2. IsFiniteSet(1..req.n) /\ Cardinality(1..req.n) = req.n
  BY <1>1, FS_Interval
<1> QED BY <1>1, <1>2, FS_Subset, FS_CardinalityType

LEMMA InitBooks == Init => Books /\ Told
<1> SUFFICES ASSUME Init PROVE Books /\ Told
  OBVIOUS
<1>1. With("done") = {} /\ With("failed") = {}
  BY DEF Init, With
<1>2. Elements(<<>>) = {} /\ <<>> \in Seq(Pages) /\ <<>> \in Seq(Stages) /\ Len(<<>>) = 0
      /\ DOMAIN <<>> = {}
  BY EmptySeq DEF Elements
<1>3. Books
  <2>1. page_pngs = <<>> /\ rendered = 0 /\ failed_count = 0
    BY DEF Init
  <2>2. Elements(page_pngs) = {} /\ DOMAIN page_pngs = {} /\ Len(page_pngs) = 0
    BY <1>2, <2>1, Zenon
  <2>3. UNION {Elements(PagesOf(k)) : k \in With("done")} = {}
    BY <1>1
  <2>4. rendered = Cardinality(With("done")) /\ failed_count = Cardinality(With("failed"))
    BY <1>1, <2>1, FS_EmptySet
  <2> QED BY <1>2, <2>1, <2>2, <2>3, <2>4 DEF Books
<1>4. Told
  BY <1>2 DEF Init, Told, Active
<1> QED BY <1>3, <1>4

\* The sets of rendered and of failed spreads grow by the one that ends.
LEMMA SpreadIsCounted ==
  ASSUME Types, Places, at \in {"capture", "crop"},
         NEW outcome \in {"done", "failed"}, NEW pages,
         Body(outcome, pages)
  PROVE  /\ UNCHANGED req
         /\ \A state \in {"done", "failed"} :
              /\ i \notin With(state) /\ \A k \in With(state) : k < i
              /\ With(state)' = IF state = outcome THEN With(state) \cup {i} ELSE With(state)
<1>1. req.n \in Nat \ {0} /\ i \in 1..req.n /\ UNCHANGED req
  BY RequestFacts DEF Types, Body, env
<1>2. \A k \in 1..req.n :
         spreads'[k] = IF k = i THEN outcome ELSE
                       IF k = i + 1 /\ NextSpread(outcome) THEN "rendering" ELSE spreads[k]
  <2>1. CASE NextSpread(outcome)
    BY <1>1, <2>1 DEF NextSpread, Marked, Types
  <2>2. CASE ~NextSpread(outcome)
    <3>1. spreads' = Marked(outcome)
      BY <2>2 DEF Body, StopsAtFlag, StopsWithNone, StopsAtIcc, StopsReading, LeavesLoop, Stops
    <3> QED BY <1>1, <2>2, <3>1 DEF Marked, Types
  <2> QED BY <2>1, <2>2
<1>3. \A k \in 1..req.n : /\ k = i => spreads[k] = "rendering"
                          /\ k > i => spreads[k] = "pending"
  BY DEF Places, InLoop
<1>4. ASSUME NEW state \in {"done", "failed"}
      PROVE  /\ i \notin With(state) /\ \A k \in With(state) : k < i
             /\ With(state)' = IF state = outcome THEN With(state) \cup {i} ELSE With(state)
  <2>1. i \notin With(state) /\ \A k \in With(state) : k < i
    BY <1>1, <1>3 DEF With
  <2>2. ASSUME NEW k \in 1..req.n
        PROVE  spreads'[k] = state <=> (k = i /\ state = outcome) \/ spreads[k] = state
    BY <1>1, <1>2, <1>3
  <2>3. With(state)' = {k \in 1..req.n : (k = i /\ state = outcome) \/ spreads[k] = state}
    BY <1>1, <2>2 DEF With
  <2> QED BY <1>1, <2>1, <2>3 DEF With
<1> QED BY <1>1, <1>4

\* The errors name the stage "render" as soon as a spread has failed.
LEMMA ErrorsTell ==
  ASSUME Types, Control, Places, Told, at \in {"capture", "crop"},
         NEW outcome \in {"done", "failed"}, NEW pages,
         Body(outcome, pages)
  PROVE  /\ Errs(outcome) \in Seq(Stages) /\ Elements(Errs(outcome)) \subseteq {"render"}
         /\ "render" \in Elements(Errs(outcome)) <=> With("failed")' # {}
<1>1. With("failed")' = IF outcome = "failed" THEN With("failed") \cup {i} ELSE With("failed")
  BY SpreadIsCounted
<1>2. /\ errors \in Seq(Stages) /\ Elements(errors) \subseteq {"render"}
      /\ "render" \in Elements(errors) <=> With("failed") # {}
  BY DEF Told, Active
<1>3. CASE outcome = "failed"
  <2>1. Errs(outcome) = Append(errors, "render") /\ "render" \in Stages
    BY <1>3 DEF Errs, Stages
  <2>2. Errs(outcome) \in Seq(Stages) /\ Elements(Errs(outcome)) = Elements(errors) \cup {"render"}
    BY <1>2, <2>1, AppendedElements
  <2> QED BY <1>1, <1>2, <1>3, <2>2
<1>4. CASE outcome # "failed"
  BY <1>1, <1>2, <1>4 DEF Errs
<1> QED BY <1>3, <1>4

LEMMA SpreadsKeepBooks ==
  ASSUME Types, Control, Places, Books, Told, at \in {"capture", "crop"},
         NEW outcome \in {"done", "failed"}, NEW pages,
         pages = IF outcome = "done" THEN PagesOf(i) ELSE <<>>,
         Body(outcome, pages)
  PROVE  Books' /\ Told'
<1>1. /\ UNCHANGED req /\ i \in 1..req.n /\ req \in Requests
      /\ \A k \in With("done") : k < i
      /\ \A state \in {"done", "failed"} : i \notin With(state)
      /\ With("done")' = IF outcome = "done" THEN With("done") \cup {i} ELSE With("done")
      /\ With("failed")' = IF outcome = "failed" THEN With("failed") \cup {i} ELSE With("failed")
  BY SpreadIsCounted DEF Types
<1>2. /\ rendered' = IF outcome = "done" THEN rendered + 1 ELSE rendered
      /\ failed_count' = IF outcome = "failed" THEN failed_count + 1 ELSE failed_count
      /\ page_pngs' = page_pngs \o pages
  BY DEF Body, Counted
<1>3. /\ rendered' = Cardinality(With("done")')
      /\ failed_count' = Cardinality(With("failed")')
  <2>1. IsFiniteSet(With("done")) /\ IsFiniteSet(With("failed"))
    BY WithIsFinite
  <2> QED BY <1>1, <1>2, <2>1, FS_AddElement DEF Books
<1>4. /\ pages \in Seq(Pages) /\ Len(pages) \in 0..2
      /\ outcome # "done" => Len(pages) = 0
      /\ Elements(pages) = IF outcome = "done" THEN Elements(PagesOf(i)) ELSE {}
      /\ \A p \in Elements(pages) : p[1] = i
      /\ \A a, b \in DOMAIN pages : a < b => Before(pages[a], pages[b])
  <2>1. CASE outcome = "done"
    BY <1>1, <2>1, PagesOfSpread
  <2>2. CASE outcome # "done"
    <3>1. /\ pages = <<>> /\ <<>> \in Seq(Pages) /\ Len(<<>>) = 0 /\ Elements(<<>>) = {}
          /\ DOMAIN <<>> = {}
      BY <2>2, EmptySeq DEF Elements
    <3> QED BY <2>2, <3>1
  <2> QED BY <2>1, <2>2
<1>5. /\ page_pngs' \in Seq(Pages)
      /\ Len(page_pngs') = Len(page_pngs) + Len(pages)
      /\ Elements(page_pngs') = Elements(page_pngs) \cup Elements(pages)
  <2>1. page_pngs \in Seq(Pages) /\ pages \in Seq(Pages)
    BY <1>4 DEF Books
  <2>2. /\ page_pngs \o pages \in Seq(Pages)
        /\ Len(page_pngs \o pages) = Len(page_pngs) + Len(pages)
        /\ Elements(page_pngs \o pages) = Elements(page_pngs) \cup Elements(pages)
    BY <2>1, ConcatenatedElements
  <2> QED BY <1>2, <2>2, Zenon
<1>6. Len(page_pngs') <= 2 * rendered'
  <2> DEFINE n == Len(page_pngs)  m == Len(pages)
  <2>1. /\ n \in Nat /\ n <= 2 * rendered /\ rendered \in Nat
        /\ m \in 0..2 /\ (outcome # "done" => m = 0)
    BY <1>4, LenProperties DEF Books, Types
  <2>2. Len(page_pngs') = n + m
    BY <1>5
  <2> HIDE DEF n, m
  <2>3. n + m <= 2 * rendered'
    BY <1>2, <2>1
  <2> QED BY <2>2, <2>3
<1>7. Elements(page_pngs') = UNION {Elements(PagesOf(k)') : k \in With("done")'}
  <2>1. \A k : PagesOf(k)' = PagesOf(k)
    BY <1>1 DEF PagesOf
  <2>2. Elements(page_pngs) = UNION {Elements(PagesOf(k)) : k \in With("done")}
    BY DEF Books
  <2> QED BY <1>1, <1>4, <1>5, <2>1, <2>2
<1>8. ASSUME NEW a \in DOMAIN page_pngs', NEW b \in DOMAIN page_pngs', a < b
      PROVE  Before(page_pngs'[a], page_pngs'[b])
  <2> DEFINE n == Len(page_pngs)
  <2>1. /\ n \in Nat /\ Len(pages) \in Nat
        /\ DOMAIN page_pngs = 1..n /\ DOMAIN pages = 1..Len(pages)
        /\ DOMAIN page_pngs' = 1..(n + Len(pages))
        /\ \A k \in 1..(n + Len(pages)) :
             page_pngs'[k] = IF k <= n THEN page_pngs[k] ELSE pages[k - n]
    BY <1>2, <1>4, <1>5, ConcatProperties, LenProperties DEF Books
  <2>2. CASE b <= n
    BY <1>8, <2>1, <2>2 DEF Books
  <2>3. CASE a > n
    <3>1. /\ a - n \in DOMAIN pages /\ b - n \in DOMAIN pages /\ a - n < b - n
          /\ page_pngs'[a] = pages[a - n] /\ page_pngs'[b] = pages[b - n]
      BY <1>8, <2>1, <2>3
    <3> QED BY <1>4, <3>1
  <2>4. CASE a <= n /\ b > n
    <3>1. /\ page_pngs'[a] = page_pngs[a] /\ a \in DOMAIN page_pngs
          /\ page_pngs'[b] = pages[b - n] /\ b - n \in DOMAIN pages
      BY <1>8, <2>1, <2>4
    <3>2. page_pngs[a] \in Elements(page_pngs) /\ pages[b - n] \in Elements(pages)
      BY <3>1 DEF Elements
    <3>3. PICK k \in With("done") : page_pngs[a] \in Elements(PagesOf(k))
      BY <3>2 DEF Books
    <3>4. page_pngs[a][1] = k /\ k < i
      BY <1>1, <3>3, PagesOfSpread DEF With
    <3> QED BY <1>4, <3>1, <3>2, <3>4 DEF Before
  <2> QED BY <2>1, <2>2, <2>3, <2>4
<1>9. Books'
  BY <1>3, <1>5, <1>6, <1>7, <1>8 DEF Books
<1>10. /\ Errs(outcome) \in Seq(Stages) /\ Elements(Errs(outcome)) \subseteq {"render"}
       /\ "render" \in Elements(Errs(outcome)) <=> With("failed")' # {}
  BY ErrorsTell
<1>11. Told'
  <2>1. CASE \/ NextSpread(outcome) \/ LeavesLoop(outcome) \/ StopsAtFlag(outcome)
             \/ StopsReading(outcome)
    <3>1. errors' = Errs(outcome)
      BY <2>1 DEF NextSpread, LeavesLoop, StopsAtFlag, StopsReading
    <3> QED BY <1>10, <3>1 DEF Told
  <2>2. CASE StopsWithNone(outcome) \/ StopsAtIcc(outcome)
    <3>1. at' = "over" /\ \E e \in Stages : errors' = Append(Errs(outcome), e)
      BY <2>2 DEF StopsWithNone, StopsAtIcc, Stops, Ends, Stages
    <3>2. errors' \in Seq(Stages)
      BY <1>10, <3>1, AppendedElements
    <3> QED BY <3>1, <3>2 DEF Told, Active
  <2> QED BY <2>1, <2>2 DEF Body
<1> QED BY <1>9, <1>11

-----------------------------------------------------------------------------
\* What the steps outside the loop do to the books: nothing.
LEMMA UntouchedBooks ==
  ASSUME Types, Books, UNCHANGED <<req, rendered, failed_count, page_pngs>>,
         \A state \in {"done", "failed"} : With(state)' = With(state)
  PROVE  Books'
<1>1. \A k : PagesOf(k)' = PagesOf(k)
  BY DEF PagesOf
<1>2. UNION {Elements(PagesOf(k)') : k \in With("done")'}
        = UNION {Elements(PagesOf(k)) : k \in With("done")}
  BY <1>1
<1>3. Elements(page_pngs') = UNION {Elements(PagesOf(k)') : k \in With("done")'}
  BY <1>2 DEF Books
<1>4. \A a, b \in DOMAIN page_pngs' : a < b => Before(page_pngs'[a], page_pngs'[b])
  BY DEF Books
<1> QED BY <1>3, <1>4 DEF Books

LEMMA HandlersKeepBooks ==
  ASSUME Types, Control, Places, Books, Told, Submit \/ Cancel \/ SkipStale \/ Start
  PROVE  Books' /\ Told'
<1>1. CASE Submit \/ Cancel \/ SkipStale
  <2>1. UNCHANGED <<req, rendered, failed_count, page_pngs, errors, spreads>>
    BY <1>1 DEF Submit, Cancel, SkipStale, env, locals
  <2>2. Active' => Active
    BY <1>1 DEF Submit, Cancel, SkipStale, Goto, Active
  <2>3. \A state : With(state)' = With(state)
    BY <2>1 DEF With
  <2> QED BY <2>1, <2>2, <2>3, UntouchedBooks DEF Told
<1>2. CASE Start
  <2>1. UNCHANGED <<req, rendered, failed_count, page_pngs, errors>> /\ errors = <<>>
    BY <1>2 DEF Start, env, locals, Places, Untouched
  <2>2. \A k \in 1..req.n : spreads[k] = "pending"
                            /\ spreads'[k] \in {"rendering", "pending"}
    BY <1>2, <2>1 DEF Start, Places, Untouched
  <2>3. \A state \in {"done", "failed"} : With(state) = {} /\ With(state)' = {}
    BY <2>1, <2>2 DEF With
  <2>4. Elements(<<>>) = {}
    BY DEF Elements
  <2>5. Elements(errors') = {}
    BY <2>1, <2>4, Zenon
  <2> QED BY <2>1, <2>3, <2>5, UntouchedBooks DEF Told
<1> QED BY <1>1, <1>2

LEMMA ProductionKeepsBooks ==
  ASSUME Types, Control, Places, Books, Told,
         \/ CustomerIcc \/ Converted \/ ConvertFails \/ Merged \/ Assembled
         \/ MergeFails \/ UploadDone \/ UploadFails \/ (UnwindRaises /\ at # "capture")
  PROVE  Books' /\ Told'
<1>1. UNCHANGED <<req, rendered, failed_count, page_pngs, spreads>>
  BY DEF CustomerIcc, Converted, ConvertFails, Merged, Assembled, MergeFails,
         UploadDone, UploadFails, UnwindRaises, env, locals
<1>2. \A state : With(state)' = With(state)
  BY <1>1 DEF With
<1>3. \/ errors' = errors /\ (Active' => Active)
      \/ at' = "over" /\ \E e \in {"color", "merge", "upload"} : errors' = Append(errors, e)
  BY DEF CustomerIcc, Converted, ConvertFails, Merged, Assembled, MergeFails,
         UploadDone, UploadFails, UnwindRaises, IccFound, IccRefused, ReadBack, Crash,
         UploadRefused, MergeOver, End, Goto, Active, Resumed, locals
<1>4. Told'
  <2>1. CASE errors' = errors /\ (Active' => Active)
    BY <1>2, <2>1 DEF Told
  <2>2. CASE at' = "over" /\ \E e \in {"color", "merge", "upload"} : errors' = Append(errors, e)
    <3>1. PICK e \in Stages : errors' = Append(errors, e)
      BY <2>2 DEF Stages
    <3>2. errors' \in Seq(Stages)
      BY <3>1, AppendedElements DEF Told
    <3> QED BY <2>2, <3>2 DEF Told, Active
  <2> QED BY <1>3, <2>1, <2>2
<1> QED BY <1>1, <1>2, <1>4, UntouchedBooks

LEMMA EnvironmentKeepsBooks ==
  ASSUME Types, Control, Places, Books, Told,
         \/ Raises \/ StorageStores \/ Timeout \/ Unwound \/ StopBegin
         \/ DrainDeadline \/ (UnwindRaises /\ at = "capture") \/ UNCHANGED vars
  PROVE  Books' /\ Told'
<1>1. UNCHANGED <<req, rendered, failed_count, page_pngs, spreads, errors>>
  BY DEF Raises, StorageStores, Timeout, Unwound, StopBegin, DrainDeadline,
         Abandoned, UnwindRaises, Crash, vars, env, locals
<1>2. Active' => Active
  BY DEF Raises, StorageStores, Timeout, Unwound, StopBegin, DrainDeadline,
         Abandoned, UnwindRaises, Crash, End, vars, Active
<1>3. \A state : With(state)' = With(state)
  BY <1>1 DEF With
<1> QED BY <1>1, <1>2, <1>3, UntouchedBooks DEF Told

-----------------------------------------------------------------------------
(* The page PDFs are a prefix of the pages; what is merged is all of them. *)

Files ==
  /\ page_pdfs \in Seq(Pages) /\ Len(page_pdfs) <= Len(page_pngs)
  /\ merged \in Pdfs /\ stored \in Pdfs
  /\ at \in {"new", "queued", "capture", "crop", "icc"} => page_pdfs = <<>>
  /\ at = "convert" =>
       /\ Len(page_pdfs) < Len(page_pngs)
       /\ \A k \in 1..Len(page_pdfs) : page_pdfs[k] = page_pngs[k]
  /\ at \in {"merge", "assemble", "upload"} => page_pdfs = page_pngs
  /\ at \in {"assemble", "upload"} \/ put # "none" => merged.pages = page_pngs
  /\ put = "stored" => stored.pages = page_pngs

LEMMA InitFiles == Init => Files
<1> SUFFICES ASSUME Init PROVE Files
  OBVIOUS
<1>1. <<>> \in Seq(Pages) /\ Len(<<>>) = 0
  BY EmptySeq
<1>2. NoPdf \in Pdfs
  BY <1>1 DEF NoPdf, Pdfs
<1> QED BY <1>1, <1>2 DEF Init, Files

LEMMA HandlersKeepFiles ==
  ASSUME Types, Places, Files, Submit \/ Cancel \/ SkipStale \/ Start
  PROVE  Files'
<1>1. UNCHANGED <<page_pngs, page_pdfs, merged, put, stored>>
  BY DEF Submit, Cancel, SkipStale, Start, locals, object
<1>2. \/ UNCHANGED at \/ at' = "over"
      \/ at' \in {"queued", "capture"} /\ at \in {"new", "queued"}
  BY DEF Submit, Cancel, SkipStale, Start, Goto
<1> QED BY <1>1, <1>2 DEF Files

LEMMA SpreadsKeepFiles ==
  ASSUME Types, Control, Places, Books, Books', Files, at \in {"capture", "crop"},
         NEW outcome \in {"done", "failed"}, NEW pages,
         Body(outcome, pages)
  PROVE  Files'
<1>1. /\ UNCHANGED <<page_pdfs, merged, put, stored>>
      /\ page_pdfs = <<>> /\ put = "none" /\ page_pngs' \in Seq(Pages)
  BY DEF Body, object, Places, StagesByPlace, Files, Books
<1>2. Len(<<>>) = 0 /\ <<>> \in Seq(Pages) /\ Len(page_pngs') \in Nat
      /\ (page_pngs' # <<>> => Len(page_pngs') > 0)
  BY <1>1, EmptySeq, LenProperties
<1>3. at' \in {"capture", "over"} \/ (at' \in {"icc", "convert"} /\ page_pngs' # <<>>)
  BY DEF Body, NextSpread, StopsAtFlag, StopsWithNone, StopsAtIcc, StopsReading, Stops, Ends,
     LeavesLoop
<1> QED BY <1>1, <1>2, <1>3 DEF Files

LEMMA ProductionKeepsFiles ==
  ASSUME Types, Control, Places, Books, Files,
         \/ CustomerIcc \/ Converted \/ ConvertFails \/ Merged \/ Assembled
         \/ MergeFails \/ UploadDone \/ UploadFails \/ (UnwindRaises /\ at # "capture")
  PROVE  Files'
<1>1. CASE CustomerIcc
  <2>1. UNCHANGED <<page_pngs, page_pdfs, merged, put, stored>> /\ at = "icc"
        /\ at' \in {"convert", "over"}
    BY <1>1 DEF CustomerIcc, IccFound, IccRefused, ReadBack, Crash, Goto, End, Resumed, object
  <2>2. Len(<<>>) = 0 /\ Len(page_pngs) > 0
    BY <2>1, EmptySeq, LenProperties DEF Books, Places, AfterLoop
  <2> QED BY <2>1, <2>2, EmptySeq DEF Files
<1>2. CASE Converted
  <2> DEFINE n == Len(page_pdfs)
             p == page_pngs[n + 1]
  <2>1. /\ at = "convert" /\ page_pdfs' = Append(page_pdfs, p)
        /\ UNCHANGED <<page_pngs, merged, put, stored>>
        /\ IF Len(page_pdfs') < Len(page_pngs) THEN at' = "convert"
             ELSE at' \in {"over", "merge"}
    BY <1>2 DEF Converted, Goto, End, Resumed, object
  <2>2. /\ n \in Nat /\ Len(page_pngs) \in Nat /\ n < Len(page_pngs)
        /\ page_pdfs \in Seq(Pages) /\ page_pngs \in Seq(Pages) /\ p \in Pages
        /\ put = "none"
    BY <2>1, LenProperties, ElementOfSeq DEF Files, Books, Places, StagesByPlace
  <2>3. /\ page_pdfs' \in Seq(Pages) /\ Len(page_pdfs') = n + 1
        /\ \A k \in 1..n : page_pdfs'[k] = page_pdfs[k]
        /\ page_pdfs'[n + 1] = p
    <3>1. /\ Append(page_pdfs, p) \in Seq(Pages) /\ Len(Append(page_pdfs, p)) = n + 1
          /\ \A k \in 1..n : Append(page_pdfs, p)[k] = page_pdfs[k]
          /\ Append(page_pdfs, p)[n + 1] = p
      BY <2>2, AppendedElements
    <3> QED BY <2>1, <3>1, Zenon
  <2>4. \A k \in 1..(n + 1) : page_pdfs'[k] = page_pngs[k]
    BY <2>1, <2>2, <2>3 DEF Files
  <2>5. n + 1 = Len(page_pngs) => page_pdfs' = page_pngs
    BY <2>2, <2>3, <2>4, SeqEqual
  <2> HIDE DEF n, p
  <2> QED BY <2>1, <2>2, <2>3, <2>4, <2>5 DEF Files
<1>3. CASE ConvertFails \/ MergeFails \/ UploadFails \/ UploadDone
  <2>1. UNCHANGED <<page_pngs, page_pdfs, merged, put, stored>> /\ at' = "over"
    BY <1>3 DEF ConvertFails, MergeFails, UploadFails, UploadRefused, UploadDone, IccRefused,
                End, locals, object
  <2> QED BY <2>1 DEF Files
<1>4. CASE Merged
  <2>1. /\ at = "merge" /\ put = "none" /\ page_pdfs = page_pngs
        /\ UNCHANGED <<page_pngs, page_pdfs, stored>>
        /\ merged' = [pages |-> page_pdfs, intent |-> FALSE]
        /\ at' \in {"assemble", "upload", "over"} /\ put' \in {"none", "sent"}
    BY <1>4 DEF Merged, MergeOver, Crash, Resumed, Goto, End, Files, Places, StagesByPlace
  <2> QED BY <2>1 DEF Files, Pdfs
<1>5. CASE Assembled
  <2>1. /\ at = "assemble" /\ put = "none"
        /\ UNCHANGED <<page_pngs, page_pdfs, stored>>
        /\ merged' = [pages |-> merged.pages, intent |-> TRUE]
        /\ at' \in {"upload", "over"} /\ put' \in {"none", "sent"}
    BY <1>5 DEF Assembled, MergeOver, Crash, Resumed, Goto, End, Places, StagesByPlace
  <2> QED BY <2>1 DEF Files, Pdfs
<1>6. CASE UnwindRaises
  <2>1. /\ UNCHANGED <<page_pngs, page_pdfs, merged, put, stored>>
        /\ at' = "over" \/ (at = "upload" /\ at' = at)
    BY <1>6 DEF UnwindRaises, UploadRefused, IccRefused, Crash, Goto, End, object
  <2> QED BY <2>1 DEF Files
<1> QED BY <1>1, <1>2, <1>3, <1>4, <1>5, <1>6

LEMMA EnvironmentKeepsFiles ==
  ASSUME Types, Control, Places, Files,
         \/ Raises \/ StorageStores \/ Timeout \/ Unwound \/ StopBegin
         \/ DrainDeadline \/ (UnwindRaises /\ at = "capture") \/ UNCHANGED vars
  PROVE  Files'
<1>1. UNCHANGED <<page_pngs, page_pdfs, merged>> /\ (at' = at \/ at' \in {"over", "aborted"})
  BY DEF Raises, StorageStores, Timeout, Unwound, StopBegin, DrainDeadline,
         Abandoned, UnwindRaises, Crash, End, vars, locals
<1>2. \/ UNCHANGED <<put, stored>>
      \/ put # "none" /\ put' = "stored" /\ stored' = merged
  BY DEF Raises, StorageStores, Timeout, Unwound, StopBegin, DrainDeadline,
         Abandoned, UnwindRaises, vars, object
<1> QED BY <1>1, <1>2 DEF Files

-----------------------------------------------------------------------------
(* How a job ends.                                                         *)

\* run_job ends itself, with a report of its own.
Reports(s, r, f, e) ==
  Ends(s, Report(r, f, e))

EndsProduction(s, e) == Reports(s, rendered, failed_count, errors') /\ errors' = Append(errors, e)

GoesOn == Active' /\ UNCHANGED <<status, result>>

Production ==
  \/ GoesOn
  \/ /\ Crashed /\ UNCHANGED errors
     /\ \/ color_conversion' = "running" /\ merge' = "pending" /\ put' = "none"
        \/ color_conversion' = Converting("done") /\ merge' = "done"
  \/ /\ Reports("cancelled", rendered, failed_count, errors') /\ UNCHANGED errors
     /\ color_conversion' = Converting("done") /\ merge' \in {"pending", "done"}
     /\ put' = "none"
  \/ /\ EndsProduction("failed", "color")
     /\ color_conversion' = "failed" /\ merge' = "pending" /\ put' = "none"
  \/ /\ EndsProduction("failed", "merge")
     /\ color_conversion' = Converting("done") /\ merge' = "failed" /\ put' = "none"
  \/ /\ EndsProduction("failed", "upload")
     /\ color_conversion' = Converting("done") /\ merge' = "done" /\ put' # "none"
  \/ /\ at' = "over" /\ status' = "completed" /\ UNCHANGED errors
     /\ result' = Delivery(rendered, failed_count, errors)
     /\ Len(merged.pages) = Len(page_pngs)
     /\ color_conversion' = Converting("done") /\ merge' = "done" /\ put' = "stored"

LEMMA ProductionMeans ==
  ASSUME Types, Control, Places, Files,
         \/ CustomerIcc \/ Converted \/ ConvertFails \/ Merged \/ Assembled
         \/ MergeFails \/ UploadDone \/ UploadFails \/ (UnwindRaises /\ at # "capture")
  PROVE  /\ at \in {"icc", "convert", "merge", "assemble", "upload"}
         /\ UNCHANGED <<req, spreads, rendered, failed_count, page_pngs>>
         /\ Production
<1>1. /\ at \in {"icc", "convert", "merge", "assemble", "upload"}
      /\ UNCHANGED <<req, spreads, rendered, failed_count, page_pngs>>
  BY DEF CustomerIcc, Converted, ConvertFails, Merged, Assembled, MergeFails,
         UploadDone, UploadFails, UnwindRaises, Resumed, env, locals
<1>2. status = "running"
  BY <1>1 DEF Control, Active
<1> SUFFICES Production
  BY <1>1
<1> USE DEF Production, Reports, EndsProduction, Ends, GoesOn, Active, Goto, Own,
            object, Places, StagesByPlace, Converting, Resumed
<1>3. CASE CustomerIcc
  <2>1. CASE IccRefused(errors)
    BY <1>1, <1>2, <1>3, <2>1, EndMeans DEF CustomerIcc, IccRefused
  <2>2. CASE IccFound(errors)
    BY <1>1, <1>2, <1>3, <2>2, CrashMeans DEF CustomerIcc, IccFound, ReadBack
  <2> QED BY <1>3, <2>1, <2>2 DEF CustomerIcc
<1>4. CASE Converted
  BY <1>1, <1>2, <1>4, EndMeans DEF Converted
<1>5. CASE ConvertFails
  BY <1>1, <1>2, <1>5, EndMeans DEF ConvertFails, IccRefused
<1>6. CASE Merged
  BY <1>1, <1>2, <1>6, EndMeans, CrashMeans DEF Merged, MergeOver
<1>7. CASE Assembled
  BY <1>1, <1>2, <1>7, EndMeans, CrashMeans DEF Assembled, MergeOver
<1>8. CASE MergeFails
  BY <1>1, <1>2, <1>8, EndMeans DEF MergeFails
<1>9. CASE UploadDone
  BY <1>1, <1>2, <1>9, EndMeans DEF UploadDone, Files, locals
<1>10. CASE UploadFails
  BY <1>1, <1>2, <1>10, EndMeans DEF UploadFails, UploadRefused
<1>11. CASE UnwindRaises /\ at = "icc"
  BY <1>1, <1>2, <1>11, EndMeans DEF UnwindRaises, IccRefused
<1>12. CASE UnwindRaises /\ at = "upload"
  <2>1. CASE Crash /\ UNCHANGED <<errors, color_conversion>>
    BY <1>1, <1>2, <1>12, <2>1, CrashMeans DEF UnwindRaises
  <2>3. CASE Goto("upload")
    BY <1>12, <2>3
  <2>2. CASE UploadRefused
    BY <1>1, <1>2, <1>12, <2>2, EndMeans DEF UnwindRaises, UploadRefused
  <2> QED BY <1>12, <2>1, <2>2, <2>3 DEF UnwindRaises
<1>13. UnwindRaises => at \in {"capture", "icc", "upload"}
  BY DEF UnwindRaises
<1> QED BY <1>3, <1>4, <1>5, <1>6, <1>7, <1>8, <1>9, <1>10, <1>11, <1>12, <1>13

-----------------------------------------------------------------------------
(* The record of the job: the invariants of Pipeline about it.             *)

ResultRecords ==
  [rendered : 0..req.n, failed : 0..req.n, errors : Seq(Stages),
   media : BOOLEAN, page_count : 0..(2 * req.n), intent : BOOLEAN]

Delivered ==
  status = "completed" =>
    put = "stored" /\ result.media /\ result.page_count = Len(page_pngs)

Endings ==
  /\ result \in ResultRecords
  /\ ResultAgreesWithProgress /\ StagesInOrder /\ CancelledStoresNothing
  /\ SpreadFailuresAreIsolated /\ Delivered

LEMMA ReportIsResult ==
  ASSUME Types, NEW r \in 0..req.n, NEW f \in 0..req.n, NEW e \in Seq(Stages)
  PROVE  Report(r, f, e) \in ResultRecords
<1>1. req.n \in Nat
  BY RequestFacts DEF Types
<1> QED BY <1>1 DEF Report, ResultRecords

LEMMA DeliveryIsResult ==
  ASSUME Types, NEW r \in 0..req.n, NEW f \in 0..req.n, NEW e \in Seq(Stages),
         Len(merged.pages) \in 0..(2 * req.n)
  PROVE  Delivery(r, f, e) \in ResultRecords
<1>1. (req.color # "rgb") \in BOOLEAN
  OBVIOUS
<1> QED BY <1>1 DEF Delivery, ResultRecords

LEMMA SomeRendered ==
  ASSUME Types', Books'
  PROVE  page_pngs' = <<>> <=> With("done")' = {}
<1>1. /\ page_pngs' \in Seq(Pages)
      /\ Elements(page_pngs') = UNION {Elements(PagesOf(k)') : k \in With("done")'}
  BY DEF Books
<1>2. page_pngs' = <<>> <=> Elements(page_pngs') = {}
  <2>1. Len(page_pngs') \in Nat /\ DOMAIN page_pngs' = 1..Len(page_pngs')
        /\ (page_pngs' = <<>> <=> Len(page_pngs') = 0)
    BY <1>1, LenProperties, EmptySeq
  <2>2. Elements(page_pngs') = {} <=> DOMAIN page_pngs' = {}
    BY DEF Elements
  <2> QED BY <2>1, <2>2
<1>3. ASSUME NEW k \in With("done")' PROVE Elements(PagesOf(k)') # {}
  <2>1. PagesOf(k)' \in {<<<<k, "left">>, <<k, "right">>>>, <<<<k, "whole">>>>}
    BY DEF PagesOf
  <2>2. 1 \in DOMAIN PagesOf(k)'
    BY <2>1
  <2> QED BY <2>2 DEF Elements
<1> QED BY <1>1, <1>2, <1>3

\* Steps that leave the record of the job and the PUT's outcome alone.
LEMMA FrameKeepsEndings ==
  ASSUME Endings, UNCHANGED <<req, status, result, spreads, color_conversion, merge, page_pngs>>,
         at' = "aborted" <=> at = "aborted",
         put' = "none" <=> put = "none", put = "stored" => put' = "stored"
  PROVE  Endings'
<1>1. \A state : With(state)' = With(state)
  BY DEF With
<1>2. result' \in ResultRecords'
  BY DEF Endings, ResultRecords
<1>3. OwnResult' <=> OwnResult
  BY DEF OwnResult
<1>4. ResultAgreesWithProgress'
  BY <1>1, <1>3 DEF Endings, ResultAgreesWithProgress
<1>5. StagesInOrder'
  BY <1>1 DEF Endings, StagesInOrder
<1>6. CancelledStoresNothing' /\ SpreadFailuresAreIsolated' /\ Delivered'
  BY <1>1, <1>3 DEF Endings, CancelledStoresNothing, SpreadFailuresAreIsolated, Delivered
<1> QED BY <1>2, <1>4, <1>5, <1>6 DEF Endings

\* Steps after which the job is not finished.
LEMMA RunningKeepsEndings ==
  ASSUME Endings, UNCHANGED <<req, result>>, status' \notin TERMINAL, StagesInOrder'
  PROVE  Endings'
<1>1. result' \in ResultRecords'
  BY DEF Endings, ResultRecords
<1> QED BY <1>1 DEF Endings, ResultAgreesWithProgress, CancelledStoresNothing,
                    SpreadFailuresAreIsolated, Delivered, OwnResult, TERMINAL

LEMMA PlacesAreInOrder ==
  ASSUME Types', Books', Places', Active'
  PROVE  StagesInOrder'
<1>1. CASE at' \in {"capture", "crop", "icc"}
  BY <1>1 DEF Places, StagesByPlace, StagesInOrder
<1>2. CASE at' \in {"convert", "merge", "assemble", "upload"}
  <2>1. With("done")' # {} /\ With("done")' \cup With("failed")' = 1..req'.n
    BY <1>2, SomeRendered DEF Places, AfterLoop, Ended, With
  <2>2. /\ merge' # "pending" => color_conversion' = IF req'.color = "rgb" THEN "pending" ELSE "done"
        /\ put' # "none" => merge' = "done"
    BY <1>2 DEF Places, StagesByPlace, Converting
  <2> QED BY <2>1, <2>2 DEF StagesInOrder
<1> QED BY <1>1, <1>2 DEF Active, Types

LEMMA InitEndings == Init => Endings
<1> SUFFICES ASSUME Init PROVE Endings
  OBVIOUS
<1>1. req.n \in Nat
  BY RequestFacts DEF Init
<1>2. <<"none">> \in Seq(Stages)
  BY DEF Stages
<1>3. result \in ResultRecords
  BY <1>1, <1>2 DEF Init, ResultRecords, NoResult, Report
<1> QED BY <1>3 DEF Init, Endings, ResultAgreesWithProgress, StagesInOrder,
                    CancelledStoresNothing, SpreadFailuresAreIsolated, Delivered,
                    OwnResult, TERMINAL

LEMMA HandlersKeepEndings ==
  ASSUME Types, Control, Places, Books, Endings, Submit \/ Cancel \/ SkipStale \/ Start
  PROVE  Endings'
<1>1. CASE Submit
  <2>1. StagesInOrder'
    BY <1>1 DEF Submit, env, object, Places, Untouched, StagesInOrder
  <2> QED BY <1>1, <2>1, RunningKeepsEndings DEF Submit, env, TERMINAL
<1>2. CASE Start
  <2>1. StagesInOrder'
    BY <1>2 DEF Start, env, object, Places, Untouched, StagesInOrder
  <2> QED BY <1>2, <2>1, RunningKeepsEndings DEF Start, env, TERMINAL
<1>3. CASE SkipStale
  BY <1>3, FrameKeepsEndings DEF SkipStale, Goto, env, locals, object
<1>4. CASE Cancel /\ status # "queued"
  BY <1>4, FrameKeepsEndings DEF Cancel, env, locals, object
<1>5. CASE Cancel /\ status = "queued"
  <2>1. /\ status' = "cancelled" /\ result' = Report(0, 0, <<>>)
        /\ UNCHANGED <<req, spreads, at, color_conversion, merge, put, page_pngs>>
        /\ at = "queued"
    BY <1>5 DEF Cancel, Finalize, TERMINAL, env, locals, object, Control, Active, Types
  <2>2. Untouched
    BY <2>1 DEF Places
  <2>3. \A state \in {"done", "failed", "rendering"} : With(state)' = {}
    BY <2>1, <2>2 DEF With, Untouched
  <2>4. result' \in ResultRecords'
    <3>1. 0 \in 0..req.n /\ <<>> \in Seq(Stages)
      BY RequestFacts, EmptySeq DEF Types
    <3>2. Report(0, 0, <<>>) \in ResultRecords
      BY <3>1, ReportIsResult
    <3> QED BY <2>1, <3>2 DEF ResultRecords
  <2>5. /\ result'.rendered = 0 /\ result'.failed = 0 /\ Elements(result'.errors) = {}
    BY <2>1 DEF Report, Elements
  <2>6. ResultAgreesWithProgress'
    <3>1. Cardinality({}) = 0
      BY FS_EmptySet
    <3>2. color_conversion' # "failed" /\ merge' # "failed"
      BY <2>1, <2>2 DEF Untouched
    <3> QED BY <2>3, <2>5, <3>1, <3>2 DEF ResultAgreesWithProgress
  <2>7. StagesInOrder' /\ CancelledStoresNothing' /\ SpreadFailuresAreIsolated' /\ Delivered'
    BY <2>1, <2>2 DEF StagesInOrder, CancelledStoresNothing,
       SpreadFailuresAreIsolated, Delivered, Untouched
  <2> QED BY <2>4, <2>6, <2>7 DEF Endings
<1> QED BY <1>1, <1>2, <1>3, <1>4, <1>5

LEMMA EnvironmentKeepsEndings ==
  ASSUME Types, Control, Places, Endings,
         \/ Raises \/ StorageStores \/ Timeout \/ Unwound \/ StopBegin
         \/ DrainDeadline \/ (UnwindRaises /\ at = "capture") \/ UNCHANGED vars
  PROVE  Endings'
<1>1. CASE StorageStores \/ Timeout \/ StopBegin \/ DrainDeadline \/ UNCHANGED vars
  <2>1. /\ UNCHANGED <<req, at, status, result, spreads, color_conversion, merge, page_pngs>>
        /\ put' = put \/ (put = "sent" /\ put' = "stored")
    BY <1>1 DEF StorageStores, Timeout, StopBegin, DrainDeadline, vars, env, locals, object
  <2> QED BY <2>1, FrameKeepsEndings
<1>2. CASE Raises \/ Unwound \/ (UnwindRaises /\ at = "capture")
  <2>1. PICK why \in {<<"internal">>, <<"timeout">>, <<>>} :
          /\ result' = Report(0, 0, why)
          /\ \/ at' = "over" /\ status' = "failed" /\ why # <<>>
             \/ at' = "aborted" /\ status' = "cancelled"
          /\ UNCHANGED <<req, spreads, color_conversion, merge, put, page_pngs>>
    BY <1>2 DEF Raises, Unwound, Abandoned, UnwindRaises, Crash, End, Finalize, Control, Active,
                TERMINAL, Resumed, locals, object
  <2>2. why \in Seq(Stages)
    <3>1. <<"internal">> \in Seq(Stages) /\ <<"timeout">> \in Seq(Stages) /\ <<>> \in Seq(Stages)
      BY DEF Stages
    <3> QED BY <3>1
  <2>3. result' \in ResultRecords'
    <3>1. 0 \in 0..req.n
      BY RequestFacts DEF Types
    <3>2. Report(0, 0, why) \in ResultRecords
      BY <2>2, <3>1, ReportIsResult
    <3> QED BY <2>1, <3>2 DEF ResultRecords
  <2>4. ~OwnResult'
    <3>1. Elements(<<"internal">>) = {"internal"} /\ Elements(<<"timeout">>) = {"timeout"}
      BY DEF Elements
    <3>2. result'.errors = why
      BY <2>1 DEF Report
    <3> QED BY <2>1, <3>1, <3>2 DEF OwnResult
  <2>5. StagesInOrder'
    <3>1. \A state : With(state)' = With(state)
      BY <2>1 DEF With
    <3> QED BY <2>1, <3>1 DEF Endings, StagesInOrder
  <2> QED BY <2>1, <2>3, <2>4, <2>5 DEF Endings, ResultAgreesWithProgress,
        CancelledStoresNothing, SpreadFailuresAreIsolated, Delivered
<1> QED BY <1>1, <1>2

LEMMA CountsAreBounded ==
  ASSUME Types', Books'
  PROVE  rendered' \in 0..req'.n /\ failed_count' \in 0..req'.n
<1>1. req'.n \in Nat
  BY MaxSpreadsAssumption DEF Types, Requests
<1>2. IsFiniteSet(1..req'.n) /\ Cardinality(1..req'.n) = req'.n
  BY <1>1, FS_Interval
<1>3. With("done")' \in SUBSET (1..req'.n) /\ With("failed")' \in SUBSET (1..req'.n)
  BY DEF With
<1>4. /\ Cardinality(With("done")') \in 0..req'.n
      /\ Cardinality(With("failed")') \in 0..req'.n
  BY <1>1, <1>2, <1>3, FS_Subset, FS_CardinalityType
<1> QED BY <1>4 DEF Books

\* An exception ends the run, and the consumer reports it.
LEMMA CrashKeepsEndings ==
  ASSUME Types', Crashed, StagesInOrder'
  PROVE  Endings'
<1>1. at' = "over" /\ status' = "failed" /\ result' = Report(0, 0, <<"internal">>)
  BY DEF Crashed, Ends
<1>2. req'.n \in Nat /\ <<"internal">> \in Seq(Stages)
  BY MaxSpreadsAssumption DEF Types, Requests, Stages
<1>3. result' \in ResultRecords'
  BY <1>1, <1>2 DEF Report, ResultRecords
<1>4. ~OwnResult'
  <2>1. result'.errors = <<"internal">> /\ Elements(<<"internal">>) = {"internal"}
    BY <1>1 DEF Report, Elements
  <2> QED BY <2>1, Zenon DEF OwnResult
<1> QED BY <1>1, <1>3, <1>4 DEF Endings, ResultAgreesWithProgress, CancelledStoresNothing,
           SpreadFailuresAreIsolated, Delivered

\* run_job ends itself with a report of its counts and errors.
LEMMA OwnReportKeepsEndings ==
  ASSUME Types', Books', UNCHANGED req, at' = "over",
         NEW s \in {"cancelled", "failed"}, status' = s,
         result' = Report(rendered', failed_count', errors'),
         errors' \in Seq(Stages),
         "internal" \notin Elements(errors'), "timeout" \notin Elements(errors'),
         "render" \in Elements(errors') <=> With("failed")' # {},
         "color" \in Elements(errors') <=> color_conversion' = "failed",
         "merge" \in Elements(errors') <=> merge' = "failed",
         With("rendering")' = {},
         s = "cancelled" => put' = "none",
         s = "failed" => \/ color_conversion' = "failed" \/ merge' = "failed"
                         \/ put' # "none" \/ With("done")' = {},
         StagesInOrder'
  PROVE  Endings'
<1>1. rendered' \in 0..req'.n /\ failed_count' \in 0..req'.n /\ req'.n \in Nat
  BY CountsAreBounded, MaxSpreadsAssumption DEF Types, Requests
<1>2. /\ result'.rendered = rendered' /\ result'.failed = failed_count'
      /\ result'.errors = errors'
  BY DEF Report
<1>3. result' \in ResultRecords'
  BY <1>1 DEF Report, ResultRecords
<1>4. ResultAgreesWithProgress'
  BY <1>2 DEF ResultAgreesWithProgress, Books
<1> QED BY <1>3, <1>4 DEF Endings, CancelledStoresNothing,
           SpreadFailuresAreIsolated, Delivered, OwnResult, TERMINAL

LEMMA SpreadsKeepEndings ==
  ASSUME Types, Types', Control, Control', Places, Places', Books, Books', Told, Endings,
         at \in {"capture", "crop"},
         NEW outcome \in {"done", "failed"}, NEW pages,
         Body(outcome, pages)
  PROVE  Endings'
<1>1. /\ UNCHANGED <<req, merge, put>> /\ merge = "pending" /\ put = "none"
      /\ color_conversion = "pending" /\ status = "running"
  BY DEF Body, env, object, Places, StagesByPlace, Control, Active
<1>2. CASE NextSpread(outcome) \/ LeavesLoop(outcome)
  <2>1. Active' /\ UNCHANGED <<status, result>>
    BY <1>2 DEF NextSpread, LeavesLoop, Active
  <2> QED BY <1>1, <2>1, PlacesAreInOrder, RunningKeepsEndings DEF TERMINAL
<1>3. ASSUME spreads' = Marked(outcome) PROVE With("rendering")' = {}
  <2>1. req.n \in Nat \ {0} /\ i \in 1..req.n
    BY RequestFacts DEF Types
  <2>2. \A k \in 1..req.n : spreads'[k] # "rendering"
    BY <1>3, <2>1 DEF Marked, Places, InLoop, Ended, Types
  <2> QED BY <1>1, <2>2 DEF With
<1>4. /\ Errs(outcome) \in Seq(Stages) /\ Elements(Errs(outcome)) \subseteq {"render"}
      /\ "render" \in Elements(Errs(outcome)) <=> With("failed")' # {}
  BY ErrorsTell
<1>5. CASE StopsAtFlag(outcome)
  <2>1. /\ errors' = Errs(outcome) /\ UNCHANGED color_conversion
        /\ at' = "over" /\ status' = "cancelled" /\ With("rendering")' = {}
        /\ result' = Report(rendered', failed_count', errors')
    BY <1>3, <1>5 DEF StopsAtFlag, Stops, Ends
  <2>2. StagesInOrder'
    BY <1>1, <2>1 DEF StagesInOrder
  <2> QED BY <1>1, <1>4, <2>1, <2>2, OwnReportKeepsEndings
<1>6. CASE StopsWithNone(outcome)
  <2>1. /\ errors' = Append(Errs(outcome), "all_failed") /\ UNCHANGED color_conversion
        /\ at' = "over" /\ status' = "failed" /\ With("rendering")' = {}
        /\ result' = Report(0, failed_count', errors') /\ page_pngs' = <<>>
    BY <1>3, <1>6 DEF StopsWithNone, Stops, Ends
  <2>2. errors' \in Seq(Stages) /\ Elements(errors') = Elements(Errs(outcome)) \cup {"all_failed"}
    BY <1>4, <2>1, AppendedElements DEF Stages
  <2>3. With("done")' = {} /\ rendered' = 0
    BY <2>1, SomeRendered, FS_EmptySet DEF Books
  <2>4. StagesInOrder'
    BY <1>1, <2>1 DEF StagesInOrder
  <2> QED BY <1>1, <1>4, <2>1, <2>2, <2>3, <2>4, OwnReportKeepsEndings
<1>7. CASE StopsAtIcc(outcome)
  <2>1. /\ errors' = Append(Errs(outcome), "color") /\ color_conversion' = "failed"
        /\ at' = "over" /\ status' = "failed" /\ With("rendering")' = {}
        /\ result' = Report(rendered', failed_count', errors')
        /\ i = req.n /\ page_pngs' # <<>> /\ spreads' = Marked(outcome)
    BY <1>3, <1>7 DEF StopsAtIcc, Stops, Ends
  <2>2. errors' \in Seq(Stages) /\ Elements(errors') = Elements(Errs(outcome)) \cup {"color"}
    BY <1>4, <2>1, AppendedElements DEF Stages
  <2>3. StagesInOrder'
    <3>1. \A k \in 1..req.n : spreads'[k] \in {"done", "failed"}
      BY <2>1, RequestFacts DEF Marked, Places, InLoop, Ended, Types
    <3>2. With("done")' \cup With("failed")' = 1..req'.n
      BY <1>1, <3>1 DEF With
    <3> QED BY <1>1, <2>1, <3>2, SomeRendered DEF StagesInOrder
  <2> QED BY <1>1, <1>4, <2>1, <2>2, <2>3, OwnReportKeepsEndings
<1>8. CASE StopsReading(outcome)
  <2>1. /\ Crashed /\ i = req.n /\ page_pngs' # <<>> /\ spreads' = Marked(outcome)
    BY <1>8 DEF StopsReading, Stops, Crashed
  <2>2. StagesInOrder'
    <3>1. \A k \in 1..req.n : spreads'[k] \in {"done", "failed"}
      BY <2>1, RequestFacts DEF Marked, Places, InLoop, Ended, Types
    <3>2. With("done")' \cup With("failed")' = 1..req'.n
      BY <1>1, <3>1 DEF With
    <3> QED BY <1>1, <2>1, <3>2, SomeRendered DEF StagesInOrder
  <2> QED BY <2>1, <2>2, CrashKeepsEndings
<1> QED BY <1>2, <1>5, <1>6, <1>7, <1>8 DEF Body

LEMMA ProductionKeepsEndings ==
  ASSUME Types, Types', Control, Places, Places', Books, Books', Told, Files, Endings,
         \/ CustomerIcc \/ Converted \/ ConvertFails \/ Merged \/ Assembled
         \/ MergeFails \/ UploadDone \/ UploadFails \/ (UnwindRaises /\ at # "capture")
  PROVE  Endings'
<1>1. /\ at \in {"icc", "convert", "merge", "assemble", "upload"}
      /\ UNCHANGED <<req, spreads, rendered, failed_count, page_pngs>>
      /\ Production
  BY ProductionMeans
<1>2. /\ \A state : With(state)' = With(state)
      /\ With("rendering")' = {} /\ With("done")' # {}
      /\ With("done")' \cup With("failed")' = 1..req'.n
  <2>1. \A k \in 1..req.n : spreads[k] \in {"done", "failed"}
    BY <1>1 DEF Places, AfterLoop, Ended
  <2>2. page_pngs' # <<>>
    BY <1>1 DEF Places, AfterLoop
  <2> QED BY <1>1, <2>1, <2>2, SomeRendered DEF With
<1>3. /\ errors \in Seq(Stages) /\ Elements(errors) \subseteq {"render"}
      /\ "render" \in Elements(errors) <=> With("failed")' # {}
  BY <1>1, <1>2 DEF Told, Active
<1>4. ASSUME NEW e \in Stages, errors' = Append(errors, e)
      PROVE  errors' \in Seq(Stages) /\ Elements(errors') = Elements(errors) \cup {e}
  BY <1>3, <1>4, AppendedElements
<1>5. Converting("done") \in {"pending", "done"} /\ (req.color = "rgb" <=> req'.color = "rgb")
  BY <1>1 DEF Converting
<1>6. CASE GoesOn
  BY <1>1, <1>6, PlacesAreInOrder, RunningKeepsEndings DEF GoesOn, Control, Active, TERMINAL
<1>12. CASE /\ Crashed /\ UNCHANGED errors
            /\ \/ color_conversion' = "running" /\ merge' = "pending" /\ put' = "none"
               \/ color_conversion' = Converting("done") /\ merge' = "done"
  <2>1. StagesInOrder'
    BY <1>1, <1>2, <1>12 DEF StagesInOrder, Converting
  <2> QED BY <1>12, <2>1, CrashKeepsEndings
<1>7. CASE /\ Reports("cancelled", rendered, failed_count, errors') /\ UNCHANGED errors
           /\ color_conversion' = Converting("done") /\ merge' \in {"pending", "done"}
           /\ put' = "none"
  <2>1. StagesInOrder'
    BY <1>1, <1>2, <1>7 DEF StagesInOrder, Converting
  <2> QED BY <1>1, <1>2, <1>3, <1>5, <1>7, <2>1, OwnReportKeepsEndings DEF Reports, Ends
<1>8. CASE /\ EndsProduction("failed", "color")
           /\ color_conversion' = "failed" /\ merge' = "pending" /\ put' = "none"
  <2>1. StagesInOrder'
    BY <1>2, <1>8 DEF StagesInOrder
  <2>2. errors' \in Seq(Stages) /\ Elements(errors') = Elements(errors) \cup {"color"}
    BY <1>4, <1>8 DEF EndsProduction, Stages
  <2> QED BY <1>1, <1>2, <1>3, <1>8, <2>1, <2>2, OwnReportKeepsEndings DEF EndsProduction, Reports, Ends
<1>9. CASE /\ EndsProduction("failed", "merge")
           /\ color_conversion' = Converting("done") /\ merge' = "failed" /\ put' = "none"
  <2>1. StagesInOrder'
    BY <1>1, <1>2, <1>9 DEF StagesInOrder, Converting
  <2>2. errors' \in Seq(Stages) /\ Elements(errors') = Elements(errors) \cup {"merge"}
    BY <1>4, <1>9 DEF EndsProduction, Stages
  <2> QED BY <1>1, <1>2, <1>3, <1>5, <1>9, <2>1, <2>2, OwnReportKeepsEndings DEF EndsProduction, Reports, Ends
<1>10. CASE /\ EndsProduction("failed", "upload")
            /\ color_conversion' = Converting("done") /\ merge' = "done" /\ put' # "none"
  <2>1. StagesInOrder'
    BY <1>1, <1>2, <1>10 DEF StagesInOrder, Converting
  <2>2. errors' \in Seq(Stages) /\ Elements(errors') = Elements(errors) \cup {"upload"}
    BY <1>4, <1>10 DEF EndsProduction, Stages
  <2> QED BY <1>1, <1>2, <1>3, <1>5, <1>10, <2>1, <2>2, OwnReportKeepsEndings DEF EndsProduction, Reports, Ends
<1>11. CASE /\ at' = "over" /\ status' = "completed" /\ UNCHANGED errors
            /\ result' = Delivery(rendered, failed_count, errors)
            /\ Len(merged.pages) = Len(page_pngs)
            /\ color_conversion' = Converting("done") /\ merge' = "done" /\ put' = "stored"
  <2>1. StagesInOrder'
    BY <1>1, <1>2, <1>11 DEF StagesInOrder, Converting
  <2>2. rendered \in 0..req.n /\ failed_count \in 0..req.n /\ req.n \in Nat
    BY <1>1, CountsAreBounded, RequestFacts DEF Types
  <2>3. Len(merged.pages) \in 0..(2 * req.n)
    BY <1>11, <2>2, LenProperties DEF Books
  <2>4. result' \in ResultRecords'
    <3>1. Delivery(rendered, failed_count, errors) \in ResultRecords
      BY <1>3, <2>2, <2>3, DeliveryIsResult
    <3> QED BY <1>1, <1>11, <3>1 DEF ResultRecords
  <2>5. /\ result'.rendered = rendered' /\ result'.failed = failed_count'
        /\ result'.errors = errors' /\ result'.media = TRUE
        /\ result'.page_count = Len(page_pngs')
    BY <1>1, <1>11 DEF Delivery
  <2>6. ResultAgreesWithProgress'
    BY <1>2, <1>3, <1>5, <1>11, <2>5 DEF ResultAgreesWithProgress, Books
  <2> QED BY <1>11, <2>1, <2>4, <2>5, <2>6 DEF Endings, CancelledStoresNothing,
             SpreadFailuresAreIsolated, Delivered
<1> QED BY <1>1, <1>6, <1>7, <1>8, <1>9, <1>10, <1>11, <1>12 DEF Production

-----------------------------------------------------------------------------
(* The inductive invariant.                                                *)

IInv == /\ Types /\ Control /\ Places /\ Books /\ Told /\ Files /\ Endings

LEMMA InitInv == Init => IInv
BY InitTypes, InitPlaces, InitBooks, InitFiles, InitEndings DEF IInv

\* The capture of a double page goes on to the crop of its halves.
LEMMA CropKeepsInv ==
  ASSUME IInv, Resumed("capture"), i \in req.split, Goto("crop"),
         UNCHANGED <<env, i, cancel_requested, spreads, color_conversion, merge,
                     locals, object>>
  PROVE  IInv'
<1>1. /\ at = "capture" /\ at' = "crop"
      /\ UNCHANGED <<req, server, timer, cancelling, i, status, cancel_requested, spreads,
                     color_conversion, merge, result, rendered, failed_count, errors,
                     page_pngs, page_pdfs, merged, put, stored>>
  BY DEF Resumed, Goto, env, locals, object
<1>2. Types' /\ Control'
  BY <1>1 DEF IInv, Types, Control, Active
<1>3. Places'
  BY <1>1 DEF IInv, Places, Untouched, InLoop, AfterLoop, StagesByPlace, Ended
<1>4. \A state : With(state)' = With(state)
  BY <1>1 DEF With
<1>5. Books' /\ Told'
  BY <1>1, <1>4, UntouchedBooks DEF IInv, Told, Active
<1>6. Files'
  BY <1>1 DEF IInv, Files
<1>7. Endings'
  BY <1>1, FrameKeepsEndings DEF IInv
<1> QED BY <1>2, <1>3, <1>5, <1>6, <1>7 DEF IInv

LEMMA SpreadsKeepInv ==
  ASSUME IInv, Captured \/ CaptureFails \/ Cropped
  PROVE  IInv'
<1> USE DEF IInv
<1>1. CASE Captured /\ i \in req.split
  BY <1>1, CropKeepsInv DEF Captured
<1>2. CASE ~(Captured /\ i \in req.split)
  <2> DEFINE PagesIf(outcome) == IF outcome = "done" THEN PagesOf(i) ELSE <<>>
  <2>0. PICK outcome \in {"done", "failed"} : SpreadEnds(outcome, PagesIf(outcome))
    BY <1>2 DEF Captured, CaptureFails, Cropped
  <2> DEFINE pages == PagesIf(outcome)
  <2>1. /\ pages = IF outcome = "done" THEN PagesOf(i) ELSE <<>>
        /\ SpreadEnds(outcome, pages)
    BY <2>0
  <2> HIDE DEF pages
  <2>2. at \in {"capture", "crop"} /\ cancelling = "no"
    BY DEF Captured, CaptureFails, Cropped, Resumed
  <2>3. Active /\ status = "running"
    BY <2>2 DEF Active, Control
  <2>4. Body(outcome, pages)
    BY <2>1, <2>3, SpreadEndsMeans
  <2>5. pages \in Seq(Pages)
    BY <2>1, PagesOfSpread, EmptySeq DEF Types
  <2>6. Types' /\ Control'
    BY <2>2, <2>3, <2>4, <2>5, SpreadsKeepTypes
  <2>7. Places'
    BY <2>2, <2>4, SpreadsKeepPlaces
  <2>8. Books' /\ Told'
    BY <2>1, <2>2, <2>4, SpreadsKeepBooks
  <2>9. Files'
    BY <2>2, <2>4, <2>8, SpreadsKeepFiles
  <2>10. Endings'
    BY <2>2, <2>4, <2>6, <2>7, <2>8, SpreadsKeepEndings
  <2> QED BY <2>6, <2>7, <2>8, <2>9, <2>10
<1> QED BY <1>1, <1>2

LEMMA NextKeepsInv ==
  ASSUME IInv, [Next]_vars
  PROVE  IInv'
<1> USE DEF IInv
<1>1. CASE Submit \/ Cancel \/ SkipStale \/ Start
  BY <1>1, HandlersKeepTypes, HandlersKeepPlaces, HandlersKeepBooks,
     HandlersKeepFiles, HandlersKeepEndings
<1>2. CASE Captured \/ CaptureFails \/ Cropped
  BY <1>2, SpreadsKeepInv
<1>3. CASE \/ CustomerIcc \/ Converted \/ ConvertFails \/ Merged \/ Assembled
           \/ MergeFails \/ UploadDone \/ UploadFails \/ (UnwindRaises /\ at # "capture")
  <2>1. Types' /\ Control' /\ Places' /\ Books' /\ Told' /\ Files'
    BY <1>3, ProductionKeepsTypes, ProductionKeepsPlaces, ProductionKeepsBooks,
       ProductionKeepsFiles
  <2> QED BY <1>3, <2>1, ProductionKeepsEndings
<1>4. CASE \/ Raises \/ StorageStores \/ Timeout \/ Unwound \/ StopBegin
           \/ DrainDeadline \/ (UnwindRaises /\ at = "capture") \/ UNCHANGED vars
  BY <1>4, EnvironmentKeepsTypes, EnvironmentKeepsPlaces, EnvironmentKeepsBooks,
     EnvironmentKeepsFiles, EnvironmentKeepsEndings
<1> QED BY <1>1, <1>2, <1>3, <1>4 DEF Next, RunJob

\* The inductive invariant holds for every bound on the number of spreads, every
\* request, and every mix of failures, cancels, timeouts and shutdowns.
THEOREM InvHolds == Spec => []IInv
BY InitInv, NextKeepsInv, PTL DEF Spec

LEMMA InvTypes == IInv => TypeOK
<1> SUFFICES ASSUME IInv PROVE TypeOK
  OBVIOUS
<1> USE DEF IInv
<1>1. req.n \in Nat /\ Cardinality(With("done")) \in 0..req.n
      /\ Cardinality(With("failed")) \in 0..req.n
  BY RequestFacts, WithIsFinite DEF Types
<1>2. rendered \in 0..req.n /\ failed_count \in 0..req.n
  BY <1>1 DEF Books
<1>3. Len(page_pngs) <= 2 * req.n
  BY <1>1, <1>2, LenProperties DEF Books
<1> QED BY <1>2, <1>3 DEF TypeOK, Types, Books, Told, Files, Endings, ResultRecords

\* Type correctness, with the bounds of the counters and of the page lists.
THEOREM TypeCorrect == Spec => []TypeOK
BY InvHolds, InvTypes, PTL

\* The counts and the errors of a result that run_job wrote are those of the
\* progress the orchestrator polls.
THEOREM ResultAgrees == Spec => []ResultAgreesWithProgress
<1>1. IInv => ResultAgreesWithProgress
  BY DEF IInv, Endings
<1> QED BY <1>1, InvHolds, PTL

\* The progress of a job is a prefix of the pipeline, the PUT its last stage.
THEOREM StagesAreInOrder == Spec => []StagesInOrder
<1>1. IInv => StagesInOrder
  BY DEF IInv, Endings
<1> QED BY <1>1, InvHolds, PTL

\* The object of a completed job holds the pages of the rendered spreads, each
\* once and in the order of the request.
THEOREM CompletedFaithful == Spec => []CompletedIsFaithful
<1>1. IInv => CompletedIsFaithful
  <2> SUFFICES ASSUME IInv, status = "completed" PROVE CompletedIsFaithful
    BY DEF CompletedIsFaithful
  <2>1. put = "stored" /\ result.media /\ result.page_count = Len(page_pngs)
    BY DEF IInv, Endings, Delivered
  <2>2. stored.pages = page_pngs
    BY <2>1 DEF IInv, Files
  <2> QED BY <2>1, <2>2 DEF IInv, Books, CompletedIsFaithful
<1> QED BY <1>1, InvHolds, PTL

\* No PUT was sent for a job that ends cancelled, but by the shutdown's abort.
THEOREM CancelledStores == Spec => []CancelledStoresNothing
<1>1. IInv => CancelledStoresNothing
  BY DEF IInv, Endings
<1> QED BY <1>1, InvHolds, PTL

\* A job whose later stages succeed fails only if none of its spreads rendered.
THEOREM FailuresAreIsolated == Spec => []SpreadFailuresAreIsolated
<1>1. IInv => SpreadFailuresAreIsolated
  BY DEF IInv, Endings
<1> QED BY <1>1, InvHolds, PTL

\* No step of run_job, the handlers or the consumer writes to a finished record.
THEOREM FinishedIsFrozen == Spec => FinishedRecordIsFrozen
<1>1. ASSUME IInv, [Next]_vars, status \in TERMINAL PROVE UNCHANGED jobRecord
  <2>1. at \notin {"new"} /\ ~Active /\ cancelling = "no"
    BY <1>1 DEF IInv, Control, TERMINAL, Types
  <2>2. at \notin {"capture", "crop", "icc", "convert", "merge", "assemble", "upload"}
    BY <2>1 DEF Active
  <2> USE DEF jobRecord
  <2>3. CASE Submit \/ Cancel \/ SkipStale \/ Start
    BY <1>1, <2>1, <2>3 DEF Submit, Cancel, SkipStale, Start, Goto, TERMINAL
  <2>4. CASE RunJob
    BY <2>2, <2>4 DEF RunJob, Captured, CaptureFails, Cropped, CustomerIcc, Converted,
       ConvertFails, Merged, Assembled, MergeFails, UploadDone, UploadFails, Raises, Resumed
  <2>5. CASE StorageStores
    BY <2>5 DEF StorageStores
  <2>6. CASE Timeout \/ Unwound \/ UnwindRaises \/ StopBegin \/ DrainDeadline
    BY <2>1, <2>6 DEF Timeout, Unwound, UnwindRaises, StopBegin, DrainDeadline
  <2>7. CASE UNCHANGED vars
    BY <2>7 DEF vars
  <2> QED BY <1>1, <2>3, <2>4, <2>5, <2>6, <2>7 DEF Next
<1> QED BY <1>1, InvHolds, PTL DEF Spec, FinishedRecordIsFrozen

-----------------------------------------------------------------------------
(* The end of run_job comes nearer with each of its steps.                 *)

LEMMA RestIs ==
  /\ Rest["capture"] = 6 /\ Rest["crop"] = 5 /\ Rest["icc"] = 4 /\ Rest["convert"] = 3
  /\ Rest["merge"] = 3 /\ Rest["assemble"] = 2 /\ Rest["upload"] = 1
  /\ RestIfFlagged["capture"] = 2 /\ RestIfFlagged["crop"] = 1
  /\ RestIfFlagged["icc"] = 1 /\ RestIfFlagged["convert"] = 0
  /\ RestIfFlagged["merge"] = 2 /\ RestIfFlagged["assemble"] = 1
  /\ RestIfFlagged["upload"] = 1
BY DEF Rest, RestIfFlagged

Suspensions == {"capture", "crop", "icc", "convert", "merge", "assemble", "upload"}

\* What the counts of StepsLeft are made of.
LEMMA CountsOfSteps ==
  ASSUME IInv
  PROVE  /\ req.n \in Nat /\ i \in 1..req.n
         /\ Len(page_pngs) \in Nat /\ Len(page_pdfs) \in Nat
         /\ Active <=> at \in Suspensions
         /\ ToConvert \in Nat /\ ToRender \in Nat
         /\ at \in {"capture", "crop"} => Len(page_pdfs) = 0
         /\ at = "convert" => ToConvert > 0
         /\ at \in {"merge", "assemble", "upload"} => ToConvert = 0
         /\ cancel_requested \in BOOLEAN
<1> USE DEF IInv
<1>1. req.n \in Nat /\ i \in 1..req.n /\ cancel_requested \in BOOLEAN
  BY RequestFacts DEF Types
<1>2. Len(page_pngs) \in Nat /\ Len(page_pdfs) \in Nat /\ Len(<<>>) = 0
  BY LenProperties, EmptySeq DEF Books, Files
<1>3. Active <=> at \in Suspensions
  BY DEF Active, Types, Suspensions
<1>4. /\ ToConvert \in Nat
      /\ at \in {"capture", "crop"} => Len(page_pdfs) = 0
      /\ at = "convert" => ToConvert > 0
      /\ at \in {"merge", "assemble", "upload"} => ToConvert = 0
  BY <1>2 DEF ToConvert, Files
<1>5. ToRender \in Nat
  BY <1>1 DEF ToRender
<1> QED BY <1>1, <1>2, <1>3, <1>4, <1>5

LEMMA OverIsZero ==
  ASSUME at' \in {"over", "aborted"}
  PROVE  StepsLeft' = 0
BY DEF StepsLeft, Active

LEMMA SomeStepsLeft == IInv => StepsLeft \in Nat /\ (Active => StepsLeft > 0)
<1> SUFFICES ASSUME IInv PROVE StepsLeft \in Nat /\ (Active => StepsLeft > 0)
  OBVIOUS
<1>1. CASE ~Active
  BY <1>1 DEF StepsLeft
<1>2. CASE Active /\ cancel_requested
  BY <1>2, CountsOfSteps, RestIs DEF StepsLeft, Suspensions
<1>3. CASE Active /\ ~cancel_requested
  BY <1>3, CountsOfSteps, RestIs DEF StepsLeft, Suspensions
<1> QED BY <1>1, <1>2, <1>3

LEMMA RoundIsShorter ==
  ASSUME NEW n \in Nat, NEW k \in Nat, NEW len \in Nat, NEW p \in 0..2, NEW r \in 5..6
  PROVE  6 + (4 * (n - (k + 1)) + 2) + (len + p) < r + (4 * (n - k) + 2) + len
OBVIOUS

\* One spread more, with at most two pages.
LEMMA BodyAdvances ==
  ASSUME IInv, at \in {"capture", "crop"},
         NEW outcome \in {"done", "failed"}, NEW pages,
         pages = IF outcome = "done" THEN PagesOf(i) ELSE <<>>,
         Body(outcome, pages)
  PROVE  StepsLeft' < StepsLeft
<1>1. /\ req.n \in Nat /\ i \in 1..req.n /\ Len(page_pngs) \in Nat
      /\ Len(page_pdfs) = 0 /\ Active /\ cancel_requested \in BOOLEAN
  BY CountsOfSteps DEF Active
<1>2. UNCHANGED <<req, cancel_requested, page_pdfs>> /\ page_pngs' = page_pngs \o pages
  BY DEF Body, env
<1>3. Len(page_pngs') = Len(page_pngs) + Len(pages) /\ Len(pages) \in 0..2
  <2>1. pages \in Seq(Pages) /\ Len(pages) \in 0..2
    <3>1. PagesOf(i) \in Seq(Pages) /\ Len(PagesOf(i)) \in 1..2
      BY <1>1, PagesOfSpread DEF IInv, Types
    <3>2. <<>> \in Seq(Pages) /\ Len(<<>>) = 0
      BY EmptySeq
    <3> QED BY <3>1, <3>2
  <2>2. Len(page_pngs \o pages) = Len(page_pngs) + Len(pages)
    BY <2>1, ConcatenatedElements DEF IInv, Books
  <2> QED BY <1>2, <2>1, <2>2, Zenon
<1>4. CASE NextSpread(outcome)
  <2>1. ~cancel_requested /\ at' = "capture" /\ i' = i + 1 /\ Active'
    BY <1>4 DEF NextSpread, Active
  <2>2. StepsLeft' = 6 + (4 * (req.n - (i + 1)) + 2) + (Len(page_pngs) + Len(pages))
    BY <1>1, <1>2, <1>3, <2>1, RestIs DEF StepsLeft, ToRender, ToConvert
  <2>3. PICK r \in 5..6 : StepsLeft = r + (4 * (req.n - i) + 2) + Len(page_pngs)
    BY <1>1, <2>1, RestIs DEF StepsLeft, ToRender, ToConvert
  <2>4. 6 + (4 * (req.n - (i + 1)) + 2) + (Len(page_pngs) + Len(pages))
          < r + (4 * (req.n - i) + 2) + Len(page_pngs)
    <3> DEFINE n == req.n  len == Len(page_pngs)  p == Len(pages)
    <3>1. n \in Nat /\ i \in Nat /\ len \in Nat /\ p \in 0..2
      BY <1>1, <1>3
    <3> HIDE DEF n, len, p
    <3>2. 6 + (4 * (n - (i + 1)) + 2) + (len + p) < r + (4 * (n - i) + 2) + len
      BY <3>1, RoundIsShorter
    <3> QED BY <3>2 DEF n, len, p
  <2> QED BY <2>2, <2>3, <2>4, Zenon
<1>5. CASE LeavesLoop(outcome)
  <2>1. ~cancel_requested /\ at' \in {"icc", "convert"} /\ Active' /\ i = req.n
    BY <1>5 DEF LeavesLoop, Active
  <2>2. PICK q \in 3..4 : StepsLeft' = q + (Len(page_pngs) + Len(pages))
    BY <1>1, <1>2, <1>3, <2>1, RestIs DEF StepsLeft, ToRender, ToConvert
  <2>3. PICK r \in 5..6 : StepsLeft = r + 2 + Len(page_pngs)
    <3>1. ToRender = 2 /\ ToConvert = Len(page_pngs)
      BY <1>1, <2>1 DEF ToRender, ToConvert
    <3> QED BY <1>1, <2>1, <3>1, RestIs DEF StepsLeft
  <2> DEFINE len == Len(page_pngs)  p == Len(pages)
  <2>4. len \in Nat /\ p \in 0..2
    BY <1>1, <1>3
  <2>5. StepsLeft' = q + (len + p) /\ StepsLeft = r + 2 + len
    BY <2>2, <2>3
  <2> HIDE DEF len, p
  <2> QED BY <2>4, <2>5
<1>6. CASE at' = "over"
  BY <1>1, <1>6, OverIsZero, SomeStepsLeft
<1> QED BY <1>4, <1>5, <1>6 DEF Body, StopsAtFlag, StopsWithNone, StopsAtIcc, StopsReading,
       Stops, Ends

LEMMA LoopAdvances ==
  ASSUME IInv, Captured \/ CaptureFails \/ Cropped
  PROVE  StepsLeft' < StepsLeft
<1>1. CASE Captured /\ i \in req.split
  <2>1. /\ at = "capture" /\ at' = "crop" /\ Active /\ Active'
        /\ UNCHANGED <<req, i, cancel_requested, page_pngs, page_pdfs>>
    BY <1>1 DEF Captured, Resumed, Goto, Active, env, locals
  <2>2. ToRender' = ToRender /\ ToConvert' = ToConvert
    BY <2>1 DEF ToRender, ToConvert
  <2> QED BY <2>1, <2>2, CountsOfSteps, RestIs DEF StepsLeft
<1>2. CASE ~(Captured /\ i \in req.split)
  <2> DEFINE PagesIf(outcome) == IF outcome = "done" THEN PagesOf(i) ELSE <<>>
  <2>1. PICK outcome \in {"done", "failed"} : SpreadEnds(outcome, PagesIf(outcome))
    BY <1>2 DEF Captured, CaptureFails, Cropped
  <2>2. at \in {"capture", "crop"} /\ status = "running"
    BY DEF Captured, CaptureFails, Cropped, Resumed, Active, IInv, Control
  <2>3. Body(outcome, PagesIf(outcome))
    BY <2>1, <2>2, SpreadEndsMeans DEF IInv
  <2> QED BY <2>2, <2>3, BodyAdvances
<1> QED BY <1>1, <1>2

LEMMA StagesAdvance ==
  ASSUME IInv,
         \/ CustomerIcc \/ Converted \/ ConvertFails \/ Merged \/ Assembled
         \/ MergeFails \/ UploadDone \/ UploadFails \/ Raises
  PROVE  StepsLeft' < StepsLeft
<1>1. Active /\ StepsLeft \in Nat /\ StepsLeft > 0
  BY SomeStepsLeft DEF CustomerIcc, Converted, ConvertFails, Merged, Assembled, MergeFails,
     UploadDone, UploadFails, Raises, Resumed, Active
<1>2. CASE at' = "over"
  BY <1>1, <1>2, OverIsZero
<1>3. CASE CustomerIcc /\ at' # "over"
  <2>1. /\ at = "icc" /\ at' = "convert" /\ Active'
        /\ UNCHANGED <<cancel_requested, page_pngs, page_pdfs>>
    BY <1>3 DEF CustomerIcc, IccFound, IccRefused, ReadBack, Crash, End, Goto, Resumed, Active
  <2>2. ToConvert' = ToConvert /\ ToRender' = 0 /\ ToRender = 0
    BY <2>1 DEF ToRender, ToConvert
  <2> QED BY <1>1, <2>1, <2>2, CountsOfSteps, RestIs DEF StepsLeft
<1>4. CASE Converted /\ at' # "over"
  <2> DEFINE p == page_pngs[Len(page_pdfs) + 1]
  <2>1. /\ at = "convert" /\ UNCHANGED <<cancel_requested, page_pngs>>
        /\ page_pdfs' = Append(page_pdfs, p)
        /\ at' \in {"convert", "merge"} /\ (at' = "merge" => ~cancel_requested)
        /\ (at' = "convert" => Len(page_pdfs') < Len(page_pngs))
    BY <1>4 DEF Converted, End, Goto, Resumed
  <2>2. p \in Pages
    BY <2>1, ElementOfSeq, LenProperties DEF IInv, Files, Books
  <2>3. Len(page_pdfs') = Len(page_pdfs) + 1
    <3>1. Len(Append(page_pdfs, p)) = Len(page_pdfs) + 1
      BY <2>2, AppendedElements DEF IInv, Files
    <3> QED BY <2>1, <3>1, Zenon
  <2>4. ToConvert' = ToConvert - 1 /\ ToRender' = 0 /\ ToRender = 0 /\ Active'
    BY <2>1, <2>3, CountsOfSteps DEF ToRender, ToConvert, Active
  <2> HIDE DEF p
  <2> QED BY <1>1, <2>1, <2>4, CountsOfSteps, RestIs DEF StepsLeft
<1>5. CASE Merged /\ at' # "over"
  <2>1. /\ at = "merge" /\ at' \in {"assemble", "upload"} /\ Active'
        /\ UNCHANGED <<cancel_requested, page_pngs, page_pdfs>>
        /\ (at' = "upload" => ~cancel_requested)
    BY <1>5 DEF Merged, MergeOver, Crash, End, Goto, Resumed, Active
  <2>2. ToConvert' = ToConvert /\ ToRender' = 0 /\ ToRender = 0
    BY <2>1 DEF ToRender, ToConvert
  <2> QED BY <1>1, <2>1, <2>2, CountsOfSteps, RestIs DEF StepsLeft
<1>6. CASE Assembled /\ at' # "over"
  <2>1. /\ at = "assemble" /\ at' = "upload" /\ Active' /\ ~cancel_requested
        /\ UNCHANGED <<cancel_requested, page_pngs, page_pdfs>>
    BY <1>6 DEF Assembled, MergeOver, Crash, End, Goto, Resumed, Active
  <2>2. ToConvert' = ToConvert /\ ToRender' = 0 /\ ToRender = 0
    BY <2>1 DEF ToRender, ToConvert
  <2> QED BY <1>1, <2>1, <2>2, CountsOfSteps, RestIs DEF StepsLeft
<1>7. CASE ConvertFails \/ MergeFails \/ UploadDone \/ UploadFails \/ Raises
  <2>1. at' = "over"
    BY <1>7 DEF ConvertFails, IccRefused, MergeFails, UploadDone, UploadFails,
       UploadRefused, Raises, Abandoned, End
  <2> QED BY <1>2, <2>1
<1> QED BY <1>2, <1>3, <1>4, <1>5, <1>6, <1>7

\* A flag that is set leaves no more than was left without it.
LEMMA FlagShortens ==
  ASSUME IInv, Active, cancel_requested' = TRUE,
         UNCHANGED <<req, at, i, page_pngs, page_pdfs>>
  PROVE  StepsLeft' <= StepsLeft
<1>1. ToConvert' = ToConvert /\ ToRender' = ToRender /\ Active'
  BY DEF ToRender, ToConvert, Active
<1>2. StepsLeft' = RestIfFlagged[at] + (IF at \in {"icc", "convert"} THEN ToConvert ELSE 0)
  BY <1>1 DEF StepsLeft
<1>3. CASE cancel_requested
  BY <1>2, <1>3, SomeStepsLeft DEF StepsLeft
<1>4. CASE ~cancel_requested
  BY <1>2, <1>4, CountsOfSteps, RestIs DEF StepsLeft, Suspensions
<1> QED BY <1>3, <1>4, CountsOfSteps

\* How far run_job can still go is bounded by the request, and comes to nothing
\* exactly when it has ended: an upper bound of its resumptions, whatever fails.
StepsAreBounded ==
  /\ StepsLeft \in 0..(IF cancel_requested THEN 2 * req.n + 1 ELSE 4 * req.n + 4)
  /\ StepsLeft = 0 <=> ~Active

\* In the loop, the pages are those of the spreads before the current one.
LEMMA PagesSoFar ==
  ASSUME IInv
  PROVE  /\ Len(page_pngs) <= 2 * req.n
         /\ at \in {"capture", "crop"} => Len(page_pngs) <= 2 * (i - 1)
<1> USE DEF IInv
<1>1. req.n \in Nat /\ i \in 1..req.n /\ Len(page_pngs) \in Nat
  BY CountsOfSteps
<1>2. Len(page_pngs) <= 2 * rendered /\ rendered = Cardinality(With("done"))
  BY DEF Books
<1>3. rendered \in 0..req.n
  BY <1>2, WithIsFinite
<1>4. CASE at \in {"capture", "crop"}
  <2> DEFINE m == i - 1
  <2>1. m \in Nat /\ With("done") \in SUBSET (1..m)
    BY <1>1, <1>4 DEF With, Places, InLoop
  <2> HIDE DEF m
  <2>2. IsFiniteSet(1..m) /\ Cardinality(1..m) = IF 1 > m THEN 0 ELSE m - 1 + 1
    BY <2>1, FS_Interval
  <2>3. Cardinality(1..m) = m
    BY <2>1, <2>2
  <2>4. Cardinality(With("done")) <= m
    BY <2>1, <2>2, <2>3, FS_Subset
  <2> USE DEF m
  <2> QED BY <1>1, <1>2, <1>3, <2>4
<1> QED BY <1>1, <1>2, <1>3, <1>4

\* run_job ends by itself after a number of resumptions that the request bounds.
THEOREM RunJobIsBounded == Spec => []StepsAreBounded
<1>1. ASSUME IInv PROVE StepsAreBounded
  <2>1. StepsLeft \in Nat /\ (Active => StepsLeft > 0)
    BY <1>1, SomeStepsLeft
  <2>2. StepsLeft = 0 <=> ~Active
    BY <2>1 DEF StepsLeft
  <2>3. req.n \in Nat /\ req.n >= 1
    BY <1>1, CountsOfSteps
  <2>4. ToConvert <= 2 * req.n
    BY <1>1, CountsOfSteps, PagesSoFar DEF ToConvert
  <2>5. CASE ~Active
    BY <2>2, <2>3, <2>5 DEF StepsAreBounded
  <2>6. CASE Active /\ cancel_requested
    <3>1. StepsLeft <= 2 * req.n + 1
      BY <1>1, <2>3, <2>4, <2>6, CountsOfSteps, RestIs DEF StepsLeft, Suspensions
    <3> QED BY <2>1, <2>2, <2>3, <2>6, <3>1 DEF StepsAreBounded
  <2>7. CASE Active /\ ~cancel_requested
    <3>1. StepsLeft <= 4 * req.n + 4
      <4>1. CASE at \in {"capture", "crop"}
        <5>1. PICK r \in 5..6 : StepsLeft = r + (4 * (req.n - i) + 2) + Len(page_pngs)
          <6>1. ToRender = 4 * (req.n - i) + 2 /\ ToConvert = Len(page_pngs)
            BY <1>1, <4>1, CountsOfSteps DEF ToRender, ToConvert
          <6> QED BY <2>7, <4>1, <6>1, RestIs DEF StepsLeft
        <5>2. /\ i \in 1..req.n /\ Len(page_pngs) \in Nat
              /\ Len(page_pngs) <= 2 * (i - 1)
          BY <1>1, <4>1, CountsOfSteps, PagesSoFar
        <5> DEFINE n == req.n  len == Len(page_pngs)
        <5>3. /\ n \in Nat /\ i \in 1..n /\ len \in Nat /\ len <= 2 * (i - 1)
              /\ StepsLeft = r + (4 * (n - i) + 2) + len
          BY <2>3, <5>1, <5>2
        <5> HIDE DEF n, len
        <5>4. StepsLeft <= 4 * n + 4
          BY <5>3
        <5> QED BY <5>4 DEF n
      <4>2. CASE at \notin {"capture", "crop"}
        BY <1>1, <2>3, <2>4, <2>7, <4>2, CountsOfSteps, RestIs
           DEF StepsLeft, ToRender, Suspensions
      <4> QED BY <4>1, <4>2
    <3> QED BY <2>1, <2>2, <2>3, <2>7, <3>1 DEF StepsAreBounded
  <2> QED BY <2>5, <2>6, <2>7
<1> QED BY <1>1, InvHolds, PTL

\* Each resumption of run_job brings its end nearer, and no step of a handler,
\* the storage service, the consumer or the shutdown puts it farther away.
THEOREM RunJobGoesOn == Spec => RunJobAdvances
<1>1. ASSUME IInv, (StepsLeft \in Nat)', [Next]_vars
      PROVE  [/\ RunJob => StepsLeft' < StepsLeft
              /\ Active => StepsLeft' <= StepsLeft]_vars
  <2>1. StepsLeft \in Nat
    BY <1>1, SomeStepsLeft
  <2>2. CASE RunJob
    <3>1. StepsLeft' < StepsLeft
      BY <1>1, <2>2, LoopAdvances, StagesAdvance DEF RunJob
    <3> QED BY <1>1, <2>1, <3>1
  <2>3. ASSUME Active, ~RunJob, ~UNCHANGED vars PROVE StepsLeft' <= StepsLeft
    <3>1. CASE Submit \/ SkipStale \/ Start
      BY <2>3, <3>1 DEF Submit, SkipStale, Start, Active
    <3>2. CASE Cancel \/ StopBegin
      <4>1. cancel_requested' = TRUE /\ UNCHANGED <<req, at, i, page_pngs, page_pdfs>>
        BY <3>2 DEF Cancel, StopBegin, env, locals
      <4> QED BY <1>1, <2>3, <4>1, FlagShortens
    <3>3. CASE StorageStores \/ Timeout \/ DrainDeadline
      <4>1. UNCHANGED <<req, at, i, cancel_requested, page_pngs, page_pdfs>>
        BY <3>3 DEF StorageStores, Timeout, DrainDeadline, env, locals
      <4>2. StepsLeft' = StepsLeft
        BY <4>1 DEF StepsLeft, ToRender, ToConvert, Active
      <4> QED BY <2>1, <4>2
    <3>4. CASE Unwound
      <4>1. at' \in {"over", "aborted"}
        BY <3>4 DEF Unwound, Abandoned
      <4> QED BY <2>1, <4>1, OverIsZero
    <3>5. CASE UnwindRaises
      <4>1. CASE at' = "over"
        BY <2>1, <4>1, OverIsZero
      <4>2. CASE at' # "over"
        <5>1. UNCHANGED <<req, at, i, cancel_requested, page_pngs, page_pdfs>>
          BY <3>5, <4>2 DEF UnwindRaises, Crash, IccRefused, UploadRefused, Goto, End
        <5>2. StepsLeft' = StepsLeft
          BY <5>1 DEF StepsLeft, ToRender, ToConvert, Active
        <5> QED BY <2>1, <5>2
      <4> QED BY <4>1, <4>2
    <3> QED BY <1>1, <2>3, <3>1, <3>2, <3>3, <3>4, <3>5 DEF Next
  <2> QED BY <2>2, <2>3
<1>2. Spec => [](StepsLeft \in Nat)
  <2>1. IInv => StepsLeft \in Nat
    BY SomeStepsLeft
  <2> QED BY <2>1, InvHolds, PTL
<1> QED BY <1>1, <1>2, InvHolds, PTL DEF Spec, RunJobAdvances

-----------------------------------------------------------------------------
(* What a result says of the file, and what the file carries.              *)

\* The OutputIntent is in the file that is sent if the profile is a bundled
\* one, and announced if there is any profile.
Intents ==
  /\ at = "upload" \/ put # "none" => merged.intent = (req.color = "bundled")
  /\ put = "stored" => stored.intent = merged.intent
  /\ status = "completed" => result.intent = (req.color # "rgb")

\* What a step does to the files ...
IntentMoves ==
  \/ UNCHANGED <<merged, put, stored>> /\ (at' = "upload" => at = "upload")
  \/ /\ put = "none" /\ put' \in {"none", "sent"}
     /\ at' = "upload" \/ put' # "none" => merged'.intent = (req.color = "bundled")
  \/ put = "sent" /\ put' = "stored" /\ stored' = merged /\ UNCHANGED <<at, merged>>

\* ... and to the announcement.
Announces ==
  status' = "completed" =>
    \/ status = "completed" /\ UNCHANGED result
    \/ result'.intent = (req.color # "rgb")

LEMMA StepsOfIntents ==
  ASSUME IInv, [Next]_vars
  PROVE  UNCHANGED req /\ IntentMoves /\ Announces
<1> USE DEF IInv, Control, IntentMoves, Announces, env, locals, object
<1>1. CASE Submit \/ Cancel \/ SkipStale \/ Start
  BY <1>1 DEF Submit, Cancel, SkipStale, Start, Goto, Finalize, TERMINAL
<1>2. CASE Captured /\ i \in req.split
  BY <1>2 DEF Captured, Goto, Resumed, Active
<1>3. CASE \E outcome \in {"done", "failed"} : \E pages :
             SpreadEnds(outcome, pages) /\ at \in {"capture", "crop"}
  <2>1. PICK outcome \in {"done", "failed"} :
          \E pages : SpreadEnds(outcome, pages) /\ at \in {"capture", "crop"}
    BY <1>3
  <2>2. PICK pages : SpreadEnds(outcome, pages) /\ at \in {"capture", "crop"}
    BY <2>1
  <2>3. Body(outcome, pages) /\ status = "running"
    BY <2>2, SpreadEndsMeans DEF Active
  <2> QED BY <2>3 DEF Body, NextSpread, StopsAtFlag, StopsWithNone, StopsAtIcc, StopsReading,
         LeavesLoop, Stops, Ends
<1>4. CASE \/ CustomerIcc \/ Converted \/ ConvertFails \/ Merged \/ Assembled
           \/ MergeFails \/ UploadDone \/ UploadFails \/ (UnwindRaises /\ at # "capture")
  <2>1. UNCHANGED req /\ Production
    BY <1>4, ProductionMeans
  <2>2. Announces
    BY <2>1 DEF Production, GoesOn, Reports, EndsProduction, Ends, Crashed, Delivery, Active
  <2>3. CASE CustomerIcc \/ Converted \/ ConvertFails \/ MergeFails \/ UploadDone \/ UploadFails
    <3>1. UNCHANGED <<merged, put, stored>> /\ at' # "upload"
      BY <2>3 DEF CustomerIcc, Converted, ConvertFails, MergeFails, UploadDone, UploadFails,
         UploadRefused, IccFound, IccRefused, ReadBack, Crash, Goto, End
    <3> QED BY <2>1, <2>2, <3>1
  <2>6. CASE UnwindRaises /\ at # "capture"
    <3>1. UNCHANGED <<merged, put, stored>> /\ (at' = "upload" => at = "upload")
      BY <2>6 DEF UnwindRaises, UploadRefused, IccRefused, Crash, Goto, End
    <3> QED BY <2>1, <2>2, <3>1
  <2>4. CASE Merged
    <3>1. put = "none" /\ merged' = [pages |-> page_pdfs, intent |-> FALSE]
      BY <2>4 DEF Merged, Resumed, Places, StagesByPlace
    <3>2. \/ at' = "assemble" /\ put' = put
          \/ req.color # "bundled" /\ put' \in {put, "sent"}
      BY <2>4 DEF Merged, MergeOver, Crash, Goto, End
    <3>3. merged'.intent = FALSE
      BY <3>1
    <3> QED BY <2>1, <2>2, <3>1, <3>2, <3>3
  <2>5. CASE Assembled
    <3>1. /\ put = "none" /\ put' \in {put, "sent"} /\ req.color = "bundled"
          /\ merged' = [pages |-> merged.pages, intent |-> TRUE]
      BY <2>5 DEF Assembled, MergeOver, Crash, Goto, End, Resumed, Places, StagesByPlace
    <3>2. merged'.intent = TRUE
      BY <3>1
    <3> QED BY <2>1, <2>2, <3>1, <3>2
  <2> QED BY <1>4, <2>3, <2>4, <2>5, <2>6
<1>5. CASE Raises \/ Unwound \/ (UnwindRaises /\ at = "capture")
  BY <1>5 DEF Raises, Unwound, UnwindRaises, Crash, End, Abandoned, Finalize, Resumed, Active, TERMINAL
<1>6. CASE StorageStores
  BY <1>6 DEF StorageStores
<1>7. CASE Timeout \/ StopBegin \/ DrainDeadline \/ UNCHANGED vars
  BY <1>7 DEF Timeout, StopBegin, DrainDeadline, vars
<1>8. Captured \/ CaptureFails \/ Cropped =>
        \/ Captured /\ i \in req.split
        \/ \E outcome \in {"done", "failed"} : \E pages :
             SpreadEnds(outcome, pages) /\ at \in {"capture", "crop"}
  BY DEF Captured, CaptureFails, Cropped, Resumed
<1> QED BY <1>1, <1>2, <1>3, <1>4, <1>5, <1>6, <1>7, <1>8 DEF Next, RunJob

\* What ReportedIntentIsEmbedded hopes for holds of a completed job exactly if
\* its profile is not the customer's: for each other request the file carries
\* the OutputIntent if and only if the result announces it, and a customer's
\* never carries the one that is announced for it.
IntentIsEmbeddedUnlessCustomer ==
  status = "completed" => (result.intent = stored.intent <=> req.color # "customer")

\* The customer's profile, which PDF/X assembly is skipped for, is the one cause
\* of results that announce what their file does not carry.
THEOREM OnlyCustomersLoseTheIntent == Spec => []IntentIsEmbeddedUnlessCustomer
<1>1. Init => Intents
  BY DEF Init, Intents
<1>2. ASSUME IInv, Intents, [Next]_vars PROVE Intents'
  <2>1. UNCHANGED req /\ IntentMoves /\ Announces
    BY <1>2, StepsOfIntents
  <2> QED BY <1>2, <2>1 DEF Intents, IntentMoves, Announces
<1>3. IInv /\ Intents => IntentIsEmbeddedUnlessCustomer
  <2> SUFFICES ASSUME IInv, Intents, status = "completed"
               PROVE  result.intent = stored.intent <=> req.color # "customer"
    BY DEF IntentIsEmbeddedUnlessCustomer
  <2>1. /\ stored.intent = (req.color = "bundled")
        /\ result.intent = (req.color # "rgb")
    BY DEF IInv, Intents, Endings, Delivered
  <2>2. req.color \in {"rgb", "bundled", "customer"}
    BY RequestFacts DEF IInv, Types
  <2> QED BY <2>1, <2>2
<1> QED BY <1>1, <1>2, <1>3, InvHolds, PTL DEF Spec

=============================================================================
