# The export-PDF worker in TLA+

A formal model of the Storybook export-PDF worker (`src/`, Python, one asyncio
process): TLA+ modules, TLC runs over small instances, and TLAPS proofs. Paths
below are relative to the repository, so `src/jobs/consumer.py` is the consumer.

    tlc -workers 2 -config WorkerSafety.cfg MCExportWorker      # a run
    for p in ExportWorkerProofs PipelineProofs PipelineRefinements \
             WorkdirProofs StorageUploadProofs ChromiumProofs JobTimeProofs \
             IccProofs; do tlapm $p.tla; done                    # the proofs

## 1. Inventory

The worker takes export jobs from an orchestrator (python-api), renders their
spreads with headless Chromium, converts them to CMYK, merges them into one PDF
and PUTs it to a storage service. The orchestrator polls. Nothing is persisted.

| component | state | operations | correct when |
|---|---|---|---|
| registry (`jobs/registry.py`) | `_JOBS`, the bounded `_QUEUE`, `_SEM`; per job `status`, `cancel_requested`, progress maps, `result` | `try_enqueue`, `get_job`, counts | a waiting job has exactly one entry; a refused one leaves nothing |
| consumer, prune loop, shutdown (`jobs/consumer.py`) | where the one consumer task is suspended; pending cancellation | `_consumer_loop`, `prune_terminal`, `start`, `stop` | every accepted job is served once and in order; every run ends once; the shutdown ends |
| pipeline (`jobs/pipeline.py`) | locals of `run_job`; a temporary directory | five stages with a cancel check before each piece of work | the result, the progress maps and the stored PDF tell the same story; no file is left behind |
| routers (`routers/`) | none | submit, poll, cancel, healthz | a cancel never loses to, or is lost by, the consumer |
| capture and pages (`services/pdf_render.py`) | one browser per capture | `capture_spread`, `crop_dps_halves`, `png_to_pdf`, `merge_pdfs` | page order; a stuck page is ended |
| colour (`services/color_convert.py`, `icc_registry.py`) | a byte cache over files that deploys change | `resolve_icc`, `png_to_cmyk_pdf`, `assemble_pdfx` | exactly the usable profiles are accepted; what the result says of the profile is what the file carries |
| upload (`services/storage_upload.py`) | attempts made | `put_object` | a URL is returned only for this job's stored PDF |
| health probe (`routers/healthz.py`) | `_chromium_cache` | `_chromium_ok` | the verdict is recent; probes are rare |
| render token (`services/render_token.py`) | none; two clocks | sign, verify | a token outlives the render it is for |
| URL guard (`services/ssrf_guard.py`, `storage_hosts.py`) | none | `validate_public_url`; the rest is dormant | only hosts that are public when checked are asked |
| auth, envelope, settings | none | pure functions | (section 7) |
| lifespan, deployment (`main.py`, `deploy/`, `scripts/`) | the process | start, stop, kill, restart | |

**Interaction.** Everything runs on one event loop. Handlers write `_JOBS` and
`_QUEUE` and return without awaiting; the consumer takes ids from the queue and
awaits `run_job` under `wait_for`; `run_job` awaits Chromium, worker threads, and
HTTP calls, and looks at `job.cancel_requested` between them; the prune loop and
`stop()` read and write the same jobs. Handlers, prune loop and `stop()` can run
only where the consumer's task is suspended: that, and not locks, is what makes
the code atomic where it is.

**What is hard.** A cancel racing the dequeue or any of some ten suspensions of a run;
the wall clock, and the shutdown, cancelling an await whose effect has already happened;
a cancellation that a clean-up's exception replaces; a shutdown that goes on serving;
stale entries holding queue slots; requests to the storage service that arrive after the
worker has given up on them; a check-then-await cache; threads that outlive the await
they were started for, and write while `rmtree` runs; tokens, retention and polls on
clocks that are set and callbacks that are late; files replaced under a byte cache.
`PROJECT.json` lists these hazards line by line, with the properties that cover each.

## 2. Modules

    ExportJobContract  <-- implemented by --  ExportWorker  <-- by --  Pipeline
    Pipeline           <-- extended by    --  Workdir
    PutContract        <-- implemented by --  StorageUpload
    PutContract        <-- used by        --  Pipeline
    Chromium              (browsers of captures and of health probes)
    JobTime               (render token, retention, prune loop, polls)
    Icc                   (resolve_icc, the fetch, the registry and its cache)

Theorems are in `ExportWorkerProofs`, `PipelineProofs`, `PipelineRefinements`,
`WorkdirProofs`, `StorageUploadProofs`, `ChromiumProofs`, `JobTimeProofs` and
`IccProofs`; the `MC*` modules and the `.cfg` files are the instances for TLC.

**ExportJobContract** is the promise to the orchestrator: the life of a job as
polls show it. Jobs are accepted, start one at a time in the order of acceptance,
finish once, and are forgotten only when finished or when the process is lost.

**ExportWorker** is the process: server phase (`server`), jobs (`status`,
`cancel_requested`), `queue`, the consumer task (`consumer`, `cancelling`) and the run
it awaits (`current`, `phase`, `left`). A step is what one task does between two
suspensions. `consumer = "looping"` is the stretch between the end of a job and the next
suspension, in which no handler can run (`LoopFree`): `Queue.get()` on a queue that is
not empty does not suspend. `run_job` is seen at the granularity of its suspensions:
spreads left to capture (`left`), then colour, merge, upload, with the test of the flag
that precedes each (`Boundary`). `timer` is the one-shot timer of `wait_for`. `ahead` is
a history variable: who was accepted before whom. `Finalized` is `_finalize`;
`Submit`/`Cancel` the handlers; `Dequeue`/`Serve` lines 27-39 of the consumer;
`Timeout`, `Unwound`, `UnwindRaises` what `wait_for` and the three `except` clauses do
(an exception of the unwinding may also be caught on its way: by the fetch, which takes
it for a failure, or by `put_object`, which takes a transport error of its first attempt
for a reason to retry, and goes on); `StopBegin`, `Drained`, `DrainDeadline`, `Exit` are
`stop()`; `Kill`/`Restart` the environment.

**Pipeline** is one job in full: which spreads are double pages, the colour
route, each stage with each of its outcomes, the progress maps, the locals, the
list of pages as a sequence of `<<spread, part>>`, the object in the storage
service. An exception no clause of `run_job` expects is `Crash`: from an await
(`Raises`), from reading a file back in between (`ReadBack`, `MergeOver`), or from a
clean-up (`UnwindRaises`). Its state maps to `ExportWorker` with one job and a queue of one
(`Run!Spec`): phases, boundaries and endings of the abstract run are the ones of
the code, so the queue, timeout and shutdown results of `ExportWorker` are about
this pipeline.

**Workdir** adds the temporary directory to Pipeline, every step of which it keeps.
Conversions, merge and assembly write their file in a thread (`asyncio.to_thread`);
a cancellation abandons the await and not the thread. So `rmtree`, in `run_job`'s
finally, has two steps here (`Rmtree` unlinks what it finds, `Rmdir` may then find
a new entry), and `ThreadWrites` may come before, between and after. No step of the
event loop comes between them: `rmtree` blocks it. `torn` is a history variable. A
killed process leaves its directory behind; that is the container's to clean up, and
outside this module.

**StorageUpload** is `put_object` with its retry, for several jobs one after the
other, over a network that delays and loses requests and answers, behind a gateway that
may answer 5xx in the service's place, whatever has become of the request
(`GatewayAnswers`). `lost` is a history variable: the attempts whose own answer
`put_object` never heard. The key is a
wall-clock millisecond, so two jobs may draw the same one. It implements
**PutContract**; Pipeline's upload satisfies the same contract (`UsesPutContract`):
what Pipeline assumes of an upload is what `put_object` provides.

**JobTime** is the life of a job on its clocks. `now` is true time; `time.time()` of
the worker is `now + offset`, and may be set (`SetClock`) by up to `Step` either way;
a callback runs at most `Lag` after it is due. Each capture signs a token for its
spread (`Signed`), goes through launch, navigation and the wait for fonts and images
under their timeouts, and the page may ask its service for data in the last two; the
service accepts a token up to its leeway after `exp` (`Accepts`). The finished job is
stamped (`Stamp`), the prune loop sleeps and drops what is `Stale`, and an external
orchestrator polls, or dies.

**Icc** is `resolve_icc` for one job after the other: the chain customer URL, named
profile, default; `validate_public_url`; the streamed fetch from a server that may
declare one length and send another, in chunks of any size, and may break off
(`Headers`, `Chunk`, `EndOfBody`, `FetchFails`). The check resolves the host's name, and
the connection resolves it again: the two need not agree, so the `peer` of an answer is
any address, and the code does not look at it. So nothing here says where an accepted
profile came from, only what the host's addresses were when they were checked. Then
there is `Load` with the byte cache, which `/healthz` fills too, over files that
`Deploy` adds, replaces, truncates or removes. `served` and `healthy` are history
variables of the process.

**Chromium** has the capture in progress, step by step as the blocks of `capture_spread`
nest: the driver starts (`async_playwright`), the browser launches, is used and closed
in the finally, the driver stops at the end of the `async with`. The wall clock's single
cancellation leaves by the blocks that are open where it strikes (`WayOut`): a launch
has no browser to close, only the driver to stop. Beside it are the concurrent health
probes with their cached verdict and a clock.

Operators marked `\* mutant` are wrong versions of the definition that follows
them. No specification uses them; `PROJECT.json` names, for every property, the
one it must catch.

## 3. Runs

| run | instance | shows |
|---|---|---|
| `worker_safety` | 4 ids, queue of 2, requests of up to 2 spreads, clean-up may raise | no job lost, served twice, overtaken or left a zombie; each lives once; nothing is started after a cancel, which stands until the job has ended; the contract is implemented |
| `worker_liveness` | 3 ids, queue of 2, 2 spreads, fairness | accepted jobs are served, runs end, a full queue drains, a shutdown ends |
| `drain_signals` | 2 ids | *violated*: a job started during the drain is not signalled |
| `shutdown_swallowed` | 2 ids, clean-up may raise | *violated*: the shutdown never ends |
| `pipeline_safety` | every request of up to 3 spreads (42 of them), with its directory | result, progress and stored PDF agree; page order; isolation of failures; every resumption of `run_job` brings its end nearer; no file left behind; refinement of the run and use of the upload contract |
| `output_intent` | 1 spread | *violated*: intent reported but not embedded |
| `upload_safety` | 3 uploads, 2 keys | a URL serves its own PDF for ever; an orphan comes of a request whose own answer was not heard; the upload contract |
| `redirect_accepted` | 1 upload | *violated*: a redirect counts as success |
| `health_safety` | 3 requests, time to live 2, clock to 4, fairness | a cached verdict is younger than its time to live, counted from the request that measured it; a driver, launch or page that never answers is ended by the wall clock |
| `hung_close` | a close may never return | *violated*: the wall clock strikes while the browser is open, the one cancellation is spent and the run stays in the close |
| `job_time` | 2 captures, steps of 1 tick against a token of 8 (+1), retention 4, prune period 2, clock error 1, lateness 1, to time 13 | no page shown with a token its service refuses; a finished job kept for its retention, then forgotten, and not missed by a poller |
| `icc_safety` | 2 ids, one of them bundled; 2 versions of its file; limit of 2 bytes, bodies up to 3 | hosts refused exactly when not public at the check; of the others exactly the usable answers accepted; one version per process; what `/healthz` found a job finds; a missing file is asked for again |

**Why the bounds are enough.** Four ids and a queue of two give one job running,
two waiting and one refused (then accepted, or left behind by a prune), with
stale entries before and behind live ones (a queue without limit, `QUEUE_MAX` of 0 or
less, is left to the proofs); the code treats ids only by equality
and position. Two spreads tell "another spread" from "last spread" in
ExportWorker; three give Pipeline a first, a middle and a last one, each whole or
split, failed or rendered. Three uploads on two keys force a shared key and a
third party. The clock of `health_safety` spans two times to live, so that a
verdict expires, is replaced by a slower probe's older one, and expires again.
In `job_time` the numbers are small but in the order of the code's: a capture that
takes all of its timeouts just fits a token and two do not, so a token kept from
one capture to the next is refused; the retention holds two polling periods and a
clock error in each direction. In `icc_safety` a body can be empty, below, at and
above the limit, and declare any of these. The `MaxSpreads` of Pipeline, ExportWorker
and JobTime, `MaxTime`, `MaxBody` and the sets of ids are the only bounds; each
appears in a guard or a constant. Liveness runs use no symmetry.

`CHECK_DEADLOCK FALSE` is set where the modelled activity may end: one job
(Pipeline, Workdir), all uploads done. The other modules never deadlock, and TLC
checks that.

## 4. Fairness

`ExportWorker!LiveSpec` assumes only what the event loop and its timers give:
- `WF(Dequeue \/ AwaitQueue)`: a ready consumer callback runs;
- `WF(Unwound \/ UnwindRaises)`: a delivered cancellation unwinds. This is the one
  assumption about other code: clean-ups return or raise, once or, after a retry of
  `put_object`, again. `hung_close` shows what happens if `browser.close()` does neither;
- `WF(Timeout)`: the timer of `wait_for` fires;
- `WF(Stop)`: the poll of `stop()`, its deadline, the return of `gather()`.

Nothing is assumed of the renderer, the converter, the storage service or of
run_job's own progress (`RunJob` is not fair): jobs end even if none of them
answers. `Chromium!LiveSpec` is the same: the timer, a `browser.close()` and a driver's
stop (`async_playwright`'s exit) that return or raise; `HungCloseSpec` is without trust in
the close.
No fairness is assumed of the orchestrator's requests, of kills or restarts.

## 5. Disagreements between the code and what is written about it

Each is a run that is expected to be violated; `PROJECT.json` has the details.
1. `stop()` signals the jobs running when it is called; the consumer then starts
   the next waiting one, which nobody signals (`drain_signals`).
2. An exception of a clean-up replaces the shutdown's `CancelledError`, and the
   consumer goes on (`shutdown_swallowed`).
3. `wait_for` cancels once; if the wall clock strikes while the browser is open and
   `browser.close()` then hangs in the finally, nothing but a shutdown ends the run
   (`hung_close`; the shutdown's cancellation is not part of Chromium).
4. With a customer ICC profile no OutputIntent is embedded, and one is reported
   (`output_intent`).
5. `put_object` takes a 3xx answer for success (`redirect_accepted`).

Others, seen while modelling and not made into runs, most of them because the
code shows them as plainly as a run would:
- `run_job` "Never raises", says its docstring; on the RGB route, on file errors and
  when a browser fails to close it does (`Raises`, `Crash`), and the job's report is empty.
- Concurrent health requests each launch a browser (`healthz.py:30`), and none of them
  takes the semaphore that `settings.py:59` calls a hard cap on Chromium concurrency.
- An empty bundled ICC file makes a CMYK job an RGB one without a word
  (`pipeline.py:168`), while `/healthz` calls the profile loadable (`icc_registry.py:123`).
  `OnlyEmptyFileDropsColor` says that this is the only way.
- A PUT whose answer was lost is retried with `upsert=false`, so the retry is refused
  because of its own object and the job fails with its PDF stored. A gateway's 5xx in
  the place of the service's answer, and a wall clock or a shutdown that strikes in the
  upload, leave an orphan too. `OrphanNeedsLostAnswer` says what these have in common, and
  that there is no other way: the object was stored by a request whose own answer
  `put_object` did not hear.
- The repository's README says "one browser per job"; `capture_spread` launches one per
  spread.
- `crop_dps_halves` says that the left half of an odd width has the extra column;
  `W // 2` gives it to the right half (`pdf_render.py:108`).
- `remix_id` is "required" for a remix (`worker_job.py:44`), and not validated.
- `validate_supabase_url`, which nothing calls, refuses a loopback storage host before
  it gets to the bypass that its comment describes (`ssrf_guard.py:128-151`).

## 6. What is proved

Every safety property that a passing run checks is a theorem. Beside these there are
theorems that no run could check, or only for its bounds: how long a run can take
(`RunJobIsBounded`, `RunsAdvance`) and a queue get (`BacklogIsBounded`), the progress
that the liveness properties rest on (`WaitingJobsMoveUp`, `RunJobGoesOn`), and the
exact cause of each run that is expected to be violated:

| violated run | holds, and is proved, if | theorem |
|---|---|---|
| `shutdown_swallowed` | no clean-up raises; what is proved is that the cancellation arrives and no job starts after it | `ShutdownReachesConsumer` |
| `output_intent` | the profile is not a customer's, and only then | `OnlyCustomersLoseTheIntent` |
| `redirect_accepted` | nothing redirects | `OnlyRedirectsPass` |

(`drain_signals` has no such condition: whenever a job waits at `stop()` it can start
in the drain. That of `hung_close`, a close that returns, is a matter of fairness:
`health_safety` checks it.) What follows says how things are proved, module by module.

`ExportWorkerProofs` proves, for every set of ids, every integer `QueueMax` (0 and
less is no limit, as for asyncio), every `MaxSpreads` above 0, and whether or not
clean-ups raise:

| theorem | statement |
|---|---|
| `TypeCorrect` | `[]TypeOK`, with the bound of the queue |
| `NoJobIsLostOrServedTwice` | `[]QueueAccounts` |
| `NoZombie` | `[]RunningHasOwner` |
| `CancelOfWaitingIsFinal` | `[]NoFlaggedJobWaits` |
| `ServiceIsFifo` | `[]NoOvertaking` |
| `JobsAreNotRevived` | `JobsLiveOnce` |
| `CancelledRunsStartNothing` | `NoWorkAfterCancel` |
| `WorkerImplementsContract` | `Spec => Contract!Spec` |
| `BacklogIsBounded` | `[]`: no more jobs wait than the queue has entries, and than `QueueMax` if that is a limit |
| `WaitingJobsMoveUp` | `QueueAdvances`: a waiting job's place falls by one with each dequeue and is changed by nothing else |
| `RunsAdvance` | `ResumesLeft` is at most `MaxSpreads + 3`, is 0 exactly when nothing runs, falls whenever `run_job` is resumed, to 0 if the job is cancelled |
| `ShutdownReachesConsumer` | if `CleanupMayRaise = FALSE`: `[]ShutdownIsDelivered` and `NoStartInShutdown` |

The assumptions are the four named ones of `ExportWorker` (`NoJob` is no id,
`QueueMax` is an integer, `MaxSpreads` is positive, `CleanupMayRaise` is Boolean).

*The inductive invariant* `IInv` (theorem `InvHolds`). None of the properties is
inductive by itself. "No job overtakes" needs that the queue is ordered by
acceptance (`QueueSorted`) and that acceptance is a strict order (`AheadIsOrder`);
the order is kept by `Enqueue` only because everybody in the queue has been
accepted (`EntriesAccepted`). "A waiting job carries no flag" needs that an unused
id carries none (`FreshUnflagged`), and that whoever runs is the one the consumer
awaits (`RunningHasOwner`, with `RunIsActive`: a run exists exactly while the
consumer is "running"), as `stop()` flags running jobs. A process that is down
has nothing left (`DownIsDead`), or a restart could revive it. Each part has one
step per action; the proof of the refinement maps every action to an action of
the contract or to a stutter, and uses `NoOvertaking` and `RunningHasOwner` for
the guard of the contract's `Start`. `JobsAreNotRevived` is then a fact about the
contract's steps, except for "a live job is forgotten only with the process", which
the contract leaves open and the actions are looked at for.

*Progress.* "Every accepted job is served" and "every run ends" follow, by hand, from
three things: an order that each step of the consumer and of `run_job` goes down in
(proved: `WaitingJobsMoveUp`, `RunsAdvance`); fairness of the consumer and the timer
(assumed, section 4); and that their actions stay enabled until they are taken (TLC).
`BacklogIsBounded` needs that waiting jobs map one to one to entries of the queue,
which is what `QueueAccounts` says.

`PipelineProofs`, for every `MaxSpreads` above 0, which is its only assumption:

| theorem | statement |
|---|---|
| `TypeCorrect` | `[]TypeOK`, with the bounds of counters and page lists |
| `ResultAgrees` | `[]ResultAgreesWithProgress` |
| `StagesAreInOrder` | `[]StagesInOrder` |
| `CompletedFaithful` | `[]CompletedIsFaithful` |
| `CancelledStores` | `[]CancelledStoresNothing` |
| `FailuresAreIsolated` | `[]SpreadFailuresAreIsolated` |
| `FinishedIsFrozen` | `FinishedRecordIsFrozen` |
| `RunJobGoesOn` | `RunJobAdvances` |
| `RunJobIsBounded` | `[]StepsAreBounded`: at most `4n + 4` resumptions for `n` spreads, `2n + 1` once the flag is set, none left exactly when `run_job` has ended |
| `OnlyCustomersLoseTheIntent` | `[]IntentIsEmbeddedUnlessCustomer` |

*The inductive invariant* (`IInv`, theorem `InvHolds`) says what `run_job` keeps in
its locals on the way to the result. `Control`: the status is "running" exactly in
a run. `Places`: in the loop, the spreads before `i` have ended, `i` is rendering, the
later ones wait; after it, all have ended and there is a page; and each later place
fixes the stage maps. `Books`: the counters are the cardinalities of the sets of
rendered and failed spreads, and `page_pngs` holds the pages of the rendered ones, in
order. `Told`: until a later stage fails, "render" is the only error there is, and it
is there if and only if a spread has failed. `Files`: the converted pages are a prefix
of the pages, and what is merged, sent and stored is all of them. `Endings` are the
invariants about the record themselves. A spread can end in six ways (`Body`) and
the later stages in seven (`Production`); lemmas establish these two summaries
from the code's nested conditions once (`SpreadEndsMeans`, `ProductionMeans`), and each
part of the invariant is then kept by the summaries, the handlers and the
environment. `StepsLeft`, the measure of `RunJobAdvances`, counts the suspensions
that a run can still come to: two per spread, one per page to convert, and the later
stages; once the flag is set, those before the next look at it. The
conversion does not look (`pipeline.py:174-187`), so a cancel can be followed by the
conversion of all pages, though by no merge. TLC checks the measure on every request
of the run; that it is a natural number, and that a cancel never raises it, needs the
sizes of the page lists, which are `Books` and `Files`.

`PipelineRefinements`, from the same invariant: `RunJobImplementsRun` (`Spec =>
ImplementsRun`: every step of `run_job` is a step of ExportWorker with one job and a
queue of one, or a stutter) and `RunJobUsesPutContract` (`Spec => UsesPutContract`);
and, without going through ExportWorker, `RunJobMeetsContract`: what polls show of the
job is a life that ExportJobContract allows. `WorkdirProofs`: `NothingIsLeftBehind`
(`[]NothingLeftBehind`) and `RunsWithDirectories`: as every step of Workdir is one of
Pipeline or leaves its variables alone, by the form of `WorkdirNext`, all of the above
is true of Workdir. The invariant of the former (`DirByPlace`) is that in an emptied
directory a started thread, or an entry, means `torn`; and that only a run with a
cancellation on its way can be past its `rmtree`.

`StorageUploadProofs`, for every set of uploads and of keys:

| theorem | statement |
|---|---|
| `TypeCorrect` | `[]TypeOK`: at most two attempts |
| `UrlIsFaithful` | `[]UrlServesOwnPdf`, if `Redirects = FALSE` |
| `OrphansComeFromLostAnswers` | `[]OrphanNeedsLostAnswer`, redirects or not |
| `UploadImplementsContract` | `ImplementsPut`, if `Redirects = FALSE` |
| `RetryStoresOnce` | `[]StoredOnce`: of the two requests of an upload at most one is stored |
| `UrlBelongsToOneJob` | `[]UrlsAreDistinct`, if `Redirects = FALSE` |
| `OnlyRedirectsPass` | `[]NonSuccessRaises`, if `Redirects = FALSE` |

Without the assumption on redirects the four are false: a redirected upload returns a
URL under which its PDF was never stored (`redirect_accepted` is the counterexample of
the last). The invariant relates the two ends of the network: a PDF is in the service if
and only if the service has answered "created" to one of its requests, even if nobody
hears that answer (`CreatedIsStored`), requests are sent one per attempt
(`AttemptsInOrder`), and an attempt whose answer was not lost is the last, and if the
upload failed with it, it was a refusal (`LossesAreKept`). That a stored PDF is never
replaced follows from `Upsert` being FALSE; a late request finds its key taken.

`ChromiumProofs`, for every set of requests, time to live and clock bound, proves
`TypeCorrect` and `CachedVerdictIsRecent`, i.e. `[]ServedVerdictIsRecent`. A cached
verdict may have been written over by a slower probe with an older one; the invariant
`CacheIsProbed` says that whatever the cache holds was found by some probe and carries
the time at which that probe came in, and `NowIsPast` that this time is not in the
future. So the verdict's age is measured from the right moment.

`JobTimeProofs`, for every number of spreads and all timeouts, periods, clock errors
and lateness in Nat with
`StartLimit + NavTimeout + ReadyTimeout + 3 * Lag + 1 + Step < TokenTtl + Leeway` and,
for the last theorem, `PollMax + 2 * Step <= Retention`:

| theorem | statement |
|---|---|
| `TypeCorrect` | `[]TypeOK` |
| `TokensOutliveRenders` | `[]TokenOutlivesRender` |
| `ResultsAreKept` | `[]KeptForRetention` |
| `ResultsAreForgotten` | `[]ForgottenInTime` |
| `ResultsAreSeen` | `[]NoResultIsMissed` |

The invariant says that the token of a capture is this spread's and that, by the end
of a step at the latest, the capture has used up no more of its time than the
timeouts so far and their lateness (`TokenIsFresh`); that the stamp of a finished job
is its true end within `Step` (`StampIsRight`); and that when the prune loop last went
to sleep the job was not stale (`PrunedBefore`).
As shipped the first inequality is at most 150 s (a launch of 30 s
and an allowance of 30 s for the new context and page, which have no limit of their
own; 60 s; 30 s) against 630 s: it leaves some eight minutes to a wrong clock and a
busy loop.

`IccProofs`, for every set of ids and versions, every limit, and all lengths:
`TypeCorrect`, `FetchAcceptsTheUsable` (`[]FetchIsExact`), `ColorIsAsAsked`
(`[]OnlyEmptyFileDropsColor`), `ProcessUsesOneVersion` (`[]OneVersionPerProcess`),
`HealthIsAPromise` (`HealthyIsServed`) and `AbsenceIsForgotten`
(`AbsenceIsNotRemembered`). The invariant's parts are that a stream holds at most the
limit and comes from a good answer to a request for a host that was public when
checked, and that whatever a process
served of a profile, or called healthy, is what its cache holds.

## 7. What is only model-checked, and what is not modelled

Liveness (`AcceptedJobsAreServed`, `RunsEnd`, `FullQueueDrains`, `ShutdownCompletes`,
`StuckRenderEnds`) is checked by TLC only: fairness and ENABLED are beyond the prover.
Of the first two the theorems give the part that is safety (section 6).
Pipeline is one job alone, with nothing queued behind it, so what happens to a
waiting job during a shutdown is ExportWorker's.

Assumed throughout: the spread ids of a request are distinct, and so are the file
names made of them; uvicorn begins the lifespan's shutdown after the last request
is answered; `wait_for` is Python 3.12's (it awaits in the same task; a shutdown that
strikes during a timeout wins); `EXPORT_SEM_CAP` is at least 1, so the one consumer
never waits for the semaphore; the storage service stores whole bodies and refuses a
PUT on an existing key without upsert, and a 2xx comes from the service itself (5xx may
come from anything before it); with a redirect in the way it is `Redirects`. Pipeline takes
from this that a URL is returned for a stored PDF only (the guard of `UploadDone`);
StorageUpload shows it, without redirects.
JobTime assumes that the print page's service verifies as `verify_render_token` does,
on a clock that shows true time; that a browser's start ends within `StartLimit`
(nothing bounds `new_context()` and `new_page()` but their own answers); that a callback
is at most `Lag` late, which a `getaddrinfo` on the event loop can use up; and, for
`NoResultIsMissed`, that the orchestrator polls at least every `PollMax`.

Not modelled, and why:
- authentication, the response envelope and the settings: stateless; the settings
  that matter are CONSTANTS;
- `validate_supabase_url`, `validate_storage_host` and `storage_hosts.py`: no state, and
  no caller in this worker; of the address classes of `_is_blocked_ip` only "public" and
  "private" are told apart;
- what a token, a profile, a raster or a PDF contains, `crop_dps_halves` and
  `png_to_pdf` down to pixels: no property depends on it;
- a mkdtemp that fails before the first suspension; deployment, except that the
  process can be killed, restarted, and its profile files changed under it.

## 8. Plan

Done, in this order: ExportJobContract and ExportWorker with their runs and
proofs; Pipeline and its refinement; PutContract, StorageUpload and Chromium, with
their proofs; JobTime and Icc, with theirs; Workdir; the proofs about Pipeline, its two
refinements and Workdir; bounds, progress and the causes of the violated runs.

Next: the same kind of progress theorem for Chromium's capture and for `put_object`
(at most two attempts and an answer each), and, in Icc and JobTime, the bounds that
follow from their invariants (the bytes a fetch holds, how long a job is known).

Open: several jobs in Pipeline at once are not needed while there is one consumer;
should `EXPORT_SEM_CAP` ever come with more consumers, ExportWorker's `current` becomes
a set and the refinement is per job. If storage URLs are validated again
(`validate_supabase_url`), its decision table is worth a module of pure functions.
