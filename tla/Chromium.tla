------------------------------ MODULE Chromium ------------------------------
(***************************************************************************)
(* The headless browsers of the worker: the one of the capture in progress *)
(* (capture_spread, called by the single run_job) and those that GET       *)
(* /healthz launches to find out whether Chromium works (_chromium_ok),    *)
(* with the verdict it caches.                                             *)
(*                                                                         *)
(* Requests are handled concurrently: _chromium_ok reads the cache before  *)
(* its first await and writes it after the last.                           *)
(***************************************************************************)
EXTENDS Naturals

CONSTANTS
  Requests,      \* the requests to /healthz
  TTL,           \* _CHROMIUM_CACHE_TTL_SEC
  MaxTime        \* bound on the clock

ASSUME TTLAssumption == TTL \in Nat \ {0}
ASSUME MaxTimeAssumption == MaxTime \in Nat

VARIABLES
  run,           \* run_job: "idle", "between" captures, or where a capture is
  expired,       \* the wall clock of the run has cancelled it, once
  clock,         \* time.monotonic()
  cache,         \* _chromium_cache: no verdict, or the last one written
  health,        \* per request: "new", "probing" or "closing"; "cached" or
                 \* "probed" when answered
  now,           \* the local of _chromium_ok: when the request came in
  answer         \* the verdict the request got

runVars    == <<run, expired>>
healthVars == <<cache, health, now, answer>>
vars       == <<runVars, clock, healthVars>>

NoVerdict == [at |-> 0, ok |-> "none"]
Verdicts  == {"up", "down"}

Init ==
  /\ run = "idle" /\ expired = FALSE
  /\ clock = 0
  /\ cache = NoVerdict
  /\ health = [r \in Requests |-> "new"]
  /\ now = [r \in Requests |-> 0]
  /\ answer = [r \in Requests |-> "none"]

-----------------------------------------------------------------------------
(* run_job and its captures.                                               *)

RunStarts ==
  /\ run = "idle"
  /\ run' = "between" /\ expired' = FALSE
  /\ UNCHANGED <<clock, healthVars>>

RunEnds ==
  /\ run = "between" /\ ~expired
  /\ run' = "idle"
  /\ UNCHANGED <<expired, clock, healthVars>>

\* A capture begins: playwright's driver is started for it.
Capture ==
  /\ run = "between" /\ ~expired
  /\ run' = "starting"
  /\ UNCHANGED <<expired, clock, healthVars>>

\* The driver is there, or its start raises.
Started ==
  /\ run = "starting"
  /\ run' \in {"launching", "between"}
  /\ UNCHANGED <<expired, clock, healthVars>>

\* The launch succeeds, or fails with a RenderError: no browser to close.
Launched ==
  /\ run = "launching"
  /\ run' \in {"open", "stopping"}
  /\ UNCHANGED <<expired, clock, healthVars>>

\* The page was captured, or it failed: the finally closes the browser.
PageOver ==
  /\ run = "open"
  /\ run' = "closing"
  /\ UNCHANGED <<expired, clock, healthVars>>

\* close() returns or raises, and the driver is stopped.
Closed ==
  /\ run = "closing"
  /\ run' = "stopping"
  /\ UNCHANGED <<expired, clock, healthVars>>

\* The stop returns or raises; after a cancellation that ends the run.
Stopped ==
  /\ run = "stopping"
  /\ run' = IF expired THEN "idle" ELSE "between"
  /\ UNCHANGED <<expired, clock, healthVars>>

ExpireOfPages ==                                                \* mutant
  /\ run = "open" /\ ~expired
  /\ expired' = TRUE /\ run' = "closing"
  /\ UNCHANGED <<clock, healthVars>>

\* Where a cancelled run is on its way out: the finally closes a browser that
\* is open, and the end of the async with stops a driver that has started.
WayOut ==
  [between   |-> "idle",     starting |-> "idle",
   launching |-> "stopping", open     |-> "closing",
   closing   |-> "stopping", stopping |-> "idle"]

\* The wall clock strikes.
Expire ==
  /\ run # "idle" /\ ~expired
  /\ expired' = TRUE
  /\ run' = WayOut[run]
  /\ UNCHANGED <<clock, healthVars>>

-----------------------------------------------------------------------------
(* GET /healthz.                                                           *)

Fresh == cache # NoVerdict /\ clock - cache.at < TTL

\* The cached verdict is served, or a browser is launched.
Healthz(r) ==
  /\ health[r] = "new"
  /\ now' = [now EXCEPT ![r] = clock]
  /\ IF Fresh
       THEN /\ health' = [health EXCEPT ![r] = "cached"]
            /\ answer' = [answer EXCEPT ![r] = cache.ok]
       ELSE /\ health' = [health EXCEPT ![r] = "probing"]
            /\ UNCHANGED answer
  /\ UNCHANGED <<runVars, clock, cache>>

ProbeLaunched(r) ==
  /\ health[r] = "probing"
  /\ health' = [health EXCEPT ![r] = "closing"]
  /\ UNCHANGED <<runVars, clock, cache, now, answer>>

StampedLate(r, ok) == cache' = [at |-> clock, ok |-> ok]        \* mutant

StampedExpiry(r, ok) == cache' = [at |-> now[r] + TTL, ok |-> ok]  \* mutant

Stamped(r, ok) == cache' = [at |-> now[r], ok |-> ok]

\* The browser was closed, or the launch or the close failed.
ProbeOver(r) ==
  \E ok \in Verdicts :
    /\ health[r] = "closing" \/ (health[r] = "probing" /\ ok = "down")
    /\ health' = [health EXCEPT ![r] = "probed"]
    /\ answer' = [answer EXCEPT ![r] = ok]
    /\ Stamped(r, ok)
    /\ UNCHANGED <<runVars, clock, now>>

-----------------------------------------------------------------------------
Tick ==
  /\ clock < MaxTime
  /\ clock' = clock + 1
  /\ UNCHANGED <<runVars, healthVars>>

RunJob ==
  \/ RunStarts \/ RunEnds
  \/ Capture \/ Started \/ Launched \/ PageOver \/ Closed \/ Stopped

Next ==
  \/ RunJob
  \/ Expire
  \/ \E r \in Requests : Healthz(r) \/ ProbeLaunched(r) \/ ProbeOver(r)
  \/ Tick

Spec == Init /\ [][Next]_vars

\* The timer of wait_for fires, a close and a stop return (or raise).  Of the
\* start, the launch, the page and the probes nothing is assumed.
LiveSpec == Spec /\ WF_vars(Expire) /\ WF_vars(Closed) /\ WF_vars(Stopped)

\* The same without trust in browser.close(), which has no timeout.
HungCloseSpec == Spec /\ WF_vars(Expire) /\ WF_vars(Stopped)

-----------------------------------------------------------------------------
\* Type invariant.
TypeOK ==
  /\ run \in {"idle", "between", "starting", "launching", "open", "closing",
             "stopping"}
  /\ expired \in BOOLEAN
  /\ clock \in 0..MaxTime
  /\ cache \in [at : 0..MaxTime, ok : Verdicts] \cup {NoVerdict}
  /\ health \in [Requests -> {"new", "probing", "closing", "cached", "probed"}]
  /\ now \in [Requests -> 0..MaxTime]
  /\ answer \in [Requests -> Verdicts \cup {"none"}]

\* A verdict served from the cache is one that a probe found, and that probe
\* came in less than TTL before the request it answers: neither a slow probe
\* nor one that is overtaken by another makes it older.
ServedVerdictIsRecent ==
  \A r \in Requests : health[r] = "cached" =>
    \E q \in Requests : /\ health[q] = "probed" /\ answer[q] = answer[r]
                        /\ now[q] <= now[r] /\ now[r] - now[q] < TTL

\* "a stuck render never outlives" the wall clock (settings): a run ends, even
\* if the driver does not start, the browser does not launch or the page never
\* answers.
StuckRenderEnds == run # "idle" ~> run = "idle"

=============================================================================
