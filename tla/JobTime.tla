------------------------------ MODULE JobTime ------------------------------
(***************************************************************************)
(* The clocks of one export job: the render token signed for each capture  *)
(* and verified by the print page's own service, the timeouts of the       *)
(* capture, the retention of the finished job and the prune loop, and an   *)
(* orchestrator that polls.                                                *)
(*                                                                         *)
(* "now" is true time, which timers and timeouts follow; the verifier's    *)
(* clock shows it too.  time.time() of the worker is now + offset, and may *)
(* be set at any time.  A callback that is due runs at most Lag later: the *)
(* event loop can be busy, for instance with a getaddrinfo.                *)
(***************************************************************************)
EXTENDS Integers

CONSTANTS
  MaxSpreads,     \* bound on the number of spreads
  TokenTtl,       \* _TOKEN_TTL_SEC
  Leeway,         \* _LEEWAY_SEC
  StartLimit,     \* launch (30 s at most), new_context and new_page
  NavTimeout,     \* _NAV_TIMEOUT_MS
  ReadyTimeout,   \* _READY_TIMEOUT_MS
  Retention,      \* settings.job_retention_sec
  PruneInterval,  \* _PRUNE_INTERVAL_SEC
  PollMax,        \* the orchestrator polls at least that often
  Step,           \* how far time.time() may be from true time
  Lag,            \* how late a callback may run
  MaxTime         \* bound on the clock

ASSUME BoundsAssumption ==
  /\ MaxSpreads \in Nat \ {0}
  /\ {TokenTtl, Leeway, StartLimit, NavTimeout, ReadyTimeout, Retention,
      PruneInterval, PollMax, Step, Lag, MaxTime} \subseteq Nat

\* As shipped: the start of a browser, 60 s and 30 s against 600 s and 30 s.
\* One tick is what int(time.time()) may cut off.
ASSUME TokenAssumption ==
  StartLimit + NavTimeout + ReadyTimeout + 3 * Lag + 1 + Step < TokenTtl + Leeway

ASSUME PollAssumption == PollMax + 2 * Step <= Retention

VARIABLES
  now,           \* true time
  offset,        \* time.time() - now
  at,            \* where the job is
  i,             \* the spread that is rendered
  token,         \* the render token of the page: its spread and exp
  due,           \* when the current step of the capture times out
  finalized_at,  \* job.finalized_at
  done_at,       \* history: true time of _finalize
  lived,         \* history: how long the finished job was kept
  wake,          \* when the prune loop's sleep ends
  polled,        \* when the orchestrator polled last
  seen           \* what it knows: "pending", "result", "lost"; "dead" if it died

capture == <<i, token, due>>
ending  == <<finalized_at, done_at, lived>>
poller  == <<polled, seen>>
vars    == <<now, offset, at, capture, ending, wake, poller>>

Rendering == {"launching", "navigating", "gating"}
Active    == {"queued", "closing", "producing"} \cup Rendering

wall == now + offset

NoToken == [spread |-> 0, exp |-> 0]

Init ==
  /\ now = 0 /\ offset \in -Step..Step
  /\ at = "queued" /\ i = 0 /\ token = NoToken /\ due = 0
  /\ finalized_at = 0 /\ done_at = 0 /\ lived = 0
  /\ wake \in 0..PruneInterval
  /\ polled = 0 /\ seen = "pending"

-----------------------------------------------------------------------------
(* The captures.                                                           *)

SignedOnce(k) ==                                                \* mutant
  \E cut \in 0..1 :
    token' = [spread |-> k,
              exp |-> IF token = NoToken THEN wall - cut + TokenTtl ELSE token.exp]

SignedOnTop(k) ==                                               \* mutant
  token' = [spread |-> k, exp |-> token.exp + wall + TokenTtl]

\* exp=int(time.time()) + _TOKEN_TTL_SEC, for one spread.
Signed(k) ==
  \E cut \in 0..1 : token' = [spread |-> k, exp |-> wall - cut + TokenTtl]

\* jwt.decode accepts the token at time t.
Accepts(t) == token.exp > t - Leeway

\* The loop's body for the next spread, up to the launch of its browser.
StartCapture ==
  /\ at \in {"queued", "closing"} /\ i < MaxSpreads
  /\ at' = "launching" /\ i' = i + 1
  /\ Signed(i + 1)
  /\ due' = now + StartLimit
  /\ UNCHANGED <<now, offset, ending, wake, poller>>

\* launch() returned: goto() waits for the page, which fetches its data ...
Launched ==
  /\ at = "launching"
  /\ at' = "navigating" /\ due' = now + NavTimeout
  /\ UNCHANGED <<now, offset, i, token, ending, wake, poller>>

\* ... and then for its fonts and images.
Navigated ==
  /\ at = "navigating"
  /\ at' = "gating" /\ due' = now + ReadyTimeout
  /\ UNCHANGED <<now, offset, i, token, ending, wake, poller>>

\* The page is ready, or a step failed or timed out: no more page.
CaptureOver ==
  /\ at \in Rendering
  /\ at' = "closing" /\ due' = 0
  /\ UNCHANGED <<now, offset, i, token, ending, wake, poller>>

\* All spreads are done: colour, merge and upload need no token.
Produce ==
  /\ at = "closing"
  /\ at' = "producing" /\ token' = NoToken
  /\ UNCHANGED <<now, offset, i, due, ending, wake, poller>>

StampOfSubmission == finalized_at' = 0                           \* mutant

Stamp == finalized_at' = wall

\* _finalize, by whoever ends the job, whenever.
Finalize ==
  /\ at \in Active
  /\ at' = "done" /\ token' = NoToken /\ due' = 0 /\ i' = 0
  /\ Stamp /\ done_at' = now
  /\ UNCHANGED <<now, offset, lived, wake, poller>>

-----------------------------------------------------------------------------
(* The prune loop.                                                         *)

StaleFromRetention == wall - finalized_at >= Retention          \* mutant

\* now - finalized_at > job_retention_sec, on the wall clock.
Stale == wall - finalized_at > Retention

SleptTwice == wake' = now + 2 * PruneInterval                   \* mutant

Sleep == wake' = now + PruneInterval

Prune ==
  /\ now >= wake
  /\ Sleep
  /\ IF at = "done" /\ Stale
       THEN at' = "gone" /\ lived' = now - done_at
       ELSE UNCHANGED <<at, lived>>
  /\ UNCHANGED <<now, offset, capture, finalized_at, done_at, poller>>

-----------------------------------------------------------------------------
(* The orchestrator, external: it polls until it has the result or a 404.  *)

Poll ==
  /\ seen = "pending"
  /\ polled' = now
  /\ seen' = IF at = "done" THEN "result" ELSE IF at = "gone" THEN "lost" ELSE seen
  /\ UNCHANGED <<now, offset, at, capture, ending, wake>>

OrchestratorDies ==
  /\ seen = "pending"
  /\ seen' = "dead"
  /\ UNCHANGED <<now, offset, at, capture, ending, wake, polled>>

-----------------------------------------------------------------------------
(* Time.                                                                   *)

Tick ==
  /\ now < MaxTime
  /\ at \in Rendering => now < due + Lag
  /\ now < wake + Lag
  /\ seen = "pending" => now < polled + PollMax
  /\ now' = now + 1
  /\ UNCHANGED <<offset, at, capture, ending, wake, poller>>

\* The worker's clock is set.
SetClock ==
  /\ offset' \in -Step..Step
  /\ UNCHANGED <<now, at, capture, ending, wake, poller>>

-----------------------------------------------------------------------------
Next ==
  \/ StartCapture \/ Launched \/ Navigated \/ CaptureOver \/ Produce \/ Finalize
  \/ Prune
  \/ Poll \/ OrchestratorDies
  \/ Tick \/ SetClock

Spec == Init /\ [][Next]_vars

-----------------------------------------------------------------------------
\* Type invariant.
TypeOK ==
  /\ now \in 0..MaxTime
  /\ offset \in -Step..Step
  /\ at \in Active \cup {"done", "gone"}
  /\ i \in 0..MaxSpreads
  /\ token \in [spread : 0..MaxSpreads, exp : Int]
  /\ token # NoToken => token.exp <= now + Step + TokenTtl
  /\ due \in Nat
  /\ finalized_at \in -Step..(now + Step)
  /\ done_at \in 0..now
  /\ lived \in 0..MaxTime
  /\ wake \in Nat
  /\ polled \in 0..now
  /\ seen \in {"pending", "result", "lost", "dead"}

\* A render does not outlive its token: whenever the page may ask for its
\* data, its service accepts the token, which is the one of this spread,
\* however slow the steps of this and of earlier captures were and whatever
\* was done to the worker's clock.
TokenOutlivesRender ==
  at \in {"navigating", "gating"} => token.spread = i /\ Accepts(now)

\* A finished job is kept for its retention time, less at most what the clock
\* was set forward meanwhile.
KeptForRetention == at = "gone" => lived > Retention - 2 * Step

\* A finished job is forgotten, polled or not: after its retention time, one
\* period of the prune loop and what the clock was set back.
ForgottenInTime ==
  at = "done" => now - done_at <= Retention + 2 * Step + PruneInterval + Lag

\* An orchestrator that polls often enough never takes a job that the worker
\* finished for a lost one.
NoResultIsMissed == seen # "lost"

=============================================================================
