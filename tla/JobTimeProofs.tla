---------------------------- MODULE JobTimeProofs ----------------------------
(***************************************************************************)
(* JobTime's four properties for every token lifetime, timeout, retention, *)
(* period and clock error that meet its assumptions.  Each is a chain of   *)
(* deadlines: the invariant says how far each clock may have run when the  *)
(* next link is reached.                                                   *)
(***************************************************************************)
EXTENDS JobTime, TLAPS

\* No timer is served more than Lag after it is due.
TimersServed ==
  /\ at \in Rendering => now <= due + Lag
  /\ now <= wake + Lag
  /\ seen = "pending" => now <= polled + PollMax

\* The token of the page is this spread's, and counts from its capture's start:
\* by the end of a step the timeouts have used up no more than their sum.
TokenIsFresh ==
  /\ at \in Rendering => token.spread = i
  /\ at = "launching" =>
       token.exp >= due - StartLimit - 1 - Step + TokenTtl
  /\ at = "navigating" =>
       token.exp >= due - NavTimeout - Lag - StartLimit - 1 - Step + TokenTtl
  /\ at = "gating" =>
       token.exp >= due - ReadyTimeout - NavTimeout - 2 * Lag - StartLimit
                        - 1 - Step + TokenTtl

\* The stamp of a finished job is right up to the clock's error.
StampIsRight ==
  at = "done" =>
    /\ finalized_at \in (done_at - Step)..(done_at + Step)
    /\ seen = "pending" => polled <= done_at

\* When the prune loop slept last, the finished job was not stale yet.
PrunedBefore ==
  /\ wake <= now + PruneInterval
  /\ at = "done" => wake <= done_at + Retention + 2 * Step + PruneInterval

IInv ==
  /\ TypeOK
  /\ TimersServed /\ TokenIsFresh /\ StampIsRight /\ PrunedBefore
  /\ KeptForRetention
  /\ NoResultIsMissed /\ (at = "gone" => seen # "pending")

USE DEF vars, capture, ending, poller, Rendering, Active, wall

\* The parameters are numbers.
LEMMA Numbers ==
  /\ MaxSpreads \in Nat \ {0}
  /\ TokenTtl \in Nat /\ Leeway \in Nat /\ StartLimit \in Nat
  /\ NavTimeout \in Nat /\ ReadyTimeout \in Nat /\ Retention \in Nat
  /\ PruneInterval \in Nat /\ PollMax \in Nat /\ Step \in Nat /\ Lag \in Nat
  /\ MaxTime \in Nat
BY BoundsAssumption

LEMMA InitInv == Init => IInv
BY Numbers DEF Init, IInv, TypeOK, NoToken, TimersServed, TokenIsFresh,
   StampIsRight, PrunedBefore, KeptForRetention, NoResultIsMissed

USE DEF IInv, TypeOK, TimersServed, TokenIsFresh, StampIsRight,
        PrunedBefore, KeptForRetention, NoResultIsMissed, NoToken

LEMMA StepInv == IInv /\ [Next]_vars => IInv'
<1> SUFFICES ASSUME IInv, [Next]_vars PROVE IInv'
  OBVIOUS
<1> USE Numbers
<1>1. CASE StartCapture
  BY <1>1 DEF StartCapture, Signed
<1>2. CASE Launched
  BY <1>2 DEF Launched
<1>3. CASE Navigated
  BY <1>3 DEF Navigated
<1>4. CASE CaptureOver
  BY <1>4 DEF CaptureOver
<1>5. CASE Produce
  BY <1>5 DEF Produce
<1>6. CASE Finalize
  BY <1>6 DEF Finalize, Stamp
<1>7. CASE Prune
  BY <1>7, PollAssumption DEF Prune, Stale, Sleep
<1>8. CASE Poll
  BY <1>8 DEF Poll
<1>9. CASE OrchestratorDies
  BY <1>9 DEF OrchestratorDies
<1>10. CASE Tick
  BY <1>10 DEF Tick
<1>11. CASE SetClock
  BY <1>11 DEF SetClock
<1>12. CASE UNCHANGED vars
  BY <1>12
<1> QED
  BY <1>1, <1>2, <1>3, <1>4, <1>5, <1>6, <1>7, <1>8, <1>9, <1>10, <1>11, <1>12
     DEF Next

HIDE DEF vars, IInv, TypeOK, KeptForRetention, NoResultIsMissed

\* The invariant of JobTime: no deadline is missed by more than its slack.
THEOREM InvHolds == Spec => []IInv
<1>1. Init => IInv
  BY InitInv
<1>2. IInv /\ [Next]_vars => IInv'
  BY StepInv
<1> QED
  BY <1>1, <1>2, PTL DEF Spec

\* The state keeps its types; a token never lives longer than its lifetime.
THEOREM TypeCorrect == Spec => []TypeOK
<1>1. IInv => TypeOK
  BY DEF IInv
<1> QED
  BY <1>1, InvHolds, PTL

\* The token of a spread outlives its render (pipeline.py signs per spread),
\* for all timeouts whose sum is below the token's lifetime and leeway.
THEOREM TokensOutliveRenders == Spec => []TokenOutlivesRender
<1>1. IInv => TokenOutlivesRender
  BY Numbers, TokenAssumption DEF IInv, TypeOK, TokenOutlivesRender, Accepts
<1> QED
  BY <1>1, InvHolds, PTL

\* prune_terminal keeps a finished job for the retention time.
THEOREM ResultsAreKept == Spec => []KeptForRetention
<1>1. IInv => KeptForRetention
  BY DEF IInv
<1> QED
  BY <1>1, InvHolds, PTL

\* The prune loop forgets every finished job in bounded time.
THEOREM ResultsAreForgotten == Spec => []ForgottenInTime
<1>1. IInv => ForgottenInTime
  BY Numbers DEF IInv, TypeOK, ForgottenInTime
<1> QED
  BY <1>1, InvHolds, PTL

\* An orchestrator that polls within the retention time gets the result.
THEOREM ResultsAreSeen == Spec => []NoResultIsMissed
<1>1. IInv => NoResultIsMissed
  BY DEF IInv
<1> QED
  BY <1>1, InvHolds, PTL

=============================================================================
