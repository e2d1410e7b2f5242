--------------------------- MODULE ChromiumProofs ---------------------------
(***************************************************************************)
(* Proofs about Chromium, for every set of requests, time to live and      *)
(* bound of the clock.  The invariant behind the age of a served verdict:  *)
(* whatever is in the cache was written by a probe, under the time that    *)
(* probe came in, however long it took and whoever wrote in between.       *)
(***************************************************************************)
EXTENDS Chromium, TLAPS

NowIsPast == \A r \in Requests : now[r] <= clock

CacheIsProbed ==
  cache # NoVerdict =>
    \E q \in Requests :
      health[q] = "probed" /\ answer[q] = cache.ok /\ now[q] = cache.at

IInv == TypeOK /\ NowIsPast /\ CacheIsProbed /\ ServedVerdictIsRecent

LEMMA InitEstablishesInv == Init => IInv
<1> SUFFICES ASSUME Init PROVE IInv
  OBVIOUS
<1>1. TypeOK
  <2>1. expired \in BOOLEAN
    BY Zenon DEF Init
  <2>2. clock \in 0..MaxTime /\ now \in [Requests -> 0..MaxTime]
    BY MaxTimeAssumption DEF Init
  <2> QED BY <2>1, <2>2 DEF Init, TypeOK
<1>2. NowIsPast /\ CacheIsProbed /\ ServedVerdictIsRecent
  BY DEF Init, NowIsPast, CacheIsProbed, ServedVerdictIsRecent
<1> QED BY <1>1, <1>2 DEF IInv

\* A run leaves the health probes alone.
LEMMA RunKeepsInv == IInv /\ (RunJob \/ Expire \/ UNCHANGED vars) => IInv'
<1> SUFFICES ASSUME IInv, RunJob \/ Expire \/ UNCHANGED vars PROVE IInv'
  OBVIOUS
<1> USE DEF RunJob, RunStarts, RunEnds, Capture, Started, Launched, PageOver,
            Closed, Stopped, Expire, vars, runVars
<1>1. UNCHANGED <<clock, cache, health, now, answer>>
  BY DEF healthVars
<1>2. TypeOK'
  <2>1. run' \in {"idle", "between", "starting", "launching", "open", "closing",
                  "stopping"}
    BY DEF IInv, TypeOK, WayOut
  <2>2. expired' \in BOOLEAN
    BY Zenon DEF IInv, TypeOK
  <2> QED BY <1>1, <2>1, <2>2 DEF IInv, TypeOK
<1> QED BY <1>1, <1>2 DEF IInv, NowIsPast, CacheIsProbed, ServedVerdictIsRecent

\* A request is answered once: what a finished probe found stays.
LEMMA HealthzKeepsInv ==
  ASSUME IInv, NEW r \in Requests, Healthz(r)
  PROVE  IInv'
<1> USE TTLAssumption, MaxTimeAssumption
<1>1. /\ \A q \in Requests : q # r =>
           health'[q] = health[q] /\ now'[q] = now[q] /\ answer'[q] = answer[q]
      /\ health[r] = "new" /\ now'[r] = clock
      /\ UNCHANGED <<runVars, clock, cache>>
  BY DEF Healthz, IInv, TypeOK
<1>2. CASE Fresh
  <2>1. health'[r] = "cached" /\ answer'[r] = cache.ok /\ cache.ok \in Verdicts
    BY <1>2 DEF Healthz, Fresh, IInv, TypeOK
  <2>2. TypeOK'
    BY <1>2, <2>1 DEF Healthz, IInv, TypeOK, runVars
  <2>3. PICK p \in Requests :
          health[p] = "probed" /\ answer[p] = cache.ok /\ now[p] = cache.at
    BY <1>2 DEF Fresh, IInv, CacheIsProbed
  <2>4. now[p] <= clock /\ clock - now[p] < TTL /\ p # r
    BY <1>1, <1>2, <2>3 DEF Fresh, IInv, NowIsPast
  <2>5. ServedVerdictIsRecent'
    <3> SUFFICES ASSUME NEW s \in Requests, health'[s] = "cached"
                 PROVE  \E q \in Requests :
                          /\ health'[q] = "probed" /\ answer'[q] = answer'[s]
                          /\ now'[q] <= now'[s] /\ now'[s] - now'[q] < TTL
      BY DEF ServedVerdictIsRecent
    <3>1. CASE s = r
      BY <1>1, <2>1, <2>3, <2>4, <3>1
    <3>2. CASE s # r
      BY <1>1, <3>2 DEF IInv, ServedVerdictIsRecent
    <3> QED BY <3>1, <3>2
  <2>6. NowIsPast' /\ CacheIsProbed'
    BY <1>1 DEF IInv, TypeOK, NowIsPast, CacheIsProbed
  <2> QED BY <2>2, <2>5, <2>6 DEF IInv
<1>3. CASE ~Fresh
  <2>1. health'[r] = "probing" /\ UNCHANGED answer
    BY <1>3 DEF Healthz, IInv, TypeOK
  <2>2. TypeOK'
    BY <1>3, <2>1 DEF Healthz, IInv, TypeOK, runVars
  <2>3. NowIsPast' /\ CacheIsProbed' /\ ServedVerdictIsRecent'
    BY <1>1, <2>1 DEF IInv, TypeOK, NowIsPast, CacheIsProbed, ServedVerdictIsRecent
  <2> QED BY <2>2, <2>3 DEF IInv
<1> QED BY <1>2, <1>3

LEMMA ProbeKeepsInv ==
  ASSUME IInv, NEW r \in Requests, ProbeLaunched(r) \/ ProbeOver(r)
  PROVE  IInv'
<1>1. CASE ProbeLaunched(r)
  BY <1>1 DEF ProbeLaunched, IInv, TypeOK, NowIsPast, CacheIsProbed,
              ServedVerdictIsRecent, runVars
<1>2. ASSUME ProbeOver(r) PROVE IInv'
  <2>1. PICK ok \in Verdicts :
          /\ health[r] \in {"closing", "probing"}
          /\ health' = [health EXCEPT ![r] = "probed"]
          /\ answer' = [answer EXCEPT ![r] = ok]
          /\ cache' = [at |-> now[r], ok |-> ok]
          /\ UNCHANGED <<runVars, clock, now>>
    BY <1>2 DEF ProbeOver, Stamped
  <2>2. TypeOK'
    BY <2>1 DEF IInv, TypeOK, runVars
  <2>3. NowIsPast' /\ CacheIsProbed' /\ ServedVerdictIsRecent'
    BY <2>1 DEF IInv, TypeOK, NowIsPast, CacheIsProbed, ServedVerdictIsRecent
  <2> QED BY <2>2, <2>3 DEF IInv
<1> QED BY <1>1, <1>2

LEMMA TickKeepsInv == IInv /\ Tick => IInv'
BY MaxTimeAssumption
   DEF Tick, IInv, TypeOK, NowIsPast, CacheIsProbed, ServedVerdictIsRecent,
       runVars, healthVars

THEOREM InvHolds == Spec => []IInv
<1>1. IInv /\ [Next]_vars => IInv'
  BY RunKeepsInv, HealthzKeepsInv, ProbeKeepsInv, TickKeepsInv DEF Next
<1> QED BY <1>1, InitEstablishesInv, PTL DEF Spec

\* A verdict that /healthz serves from its cache was found by a probe that
\* came in less than the time to live before, whatever probes overlapped.
THEOREM CachedVerdictIsRecent == Spec => []ServedVerdictIsRecent
<1>1. IInv => ServedVerdictIsRecent
  BY DEF IInv
<1> QED BY <1>1, InvHolds, PTL

\* Type correctness, for every set of requests, time to live and clock bound.
THEOREM TypeCorrect == Spec => []TypeOK
<1>1. IInv => TypeOK
  BY DEF IInv
<1> QED BY <1>1, InvHolds, PTL

=============================================================================
