------------------------- MODULE ExportWorkerProofs -------------------------
(***************************************************************************)
(* Proofs about ExportWorker, for every set of jobs, queue size and        *)
(* request size.  One inductive invariant, IInv, carries all of them: the  *)
(* checked invariants plus what they need of one another,                  *)
(*   - an entry of the queue was accepted, so a fresh id is not in it, and *)
(*     nobody has cancelled a fresh id;                                    *)
(*   - the queue is sorted by acceptance, and acceptance is a strict order;*)
(*   - run_job is active exactly while the consumer is "running", and a    *)
(*     process that is down has no consumer.                               *)
(***************************************************************************)
EXTENDS ExportWorker, SequenceTheorems, FiniteSetTheorems, TLAPS

EntriesAccepted == \A i \in DOMAIN queue : status[queue[i]] # NONE

FreshUnflagged == \A j \in Jobs : status[j] = NONE => ~cancel_requested[j]

QueueSorted == \A i, k \in DOMAIN queue : i < k => queue[i] \in ahead[queue[k]]

AheadIsOrder ==
  \A j \in Jobs : \A k \in ahead[j] : status[k] # NONE /\ j \notin ahead[k]

RunIsActive == consumer = "running" <=> current \in Jobs

DownIsDead == server = "down" => consumer = "dead"

IInv ==
  /\ TypeOK
  /\ QueueAccounts
  /\ RunningHasOwner
  /\ NoFlaggedJobWaits
  /\ NoOvertaking
  /\ EntriesAccepted
  /\ FreshUnflagged
  /\ QueueSorted
  /\ AheadIsOrder
  /\ RunIsActive
  /\ DownIsDead

-----------------------------------------------------------------------------
(* Lemmas.                                                                 *)

\* Append puts a new last entry behind the old ones.
LEMMA AppendedEntries ==
  ASSUME NEW S, NEW q \in Seq(S), NEW e \in S
  PROVE  /\ Append(q, e) \in Seq(S)
         /\ Len(Append(q, e)) = Len(q) + 1
         /\ DOMAIN Append(q, e) = 1..(Len(q) + 1)
         /\ \A i \in 1..Len(q) : Append(q, e)[i] = q[i]
         /\ Append(q, e)[Len(q) + 1] = e
BY AppendProperties, LenProperties

\* Tail shifts every entry but the first one place to the front.
LEMMA RemainingEntries ==
  ASSUME NEW S, NEW q \in Seq(S), q # <<>>
  PROVE  /\ Len(q) \in Nat \ {0}
         /\ DOMAIN q = 1..Len(q)
         /\ Head(q) = q[1] /\ Head(q) \in S
         /\ Tail(q) \in Seq(S)
         /\ Len(Tail(q)) = Len(q) - 1
         /\ DOMAIN Tail(q) = 1..(Len(q) - 1)
         /\ \A i \in 1..(Len(q) - 1) : Tail(q)[i] = q[i + 1]
<1>1. /\ Len(q) \in Nat \ {0} /\ DOMAIN q = 1..Len(q)
      /\ Head(q) = q[1] /\ Head(q) \in S
  BY HeadTailProperties, LenProperties, EmptySeq, ElementOfSeq
<1>2. Tail(q) \in Seq(S) /\ Len(Tail(q)) = Len(q) - 1
  BY HeadTailProperties
<1>3. /\ DOMAIN Tail(q) = 1..(Len(q) - 1)
      /\ \A i \in 1..(Len(q) - 1) : Tail(q)[i] = q[i + 1]
  BY <1>2, HeadTailProperties, LenProperties
<1> QED BY <1>1, <1>2, <1>3

\* The run that is over was the running one, and it stays over: whatever
\* ends run_job keeps the invariant.
LEMMA EndRunKeepsInv ==
  ASSUME IInv, consumer = "running",
         NEW s \in TERMINAL, EndRun(s),
         UNCHANGED <<server, cancel_requested, queue, ahead>>,
         cancelling' \in {"no", "timeout", "shutdown"}
  PROVE  IInv'
<1>1. /\ current \in Jobs /\ status[current] = RUNNING
      /\ status' = [status EXCEPT ![current] = s]
      /\ consumer' = "looping" /\ current' = NoJob /\ phase' = "idle" /\ left' = 0
      /\ timer' = "set"
  BY DEF IInv, TypeOK, RunIsActive, RunningHasOwner, EndRun, NotRunning, Finalized,
         RUNNING, TERMINAL, COMPLETED, FAILED, CANCELLED
<1>2. TypeOK'
  BY <1>1, MaxSpreadsAssumption DEF IInv, TypeOK, Phases
<1>3. /\ QueueAccounts' /\ NoFlaggedJobWaits' /\ NoOvertaking'
      /\ EntriesAccepted' /\ FreshUnflagged'
  BY <1>1 DEF IInv, TypeOK, QueueAccounts, InQueue, NoFlaggedJobWaits,
              NoOvertaking, EntriesAccepted, FreshUnflagged, TERMINAL, NONE, QUEUED, RUNNING,
              COMPLETED, FAILED, CANCELLED
<1>4. RunningHasOwner' /\ RunIsActive' /\ DownIsDead'
  BY <1>1, NoJobAssumption
     DEF IInv, TypeOK, RunningHasOwner, RunIsActive, DownIsDead, TERMINAL, RUNNING,
         COMPLETED, FAILED, CANCELLED
<1>5. QueueSorted' /\ AheadIsOrder'
  BY <1>1 DEF IInv, TypeOK, QueueSorted, AheadIsOrder, TERMINAL, NONE,
              COMPLETED, FAILED, CANCELLED
<1> QED BY <1>2, <1>3, <1>4, <1>5 DEF IInv

\* A step that leaves the jobs, the queue and the active run alone.
LEMMA QuietStepKeepsInv ==
  ASSUME IInv, TypeOK',
         UNCHANGED <<status, cancel_requested, queue, current, ahead>>,
         consumer' = "running" <=> consumer = "running",
         DownIsDead'
  PROVE  IInv'
BY DEF IInv, QueueAccounts, InQueue, RunningHasOwner, NoFlaggedJobWaits,
       NoOvertaking, EntriesAccepted, FreshUnflagged, QueueSorted, AheadIsOrder,
       RunIsActive

\* The entry at the head of the queue may start: nothing runs, and everything
\* accepted before it has left the queue.
LEMMA HeadIsNext ==
  ASSUME IInv, queue # <<>>, consumer # "running"
  PROVE  /\ Head(queue) \in Jobs
         /\ status[Head(queue)] \notin {NONE, RUNNING}
         /\ \A k \in ahead[Head(queue)] : k \in Jobs /\ status[k] # QUEUED
         /\ \A k \in Jobs : status[k] # RUNNING
<1> DEFINE j == Head(queue)
<1>1. /\ Len(queue) \in Nat \ {0} /\ DOMAIN queue = 1..Len(queue)
      /\ j = queue[1] /\ j \in Jobs
  BY RemainingEntries DEF IInv, TypeOK
<1>2. \A k \in Jobs : status[k] # RUNNING
  BY DEF IInv, RunningHasOwner
<1>3. status[j] # NONE
  BY <1>1 DEF IInv, EntriesAccepted
<1>4. ASSUME NEW k \in ahead[j] PROVE k \in Jobs /\ status[k] # QUEUED
  <2>1. k \in Jobs
    BY <1>1, <1>4 DEF IInv, TypeOK
  <2>2. j \notin ahead[k] /\ k # j
    BY <1>1, <1>4, <2>1 DEF IInv, AheadIsOrder
  <2>3. ASSUME status[k] = QUEUED PROVE FALSE
    <3>1. PICK i \in DOMAIN queue : queue[i] = k
      BY <2>1, <2>3 DEF IInv, QueueAccounts, InQueue
    <3>2. i # 1 /\ 1 < i
      BY <1>1, <2>2, <3>1
    <3>3. j \in ahead[k]
      BY <1>1, <3>1, <3>2 DEF IInv, QueueSorted
    <3> QED BY <2>2, <3>3
  <2> QED BY <2>1, <2>3
<1> QED BY <1>1, <1>2, <1>3, <1>4

-----------------------------------------------------------------------------
(* The invariant is inductive.                                             *)

LEMMA InitEstablishesInv == Init => IInv
<1> SUFFICES ASSUME Init PROVE IInv
  OBVIOUS
<1>1. /\ queue = <<>> /\ queue \in Seq(Jobs) /\ Len(queue) = 0
      /\ DOMAIN queue = {}
  BY EmptySeq DEF Init
<1>2. TypeOK
  BY <1>1, QueueMaxAssumption, MaxSpreadsAssumption
     DEF Init, TypeOK, Phases
<1>3. QueueAccounts /\ EntriesAccepted /\ QueueSorted
  BY <1>1 DEF Init, QueueAccounts, EntriesAccepted, QueueSorted, NONE, QUEUED
<1>4. /\ RunningHasOwner /\ NoFlaggedJobWaits /\ NoOvertaking
      /\ FreshUnflagged /\ AheadIsOrder /\ RunIsActive /\ DownIsDead
  BY NoJobAssumption
     DEF Init, RunningHasOwner, NoFlaggedJobWaits, NoOvertaking, FreshUnflagged,
         AheadIsOrder, RunIsActive, DownIsDead, NONE, QUEUED, RUNNING
<1> QED BY <1>2, <1>3, <1>4 DEF IInv

LEMMA SubmitKeepsInv ==
  ASSUME IInv, NEW j \in Jobs, Submit(j)
  PROVE  IInv'
<1>1. CASE HasRoom
  <2>1. /\ status[j] = NONE
        /\ queue' = Append(queue, j)
        /\ status' = [status EXCEPT ![j] = QUEUED]
        /\ ahead' = [ahead EXCEPT ![j] = {k \in Jobs : status[k] # NONE}]
        /\ UNCHANGED <<server, cancel_requested, consumer, runVars, cancelling>>
    BY <1>1 DEF Submit, Enqueue, Registered
  <2>2. /\ queue \in Seq(Jobs) /\ Len(queue) \in Nat
        /\ DOMAIN queue = 1..Len(queue)
        /\ \A i \in 1..Len(queue) : queue[i] \in Jobs
    BY LenProperties, ElementOfSeq DEF IInv, TypeOK
  <2>3. /\ queue' \in Seq(Jobs) /\ Len(queue') = Len(queue) + 1
        /\ DOMAIN queue' = 1..(Len(queue) + 1)
        /\ \A i \in 1..Len(queue) : queue'[i] = queue[i]
        /\ queue'[Len(queue) + 1] = j
    BY <2>1, <2>2, AppendedEntries
  <2>4. \A i \in 1..Len(queue) : queue[i] # j /\ status[queue[i]] # NONE
    BY <2>1, <2>2 DEF IInv, EntriesAccepted
  <2>5. TypeOK'
    <3>1. QueueMax > 0 => Len(queue') <= QueueMax
      BY <1>1, <2>2, <2>3, QueueMaxAssumption DEF HasRoom
    <3>2. /\ status' \in [Jobs -> {NONE, QUEUED, RUNNING, GONE} \cup TERMINAL]
          /\ ahead' \in [Jobs -> SUBSET Jobs]
      BY <2>1 DEF IInv, TypeOK
    <3>3. UNCHANGED <<server, cancel_requested, consumer, current, phase, left,
                      timer, cancelling>>
      BY <2>1 DEF runVars
    <3>4. TypeOK
      BY DEF IInv
    <3> QED BY <2>3, <3>1, <3>2, <3>3, <3>4 DEF TypeOK
  <2>6. QueueAccounts'
    <3>1. ASSUME NEW k \in Jobs, status'[k] = QUEUED PROVE InQueue(k)'
      <4>1. CASE k = j
        BY <2>2, <2>3, <4>1 DEF InQueue
      <4>2. CASE k # j
        <5>1. status[k] = QUEUED
          BY <2>1, <3>1, <4>2 DEF IInv, TypeOK
        <5>2. PICK i \in 1..Len(queue) : queue[i] = k
          BY <2>2, <5>1 DEF IInv, QueueAccounts, InQueue
        <5> QED BY <2>2, <2>3, <5>2 DEF InQueue
      <4> QED BY <4>1, <4>2
    <3>2. \A i, k \in DOMAIN queue' : queue'[i] = queue'[k] => i = k
      BY <2>2, <2>3, <2>4 DEF IInv, QueueAccounts
    <3> QED BY <3>1, <3>2 DEF QueueAccounts
  <2>7. RunningHasOwner' /\ RunIsActive' /\ DownIsDead'
    BY <2>1 DEF IInv, TypeOK, RunningHasOwner, RunIsActive, DownIsDead, runVars,
                NONE, QUEUED, RUNNING
  <2>8. NoFlaggedJobWaits' /\ FreshUnflagged'
    BY <2>1 DEF IInv, TypeOK, NoFlaggedJobWaits, FreshUnflagged, NONE, QUEUED
  <2>9. NoOvertaking'
    BY <2>1 DEF IInv, TypeOK, NoOvertaking, AheadIsOrder, NONE, QUEUED, RUNNING
  <2>10. EntriesAccepted'
    BY <2>1, <2>2, <2>3, <2>4 DEF IInv, TypeOK, EntriesAccepted, NONE, QUEUED
  <2>11. QueueSorted'
    <3> SUFFICES ASSUME NEW i \in 1..(Len(queue) + 1), NEW k \in 1..(Len(queue) + 1),
                        i < k
                 PROVE  queue'[i] \in ahead'[queue'[k]]
      BY <2>3 DEF QueueSorted
    <3>1. i \in 1..Len(queue) /\ queue'[i] = queue[i] /\ queue[i] \in Jobs
      BY <2>2, <2>3
    <3>2. CASE k = Len(queue) + 1
      BY <2>1, <2>3, <2>4, <3>1, <3>2 DEF IInv, TypeOK
    <3>3. CASE k \in 1..Len(queue)
      BY <2>1, <2>2, <2>3, <2>4, <3>1, <3>3 DEF IInv, TypeOK, QueueSorted
    <3> QED BY <2>2, <3>2, <3>3
  <2>12. AheadIsOrder'
    BY <2>1 DEF IInv, TypeOK, AheadIsOrder, NONE, QUEUED
  <2> QED BY <2>5, <2>6, <2>7, <2>8, <2>9, <2>10, <2>11, <2>12 DEF IInv
<1>2. CASE ~HasRoom
  <2>1. UNCHANGED vars
    BY <1>2 DEF Submit, vars, runVars
  <2>2. TypeOK'
    BY <2>1 DEF IInv, TypeOK, vars, runVars
  <2> QED BY <2>1, <2>2, QuietStepKeepsInv DEF vars, runVars, IInv, DownIsDead
<1> QED BY <1>1, <1>2

LEMMA CancelKeepsInv ==
  ASSUME IInv, NEW j \in Jobs, Cancel(j)
  PROVE  IInv'
<1>1. /\ status[j] \in {QUEUED, RUNNING}
      /\ cancel_requested' = [cancel_requested EXCEPT ![j] = TRUE]
      /\ status' = IF status[j] = QUEUED
                     THEN [status EXCEPT ![j] = CANCELLED] ELSE status
      /\ UNCHANGED <<server, queue, consumer, current, phase, left,
                     timer, cancelling, ahead>>
  BY DEF Cancel, Finalized, runVars, QUEUED, TERMINAL, COMPLETED, FAILED, CANCELLED
<1>2. TypeOK'
  BY <1>1 DEF IInv, TypeOK, TERMINAL
<1>3. QueueAccounts' /\ NoOvertaking' /\ EntriesAccepted'
  BY <1>1 DEF IInv, TypeOK, QueueAccounts, InQueue, NoOvertaking, EntriesAccepted,
              NONE, QUEUED, RUNNING, CANCELLED
<1>4. RunningHasOwner' /\ RunIsActive' /\ DownIsDead'
  BY <1>1 DEF IInv, TypeOK, RunningHasOwner, RunIsActive, DownIsDead,
              QUEUED, RUNNING, CANCELLED
<1>5. NoFlaggedJobWaits' /\ FreshUnflagged'
  BY <1>1 DEF IInv, TypeOK, NoFlaggedJobWaits, FreshUnflagged,
              NONE, QUEUED, RUNNING, CANCELLED
<1>6. QueueSorted' /\ AheadIsOrder'
  BY <1>1 DEF IInv, TypeOK, QueueSorted, AheadIsOrder, NONE, QUEUED, CANCELLED
<1> QED BY <1>2, <1>3, <1>4, <1>5, <1>6 DEF IInv

\* The consumer either drops a stale entry or runs the job: the branch for a
\* job that waits with its flag set is never taken.
LEMMA DequeueCases ==
  ASSUME IInv, Dequeue
  PROVE  LET j == Head(queue) IN
         /\ queue # <<>> /\ queue' = Tail(queue)
         /\ consumer \in {"waiting", "looping"} /\ cancelling = "no"
         /\ UNCHANGED <<server, cancel_requested, cancelling, ahead>>
         /\ \/ /\ status[j] \in TERMINAL \cup {GONE}
               /\ consumer' = "looping"
               /\ UNCHANGED <<status, current, phase, left, timer>>
            \/ /\ status[j] = QUEUED
               /\ StartRun(j)
<1> DEFINE j == Head(queue)
<1>1. /\ queue # <<>> /\ queue' = Tail(queue)
      /\ consumer \in {"waiting", "looping"} /\ cancelling = "no"
      /\ UNCHANGED <<server, cancelling, ahead>>
  BY DEF Dequeue
<1>2. j \in Jobs /\ status[j] \notin {NONE, RUNNING}
  BY <1>1, HeadIsNext
<1>3. CASE status[j] = GONE \/ status[j] \in TERMINAL
  BY <1>1, <1>3 DEF Dequeue, Serve, Stale, runVars
<1>4. CASE ~(status[j] = GONE \/ status[j] \in TERMINAL)
  <2>1. status[j] = QUEUED /\ ~cancel_requested[j]
    BY <1>2, <1>4 DEF IInv, TypeOK, NoFlaggedJobWaits
  <2> QED BY <1>1, <1>4, <2>1 DEF Dequeue, Serve, Stale, StartRun
<1> QED BY <1>3, <1>4

LEMMA DequeueKeepsInv ==
  ASSUME IInv, Dequeue
  PROVE  IInv'
<1> DEFINE j == Head(queue)
<1>1. /\ queue # <<>> /\ queue' = Tail(queue)
      /\ consumer \in {"waiting", "looping"}
      /\ UNCHANGED <<server, cancel_requested, cancelling, ahead>>
      /\ \/ /\ status[j] \in TERMINAL \cup {GONE}
            /\ consumer' = "looping"
            /\ UNCHANGED <<status, current, phase, left, timer>>
         \/ /\ status[j] = QUEUED
            /\ StartRun(j)
  BY DequeueCases
<1>2. /\ j \in Jobs
      /\ \A k \in ahead[j] : k \in Jobs /\ status[k] # QUEUED
      /\ \A k \in Jobs : status[k] # RUNNING
  BY <1>1, HeadIsNext
<1>3. /\ Len(queue) \in Nat \ {0} /\ DOMAIN queue = 1..Len(queue)
      /\ j = queue[1]
      /\ queue' \in Seq(Jobs) /\ Len(queue') = Len(queue) - 1
      /\ DOMAIN queue' = 1..(Len(queue) - 1)
      /\ \A i \in 1..(Len(queue) - 1) : queue'[i] = queue[i + 1]
  BY <1>1, RemainingEntries DEF IInv, TypeOK
<1>4. \A i \in DOMAIN queue' : i + 1 \in DOMAIN queue /\ queue'[i] = queue[i + 1]
  BY <1>3
<1>5. \A i \in DOMAIN queue : queue[i] # j => i - 1 \in DOMAIN queue' /\ queue'[i - 1] = queue[i]
  BY <1>3
<1>6. \A i, k \in DOMAIN queue' : queue'[i] = queue'[k] => i = k
  BY <1>3, <1>4 DEF IInv, QueueAccounts
<1>7. QueueSorted'
  <2> SUFFICES ASSUME NEW i \in DOMAIN queue', NEW k \in DOMAIN queue', i < k
               PROVE  queue'[i] \in ahead'[queue'[k]]
    BY DEF QueueSorted
  <2>1. i + 1 \in DOMAIN queue /\ k + 1 \in DOMAIN queue /\ i + 1 < k + 1
    BY <1>3, <1>4
  <2> QED BY <1>1, <1>4, <2>1 DEF IInv, QueueSorted
<1>8. CASE /\ status[j] \in TERMINAL \cup {GONE}
           /\ consumer' = "looping"
           /\ UNCHANGED <<status, current, phase, left, timer>>
  <2>1. TypeOK'
    BY <1>1, <1>3, <1>8, QueueMaxAssumption DEF IInv, TypeOK
  <2>2. QueueAccounts'
    <3>1. ASSUME NEW k \in Jobs, status[k] = QUEUED PROVE InQueue(k)'
      <4>1. PICK i \in DOMAIN queue : queue[i] = k
        BY <3>1 DEF IInv, QueueAccounts, InQueue
      <4>2. k # j
        BY <1>8, <3>1 DEF TERMINAL, QUEUED, GONE, COMPLETED, FAILED, CANCELLED
      <4> QED BY <1>5, <4>1, <4>2 DEF InQueue
    <3> QED BY <1>6, <1>8, <3>1 DEF QueueAccounts
  <2>3. EntriesAccepted'
    BY <1>4, <1>8 DEF IInv, EntriesAccepted
  <2>4. /\ RunningHasOwner' /\ NoFlaggedJobWaits' /\ NoOvertaking'
        /\ FreshUnflagged' /\ AheadIsOrder' /\ RunIsActive' /\ DownIsDead'
    BY <1>1, <1>2, <1>8
       DEF IInv, RunningHasOwner, NoFlaggedJobWaits, NoOvertaking, FreshUnflagged,
           AheadIsOrder, RunIsActive, DownIsDead
  <2> QED BY <1>7, <2>1, <2>2, <2>3, <2>4 DEF IInv
<1>9. CASE status[j] = QUEUED /\ StartRun(j)
  <2>1. /\ status' = [status EXCEPT ![j] = RUNNING]
        /\ consumer' = "running" /\ current' = j /\ phase' = "render"
        /\ left' \in 0..(MaxSpreads - 1) /\ timer' = timer
    BY <1>9, MaxSpreadsAssumption DEF StartRun
  <2>2. TypeOK'
    BY <1>1, <1>2, <1>3, <2>1, QueueMaxAssumption DEF IInv, TypeOK, Phases
  <2>3. QueueAccounts'
    <3>1. ASSUME NEW k \in Jobs, status'[k] = QUEUED PROVE InQueue(k)'
      <4>1. k # j /\ status[k] = QUEUED
        BY <1>2, <2>1, <3>1 DEF IInv, TypeOK, QUEUED, RUNNING
      <4>2. PICK i \in DOMAIN queue : queue[i] = k
        BY <4>1 DEF IInv, QueueAccounts, InQueue
      <4> QED BY <1>5, <4>1, <4>2 DEF InQueue
    <3> QED BY <1>6, <3>1 DEF QueueAccounts
  <2>4. EntriesAccepted' /\ AheadIsOrder'
    <3>1. \A k \in Jobs : status[k] # NONE => status'[k] # NONE
      BY <2>1 DEF IInv, TypeOK, NONE, RUNNING
    <3>2. \A i \in DOMAIN queue : queue[i] \in Jobs
      BY ElementOfSeq, <1>3 DEF IInv, TypeOK
    <3>3. EntriesAccepted'
      BY <1>4, <3>1, <3>2 DEF IInv, EntriesAccepted
    <3>4. AheadIsOrder'
      BY <1>1, <3>1 DEF IInv, TypeOK, AheadIsOrder
    <3> QED BY <3>3, <3>4
  <2>5. RunningHasOwner' /\ RunIsActive' /\ DownIsDead'
    BY <1>1, <1>2, <2>1 DEF IInv, TypeOK, RunningHasOwner, RunIsActive, DownIsDead
  <2>6. NoFlaggedJobWaits' /\ FreshUnflagged'
    BY <1>1, <2>1 DEF IInv, TypeOK, NoFlaggedJobWaits, FreshUnflagged,
                      NONE, QUEUED, RUNNING
  <2>7. NoOvertaking'
    BY <1>1, <1>2, <2>1 DEF IInv, TypeOK, NoOvertaking, QUEUED, RUNNING
  <2> QED BY <1>7, <2>2, <2>3, <2>4, <2>5, <2>6, <2>7 DEF IInv
<1> QED BY <1>1, <1>8, <1>9

\* run_job goes past a check of the flag, or ends there as cancelled.
LEMMA BoundaryKeepsInv ==
  ASSUME IInv, consumer = "running",
         NEW p \in Phases, NEW n \in 0..(MaxSpreads - 1), Boundary(p, n),
         UNCHANGED <<server, cancel_requested, queue, cancelling, ahead>>
  PROVE  IInv'
<1>1. CASE cancel_requested[current]
  <2>1. EndRun(CANCELLED)
    BY <1>1 DEF Boundary
  <2> QED BY <2>1, EndRunKeepsInv DEF IInv, TypeOK, TERMINAL
<1>2. CASE ~cancel_requested[current]
  <2>1. phase' = p /\ left' = n /\ UNCHANGED <<status, consumer, current, timer>>
    BY <1>2 DEF Boundary
  <2>2. TypeOK'
    BY <2>1 DEF IInv, TypeOK
  <2> QED BY <2>1, <2>2, QuietStepKeepsInv DEF IInv, DownIsDead
<1> QED BY <1>1, <1>2

LEMMA RunJobKeepsInv ==
  ASSUME IInv, RunJob
  PROVE  IInv'
<1> USE MaxSpreadsAssumption
<1>1. CASE NextSpread
  BY <1>1, BoundaryKeepsInv DEF NextSpread, Resumed, Phases, IInv, TypeOK
<1>2. CASE SpreadsDone
  BY <1>2, BoundaryKeepsInv DEF SpreadsDone, Resumed, Phases
<1>3. CASE ColorDone
  BY <1>3, BoundaryKeepsInv DEF ColorDone, Resumed, Phases
<1>4. CASE MergeDone
  BY <1>4, BoundaryKeepsInv DEF MergeDone, Resumed, Phases
<1>5. CASE UploadDone
  BY <1>5, EndRunKeepsInv DEF UploadDone, Resumed, IInv, TypeOK, TERMINAL
<1>6. CASE RunFails
  BY <1>6, EndRunKeepsInv DEF RunFails, IInv, TypeOK, TERMINAL
<1> QED BY <1>1, <1>2, <1>3, <1>4, <1>5, <1>6 DEF RunJob

LEMMA UnwoundKeepsInv ==
  ASSUME IInv, Unwound
  PROVE  IInv'
<1>1. cancelling' = "no" /\ UNCHANGED <<server, cancel_requested, queue, ahead>>
  BY DEF Unwound
<1>2. CASE consumer = "running" /\ EndRun(FAILED)
  BY <1>1, <1>2, EndRunKeepsInv DEF IInv, TypeOK, TERMINAL
<1>3. CASE /\ consumer = "running"
           /\ status' = Finalized(current, CANCELLED)
           /\ consumer' = "dead"
           /\ current' = NoJob /\ phase' = "idle" /\ left' = 0 /\ timer' = "set"
  <2>1. /\ current \in Jobs /\ status[current] = RUNNING
        /\ status' = [status EXCEPT ![current] = CANCELLED]
    BY <1>3 DEF IInv, TypeOK, RunIsActive, RunningHasOwner, Finalized,
                RUNNING, TERMINAL, COMPLETED, FAILED, CANCELLED
  <2>2. TypeOK'
    BY <1>1, <1>3, <2>1, MaxSpreadsAssumption DEF IInv, TypeOK, TERMINAL, Phases
  <2>3. /\ QueueAccounts' /\ NoFlaggedJobWaits' /\ NoOvertaking'
        /\ EntriesAccepted' /\ FreshUnflagged'
    BY <1>1, <2>1 DEF IInv, TypeOK, QueueAccounts, InQueue, NoFlaggedJobWaits,
                NoOvertaking, EntriesAccepted, FreshUnflagged, NONE, QUEUED,
                RUNNING, CANCELLED
  <2>4. RunningHasOwner' /\ RunIsActive' /\ DownIsDead'
    BY <1>3, <2>1, NoJobAssumption
       DEF IInv, TypeOK, RunningHasOwner, RunIsActive, DownIsDead, RUNNING, CANCELLED
  <2>5. QueueSorted' /\ AheadIsOrder'
    BY <1>1, <2>1 DEF IInv, TypeOK, QueueSorted, AheadIsOrder, NONE, CANCELLED
  <2> QED BY <2>2, <2>3, <2>4, <2>5 DEF IInv
<1>4. CASE /\ consumer = "waiting" /\ consumer' = "dead"
           /\ UNCHANGED <<status, current, phase, left, timer>>
  <2>1. TypeOK'
    BY <1>1, <1>4 DEF IInv, TypeOK
  <2> QED BY <1>1, <1>4, <2>1, QuietStepKeepsInv DEF DownIsDead
<1> QED BY <1>2, <1>3, <1>4 DEF Unwound, Abort, NotRunning, runVars

LEMMA PruneKeepsInv ==
  ASSUME IInv, NEW S \in SUBSET Jobs, Prune(S)
  PROVE  IInv'
<1>1. /\ \A j \in S : status[j] \in TERMINAL
      /\ status' = [j \in Jobs |-> IF j \in S THEN GONE ELSE status[j]]
      /\ cancel_requested' = [j \in Jobs |-> cancel_requested[j] /\ j \notin S]
      /\ UNCHANGED <<server, queue, consumer, current, phase, left,
                     timer, cancelling, ahead>>
  BY DEF Prune, runVars
<1>2. \A j \in Jobs : /\ status[j] = NONE <=> status'[j] = NONE
                      /\ status[j] = QUEUED <=> status'[j] = QUEUED
                      /\ status[j] = RUNNING <=> status'[j] = RUNNING
                      /\ cancel_requested'[j] => cancel_requested[j]
  BY <1>1 DEF TERMINAL, NONE, QUEUED, RUNNING, COMPLETED, FAILED, CANCELLED, GONE
<1>3. status' \in [Jobs -> {NONE, QUEUED, RUNNING, GONE} \cup TERMINAL]
  BY <1>1 DEF IInv, TypeOK
<1>4. cancel_requested' \in [Jobs -> BOOLEAN]
  BY <1>1
<1>5. TypeOK'
  BY <1>1, <1>3, <1>4 DEF IInv, TypeOK
<1>6. /\ QueueAccounts' /\ NoFlaggedJobWaits' /\ NoOvertaking'
      /\ FreshUnflagged' /\ RunningHasOwner' /\ RunIsActive' /\ DownIsDead'
  BY <1>1, <1>2 DEF IInv, TypeOK, QueueAccounts, InQueue, NoFlaggedJobWaits,
                NoOvertaking, FreshUnflagged, RunningHasOwner, RunIsActive, DownIsDead
<1>7. EntriesAccepted' /\ QueueSorted' /\ AheadIsOrder'
  BY <1>1, <1>2, ElementOfSeq, LenProperties
     DEF IInv, TypeOK, EntriesAccepted, QueueSorted, AheadIsOrder
<1> QED BY <1>5, <1>6, <1>7 DEF IInv

LEMMA StopBeginKeepsInv ==
  ASSUME IInv, StopBegin
  PROVE  IInv'
<1>1. /\ cancel_requested' =
           [j \in Jobs |-> cancel_requested[j] \/ status[j] = RUNNING]
      /\ UNCHANGED <<status, queue, consumer, current, phase, left, timer, ahead>>
      /\ server' \in {"draining", "aborting"}
      /\ cancelling' \in {"no", "timeout", "shutdown"}
  BY DEF StopBegin, CancelTasks, runVars, IInv, TypeOK
<1>2. TypeOK'
  <2>1. cancel_requested' \in [Jobs -> BOOLEAN]
    BY <1>1
  <2> QED BY <1>1, <2>1 DEF IInv, TypeOK
<1>3. NoFlaggedJobWaits' /\ FreshUnflagged'
  BY <1>1 DEF IInv, NoFlaggedJobWaits, FreshUnflagged, NONE, QUEUED, RUNNING
<1>4. /\ QueueAccounts' /\ NoOvertaking' /\ EntriesAccepted' /\ QueueSorted'
      /\ AheadIsOrder' /\ RunningHasOwner' /\ RunIsActive' /\ DownIsDead'
  BY <1>1 DEF IInv, QueueAccounts, InQueue, NoOvertaking, EntriesAccepted,
              QueueSorted, AheadIsOrder, RunningHasOwner, RunIsActive, DownIsDead
<1> QED BY <1>2, <1>3, <1>4 DEF IInv

LEMMA ProcessLostKeepsInv ==
  ASSUME IInv, ProcessLost
  PROVE  IInv'
<1>1. /\ status' = [j \in Jobs |-> IF status[j] = NONE THEN NONE ELSE GONE]
      /\ cancel_requested' = [j \in Jobs |-> FALSE]
      /\ queue' = <<>> /\ DOMAIN queue' = {} /\ queue' \in Seq(Jobs) /\ Len(queue') = 0
      /\ consumer' = "dead" /\ current' = NoJob /\ phase' = "idle" /\ left' = 0
      /\ timer' = "set" /\ server' = "down" /\ cancelling' = "no" /\ ahead' = ahead
  BY EmptySeq DEF ProcessLost, NotRunning, Lost
<1>2. TypeOK'
  BY <1>1, QueueMaxAssumption, MaxSpreadsAssumption DEF IInv, TypeOK, Phases
<1>3. \A j \in Jobs : status'[j] \in {NONE, GONE} /\ (status[j] # NONE => status'[j] # NONE)
  BY <1>1 DEF NONE, GONE
<1>4. /\ QueueAccounts' /\ NoFlaggedJobWaits' /\ NoOvertaking' /\ FreshUnflagged'
      /\ EntriesAccepted' /\ QueueSorted'
  BY <1>1, <1>3 DEF QueueAccounts, NoFlaggedJobWaits, NoOvertaking, FreshUnflagged,
                    EntriesAccepted, QueueSorted, NONE, GONE, QUEUED, RUNNING
<1>5. RunningHasOwner' /\ RunIsActive' /\ DownIsDead'
  BY <1>1, <1>3, NoJobAssumption
     DEF RunningHasOwner, RunIsActive, DownIsDead, NONE, GONE, RUNNING
<1>6. AheadIsOrder'
  BY <1>1, <1>3 DEF IInv, TypeOK, AheadIsOrder
<1> QED BY <1>2, <1>4, <1>5, <1>6 DEF IInv

LEMMA NextKeepsInv == IInv /\ [Next]_vars => IInv'
<1> SUFFICES ASSUME IInv, [Next]_vars PROVE IInv'
  OBVIOUS
<1>1. CASE Handlers
  BY <1>1, SubmitKeepsInv, CancelKeepsInv DEF Handlers
<1>2. CASE Consumer
  <2>1. CASE Dequeue
    BY <2>1, DequeueKeepsInv
  <2>2. CASE AwaitQueue
    <3>1. TypeOK'
      BY <2>2 DEF AwaitQueue, runVars, IInv, TypeOK
    <3> QED BY <2>2, <3>1, QuietStepKeepsInv DEF AwaitQueue, runVars, IInv, DownIsDead
  <2>3. CASE Unwound
    BY <2>3, UnwoundKeepsInv
  <2>4. CASE UnwindRaises
    <3>1. CASE EndRun(FAILED)
      BY <2>4, <3>1, EndRunKeepsInv DEF UnwindRaises, IInv, TypeOK, TERMINAL
    <3>2. CASE UNCHANGED <<status, consumer, runVars>>
      <4>1. TypeOK'
        BY <2>4, <3>2 DEF UnwindRaises, runVars, IInv, TypeOK
      <4> QED BY <2>4, <3>2, <4>1, QuietStepKeepsInv
              DEF UnwindRaises, runVars, IInv, DownIsDead
    <3> QED BY <2>4, <3>1, <3>2 DEF UnwindRaises
  <2> QED BY <1>2, <2>1, <2>2, <2>3, <2>4 DEF Consumer
<1>3. CASE RunJob
  BY <1>3, RunJobKeepsInv
<1>4. CASE Timeout
  <2>1. TypeOK'
    BY <1>4 DEF Timeout, runVars, IInv, TypeOK
  <2> QED BY <1>4, <2>1, QuietStepKeepsInv DEF Timeout, runVars, IInv, DownIsDead
<1>5. CASE \E S \in SUBSET Jobs : Prune(S)
  BY <1>5, PruneKeepsInv
<1>6. CASE StopBegin
  BY <1>6, StopBeginKeepsInv
<1>7. CASE Stop
  <2>1. CASE Drained \/ DrainDeadline
    <3>1. TypeOK'
      BY <2>1 DEF Drained, DrainDeadline, CancelTasks, runVars, IInv, TypeOK
    <3> QED BY <2>1, <3>1, QuietStepKeepsInv
            DEF Drained, DrainDeadline, CancelTasks, runVars, DownIsDead
  <2>2. CASE Exit
    BY <2>2, ProcessLostKeepsInv DEF Exit
  <2> QED BY <1>7, <2>1, <2>2 DEF Stop
<1>8. CASE Kill
  BY <1>8, ProcessLostKeepsInv DEF Kill
<1>9. CASE Restart
  <2>1. /\ consumer = "dead"
        /\ server' = "up" /\ consumer' = "waiting"
        /\ UNCHANGED <<status, cancel_requested, queue, current, phase, left,
                       timer, cancelling, ahead>>
    BY <1>9 DEF Restart, runVars, IInv, DownIsDead
  <2>2. TypeOK'
    BY <2>1 DEF IInv, TypeOK
  <2> QED BY <2>1, <2>2, QuietStepKeepsInv DEF DownIsDead
<1>10. CASE UNCHANGED vars
  <2>1. TypeOK'
    BY <1>10 DEF vars, runVars, IInv, TypeOK
  <2> QED BY <1>10, <2>1, QuietStepKeepsInv DEF vars, runVars, IInv, DownIsDead
<1> QED BY <1>1, <1>2, <1>3, <1>4, <1>5, <1>6, <1>7, <1>8, <1>9, <1>10 DEF Next

THEOREM InvHolds == Spec => []IInv
<1> QED BY InitEstablishesInv, NextKeepsInv, PTL DEF Spec

-----------------------------------------------------------------------------
(* The invariants of ExportWorker.                                         *)

\* Every variable keeps its type, and the queue its bound (settings.queue_max).
THEOREM TypeCorrect == Spec => []TypeOK
<1>1. IInv => TypeOK
  BY DEF IInv
<1> QED BY <1>1, InvHolds, PTL

\* _QUEUE and _JOBS agree: a queued job has its one entry, and no job has two.
THEOREM NoJobIsLostOrServedTwice == Spec => []QueueAccounts
<1>1. IInv => QueueAccounts
  BY DEF IInv
<1> QED BY <1>1, InvHolds, PTL

\* Whatever ends a run (an answer, a failure, the timeout, the shutdown, an
\* exception out of a clean-up), the job it leaves behind is not "running".
THEOREM NoZombie == Spec => []RunningHasOwner
<1>1. IInv => RunningHasOwner
  BY DEF IInv
<1> QED BY <1>1, InvHolds, PTL

\* The cancel handler leaves no waiting job with the flag set, so the
\* consumer's own check of the flag before run_job never fires.
THEOREM CancelOfWaitingIsFinal == Spec => []NoFlaggedJobWaits
<1>1. IInv => NoFlaggedJobWaits
  BY DEF IInv
<1> QED BY <1>1, InvHolds, PTL

\* Jobs run in the order of acceptance.
THEOREM ServiceIsFifo == Spec => []NoOvertaking
<1>1. IInv => NoOvertaking
  BY DEF IInv
<1> QED BY <1>1, InvHolds, PTL

-----------------------------------------------------------------------------
(* ExportWorker implements ExportJobContract, whose variables it shares.   *)

LEMMA InitImplementsInit == Init => Contract!Init
BY DEF Init, Contract!Init, NONE

\* The end of a run is the Finish of the job that was running.
LEMMA EndRunIsFinish ==
  ASSUME IInv, consumer = "running", UNCHANGED ahead,
         NEW s \in TERMINAL, status' = Finalized(current, s)
  PROVE  Contract!Next
<1>1. current \in Jobs /\ status[current] = RUNNING
  BY DEF IInv, RunIsActive, RunningHasOwner
<1>2. Contract!Finish(current, s)
  BY <1>1 DEF Contract!Finish, Finalized, TERMINAL, RUNNING, COMPLETED, FAILED, CANCELLED
<1>3. s \in Contract!TERMINAL
  BY DEF Contract!TERMINAL, TERMINAL, COMPLETED, FAILED, CANCELLED
<1> QED BY <1>1, <1>2, <1>3 DEF Contract!Next

LEMMA NextImplementsNext ==
  IInv /\ [Next]_vars => [Contract!Next]_(Contract!vars)
<1> SUFFICES ASSUME IInv, [Next]_vars
             PROVE  Contract!Next \/ UNCHANGED <<status, ahead>>
  BY DEF Contract!vars
<1>1. ASSUME NEW j \in Jobs, Submit(j)
      PROVE  Contract!Next \/ UNCHANGED <<status, ahead>>
  <2>1. CASE HasRoom
    <3>1. Contract!Accept(j)
      BY <1>1, <2>1 DEF Submit, Enqueue, Registered, Contract!Accept,
                        NONE, QUEUED
    <3> QED BY <3>1 DEF Contract!Next
  <2>2. CASE ~HasRoom
    BY <1>1, <2>2 DEF Submit
  <2> QED BY <2>1, <2>2
<1>2. ASSUME NEW j \in Jobs, Cancel(j)
      PROVE  Contract!Next \/ UNCHANGED <<status, ahead>>
  <2>1. CASE status[j] = QUEUED
    <3>1. Contract!Withdraw(j)
      BY <1>2, <2>1 DEF Cancel, Finalized, Contract!Withdraw, QUEUED, TERMINAL,
                        COMPLETED, FAILED, CANCELLED
    <3> QED BY <3>1 DEF Contract!Next
  <2>2. CASE status[j] # QUEUED
    BY <1>2, <2>2 DEF Cancel
  <2> QED BY <2>1, <2>2
<1>3. ASSUME Dequeue
      PROVE  Contract!Next \/ UNCHANGED <<status, ahead>>
  <2> DEFINE j == Head(queue)
  <2>1. /\ queue # <<>> /\ consumer # "running" /\ UNCHANGED ahead
        /\ \/ UNCHANGED status
           \/ status[j] = QUEUED /\ StartRun(j)
    BY <1>3, DequeueCases
  <2>2. /\ j \in Jobs
        /\ \A k \in ahead[j] : k \in Jobs /\ status[k] # QUEUED
        /\ \A k \in Jobs : status[k] # RUNNING
    BY <2>1, HeadIsNext
  <2>3. CASE status[j] = QUEUED /\ StartRun(j)
    <3>1. Contract!Start(j)
      BY <2>1, <2>2, <2>3 DEF StartRun, Contract!Start, QUEUED, RUNNING
    <3> QED BY <2>2, <3>1 DEF Contract!Next
  <2> QED BY <2>1, <2>3
<1>4. ASSUME Unwound
      PROVE  Contract!Next \/ UNCHANGED <<status, ahead>>
  BY <1>4, EndRunIsFinish DEF Unwound, EndRun, Abort, TERMINAL
<1>5. ASSUME UnwindRaises \/ UploadDone \/ RunFails
      PROVE  Contract!Next \/ UNCHANGED <<status, ahead>>
  BY <1>5, EndRunIsFinish
     DEF UnwindRaises, UploadDone, RunFails, Resumed, EndRun, TERMINAL
<1>6. ASSUME NextSpread \/ SpreadsDone \/ ColorDone \/ MergeDone
      PROVE  Contract!Next \/ UNCHANGED <<status, ahead>>
  <2>1. /\ consumer = "running" /\ UNCHANGED ahead
        /\ EndRun(CANCELLED) \/ UNCHANGED status
    BY <1>6 DEF NextSpread, SpreadsDone, ColorDone, MergeDone, Resumed, Boundary
  <2> QED BY <2>1, EndRunIsFinish DEF EndRun, TERMINAL
<1>7. ASSUME NEW S \in SUBSET Jobs, Prune(S)
      PROVE  Contract!Next
  <2>1. Contract!Forget(S)
    BY <1>7 DEF Prune, Contract!Forget, Contract!TERMINAL, TERMINAL, GONE,
                COMPLETED, FAILED, CANCELLED
  <2> QED BY <2>1 DEF Contract!Next
<1>8. ASSUME ProcessLost
      PROVE  Contract!Next
  <2>1. Contract!LoseAll
    BY <1>8 DEF ProcessLost, Lost, Contract!LoseAll, NONE, GONE
  <2> QED BY <2>1 DEF Contract!Next
<1>9. ASSUME \/ AwaitQueue \/ Timeout \/ StopBegin \/ Drained \/ DrainDeadline
             \/ Restart \/ UNCHANGED vars
      PROVE  UNCHANGED <<status, ahead>>
  BY <1>9 DEF AwaitQueue, Timeout, StopBegin, Drained, DrainDeadline, Restart, vars
<1> QED BY <1>1, <1>2, <1>3, <1>4, <1>5, <1>6, <1>7, <1>8, <1>9
        DEF Next, Handlers, Consumer, RunJob, Stop, Exit, Kill

\* The worker behaves towards the orchestrator as the contract says: whatever
\* its queue, consumer, timeouts and shutdown do, a poll sees a job accepted,
\* served alone and in turn, finished once, and forgotten only after that or
\* with the whole process.
THEOREM WorkerImplementsContract == Spec => ImplementsContract
<1>1. Spec => []IInv
  BY InvHolds
<1> QED BY <1>1, InitImplementsInit, NextImplementsNext, PTL
        DEF Spec, ImplementsContract, Contract!Spec

-----------------------------------------------------------------------------
(* The action properties of ExportWorker.                                  *)

\* The prune loop forgets finished jobs only; all the others go with the
\* process.
LEMMA LiveJobsAreKept ==
  ASSUME IInv, [Next]_vars, NEW j \in Jobs,
         status[j] \notin TERMINAL \cup {GONE}, status'[j] = GONE
  PROVE  server' = "down"
<1> USE DEF IInv, TypeOK, NONE, QUEUED, RUNNING, COMPLETED, FAILED, CANCELLED, GONE,
            TERMINAL
<1>1. ASSUME NEW k \in Jobs, Submit(k) \/ Cancel(k) PROVE FALSE
  BY <1>1 DEF Submit, Enqueue, Registered, Cancel, Finalized
<1>2. ASSUME NEW s \in TERMINAL, status' = Finalized(current, s) PROVE FALSE
  BY <1>2 DEF Finalized
<1>3. ASSUME RunJob \/ UnwindRaises \/ Unwound PROVE FALSE
  BY <1>2, <1>3
     DEF RunJob, NextSpread, SpreadsDone, ColorDone, MergeDone, UploadDone, RunFails,
         Boundary, UnwindRaises, Unwound, Abort, EndRun
<1>4. ASSUME Dequeue PROVE FALSE
  BY <1>4, DequeueCases DEF StartRun
<1>5. ASSUME NEW S \in SUBSET Jobs, Prune(S) PROVE FALSE
  BY <1>5 DEF Prune
<1>6. ASSUME \/ AwaitQueue \/ Timeout \/ StopBegin \/ Drained \/ DrainDeadline
             \/ Restart \/ UNCHANGED vars
      PROVE  FALSE
  BY <1>6 DEF AwaitQueue, Timeout, StopBegin, Drained, DrainDeadline, Restart, vars
<1>7. ASSUME ProcessLost PROVE server' = "down"
  BY <1>7 DEF ProcessLost
<1> QED BY <1>1, <1>3, <1>4, <1>5, <1>6, <1>7
        DEF Next, Handlers, Consumer, Stop, Exit, Kill

\* A step of the contract takes a job on to the next stage of its life.
LEMMA ContractStepsOn ==
  ASSUME TypeOK, [Contract!Next]_(Contract!vars),
         NEW j \in Jobs, status'[j] # status[j]
  PROVE  \/ status[j] = NONE /\ status'[j] = QUEUED
         \/ status[j] = QUEUED /\ status'[j] \in {RUNNING, CANCELLED}
         \/ status[j] = RUNNING /\ status'[j] \in TERMINAL
         \/ status[j] # GONE /\ status'[j] = GONE
<1> USE DEF TypeOK, NONE, QUEUED, RUNNING, COMPLETED, FAILED, CANCELLED, GONE, TERMINAL
<1>1. CASE \E k \in Jobs : Contract!Accept(k)
  BY <1>1 DEF Contract!Accept
<1>2. CASE \E k \in Jobs : Contract!Start(k) \/ Contract!Withdraw(k)
  BY <1>2 DEF Contract!Start, Contract!Withdraw
<1>3. CASE \E k \in Jobs, s \in Contract!TERMINAL : Contract!Finish(k, s)
  BY <1>3 DEF Contract!Finish, Contract!TERMINAL
<1>4. CASE (\E S \in SUBSET Jobs : Contract!Forget(S)) \/ Contract!LoseAll
  BY <1>4 DEF Contract!Forget, Contract!LoseAll
<1>5. CASE UNCHANGED Contract!vars
  BY <1>5 DEF Contract!vars
<1> QED BY <1>1, <1>2, <1>3, <1>4, <1>5 DEF Contract!Next

\* _finalize is effective once and a job is run once: whatever happens to the
\* process, its life goes one way.
THEOREM JobsAreNotRevived == Spec => JobsLiveOnce
<1> DEFINE A == \A j \in Jobs : status'[j] # status[j] =>
       \/ status[j] = NONE /\ status'[j] = QUEUED
       \/ status[j] = QUEUED /\ status'[j] \in {RUNNING, CANCELLED}
       \/ status[j] = RUNNING /\ status'[j] \in TERMINAL
       \/ status'[j] = GONE /\ (status[j] \in TERMINAL \/ server' = "down")
<1>1. IInv /\ [Next]_vars => A
  <2> SUFFICES ASSUME IInv, [Next]_vars, NEW j \in Jobs, status'[j] # status[j]
               PROVE  \/ status[j] = NONE /\ status'[j] = QUEUED
                      \/ status[j] = QUEUED /\ status'[j] \in {RUNNING, CANCELLED}
                      \/ status[j] = RUNNING /\ status'[j] \in TERMINAL
                      \/ status'[j] = GONE /\ (status[j] \in TERMINAL \/ server' = "down")
    OBVIOUS
  <2>1. [Contract!Next]_(Contract!vars) /\ TypeOK
    BY NextImplementsNext DEF IInv
  <2> QED BY <2>1, ContractStepsOn, LiveJobsAreKept
<1>2. Spec => [][A]_vars
  BY <1>1, InvHolds, PTL DEF Spec
<1> QED BY <1>2 DEF JobsLiveOnce

\* run_job starts no new piece of work for a job whose cancel was requested,
\* and the request stands until the job has ended.
THEOREM CancelledRunsStartNothing == Spec => NoWorkAfterCancel
<1> DEFINE A == \A j \in Jobs : status[j] = RUNNING /\ cancel_requested[j] =>
                  /\ status'[j] = RUNNING =>
                       phase' = phase /\ left' = left /\ cancel_requested'[j]
                  /\ status'[j] = COMPLETED => phase = "upload"
<1>1. IInv /\ [Next]_vars => A
  <2> SUFFICES ASSUME IInv, [Next]_vars, NEW j \in Jobs,
                      status[j] = RUNNING, cancel_requested[j]
               PROVE  /\ status'[j] = RUNNING =>
                           phase' = phase /\ left' = left /\ cancel_requested'[j]
                      /\ status'[j] = COMPLETED => phase = "upload"
    OBVIOUS
  <2> USE DEF NONE, QUEUED, RUNNING, COMPLETED, FAILED, CANCELLED, GONE, TERMINAL
  <2>1. consumer = "running" /\ current = j
    BY DEF IInv, RunningHasOwner
  <2>2. ASSUME NEW s \in TERMINAL, status' = Finalized(current, s) PROVE status'[j] = s
    BY <2>1, <2>2 DEF Finalized, IInv, TypeOK
  <2>3. CASE RunJob
    BY <2>1, <2>2, <2>3
       DEF RunJob, NextSpread, SpreadsDone, ColorDone, MergeDone, UploadDone,
           RunFails, Boundary, Resumed, EndRun
  <2>4. CASE Consumer
    <3>1. CASE Dequeue \/ AwaitQueue \/ Unwound
      BY <2>1, <2>2, <3>1 DEF Dequeue, AwaitQueue, Unwound, Abort, EndRun
    <3>2. CASE UnwindRaises
      BY <2>1, <2>2, <3>2 DEF UnwindRaises, EndRun, runVars
    <3> QED BY <2>4, <3>1, <3>2 DEF Consumer
  <2>5. CASE ProcessLost
    BY <2>5 DEF ProcessLost, Lost
  <2>6. CASE \/ Timeout \/ Drained \/ DrainDeadline \/ Restart \/ UNCHANGED vars
    BY <2>6 DEF Timeout, Drained, DrainDeadline, Restart, vars, runVars
  <2>7. CASE Handlers
    BY <2>7 DEF Handlers, Submit, Enqueue, Registered, Cancel, Finalized, runVars, IInv, TypeOK
  <2>8. CASE \E S \in SUBSET Jobs : Prune(S)
    BY <2>8 DEF Prune, runVars
  <2>9. CASE StopBegin
    BY <2>9 DEF StopBegin, runVars
  <2> QED BY <2>3, <2>4, <2>5, <2>6, <2>7, <2>8, <2>9 DEF Next, Stop, Exit, Kill
<1>2. Spec => [][A]_vars
  BY <1>1, InvHolds, PTL DEF Spec
<1> QED BY <1>2 DEF NoWorkAfterCancel

-----------------------------------------------------------------------------
(* Bounds.                                                                 *)

Waiting == {j \in Jobs : status[j] = QUEUED}

\* However many ids there are, no more jobs wait than the queue has entries:
\* what an orchestrator may have outstanding is settings.queue_max and the one
\* job that runs, also when cancelled jobs hold some of the entries.
THEOREM BacklogIsBounded ==
  Spec => [](/\ IsFiniteSet(Waiting) /\ Cardinality(Waiting) <= Len(queue)
             /\ QueueMax > 0 => Cardinality(Waiting) <= QueueMax)
<1>1. ASSUME IInv
      PROVE  /\ IsFiniteSet(Waiting) /\ Cardinality(Waiting) <= Len(queue)
             /\ QueueMax > 0 => Cardinality(Waiting) <= QueueMax
  <2> DEFINE Place == [j \in Waiting |-> CHOOSE i \in DOMAIN queue : queue[i] = j]
  <2>1. Len(queue) \in Nat /\ DOMAIN queue = 1..Len(queue)
    BY <1>1, LenProperties DEF IInv, TypeOK
  <2>2. \A j \in Waiting : Place[j] \in 1..Len(queue) /\ queue[Place[j]] = j
    BY <1>1, <2>1 DEF Waiting, IInv, QueueAccounts, InQueue
  <2>3. Place \in Injection(Waiting, 1..Len(queue))
    <3>1. Place \in [Waiting -> 1..Len(queue)]
      BY <2>2
    <3>2. \A j, k \in Waiting : Place[j] = Place[k] => j = k
      BY <2>2, Zenon
    <3> HIDE DEF Place
    <3> QED BY <3>1, <3>2 DEF Injection, IsInjective
  <2>4. IsFiniteSet(1..Len(queue)) /\ Cardinality(1..Len(queue)) = Len(queue)
    <3>1. /\ IsFiniteSet(1..Len(queue))
          /\ Cardinality(1..Len(queue)) = IF 1 > Len(queue) THEN 0 ELSE Len(queue) - 1 + 1
      BY <2>1, FS_Interval
    <3> QED BY <2>1, <3>1
  <2>5. /\ IsFiniteSet(Waiting) /\ Cardinality(Waiting) <= Len(queue)
        /\ Cardinality(Waiting) \in Nat
    <3> HIDE DEF Place
    <3>1. IsFiniteSet(Waiting) /\ Cardinality(Waiting) <= Cardinality(1..Len(queue))
      BY <2>3, <2>4, FS_Injection, Zenon
    <3> QED BY <2>4, <3>1, FS_CardinalityType
  <2> QED BY <1>1, <2>1, <2>5, QueueMaxAssumption DEF IInv, TypeOK
<1> QED BY <1>1, InvHolds, PTL

-----------------------------------------------------------------------------
(* Progress: what the liveness properties rest on.                         *)

\* A job that goes on waiting keeps its place in the queue, and moves up by
\* one when the consumer takes an entry, be it a stale one.
QueueAdvances ==
  [][\A k \in DOMAIN queue :
       status[queue[k]] = QUEUED /\ status'[queue[k]] = QUEUED =>
         \E n \in DOMAIN queue' :
           queue'[n] = queue[k] /\ n = IF Dequeue THEN k - 1 ELSE k]_vars

\* Nothing that is accepted, cancelled, skipped or pruned puts a waiting job
\* back: it is served after as many dequeues as it had entries before it.
THEOREM WaitingJobsMoveUp == Spec => QueueAdvances
<1> DEFINE Moves(k) == \E n \in DOMAIN queue' :
                          queue'[n] = queue[k] /\ n = IF Dequeue THEN k - 1 ELSE k
           A == \A k \in DOMAIN queue :
                  status[queue[k]] = QUEUED /\ status'[queue[k]] = QUEUED => Moves(k)
<1>1. ASSUME IInv, [Next]_vars, NEW k \in DOMAIN queue,
             status[queue[k]] = QUEUED, status'[queue[k]] = QUEUED
      PROVE  Moves(k)
  <2>1. /\ Len(queue) \in Nat /\ DOMAIN queue = 1..Len(queue) /\ k \in 1..Len(queue)
        /\ queue[k] \in Jobs
    BY <1>1, LenProperties, ElementOfSeq DEF IInv, TypeOK
  <2>2. CASE Dequeue
    <3>1. queue # <<>> /\ queue' = Tail(queue)
      BY <2>2 DEF Dequeue
    <3>2. /\ Head(queue) = queue[1] /\ DOMAIN queue' = 1..(Len(queue) - 1)
          /\ \A n \in 1..(Len(queue) - 1) : queue'[n] = queue[n + 1]
      BY <1>1, <3>1, RemainingEntries DEF IInv, TypeOK
    <3>3. k # 1
      BY <1>1, <2>1, <2>2, <3>2, DequeueCases
         DEF StartRun, IInv, TypeOK, QUEUED, RUNNING, GONE, TERMINAL, COMPLETED, FAILED,
             CANCELLED
    <3>4. k - 1 \in 1..(Len(queue) - 1) /\ (k - 1) + 1 = k
      BY <2>1, <3>3
    <3> QED BY <2>2, <3>2, <3>4
  <2>3. CASE ~Dequeue /\ UNCHANGED queue
    BY <2>1, <2>3
  <2>4. CASE ~Dequeue /\ \E j \in Jobs : queue' = Append(queue, j)
    <3>1. PICK j \in Jobs : queue' = Append(queue, j)
      BY <2>4
    <3>2. k \in DOMAIN queue' /\ queue'[k] = queue[k]
      BY <1>1, <2>1, <3>1, AppendedEntries DEF IInv, TypeOK
    <3> QED BY <2>4, <3>2
  <2>5. ASSUME ProcessLost PROVE FALSE
    BY <1>1, <2>1, <2>5 DEF ProcessLost, Lost, QUEUED, NONE, GONE
  <2>6. \/ Dequeue \/ ProcessLost \/ UNCHANGED queue
        \/ \E j \in Jobs : queue' = Append(queue, j)
    BY <1>1 DEF Next, Handlers, Submit, Enqueue, Cancel, Consumer, AwaitQueue, Unwound,
                UnwindRaises, RunJob, NextSpread, SpreadsDone, ColorDone, MergeDone,
                UploadDone, RunFails, Timeout, Prune, StopBegin, Stop, Drained,
                DrainDeadline, Exit, Kill, Restart, vars
  <2> QED BY <2>2, <2>3, <2>4, <2>5, <2>6
<1>2. IInv /\ [Next]_vars => A
  BY <1>1
<1> HIDE DEF A
<1>3. Spec => [][A]_vars
  BY <1>2, InvHolds, PTL DEF Spec
<1> QED BY <1>3 DEF QueueAdvances, A

\* How often run_job can still be resumed: for the capture in progress and those
\* to come, the colour stage, the merge and the upload.
After == [p \in Phases |-> CASE p = "render" -> 4 [] p = "color"  -> 3 [] p = "merge" -> 2
                             [] p = "upload" -> 1 [] p = "idle" -> 0]
ResumesLeft == After[phase] + (IF phase = "render" THEN left ELSE 0)

LEMMA AfterIs ==
  /\ After["render"] = 4 /\ After["color"] = 3 /\ After["merge"] = 2
  /\ After["upload"] = 1 /\ After["idle"] = 0
BY DEF After, Phases

PhaseIsActive == phase # "idle" <=> consumer = "running"

LEMMA PhaseIsActiveHolds == Spec => []PhaseIsActive
<1>1. Init => PhaseIsActive
  BY DEF Init, PhaseIsActive
<1>2. ASSUME IInv, PhaseIsActive, [Next]_vars PROVE PhaseIsActive'
  <2> USE DEF PhaseIsActive
  <2>1. CASE Handlers \/ Timeout \/ (\E S \in SUBSET Jobs : Prune(S)) \/ StopBegin
             \/ Drained \/ DrainDeadline \/ UNCHANGED vars
    BY <1>2, <2>1 DEF Handlers, Submit, Cancel, Timeout, Prune, StopBegin, Drained,
                      DrainDeadline, vars, runVars
  <2>2. CASE Dequeue
    BY <1>2, <2>2, DequeueCases DEF StartRun
  <2>3. CASE AwaitQueue \/ Unwound \/ UnwindRaises
    BY <1>2, <2>3 DEF AwaitQueue, Unwound, Abort, UnwindRaises, EndRun, NotRunning, runVars
  <2>4. CASE RunJob
    BY <1>2, <2>4 DEF RunJob, NextSpread, SpreadsDone, ColorDone, MergeDone, UploadDone,
                      RunFails, Boundary, Resumed, EndRun, NotRunning
  <2>5. CASE ProcessLost
    BY <2>5 DEF ProcessLost, NotRunning
  <2>6. CASE Restart
    BY <1>2, <2>6 DEF Restart, IInv, DownIsDead, runVars
  <2> QED BY <1>2, <2>1, <2>2, <2>3, <2>4, <2>5, <2>6 DEF Next, Consumer, Stop, Exit, Kill
<1>3. IInv /\ PhaseIsActive /\ [Next]_vars => PhaseIsActive'
  BY <1>2
<1> QED BY <1>1, <1>3, InvHolds, PTL DEF Spec

\* Every resumption of run_job brings the run nearer to its end, and nobody
\* else can set it back; the first after a cancel request ends it.
RunAdvances ==
  [][/\ RunJob => ResumesLeft' < ResumesLeft
     /\ consumer = "running" /\ consumer' = "running" /\ ~RunJob =>
          ResumesLeft' = ResumesLeft
     /\ RunJob /\ cancel_requested[current] => ResumesLeft' = 0]_vars

\* A run is over after MaxSpreads + 3 resumptions of run_job, whatever happens
\* around it, and after one once its job is cancelled: what can keep it from
\* ending is an await that does not come back, and that is the timer's.
THEOREM RunsAdvance ==
  Spec => /\ [](/\ ResumesLeft \in 0..(MaxSpreads + 3)
                /\ ResumesLeft = 0 <=> consumer # "running")
          /\ RunAdvances
<1> DEFINE Bounded == /\ ResumesLeft \in 0..(MaxSpreads + 3)
                      /\ ResumesLeft = 0 <=> consumer # "running"
           A == /\ RunJob => ResumesLeft' < ResumesLeft
                /\ consumer = "running" /\ consumer' = "running" /\ ~RunJob =>
                     ResumesLeft' = ResumesLeft
                /\ RunJob /\ cancel_requested[current] => ResumesLeft' = 0
<1>1. IInv /\ PhaseIsActive => Bounded
  BY AfterIs, MaxSpreadsAssumption DEF IInv, TypeOK, Phases, PhaseIsActive, ResumesLeft
<1>2. ASSUME IInv, PhaseIsActive, [Next]_vars PROVE A
  <2>1. left \in Nat
    BY <1>2, MaxSpreadsAssumption DEF IInv, TypeOK
  <2>2. ASSUME NEW s, EndRun(s) PROVE ResumesLeft' = 0
    BY <2>2, AfterIs DEF EndRun, NotRunning, ResumesLeft
  <2>3. CASE RunJob
    <3>1. phase # "idle"
      BY <1>2, <2>3 DEF PhaseIsActive, RunJob, NextSpread, SpreadsDone, ColorDone, MergeDone,
                        UploadDone, RunFails, Resumed
    <3>2. ResumesLeft \in Nat \ {0}
      BY <1>2, <2>1, <3>1, AfterIs DEF ResumesLeft, IInv, TypeOK, Phases
    <3>3. \/ ResumesLeft' = 0
          \/ ~cancel_requested[current] /\ ResumesLeft' < ResumesLeft
      <4>1. ASSUME NEW p, NEW n, Boundary(p, n)
            PROVE  \/ ResumesLeft' = 0
                   \/ ~cancel_requested[current] /\ phase' = p /\ left' = n
        BY <2>2, <4>1 DEF Boundary
      <4>2. CASE NextSpread
        <5>1. \/ ResumesLeft' = 0
              \/ ~cancel_requested[current] /\ phase' = "render" /\ left' = left - 1
          BY <4>1, <4>2 DEF NextSpread
        <5>2. phase = "render"
          BY <4>2 DEF NextSpread, Resumed
        <5> QED BY <2>1, <5>1, <5>2, <3>2, AfterIs DEF ResumesLeft
      <4>3. CASE SpreadsDone
        <5>1. \/ ResumesLeft' = 0
              \/ ~cancel_requested[current] /\ phase' = "color" /\ left' = 0
          BY <4>1, <4>3 DEF SpreadsDone
        <5>2. phase = "render"
          BY <4>3 DEF SpreadsDone, Resumed
        <5> QED BY <2>1, <5>1, <5>2, <3>2, AfterIs DEF ResumesLeft
      <4>4. CASE ColorDone \/ MergeDone
        <5>1. \/ ResumesLeft' = 0
              \/ /\ ~cancel_requested[current]
                 /\ phase' = IF phase = "color" THEN "merge" ELSE "upload"
          BY <4>1, <4>4 DEF ColorDone, MergeDone, Resumed
        <5>2. phase = "color" \/ phase = "merge"
          BY <4>4 DEF ColorDone, MergeDone, Resumed
        <5> QED BY <5>1, <5>2, <3>2, AfterIs DEF ResumesLeft
      <4>5. CASE UploadDone \/ RunFails
        BY <2>2, <4>5 DEF UploadDone, RunFails
      <4> QED BY <2>3, <4>2, <4>3, <4>4, <4>5 DEF RunJob
    <3> QED BY <2>3, <3>2, <3>3
  <2>4. CASE ~RunJob /\ consumer = "running" /\ consumer' = "running"
    <3>1. UNCHANGED <<phase, left>>
      BY <1>2, <2>4
         DEF Next, Handlers, Submit, Cancel, Consumer, Dequeue, AwaitQueue, Unwound, Abort,
             UnwindRaises, EndRun, Timeout, Prune, StopBegin, Stop, Drained, DrainDeadline,
             Exit, Kill, ProcessLost, Restart, vars, runVars
    <3> QED BY <2>4, <3>1 DEF ResumesLeft
  <2> QED BY <2>3, <2>4
<1>3. Spec => []Bounded
  BY <1>1, InvHolds, PhaseIsActiveHolds, PTL
<1>4. Spec => [][A]_vars
  BY <1>2, InvHolds, PhaseIsActiveHolds, PTL DEF Spec
<1> QED BY <1>3, <1>4 DEF RunAdvances

-----------------------------------------------------------------------------
(* The shutdown.                                                           *)

\* Once stop() has cancelled the tasks, the consumer is gone or CancelledError
\* is on its way to it.
ShutdownIsDelivered ==
  server = "aborting" =>
    \/ consumer = "dead"
    \/ consumer \in {"waiting", "running"} /\ cancelling = "shutdown"

\* After that no other job starts.
NoStartInShutdown ==
  [][server = "aborting" =>
       \A j \in Jobs : status'[j] = RUNNING => status[j] = RUNNING]_vars

\* What the shutdown needs of others is that no clean-up of an aborted await
\* raises an exception of its own: then stop() reaches the consumer, in get()
\* or in a run, also if the timer has struck before it, and no job is started
\* after that.  (Without it both are false: the run shutdown_swallowed.)
THEOREM ShutdownReachesConsumer ==
  ASSUME CleanupMayRaise = FALSE
  PROVE  Spec => []ShutdownIsDelivered /\ NoStartInShutdown
<1> DEFINE A == server = "aborting" =>
                  \A j \in Jobs : status'[j] = RUNNING => status[j] = RUNNING
<1>1. Init => ShutdownIsDelivered
  BY DEF Init, ShutdownIsDelivered
<1>2. ASSUME IInv, ShutdownIsDelivered, [Next]_vars
      PROVE  ShutdownIsDelivered' /\ A
  <2> USE DEF ShutdownIsDelivered
  <2>1. CASE StopBegin \/ Drained \/ DrainDeadline
    BY <1>2, <2>1 DEF StopBegin, Drained, DrainDeadline, CancelTasks, LoopFree, IInv, TypeOK
  <2>2. CASE server # "aborting" /\ ~(StopBegin \/ Drained \/ DrainDeadline)
    BY <1>2, <2>2
       DEF Next, Handlers, Submit, Cancel, Consumer, Dequeue, AwaitQueue, Unwound,
           UnwindRaises, RunJob, NextSpread, SpreadsDone, ColorDone, MergeDone, UploadDone,
           RunFails, Timeout, Prune, Stop, Exit, Kill, ProcessLost, Restart, vars
  <2>3. CASE server = "aborting" /\ Unwound
    <3>1. consumer' = "dead"
      BY <1>2, <2>3 DEF Unwound, Abort
    <3>2. A
      BY <1>2, <2>3, <3>1
         DEF Unwound, Abort, EndRun, Finalized, IInv, TypeOK, RunIsActive, TERMINAL, RUNNING,
             CANCELLED
    <3> QED BY <3>1, <3>2
  <2>4. CASE server = "aborting" /\ ProcessLost
    BY <2>4 DEF ProcessLost, Lost, NONE, GONE, RUNNING
  <2>5. CASE server = "aborting" /\ UNCHANGED vars
    BY <1>2, <2>5 DEF vars
  <2>6. CASE server = "aborting" /\ ~Unwound /\ ~ProcessLost /\ ~UNCHANGED vars
             /\ ~(StopBegin \/ Drained \/ DrainDeadline)
    BY <1>2, <2>6
       DEF Next, Handlers, Submit, Cancel, Consumer, Dequeue, AwaitQueue, UnwindRaises,
           RunJob, NextSpread, SpreadsDone, ColorDone, MergeDone, UploadDone, RunFails,
           Resumed, Timeout, Prune, Stop, Exit, Kill, Restart
  <2> QED BY <2>1, <2>2, <2>3, <2>4, <2>5, <2>6
<1>3. IInv /\ ShutdownIsDelivered /\ [Next]_vars => ShutdownIsDelivered' /\ A
  BY <1>2
<1>4. Spec => []ShutdownIsDelivered /\ [][A]_vars
  BY <1>1, <1>3, InvHolds, PTL DEF Spec
<1> QED BY <1>4 DEF NoStartInShutdown

=============================================================================
