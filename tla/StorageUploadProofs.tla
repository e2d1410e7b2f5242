------------------------ MODULE StorageUploadProofs ------------------------
(***************************************************************************)
(* Proofs about StorageUpload, for every set of uploads and of keys.       *)
(* IInv relates the service's object to the answers it gave: an object is  *)
(* there if and only if one of its upload's requests was answered          *)
(* "created", and an attempt that is not the last one has lost its answer. *)
(***************************************************************************)
EXTENDS StorageUpload, TLAPS

\* Requests are sent in order, one per attempt.
AttemptsInOrder ==
  \A p \in Puts :
    /\ pc[p] = "idle" => attempt[p] = 0
    /\ pc[p] = "sending" => attempt[p] \in Attempts
    /\ pc[p] = "backoff" => attempt[p] = 1
    /\ attempt[p] = 0 => request[p][1] = "none"
    /\ attempt[p] # 2 => request[p][2] = "none"

\* An object is in the service exactly if the service said so.
CreatedIsStored ==
  \A p \in Puts :
    object[key[p]] = p <=> \E n \in Attempts : request[p][n] = "created"

\* An attempt whose answer was not lost is the last one; until it is heard the
\* upload waits for it, and if an upload has failed with it, it was a refusal.
LossesAreKept ==
  \A p \in Puts : \A n \in Attempts :
    n <= attempt[p] /\ n \notin lost[p] =>
      /\ n = attempt[p] /\ pc[p] \in {"sending", "url", "error"}
      /\ pc[p] = "error" => request[p][n] \in Answers /\ request[p][n] # "created"

IInv == TypeOK /\ AttemptsInOrder /\ CreatedIsStored /\ LossesAreKept

\* What holds in addition if nothing redirects.
UrlInv ==
  /\ \A p \in Puts, n \in Attempts : request[p][n] # "redirect"
  /\ UrlServesOwnPdf

-----------------------------------------------------------------------------
LEMMA InitEstablishesInv == Init => IInv /\ UrlInv
BY NoPutAssumption
   DEF Init, IInv, TypeOK, AttemptsInOrder, CreatedIsStored, LossesAreKept,
       UrlInv, UrlServesOwnPdf, Attempts, Answers

\* Sending the n-th request, if it has not been sent.
LEMMA SendKeepsInv ==
  ASSUME IInv, NEW p \in Puts, NEW n \in Attempts, Send(p, n),
         attempt[p] = n - 1, request[p][n] = "none", n = 2 => 1 \in lost[p],
         UNCHANGED <<key, object, lost>>
  PROVE  IInv'
<1>1. TypeOK'
  BY DEF Send, IInv, TypeOK, Attempts, Answers
<1>2. /\ \A q \in Puts, m \in Attempts :
           q # p \/ m # n => request'[q][m] = request[q][m]
      /\ request'[p][n] = "flying"
  BY DEF Send, IInv, TypeOK, Attempts
<1>3. AttemptsInOrder'
  BY <1>1, <1>2 DEF Send, IInv, TypeOK, AttemptsInOrder, Attempts
<1>4. CreatedIsStored'
  BY <1>2 DEF IInv, CreatedIsStored, Attempts
<1>5. LossesAreKept'
  BY <1>2 DEF Send, IInv, TypeOK, LossesAreKept, Attempts
<1> QED BY <1>1, <1>3, <1>4, <1>5 DEF IInv

\* A flying request gets its answer: what the other requests are is untouched.
LEMMA AnswerKeepsInv ==
  ASSUME IInv, NEW p \in Puts, NEW n \in Attempts, NEW a \in Answers,
         request[p][n] = "flying",
         request' = [request EXCEPT ![p][n] = a],
         UNCHANGED <<pc, key, attempt, lost>>,
         IF a = "created" THEN /\ object[key[p]] = NoPut
                               /\ object' = [object EXCEPT ![key[p]] = p]
                          ELSE UNCHANGED object
  PROVE  IInv'
<1>1. TypeOK'
  BY DEF IInv, TypeOK, Attempts, Answers
<1>2. /\ \A q \in Puts, m \in Attempts :
           q # p \/ m # n => request'[q][m] = request[q][m]
      /\ request'[p][n] = a
  BY DEF IInv, TypeOK, Attempts
<1>3. AttemptsInOrder'
  BY <1>2 DEF IInv, AttemptsInOrder, Attempts
<1>4. CreatedIsStored'
  <2>1. CASE a = "created"
    <3>1. object'[key[p]] = p
      BY <2>1 DEF IInv, TypeOK
    <3>2. \A q \in Puts : q # p => (object'[key[q]] = q <=> object[key[q]] = q)
      BY <2>1, NoPutAssumption DEF IInv, TypeOK
    <3> QED BY <1>2, <2>1, <3>1, <3>2 DEF IInv, CreatedIsStored
  <2>2. CASE a # "created"
    BY <1>2, <2>2 DEF IInv, CreatedIsStored
  <2> QED BY <2>1, <2>2
<1>5. LossesAreKept'
  BY <1>2 DEF IInv, LossesAreKept, Attempts, Answers
<1> QED BY <1>1, <1>3, <1>4, <1>5 DEF IInv

\* The current attempt ends without the service's answer, and the upload
\* fails, is cancelled or, after the first attempt, waits to retry.
LEMMA UnheardKeepsInv ==
  ASSUME IInv, NEW p \in Puts, Active(p), Unheard(p),
         NEW s \in {"backoff", "error", "escaped"},
         s = "backoff" => attempt[p] = 1,
         pc' = [pc EXCEPT ![p] = s],
         UNCHANGED <<key, attempt, request, object>>
  PROVE  IInv'
<1>1. /\ pc'[p] = s /\ attempt[p] \in Attempts
      /\ lost'[p] = lost[p] \cup {attempt[p]}
      /\ \A q \in Puts : q # p => pc'[q] = pc[q] /\ lost'[q] = lost[q]
  BY DEF Active, Unheard, IInv, TypeOK, AttemptsInOrder, Attempts
<1>2. TypeOK'
  BY <1>1 DEF Unheard, IInv, TypeOK
<1>3. AttemptsInOrder'
  BY <1>1 DEF IInv, AttemptsInOrder, Attempts
<1>4. CreatedIsStored'
  BY DEF IInv, CreatedIsStored
<1>5. \A n \in Attempts : n <= attempt[p] => n \in lost'[p]
  BY <1>1 DEF IInv, LossesAreKept
<1>6. LossesAreKept'
  BY <1>1, <1>5 DEF IInv, LossesAreKept
<1> QED BY <1>2, <1>3, <1>4, <1>6 DEF IInv

LEMMA NextKeepsInv == IInv /\ [Next]_vars => IInv'
<1> SUFFICES ASSUME IInv, [Next]_vars PROVE IInv'
  OBVIOUS
<1>1. ASSUME NEW p \in Puts, Begin(p) PROVE IInv'
  BY <1>1, SendKeepsInv DEF Begin, IInv, AttemptsInOrder, Attempts
<1>2. ASSUME NEW p \in Puts, Retry(p) PROVE IInv'
  BY <1>2, SendKeepsInv
     DEF Retry, IInv, AttemptsInOrder, LossesAreKept, Attempts
<1>3. ASSUME NEW p \in Puts, Answered(p) PROVE IInv'
  BY <1>3 DEF Answered, Accepted, IInv, TypeOK, AttemptsInOrder, CreatedIsStored,
              LossesAreKept, Attempts
<1>4. ASSUME NEW p \in Puts, TransportError(p) PROVE IInv'
  <2>1. /\ Active(p) /\ Unheard(p) /\ UNCHANGED <<key, attempt, request, object>>
        /\ pc' = [pc EXCEPT ![p] = IF attempt[p] = 1 THEN "backoff" ELSE "error"]
    BY <1>4 DEF TransportError, Active
  <2> QED BY <2>1, UnheardKeepsInv
<1>5. ASSUME NEW p \in Puts, GatewayAnswers(p) PROVE IInv'
  <2>1. /\ Active(p) /\ Unheard(p) /\ UNCHANGED <<key, attempt, request, object>>
        /\ pc' = [pc EXCEPT ![p] = "error"]
    BY <1>5 DEF GatewayAnswers, Active
  <2> QED BY <2>1, UnheardKeepsInv
<1>9. ASSUME NEW p \in Puts, Escape(p) PROVE IInv'
  <2>1. /\ Active(p) /\ Unheard(p) /\ UNCHANGED <<key, attempt, request, object>>
        /\ pc' = [pc EXCEPT ![p] = "escaped"]
    BY <1>9 DEF Escape
  <2> QED BY <2>1, UnheardKeepsInv
<1>6. ASSUME NEW p \in Puts, NEW n \in Attempts, Serve(p, n) PROVE IInv'
  BY <1>6, AnswerKeepsInv DEF Serve, Upsert, Answers
<1>7. ASSUME NEW p \in Puts, NEW n \in Attempts, Refuse(p, n) PROVE IInv'
  BY <1>7, AnswerKeepsInv DEF Refuse, Answers
<1>8. CASE UNCHANGED vars
  BY <1>8 DEF vars, IInv, TypeOK, AttemptsInOrder, CreatedIsStored,
              LossesAreKept
<1> QED BY <1>1, <1>2, <1>3, <1>4, <1>5, <1>6, <1>7, <1>8, <1>9 DEF Next

THEOREM InvHolds == Spec => []IInv
<1>1. Init => IInv
  BY InitEstablishesInv
<1> QED BY <1>1, NextKeepsInv, PTL DEF Spec

\* An object, once stored, is never replaced: the service is told not to.
LEMMA NextKeepsUrlInv ==
  ASSUME Redirects = FALSE
  PROVE  IInv /\ UrlInv /\ [Next]_vars => UrlInv'
<1> SUFFICES ASSUME IInv, UrlInv, [Next]_vars PROVE UrlInv'
  OBVIOUS
<1> USE DEF UrlInv, UrlServesOwnPdf
<1>1. ASSUME NEW p \in Puts, Begin(p) \/ Retry(p) PROVE UrlInv'
  BY <1>1 DEF Begin, Retry, Send, IInv, TypeOK, AttemptsInOrder, Attempts
<1>2. ASSUME NEW p \in Puts, Answered(p) PROVE UrlInv'
  BY <1>2 DEF Answered, Accepted, IInv, TypeOK, AttemptsInOrder, CreatedIsStored
<1>3. ASSUME NEW p \in Puts, TransportError(p) \/ GatewayAnswers(p) \/ Escape(p)
      PROVE  UrlInv'
  <2>1. /\ \A q \in Puts : pc'[q] = "url" => pc[q] = "url"
        /\ UNCHANGED <<key, request, object>>
    BY <1>3 DEF TransportError, GatewayAnswers, Escape, IInv, TypeOK
  <2> QED BY <2>1
<1>4. ASSUME NEW p \in Puts, NEW n \in Attempts, Serve(p, n) PROVE UrlInv'
  <2>1. CASE object[key[p]] = NoPut
    <3>1. /\ UNCHANGED <<pc, key>> /\ object' = [object EXCEPT ![key[p]] = p]
          /\ request' = [request EXCEPT ![p][n] = "created"]
      BY <1>4, <2>1 DEF Serve
    <3>2. \A q \in Puts : pc[q] = "url" => object'[key[q]] = q
      BY <2>1, <3>1, NoPutAssumption DEF IInv, TypeOK
    <3>3. \A q \in Puts, m \in Attempts : request'[q][m] # "redirect"
      BY <3>1 DEF IInv, TypeOK
    <3> QED BY <3>1, <3>2, <3>3
  <2>2. CASE object[key[p]] # NoPut
    <3>1. /\ UNCHANGED <<pc, key, object>>
          /\ request' = [request EXCEPT ![p][n] = "conflict"]
      BY <1>4, <2>2 DEF Serve, Upsert
    <3>2. \A q \in Puts, m \in Attempts : request'[q][m] # "redirect"
      BY <3>1 DEF IInv, TypeOK
    <3> QED BY <3>1, <3>2
  <2> QED BY <2>1, <2>2
<1>5. ASSUME NEW p \in Puts, NEW n \in Attempts, Refuse(p, n) PROVE UrlInv'
  BY <1>5 DEF Refuse, IInv, TypeOK, Attempts
<1>6. CASE UNCHANGED vars
  BY <1>6 DEF vars
<1>7. UNCHANGED vars \/ \E p \in Puts :
        \/ Begin(p) \/ Retry(p) \/ Answered(p)
        \/ TransportError(p) \/ GatewayAnswers(p) \/ Escape(p)
        \/ \E n \in Attempts : Serve(p, n) \/ Refuse(p, n)
  BY DEF Next
<1> HIDE DEF UrlInv, UrlServesOwnPdf
<1> QED BY <1>1, <1>2, <1>3, <1>4, <1>5, <1>6, <1>7

LEMMA UrlInvHolds ==
  ASSUME Redirects = FALSE
  PROVE  Spec => []UrlInv
<1>1. Init => UrlInv
  BY InitEstablishesInv
<1>2. IInv /\ UrlInv /\ [Next]_vars => UrlInv'
  BY NextKeepsUrlInv
<1> QED BY <1>1, <1>2, InvHolds, PTL DEF Spec

-----------------------------------------------------------------------------
\* put_object makes at most two attempts, and every variable keeps its type.
THEOREM TypeCorrect == Spec => []TypeOK
<1>1. IInv => TypeOK
  BY DEF IInv
<1> QED BY <1>1, InvHolds, PTL

\* If nothing redirects, a URL that put_object has returned serves the PDF of
\* its own job from then on.
THEOREM UrlIsFaithful ==
  ASSUME Redirects = FALSE
  PROVE  Spec => []UrlServesOwnPdf
<1>1. UrlInv => UrlServesOwnPdf
  BY DEF UrlInv
<1> QED BY <1>1, UrlInvHolds, PTL

\* For every set of uploads and keys, redirects or not: what an upload without
\* a URL leaves in the service was stored by a request whose own answer did not
\* reach put_object.
THEOREM OrphansComeFromLostAnswers == Spec => []OrphanNeedsLostAnswer
<1>1. ASSUME IInv, NEW p \in Puts, pc[p] \in {"error", "escaped"}, object[key[p]] = p
      PROVE  \E n \in lost[p] : request[p][n] = "created"
  <2>1. PICK n \in Attempts : request[p][n] = "created"
    BY <1>1 DEF IInv, CreatedIsStored
  <2>2. n <= attempt[p]
    BY <1>1, <2>1 DEF IInv, TypeOK, AttemptsInOrder, Attempts
  <2>3. n \in lost[p]
    BY <1>1, <2>1, <2>2 DEF IInv, LossesAreKept
  <2> QED BY <2>1, <2>3
<1>2. IInv => OrphanNeedsLostAnswer
  BY <1>1 DEF OrphanNeedsLostAnswer
<1> QED BY <1>2, InvHolds, PTL

-----------------------------------------------------------------------------
(* StorageUpload implements PutContract.                                   *)

LEMMA InitImplementsInit == Init => Put!Init
BY DEF Init, Put!Init, PutOf, OutcomeOf

\* A step that changes the abstract state of p alone, and only its outcome.
LEMMA OneOutcomeChanges ==
  ASSUME TypeOK, NEW p \in Puts, NEW s, pc' = [pc EXCEPT ![p] = s],
         pc[p] # "idle", s # "idle", UNCHANGED <<key, object>>
  PROVE  /\ UNCHANGED [q \in Puts |-> PutOf(q)]
         /\ [q \in Puts |-> OutcomeOf(q)]' =
              [[q \in Puts |-> OutcomeOf(q)] EXCEPT ![p] = OutcomeOf(p)']
<1>1. \A q \in Puts : q # p => pc'[q] = pc[q]
  BY DEF TypeOK
<1>2. pc'[p] = s
  BY DEF TypeOK
<1>3. \A q \in Puts : PutOf(q)' = PutOf(q)
  BY <1>1, <1>2 DEF PutOf
<1>4. \A q \in Puts : q # p => OutcomeOf(q)' = OutcomeOf(q)
  BY <1>1 DEF OutcomeOf, Active
<1> QED BY <1>3, <1>4

LEMMA NextImplementsNext ==
  ASSUME Redirects = FALSE
  PROVE  IInv /\ UrlInv /\ UrlInv' /\ [Next]_vars => [Put!Next]_(Put!vars)
<1> SUFFICES ASSUME IInv, UrlInv, UrlInv', [Next]_vars
             PROVE  Put!Next \/ UNCHANGED Put!vars
  OBVIOUS
<1> DEFINE Conclusion == Put!Next \/ UNCHANGED Put!vars
<1>0. TypeOK
  BY DEF IInv
<1>1. ASSUME NEW p \in Puts, Begin(p) PROVE Conclusion
  <2>1. /\ \A q \in Puts : q # p => pc'[q] = pc[q]
        /\ pc[p] = "idle" /\ pc'[p] = "sending" /\ object[key[p]] # p
        /\ UNCHANGED <<key, object>>
    BY <1>0, <1>1 DEF Begin, Send, TypeOK, IInv, AttemptsInOrder,
                      CreatedIsStored, Attempts
  <2>2. /\ \A q \in Puts : q # p =>
              PutOf(q)' = PutOf(q) /\ OutcomeOf(q)' = OutcomeOf(q)
        /\ OutcomeOf(p) = "none"
        /\ PutOf(p)' = "sent" /\ OutcomeOf(p)' = "pending"
    BY <2>1 DEF PutOf, OutcomeOf, Active
  <2>3. Put!Send(p)
    BY <2>2 DEF Put!Send
  <2> QED BY <2>3 DEF Put!Next
<1>2. ASSUME NEW p \in Puts, Answered(p) PROVE Conclusion
  <2>1. PICK s \in {"url", "error"} : pc' = [pc EXCEPT ![p] = s]
    BY <1>2 DEF Answered
  <2>2. pc[p] = "sending" /\ pc'[p] = s /\ UNCHANGED <<key, object>>
    BY <1>0, <1>2, <2>1 DEF Answered, TypeOK
  <2>3. OutcomeOf(p) = "pending" /\ OutcomeOf(p)' = s
    BY <2>2 DEF OutcomeOf, Active
  <2>4. s = "url" => PutOf(p) = "stored"
    BY <2>2 DEF UrlInv, UrlServesOwnPdf, PutOf
  <2>5. Put!Return(p) \/ Put!Fail(p)
    BY <1>0, <2>1, <2>2, <2>3, <2>4, OneOutcomeChanges DEF Put!Return, Put!Fail
  <2> QED BY <2>5 DEF Put!Next
<1>3. ASSUME NEW p \in Puts, NEW s \in {"error", "escaped"},
             pc' = [pc EXCEPT ![p] = s], Active(p), UNCHANGED <<key, object>>
      PROVE  Conclusion
  <2>1. pc[p] # "idle" /\ pc'[p] = s
    BY <1>0, <1>3 DEF TypeOK, Active
  <2>2. OutcomeOf(p) = "pending" /\ OutcomeOf(p)' = "error"
    BY <1>3, <2>1 DEF OutcomeOf, Active
  <2>3. Put!Fail(p)
    BY <1>0, <1>3, <2>1, <2>2, OneOutcomeChanges DEF Put!Fail
  <2> QED BY <2>3 DEF Put!Next
<1>4. ASSUME NEW p \in Puts, NEW s \in {"sending", "backoff"},
             pc' = [pc EXCEPT ![p] = s], Active(p), UNCHANGED <<key, object>>
      PROVE  Conclusion
  <2>1. pc[p] # "idle" /\ pc'[p] = s
    BY <1>0, <1>4 DEF TypeOK, Active
  <2>2. OutcomeOf(p) = "pending" /\ OutcomeOf(p)' = "pending"
    BY <1>4, <2>1 DEF OutcomeOf, Active
  <2>3. UNCHANGED Put!vars
    BY <1>0, <1>4, <2>1, <2>2, OneOutcomeChanges DEF Put!vars
  <2> QED BY <2>3
<1>5. ASSUME NEW p \in Puts, TransportError(p) PROVE Conclusion
  <2>1. PICK s \in {"error", "backoff"} : pc' = [pc EXCEPT ![p] = s]
    BY <1>5 DEF TransportError
  <2> QED BY <1>3, <1>4, <1>5, <2>1 DEF TransportError, Active
<1>6. ASSUME NEW p \in Puts, Retry(p) PROVE Conclusion
  BY <1>4, <1>6 DEF Retry, Send, Active
<1>7. ASSUME NEW p \in Puts, GatewayAnswers(p) \/ Escape(p) PROVE Conclusion
  BY <1>3, <1>7 DEF GatewayAnswers, Escape, Active
<1>8. ASSUME NEW p \in Puts, NEW n \in Attempts, Serve(p, n) PROVE Conclusion
  <2>1. CASE object[key[p]] = NoPut
    <3>1. /\ object' = [object EXCEPT ![key[p]] = p] /\ UNCHANGED <<pc, key>>
          /\ object[key[p]] # p /\ object'[key[p]] = p
      BY <1>0, <1>8, <2>1, NoPutAssumption DEF Serve, Upsert, TypeOK
    <3>2. \A q \in Puts : q # p => (object'[key[q]] = q <=> object[key[q]] = q)
      BY <1>0, <2>1, <3>1, NoPutAssumption DEF TypeOK
    <3>3. pc[p] # "idle" /\ pc[p] # "url"
      BY <1>8, <3>1 DEF Serve, IInv, AttemptsInOrder, UrlInv, UrlServesOwnPdf, Attempts
    <3>4. /\ \A q \in Puts : q # p => PutOf(q)' = PutOf(q)
          /\ \A q \in Puts : OutcomeOf(q)' = OutcomeOf(q)
          /\ PutOf(p) = "sent" /\ PutOf(p)' = "stored" /\ OutcomeOf(p) # "url"
      BY <3>1, <3>2, <3>3 DEF PutOf, OutcomeOf, Active
    <3>5. Put!Store(p)
      BY <3>4 DEF Put!Store
    <3> QED BY <3>5 DEF Put!Next
  <2>2. CASE object[key[p]] # NoPut
    BY <1>8, <2>2 DEF Serve, Upsert, Put!vars, PutOf, OutcomeOf, Active
  <2> QED BY <2>1, <2>2
<1>9. ASSUME NEW p \in Puts, NEW n \in Attempts, Refuse(p, n) PROVE Conclusion
  BY <1>9 DEF Refuse, Put!vars, PutOf, OutcomeOf, Active
<1>10. CASE UNCHANGED vars
  BY <1>10 DEF vars, Put!vars, PutOf, OutcomeOf, Active
<1> QED BY <1>1, <1>2, <1>5, <1>6, <1>7, <1>8, <1>9, <1>10 DEF Next

\* If nothing redirects, put_object is an upload as run_job needs it: a URL
\* means a stored PDF, and whatever else happens is an error that may have
\* stored it.
THEOREM UploadImplementsContract ==
  ASSUME Redirects = FALSE
  PROVE  Spec => ImplementsPut
<1>1. Spec => []IInv
  BY InvHolds
<1>2. Spec => []UrlInv
  BY UrlInvHolds
<1>3. IInv /\ UrlInv /\ UrlInv' /\ [Next]_vars => [Put!Next]_(Put!vars)
  BY NextImplementsNext
<1> QED BY <1>1, <1>2, <1>3, InitImplementsInit, PTL
        DEF Spec, ImplementsPut, Put!Spec

-----------------------------------------------------------------------------
(* What the retry and the redirects come to.                               *)

\* The service never takes two of the requests of one upload.
StoredOnce ==
  \A p \in Puts : ~(request[p][1] = "created" /\ request[p][2] = "created")

\* The retry of an upload that was stored although its answer was lost stores
\* nothing a second time, in whatever order the two requests arrive.
THEOREM RetryStoresOnce == Spec => []StoredOnce
<1>1. Init => StoredOnce
  <2> SUFFICES ASSUME Init, NEW p \in Puts PROVE request[p][1] # "created"
    BY DEF StoredOnce
  <2>1. request[p] = [n \in Attempts |-> "none"] /\ 1 \in Attempts
    BY DEF Init, Attempts
  <2> QED BY <2>1
<1>2. ASSUME IInv, StoredOnce, [Next]_vars PROVE StoredOnce'
  <2> USE DEF StoredOnce, IInv, TypeOK, Attempts
  <2>1. ASSUME NEW p \in Puts, Begin(p) \/ Retry(p) PROVE StoredOnce'
    <3>1. PICK n : request' = [request EXCEPT ![p][n] = "flying"]
      BY <2>1 DEF Begin, Retry, Send
    <3>2. \A q \in Puts, m \in Attempts :
            request'[q][m] = "created" => request[q][m] = "created"
      BY <1>2, <3>1
    <3> QED BY <1>2, <3>2
  <2>2. ASSUME NEW p \in Puts, \/ Answered(p) \/ TransportError(p)
                              \/ GatewayAnswers(p) \/ Escape(p)
        PROVE  StoredOnce'
    <3>1. UNCHANGED request
      BY <2>2 DEF Answered, TransportError, GatewayAnswers, Escape
    <3>2. StoredOnce
      BY <1>2
    <3> QED BY <3>1, <3>2
  <2>3. ASSUME NEW p \in Puts, NEW n \in Attempts, Serve(p, n) PROVE StoredOnce'
    <3>1. CASE object[key[p]] = NoPut
      <4>1. \A m \in Attempts : request[p][m] # "created"
        BY <1>2, <3>1, NoPutAssumption DEF CreatedIsStored
      <4> QED BY <1>2, <2>3, <3>1, <4>1 DEF Serve
    <3>2. CASE object[key[p]] # NoPut
      BY <1>2, <2>3, <3>2 DEF Serve, Upsert
    <3> QED BY <3>1, <3>2
  <2>4. ASSUME NEW p \in Puts, NEW n \in Attempts, Refuse(p, n) PROVE StoredOnce'
    BY <1>2, <2>4 DEF Refuse
  <2>5. CASE UNCHANGED vars
    BY <1>2, <2>5 DEF vars
  <2> QED BY <1>2, <2>1, <2>2, <2>3, <2>4, <2>5 DEF Next
<1> QED BY <1>1, <1>2, InvHolds, PTL DEF Spec

\* Two jobs never announce one URL, even if a clock that was set back drew the
\* same key for both: the one that comes second gets an error.
UrlsAreDistinct ==
  \A p, q \in Puts :
    pc[p] = "url" /\ pc[q] = "url" /\ key[p] = key[q] => p = q

\* If nothing redirects, each URL that put_object has returned is one job's.
THEOREM UrlBelongsToOneJob ==
  ASSUME Redirects = FALSE
  PROVE  Spec => []UrlsAreDistinct
<1>1. UrlServesOwnPdf => UrlsAreDistinct
  BY DEF UrlServesOwnPdf, UrlsAreDistinct
<1>2. UrlInv => UrlServesOwnPdf
  BY DEF UrlInv
<1> QED BY <1>1, <1>2, UrlInvHolds, PTL

\* Redirects are the one reason why put_object can return a URL without a 2xx:
\* if nothing redirects, the docstring's promise is kept.
THEOREM OnlyRedirectsPass ==
  ASSUME Redirects = FALSE
  PROVE  Spec => []NonSuccessRaises
<1> DEFINE Sent == \A p \in Puts : pc[p] = "url" => attempt[p] \in Attempts
           Raises == Sent /\ NonSuccessRaises
<1>1. Init => Raises
  BY DEF Init, NonSuccessRaises
<1>2. ASSUME IInv, UrlInv, Raises, [Next]_vars PROVE Raises'
  <2> USE DEF NonSuccessRaises, IInv, TypeOK, Attempts
  <2>1. ASSUME NEW p \in Puts, Begin(p) \/ Retry(p) PROVE Raises'
    <3>1. /\ pc'[p] = "sending"
          /\ \A q \in Puts : q # p => /\ pc'[q] = pc[q] /\ attempt'[q] = attempt[q]
                                      /\ request'[q] = request[q]
      BY <1>2, <2>1 DEF Begin, Retry, Send
    <3> QED BY <1>2, <3>1
  <2>2. ASSUME NEW p \in Puts, Answered(p) PROVE Raises'
    <3>1. /\ attempt[p] \in Attempts /\ request[p][attempt[p]] # "redirect"
          /\ \A q \in Puts : q # p => pc'[q] = pc[q]
          /\ pc'[p] = "url" => request[p][attempt[p]] = "created"
          /\ UNCHANGED <<attempt, request>>
      BY <1>2, <2>2 DEF Answered, Accepted, UrlInv, AttemptsInOrder
    <3> QED BY <1>2, <3>1
  <2>3. ASSUME NEW p \in Puts, TransportError(p) \/ GatewayAnswers(p) \/ Escape(p)
        PROVE  Raises'
    BY <1>2, <2>3 DEF TransportError, GatewayAnswers, Escape
  <2>4. ASSUME NEW p \in Puts, NEW n \in Attempts, Serve(p, n) \/ Refuse(p, n)
        PROVE  Raises'
    <3>1. /\ request[p][n] = "flying" /\ UNCHANGED <<pc, attempt>>
          /\ \A q \in Puts, m \in Attempts :
               q # p \/ m # n => request'[q][m] = request[q][m]
      BY <1>2, <2>4 DEF Serve, Refuse
    <3> QED BY <1>2, <3>1
  <2>5. CASE UNCHANGED vars
    BY <1>2, <2>5 DEF vars
  <2> QED BY <1>2, <2>1, <2>2, <2>3, <2>4, <2>5 DEF Next
<1> QED BY <1>1, <1>2, InvHolds, UrlInvHolds, PTL DEF Spec

=============================================================================
