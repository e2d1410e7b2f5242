--------------------------- MODULE StorageUpload ---------------------------
(***************************************************************************)
(* put_object: the PUT of the finished PDF to the storage service, with    *)
(* its one retry, over a network that loses and delays requests and        *)
(* answers.  Jobs upload one after the other (one consumer), but a request *)
(* the worker has given up on may reach the service much later.            *)
(*                                                                         *)
(* The key is the millisecond of the wall clock under the book's prefix.   *)
(* A clock that is set back can draw a key again, so any key may be drawn. *)
(***************************************************************************)
EXTENDS Naturals

CONSTANTS
  Puts,        \* the uploads, named by the job whose PDF they carry
  Keys,        \* the object keys the clock may draw
  NoPut,       \* no object under a key
  Redirects    \* may something before the service answer with a redirect?

ASSUME NoPutAssumption == NoPut \notin Puts
ASSUME RedirectsAssumption == Redirects \in BOOLEAN

VARIABLES
  pc,          \* "idle", "sending", "backoff"; "url", "error" or "escaped"
  key,         \* the key of the upload
  attempt,     \* attempts made: 1, then 2
  request,     \* request[p][n]: the n-th request of p, or its answer
  object,      \* external: object[k] is the upload whose PDF is under k
  lost         \* history: the attempts of p whose own answer it never heard

vars == <<pc, key, attempt, request, object, lost>>

Attempts == {1, 2}

UpsertTrue == TRUE                                              \* mutant

\* params={"upsert": "false"}
Upsert == FALSE

Active(p) == pc[p] \in {"sending", "backoff"}

Init ==
  /\ pc = [p \in Puts |-> "idle"]
  /\ key \in [Puts -> Keys]
  /\ attempt = [p \in Puts |-> 0]
  /\ request = [p \in Puts |-> [n \in Attempts |-> "none"]]
  /\ object = [k \in Keys |-> NoPut]
  /\ lost = [p \in Puts |-> {}]

-----------------------------------------------------------------------------
(* put_object.                                                             *)

Send(p, n) ==
  /\ pc' = [pc EXCEPT ![p] = "sending"]
  /\ attempt' = [attempt EXCEPT ![p] = n]
  /\ request' = [request EXCEPT ![p][n] = "flying"]

Begin(p) ==
  /\ pc[p] = "idle" /\ \A q \in Puts : ~Active(q)
  /\ Send(p, 1)
  /\ UNCHANGED <<key, object, lost>>

AcceptedIf200(code) == code = "redirect"                        \* mutant

\* resp.status_code < 400
Accepted(code) == code \in {"created", "redirect"}

Answers == {"created", "conflict", "error", "redirect"}

\* The answer of the current attempt arrives.
Answered(p) ==
  /\ pc[p] = "sending" /\ request[p][attempt[p]] \in Answers
  /\ pc' = [pc EXCEPT ![p] =
       IF Accepted(request[p][attempt[p]]) THEN "url" ELSE "error"]
  /\ UNCHANGED <<key, attempt, request, object, lost>>

\* The await of the current attempt ends without the answer of the service.
Unheard(p) == lost' = [lost EXCEPT ![p] = @ \cup {attempt[p]}]

TransportErrorTrusted(p) ==                                     \* mutant
  /\ pc[p] = "sending"
  /\ pc' = [pc EXCEPT ![p] = IF attempt[p] = 1 THEN "backoff" ELSE "url"]
  /\ Unheard(p)
  /\ UNCHANGED <<key, attempt, request, object>>

TransportErrorAlwaysRetried(p) ==                               \* mutant
  /\ pc[p] = "sending"
  /\ pc' = [pc EXCEPT ![p] = "backoff"]
  /\ Unheard(p)
  /\ UNCHANGED <<key, attempt, request, object>>

\* No connection, a timeout, a connection that breaks: at any time, and
\* whatever has become of the request.
TransportError(p) ==
  /\ pc[p] = "sending"
  /\ pc' = [pc EXCEPT ![p] = IF attempt[p] = 1 THEN "backoff" ELSE "error"]
  /\ Unheard(p)
  /\ UNCHANGED <<key, attempt, request, object>>

Retry(p) ==
  /\ pc[p] = "backoff"
  /\ Send(p, attempt[p] + 1)
  /\ UNCHANGED <<key, object, lost>>

\* Something before the service answers 5xx in its place: at any time, and
\* whatever has become of the request, which may be served before or after.
GatewayAnswers(p) ==
  /\ pc[p] = "sending"
  /\ pc' = [pc EXCEPT ![p] = "error"]
  /\ Unheard(p)
  /\ UNCHANGED <<key, attempt, request, object>>

\* The wall clock or the shutdown cancels the await, or httpx raises an error
\* that is no TransportError.
Escape(p) ==
  /\ Active(p)
  /\ pc' = [pc EXCEPT ![p] = "escaped"]
  /\ Unheard(p)
  /\ UNCHANGED <<key, attempt, request, object>>

-----------------------------------------------------------------------------
(* The storage service, external: without upsert it replaces no object.    *)

Serve(p, n) ==
  /\ request[p][n] = "flying"
  /\ IF object[key[p]] = NoPut \/ Upsert
       THEN /\ object' = [object EXCEPT ![key[p]] = p]
            /\ request' = [request EXCEPT ![p][n] = "created"]
       ELSE /\ request' = [request EXCEPT ![p][n] = "conflict"]
            /\ UNCHANGED object
  /\ UNCHANGED <<pc, key, attempt, lost>>

\* The service refuses the request and stores nothing, or a proxy redirects it.
Refuse(p, n) ==
  /\ request[p][n] = "flying"
  /\ \E code \in {"error", "redirect"} :
       /\ code = "redirect" => Redirects
       /\ request' = [request EXCEPT ![p][n] = code]
  /\ UNCHANGED <<pc, key, attempt, object, lost>>

-----------------------------------------------------------------------------
Next == \E p \in Puts :
  \/ Begin(p) \/ Retry(p)
  \/ Answered(p) \/ TransportError(p) \/ GatewayAnswers(p) \/ Escape(p)
  \/ \E n \in Attempts : Serve(p, n) \/ Refuse(p, n)

Spec == Init /\ [][Next]_vars

-----------------------------------------------------------------------------
\* Type invariant; it holds the two attempts of put_object's loop.
TypeOK ==
  /\ pc \in [Puts -> {"idle", "sending", "backoff", "url", "error", "escaped"}]
  /\ key \in [Puts -> Keys]
  /\ attempt \in [Puts -> 0..2]
  /\ request \in [Puts -> [Attempts -> {"none", "flying"} \cup Answers]]
  /\ object \in [Keys -> Puts \cup {NoPut}]
  /\ lost \in [Puts -> SUBSET Attempts]

\* The URL an upload returned serves that job's PDF and, as this is an
\* invariant, goes on serving it: neither a late request of an earlier job nor
\* a later job that draws the same key replaces it.
UrlServesOwnPdf == \A p \in Puts : pc[p] = "url" => object[key[p]] = p

\* An upload that ended without a URL has its PDF in the service only because
\* of a request whose own answer it never heard: lost on the way, replaced by
\* something in between, or not awaited any more.  An answer of the service
\* that was heard never leaves an orphan by itself: a retry that is refused as
\* a duplicate leaves what the first request made.
OrphanNeedsLostAnswer ==
  \A p \in Puts : pc[p] \in {"error", "escaped"} /\ object[key[p]] = p =>
    \E n \in lost[p] : request[p][n] = "created"

\* put_object's docstring: "Raises `StorageUploadError` on a non-2xx response".
NonSuccessRaises ==
  \A p \in Puts : pc[p] = "url" => request[p][attempt[p]] = "created"

-----------------------------------------------------------------------------
(* put_object gives run_job the contract it is written against.            *)

PutOf(p) ==
  IF pc[p] = "idle" THEN "none"
  ELSE IF object[key[p]] = p THEN "stored" ELSE "sent"

OutcomeOf(p) ==
  IF pc[p] = "idle" THEN "none"
  ELSE IF Active(p) THEN "pending"
  ELSE IF pc[p] = "url" THEN "url" ELSE "error"

Put == INSTANCE PutContract WITH
  put     <- [p \in Puts |-> PutOf(p)],
  outcome <- [p \in Puts |-> OutcomeOf(p)]

\* Whatever the network does, an upload behaves as PutContract says.
ImplementsPut == Put!Spec

=============================================================================
