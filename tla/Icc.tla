-------------------------------- MODULE Icc --------------------------------
(***************************************************************************)
(* Which ICC profile a job gets: resolve_icc's chain, the streamed fetch   *)
(* of a customer's profile from a server that may answer anything, and the *)
(* bundled registry with its byte cache over files that deploys change.    *)
(* GET /healthz loads the default profile through the same cache.          *)
(*                                                                         *)
(* Only the fetch suspends.  Jobs come one after the other; a length is a  *)
(* number of decoded bytes.  What is in a profile file is its version;     *)
(* "empty" is a file of no bytes, as a copy in progress leaves it.         *)
(***************************************************************************)
EXTENDS Integers

CONSTANTS
  Ids,          \* profile ids a request can name
  Bundled,      \* BUNDLED_PROFILES
  Default,      \* settings.default_icc_profile_id
  Versions,     \* contents of a profile file
  MaxBytes,     \* _ICC_FETCH_MAX_BYTES
  MaxBody       \* bound on the lengths a server declares or sends

ASSUME IdsAssumption == Bundled \subseteq Ids /\ Default \in Ids
ASSUME BytesAssumption == MaxBytes \in Nat \ {0} /\ MaxBody \in Nat
ASSUME VersionsAssumption == Versions \cap {"absent", "none"} = {}

VARIABLES
  disk,       \* the profile files: "absent" or a version
  cache,      \* _BYTES_CACHE: "none" or a version
  job,        \* the request of the current job
  at,         \* resolve_icc: "idle", "connecting", "streaming" or "over"
  answer,     \* what the server answers
  total,      \* bytes received so far
  outcome,    \* what resolve_icc returned or raised
  healthy,    \* history: /healthz has said icc_default_ok in this process
  served      \* history: the versions of each profile used in this process

process == <<cache, healthy, served>>
fetch   == <<answer, total>>
vars    == <<disk, process, job, at, fetch, outcome>>

Files == Versions \cup {"empty"}

NoId == "none"
NoUrl == [listed |-> FALSE, addresses |-> {"none"}]

\* The request's model has made sure of a scheme and a host.  A listed host is
\* one of _BLOCKED_HOSTNAMES; a host without addresses does not resolve.
Urls == [listed : BOOLEAN, addresses : SUBSET {"public", "private"}]
Jobs == [color : {"rgb", "cmyk"}, url : Urls \cup {NoUrl}, id : Ids \cup {NoId}]
NoJob == [color |-> "rgb", url |-> NoUrl, id |-> NoId]

NoLength == -1

\* What answers the connection, which resolves the name once more; "whole" if
\* the body arrives to its end.
Answers == [peer : {"public", "private"}, status : {"ok", "redirect", "error"},
            declared : (0..MaxBody) \cup {NoLength}, body : 0..MaxBody,
            end : {"whole", "broken"}]
NoAnswer == [peer |-> "public", status |-> "error", declared |-> NoLength,
             body |-> 0, end |-> "broken"]

\* An IccResolution, or why there is none.
Resolution(source, id, bytes) ==
  [refused |-> "no", source |-> source, id |-> id, bytes |-> bytes]
Refused(why) == [refused |-> why, source |-> "none", id |-> NoId, bytes |-> "none"]
Pending == Refused("pending")

Init ==
  /\ disk \in [Bundled -> Files \cup {"absent"}]
  /\ cache = [p \in Bundled |-> "none"]
  /\ healthy = FALSE /\ served = [p \in Bundled |-> {}]
  /\ job = NoJob /\ at = "idle"
  /\ answer = NoAnswer /\ total = 0
  /\ outcome = Pending

-----------------------------------------------------------------------------
(* The bundled registry.                                                   *)

LoadUncached(p) ==                                              \* mutant
  [bytes |-> disk[p], cache |-> cache]

LoadRemembersAbsence(p) ==                                      \* mutant
  LET bytes == IF cache[p] # "none" THEN cache[p] ELSE disk[p] IN
  [bytes |-> bytes, cache |-> [cache EXCEPT ![p] = bytes]]

\* load_bundled_icc: the bytes, "absent" if it raises, and the new cache.
Load(p) ==
  LET bytes == IF cache[p] # "none" THEN cache[p] ELSE disk[p] IN
  [bytes |-> bytes,
   cache |-> IF bytes = "absent" THEN cache ELSE [cache EXCEPT ![p] = bytes]]

\* The bundled profile of the request, or the default one.
Named == IF job'.id # NoId THEN job'.id ELSE Default

FromRegistry ==
  /\ at' = "over" /\ UNCHANGED <<answer, total>>
  /\ IF Named \in Bundled
       THEN LET loaded == Load(Named) IN
            /\ cache' = loaded.cache
            /\ outcome' = IF loaded.bytes = "absent" THEN Refused("unavailable")
                 ELSE Resolution(IF job'.id # NoId THEN "bundled" ELSE "default",
                                 Named, loaded.bytes)
            /\ served' = IF loaded.bytes = "absent" THEN served
                 ELSE [served EXCEPT ![Named] = @ \cup {loaded.bytes}]
       ELSE outcome' = Refused("unknown") /\ UNCHANGED <<cache, served>>
  /\ UNCHANGED healthy

\* _icc_default_ok.
Healthz ==
  /\ IF Default \in Bundled
       THEN /\ cache' = Load(Default).cache
            /\ healthy' = (healthy \/ Load(Default).bytes # "absent")
       ELSE UNCHANGED <<cache, healthy>>
  /\ UNCHANGED <<disk, served, job, at, fetch, outcome>>

-----------------------------------------------------------------------------
(* A customer's profile.                                                   *)

\* _is_blocked_ip
BlockedAddress(a) == a = "private"

\* validate_public_url
PublicUrl(url) ==
  /\ ~url.listed
  /\ url.addresses # {} /\ \A a \in url.addresses : ~BlockedAddress(a)

FromCustomer ==
  /\ IF PublicUrl(job'.url)
       THEN at' = "connecting" /\ outcome' = Pending
       ELSE at' = "over" /\ outcome' = Refused("blocked")
  /\ answer' = NoAnswer /\ total' = 0
  /\ UNCHANGED process

\* The next job's resolve_icc begins.
ResolveIcc ==
  /\ at \in {"idle", "over"}
  /\ job' \in Jobs
  /\ IF job'.color # "cmyk"
       THEN /\ at' = "over" /\ outcome' = Resolution("none", NoId, "none")
            /\ UNCHANGED <<process, fetch>>
       ELSE IF job'.url # NoUrl THEN FromCustomer ELSE FromRegistry
  /\ UNCHANGED disk

Raise(why) ==
  at' = "over" /\ outcome' = Refused(why) /\ UNCHANGED <<disk, process, job, answer>>

\* The head of the answer: no redirect, a good status, a length within limits.
\* The address it comes from is not looked at.
Headers ==
  /\ at = "connecting"
  /\ answer' \in Answers /\ UNCHANGED total
  /\ IF answer'.status # "ok" \/ answer'.declared > MaxBytes
       THEN at' = "over" /\ outcome' = Refused("answer")
       ELSE at' = "streaming" /\ UNCHANGED outcome
  /\ UNCHANGED <<disk, process, job>>

\* A chunk of the body; its length is tested before it is kept.
Chunk ==
  /\ at = "streaming" /\ total < answer.body
  /\ total' \in (total + 1)..answer.body
  /\ IF total' > MaxBytes
       THEN Raise("too large")
       ELSE UNCHANGED <<disk, process, job, at, answer, outcome>>

EndOfBodyUntested ==                                            \* mutant
  /\ at = "streaming" /\ total = answer.body /\ answer.end = "whole"
  /\ at' = "over" /\ outcome' = Resolution("customer", NoId,
                                  IF total = 0 THEN "empty" ELSE "customer")
  /\ UNCHANGED <<disk, process, job, fetch>>

EndOfBodyAtLimit ==                                             \* mutant
  /\ at = "streaming" /\ total = answer.body /\ answer.end = "whole"
  /\ UNCHANGED total
  /\ IF total = 0 \/ total >= MaxBytes
       THEN Raise("empty")
       ELSE /\ at' = "over" /\ outcome' = Resolution("customer", NoId, "customer")
            /\ UNCHANGED <<disk, process, job, answer>>

EndOfBody ==
  /\ at = "streaming" /\ total = answer.body /\ answer.end = "whole"
  /\ UNCHANGED total
  /\ IF total = 0
       THEN Raise("empty")
       ELSE /\ at' = "over" /\ outcome' = Resolution("customer", NoId, "customer")
            /\ UNCHANGED <<disk, process, job, answer>>

\* No connection, no head in time or one that declares no number for a length;
\* later on, a body that breaks off.
FetchFails ==
  /\ at = "connecting" \/ (at = "streaming" /\ answer.end = "broken")
  /\ UNCHANGED total
  /\ Raise("broken")

\* run_job is cancelled in the fetch.
Cancelled ==
  /\ at \in {"connecting", "streaming"}
  /\ at' = "idle" /\ outcome' = Pending
  /\ UNCHANGED <<disk, process, job, fetch>>

-----------------------------------------------------------------------------
\* A deploy adds, replaces or removes a profile file under a running worker.
Deploy ==
  /\ \E p \in Bundled, file \in Files \cup {"absent"} :
       disk' = [disk EXCEPT ![p] = file]
  /\ UNCHANGED <<process, job, at, fetch, outcome>>

Restart ==
  /\ cache' = [p \in Bundled |-> "none"]
  /\ healthy' = FALSE /\ served' = [p \in Bundled |-> {}]
  /\ at' = "idle" /\ outcome' = Pending /\ job' = NoJob
  /\ answer' = NoAnswer /\ total' = 0
  /\ UNCHANGED disk

Next ==
  \/ ResolveIcc \/ Headers \/ Chunk \/ EndOfBody \/ FetchFails \/ Cancelled
  \/ Healthz
  \/ Deploy \/ Restart

Spec == Init /\ [][Next]_vars

-----------------------------------------------------------------------------
\* run_job: "cmyk" if the resolved profile has any bytes, else "rgb".
EffectiveColor == IF outcome.bytes \in {"none", "empty"} THEN "rgb" ELSE "cmyk"

TypeOK ==
  /\ disk \in [Bundled -> Files \cup {"absent"}]
  /\ cache \in [Bundled -> Files \cup {"none"}]
  /\ healthy \in BOOLEAN /\ served \in [Bundled -> SUBSET Files]
  /\ job \in Jobs
  /\ at \in {"idle", "connecting", "streaming", "over"}
  /\ answer \in Answers /\ total \in 0..MaxBody
  /\ at = "streaming" => total <= MaxBytes
  /\ outcome.source \in {"none", "customer", "bundled", "default"}
  /\ outcome.id \in Ids \cup {NoId}
  /\ outcome.bytes \in Files \cup {"none", "customer"}

\* What a customer's server may send for its profile to be used: one direct,
\* complete answer of at least one and at most MaxBytes bytes.
Usable(a) ==
  /\ a.status = "ok" /\ a.end = "whole" /\ a.body \in 1..MaxBytes
  /\ a.declared <= MaxBytes

\* At the check, no address of the host is one the guard forbids.
PublicWhenChecked(url) ==
  /\ ~url.listed /\ "public" \in url.addresses /\ "private" \notin url.addresses

\* The fetch refuses as blocked exactly the hosts that are not public when they
\* are checked, and of the others it accepts exactly the usable answers, whole,
\* however they are cut into chunks and even if they declare another length.
\* The address that answers later has no part in it.
FetchIsExact ==
  at = "over" /\ job.color = "cmyk" /\ job.url # NoUrl =>
    /\ outcome.refused = "blocked" <=> ~PublicWhenChecked(job.url)
    /\ outcome.refused = "no" <=> PublicWhenChecked(job.url) /\ Usable(answer)
    /\ outcome.refused = "no" =>
         outcome.source = "customer" /\ total = answer.body

\* Only an empty file in the bundle makes an accepted CMYK job an RGB one: an
\* empty profile of a customer never does.
OnlyEmptyFileDropsColor ==
  at = "over" /\ outcome.refused = "no" /\ EffectiveColor # job.color =>
    /\ job.color = "cmyk" /\ job.url = NoUrl
    /\ "empty" \in served[outcome.id]

\* All jobs of one process that use a bundled profile use the same bytes, even
\* if a deploy replaces the file between them.
OneVersionPerProcess == \A p \in Bundled : \A a, b \in served[p] : a = b

\* The job that resolves the default profile in this step.
ResolvesDefault ==
  ResolveIcc /\ job'.color = "cmyk" /\ job'.url = NoUrl /\ Named = Default

\* Once /healthz has found the default profile, no job of this process is
\* refused for want of it, even if the file disappears.
HealthyIsServed ==
  [][healthy /\ ResolvesDefault => outcome'.refused = "no"]_vars

\* A missing file is not remembered: a job is refused for want of a file only
\* if the file is missing when it asks, whatever was asked before the deploy.
AbsenceIsNotRemembered ==
  [][ResolveIcc /\ outcome'.refused = "unavailable"
       => disk[Named] = "absent"]_vars

=============================================================================
