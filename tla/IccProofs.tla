------------------------------ MODULE IccProofs ------------------------------
(***************************************************************************)
(* Icc's properties for every registry, every set of file versions and     *)
(* every size limit.                                                       *)
(***************************************************************************)
EXTENDS Icc, TLAPS

\* A fetch in progress is that of a public host, and so far within the limits.
FetchInProgress ==
  /\ at \in {"connecting", "streaming"} =>
       /\ job.color = "cmyk" /\ job.url # NoUrl /\ PublicWhenChecked(job.url)
       /\ outcome = Pending
  /\ at = "connecting" => total = 0 /\ answer = NoAnswer
  /\ at = "streaming" =>
       /\ answer.status = "ok" /\ answer.declared <= MaxBytes
       /\ total <= answer.body /\ total <= MaxBytes

\* Whoever used a profile in this process left it in the cache.
CacheRemembers ==
  /\ \A p \in Bundled : served[p] \subseteq {cache[p]}
  /\ healthy => Default \in Bundled /\ cache[Default] # "none"

IInv == TypeOK /\ FetchInProgress /\ CacheRemembers
        /\ FetchIsExact /\ OnlyEmptyFileDropsColor

\* What Load returns is in the cache it leaves; it keeps what was there; and it
\* finds nothing only if neither the cache nor the disk has the file.
LEMMA LoadRemembers ==
  ASSUME TypeOK, NEW p \in Bundled
  PROVE  /\ Load(p).cache \in [Bundled -> Files \cup {"none"}]
         /\ Load(p).bytes \in Files \cup {"absent"}
         /\ Load(p).bytes # "absent" =>
              Load(p).cache[p] = Load(p).bytes /\ Load(p).cache[p] # "none"
         /\ \A q \in Bundled : cache[q] # "none" => Load(p).cache[q] = cache[q]
         /\ Load(p).bytes = "absent" =>
              /\ Load(p).cache = cache
              /\ cache[p] = "none" /\ disk[p] = "absent"
<1> QED
  BY VersionsAssumption DEF TypeOK, Load, Files

LEMMA Nothing == NoJob \in Jobs /\ NoAnswer \in Answers
<1>1. NoJob \in Jobs
  BY DEF NoJob, Jobs
<1>2. NoAnswer.declared \in (0..MaxBody) \cup {NoLength} /\ NoAnswer.body \in 0..MaxBody
  BY BytesAssumption DEF NoAnswer
<1>3. NoAnswer \in Answers
  BY <1>2 DEF NoAnswer, Answers
<1> QED
  BY <1>1, <1>3

LEMMA InitInv == Init => IInv
<1> SUFFICES ASSUME Init PROVE IInv
  OBVIOUS
<1>1. TypeOK
  <2>1. disk \in [Bundled -> Files \cup {"absent"}] /\ cache \in [Bundled -> Files \cup {"none"}]
    BY DEF Init
  <2>2. healthy \in BOOLEAN /\ served \in [Bundled -> SUBSET Files]
    BY DEF Init
  <2>3. job \in Jobs /\ answer \in Answers /\ total \in 0..MaxBody
    BY Nothing, BytesAssumption DEF Init
  <2>4. /\ outcome.source = "none" /\ outcome.id = NoId /\ outcome.bytes = "none"
        /\ at = "idle"
    BY DEF Init, Pending, Refused
  <2> QED
    BY <2>1, <2>2, <2>3, <2>4 DEF TypeOK
<1>2. FetchInProgress /\ CacheRemembers /\ FetchIsExact /\ OnlyEmptyFileDropsColor
  BY DEF Init, FetchInProgress, CacheRemembers, FetchIsExact, OnlyEmptyFileDropsColor
<1> QED
  BY <1>1, <1>2 DEF IInv

\* A job that names a bundled profile, or none.
LEMMA RegistryInv ==
  ASSUME IInv, job' \in Jobs, job'.color = "cmyk", job'.url = NoUrl,
         FromRegistry, UNCHANGED disk
  PROVE  IInv'
<1> USE DEF FromRegistry
<1> DEFINE p == Named
<1>0. p \in Ids /\ (job'.id # NoId => p = job'.id)
  BY IdsAssumption DEF Named, Jobs
<1>1. CASE p \in Bundled /\ Load(p).bytes # "absent"
  <2> DEFINE b == Load(p).bytes
  <2>1. /\ cache' = Load(p).cache
        /\ served' = [served EXCEPT ![p] = @ \cup {b}]
        /\ \E src \in {"bundled", "default"} : outcome' = Resolution(src, p, b)
        /\ at' = "over" /\ UNCHANGED <<healthy, answer, total>>
    BY <1>1
  <2>2. /\ b \in Files /\ b \notin {"none", "absent"}
        /\ cache'[p] = b
        /\ cache' \in [Bundled -> Files \cup {"none"}]
        /\ \A q \in Bundled : cache[q] # "none" => cache'[q] = cache[q]
    BY <1>1, <2>1, LoadRemembers DEF IInv
  <2>3. /\ served' \in [Bundled -> SUBSET Files]
        /\ served'[p] = served[p] \cup {b}
        /\ \A q \in Bundled \ {p} : served'[q] = served[q]
    BY <1>1, <2>1, <2>2 DEF IInv, TypeOK
  <2>4. TypeOK'
    BY <1>0, <2>1, <2>2, <2>3 DEF IInv, TypeOK, Resolution
  <2>5. CacheRemembers'
    <3>1. ASSUME NEW q \in Bundled PROVE served'[q] \subseteq {cache'[q]}
      <4>1. served[q] \subseteq {cache[q]} /\ served[q] \subseteq Files
        BY DEF IInv, CacheRemembers, TypeOK
      <4>2. "none" \notin Files
        BY VersionsAssumption DEF Files
      <4> QED
        BY <4>1, <4>2, <2>2, <2>3
    <3>2. healthy' => Default \in Bundled /\ cache'[Default] # "none"
      BY <2>1, <2>2 DEF IInv, CacheRemembers
    <3> QED
      BY <3>1, <3>2 DEF CacheRemembers
  <2>6. FetchInProgress' /\ FetchIsExact'
    BY <2>1 DEF FetchInProgress, FetchIsExact
  <2>7. OnlyEmptyFileDropsColor'
    BY <2>1, <2>2, <2>3 DEF OnlyEmptyFileDropsColor, EffectiveColor, Resolution
  <2> QED
    BY <2>4, <2>5, <2>6, <2>7 DEF IInv
<1>2. CASE p \in Bundled /\ Load(p).bytes = "absent"
  <2>1. /\ cache' = cache /\ outcome' = Refused("unavailable")
        /\ at' = "over" /\ UNCHANGED <<healthy, served, answer, total>>
    BY <1>2, LoadRemembers DEF IInv
  <2> QED
    BY <2>1 DEF IInv, TypeOK, FetchInProgress, CacheRemembers, FetchIsExact,
                OnlyEmptyFileDropsColor, Refused
<1>3. CASE p \notin Bundled
  BY <1>3 DEF IInv, TypeOK, FetchInProgress, CacheRemembers, FetchIsExact,
              OnlyEmptyFileDropsColor, Refused
<1> QED
  BY <1>1, <1>2, <1>3

\* What the guard lets pass.
LEMMA GuardIsExact ==
  ASSUME NEW url \in Urls \cup {NoUrl}, url # NoUrl
  PROVE  PublicUrl(url) <=> PublicWhenChecked(url)
<1>1. url.addresses \subseteq {"public", "private"}
  BY DEF Urls
<1> QED
  BY <1>1 DEF PublicUrl, PublicWhenChecked, BlockedAddress

LEMMA ResolveInv == IInv /\ ResolveIcc => IInv'
<1> SUFFICES ASSUME IInv, ResolveIcc PROVE IInv'
  OBVIOUS
<1>0. job' \in Jobs /\ UNCHANGED disk /\ job'.color \in {"rgb", "cmyk"}
  BY DEF ResolveIcc, Jobs
<1>1. CASE job'.color = "rgb"
  BY <1>0, <1>1
     DEF ResolveIcc, process, fetch, IInv, TypeOK, FetchInProgress, CacheRemembers,
         FetchIsExact, OnlyEmptyFileDropsColor, EffectiveColor, Resolution
<1>2. CASE job'.color = "cmyk" /\ job'.url # NoUrl
  <2>1. FromCustomer
    BY <1>2 DEF ResolveIcc
  <2>2. TypeOK'
    BY <1>0, <2>1, BytesAssumption, Nothing
       DEF FromCustomer, process, IInv, TypeOK, Refused, Pending
  <2>3. PublicUrl(job'.url) <=> PublicWhenChecked(job'.url)
    BY <1>0, <1>2, GuardIsExact DEF Jobs
  <2>4. CacheRemembers'
    BY <2>1 DEF FromCustomer, process, IInv, CacheRemembers
  <2>5. CASE PublicUrl(job'.url)
    <3>1. at' = "connecting" /\ outcome' = Pending /\ total' = 0 /\ answer' = NoAnswer
      BY <2>1, <2>5 DEF FromCustomer
    <3>2. FetchInProgress' /\ FetchIsExact' /\ OnlyEmptyFileDropsColor'
      BY <1>2, <2>3, <2>5, <3>1 DEF FetchInProgress, FetchIsExact, OnlyEmptyFileDropsColor
    <3> QED
      BY <2>2, <2>4, <3>2 DEF IInv
  <2>6. CASE ~PublicUrl(job'.url)
    <3>1. at' = "over" /\ outcome'.refused = "blocked"
      BY <2>1, <2>6 DEF FromCustomer, Refused
    <3>2. FetchInProgress' /\ FetchIsExact' /\ OnlyEmptyFileDropsColor'
      BY <1>2, <2>3, <2>6, <3>1 DEF FetchInProgress, FetchIsExact, OnlyEmptyFileDropsColor
    <3> QED
      BY <2>2, <2>4, <3>2 DEF IInv
  <2> QED
    BY <2>5, <2>6
<1>3. CASE job'.color = "cmyk" /\ job'.url = NoUrl
  BY <1>0, <1>3, RegistryInv DEF ResolveIcc
<1> QED
  BY <1>0, <1>1, <1>2, <1>3

Reasons == {"pending", "answer", "too large", "empty", "broken"}

\* The steps of the fetch change neither the registry nor the job.  They end
\* with a refusal, with the customer's profile, or not yet.
LEMMA FetchStep ==
  ASSUME IInv, UNCHANGED <<disk, process, job>>,
         at' \in {"idle", "streaming", "over"},
         answer' \in Answers, total' \in 0..MaxBody,
         \/ \E why \in Reasons : outcome' = Refused(why)
         \/ outcome' = Resolution("customer", NoId, "customer"),
         job.color = "cmyk",
         at' = "streaming" => FetchInProgress' /\ total' <= MaxBytes,
         FetchIsExact'
  PROVE  IInv'
<1>1. TypeOK'
  <2>1. /\ outcome'.source \in {"none", "customer"} /\ outcome'.id = NoId
        /\ outcome'.bytes \in {"none", "customer"}
    BY DEF Refused, Resolution
  <2> QED
    BY <2>1 DEF IInv, TypeOK, process
<1>2. CacheRemembers'
  BY DEF IInv, CacheRemembers, process
<1>3. FetchInProgress'
  BY DEF FetchInProgress
<1>4. OnlyEmptyFileDropsColor'
  <2>1. CASE \E why \in Reasons : outcome' = Refused(why)
    <3>1. outcome'.refused # "no"
      <4>1. PICK why \in Reasons : outcome' = Refused(why)
        BY <2>1
      <4>2. outcome'.refused = why
        BY <4>1 DEF Refused
      <4> QED
        BY <4>2 DEF Reasons
    <3> QED
      BY <3>1 DEF OnlyEmptyFileDropsColor
  <2>2. CASE outcome' = Resolution("customer", NoId, "customer")
    BY <2>2 DEF OnlyEmptyFileDropsColor, EffectiveColor, Resolution
  <2> QED
    BY <2>1, <2>2
<1> QED
  BY <1>1, <1>2, <1>3, <1>4 DEF IInv

\* A fetch that the guard let pass is refused for its answer.
LEMMA RefusalIsExact ==
  ASSUME NEW why \in Reasons \ {"pending"}, outcome' = Refused(why),
         PublicWhenChecked(job.url), job' = job, ~Usable(answer')
  PROVE  FetchIsExact'
<1>1. outcome'.refused = why /\ why # "no" /\ why # "blocked"
  BY DEF Refused, Reasons
<1> QED
  BY <1>1 DEF FetchIsExact

LEMMA FetchInv ==
  IInv /\ (Headers \/ Chunk \/ EndOfBody \/ FetchFails \/ Cancelled) => IInv'
<1> SUFFICES ASSUME IInv, Headers \/ Chunk \/ EndOfBody \/ FetchFails \/ Cancelled
             PROVE  IInv'
  OBVIOUS
<1> USE BytesAssumption DEF Raise
<1>0. /\ at \in {"connecting", "streaming"} /\ job.color = "cmyk"
      /\ job.url # NoUrl /\ PublicWhenChecked(job.url) /\ outcome = Pending
      /\ answer \in Answers /\ total \in 0..MaxBody /\ total \in Nat
      /\ at = "streaming" => /\ answer.status = "ok" /\ answer.declared <= MaxBytes
                             /\ total <= answer.body /\ total <= MaxBytes
      /\ at = "connecting" => total = 0 /\ answer = NoAnswer
  <2>1. at \in {"connecting", "streaming"}
    BY DEF Headers, Chunk, EndOfBody, FetchFails, Cancelled
  <2>2. answer \in Answers /\ total \in 0..MaxBody /\ total \in Nat
    BY DEF IInv, TypeOK
  <2> QED
    BY <2>1, <2>2 DEF IInv, FetchInProgress
<1>1. CASE Headers
  <2>1. /\ answer' \in Answers /\ total' = 0 /\ UNCHANGED <<disk, process, job>>
        /\ answer'.body \in 0..MaxBody
    BY <1>0, <1>1 DEF Headers, Answers
  <2>2. CASE answer'.status # "ok" \/ answer'.declared > MaxBytes
    <3>1. at' = "over" /\ outcome' = Refused("answer")
      BY <1>1, <2>2 DEF Headers
    <3>2. ~Usable(answer')
      BY <2>1, <2>2 DEF Usable, Answers, NoLength
    <3>3. FetchIsExact'
      BY <1>0, <2>1, <3>1, <3>2, RefusalIsExact DEF Reasons
    <3> QED
      BY <1>0, <2>1, <3>1, <3>3, FetchStep DEF Reasons
  <2>3. CASE ~(answer'.status # "ok" \/ answer'.declared > MaxBytes)
    <3>1. /\ at' = "streaming" /\ outcome' = outcome
          /\ answer'.status = "ok" /\ answer'.declared <= MaxBytes
      BY <1>1, <2>1, <2>3 DEF Headers, Answers, NoLength
    <3>2. FetchInProgress'
      BY <1>0, <2>1, <3>1 DEF FetchInProgress
    <3>3. FetchIsExact'
      BY <3>1 DEF FetchIsExact
    <3> QED
      BY <1>0, <2>1, <3>1, <3>2, <3>3, FetchStep DEF Reasons, Pending
  <2> QED
    BY <2>2, <2>3
<1>2. CASE Chunk
  <2>1. /\ answer.body \in 0..MaxBody /\ total' \in (total + 1)..answer.body
        /\ UNCHANGED <<disk, process, job, answer>> /\ at = "streaming"
    BY <1>0, <1>2 DEF Chunk, Answers
  <2>2. CASE total' > MaxBytes
    <3>1. at' = "over" /\ outcome' = Refused("too large")
      BY <1>2, <2>2 DEF Chunk
    <3>2. ~Usable(answer')
      BY <1>0, <2>1, <2>2 DEF Usable
    <3>3. FetchIsExact'
      BY <1>0, <2>1, <3>1, <3>2, RefusalIsExact DEF Reasons
    <3>4. total' \in 0..MaxBody
      BY <1>0, <2>1
    <3> QED
      BY <1>0, <2>1, <3>1, <3>3, <3>4, FetchStep DEF Reasons
  <2>3. CASE ~(total' > MaxBytes)
    <3>1. at' = "streaming" /\ outcome' = outcome /\ total' <= MaxBytes
      BY <1>0, <1>2, <2>1, <2>3 DEF Chunk
    <3>2. FetchInProgress'
      BY <1>0, <2>1, <3>1 DEF FetchInProgress
    <3>3. FetchIsExact'
      BY <3>1 DEF FetchIsExact
    <3> QED
      BY <1>0, <2>1, <3>1, <3>2, <3>3, FetchStep DEF Reasons, Pending
  <2> QED
    BY <2>2, <2>3
<1>3. CASE EndOfBody
  <2>1. /\ at = "streaming" /\ total = answer.body /\ answer.end = "whole" /\ at' = "over"
        /\ UNCHANGED <<disk, process, job, answer, total>>
        /\ answer.body \in 0..MaxBody
        /\ outcome' = IF total = 0 THEN Refused("empty")
                                   ELSE Resolution("customer", NoId, "customer")
    BY <1>0, <1>3 DEF EndOfBody, Answers
  <2>2. Usable(answer') <=> total # 0
    BY <1>0, <2>1 DEF Usable
  <2>3. ASSUME total = 0 PROVE FetchIsExact'
    BY <1>0, <2>1, <2>2, <2>3, RefusalIsExact DEF Reasons
  <2>4. ASSUME total # 0 PROVE FetchIsExact'
    <3>1. outcome'.refused = "no" /\ outcome'.source = "customer"
      BY <2>1, <2>4 DEF Resolution
    <3>2. PublicWhenChecked(job'.url) /\ Usable(answer') /\ total' = answer'.body
      BY <1>0, <2>1, <2>2, <2>4
    <3> QED
      BY <3>1, <3>2 DEF FetchIsExact
  <2>5. FetchIsExact'
    BY <2>3, <2>4
  <2> QED
    BY <1>0, <2>1, <2>5, FetchStep DEF Reasons
<1>4. CASE FetchFails
  <2>1. at' = "over" /\ outcome' = Refused("broken")
        /\ UNCHANGED <<disk, process, job, answer, total>>
    BY <1>4 DEF FetchFails
  <2>2. ~Usable(answer')
    BY <1>0, <1>4, <2>1 DEF FetchFails, Usable, NoAnswer
  <2>3. FetchIsExact'
    BY <1>0, <2>1, <2>2, RefusalIsExact DEF Reasons
  <2> QED
    BY <1>0, <2>1, <2>3, FetchStep DEF Reasons
<1>5. CASE Cancelled
  <2>1. at' = "idle" /\ outcome' = Refused("pending")
        /\ UNCHANGED <<disk, process, job, answer, total>>
    BY <1>5 DEF Cancelled, Pending, fetch
  <2>2. FetchIsExact'
    BY <2>1 DEF FetchIsExact
  <2> QED
    BY <1>0, <2>1, <2>2, FetchStep DEF Reasons
<1> QED
  BY <1>1, <1>2, <1>3, <1>4, <1>5

LEMMA HealthzInv == IInv /\ Healthz => IInv'
<1> SUFFICES ASSUME IInv, Healthz PROVE IInv'
  OBVIOUS
<1>1. CASE Default \in Bundled
  <2>1. /\ cache' = Load(Default).cache
        /\ healthy' = (healthy \/ Load(Default).bytes # "absent")
        /\ UNCHANGED <<disk, served, job, at, answer, total, outcome>>
    BY <1>1 DEF Healthz, fetch
  <2>2. /\ cache' \in [Bundled -> Files \cup {"none"}]
        /\ \A q \in Bundled : cache[q] # "none" => cache'[q] = cache[q]
        /\ Load(Default).bytes # "absent" => cache'[Default] # "none"
    BY <1>1, <2>1, LoadRemembers DEF IInv
  <2>3. ASSUME NEW q \in Bundled PROVE served'[q] \subseteq {cache'[q]}
    <3>1. served[q] \subseteq {cache[q]} /\ served[q] \subseteq Files
      BY DEF IInv, CacheRemembers, TypeOK
    <3>2. "none" \notin Files
      BY VersionsAssumption DEF Files
    <3> QED
      BY <3>1, <3>2, <2>1, <2>2
  <2>4. CacheRemembers'
    <3>1. ASSUME healthy' PROVE cache'[Default] # "none"
      <4>1. CASE healthy
        BY <4>1, <1>1, <2>2 DEF IInv, CacheRemembers
      <4>2. CASE Load(Default).bytes # "absent"
        BY <4>2, <2>2
      <4> QED
        BY <3>1, <4>1, <4>2, <2>1
    <3> QED
      BY <1>1, <3>1, <2>3 DEF CacheRemembers
  <2>5. TypeOK'
    BY <2>1, <2>2 DEF IInv, TypeOK
  <2>6. FetchInProgress' /\ FetchIsExact' /\ OnlyEmptyFileDropsColor'
    BY <2>1 DEF IInv, FetchInProgress, FetchIsExact, OnlyEmptyFileDropsColor,
                EffectiveColor
  <2> QED
    BY <2>4, <2>5, <2>6 DEF IInv
<1>2. CASE Default \notin Bundled
  BY <1>2 DEF Healthz, fetch, IInv, TypeOK, FetchInProgress, CacheRemembers,
              FetchIsExact, OnlyEmptyFileDropsColor, EffectiveColor
<1> QED
  BY <1>1, <1>2

LEMMA DeployInv == IInv /\ Deploy => IInv'
BY DEF Deploy, process, fetch, IInv, TypeOK, FetchInProgress, CacheRemembers,
       FetchIsExact, OnlyEmptyFileDropsColor, EffectiveColor

LEMMA RestartInv == IInv /\ Restart => IInv'
<1> SUFFICES ASSUME IInv, Restart PROVE IInv'
  OBVIOUS
<1>1. TypeOK'
  <2>1. cache' \in [Bundled -> Files \cup {"none"}] /\ healthy' = FALSE
        /\ served' \in [Bundled -> SUBSET Files] /\ disk' = disk
    BY DEF Restart
  <2>2. job' \in Jobs /\ answer' \in Answers /\ total' \in 0..MaxBody
    BY Nothing, BytesAssumption DEF Restart
  <2>3. /\ outcome'.source = "none" /\ outcome'.id = NoId /\ outcome'.bytes = "none"
        /\ at' = "idle"
    BY DEF Restart, Pending, Refused
  <2> QED
    BY <2>1, <2>2, <2>3 DEF IInv, TypeOK
<1>2. FetchInProgress' /\ CacheRemembers' /\ FetchIsExact' /\ OnlyEmptyFileDropsColor'
  BY DEF Restart, FetchInProgress, CacheRemembers, FetchIsExact,
         OnlyEmptyFileDropsColor
<1> QED
  BY <1>1, <1>2 DEF IInv

\* The invariant of Icc, from which its properties follow.
THEOREM InvHolds == Spec => []IInv
<1>1. Init => IInv
  BY InitInv
<1>2. IInv /\ [Next]_vars => IInv'
  <2>1. IInv /\ UNCHANGED vars => IInv'
    BY DEF vars, process, fetch, IInv, TypeOK, FetchInProgress, CacheRemembers,
           FetchIsExact, OnlyEmptyFileDropsColor, EffectiveColor
  <2> QED
    BY <2>1, ResolveInv, FetchInv, HealthzInv, DeployInv, RestartInv DEF Next
<1> QED
  BY <1>1, <1>2, PTL DEF Spec

\* The state keeps its types, and what is buffered of a body its bound.
THEOREM TypeCorrect == Spec => []TypeOK
<1>1. IInv => TypeOK
  BY DEF IInv
<1> QED
  BY <1>1, InvHolds, PTL

\* _fetch_customer_icc refuses as blocked exactly the hosts that are not public
\* when it checks them, and uses exactly the usable answers of the others.
THEOREM FetchAcceptsTheUsable == Spec => []FetchIsExact
<1>1. IInv => FetchIsExact
  BY DEF IInv
<1> QED
  BY <1>1, InvHolds, PTL

\* A customer's empty profile never turns a CMYK job into an RGB one.
THEOREM ColorIsAsAsked == Spec => []OnlyEmptyFileDropsColor
<1>1. IInv => OnlyEmptyFileDropsColor
  BY DEF IInv
<1> QED
  BY <1>1, InvHolds, PTL

\* The byte cache gives all jobs of a process the same version of a profile.
THEOREM ProcessUsesOneVersion == Spec => []OneVersionPerProcess
<1>1. IInv => OneVersionPerProcess
  BY DEF IInv, CacheRemembers, OneVersionPerProcess
<1> QED
  BY <1>1, InvHolds, PTL

\* What /healthz has promised of the default profile is kept by this process.
THEOREM HealthIsAPromise == Spec => HealthyIsServed
<1>1. IInv /\ [Next]_vars => [healthy /\ ResolvesDefault => outcome'.refused = "no"]_vars
  <2> SUFFICES ASSUME IInv, healthy, ResolvesDefault PROVE outcome'.refused = "no"
    OBVIOUS
  <2>1. Named = Default /\ Default \in Bundled /\ cache[Default] # "none"
    BY DEF ResolvesDefault, IInv, CacheRemembers
  <2>2. Load(Default).bytes # "absent"
    BY <2>1, LoadRemembers DEF IInv
  <2> QED
    BY <2>1, <2>2 DEF ResolvesDefault, ResolveIcc, FromRegistry, Resolution
<1> QED
  BY <1>1, InvHolds, PTL DEF Spec, HealthyIsServed

\* load_bundled_icc looks at the disk again as long as it has found no file.
THEOREM AbsenceIsForgotten == Spec => AbsenceIsNotRemembered
<1>1. IInv /\ [Next]_vars =>
        [ResolveIcc /\ outcome'.refused = "unavailable" => disk[Named] = "absent"]_vars
  <2> SUFFICES ASSUME IInv, ResolveIcc, outcome'.refused = "unavailable"
               PROVE  disk[Named] = "absent"
    OBVIOUS
  <2>1. FromRegistry
    BY DEF ResolveIcc, FromCustomer, Resolution, Refused, Pending
  <2>2. Named \in Bundled /\ Load(Named).bytes = "absent"
    BY <2>1 DEF FromRegistry, Resolution, Refused
  <2> QED
    BY <2>2, LoadRemembers DEF IInv
<1> QED
  BY <1>1, InvHolds, PTL DEF Spec, AbsenceIsNotRemembered

=============================================================================
