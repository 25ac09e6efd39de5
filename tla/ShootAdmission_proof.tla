------------------------ MODULE ShootAdmission_proof ------------------------
(***************************************************************************)
(* What admission guarantees for any number of caches, in any order, after *)
(* any sequence of admitted changes, and what the webhooks of both         *)
(* extensions make of it.                                                  *)
(***************************************************************************)
EXTENDS ContainerdRegistries, TLAPS

(* The admitted configuration is a valid one, and the credentials it was   *)
(* admitted with are the present ones unless they have changed since.      *)
AdmittedInv ==
  /\ caches \in Configurations /\ mirrors \subseteq Upstreams /\ ValidConfig(caches)
  /\ ~touched => ValidCredentials(caches, resources)
  /\ MirrorAdmitted(caches, mirrors)

LEMMA ConfigurationType ==
  ASSUME NEW s \in Configurations
  PROVE  Len(s) \in Nat /\ \A i \in Positions(s) : s[i] \in CacheSpecs
  <1>1. PICK n \in 0..MaxCaches : s \in [1..n -> CacheSpecs]
    BY DEF Configurations
  <1>2. n \in Nat /\ s \in Seq(CacheSpecs)
    BY <1>1, CachesAssumption
  <1> QED
    BY <1>2 DEF Positions

LEMMA EmptyConfigValid ==
  ASSUME NEW R, NEW M
  PROVE  /\ <<>> \in Configurations /\ ValidConfig(<<>>)
         /\ ValidCredentials(<<>>, R) /\ MirrorAdmitted(<<>>, M)
  <1>1. Positions(<<>>) = {}
    BY DEF Positions
  <1>2. <<>> \in [1..0 -> CacheSpecs]
    OBVIOUS
  <1> QED
    BY <1>1, <1>2, CachesAssumption
    DEF Configurations, ValidConfig, ValidCredentials, MirrorAdmitted

LEMMA AdmittedInit == Init => AdmittedInv
  BY EmptyConfigValid DEF Init, AdmittedInv

LEMMA AdmittedStep == AdmittedInv /\ [Next]_vars => AdmittedInv'
  <1> SUFFICES ASSUME AdmittedInv, [Next]_vars PROVE AdmittedInv'
    OBVIOUS
  <1>1. CASE UpdateShoot
    <2>1. /\ CacheAdmitted(caches', resources') /\ MirrorAdmitted(caches', mirrors')
          /\ caches' \in Configurations /\ mirrors' \subseteq Upstreams
      BY <1>1 DEF UpdateShoot
    <2>2. touched' = (caches' = caches /\ (touched \/ resources' # resources))
      BY <1>1 DEF UpdateShoot
    <2>3. ValidConfig(caches') /\ (~touched' => ValidCredentials(caches', resources'))
      BY <2>1, <2>2, EmptyConfigValid DEF CacheAdmitted, AdmittedInv
    <2>4. /\ ValidConfig(caches)' /\ MirrorAdmitted(caches, mirrors)'
          /\ ~touched' => ValidCredentials(caches, resources)'
      BY <2>1, <2>3
      DEF ValidConfig, UpstreamsBefore, SuffixesBefore, AllocatedNames, NamesWithin, Positions,
          ServiceName, ValidCredentials, MirrorAdmitted
    <2> QED
      BY <2>1, <2>4 DEF AdmittedInv
  <1>2. CASE UNCHANGED <<caches, mirrors>> /\ (touched' \/ UNCHANGED <<resources, touched>>)
    <2>1. ValidConfig(caches)' /\ MirrorAdmitted(caches, mirrors)'
      BY <1>2
      DEF AdmittedInv, ValidConfig, UpstreamsBefore, SuffixesBefore, AllocatedNames, NamesWithin,
          Positions, ServiceName, MirrorAdmitted
    <2>2. ~touched' => ValidCredentials(caches, resources)'
      BY <1>2 DEF AdmittedInv, ValidCredentials
    <2> QED
      BY <1>2, <2>1, <2>2 DEF AdmittedInv
  <1> QED
    BY <1>1, <1>2 DEF Next, ChangeSecret, vars

LEMMA AdmittedInvariant == Spec => []AdmittedInv
  BY AdmittedInit, AdmittedStep, PTL DEF Spec

(* What the loops compare with what they have collected holds of any two   *)
(* caches, whichever is listed first.                                      *)
LEMMA LoopsCompareAll ==
  ASSUME NEW s, Len(s) \in Nat, ValidConfig(s), NEW i \in Positions(s), NEW j \in Positions(s)
  PROVE  /\ s[i].suffix # NoName /\ s[j].suffix = s[i].suffix => i = j
         /\ s[i].suffix # NoName /\ s[j].suffix = NoName => ServiceName(s[i]) # ServiceName(s[j])
  <1>1. i \in 1..Len(s) /\ j \in 1..Len(s)
    BY DEF Positions
  <1>2. ASSUME NEW k \in Positions(s), NEW l \in Positions(s), k < l,
               s[l].suffix # NoName, s[k].suffix = s[l].suffix
        PROVE  FALSE
    <2>1. k \in 1..l-1
      BY <1>2 DEF Positions
    <2>2. s[l].suffix \in SuffixesBefore(s, l)
      BY <1>2, <2>1 DEF SuffixesBefore
    <2> QED
      BY <1>2, <2>2 DEF ValidConfig
  <1>3. ASSUME s[i].suffix # NoName, s[j].suffix = s[i].suffix PROVE i = j
    <2>1. ~(i < j) /\ ~(j < i)
      BY <1>2, <1>3
    <2> QED
      BY <1>1, <2>1
  <1>4. ASSUME s[i].suffix # NoName, s[j].suffix = NoName
        PROVE  ServiceName(s[i]) # ServiceName(s[j])
    <2>1. ServiceName(s[j]) \in AllocatedNames(s, i)
      BY <1>1, <1>4 DEF AllocatedNames, NamesWithin
    <2> QED
      BY <1>4, <2>1 DEF ValidConfig
  <1> QED
    BY <1>3, <1>4

LEMMA SuffixOwn == AdmittedInv => SuffixedServiceUnshared
  <1> SUFFICES ASSUME AdmittedInv, NEW i \in Positions(caches), NEW j \in Positions(caches),
                      caches[i].suffix # NoName,
                      ServiceName(caches[i]) = ServiceName(caches[j])
               PROVE  i = j
    BY DEF SuffixedServiceUnshared
  <1>1. ValidConfig(caches) /\ Len(caches) \in Nat
    BY ConfigurationType DEF AdmittedInv
  <1>2. caches[j].suffix # NoName
    BY <1>1, LoopsCompareAll
  <1>3. caches[i].suffix = caches[j].suffix
    BY <1>2 DEF ServiceName
  <1> QED
    BY <1>1, <1>3, LoopsCompareAll

(* However the caches are listed and whatever was configured before, a     *)
(* Service with a name of its own choice is not shared.                    *)
THEOREM SuffixSafe == Spec => []SuffixedServiceUnshared
  BY SuffixOwn, AdmittedInvariant, PTL

(* Admission lets nothing through that the actuator could not deploy, but  *)
(* for equal computed names and for references that change without or      *)
(* after the configuration.                                                *)
THEOREM AdmittedDeploys == Spec => []AdmittedIsDeployable
  <1>1. AdmittedInv => AdmittedIsDeployable
    <2> SUFFICES ASSUME AdmittedInv, ~touched,
                        \A i, j \in Positions(caches) :
                          DefaultName[caches[i].upstream] = DefaultName[caches[j].upstream] => i = j
                 PROVE  Deployable(caches)
      BY DEF AdmittedIsDeployable
    <2>1. ASSUME NEW i \in Positions(caches), NEW j \in Positions(caches),
                 ServiceName(caches[i]) = ServiceName(caches[j])
          PROVE  i = j
      <3>1. CASE caches[i].suffix # NoName \/ caches[j].suffix # NoName
        BY <2>1, <3>1, SuffixOwn DEF SuffixedServiceUnshared
      <3>2. CASE caches[i].suffix = NoName /\ caches[j].suffix = NoName
        BY <2>1, <3>2 DEF ServiceName
      <3> QED
        BY <3>1, <3>2
    <2>2. \A i \in Positions(caches) :
            caches[i].ref # NoRef => resources[caches[i].ref] # "absent"
      BY DEF AdmittedInv, ValidCredentials
    <2> QED
      BY <2>1, <2>2 DEF Deployable
  <1> QED
    BY <1>1, AdmittedInvariant, PTL

-----------------------------------------------------------------------------
(* The webhooks.  What they have written of a bare OperatingSystemConfig   *)
(* when those of todo have still to be called:                             *)
Written(todo) ==
  [u \in Upstreams |->
     IF "registry-mirror" \notin todo /\ u \in cluster.mirrors THEN "mirror"
     ELSE IF "registry-cache" \notin todo /\ u \in cluster.caches /\ ~cluster.hibernated
     THEN "cache" ELSE "none"]

(* The flow works on disjoint caches and mirrors, has the Extensions       *)
(* follow them, and its write holds what the webhooks called so far add.   *)
RegistriesInv ==
  /\ cluster \in [caches : SUBSET Upstreams, mirrors : SUBSET Upstreams, hibernated : BOOLEAN]
  /\ cluster.caches \cap cluster.mirrors = {}
  /\ unreconciled \subseteq Extensions /\ (unreconciled # {} => flow = "extensions")
  /\ "registry-mirror" \notin unreconciled => extension = cluster.mirrors
  /\ "registry-cache" \notin unreconciled /\ ~cluster.hibernated => status = cluster.caches
  /\ flow \in {"done", "denied", "extensions", "deploying"}
  /\ request \in [writer : {"none", "other", "gardenlet"}, todo : SUBSET Extensions,
                  registries : [Upstreams -> {"none", "cache", "mirror"}]]
  /\ registries \in [Upstreams -> {"none", "cache", "mirror"}]
  /\ request.writer = "none" => request.todo = {}
  /\ request.writer = "gardenlet" <=> flow = "deploying"
  /\ flow = "deploying" => request.registries = Written(request.todo)
  /\ flow = "done" =>
       /\ registries = Written({})
       /\ request.writer = "other" => request.registries = registries

LEMMA RegistriesBegin == RegistriesInit => RegistriesInv
  BY DEF RegistriesInit, RegistriesInv, NoRegistries, NoRequest, Written, Extensions

LEMMA OwnerStep ==
  ASSUME RegistriesInv, UNCHANGED registriesVars
  PROVE  RegistriesInv'
  BY DEF RegistriesInv, registriesVars, Written

LEMMA GardenletStep ==
  ASSUME AdmittedInv, RegistriesInv, BeginFlow \/ ReconcileCaches \/ SyncMirrors
  PROVE  RegistriesInv'
  <1>1. CASE BeginFlow
    <2>1. /\ cluster' \in [caches : SUBSET Upstreams, mirrors : SUBSET Upstreams,
                           hibernated : BOOLEAN]
          /\ cluster'.caches \cap cluster'.mirrors = {}
      BY <1>1, ConfigurationType DEF BeginFlow, AdmittedInv, MirrorAdmitted, CacheSpecs
    <2> QED
      BY <1>1, <2>1 DEF BeginFlow, RegistriesInv, Extensions
  <1>2. CASE ReconcileCaches
    BY <1>2 DEF ReconcileCaches, RegistriesInv, Extensions, Written
  <1>3. CASE SyncMirrors
    BY <1>3 DEF SyncMirrors, RegistriesInv, Extensions, Written
  <1> QED
    BY <1>1, <1>2, <1>3

LEMMA RequestStep ==
  ASSUME RegistriesInv, DeployOSC \/ TouchOSC \/ Admit
  PROVE  RegistriesInv'
  <1>1. CASE DeployOSC
    <2>1. /\ request' \in [writer : {"none", "other", "gardenlet"}, todo : SUBSET Extensions,
                           registries : [Upstreams -> {"none", "cache", "mirror"}]]
          /\ request'.writer = "gardenlet" /\ flow' = "deploying"
          /\ request'.registries = NoRegistries
      BY <1>1 DEF DeployOSC, Serve, Extensions, NoRegistries
    <2>2. request'.registries = Written(request.todo)'
      BY <1>1, <2>1 DEF DeployOSC, Serve, Written, NoRegistries, RegistriesInv
    <2> QED
      BY <1>1, <2>1, <2>2 DEF DeployOSC, RegistriesInv
  <1>2. CASE TouchOSC
    <2>1. /\ request' \in [writer : {"none", "other", "gardenlet"}, todo : SUBSET Extensions,
                           registries : [Upstreams -> {"none", "cache", "mirror"}]]
          /\ request'.writer = "other" /\ request'.registries = registries
      BY <1>2 DEF TouchOSC, Serve, Extensions, RegistriesInv
    <2> QED
      BY <1>2, <2>1 DEF TouchOSC, RegistriesInv, Written
  <1>3. CASE Admit
    BY <1>3 DEF Admit, RegistriesInv, NoRequest, NoRegistries, Written
  <1> QED
    BY <1>1, <1>2, <1>3

LEMMA WebhookStep ==
  ASSUME RegistriesInv, CacheWebhook \/ MirrorWebhook
  PROVE  RegistriesInv'
  <1>1. CASE Deny
    BY <1>1 DEF Deny, CacheWebhook, MirrorWebhook, RegistriesInv, NoRequest, NoRegistries, Written
  <1>2. ASSUME NEW webhook \in request.todo, NEW upstreams, NEW entry \in {"cache", "mirror"},
               Write(webhook, upstreams, entry),
               UNCHANGED <<cluster, unreconciled, status, extension, registries>>,
               flow = "deploying" \/ flow = "done" =>
                 /\ webhook = "registry-mirror" => upstreams = cluster.mirrors /\ entry = "mirror"
                 /\ webhook = "registry-cache" =>
                      /\ upstreams = (IF cluster.hibernated THEN {} ELSE cluster.caches)
                      /\ entry = "cache"
        PROVE  RegistriesInv'
    <2>1. /\ request' \in [writer : {"none", "other", "gardenlet"}, todo : SUBSET Extensions,
                           registries : [Upstreams -> {"none", "cache", "mirror"}]]
          /\ request'.writer = request.writer /\ request'.todo = request.todo \ {webhook}
          /\ request'.registries =
               [u \in Upstreams |-> IF u \in upstreams THEN entry ELSE request.registries[u]]
          /\ request.writer # "none" /\ webhook \in Extensions /\ UNCHANGED flow
      BY <1>2 DEF Write, RegistriesInv
    <2>2. ASSUME flow = "deploying" PROVE request'.registries = Written(request.todo)'
      BY <1>2, <2>1, <2>2 DEF Written, RegistriesInv, Extensions
    <2>3. ASSUME flow = "done", request.writer = "other" PROVE request'.registries = registries
      BY <1>2, <2>1, <2>3 DEF Written, RegistriesInv, Extensions
    <2>4. flow = "done" => registries' = Written({})'
      BY <1>2 DEF Written, RegistriesInv
    <2> QED
      BY <1>2, <2>1, <2>2, <2>3, <2>4 DEF RegistriesInv
  <1>3. CASE CacheWebhook /\ ~Deny
    <2>1. Write("registry-cache", IF cluster.hibernated THEN {} ELSE status, "cache")
      BY <1>3 DEF CacheWebhook, ShouldMutate
    <2> QED
      BY <1>2, <1>3, <2>1 DEF CacheWebhook, RegistriesInv
  <1>4. CASE MirrorWebhook /\ ~Deny
    <2>1. Write("registry-mirror", extension, "mirror")
      BY <1>4 DEF MirrorWebhook
    <2> QED
      BY <1>2, <1>4, <2>1 DEF MirrorWebhook, RegistriesInv
  <1> QED
    BY <1>1, <1>3, <1>4

(* Admission goes on as it does on its own.                                *)
LEMMA RegistriesImplementAdmission == RegistriesSpec => Spec
  <1>1. RegistriesInit => Init
    BY DEF RegistriesInit
  <1>2. [RegistriesNext]_allVars => [Next]_vars
    BY DEF RegistriesNext, allVars, Owner, BeginFlow, ReconcileCaches, SyncMirrors, DeployOSC,
           TouchOSC, Admit, CacheWebhook, MirrorWebhook
  <1> QED
    BY <1>1, <1>2, PTL DEF RegistriesSpec, Spec

(* For any number of upstreams, whichever webhook runs first and whoever   *)
(* else writes: a finished flow leaves every upstream the registry of the  *)
(* one extension that is configured for it.                                *)
THEOREM RegistriesServed == RegistriesSpec => []RegistriesOfOwners
  <1>1. AdmittedInv /\ RegistriesInv /\ [RegistriesNext]_allVars => RegistriesInv'
    <2> SUFFICES ASSUME AdmittedInv, RegistriesInv, [RegistriesNext]_allVars PROVE RegistriesInv'
      OBVIOUS
    <2>1. CASE UNCHANGED registriesVars
      BY <2>1, OwnerStep
    <2> QED
      BY <2>1, GardenletStep, RequestStep, WebhookStep DEF RegistriesNext, allVars, Owner
  <1>2. RegistriesInv => RegistriesOfOwners
    BY DEF RegistriesInv, RegistriesOfOwners, Written
  <1> QED
    BY <1>1, <1>2, RegistriesBegin, RegistriesImplementAdmission, AdmittedInvariant, PTL
    DEF RegistriesSpec

=============================================================================
