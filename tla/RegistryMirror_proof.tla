----------------------- MODULE RegistryMirror_proof -----------------------
(***************************************************************************)
(* The OperatingSystemConfig webhook of registry-mirror: for every set of  *)
(* names, any number of mirrors, hosts and changes, MirrorInv is           *)
(* inductive, a flow that is done serves the mirrors of the Extension, and *)
(* every CA file that no other host overwrites holds its own bundle.       *)
(***************************************************************************)
EXTENDS RegistryMirror, TLAPS, WellFoundedInduction

-----------------------------------------------------------------------------
(* A nonempty set of indices has a greatest one (from the well-foundedness *)
(* of the natural numbers).                                                *)
Less == {p \in Nat \X Nat : p[1] < p[2]}

LEMMA LessWellFounded == IsWellFoundedOn(Less, Nat)
  BY NatLessThanWellFounded, Zenon DEF OpToRel, Less

LEMMA GreatestExists ==
  ASSUME NEW N \in Nat, NEW T \in SUBSET (1..N), T # {}
  PROVE  \E x \in T : \A y \in T : y <= x
  <1> DEFINE U == {n \in Nat : \E t \in T : n = N - t}
  <1>1. \A t \in T : N - t \in Nat
    OBVIOUS
  <1>2. U \subseteq Nat /\ U # {}
    BY <1>1
  <1>3. \E m \in U : \A n \in U : ~(<<n, m>> \in Less)
    <2> HIDE DEF U
    <2> QED
      BY <1>2, LessWellFounded, WFMin
  <1>4. PICK x \in T : \A y \in T : ~(<<N - y, N - x>> \in Less)
    BY <1>1, <1>3
  <1>5. \A y \in T : <<N - y, N - x>> \in Nat \X Nat
    BY <1>1
  <1>6. \A y \in T : ~(N - y < N - x)
    BY <1>1, <1>4, <1>5 DEF Less
  <1> QED
    BY <1>6

(* The loop over mirrors and hosts ends somewhere: CHOOSE finds a          *)
(* position.                                                               *)
LEMMA LastOfExists ==
  ASSUME NEW S \in SUBSET Positions, S # {}
  PROVE  LastOf(S) \in S
  <1> DEFINE I == {i \in 1..MaxMirrors : \E x \in S : x[1] = i}
  <1>1. I # {}
    BY DEF Positions
  <1>2. PICK i \in I : \A k \in I : k <= i
    BY <1>1, GreatestExists, MirrorBoundsAssumption
  <1> DEFINE J == {j \in 1..MaxHosts : <<i, j>> \in S}
  <1>3. J # {}
    BY <1>2 DEF Positions
  <1>4. PICK j \in J : \A k \in J : k <= j
    BY <1>3, GreatestExists, MirrorBoundsAssumption
  <1>5. ASSUME NEW y \in S PROVE y[1] < i \/ (y[1] = i /\ y[2] <= j)
    <2>1. y = <<y[1], y[2]>> /\ y[1] \in 1..MaxMirrors /\ y[2] \in 1..MaxHosts
      BY <1>5 DEF Positions
    <2>2. y[1] <= i
      BY <1>2, <1>5, <2>1
    <2>3. y[1] = i => y[2] <= j
      BY <1>4, <1>5, <2>1
    <2> QED
      BY <1>2, <2>1, <2>2, <2>3, MirrorBoundsAssumption
  <1> DEFINE z == <<i, j>>
  <1>6. z \in S /\ z[1] = i /\ z[2] = j
    BY <1>4
  <1>7. \A y \in S : y[1] < z[1] \/ (y[1] = z[1] /\ y[2] <= z[2])
    BY <1>5, <1>6
  <1> HIDE DEF z
  <1> QED
    BY <1>6, <1>7 DEF LastOf

-----------------------------------------------------------------------------
(* The types of what the ensurers write.                                   *)

LEMMA ConfigType ==
  ASSUME NEW c \in MirrorConfigs
  PROVE  /\ DOMAIN c \subseteq 1..MaxMirrors
         /\ \A i \in DOMAIN c : c[i] \in Mirrors
  <1>1. PICK n \in 0..MaxMirrors : c \in [1..n -> Mirrors]
    BY DEF MirrorConfigs
  <1>2. 1..n \subseteq 1..MaxMirrors
    BY MirrorBoundsAssumption
  <1> QED
    BY <1>1, <1>2

LEMMA MirrorType ==
  ASSUME NEW m \in Mirrors
  PROVE  /\ m.upstream \in Upstreams
         /\ \E n \in 0..MaxHosts : m.hosts \in [1..n -> HostConfigs]
  BY DEF Mirrors

LEMMA HostsType ==
  ASSUME NEW m \in Mirrors
  PROVE  /\ DOMAIN m.hosts \subseteq 1..MaxHosts
         /\ \A j \in DOMAIN m.hosts :
              m.hosts[j].host \in Hosts /\ m.hosts[j].ref \in Refs \cup {NoRef}
  <1>1. PICK n \in 0..MaxHosts : m.hosts \in [1..n -> HostConfigs]
    BY MirrorType
  <1>2. 1..n \subseteq 1..MaxHosts
    BY MirrorBoundsAssumption
  <1> QED
    BY <1>1, <1>2 DEF HostConfigs

LEMMA CAHostsType ==
  ASSUME NEW c \in MirrorConfigs, NEW x \in CAHosts(c)
  PROVE  /\ x \in Positions /\ x = <<x[1], x[2]>>
         /\ x[1] \in DOMAIN c /\ x[2] \in DOMAIN c[x[1]].hosts
         /\ RefAt(c, x) \in Refs /\ PathAt(c, x) \in Paths
  <1>1. x \in Positions /\ x[1] \in DOMAIN c /\ x[2] \in DOMAIN c[x[1]].hosts
        /\ RefAt(c, x) # NoRef
    BY DEF CAHosts
  <1>2. c[x[1]] \in Mirrors
    BY <1>1, ConfigType
  <1>3. c[x[1]].upstream \in Upstreams /\ c[x[1]].hosts[x[2]].host \in Hosts
        /\ c[x[1]].hosts[x[2]].ref \in Refs \cup {NoRef}
    BY <1>1, <1>2, MirrorType, HostsType
  <1> QED
    BY <1>1, <1>3 DEF RefAt, PathAt, Paths, Positions

LEMMA RefsOfType ==
  ASSUME NEW c \in MirrorConfigs
  PROVE  RefsOf(c) \subseteq Refs /\ \A x \in CAHosts(c) : RefAt(c, x) \in RefsOf(c)
  BY CAHostsType DEF RefsOf

LEMMA EntriesType ==
  ASSUME NEW m \in Mirrors
  PROVE  /\ HostEntries(m) \in Entries
         /\ DOMAIN HostEntries(m) = DOMAIN m.hosts
  <1>1. PICK n \in 0..MaxHosts : m.hosts \in [1..n -> HostConfigs]
    BY MirrorType
  <1>2. \A j \in 1..n : CABundlePath(m.upstream, m.hosts[j].host) \in Paths
    BY <1>1, MirrorType DEF Paths, HostConfigs
  <1>3. HostEntries(m) \in [1..n -> [host : Hosts, ca : Paths \cup {NoFile}]]
    BY <1>1, <1>2 DEF HostEntries, HostConfigs
  <1> QED
    BY <1>1, <1>3 DEF Entries, HostEntries

LEMMA WithMirrorsType ==
  ASSUME extension \in MirrorConfigs, NEW r \in [Upstreams -> Entries]
  PROVE  WithMirrors(r) \in [Upstreams -> Entries]
  <1> SUFFICES ASSUME NEW u \in Upstreams PROVE WithMirrors(r)[u] \in Entries
    BY DEF WithMirrors
  <1> DEFINE mirrors == {i \in DOMAIN extension : extension[i].upstream = u}
             last == CHOOSE i \in mirrors : \A k \in mirrors : k <= i
  <1>1. CASE mirrors = {}
    BY <1>1 DEF WithMirrors
  <1>2. CASE mirrors # {}
    <2>1. mirrors \in SUBSET (1..MaxMirrors)
      BY ConfigType
    <2>2. \E i \in mirrors : \A k \in mirrors : k <= i
      <3> HIDE DEF mirrors
      <3> QED
        BY <1>2, <2>1, GreatestExists, MirrorBoundsAssumption
    <2>3. last \in mirrors
      BY <2>2
    <2>4. WithMirrors(r)[u] = HostEntries(extension[last])
      BY <1>2 DEF WithMirrors
    <2> HIDE DEF last
    <2> QED
      BY <2>3, <2>4, ConfigType, EntriesType
  <1> QED
    BY <1>1, <1>2

LEMMA WithFilesType ==
  ASSUME extension \in MirrorConfigs, seed \in [Refs -> Contents \cup {"absent"}],
         NEW f \in [Paths -> Contents \cup {"absent", NoFile}]
  PROVE  WithFiles(f) \in [Paths -> Contents \cup {"absent", NoFile}]
  <1> SUFFICES ASSUME NEW p \in Paths PROVE WithFiles(f)[p] \in Contents \cup {"absent", NoFile}
    BY DEF WithFiles
  <1> DEFINE named == {x \in CAHosts(extension) : PathAt(extension, x) = p}
  <1>1. CASE named = {}
    BY <1>1 DEF WithFiles
  <1>2. CASE named # {}
    <2>1. named \in SUBSET Positions
      BY DEF CAHosts
    <2>2. LastOf(named) \in named
      <3> HIDE DEF named
      <3> QED
        BY <1>2, <2>1, LastOfExists
    <2>3. RefAt(extension, LastOf(named)) \in Refs
      BY <2>2, CAHostsType
    <2>4. WithFiles(f)[p] = seed[RefAt(extension, LastOf(named))]
      BY <1>2 DEF WithFiles
    <2> QED
      BY <2>3, <2>4
  <1> QED
    BY <1>1, <1>2

(* An OperatingSystemConfig is what its fields are.                        *)
LEMMA SameOSC ==
  ASSUME NEW o \in OSCs, NEW q \in OSCs,
         o.present = q.present, o.registries = q.registries, o.files = q.files
  PROVE  o = q
  BY DEF OSCs

LEMMA BareType == Spec0 \in OSCs /\ Gone \in OSCs
  <1>1. <<>> \in Entries
    <2>1. <<>> \in [1..0 -> [host : Hosts, ca : Paths \cup {NoFile}]]
      OBVIOUS
    <2> QED
      BY <2>1, MirrorBoundsAssumption DEF Entries
  <1>2. Spec0 \in OSCs
    BY <1>1 DEF Spec0, OSCs
  <1> QED
    BY <1>2 DEF Gone, OSCs

LEMMA FromExtensionType ==
  ASSUME TypeOK, NEW todo
  PROVE  FromExtension(todo) \in OSCs
  <1>1. /\ Spec0.registries \in [Upstreams -> Entries]
        /\ Spec0.files \in [Paths -> Contents \cup {"absent", NoFile}]
    BY BareType DEF OSCs
  <1>2. WithMirrors(Spec0.registries) \in [Upstreams -> Entries]
    BY <1>1, WithMirrorsType DEF TypeOK
  <1>3. WithFiles(Spec0.files) \in [Paths -> Contents \cup {"absent", NoFile}]
    BY <1>1, WithFilesType DEF TypeOK
  <1> QED
    BY <1>1, <1>2, <1>3 DEF FromExtension, OSCs

(* The ensurers add nothing to what they have written already.             *)
LEMMA MirrorsIdempotent ==
  ASSUME NEW r \in [Upstreams -> Entries]
  PROVE  WithMirrors(WithMirrors(r)) = WithMirrors(r)
  <1>1. \A u \in Upstreams : WithMirrors(WithMirrors(r))[u] = WithMirrors(r)[u]
    BY DEF WithMirrors
  <1>2. /\ WithMirrors(WithMirrors(r)) = [u \in Upstreams |-> WithMirrors(WithMirrors(r))[u]]
        /\ WithMirrors(r) = [u \in Upstreams |-> WithMirrors(r)[u]]
    BY DEF WithMirrors
  <1> QED
    BY <1>1, <1>2

LEMMA FilesIdempotent ==
  ASSUME NEW f \in [Paths -> Contents \cup {"absent", NoFile}]
  PROVE  WithFiles(WithFiles(f)) = WithFiles(f)
  <1>1. \A p \in Paths : WithFiles(WithFiles(f))[p] = WithFiles(f)[p]
    BY DEF WithFiles
  <1>2. /\ WithFiles(WithFiles(f)) = [p \in Paths |-> WithFiles(WithFiles(f))[p]]
        /\ WithFiles(f) = [p \in Paths |-> WithFiles(f)[p]]
    BY DEF WithFiles
  <1> QED
    BY <1>1, <1>2

(* An Extension that is not there leaves the OperatingSystemConfig bare.   *)
LEMMA NothingFromNothing ==
  ASSUME extension = <<>>
  PROVE  FromExtension({}) = Spec0
  <1>1. CAHosts(extension) = {}
    BY DEF CAHosts
  <1>2. WithMirrors(Spec0.registries) = Spec0.registries
    BY DEF WithMirrors, Spec0
  <1>3. WithFiles(Spec0.files) = Spec0.files
    BY <1>1 DEF WithFiles, Spec0
  <1> QED
    BY <1>2, <1>3 DEF FromExtension, Spec0

LEMMA MutationType ==
  ASSUME TypeOK
  PROVE  /\ [hook.osc EXCEPT !.registries = WithMirrors(hook.osc.registries)] \in OSCs
         /\ [hook.osc EXCEPT !.files = WithFiles(hook.osc.files)] \in OSCs
  <1>1. hook.osc \in OSCs /\ hook.osc.registries \in [Upstreams -> Entries]
        /\ hook.osc.files \in [Paths -> Contents \cup {"absent", NoFile}]
    BY DEF TypeOK, OSCs
  <1>2. WithMirrors(hook.osc.registries) \in [Upstreams -> Entries]
    BY <1>1, WithMirrorsType DEF TypeOK
  <1>3. WithFiles(hook.osc.files) \in [Paths -> Contents \cup {"absent", NoFile}]
    BY <1>1, WithFilesType DEF TypeOK
  <1> QED
    BY <1>1, <1>2, <1>3 DEF OSCs

-----------------------------------------------------------------------------
(* The steps of MirrorInv.                                                 *)

LEMMA InitInv == Init => MirrorInv
  <1> SUFFICES ASSUME Init PROVE MirrorInv
    OBVIOUS
  <1>1. <<>> \in MirrorConfigs
    <2>1. <<>> \in [1..0 -> Mirrors]
      OBVIOUS
    <2> QED
      BY <2>1, MirrorBoundsAssumption DEF MirrorConfigs
  <1>2. TypeOK
    <2>1. NoHook \in [purpose : {"none", "touch", "deploy", "finalize"}, mutate : BOOLEAN,
                      resources : SUBSET Refs,
                      todo : SUBSET {"EnsureCRIConfig", "EnsureAdditionalFiles"}, osc : OSCs]
      BY BareType DEF NoHook
    <2>2. 0 \in 0..MaxChanges
      BY MirrorBoundsAssumption
    <2> QED
      BY <1>1, <2>1, <2>2, BareType DEF Init, TypeOK
  <1>3. ValidMirrorConfig(config) /\ ValidMirrorConfig(cluster) /\ ValidMirrorConfig(extension)
    BY DEF Init, ValidMirrorConfig
  <1>4. osc = FromExtension({}) /\ osc.present
    BY NothingFromNothing DEF Init, Spec0
  <1>5. FlowInOrder
    BY DEF FlowInOrder, Init, RefsOf, CAHosts
  <1> QED
    BY <1>2, <1>3, <1>4, <1>5 DEF MirrorInv, FlowServesExtension, Init, NoHook

(* A new request.                                                          *)
LEMMA ServeType ==
  ASSUME TypeOK, NEW p \in {"none", "touch", "deploy", "finalize"}, NEW o \in OSCs, Serve(p, o)
  PROVE  /\ hook' \in [purpose : {"none", "touch", "deploy", "finalize"}, mutate : BOOLEAN,
                       resources : SUBSET Refs,
                      todo : SUBSET {"EnsureCRIConfig", "EnsureAdditionalFiles"}, osc : OSCs]
         /\ hook'.purpose = p /\ hook'.osc = o /\ hook'.mutate = ~deleting
         /\ hook'.todo = {} \/ hook'.todo = {"EnsureCRIConfig", "EnsureAdditionalFiles"}
         /\ hook'.todo = {} /\ ~deleting => extension = <<>>
  <1>1. RefsOf(cluster) \subseteq Refs
    BY RefsOfType DEF TypeOK
  <1> QED
    BY <1>1 DEF Serve, ShouldMutate, TypeOK

(* FromExtension reads the Extension and the copies of the Secrets.        *)
LEMMA FromExtensionFrame ==
  ASSUME UNCHANGED <<extension, seed>>, NEW todo
  PROVE  FromExtension(todo)' = FromExtension(todo)
  BY DEF FromExtension, WithMirrors, WithFiles

(* What does not depend on the request that is served.                     *)
FlowBehind ==
  FlowInOrder /\ ValidMirrorConfig(config) /\ ValidMirrorConfig(cluster)
    /\ ValidMirrorConfig(extension)

LEMMA SameFlow ==
  ASSUME MirrorInv, UNCHANGED <<config, seedVars>>, deleting => deleting',
         \/ flow' = flow
         \/ flow \notin {"secrets", "extension"} /\ flow' \notin {"secrets", "extension"}
  PROVE  FlowBehind'
  BY DEF MirrorInv, FlowBehind, FlowInOrder, ValidMirrorConfig, seedVars

LEMMA EnvironmentInv ==
  ASSUME MirrorInv, UpdateShoot \/ DeleteShoot \/ \E r \in Refs : ReplaceSecret(r)
  PROVE  MirrorInv'
  <1>1. TypeOK'
    <2> SUFFICES changes' \in 0..MaxChanges => TypeOK'
      BY MirrorBoundsAssumption
      DEF MirrorInv, TypeOK, Change, UpdateShoot, DeleteShoot, ReplaceSecret
    <2>1. CASE UpdateShoot
      BY <2>1 DEF UpdateShoot, MirrorInv, TypeOK, seedVars
    <2>2. CASE DeleteShoot
      BY <2>2 DEF DeleteShoot, MirrorInv, TypeOK, seedVars
    <2>3. ASSUME NEW r \in Refs, ReplaceSecret(r) PROVE changes' \in 0..MaxChanges => TypeOK'
      BY <2>3 DEF ReplaceSecret, MirrorInv, TypeOK, seedVars
    <2> QED
      BY <2>1, <2>2, <2>3
  <1>2. UNCHANGED <<seedVars, osc, hook, flow>> /\ (deleting => deleting')
    BY DEF UpdateShoot, DeleteShoot, ReplaceSecret
  <1>3. FlowBehind'
    <2>1. ValidMirrorConfig(config)'
      BY DEF MirrorInv, UpdateShoot, DeleteShoot, ReplaceSecret, ValidMirrorConfig
    <2> QED
      BY <1>2, <2>1 DEF MirrorInv, FlowBehind, FlowInOrder, ValidMirrorConfig, seedVars
  <1>4. FlowServesExtension'
    BY <1>2, FromExtensionFrame DEF MirrorInv, FlowServesExtension, seedVars
  <1> QED
    BY <1>1, <1>3, <1>4 DEF MirrorInv, FlowBehind

(* The steps of gardenlet, and the deletion of the Extension.              *)
LEMMA FlowInv ==
  ASSUME MirrorInv, BeginFlow \/ SyncSecrets \/ SyncExtension \/ DeleteExtension
  PROVE  MirrorInv'
  <1>1. TypeOK'
    <2>1. <<>> \in MirrorConfigs
      <3>1. <<>> \in [1..0 -> Mirrors]
        OBVIOUS
      <3> QED
        BY <3>1, MirrorBoundsAssumption DEF MirrorConfigs
    <2> QED
      BY <2>1
      DEF MirrorInv, TypeOK, BeginFlow, SyncSecrets, SyncExtension, DeleteExtension, shootVars,
          seedVars
  <1>2. FlowBehind'
    <2>1. /\ UNCHANGED <<config, deleting>>
          /\ cluster' \in {cluster, config} /\ extension' \in {extension, cluster, <<>>}
      BY DEF BeginFlow, SyncSecrets, SyncExtension, DeleteExtension, shootVars, seedVars
    <2>2. /\ ValidMirrorConfig(config)' /\ ValidMirrorConfig(cluster)'
          /\ ValidMirrorConfig(extension)'
      BY <2>1 DEF MirrorInv, ValidMirrorConfig
    <2>3. CASE BeginFlow \/ DeleteExtension
      BY <2>1, <2>2, <2>3
      DEF BeginFlow, DeleteExtension, FlowBehind, FlowInOrder
    <2>4. CASE SyncSecrets
      <3>1. \A r \in RefsOf(cluster) : seed'[r] \in Contents
        BY <2>4, RefsOfType DEF SyncSecrets, MirrorInv, TypeOK
      <3>2. \A r \in RefsOf(cluster) : seed'[r] # "absent"
        BY <3>1, MarkersAssumption DEF Contents
      <3> QED
        BY <2>2, <2>4, <3>2 DEF SyncSecrets, FlowBehind, FlowInOrder
    <2>5. CASE SyncExtension
      BY <2>2, <2>5 DEF SyncExtension, MirrorInv, FlowBehind, FlowInOrder, shootVars, seedVars
    <2> QED
      BY <2>2, <2>3, <2>4, <2>5
  <1>3. /\ UNCHANGED <<osc, hook, deleting>>
        /\ ~deleting => flow' # "done" /\ flow' # "deploying" /\ flow # "deploying"
        /\ deleting => flow' = flow
    BY DEF BeginFlow, SyncSecrets, SyncExtension, DeleteExtension, shootVars, seedVars
  <1>4. FlowServesExtension'
    BY <1>3 DEF MirrorInv, FlowServesExtension
  <1> QED
    BY <1>1, <1>2, <1>4 DEF MirrorInv, FlowBehind

LEMMA RequestInv ==
  ASSUME MirrorInv, DeployOSC \/ TouchOSC \/ RemoveFinalizer
  PROVE  MirrorInv'
  <1>1. TypeOK /\ FlowServesExtension /\ osc \in OSCs
    BY DEF MirrorInv, TypeOK
  <1>2. UNCHANGED <<shootVars, seedVars, osc>>
    BY DEF DeployOSC, TouchOSC, RemoveFinalizer
  <1>3. FlowBehind'
    BY <1>2, SameFlow DEF DeployOSC, TouchOSC, RemoveFinalizer, shootVars, seedVars
  <1>4. CASE DeployOSC
    <2>1. ~deleting /\ flow' = "deploying" /\ Serve("deploy", Spec0)
      BY <1>4 DEF DeployOSC
    <2>2. TypeOK'
      BY <1>1, <1>2, <2>1, BareType, ServeType DEF TypeOK, shootVars, seedVars
    <2>3. hook'.purpose = "deploy" /\ hook'.mutate /\ hook'.osc = Spec0
      BY <1>1, <2>1, BareType, ServeType
    <2>4. FromExtension(hook'.todo) = Spec0
      <3>1. CASE hook'.todo = {}
        BY <1>1, <2>1, <3>1, BareType, ServeType, NothingFromNothing
      <3>2. CASE hook'.todo = {"EnsureCRIConfig", "EnsureAdditionalFiles"}
        BY <3>2 DEF FromExtension, Spec0
      <3> QED
        BY <1>1, <2>1, <3>1, <3>2, BareType, ServeType
    <2>5. (FromExtension(hook.todo))' = FromExtension(hook'.todo)
      BY <1>2 DEF FromExtension, WithMirrors, WithFiles, seedVars
    <2>6. FlowServesExtension'
      BY <1>1, <1>2, <2>1, <2>3, <2>4, <2>5 DEF FlowServesExtension, shootVars, seedVars, Spec0
    <2> QED
      BY <1>3, <2>2, <2>6 DEF MirrorInv, FlowBehind
  <1>5. CASE TouchOSC
    <2>1. hook.purpose = "none" /\ osc.present /\ Serve("touch", osc) /\ UNCHANGED flow
      BY <1>5 DEF TouchOSC
    <2>2. TypeOK'
      BY <1>1, <1>2, <2>1, ServeType DEF TypeOK, shootVars, seedVars
    <2>3. hook'.purpose = "touch" /\ hook'.osc = osc /\ hook'.mutate = ~deleting
      BY <1>1, <2>1, ServeType
    <2>4. FlowServesExtension'
      BY <1>1, <1>2, <2>1, <2>3, FromExtensionFrame DEF FlowServesExtension, shootVars, seedVars
    <2> QED
      BY <1>3, <2>2, <2>4 DEF MirrorInv, FlowBehind
  <1>6. CASE RemoveFinalizer
    <2>1. /\ deleting /\ osc.present /\ hook.purpose \in {"none", "touch"}
          /\ Serve("finalize", osc) /\ UNCHANGED flow
      BY <1>6 DEF RemoveFinalizer
    <2>2. TypeOK'
      BY <1>1, <1>2, <2>1, ServeType DEF TypeOK, shootVars, seedVars
    <2>3. hook'.purpose = "finalize" /\ hook'.osc = osc
      BY <1>1, <2>1, ServeType
    <2>4. FlowServesExtension'
      BY <1>1, <1>2, <2>1, <2>3 DEF FlowServesExtension, shootVars, seedVars
    <2> QED
      BY <1>3, <2>2, <2>4 DEF MirrorInv, FlowBehind
  <1> QED
    BY <1>4, <1>5, <1>6

LEMMA DenyInv ==
  ASSUME MirrorInv, Deny, UNCHANGED <<shootVars, seedVars, osc>>
  PROVE  MirrorInv'
  <1>1. hook' = NoHook /\ hook'.purpose = "none" /\ hook'.todo = {}
    BY DEF Deny, NoHook
  <1>2. TypeOK'
    BY <1>1, BareType DEF MirrorInv, TypeOK, Deny, NoHook, shootVars, seedVars
  <1>3. FlowBehind'
    BY SameFlow DEF Deny, MirrorInv, FlowServesExtension, shootVars, seedVars
  <1>4. flow' # "deploying" /\ (flow' = "done" => flow = "done")
    BY DEF Deny, MirrorInv, FlowServesExtension
  <1>5. FlowServesExtension'
    BY <1>1, <1>4, FromExtensionFrame DEF MirrorInv, FlowServesExtension, shootVars, seedVars
  <1> QED
    BY <1>2, <1>3, <1>5 DEF MirrorInv, FlowBehind

LEMMA AdmitInv ==
  ASSUME MirrorInv, Admit
  PROVE  MirrorInv'
  <1>1. hook'.purpose = "none" /\ hook'.todo = {} /\ hook.purpose # "none" /\ hook.todo = {}
        /\ UNCHANGED <<shootVars, seedVars>>
    BY DEF Admit, NoHook
  <1>2. TypeOK'
    BY <1>1, BareType DEF MirrorInv, TypeOK, Admit, NoHook, shootVars, seedVars
  <1>3. FlowBehind'
    BY <1>1, SameFlow DEF Admit, MirrorInv, FlowServesExtension, shootVars, seedVars
  <1>4. flow' # "deploying"
    BY DEF Admit, MirrorInv, FlowServesExtension
  <1>5. ~deleting => osc' = hook.osc /\ osc'.present
    BY <1>1 DEF Admit, MirrorInv, FlowServesExtension
  <1>6. ~deleting /\ flow' = "done" => osc' = FromExtension({})
    BY <1>1, <1>5 DEF Admit, MirrorInv, FlowServesExtension, TypeOK
  <1>7. FlowServesExtension'
    BY <1>1, <1>4, <1>5, <1>6, FromExtensionFrame DEF FlowServesExtension, shootVars, seedVars
  <1> QED
    BY <1>2, <1>3, <1>7 DEF MirrorInv, FlowBehind

(* An ensurer is done with its part.                                       *)
LEMMA EnsuredInv ==
  ASSUME MirrorInv, NEW e \in hook.todo, NEW o \in OSCs, Ensured(e, o), o.present,
         ~deleting /\ hook.purpose = "deploy" => o = FromExtension(hook.todo \ {e}),
         ~deleting /\ flow = "done" /\ hook.purpose = "touch" => o = hook.osc,
         UNCHANGED <<shootVars, seedVars, osc>>
  PROVE  MirrorInv'
  <1>1. hook' = [hook EXCEPT !.todo = hook.todo \ {e}, !.osc = o] /\ UNCHANGED flow
    BY DEF Ensured
  <1>2. hook'.purpose = hook.purpose /\ hook'.mutate = hook.mutate
        /\ hook'.todo = hook.todo \ {e} /\ hook'.osc = o
    BY <1>1 DEF MirrorInv, TypeOK
  <1>3. TypeOK'
    BY <1>1 DEF MirrorInv, TypeOK, shootVars, seedVars
  <1>4. FlowBehind'
    BY <1>1, SameFlow DEF shootVars, seedVars
  <1>5. FromExtension(hook.todo)' = FromExtension(hook.todo \ {e})
    BY <1>2 DEF FromExtension, WithMirrors, WithFiles, seedVars
  <1>6. FlowServesExtension'
    BY <1>1, <1>2, <1>5, FromExtensionFrame
    DEF MirrorInv, FlowServesExtension, shootVars, seedVars
  <1> QED
    BY <1>3, <1>4, <1>6 DEF MirrorInv, FlowBehind

LEMMA EnsureCRIConfigInv ==
  ASSUME MirrorInv, EnsureCRIConfig
  PROVE  MirrorInv'
  <1> DEFINE o == [hook.osc EXCEPT !.registries = WithMirrors(hook.osc.registries)]
  <1>1. TypeOK /\ FlowServesExtension /\ "EnsureCRIConfig" \in hook.todo /\ hook.osc \in OSCs
        /\ hook.osc.present /\ hook.purpose # "none"
        /\ UNCHANGED <<shootVars, seedVars, osc>>
    BY DEF MirrorInv, FlowServesExtension, TypeOK, EnsureCRIConfig
  <1>2. CASE ~hook.mutate
    <2>1. Ensured("EnsureCRIConfig", hook.osc) /\ deleting
      BY <1>1, <1>2 DEF EnsureCRIConfig, FlowServesExtension
    <2> QED
      BY <1>1, <2>1, EnsuredInv
  <1>3. CASE hook.mutate /\ extension = <<>>
    BY <1>1, <1>3, DenyInv DEF EnsureCRIConfig
  <1>4. CASE hook.mutate /\ extension # <<>>
    <2>1. Ensured("EnsureCRIConfig", o)
      BY <1>4 DEF EnsureCRIConfig
    <2>2. o \in OSCs /\ o.present = hook.osc.present /\ o.files = hook.osc.files
          /\ o.registries = WithMirrors(hook.osc.registries)
      BY <1>1, MutationType DEF OSCs
    <2>3. ASSUME ~deleting, hook.purpose = "deploy"
          PROVE  o = FromExtension(hook.todo \ {"EnsureCRIConfig"})
      <3>1. hook.osc = FromExtension(hook.todo)
        BY <1>1, <2>3 DEF FlowServesExtension
      <3> DEFINE q == FromExtension(hook.todo \ {"EnsureCRIConfig"})
      <3>2. hook.osc.registries = Spec0.registries
            /\ hook.osc.present = q.present /\ hook.osc.files = q.files
            /\ q.registries = WithMirrors(Spec0.registries)
        BY <1>1, <3>1 DEF FromExtension
      <3>3. q \in OSCs
        BY <1>1, FromExtensionType
      <3> HIDE DEF o, q
      <3> QED
        BY <2>2, <3>2, <3>3, SameOSC DEF q
    <2>4. ASSUME ~deleting, flow = "done", hook.purpose = "touch" PROVE o = hook.osc
      <3>1. hook.osc = FromExtension({})
        BY <1>1, <2>4 DEF FlowServesExtension
      <3>2. hook.osc.registries = WithMirrors(Spec0.registries)
            /\ Spec0.registries \in [Upstreams -> Entries]
        BY <3>1, BareType DEF FromExtension, OSCs
      <3>3. WithMirrors(hook.osc.registries) = hook.osc.registries
        BY <3>2, MirrorsIdempotent
      <3> HIDE DEF o
      <3> QED
        BY <1>1, <2>2, <3>3, SameOSC
    <2> HIDE DEF o
    <2> QED
      BY <1>1, <2>1, <2>2, <2>3, <2>4, EnsuredInv
  <1> QED
    BY <1>2, <1>3, <1>4

LEMMA EnsureAdditionalFilesInv ==
  ASSUME MirrorInv, EnsureAdditionalFiles
  PROVE  MirrorInv'
  <1> DEFINE o == [hook.osc EXCEPT !.files = WithFiles(hook.osc.files)]
             failed == \/ extension = <<>>
                       \/ \E x \in CAHosts(extension) : Unreadable(x)
  <1>1. TypeOK /\ FlowServesExtension /\ "EnsureAdditionalFiles" \in hook.todo
        /\ hook.osc \in OSCs /\ hook.osc.present /\ hook.purpose # "none"
        /\ UNCHANGED <<shootVars, seedVars, osc>>
    BY DEF MirrorInv, FlowServesExtension, TypeOK, EnsureAdditionalFiles
  <1>2. CASE ~hook.mutate
    <2>1. Ensured("EnsureAdditionalFiles", hook.osc) /\ deleting
      BY <1>1, <1>2 DEF EnsureAdditionalFiles, FlowServesExtension
    <2> QED
      BY <1>1, <2>1, EnsuredInv
  <1>3. CASE hook.mutate /\ failed
    BY <1>1, <1>3, DenyInv DEF EnsureAdditionalFiles
  <1>4. CASE hook.mutate /\ ~failed
    <2>1. Ensured("EnsureAdditionalFiles", o)
      BY <1>4 DEF EnsureAdditionalFiles
    <2>2. o \in OSCs /\ o.present = hook.osc.present /\ o.registries = hook.osc.registries
          /\ o.files = WithFiles(hook.osc.files)
      BY <1>1, MutationType DEF OSCs
    <2>3. ASSUME ~deleting, hook.purpose = "deploy"
          PROVE  o = FromExtension(hook.todo \ {"EnsureAdditionalFiles"})
      <3>1. hook.osc = FromExtension(hook.todo)
        BY <1>1, <2>3 DEF FlowServesExtension
      <3> DEFINE q == FromExtension(hook.todo \ {"EnsureAdditionalFiles"})
      <3>2. hook.osc.files = Spec0.files
            /\ hook.osc.present = q.present /\ hook.osc.registries = q.registries
            /\ q.files = WithFiles(Spec0.files)
        BY <1>1, <3>1 DEF FromExtension
      <3>3. q \in OSCs
        BY <1>1, FromExtensionType
      <3> HIDE DEF o, q
      <3> QED
        BY <2>2, <3>2, <3>3, SameOSC DEF q
    <2>4. ASSUME ~deleting, flow = "done", hook.purpose = "touch" PROVE o = hook.osc
      <3>1. hook.osc = FromExtension({})
        BY <1>1, <2>4 DEF FlowServesExtension
      <3>2. hook.osc.files = WithFiles(Spec0.files)
            /\ Spec0.files \in [Paths -> Contents \cup {"absent", NoFile}]
        BY <3>1, BareType DEF FromExtension, OSCs
      <3>3. WithFiles(hook.osc.files) = hook.osc.files
        BY <3>2, FilesIdempotent
      <3> HIDE DEF o
      <3> QED
        BY <1>1, <2>2, <3>3, SameOSC
    <2> HIDE DEF o
    <2> QED
      BY <1>1, <2>1, <2>2, <2>3, <2>4, EnsuredInv
  <1> QED
    BY <1>2, <1>3, <1>4

LEMMA StepInv == MirrorInv /\ [Next]_vars => MirrorInv'
  <1> SUFFICES ASSUME MirrorInv, [Next]_vars PROVE MirrorInv'
    OBVIOUS
  <1>1. CASE Flow
    BY <1>1, FlowInv, RequestInv DEF Flow
  <1>2. CASE Webhook
    BY <1>2, EnsureCRIConfigInv, EnsureAdditionalFilesInv, AdmitInv DEF Webhook
  <1>3. CASE Environment
    BY <1>3, EnvironmentInv, RequestInv DEF Environment
  <1>4. CASE DeleteExtension \/ RemoveFinalizer
    BY <1>4, FlowInv, RequestInv
  <1>5. CASE Deleted \/ UNCHANGED vars
    <2>1. UNCHANGED <<config, secrets, replaced, deleting, changes, cluster, seed, extension,
                      osc, hook, flow>>
      BY <1>5 DEF Deleted, vars, shootVars, seedVars
    <2> QED
      BY <2>1, SameFlow, FromExtensionFrame
      DEF MirrorInv, TypeOK, FlowBehind, FlowServesExtension, seedVars
  <1> QED
    BY <1>1, <1>2, <1>3, <1>4, <1>5 DEF Next

(* The state of gardenlet's flow, of the request that is served and of     *)
(* what was written fit together, whoever else writes the                  *)
(* OperatingSystemConfig and whichever ensurer runs first.                 *)
THEOREM MirrorCorrect == Spec => []MirrorInv
  BY InitInv, StepInv, PTL DEF Spec

-----------------------------------------------------------------------------
(* What the written OperatingSystemConfig holds.                           *)

(* The registry of an upstream with a mirror has the hosts of that mirror: *)
(* an admitted configuration has one mirror per upstream.                  *)
LEMMA RegistryOfMirror ==
  ASSUME ValidMirrorConfig(extension), NEW i \in DOMAIN extension, NEW r,
         extension[i].upstream \in Upstreams
  PROVE  WithMirrors(r)[extension[i].upstream] = HostEntries(extension[i])
  <1> DEFINE mirrors == {k \in DOMAIN extension : extension[k].upstream = extension[i].upstream}
  <1>1. mirrors = {i}
    BY DEF ValidMirrorConfig
  <1> QED
    BY <1>1 DEF WithMirrors

(* A file that a host names holds a bundle, and the bundle of that host if *)
(* no other host has the same path.                                        *)
LEMMA FileOfHost ==
  ASSUME TypeOK, NEW x \in CAHosts(extension), NEW f
  PROVE  /\ (\A r \in RefsOf(extension) : seed[r] # "absent") =>
              WithFiles(f)[PathAt(extension, x)] \in Contents
         /\ (\A y \in CAHosts(extension) : PathAt(extension, y) = PathAt(extension, x) => y = x)
              => WithFiles(f)[PathAt(extension, x)] = seed[RefAt(extension, x)]
  <1> DEFINE p == PathAt(extension, x)
             named == {y \in CAHosts(extension) : PathAt(extension, y) = p}
  <1>1. extension \in MirrorConfigs /\ p \in Paths /\ x \in named
    BY CAHostsType DEF TypeOK
  <1>2. named \in SUBSET Positions
    BY DEF CAHosts
  <1>3. LastOf(named) \in named
    <2> HIDE DEF named
    <2> QED
      BY <1>1, <1>2, LastOfExists
  <1>4. WithFiles(f)[p] = seed[RefAt(extension, LastOf(named))]
    BY <1>1 DEF WithFiles
  <1>5. RefAt(extension, LastOf(named)) \in Refs \cap RefsOf(extension)
    BY <1>1, <1>3, CAHostsType, RefsOfType
  <1> QED
    BY <1>3, <1>4, <1>5 DEF TypeOK

(* A flow that is done serves the mirrors of the Extension.                *)
LEMMA MirrorInvServes == MirrorInv => DoneServesMirrors
  <1> SUFFICES ASSUME MirrorInv, flow = "done", ~deleting, NEW u \in Upstreams
               PROVE  /\ osc.registries[u] # <<>> =>
                           \E i \in DOMAIN extension : extension[i].upstream = u
                      /\ \A i \in DOMAIN extension : extension[i].upstream = u =>
                           /\ DOMAIN osc.registries[u] = DOMAIN extension[i].hosts
                           /\ \A j \in DOMAIN osc.registries[u] :
                                osc.registries[u][j].host = extension[i].hosts[j].host
                      /\ \A j \in DOMAIN osc.registries[u] :
                           osc.registries[u][j].ca # NoFile =>
                             osc.files[osc.registries[u][j].ca] \in Contents
    BY DEF DoneServesMirrors
  <1>1. /\ TypeOK /\ ValidMirrorConfig(extension) /\ osc = FromExtension({})
        /\ \A r \in RefsOf(extension) : seed[r] # "absent"
    BY DEF MirrorInv, FlowServesExtension, FlowInOrder
  <1>2. osc.registries = WithMirrors(Spec0.registries) /\ osc.files = WithFiles(Spec0.files)
    BY <1>1 DEF FromExtension
  <1>3. CASE \A i \in DOMAIN extension : extension[i].upstream # u
    <2>1. osc.registries[u] = <<>>
      BY <1>2, <1>3 DEF WithMirrors, Spec0
    <2> QED
      BY <1>3, <2>1
  <1>4. ASSUME NEW i \in DOMAIN extension, extension[i].upstream = u
        PROVE  /\ osc.registries[u] = HostEntries(extension[i])
               /\ \A k \in DOMAIN extension : extension[k].upstream = u => k = i
    BY <1>1, <1>2, <1>4, RegistryOfMirror DEF ValidMirrorConfig
  <1>5. ASSUME NEW i \in DOMAIN extension, extension[i].upstream = u,
               NEW j \in DOMAIN extension[i].hosts, HostEntries(extension[i])[j].ca # NoFile
        PROVE  osc.files[HostEntries(extension[i])[j].ca] \in Contents
    <2> DEFINE x == <<i, j>>
    <2>1. extension[i] \in Mirrors /\ i \in 1..MaxMirrors /\ j \in 1..MaxHosts
      BY <1>1, ConfigType, HostsType DEF TypeOK
    <2>2. x \in CAHosts(extension) /\ HostEntries(extension[i])[j].ca = PathAt(extension, x)
      BY <1>5, <2>1 DEF CAHosts, Positions, HostEntries, RefAt, PathAt
    <2>3. osc.files[PathAt(extension, x)] \in Contents
      BY <1>1, <1>2, <2>2, FileOfHost
    <2> QED
      BY <2>2, <2>3
  <1>6. ASSUME NEW i \in DOMAIN extension, extension[i].upstream = u
        PROVE  /\ DOMAIN osc.registries[u] = DOMAIN extension[i].hosts
               /\ \A j \in DOMAIN osc.registries[u] :
                    osc.registries[u][j].host = extension[i].hosts[j].host
    <2>1. osc.registries[u] = HostEntries(extension[i])
      BY <1>4, <1>6
    <2>2. /\ DOMAIN HostEntries(extension[i]) = DOMAIN extension[i].hosts
          /\ \A j \in DOMAIN extension[i].hosts :
               HostEntries(extension[i])[j].host = extension[i].hosts[j].host
      BY DEF HostEntries
    <2> QED
      BY <2>1, <2>2
  <1>7. CASE \E i \in DOMAIN extension : extension[i].upstream = u
    <2>1. PICK i \in DOMAIN extension : extension[i].upstream = u
      BY <1>7
    <2>2. osc.registries[u] = HostEntries(extension[i])
          /\ DOMAIN osc.registries[u] = DOMAIN extension[i].hosts
      BY <1>4, <1>6, <2>1
    <2>3. \A j \in DOMAIN osc.registries[u] :
            osc.registries[u][j].ca # NoFile =>
              osc.files[osc.registries[u][j].ca] \in Contents
      BY <1>5, <2>1, <2>2
    <2> QED
      BY <1>6, <1>7, <2>3
  <1> QED
    BY <1>3, <1>7

(* When gardenlet's flow is done, the nodes are given the mirrors of the   *)
(* Extension and the CA files that their hosts name.                       *)
THEOREM MirrorsServed == Spec => []DoneServesMirrors
  BY MirrorCorrect, MirrorInvServes, PTL

(* No two hosts with a CA bundle have the same file name.                  *)
NoPathShared ==
  \A x, y \in CAHosts(extension) : PathAt(extension, x) = PathAt(extension, y) => x = y

LEMMA MirrorInvOwnBundles == MirrorInv /\ NoPathShared => HostsHaveOwnBundle
  <1> SUFFICES ASSUME MirrorInv, NoPathShared, flow = "done", ~deleting,
                      NEW x \in CAHosts(extension)
               PROVE  osc.files[PathAt(extension, x)] = seed[RefAt(extension, x)]
    BY DEF HostsHaveOwnBundle
  <1>1. TypeOK /\ osc = FromExtension({})
    BY DEF MirrorInv, FlowServesExtension
  <1>2. osc.files = WithFiles(Spec0.files)
    BY <1>1 DEF FromExtension
  <1>3. \A y \in CAHosts(extension) : PathAt(extension, y) = PathAt(extension, x) => y = x
    BY DEF NoPathShared
  <1> QED
    BY <1>1, <1>2, <1>3, FileOfHost

(* Shared file names are the only way in which a host gets the CA bundle   *)
(* of another: without them the file of every host holds the bundle it     *)
(* refers to.                                                              *)
THEOREM OwnBundles == Spec => [](NoPathShared => HostsHaveOwnBundle)
  BY MirrorCorrect, MirrorInvOwnBundles, PTL

=============================================================================
