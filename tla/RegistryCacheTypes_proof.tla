---------------------- MODULE RegistryCacheTypes_proof ----------------------
(***************************************************************************)
(* Type correctness of RegistryCacheSystem, for every set of upstreams and *)
(* addresses and for all bounds.                                           *)
(***************************************************************************)
EXTENDS RegistryCacheSystem, TLAPS

(* The shape of the constant operators, stated once.                       *)
LEMMA NoObjectType ==
  /\ NoObject \in Objects /\ NoObjects \in [Names -> Objects]
  /\ NothingSeen \in [Upstreams -> Objects]
  BY BoundsAssumption DEF NoObject, NoObjects, NothingSeen, Objects, Schemes

LEMMA PlainType == \A u \in Upstreams, s \in Schemes \cup {"none"} : Plain(u, s) \in Objects
  BY BoundsAssumption DEF Plain, Objects, Schemes

LEMMA NoResourceType == NoResource \in ManagedResources
  BY NoObjectType DEF NoResource, ManagedResources

LEMMA NoStatusType == NoStatus \in Statuses
  BY DEF NoStatus, Statuses, Configs, Schemes

LEMMA NoLocalType == NoLocal \in Locals
  BY NoObjectType, BoundsAssumption
  DEF NoLocal, Locals, Configs, Schemes, Epochs, Owners, NoOwners

LEMMA InitTypes == Init => TypeOK
  <1> SUFFICES ASSUME Init PROVE TypeOK
    OBVIOUS
  <1>1. mr \in [Kinds -> ManagedResources] /\ objects \in [Kinds -> [Names -> Objects]]
    BY NoObjectType, NoResourceType DEF Init
  <1>2. local \in Locals /\ status \in Statuses
    BY NoLocalType, NoStatusType DEF Init
  <1>3. cas \in [Epochs -> 0..MaxCA] /\ bundles \in SUBSET SUBSET CAIds /\ lastCA \in 0..MaxCA
    BY BoundsAssumption DEF Init, Epochs
  <1> QED
    BY <1>1, <1>2, <1>3, BoundsAssumption
    DEF Init, TypeOK, Epochs, Stages, Operations, PCs, MonitoringObjects, Namings

(* How an operation moves on or ends keeps the worker's variables typed.   *)
WorkerTyped ==
  /\ pc' \in PCs /\ op' \in Operations /\ request' \in Operations
  /\ local' \in Locals /\ stage' \in Stages

LEMMA AbortTypes == TypeOK /\ Abort => WorkerTyped
  BY NoLocalType DEF TypeOK, Abort, WorkerTyped, PCs, Operations

LEMMA CompleteTypes == TypeOK /\ Complete => WorkerTyped
  BY NoLocalType DEF TypeOK, Complete, WorkerTyped, PCs, Operations, Stages

LEMMA GotoTypes ==
  ASSUME TypeOK, NEW l \in PCs, Goto(l), UNCHANGED <<local, stage>>
  PROVE  WorkerTyped
  BY DEF TypeOK, Goto, WorkerTyped

(* What the components write into a ManagedResource is typed.              *)
LEMMA DesiredTypes ==
  ASSUME TypeOK
  PROVE  DesiredServices \in [Names -> Objects] /\ DesiredCaches \in [Names -> Objects]
  <1>1. /\ local.caches \in [Upstreams -> Schemes \cup {"none"}]
        /\ local.owners \in [Names -> Upstreams \cup {NoUpstream}]
        /\ local.signer \in 0..MaxCA /\ local.certs \in [Upstreams -> Objects]
    BY DEF TypeOK, Locals, Configs, Owners
  <1>2. ASSUME NEW u \in Upstreams PROVE local.certs[u].ip \in IPs \cup {NoIP}
    BY <1>1 DEF Objects
  <1>3. ASSUME NEW u \in Upstreams
        PROVE  [Plain(u, "https") EXCEPT !.ca = local.signer, !.ip = local.certs[u].ip]
                 \in Objects
    BY <1>1, <1>2 DEF Objects, Schemes, Plain
  <1>4. DesiredServices \in [Names -> Objects]
    BY <1>1, NoObjectType, PlainType DEF DesiredServices
  <1>5. ASSUME NEW n \in Names PROVE DesiredCaches[n] \in Objects
    BY <1>1, <1>3, NoObjectType, PlainType DEF DesiredCaches, Schemes, Caches
  <1> QED
    BY <1>4, <1>5 DEF DesiredCaches

(* The StatefulSet of each upstream.                                       *)
LEMMA DesiredCache ==
  ASSUME TypeOK, NEW u \in Upstreams
  PROVE  /\ DesiredCaches[u].scheme = local.caches[u]
         /\ DesiredCaches[u].ca = IF local.caches[u] = "https" THEN local.signer ELSE 0
         /\ local.caches[u] = "https" => DesiredCaches[u].ip = local.certs[u].ip
  <1>1. u \in Names /\ local.caches[u] \in {"none", "http", "https"}
    BY NamesAssumption DEF TypeOK, Locals, Configs, Schemes
  <1> QED
    BY <1>1 DEF DesiredCaches, Caches, NoObject, Plain

LEMMA DeployTypes ==
  ASSUME TypeOK, NEW k \in Kinds, NEW d \in [Names -> Objects], Deploy(k, d)
  PROVE  mr' \in [Kinds -> ManagedResources]
  <1>1. mr[k] \in ManagedResources
    BY DEF TypeOK
  <1>2. Deployed(mr[k], d) \in ManagedResources
    BY <1>1 DEF ManagedResources, Deployed
  <1> QED
    BY <1>2 DEF TypeOK, Deploy

LEMMA FlagTypes ==
  ASSUME TypeOK, NEW k \in Kinds, NEW b \in BOOLEAN, NEW t \in SUBSET Names
  PROVE  /\ [mr EXCEPT ![k].keep = b] \in [Kinds -> ManagedResources]
         /\ [mr EXCEPT ![k].deleting = b] \in [Kinds -> ManagedResources]
         /\ [mr EXCEPT ![k].observed = b] \in [Kinds -> ManagedResources]
         /\ [mr EXCEPT ![k].tracked = t] \in [Kinds -> ManagedResources]
  <1>1. mr[k] \in ManagedResources
    BY DEF TypeOK
  <1>2. /\ [mr[k] EXCEPT !.keep = b] \in ManagedResources
        /\ [mr[k] EXCEPT !.deleting = b] \in ManagedResources
        /\ [mr[k] EXCEPT !.observed = b] \in ManagedResources
        /\ [mr[k] EXCEPT !.tracked = t] \in ManagedResources
    BY <1>1 DEF ManagedResources
  <1> QED
    BY <1>2 DEF TypeOK

(* CA identifiers: the secrets manager numbers the key pairs it generates. *)
LEMMA SecretTypes ==
  ASSUME TypeOK, NEW current \in Epochs, NEW keep \in BOOLEAN
  PROVE  /\ OldCA(current, keep) \subseteq CAIds
         /\ cas[current] \in 0..MaxCA
         /\ Signers(current, keep) \subseteq 0..MaxCA
  <1>1. cas[current] \in 0..MaxCA
    BY DEF TypeOK
  <1>2. OldCA(current, keep) \subseteq CAIds
    BY BoundsAssumption DEF TypeOK, OldCA, OldEpochs, CAIds
  <1>3. CAIds \subseteq 0..MaxCA
    BY BoundsAssumption DEF CAIds
  <1>4. Signers(current, keep) \subseteq 0..MaxCA
    BY <1>1, <1>2, <1>3 DEF Signers
  <1> QED
    BY <1>1, <1>2, <1>4

LEMMA LocalTypes == TypeOK => local.epoch \in Epochs /\ local.keepOld \in BOOLEAN
  BY DEF TypeOK, Locals

(* A bundle is written only after its CA: TypeOK needs this to exclude a   *)
(* bundle of the absent CA.                                                *)
CAGenerated == pc = "generateBundle" => cas[local.epoch] # 0

LEMMA ReconcileTypes == TypeOK /\ CAGenerated /\ ReconcileStep => TypeOK'
  <1> SUFFICES ASSUME TypeOK, CAGenerated, ReconcileStep PROVE TypeOK'
    OBVIOUS
  <1> USE BoundsAssumption DEF shootVars, workerVars, shootObjVars, secretVars, boundVars
  <1>1. CASE DeployServices
    <2>1. WorkerTyped
      BY <1>1, GotoTypes DEF DeployServices, PCs
    <2>2. mr' \in [Kinds -> ManagedResources]
      BY <1>1, DesiredTypes, DeployTypes DEF DeployServices, Kinds
    <2> QED
      BY <1>1, <2>1, <2>2 DEF TypeOK, WorkerTyped, DeployServices
  <1>2. CASE AwaitHealthy
    <2>1. WorkerTyped
      BY <1>2, GotoTypes, AbortTypes DEF AwaitHealthy, PCs
    <2> QED
      BY <1>2, <2>1 DEF TypeOK, WorkerTyped, AwaitHealthy
  <1>3. CASE FetchServices
    <2>1. \A schemes : LastListed(schemes) \subseteq [Upstreams -> Objects]
      BY NoObjectType DEF TypeOK, Kinds, LastListed
    <2>2. ASSUME NEW s \in [Upstreams -> Objects], NEW c \in [Upstreams -> Objects]
          PROVE  [local EXCEPT !.seen = s, !.certs = c] \in Locals
      BY DEF TypeOK, Locals
    <2>3. CASE AllServicesFound
      <3>1. Goto("generateCA") /\ UNCHANGED stage
        BY <1>3, <2>3 DEF FetchServices
      <3>2. PICK seen \in LastListed(Schemes), certs \in LastListed({"https"}) :
              local' = [local EXCEPT !.seen = seen, !.certs = certs]
        BY <1>3, <2>3 DEF FetchServices
      <3>3. local' \in Locals
        BY <2>1, <2>2, <3>2
      <3> QED
        BY <1>3, <3>1, <3>3 DEF FetchServices, Goto, TypeOK, PCs
    <2>4. CASE ~AllServicesFound
      <3>1. WorkerTyped
        BY <1>3, <2>4, AbortTypes DEF FetchServices
      <3> QED
        BY <1>3, <3>1 DEF TypeOK, WorkerTyped, FetchServices
    <2> QED
      BY <2>3, <2>4
  <1>4. CASE GenerateCA
    <2>1. WorkerTyped
      BY <1>4, GotoTypes DEF GenerateCA, PCs
    <2>2. cas' \in [Epochs -> 0..MaxCA] /\ lastCA' \in 0..MaxCA
      BY <1>4, SecretTypes, LocalTypes DEF GenerateCA, TypeOK
    <2> QED
      BY <1>4, <2>1, <2>2 DEF TypeOK, WorkerTyped, GenerateCA
  <1>5. CASE GenerateBundle
    <2> DEFINE bundle == {cas[local.epoch]} \cup OldCA(local.epoch, local.keepOld)
    <2>1. bundle \in SUBSET CAIds
      BY <1>5, SecretTypes, LocalTypes DEF GenerateBundle, CAGenerated, CAIds
    <2>2. bundles' \in SUBSET SUBSET CAIds
      BY <1>5, <2>1 DEF GenerateBundle, TypeOK
    <2>3. ASSUME NEW c \in Signers(local.epoch, local.keepOld)
          PROVE  [local EXCEPT !.bundle = bundle, !.signer = c] \in Locals
      BY <2>1, SecretTypes, LocalTypes DEF TypeOK, Locals
    <2>4. WorkerTyped
      BY <1>5, <2>3 DEF GenerateBundle, Goto, TypeOK, WorkerTyped, PCs
    <2> QED
      BY <1>5, <2>2, <2>4 DEF TypeOK, WorkerTyped, GenerateBundle
  <1>6. CASE DeployCaches
    <2>1. WorkerTyped
      BY <1>6, GotoTypes, AbortTypes DEF DeployCaches, PCs
    <2>2. mr' \in [Kinds -> ManagedResources]
      BY <1>6, DesiredTypes, DeployTypes DEF DeployCaches, Kinds, TypeOK
    <2> QED
      BY <1>6, <2>1, <2>2 DEF TypeOK, WorkerTyped, DeployCaches
  <1>7. CASE DeployMonitoring
    <2>1. WorkerTyped /\ faults' \in 0..MaxFaults
      BY <1>7, GotoTypes, AbortTypes DEF DeployMonitoring, PCs, Fault, TypeOK
    <2>2. \A i \in 1..3 : DeployOrder[i] \in MonitoringObjects
      BY DEF DeployOrder, MonitoringObjects
    <2>3. \A n \in 0..3 : {DeployOrder[i] : i \in 1..n} \subseteq MonitoringObjects
      BY <2>2
    <2>4. monitoring' \in SUBSET MonitoringObjects
      BY <1>7, <2>3 DEF DeployMonitoring, TypeOK
    <2> QED
      BY <1>7, <2>1, <2>4 DEF TypeOK, WorkerTyped, DeployMonitoring
  <1>8. CASE PatchStatus
    <2>1. WorkerTyped
      BY <1>8, GotoTypes DEF PatchStatus, PCs
    <2>2. local.seen \in [Upstreams -> Objects] /\ local.bundle \in SUBSET CAIds
      BY DEF TypeOK, Locals
    <2>3. status' \in Statuses
      BY <1>8, <2>2 DEF PatchStatus, Statuses, SchemesOf, IPsOf, Configs, Objects
    <2> QED
      BY <1>8, <2>1, <2>3 DEF TypeOK, WorkerTyped, PatchStatus
  <1> QED
    BY <1>1, <1>2, <1>3, <1>4, <1>5, <1>6, <1>7, <1>8 DEF ReconcileStep

LEMMA OtherWorkerTypes == TypeOK /\ (Begin \/ DestroyStep \/ Cleanup \/ Fail) => TypeOK'
  <1> SUFFICES ASSUME TypeOK, Begin \/ DestroyStep \/ Cleanup \/ Fail PROVE TypeOK'
    OBVIOUS
  <1> USE BoundsAssumption DEF shootVars, workerVars, shootObjVars, secretVars, boundVars
  <1>1. CASE Begin
    <2>1. [NoLocal EXCEPT !.caches = caches, !.owners = owners, !.epoch = epoch,
                          !.keepOld = keepOld] \in Locals
      BY NoLocalType DEF Locals, TypeOK
    <2> QED
      BY <1>1, <2>1
      DEF Begin, BeginReconcile, BeginMigrate, BeginDelete, TypeOK, PCs, Operations
  <1>2. CASE KeepServices \/ KeepCaches
    <2>1. PICK k \in Kinds : mr' = [mr EXCEPT ![k].keep = mr[k].present]
      BY <1>2 DEF KeepServices, KeepCaches, Keep, Kinds
    <2>2. mr[k].present \in BOOLEAN
      BY DEF TypeOK, ManagedResources
    <2>3. mr' \in [Kinds -> ManagedResources]
      BY <2>1, <2>2, FlagTypes
    <2>4. WorkerTyped
      BY <1>2, GotoTypes DEF KeepServices, KeepCaches, Keep, PCs
    <2> QED
      BY <1>2, <2>3, <2>4 DEF TypeOK, WorkerTyped, KeepServices, KeepCaches, Keep
  <1>3. CASE DestroyServices \/ DestroyCaches
    <2>1. PICK k \in Kinds : mr' = [mr EXCEPT ![k].deleting = mr[k].present]
      BY <1>3 DEF DestroyServices, DestroyCaches, Kinds
    <2>2. mr[k].present \in BOOLEAN
      BY DEF TypeOK, ManagedResources
    <2>3. mr' \in [Kinds -> ManagedResources]
      BY <2>1, <2>2, FlagTypes
    <2>4. WorkerTyped
      BY <1>3, GotoTypes DEF DestroyServices, DestroyCaches, PCs
    <2> QED
      BY <1>3, <2>3, <2>4 DEF TypeOK, WorkerTyped, DestroyServices, DestroyCaches
  <1>4. CASE AwaitServicesGone \/ AwaitCachesGone
    <2>1. WorkerTyped
      BY <1>4, GotoTypes, AbortTypes, CompleteTypes DEF AwaitServicesGone, AwaitCachesGone, PCs
    <2> QED
      BY <1>4, <2>1 DEF TypeOK, WorkerTyped, AwaitServicesGone, AwaitCachesGone
  <1>5. CASE DestroyMonitoring
    <2>1. WorkerTyped /\ faults' \in 0..MaxFaults /\ monitoring' \in SUBSET MonitoringObjects
      BY <1>5, GotoTypes, AbortTypes DEF DestroyMonitoring, PCs, Fault, TypeOK
    <2> QED
      BY <1>5, <2>1 DEF TypeOK, WorkerTyped, DestroyMonitoring
  <1>6. CASE Cleanup
    <2>1. WorkerTyped /\ faults' \in 0..MaxFaults
      BY <1>6, AbortTypes, CompleteTypes DEF Cleanup, Fault, TypeOK
    <2>2. cas' \in [Epochs -> 0..MaxCA] /\ bundles' \in SUBSET SUBSET CAIds
      BY <1>6 DEF Cleanup, TypeOK
    <2> QED
      BY <1>6, <2>1, <2>2 DEF TypeOK, WorkerTyped, Cleanup
  <1>7. CASE Fail
    <2>1. WorkerTyped /\ faults' \in 0..MaxFaults
      BY <1>7, AbortTypes DEF Fail, Fault, TypeOK
    <2> QED
      BY <1>7, <2>1 DEF TypeOK, WorkerTyped, Fail
  <1> QED
    BY <1>1, <1>2, <1>3, <1>4, <1>5, <1>6, <1>7 DEF DestroyStep

LEMMA ResourceManagerTypes == TypeOK /\ ResourceManager => TypeOK'
  <1> SUFFICES ASSUME TypeOK, NEW k \in Kinds,
                      \/ \E n \in Names :
                           ApplyObject(k, n) \/ AdoptObject(k, n) \/ RemoveObject(k, n)
                      \/ Observe(k) \/ FinishDeletion(k)
               PROVE  TypeOK'
    BY DEF ResourceManager
  <1> USE DEF shootVars, workerVars, shootObjVars, secretVars, boundVars
  <1>1. mr[k] \in ManagedResources /\ mr[k].desired \in [Names -> Objects]
        /\ mr[k].tracked \in SUBSET Names /\ objects[k] \in [Names -> Objects]
    BY DEF TypeOK, ManagedResources
  <1>2. ASSUME NEW n \in Names, ApplyObject(k, n) PROVE TypeOK'
    <2>1. mr' \in [Kinds -> ManagedResources]
      <3>1. mr[k].tracked \cup {n} \in SUBSET Names
        BY <1>1
      <3>2. [mr EXCEPT ![k].tracked = mr[k].tracked \cup {n}] \in [Kinds -> ManagedResources]
        BY <3>1, FlagTypes
      <3> QED
        BY <1>2, <3>2 DEF ApplyObject
    <2>2. \A i \in IPs \cup {NoIP} : [mr[k].desired[n] EXCEPT !.ip = i] \in Objects
      BY <1>1 DEF Objects
    <2>3. objects["services"][n].ip \in IPs \cup {NoIP}
      BY DEF TypeOK, Objects, Kinds
    <2>4. PICK o \in Objects : objects' = [objects EXCEPT ![k][n] = o]
      BY <1>1, <1>2, <2>2, <2>3 DEF ApplyObject, FreeIPs
    <2>5. objects' \in [Kinds -> [Names -> Objects]]
      BY <2>4 DEF TypeOK
    <2> QED
      BY <1>2, <2>1, <2>5 DEF TypeOK, ApplyObject
  <1>3. ASSUME NEW n \in Names, AdoptObject(k, n) PROVE TypeOK'
    <2>1. mr[k].tracked \cup {n} \in SUBSET Names
      BY <1>1
    <2>2. [mr EXCEPT ![k].tracked = mr[k].tracked \cup {n}] \in [Kinds -> ManagedResources]
      BY <2>1, FlagTypes
    <2> QED
      BY <1>3, <2>2 DEF AdoptObject, TypeOK
  <1>4. ASSUME NEW n \in Names, RemoveObject(k, n) PROVE TypeOK'
    <2>1. mr' \in [Kinds -> ManagedResources]
      BY <1>1, <1>4, FlagTypes DEF RemoveObject
    <2>2. objects' \in [Kinds -> [Names -> Objects]]
      BY <1>4, NoObjectType DEF RemoveObject, TypeOK
    <2> QED
      BY <1>4, <2>1, <2>2 DEF RemoveObject, TypeOK
  <1>5. CASE Observe(k)
    BY <1>5, FlagTypes DEF Observe, TypeOK
  <1>6. CASE FinishDeletion(k)
    BY <1>6, NoResourceType DEF FinishDeletion, TypeOK
  <1> QED
    BY <1>2, <1>3, <1>4, <1>5, <1>6

LEMMA EnvironmentTypes == TypeOK /\ (Gardenlet \/ Users \/ Disabled) => TypeOK'
  <1> SUFFICES ASSUME TypeOK, Gardenlet \/ Users \/ Disabled PROVE TypeOK'
    OBVIOUS
  <1> USE BoundsAssumption DEF shootVars, workerVars, shootObjVars, secretVars, boundVars
  <1>1. CASE StartRotation \/ CompleteRotation \/ RequestReconcile
    <2>1. epoch' \in Epochs /\ request' \in Operations
      BY <1>1 DEF StartRotation, CompleteRotation, RequestReconcile, TypeOK, Operations, Epochs
    <2>2. keepOld' \in BOOLEAN
      BY <1>1, Zenon DEF StartRotation, CompleteRotation, RequestReconcile, TypeOK
    <2> QED
      BY <1>1, <2>1, <2>2 DEF StartRotation, CompleteRotation, RequestReconcile, TypeOK
  <1>2. CASE RequestMigrate \/ RequestDelete \/ RequestForceDelete
    BY <1>2 DEF RequestMigrate, RequestDelete, RequestForceDelete, UserChange, TypeOK,
                Operations, Stages
  <1>3. CASE RequestRestore \/ Enable
    BY <1>3, NoStatusType DEF RequestRestore, Enable, TypeOK, Operations, Stages, Namings
  <1>4. CASE ChangeCaches \/ ToggleHibernation
    <2>1. /\ caches' \in Configs /\ owners' \in Owners
          /\ request' \in Operations /\ changes' \in 0..MaxChanges
      BY <1>4 DEF ChangeCaches, ToggleHibernation, UserChange, TypeOK, Operations, Namings
    <2>2. awake' \in BOOLEAN
      BY <1>4, Zenon DEF ChangeCaches, ToggleHibernation, TypeOK
    <2> QED
      BY <1>4, <2>1, <2>2 DEF ChangeCaches, ToggleHibernation, UserChange, TypeOK
  <1>5. ASSUME NEW n \in Names, DeleteService(n) PROVE TypeOK'
    BY <1>5, NoObjectType DEF DeleteService, Fault, TypeOK, Kinds
  <1>6. CASE Disabled
    BY <1>6 DEF Disabled, vars, TypeOK
  <1> QED
    BY <1>1, <1>2, <1>3, <1>4, <1>5, <1>6 DEF Gardenlet, Users

LEMMA CAGeneratedStep == TypeOK /\ CAGenerated /\ [Next]_vars => CAGenerated'
  <1> SUFFICES ASSUME TypeOK, CAGenerated, [Next]_vars, pc' = "generateBundle"
               PROVE  cas'[local'.epoch] # 0
    BY DEF CAGenerated
  <1> USE DEF shootVars, workerVars, shootObjVars, secretVars, boundVars
  <1>1. CASE UNCHANGED <<pc, local, cas>>
    BY <1>1 DEF CAGenerated
  <1>2. CASE GenerateCA
    BY <1>2, SecretTypes, LocalTypes DEF GenerateCA, Goto, TypeOK
  <1>3. CASE Worker \/ Fail
    <2>1. \/ GenerateCA
          \/ Begin /\ pc' # "generateBundle"
          \/ (DestroyStep \/ Cleanup \/ Fail) /\ pc' # "generateBundle"
          \/ ReconcileStep /\ pc' # "generateBundle"
      BY <1>3
      DEF Worker, Fail, Abort, Complete, Goto, Begin, ReconcileStep, DestroyStep, Cleanup,
          BeginReconcile, BeginMigrate, BeginDelete, DeployServices, AwaitHealthy,
          FetchServices, GenerateBundle, DeployCaches, DeployMonitoring, PatchStatus,
          KeepServices, KeepCaches, Keep, DestroyServices, AwaitServicesGone, DestroyCaches,
          DestroyMonitoring, AwaitCachesGone
    <2> QED
      BY <1>2, <2>1
  <1>4. ResourceManager => UNCHANGED <<pc, local, cas>>
    BY DEF ResourceManager, ApplyObject, AdoptObject, RemoveObject, Observe, FinishDeletion
  <1>5. Gardenlet => UNCHANGED <<pc, local, cas>>
    BY DEF Gardenlet, StartRotation, CompleteRotation, RequestReconcile, RequestMigrate,
           RequestRestore, RequestDelete, RequestForceDelete, Enable
  <1>6. Users \/ Disabled \/ UNCHANGED vars => UNCHANGED <<pc, local, cas>>
    BY DEF Users, ChangeCaches, ToggleHibernation, DeleteService, Disabled, vars
  <1> QED
    BY <1>1, <1>3, <1>4, <1>5, <1>6 DEF Next

(* Every variable keeps its type in every behaviour.                       *)
THEOREM TypeCorrect == Spec => []TypeOK
  <1>1. Init => TypeOK /\ CAGenerated
    BY InitTypes DEF Init, CAGenerated
  <1>2. TypeOK /\ CAGenerated /\ [Next]_vars => TypeOK' /\ CAGenerated'
    <2> SUFFICES ASSUME TypeOK, CAGenerated, [Next]_vars PROVE TypeOK' /\ CAGenerated'
      OBVIOUS
    <2>1. CASE UNCHANGED vars
      BY <2>1, CAGeneratedStep
      DEF vars, shootVars, workerVars, shootObjVars, secretVars, boundVars, TypeOK
    <2>2. CASE Next
      BY <2>2, CAGeneratedStep, ReconcileTypes, OtherWorkerTypes, ResourceManagerTypes,
         EnvironmentTypes
      DEF Next, Worker
    <2> QED
      BY <2>1, <2>2
  <1> QED
    BY <1>1, <1>2, PTL DEF Spec

=============================================================================
