------------------------ MODULE NodeRegistries_proof ------------------------
(***************************************************************************)
(* The composition with the webhook implements RegistryCacheSystem, so     *)
(* that what is proved of the system holds beside the nodes as well; and   *)
(* for an owner who waits, the nodes trust the caches.                     *)
(***************************************************************************)
EXTENDS NodeRegistries, RegistryCacheServices_proof

(* Every step of the composition is a step of the system or leaves it as   *)
(* it is.                                                                  *)
LEMMA NodeStep == NodeNext => [Next]_vars
<1>1. ASSUME SystemStep PROVE Next
  <2>1. CASE Unobserved
    BY <2>1 DEF Unobserved, Next, Users
  <2>2. CASE OwnerStep
    BY <2>2 DEF OwnerStep, Next, Users, Gardenlet
  <2>3. CASE GardenletStep
    BY <2>3 DEF GardenletStep, Next, Gardenlet
  <2>4. CASE Disabled
    BY <2>4 DEF Next
  <2> QED BY <1>1, <2>1, <2>2, <2>3, <2>4 DEF SystemStep
<1>2. ASSUME DeployOSC \/ TouchOSC \/ WebhookStep PROVE UNCHANGED vars
  BY <1>2 DEF DeployOSC, TouchOSC, WebhookStep, EnsureAdditionalFiles, GetCABundle,
              EnsureCRIConfig, Admit
<1> QED BY <1>1, <1>2 DEF NodeNext

(* The composition implements the system: the webhook and the writers of   *)
(* the OperatingSystemConfig never change what the actuator works with.    *)
THEOREM NodesImplementSystem == NodeSpec => Spec
<1>1. NodeInit => Init
  BY DEF NodeInit
<1>2. [NodeNext]_allVars => [Next]_vars
  BY NodeStep DEF allVars
<1> QED BY <1>1, <1>2, PTL DEF NodeSpec, Spec

-----------------------------------------------------------------------------
(* Nodes trust the caches through any number of rotations.                 *)

(* What a step leaves alone whatever it does to the operation.             *)
Calm == UNCHANGED <<nodeVars, caches, owners, epoch, keepOld, cas, status>> /\ DesiredShrinks

LEMMA CalmStep ==
  ASSUME NodesInv, Calm, UNCHANGED <<stage, request, op, pc, local>>
  PROVE  NodesInv'
  <1>1. UNCHANGED <<osc, hook, flow, caches, owners, epoch, keepOld, cas, status>>
    BY DEF Calm, nodeVars
  <1>2. (NodeTypes /\ FlowFitsOperation /\ NodeBundlesCurrent /\ TLSKeepsBundle)'
    BY <1>1
    DEF NodesInv, NodeTypes, FlowFitsOperation, Ready, NodeBundles, NodeBundlesCurrent,
        TLSKeepsBundle, TLSConfigured
  <1>3. NextSignerTrusted'
    BY <1>1, SignersFrame DEF NodesInv, NextSignerTrusted, TLSConfigured, NodeBundles
  <1>4. CertificatesTrusted'
    BY <1>1 DEF NodesInv, Calm, DesiredShrinks, CertificatesTrusted, NodeBundles
  <1> QED
    BY <1>2, <1>3, <1>4 DEF NodesInv

(* A step of an operation that touches neither CA nor status.              *)
LEMMA CalmWorkerStep ==
  ASSUME NodesInv, Calm, pc # "idle" \/ request # "none",
         op' \in ReconcileOps =>
           stage' = "live" /\ local'.caches = caches /\ local'.owners = owners,
         TLSKeepsBundle',
         stage' \in {"live", "migrating", "migrated"} =>
           stage \in {"live", "migrating", "migrated"}
  PROVE  NodesInv'
  <1>1. flow = "pending" /\ flow' = "pending"
    BY DEF NodesInv, FlowFitsOperation, Ready, Calm, nodeVars
  <1>2. UNCHANGED <<osc, hook, flow, caches, owners, epoch, keepOld, cas, status>>
    BY DEF Calm, nodeVars
  <1>3. (NodeTypes /\ FlowFitsOperation /\ NodeBundlesCurrent)'
    BY <1>1, <1>2
    DEF NodesInv, NodeTypes, FlowFitsOperation, NodeBundles, NodeBundlesCurrent
  <1>4. NextSignerTrusted'
    BY <1>2, SignersFrame DEF NodesInv, NextSignerTrusted, TLSConfigured, NodeBundles
  <1>5. CertificatesTrusted'
    BY <1>2 DEF NodesInv, Calm, DesiredShrinks, CertificatesTrusted, NodeBundles
  <1> QED
    BY <1>3, <1>4, <1>5 DEF NodesInv

LEMMA BeginNodes ==
  ASSUME TypeOK, ControlInv, NodesInv, Begin, UNCHANGED nodeVars
  PROVE  NodesInv'
  <1> USE DEF shootVars, shootObjVars, secretVars, boundVars
  <1>1. Calm /\ request # "none" /\ stage' = stage /\ caches' = caches
    BY DEF Begin, BeginReconcile, BeginMigrate, BeginDelete, Calm, DesiredShrinks
  <1>2. op' \in ReconcileOps => stage = "live" /\ local'.caches = caches /\ local'.owners = owners
    BY DEF Begin, BeginReconcile, BeginMigrate, BeginDelete, ControlInv, OperationFitsStage,
           ReconcileOps, NodesInv, FlowFitsOperation, NoLocal
  <1>3. TLSKeepsBundle'
    BY DEF Begin, BeginReconcile, BeginMigrate, BeginDelete, TLSKeepsBundle
  <1> QED
    BY <1>1, <1>2, <1>3, CalmWorkerStep

(* The end of an operation, whatever it has come to.                       *)
LEMMA EndNodes ==
  ASSUME ControlInv, NodesInv, Calm, pc # "idle", Abort \/ Complete
  PROVE  NodesInv'
  <1>1. op' = "none" /\ pc' = "idle" /\ stage' \in {stage, "migrated", "gone", "forceDeleted"}
        /\ (stage' = "migrated" => stage \in {"migrating", "migrated"})
    BY DEF Abort, Complete, ControlInv, OperationFitsStage
  <1>2. TLSKeepsBundle'
    BY <1>1 DEF TLSKeepsBundle
  <1> QED
    BY <1>1, <1>2, CalmWorkerStep DEF ReconcileOps

LEMMA GotoNodes ==
  ASSUME NodesInv, Calm, pc # "idle", NEW l \in PCs, Goto(l), stage' = stage,
         local'.caches = local.caches, local'.owners = local.owners, TLSKeepsBundle'
  PROVE  NodesInv'
  BY CalmWorkerStep DEF Goto, NodesInv, FlowFitsOperation

LEMMA DestroyStepNodes ==
  ASSUME TypeOK, ControlInv, NodesInv, DestroyStep, UNCHANGED nodeVars
  PROVE  NodesInv'
  <1> USE DEF shootVars, shootObjVars, secretVars, boundVars
  <1>1. pc \in DestroyPCs /\ pc # "idle" /\ op \notin ReconcileOps
    BY DEF DestroyStep, KeepServices, KeepCaches, Keep, DestroyServices, DestroyCaches,
           AwaitServicesGone, DestroyMonitoring, AwaitCachesGone, DestroyPCs, ControlInv,
           PCFitsOperation, DeleteOps, ReconcileOps
  <1>2. mr'["caches"].desired = mr["caches"].desired
    BY DEF DestroyStep, KeepServices, KeepCaches, Keep, DestroyServices, DestroyCaches,
           AwaitServicesGone, DestroyMonitoring, AwaitCachesGone, TypeOK, ManagedResources, Kinds
  <1>3. Calm
    BY <1>2
    DEF Calm, DesiredShrinks, DestroyStep, KeepServices, KeepCaches, Keep, DestroyServices,
        DestroyCaches, AwaitServicesGone, DestroyMonitoring, AwaitCachesGone, Abort, Complete
  <1>4. \/ (\E l \in PCs : Goto(l)) /\ UNCHANGED <<stage, local>>
        \/ Abort \/ Complete
    BY DEF DestroyStep, KeepServices, KeepCaches, Keep, DestroyServices, DestroyCaches,
           AwaitServicesGone, DestroyMonitoring, AwaitCachesGone, PCs
  <1>5. op' = op => TLSKeepsBundle'
    BY <1>1 DEF TLSKeepsBundle
  <1> QED
    BY <1>1, <1>3, <1>4, <1>5, GotoNodes, EndNodes DEF Goto

(* A step of a reconciliation that may touch CAs, status or certificates.  *)
LEMMA LiveStep ==
  ASSUME NodesInv, SecretPart', pc # "idle", stage = "live", stage' = "live",
         UNCHANGED <<nodeVars, caches, owners, epoch, keepOld>>,
         op' \in ReconcileOps => local'.caches = caches /\ local'.owners = owners,
         TLSKeepsBundle',
         TLSConfigured /\ NodeBundles # {} => Signers(epoch, keepOld)' = Signers(epoch, keepOld),
         CertificatesTrusted'
  PROVE  NodesInv'
  <1>1. UNCHANGED <<osc, hook, flow, NodeBundles, TLSConfigured>> /\ flow = "pending"
    BY DEF nodeVars, NodeBundles, TLSConfigured, NodesInv, FlowFitsOperation, Ready
  <1>2. (NodeTypes /\ FlowFitsOperation /\ NodeBundlesCurrent)'
    BY <1>1 DEF NodesInv, NodeTypes, FlowFitsOperation, NodeBundlesCurrent
  <1>3. status'.bundle # {} => Signers(epoch, keepOld)' \subseteq status'.bundle
    BY DEF SecretPart, NextSignerPublished, SecretsAlive
  <1>4. NextSignerTrusted'
    BY <1>1, <1>3 DEF NodesInv, NextSignerTrusted
  <1> QED
    BY <1>2, <1>4 DEF NodesInv

LEMMA GenerateCANodes ==
  ASSUME TypeOK, ControlInv, NodesInv, SecretPart', GenerateCA, UNCHANGED nodeVars
  PROVE  NodesInv'
  <1> USE DEF shootVars, shootObjVars, secretVars, boundVars
  <1>1. /\ op \in ReconcileOps /\ stage = "live" /\ pc = "generateCA"
        /\ local.epoch = epoch /\ local.caches = caches /\ local.owners = owners
    BY DEF GenerateCA, ControlInv, PCFitsOperation, SnapshotCurrent, BeforeBundle, NodesInv,
           FlowFitsOperation
  <1>2. /\ UNCHANGED <<nodeVars, stage, caches, owners, epoch, keepOld, mr, status, local, op>>
        /\ pc' \in {"generateBundle", "deployCaches"}
    BY DEF GenerateCA, Goto
  <1>3. ASSUME TLSConfigured, NodeBundles # {}
        PROVE  Signers(epoch, keepOld)' = Signers(epoch, keepOld)
    <2>1. CASE cas' = cas
      BY <1>2, <2>1, SignersFrame
    <2>2. CASE cas' # cas
      <3>1. cas[epoch] = 0 /\ \A e \in Epochs \ {epoch} : cas'[e] = cas[e]
        BY <1>1, <2>2 DEF GenerateCA, TypeOK
      <3>2. PICK b \in NodeBundles : Signers(epoch, keepOld) \subseteq b
        BY <1>1, <1>3 DEF NodesInv, NextSignerTrusted
      <3>3. 0 \notin b
        BY <3>2 DEF NodesInv, NodeTypes, NodeBundles, Statuses, CAIds
      <3>4. OldCA(epoch, keepOld) # {}
        BY <3>1, <3>2, <3>3 DEF Signers
      <3>5. OldEpochs(epoch, keepOld)' = OldEpochs(epoch, keepOld)
        BY <1>2, <3>1 DEF OldEpochs, Epochs, TypeOK
      <3>6. \A e \in OldEpochs(epoch, keepOld) : cas'[e] = cas[e]
        BY <3>1 DEF OldEpochs
      <3>7. OldCA(epoch, keepOld)' = OldCA(epoch, keepOld)
        BY <3>5, <3>6 DEF OldCA
      <3> QED
        BY <3>4, <3>7 DEF Signers
    <2> QED
      BY <2>1, <2>2
  <1>4. CertificatesTrusted' /\ TLSKeepsBundle'
    BY <1>2 DEF CertificatesTrusted, NodeBundles, nodeVars, TLSKeepsBundle, NodesInv
  <1> QED
    BY <1>1, <1>2, <1>3, <1>4, LiveStep

LEMMA DeployCachesNodes ==
  ASSUME TypeOK, ControlInv, SecretPart, NodesInv, SecretPart', DeployCaches, UNCHANGED nodeVars
  PROVE  NodesInv'
  <1>1. /\ op \in ReconcileOps /\ stage = "live" /\ pc = "deployCaches"
        /\ local.caches = caches /\ local.owners = owners
    BY DEF DeployCaches, ControlInv, PCFitsOperation, AfterBundle, NodesInv, FlowFitsOperation
  <1>2. CASE CertificateMissing
    <2>1. Calm
      BY <1>2 DEF Calm, DesiredShrinks, DeployCaches, secretVars
    <2> QED
      BY <1>1, <1>2, <2>1, EndNodes DEF DeployCaches
  <1>3. CASE ~CertificateMissing
    <2>1. /\ UNCHANGED <<nodeVars, stage, caches, owners, epoch, keepOld, cas, status, local, op>>
          /\ pc' = "deployMonitoring"
      BY <1>3 DEF DeployCaches, Goto, secretVars
    <2>2. mr'["caches"].desired = DesiredCaches
      BY <1>3 DEF DeployCaches, Deploy, Deployed, TypeOK, Kinds, ManagedResources
    <2>3. TLSConfigured => local.bundle # {}
      <3>1. TLSConfigured => TLSSeen
        BY <1>1, <1>3 DEF TLSConfigured, CertificateMissing, TLSSeen
      <3> QED
        BY <1>1, <3>1 DEF SecretPart, BundleGenerated, AfterBundle
    <2>4. ASSUME NEW u \in Upstreams, mr'["caches"].desired[u].scheme = "https"
          PROVE  mr'["caches"].desired[u].ca = local.signer /\ TLSConfigured
                 /\ local.signer \in Signers(epoch, keepOld)
      <3>1. local.caches[u] = "https"
        BY <2>2, <2>4, DesiredCache
      <3>2. TLSConfigured
        BY <1>1, <3>1 DEF TLSConfigured
      <3> QED
        BY <2>2, <2>3, <3>1, <3>2, DesiredCache DEF SecretPart, BundleGenerated
    <2>5. CertificatesTrusted'
      BY <1>1, <2>1, <2>4
      DEF CertificatesTrusted, NodeBundles, nodeVars, NodesInv, NextSignerTrusted
    <2>6. TLSKeepsBundle'
      BY <2>1, <2>3 DEF TLSKeepsBundle, TLSConfigured
    <2> QED
      BY <1>1, <2>1, <2>5, <2>6, SignersFrame, LiveStep
  <1> QED
    BY <1>2, <1>3

LEMMA PatchStatusNodes ==
  ASSUME TypeOK, ControlInv, SecretPart, NodesInv, SecretPart', PatchStatus, UNCHANGED nodeVars
  PROVE  NodesInv'
  <1>1. /\ op \in ReconcileOps /\ stage = "live" /\ pc = "patchStatus"
        /\ local.caches = caches /\ local.owners = owners
    BY DEF PatchStatus, ControlInv, PCFitsOperation, AfterBundle, NodesInv, FlowFitsOperation
  <1>2. /\ UNCHANGED <<nodeVars, stage, caches, owners, epoch, keepOld, cas, mr, local, op>>
        /\ pc' = "cleanup" /\ status'.bundle = local.bundle
    BY DEF PatchStatus, Goto, shootVars, shootObjVars, secretVars
  <1>3. CertificatesTrusted'
    BY <1>1, <1>2
    DEF CertificatesTrusted, NodeBundles, nodeVars, NodesInv, SecretPart, DeployedSignerGenerated
  <1>4. TLSKeepsBundle'
    BY <1>1, <1>2 DEF NodesInv, TLSKeepsBundle, TLSConfigured
  <1> QED
    BY <1>1, <1>2, <1>3, <1>4, SignersFrame, LiveStep

LEMMA ReconcileStepNodes ==
  ASSUME TypeOK, ControlInv, SecretPart, NodesInv, SecretPart', ReconcileStep, UNCHANGED nodeVars
  PROVE  NodesInv'
  <1> USE DEF shootVars, shootObjVars, secretVars, boundVars, PCs
  <1>1. CASE DeployServices
    <2>1. Calm
      BY <1>1 DEF Calm, DesiredShrinks, DeployServices, Deploy, TypeOK, Kinds
    <2>2. TLSKeepsBundle'
      BY <1>1 DEF DeployServices, Goto, TLSKeepsBundle
    <2> QED
      BY <1>1, <2>1, <2>2, GotoNodes DEF DeployServices
  <1>2. CASE AwaitHealthy
    <2>1. Calm
      BY <1>2 DEF Calm, DesiredShrinks, AwaitHealthy
    <2>2. pc' = "fetchServices" => TLSKeepsBundle'
      BY DEF TLSKeepsBundle
    <2> QED
      BY <1>2, <2>1, <2>2, GotoNodes, EndNodes DEF AwaitHealthy, Goto
  <1>3. CASE FetchServices
    <2>1. Calm
      BY <1>3 DEF Calm, DesiredShrinks, FetchServices
    <2>2. pc' = "generateCA" => TLSKeepsBundle'
      BY DEF TLSKeepsBundle
    <2>3. CASE ~Abort
      <3>1. /\ local'.caches = local.caches /\ local'.owners = local.owners
            /\ Goto("generateCA") /\ stage' = stage
        BY <1>3, <2>3, FetchEffect DEF Goto
      <3> QED
        BY <1>3, <2>1, <2>2, <3>1, GotoNodes DEF FetchServices, Goto
    <2> QED
      BY <1>3, <2>1, <2>3, EndNodes DEF FetchServices
  <1>4. CASE GenerateBundle
    <2>1. Calm
      BY <1>4 DEF Calm, DesiredShrinks, GenerateBundle
    <2>2. /\ local'.caches = local.caches /\ local'.owners = local.owners
          /\ Goto("deployCaches") /\ stage' = stage
      BY <1>4 DEF GenerateBundle, TypeOK, Locals
    <2>3. TLSKeepsBundle'
      BY <2>2 DEF TLSKeepsBundle, Goto
    <2> QED
      BY <1>4, <2>1, <2>2, <2>3, GotoNodes DEF GenerateBundle
  <1>5. CASE DeployMonitoring
    <2>1. Calm
      BY <1>5 DEF Calm, DesiredShrinks, DeployMonitoring
    <2>2. Abort \/ (Goto("patchStatus") /\ UNCHANGED <<stage, local, caches, owners>>)
      BY <1>5, Zenon DEF DeployMonitoring
    <2>3. Goto("patchStatus") /\ UNCHANGED <<stage, local, caches, owners>> => TLSKeepsBundle'
      BY <1>5 DEF DeployMonitoring, NodesInv, TLSKeepsBundle, TLSConfigured, Goto
    <2> QED
      BY <1>5, <2>1, <2>2, <2>3, GotoNodes, EndNodes DEF DeployMonitoring
  <1> QED
    BY <1>1, <1>2, <1>3, <1>4, <1>5, GenerateCANodes, DeployCachesNodes, PatchStatusNodes
    DEF ReconcileStep

LEMMA CleanupNodes ==
  ASSUME TypeOK, ControlInv, SecretPart, NodesInv, SecretPart', Cleanup, UNCHANGED nodeVars
  PROVE  NodesInv'
  <1>1. /\ UNCHANGED <<nodeVars, caches, owners, epoch, keepOld, mr, status>>
        /\ pc = "cleanup" /\ pc' = "idle" /\ op' = "none"
    BY DEF Cleanup, Abort, Complete, shootObjVars
  <1>2. TLSKeepsBundle' /\ CertificatesTrusted'
    BY <1>1 DEF TLSKeepsBundle, CertificatesTrusted, NodeBundles, nodeVars, NodesInv
  <1>3. CASE op \in ReconcileOps
    <2>1. stage = "live" /\ stage' = "live"
      BY <1>3 DEF NodesInv, FlowFitsOperation, Cleanup, Abort, Complete, ReconcileOps
    <2>2. TLSConfigured => Signers(epoch, keepOld)' = Signers(epoch, keepOld)
      BY <1>1, <1>3, CleanupKeepsSigners DEF NodesInv, TLSKeepsBundle
    <2> QED
      BY <1>1, <1>2, <2>1, <2>2, LiveStep DEF ReconcileOps
  <1>4. CASE op \in DeleteOps
    <2>1. stage' \in {"deleting", "gone", "forceDeleted"} /\ flow = "pending"
      BY <1>1, <1>4 DEF Cleanup, Abort, Complete, ControlInv, OperationFitsStage, DeleteOps,
                        NodesInv, FlowFitsOperation, Ready
    <2>2. NextSignerTrusted'
      BY <2>1 DEF NextSignerTrusted
    <2> QED
      BY <1>1, <1>2, <2>1, <2>2
      DEF NodesInv, nodeVars, NodeTypes, FlowFitsOperation, NodeBundles, NodeBundlesCurrent,
          ReconcileOps
  <1> QED
    BY <1>3, <1>4 DEF Cleanup, ControlInv, PCFitsOperation

(* Everything that happens while gardenlet, owner and webhook do nothing.  *)
LEMMA UnobservedNodes ==
  ASSUME TypeOK, ControlInv, SecretPart, NodesInv, SecretPart', Unobserved, UNCHANGED nodeVars
  PROVE  NodesInv'
  <1> USE DEF shootVars, workerVars, shootObjVars, secretVars, boundVars
  <1>1. CASE Worker
    BY <1>1, BeginNodes, ReconcileStepNodes, DestroyStepNodes, CleanupNodes DEF Worker
  <1>2. CASE Fail
    <2>1. Calm
      BY <1>2 DEF Fail, Calm, DesiredShrinks
    <2> QED
      BY <1>2, <2>1, EndNodes DEF Fail
  <1>3. CASE ResourceManager
    <2>1. Calm /\ UNCHANGED <<stage, request, op, pc, local>>
      BY <1>3, ResourceManagerShrinks
      DEF Calm, ResourceManager, ApplyObject, AdoptObject, RemoveObject, Observe, FinishDeletion
    <2> QED
      BY <2>1, CalmStep
  <1>4. ASSUME NEW n \in Names, DeleteService(n) PROVE NodesInv'
    <2>1. Calm /\ UNCHANGED <<stage, request, op, pc, local>>
      BY <1>4 DEF Calm, DesiredShrinks, DeleteService
    <2> QED
      BY <2>1, CalmStep
  <1> QED
    BY <1>1, <1>2, <1>3, <1>4 DEF Unobserved

(* The webhook, and the writers that call it.                              *)

LEMMA HookStep ==
  ASSUME NodesInv, UNCHANGED vars, (NodeTypes /\ FlowFitsOperation /\ NodeBundlesCurrent)',
         NodeBundles' \subseteq NodeBundles \cup ({status.bundle} \ {{}})
  PROVE  NodesInv'
  <1>1. UNCHANGED <<caches, epoch, keepOld, stage, op, pc, local, mr, cas, status>>
    BY DEF vars, shootVars, workerVars, shootObjVars, secretVars
  <1>2. Signers(epoch, keepOld)' = Signers(epoch, keepOld)
    BY <1>1, SignersFrame
  <1>3. TLSKeepsBundle' /\ NextSignerTrusted'
    BY <1>1, <1>2 DEF NodesInv, TLSKeepsBundle, TLSConfigured, NextSignerTrusted
  <1>4. CertificatesTrusted'
    BY <1>1 DEF NodesInv, CertificatesTrusted
  <1> QED
    BY <1>3, <1>4 DEF NodesInv

LEMMA NodeTypesKnown ==
  ASSUME TypeOK, NodesInv
  PROVE  /\ status \in Statuses /\ NoStatus \in Statuses /\ NoHook.osc = NoStatus
         /\ NoHook \in [active : BOOLEAN, mutate : BOOLEAN, secret : SUBSET CAIds,
                        todo : SUBSET (Ensurers \cup {"GetCABundle"}), osc : Statuses]
         /\ NoStatus.bundle = {} /\ ~NoHook.active /\ NoHook.todo = {} /\ NoHook.secret = {}
         /\ WithCaches(hook.osc) \in Statuses
         /\ WithCaches(hook.osc).bundle = hook.osc.bundle
  <1>1. status \in Statuses /\ hook.osc \in Statuses
    BY DEF TypeOK, NodesInv, NodeTypes
  <1>2. NoStatus \in Statuses
    BY DEF NoStatus, Statuses, Configs
  <1>3. /\ NoHook \in [active : BOOLEAN, mutate : BOOLEAN, secret : SUBSET CAIds,
                       todo : SUBSET (Ensurers \cup {"GetCABundle"}), osc : Statuses]
        /\ ~NoHook.active /\ NoHook.todo = {} /\ NoHook.osc = NoStatus /\ NoHook.secret = {}
    BY <1>2 DEF NoHook
  <1>4. /\ WithCaches(hook.osc) \in Statuses
        /\ WithCaches(hook.osc).bundle = hook.osc.bundle
    BY <1>1 DEF WithCaches, Statuses, Configs
  <1> QED
    BY <1>1, <1>2, <1>3, <1>4 DEF NoStatus

(* A write is sent through the webhook.                                    *)
LEMMA ServeNodes ==
  ASSUME TypeOK, NodesInv, stage = "live", NEW spec \in {NoStatus, osc}, Serve(spec),
         UNCHANGED <<vars, osc>>,
         \/ flow' = "deploying" /\ Ready /\ spec = NoStatus
         \/ flow' = flow /\ ~hook.active
  PROVE  NodesInv'
  <1>1. UNCHANGED <<stage, request, op, pc, local, caches, owners, status>>
    BY DEF vars, shootVars, workerVars
  <1>2. hook'.active /\ hook'.osc = spec /\ hook'.secret = {} /\ NodeTypes'
    BY NodeTypesKnown DEF Serve, NodesInv, NodeTypes, ShouldMutate, TypeOK
  <1>3. flow' = "deploying" => flow # flow' \/ spec = NoStatus
    BY DEF NodesInv, FlowFitsOperation
  <1>4. NodeBundles' \subseteq NodeBundles
    BY <1>2, NodeTypesKnown DEF NodeBundles
  <1>5. FlowFitsOperation'
    BY <1>1, <1>2 DEF NodesInv, FlowFitsOperation, Ready
  <1>6. NodeBundlesCurrent'
    BY <1>1, <1>2, <1>4, NodeTypesKnown DEF NodesInv, NodeBundlesCurrent, FlowFitsOperation
  <1> QED
    BY <1>2, <1>4, <1>5, <1>6, HookStep

LEMMA DenyNodes ==
  ASSUME TypeOK, NodesInv, hook.active, Deny, UNCHANGED <<vars, osc>>
  PROVE  NodesInv'
  <1>1. UNCHANGED <<stage, request, op, pc, local, caches, owners, status>>
    BY DEF vars, shootVars, workerVars
  <1>2. hook' = NoHook /\ flow' = (IF flow = "deploying" THEN "pending" ELSE flow)
    BY DEF Deny
  <1>3. NodeTypes'
    BY <1>2, NodeTypesKnown DEF NodesInv, NodeTypes
  <1>4. NodeBundles' \subseteq NodeBundles
    BY <1>2, NodeTypesKnown DEF NodeBundles
  <1>5. FlowFitsOperation'
    BY <1>1, <1>2, NodeTypesKnown DEF NodesInv, FlowFitsOperation, Ready
  <1>6. NodeBundlesCurrent'
    BY <1>1, <1>2, <1>4, NodeTypesKnown DEF NodesInv, NodeBundlesCurrent
  <1> QED
    BY <1>3, <1>4, <1>5, <1>6, HookStep

(* One more step of the request is done.                                   *)
LEMMA PassNodes ==
  ASSUME TypeOK, NodesInv, hook.active, hook'.active, NodeTypes', UNCHANGED <<vars, osc, flow>>,
         {hook'.osc.bundle, hook'.secret} \subseteq
           {hook.osc.bundle, hook.secret, {}, status.bundle}
  PROVE  NodesInv'
  <1>1. UNCHANGED <<stage, request, op, pc, local, caches, owners, status>>
    BY DEF vars, shootVars, workerVars
  <1>2. NodeBundles' \subseteq NodeBundles \cup ({status.bundle} \ {{}})
    BY DEF NodeBundles
  <1>3. FlowFitsOperation'
    BY <1>1 DEF NodesInv, FlowFitsOperation, Ready
  <1>4. NodeBundlesCurrent'
    BY <1>1, <1>2 DEF NodesInv, NodeBundlesCurrent, FlowFitsOperation
  <1> QED
    BY <1>2, <1>3, <1>4, HookStep

LEMMA DoneNodes ==
  ASSUME TypeOK, NodesInv, hook.active, NEW ensurer, NEW spec \in Statuses, Done(ensurer, spec),
         spec.bundle \in {hook.osc.bundle, status.bundle}, UNCHANGED <<vars, osc, flow>>
  PROVE  NodesInv'
  <1>1. hook'.active /\ hook'.osc = spec /\ hook'.secret = hook.secret /\ NodeTypes'
    BY DEF Done, NodesInv, NodeTypes
  <1> QED
    BY <1>1, PassNodes

LEMMA AdmitNodes ==
  ASSUME TypeOK, NodesInv, Admit
  PROVE  NodesInv'
  <1>1. UNCHANGED <<stage, request, op, pc, local, caches, owners, status>>
    BY DEF Admit, vars, shootVars, workerVars
  <1>2. /\ hook.active /\ hook' = NoHook /\ osc' = hook.osc /\ UNCHANGED vars
        /\ flow' = (IF flow = "deploying" THEN "done" ELSE flow)
    BY DEF Admit
  <1>3. NodeTypes'
    BY <1>2, NodeTypesKnown DEF NodesInv, NodeTypes
  <1>4. NodeBundles' = {hook.osc.bundle} \ {{}}
    BY <1>2, NodeTypesKnown DEF NodeBundles
  <1>5. FlowFitsOperation'
    BY <1>1, <1>2, NodeTypesKnown DEF NodesInv, FlowFitsOperation, Ready
  <1>6. NodeBundlesCurrent'
    <2>1. flow = "deploying" => NodeBundles' \subseteq {status.bundle} /\ stage = "live"
      BY <1>4 DEF NodesInv, NodeBundlesCurrent, FlowFitsOperation
    <2>2. NodeBundles' \subseteq NodeBundles
      BY <1>4 DEF NodeBundles
    <2> QED
      BY <1>1, <1>2, <2>1, <2>2 DEF NodesInv, NodeBundlesCurrent
  <1>7. NodeBundles' \subseteq NodeBundles
    BY <1>4 DEF NodeBundles
  <1> QED
    BY <1>2, <1>3, <1>5, <1>6, <1>7, HookStep

LEMMA HookNodes ==
  ASSUME TypeOK, NodesInv, DeployOSC \/ TouchOSC \/ WebhookStep
  PROVE  NodesInv'
  <1>1. hook.todo # {} => hook.active
    BY NodeTypesKnown DEF NodesInv, FlowFitsOperation
  <1>2. CASE DeployOSC
    <2>1. CASE stage = "live"
      BY <1>2, <2>1, ServeNodes DEF DeployOSC
    <2>2. CASE stage # "live"
      <3>1. /\ Ready /\ stage = "gone" /\ flow' = "done" /\ hook' = NoHook /\ osc' = NoStatus
            /\ UNCHANGED <<vars, stage, request, op, pc, local, caches, owners, status>>
        BY <1>2, <2>2 DEF DeployOSC, vars, shootVars, workerVars
      <3>2. NodeTypes' /\ NodeBundles' = {}
        BY <3>1, NodeTypesKnown DEF NodeTypes, NodeBundles
      <3>3. FlowFitsOperation' /\ NodeBundlesCurrent'
        BY <3>1, <3>2, NodeTypesKnown
        DEF NodesInv, FlowFitsOperation, NodeBundlesCurrent, Ready
      <3> QED
        BY <3>1, <3>2, <3>3, HookStep
    <2> QED
      BY <2>1, <2>2
  <1>3. CASE TouchOSC
    BY <1>3, ServeNodes DEF TouchOSC
  <1>4. CASE EnsureAdditionalFiles
    <2>1. hook.active /\ UNCHANGED <<vars, osc>>
      BY <1>1, <1>4 DEF EnsureAdditionalFiles
    <2>2. CASE StatusMissing
      BY <1>4, <2>1, <2>2, DenyNodes DEF EnsureAdditionalFiles
    <2>3. CASE ~StatusMissing /\ hook.mutate /\ status.bundle # {}
      <3>1. /\ hook' = [hook EXCEPT !.todo = {"GetCABundle"} \cup
                                             (hook.todo \ {"EnsureAdditionalFiles"}),
                                    !.secret = status.bundle]
            /\ UNCHANGED flow
        BY <1>4, <2>3 DEF EnsureAdditionalFiles
      <3>2. hook'.active /\ hook'.osc = hook.osc /\ hook'.secret = status.bundle /\ NodeTypes'
        BY <2>1, <3>1, NodeTypesKnown DEF NodesInv, NodeTypes, Statuses
      <3> QED
        BY <2>1, <3>1, <3>2, PassNodes
    <2>4. CASE ~StatusMissing /\ ~(hook.mutate /\ status.bundle # {})
      <3>1. hook.osc \in Statuses
        BY DEF NodesInv, NodeTypes
      <3> QED
        BY <1>4, <2>1, <2>4, <3>1, DoneNodes DEF EnsureAdditionalFiles
    <2> QED
      BY <2>2, <2>3, <2>4
  <1>6. CASE GetCABundle
    <2>1. hook.active /\ UNCHANGED <<vars, osc>>
      BY <1>1, <1>6 DEF GetCABundle
    <2>2. CASE hook.secret \notin bundles
      BY <1>6, <2>1, <2>2, DenyNodes DEF GetCABundle
    <2>3. CASE hook.secret \in bundles
      <3>1. /\ hook' = [hook EXCEPT !.todo = hook.todo \ {"GetCABundle"}, !.secret = {},
                                    !.osc.bundle = hook.secret]
            /\ UNCHANGED flow
        BY <1>6, <2>3 DEF GetCABundle
      <3>2. /\ hook'.active /\ hook'.osc.bundle = hook.secret /\ hook'.secret = {}
            /\ NodeTypes'
        BY <2>1, <3>1 DEF NodesInv, NodeTypes, Statuses
      <3> QED
        BY <2>1, <3>1, <3>2, PassNodes
    <2> QED
      BY <2>2, <2>3
  <1>5. CASE EnsureCRIConfig
    <2>1. hook.active /\ UNCHANGED <<vars, osc>>
      BY <1>1, <1>5 DEF EnsureCRIConfig
    <2>2. CASE StatusMissing
      BY <1>5, <2>1, <2>2, DenyNodes DEF EnsureCRIConfig
    <2>3. CASE ~StatusMissing
      <3>1. PICK spec \in {WithCaches(hook.osc), hook.osc} : Done("EnsureCRIConfig", spec)
        BY <1>5, <2>3 DEF EnsureCRIConfig
      <3>2. spec \in Statuses /\ spec.bundle \in {hook.osc.bundle, status.bundle}
        BY NodeTypesKnown DEF NodesInv, NodeTypes
      <3> QED
        BY <1>5, <2>1, <2>3, <3>1, <3>2, DoneNodes DEF EnsureCRIConfig
    <2> QED
      BY <2>2, <2>3
  <1> QED
    BY <1>2, <1>3, <1>4, <1>5, <1>6, AdmitNodes DEF WebhookStep

(* The owner and gardenlet ask for the next operation.                     *)
LEMMA RequestNodes ==
  ASSUME TypeOK, ControlInv, SecretPart', NodesInv, flow' = "pending", UNCHANGED <<osc, hook>>,
         \/ (flow = "done" \/ stage = "deleting") /\ OwnerStep
         \/ (flow = "done" \/ stage = "migrated") /\ GardenletStep
  PROVE  NodesInv'
  <1> USE DEF shootVars, shootObjVars, secretVars, boundVars
  <1>1. /\ UNCHANGED <<osc, hook, NodeBundles, op, pc, local, mr, cas>>
        /\ status' \in {status, NoStatus}
    BY DEF OwnerStep, ChangeCaches, ToggleHibernation, RequestDelete, Enable, RequestForceDelete,
           UserChange, GardenletStep, StartRotation, CompleteRotation, RequestReconcile,
           RequestMigrate, RequestRestore, NodeBundles
  <1>2. op \notin ReconcileOps
    BY DEF NodesInv, FlowFitsOperation, Ready, ControlInv, OperationFitsStage, ReconcileOps
  <1>3. (NodeTypes /\ FlowFitsOperation /\ NodeBundlesCurrent /\ TLSKeepsBundle)'
    BY <1>1, <1>2
    DEF NodesInv, NodeTypes, FlowFitsOperation, NodeBundlesCurrent, TLSKeepsBundle
  <1>4. NextSignerTrusted'
    <2> SUFFICES ASSUME stage' \in {"live", "migrating", "migrated"}
                 PROVE  NextSignerTrusted'
      BY DEF NextSignerTrusted
    <2>1. CASE RequestRestore
      <3>1. stage = "migrated" /\ status' = NoStatus /\ UNCHANGED <<caches, epoch, keepOld>>
        BY <2>1 DEF RequestRestore
      <3>2. Signers(epoch, keepOld)' = Signers(epoch, keepOld)
        BY <1>1, <3>1, SignersFrame
      <3> QED
        BY <1>1, <3>1, <3>2 DEF NodesInv, NextSignerTrusted, TLSConfigured, NoStatus
    <2>2. CASE Enable
      <3>1. stage = "gone" /\ flow = "done" /\ status' = NoStatus
        BY <2>2 DEF Enable, GardenletStep
      <3>2. NodeBundles' = {}
        BY <1>1, <3>1 DEF NodesInv, NodeBundlesCurrent
      <3> QED
        BY <3>1, <3>2 DEF NextSignerTrusted, NoStatus
    <2>3. CASE ~RequestRestore /\ ~Enable
      <3>1. flow = "done" /\ stage = "live" /\ stage' \in {"live", "migrating"}
            /\ status' = status
        BY <2>3
        DEF OwnerStep, ChangeCaches, ToggleHibernation, RequestDelete, RequestForceDelete,
            UserChange, GardenletStep, StartRotation, CompleteRotation, RequestReconcile,
            RequestMigrate
      <3>2. status'.bundle # {} => Signers(epoch, keepOld)' \subseteq status'.bundle
        BY <3>1 DEF SecretPart, NextSignerPublished, SecretsAlive
      <3>3. NodeBundles' \subseteq {status'.bundle} \ {{}}
        BY <1>1, <3>1 DEF NodesInv, NodeBundlesCurrent, NodeBundles
      <3> QED
        BY <3>2, <3>3 DEF NextSignerTrusted
    <2> QED
      BY <2>1, <2>2, <2>3
  <1>5. CertificatesTrusted'
    BY <1>1 DEF NodesInv, CertificatesTrusted, NoStatus
  <1> QED
    BY <1>3, <1>4, <1>5 DEF NodesInv

LEMMA NodesStep ==
  ASSUME Prompt = TRUE, TypeOK, ControlInv, SecretPart, SecretPart', NodesInv,
         [NodeNext]_allVars
  PROVE  NodesInv'
  <1>1. CASE (UNCHANGED allVars) \/ (Disabled /\ UNCHANGED nodeVars)
    <2>1. UNCHANGED vars /\ UNCHANGED nodeVars
      BY <1>1 DEF allVars, Disabled
    <2>2. Calm /\ UNCHANGED <<stage, request, op, pc, local>>
      BY <2>1
      DEF Calm, DesiredShrinks, vars, shootVars, workerVars, shootObjVars, secretVars
    <2> QED
      BY <2>2, CalmStep
  <1>2. CASE Unobserved /\ UNCHANGED nodeVars
    BY <1>2, UnobservedNodes
  <1>3. ASSUME flow' = "pending", UNCHANGED <<osc, hook>>,
               \/ (Prompt => flow = "done" \/ stage = "deleting") /\ OwnerStep
               \/ (flow = "done" \/ stage = "migrated") /\ GardenletStep
        PROVE  NodesInv'
    BY <1>3, RequestNodes
  <1>4. CASE DeployOSC \/ TouchOSC \/ WebhookStep
    BY <1>4, HookNodes
  <1>5. CASE SystemStep
    BY <1>1, <1>2, <1>3, <1>5 DEF SystemStep
  <1> QED
    BY <1>1, <1>4, <1>5 DEF NodeNext, allVars

LEMMA NodesInit ==
  ASSUME NodeInit
  PROVE  NodesInv
  <1>1. NoStatus \in Statuses /\ NoStatus.bundle = {} /\ NoHook.osc = NoStatus
    BY DEF NoStatus, Statuses, Configs, NoHook
  <1>2. NodeTypes /\ NodeBundles = {}
    BY <1>1 DEF NodeInit, NodeTypes, NodeBundles, NoHook
  <1>3. /\ status = NoStatus /\ op = "none"
        /\ \A u \in Upstreams : mr["caches"].desired[u].scheme = "none"
    BY NamesAssumption DEF NodeInit, Init, NoResource, NoObjects, NoObject, Kinds
  <1>4. FlowFitsOperation /\ NodeBundlesCurrent /\ TLSKeepsBundle
    BY <1>3 DEF NodeInit, FlowFitsOperation, NodeBundlesCurrent, TLSKeepsBundle, ReconcileOps
  <1>5. NextSignerTrusted /\ CertificatesTrusted
    BY <1>1, <1>2, <1>3 DEF NextSignerTrusted, CertificatesTrusted
  <1> QED
    BY <1>2, <1>4, <1>5 DEF NodesInv

(* The invariant holds throughout when the owner waits for the nodes.      *)
THEOREM NodesCorrect == ASSUME Prompt = TRUE PROVE NodeSpec => []NodesInv
  <1>1. NodeInit => NodesInv
    BY NodesInit
  <1>2. TypeOK /\ (SecretPart /\ ControlInv /\ CertificatesSeen) /\ SecretPart' /\ NodesInv
          /\ [NodeNext]_allVars
          => NodesInv'
    BY NodesStep
  <1> QED
    BY <1>1, <1>2, NodesImplementSystem, TypeCorrect, SecretsInvariant, PTL DEF NodeSpec

(* For an owner who waits, a node that has the CA file trusts every cache, *)
(* through any number of rotations, changes, migrations and failures.      *)
THEOREM NodesTrustSafe == ASSUME Prompt = TRUE PROVE NodeSpec => []NodesTrustCaches
  <1>1. NodesInv => NodesTrustCaches
    BY DEF NodesInv, CertificatesTrusted, NodesTrustCaches, NodeBundles
  <1> QED
    BY <1>1, NodesCorrect, PTL

-----------------------------------------------------------------------------
(* A finished flow serves the configuration.                               *)

LEMMA AddressesStep ==
  ASSUME TypeOK, AddressesFit, [Next]_vars
  PROVE  AddressesFit'
  <1> USE DEF shootVars, workerVars, shootObjVars, secretVars, boundVars
  <1>1. ASSUME UNCHANGED <<objects, status>>, local'.seen \in {local.seen, NothingSeen}
        PROVE  AddressesFit'
    BY <1>1 DEF AddressesFit, NothingSeen, NoObject
  <1>2. CASE Begin \/ Cleanup \/ Fail
    <2>1. CASE Begin
      BY <1>1, <2>1 DEF Begin, BeginReconcile, BeginMigrate, BeginDelete, NoLocal
    <2>2. CASE Cleanup \/ Fail
      BY <1>1, <2>2 DEF Cleanup, Complete, Abort, Fail, NoLocal
    <2> QED
      BY <1>2, <2>1, <2>2
  <1>3. CASE ReconcileStep
    <2>1. CASE FetchServices
      <3>1. CASE ~Abort
        <4>1. PICK seen \in LastListed(Schemes) :
                 local'.seen = seen /\ UNCHANGED <<objects, status>>
          BY <2>1, <3>1, FetchEffect DEF FetchServices, shootObjVars
        <4>2. ASSUME NEW u \in Upstreams
              PROVE  seen[u] \in {objects["services"][n] : n \in Names} \cup {NoObject}
          BY DEF LastListed
        <4>3. \A u \in Upstreams : seen[u].scheme = "none" => seen[u].ip = NoIP
          BY <4>2 DEF AddressesFit, NoObject
        <4> QED
          BY <4>1, <4>3 DEF AddressesFit
      <3>2. CASE Abort
        BY <1>1, <2>1, <3>2 DEF FetchServices, Abort, NoLocal
      <3> QED
        BY <3>1, <3>2
    <2>2. CASE PatchStatus
      BY <2>2 DEF PatchStatus, AddressesFit, SchemesOf, IPsOf
    <2>3. CASE GenerateCA \/ GenerateBundle
      BY <1>1, <2>3 DEF GenerateCA, GenerateBundle, TypeOK, Locals
    <2>4. CASE DeployServices \/ AwaitHealthy
      BY <1>1, <2>4 DEF DeployServices, AwaitHealthy, Abort, NoLocal
    <2>5. CASE DeployCaches \/ DeployMonitoring
      BY <1>1, <2>5 DEF DeployCaches, DeployMonitoring, Abort, NoLocal
    <2> QED
      BY <1>3, <2>1, <2>2, <2>3, <2>4, <2>5 DEF ReconcileStep
  <1>4. CASE DestroyStep
    BY <1>1, <1>4
    DEF DestroyStep, KeepServices, KeepCaches, Keep, DestroyServices, DestroyCaches,
        AwaitServicesGone, DestroyMonitoring, AwaitCachesGone, Abort, Complete, NoLocal
  <1>5. ASSUME UNCHANGED <<local, status>>,
               \A n \in Names :
                 \/ objects'["services"][n] = objects["services"][n]
                 \/ objects'["services"][n] = NoObject
                 \/ objects'["services"][n].scheme # "none"
        PROVE  AddressesFit'
    BY <1>5 DEF AddressesFit, NoObject
  <1>6. CASE ResourceManager
    <2>1. PICK k \in Kinds : \/ \E n \in Names :
                                  ApplyObject(k, n) \/ AdoptObject(k, n) \/ RemoveObject(k, n)
                             \/ Observe(k) \/ FinishDeletion(k)
      BY <1>6 DEF ResourceManager
    <2>2. CASE Observe(k) \/ FinishDeletion(k)
      BY <1>5, <2>2 DEF Observe, FinishDeletion
    <2>3. CASE \E n \in Names :
                 ApplyObject(k, n) \/ AdoptObject(k, n) \/ RemoveObject(k, n)
      <3>1. PICK n \in Names :
                   ApplyObject(k, n) \/ AdoptObject(k, n) \/ RemoveObject(k, n)
        BY <2>3
      <3>2. CASE ApplyObject(k, n)
        <4>1. mr[k].desired[n] \in Objects /\ mr[k].desired[n].scheme # "none"
          BY <3>2 DEF ApplyObject, TypeOK, ManagedResources
        <4>2. PICK o : objects' = [objects EXCEPT ![k][n] = o] /\ o.scheme # "none"
          BY <3>2, <4>1 DEF ApplyObject, Objects
        <4> QED
          BY <1>5, <3>2, <4>2 DEF ApplyObject, TypeOK, Kinds
      <3>3. CASE AdoptObject(k, n)
        BY <1>5, <3>3 DEF AdoptObject
      <3>4. CASE RemoveObject(k, n)
        BY <1>5, <3>4 DEF RemoveObject, TypeOK, Kinds
      <3> QED
        BY <3>1, <3>2, <3>3, <3>4
    <2> QED
      BY <2>1, <2>2, <2>3
  <1>7. CASE Users
    BY <1>1, <1>5, <1>7
    DEF Users, ChangeCaches, ToggleHibernation, UserChange, DeleteService, Fault, TypeOK, Kinds
  <1>8. CASE Gardenlet
    <2>1. UNCHANGED <<objects, local>> /\ status' \in {status, NoStatus}
      BY <1>8
      DEF Gardenlet, StartRotation, CompleteRotation, RequestReconcile, RequestMigrate,
          RequestRestore, RequestDelete, UserChange, RequestForceDelete, Enable
    <2> QED
      BY <2>1 DEF AddressesFit, NoStatus
  <1>9. CASE Disabled \/ UNCHANGED vars
    BY <1>1, <1>9 DEF Disabled, vars
  <1> QED
    BY <1>2, <1>3, <1>4, <1>6, <1>7, <1>8, <1>9 DEF Next, Worker, vars

(* While gardenlet waits for nothing, no step that it does not ask for     *)
(* changes what it has been told.                                          *)
LEMMA ReadyRests ==
  ASSUME ControlInv, Ready, Unobserved
  PROVE  UNCHANGED <<stage, request, op, pc, awake, status>>
  <1> USE DEF shootVars, workerVars, shootObjVars, secretVars, boundVars
  <1>1. ~Worker /\ ~Fail
    BY DEF Ready, Worker, Begin, BeginReconcile, BeginMigrate, BeginDelete, ReconcileStep,
           DeployServices, AwaitHealthy, FetchServices, GenerateCA, GenerateBundle, DeployCaches,
           DeployMonitoring, PatchStatus, DestroyStep, KeepServices, DestroyServices,
           AwaitServicesGone, KeepCaches, Keep, DestroyCaches, DestroyMonitoring,
           AwaitCachesGone, Cleanup, Fail
  <1>2. CASE ResourceManager
    BY <1>2 DEF ResourceManager, ApplyObject, AdoptObject, RemoveObject, Observe, FinishDeletion
  <1>3. CASE \E n \in Names : DeleteService(n)
    BY <1>3 DEF DeleteService
  <1> QED
    BY <1>1, <1>2, <1>3 DEF Unobserved

(* What the webhook makes of the rest of a request.                        *)
LEMMA FromStatusGrows ==
  ASSUME TypeOK, AddressesFit, NEW todo, hook.osc = FromStatus(todo)
  PROVE  /\ "EnsureCRIConfig" \in todo =>
              WithCaches(hook.osc) = FromStatus(todo \ {"EnsureCRIConfig"})
         /\ FromStatus({}) = status /\ FromStatus(Ensurers) = NoStatus
  <1>1. /\ status \in [schemes : Configs, ips : [Upstreams -> IPs \cup {NoIP}],
                       bundle : SUBSET CAIds]
        /\ status.schemes = [u \in Upstreams |-> status.schemes[u]]
        /\ status.ips = [u \in Upstreams |-> status.ips[u]]
    BY DEF TypeOK, Statuses, Configs
  <1>2. FromStatus({}) = status /\ FromStatus(Ensurers) = NoStatus
    BY <1>1 DEF FromStatus, NoStatus, Ensurers
  <1>3. ASSUME "EnsureCRIConfig" \in todo
        PROVE  WithCaches(hook.osc) = FromStatus(todo \ {"EnsureCRIConfig"})
    <2>1. /\ hook.osc.schemes = [u \in Upstreams |-> "none"]
          /\ hook.osc.ips = [u \in Upstreams |-> NoIP]
          /\ FromStatus(todo \ {"EnsureCRIConfig"}) =
               [schemes |-> status.schemes, ips |-> status.ips, bundle |-> hook.osc.bundle]
      BY <1>3 DEF FromStatus, NoStatus
    <2>2. hook.osc \in Statuses /\ FromStatus(todo \ {"EnsureCRIConfig"}) \in Statuses
      BY <1>1 DEF FromStatus, Statuses, NoStatus, Configs
    <2>3. /\ status.schemes = [u \in Upstreams |-> IF status.schemes[u] = "none"
                                                 THEN hook.osc.schemes[u]
                                                 ELSE status.schemes[u]]
          /\ status.ips = [u \in Upstreams |-> IF status.schemes[u] = "none"
                                             THEN hook.osc.ips[u] ELSE status.ips[u]]
      BY <1>1, <2>1 DEF AddressesFit
    <2>4. ASSUME NEW spec \in Statuses, spec = hook.osc
          PROVE  /\ WithCaches(spec) \in Statuses
                 /\ WithCaches(spec).schemes = status.schemes
                 /\ WithCaches(spec).ips = status.ips
                 /\ WithCaches(spec).bundle = spec.bundle
      BY <1>1, <2>3, <2>4 DEF WithCaches, Statuses
    <2>5. WithCaches(hook.osc) \in Statuses
          /\ WithCaches(hook.osc).schemes = status.schemes
          /\ WithCaches(hook.osc).ips = status.ips
          /\ WithCaches(hook.osc).bundle = hook.osc.bundle
      BY <2>2, <2>4
    <2>6. ASSUME NEW x \in Statuses, NEW y \in Statuses,
                 x.schemes = y.schemes, x.ips = y.ips, x.bundle = y.bundle
          PROVE  x = y
      BY <2>6 DEF Statuses
    <2> QED
      BY <2>1, <2>2, <2>5, <2>6
  <1> QED
    BY <1>2, <1>3

(* A registry that comes from the status is not changed by it again.       *)
LEMMA StatusStays ==
  ASSUME TypeOK, hook.osc = status
  PROVE  WithCaches(hook.osc) = status
  <1>1. status \in Statuses
    BY DEF TypeOK
  <1> QED
    BY <1>1 DEF WithCaches, Statuses, Configs

(* One more step of the request is done.                                   *)
LEMMA EnsurerServes ==
  ASSUME TypeOK, FlowServesStatus, hook.active, hook'.active, hook'.mutate = hook.mutate,
         UNCHANGED <<vars, osc, flow>>,
         hook'.secret \in {{}, hook.secret, status.bundle},
         "GetCABundle" \in hook'.todo =>
           /\ hook.mutate /\ hook'.secret # {} /\ "EnsureAdditionalFiles" \notin hook'.todo
           /\ \/ hook'.secret = status.bundle
              \/ "GetCABundle" \in hook.todo /\ hook'.secret = hook.secret,
         hook.mutate /\ hook.osc = FromStatus(hook.todo) => hook'.osc = FromStatus(hook'.todo),
         hook.mutate /\ hook.osc = status /\ hook.secret \in {{}, status.bundle} =>
           hook'.osc = status
  PROVE  FlowServesStatus'
  <1>1. UNCHANGED <<stage, request, op, pc, awake, status>>
    BY DEF vars, shootVars, workerVars
  <1>2. FromStatus(hook.todo)' = FromStatus(hook'.todo)
    BY <1>1 DEF FromStatus
  <1> QED
    BY <1>1, <1>2 DEF FlowServesStatus, Ready

(* The CA bundle that was looked up is written.                            *)
LEMMA BundleServes ==
  ASSUME TypeOK, FlowServesStatus, UNCHANGED <<vars, osc, flow>>, hook.active, hook'.active,
         hook'.mutate = hook.mutate, hook'.secret = {}, "GetCABundle" \in hook.todo,
         hook'.osc = [hook.osc EXCEPT !.bundle = hook.secret],
         hook'.todo = hook.todo \ {"GetCABundle"}
  PROVE  FlowServesStatus'
  <1>1. UNCHANGED <<stage, request, op, pc, awake, status>>
    BY DEF vars, shootVars, workerVars
  <1>2. ASSUME hook.osc = FromStatus(hook.todo), hook.secret = status.bundle,
               "EnsureAdditionalFiles" \notin hook.todo
        PROVE  hook'.osc = FromStatus(hook.todo)'
    BY <1>1, <1>2 DEF FromStatus
  <1>3. ASSUME hook.osc = status, hook.secret = status.bundle
        PROVE  hook'.osc = status
    BY <1>3 DEF TypeOK, Statuses
  <1>4. "EnsureAdditionalFiles" \notin hook.todo
    BY DEF FlowServesStatus
  <1> QED
    BY <1>1, <1>2, <1>3, <1>4 DEF FlowServesStatus, Ready

LEMMA WebhookServes ==
  ASSUME TypeOK, AddressesFit, FlowServesStatus, DeployOSC \/ TouchOSC \/ WebhookStep
  PROVE  FlowServesStatus'
  <1>1. UNCHANGED <<vars, stage, request, op, pc, awake, status>>
    BY DEF DeployOSC, TouchOSC, WebhookStep, EnsureAdditionalFiles, GetCABundle, EnsureCRIConfig,
           Admit, vars, shootVars, workerVars
  <1>2. NoHook.todo = {} /\ ~NoHook.active
    BY DEF NoHook
  <1>3. CASE DeployOSC
    <2>1. CASE stage = "live"
      <3>1. /\ hook' = [active |-> TRUE, mutate |-> awake, todo |-> Ensurers, secret |-> {},
                      osc |-> NoStatus]
            /\ flow' = "deploying" /\ Ready
        BY <1>3, <2>1 DEF DeployOSC, Serve, ShouldMutate, TypeOK
      <3>2. FromStatus(Ensurers)' = NoStatus
        BY <1>1 DEF FromStatus, NoStatus, Ensurers
      <3> QED
        BY <1>1, <2>1, <3>1, <3>2 DEF FlowServesStatus, Ready, Ensurers
    <2>2. CASE stage # "live"
      BY <1>1, <1>2, <1>3, <2>2 DEF DeployOSC, FlowServesStatus, Ready
    <2> QED
      BY <2>1, <2>2
  <1>4. CASE TouchOSC
    BY <1>1, <1>4 DEF TouchOSC, Serve, ShouldMutate, FlowServesStatus, Ready, Ensurers
  <1>5. ASSUME Deny, UNCHANGED osc
        PROVE  FlowServesStatus'
    BY <1>1, <1>2, <1>5 DEF Deny, FlowServesStatus, Ready
  <1>6. CASE EnsureAdditionalFiles
    <2>1. CASE StatusMissing
      BY <1>5, <1>6, <2>1 DEF EnsureAdditionalFiles
    <2>2. CASE ~StatusMissing /\ hook.mutate /\ status.bundle # {}
      <3>1. /\ hook' = [hook EXCEPT !.todo = {"GetCABundle"} \cup
                                             (hook.todo \ {"EnsureAdditionalFiles"}),
                                    !.secret = status.bundle]
            /\ "EnsureAdditionalFiles" \in hook.todo /\ UNCHANGED <<vars, osc, flow>>
        BY <1>6, <2>2 DEF EnsureAdditionalFiles
      <3>2. /\ hook.active /\ hook'.active /\ hook'.mutate = hook.mutate /\ hook'.osc = hook.osc
            /\ hook'.secret = status.bundle
            /\ hook'.todo = {"GetCABundle"} \cup (hook.todo \ {"EnsureAdditionalFiles"})
        BY <3>1 DEF FlowServesStatus
      <3>3. FromStatus(hook'.todo) = FromStatus(hook.todo)
        BY <3>1, <3>2 DEF FromStatus
      <3> QED
        BY <2>2, <3>1, <3>2, <3>3, EnsurerServes
    <2>3. CASE ~StatusMissing /\ ~(hook.mutate /\ status.bundle # {})
      <3>1. /\ hook' = [hook EXCEPT !.todo = hook.todo \ {"EnsureAdditionalFiles"},
                                    !.osc = hook.osc]
            /\ "EnsureAdditionalFiles" \in hook.todo /\ UNCHANGED <<vars, osc, flow>>
        BY <1>6, <2>3 DEF EnsureAdditionalFiles, Done
      <3>2. /\ hook.active /\ hook'.active /\ hook'.mutate = hook.mutate /\ hook'.osc = hook.osc
            /\ hook'.secret = hook.secret /\ hook'.todo = hook.todo \ {"EnsureAdditionalFiles"}
        BY <3>1 DEF FlowServesStatus
      <3>3. status.bundle = {} => FromStatus(hook'.todo) = FromStatus(hook.todo)
        BY <3>1, <3>2 DEF FromStatus
      <3> QED
        BY <2>3, <3>1, <3>2, <3>3, EnsurerServes DEF FlowServesStatus
    <2> QED
      BY <2>1, <2>2, <2>3
  <1>9. CASE GetCABundle
    <2>1. CASE hook.secret \notin bundles
      BY <1>5, <1>9, <2>1 DEF GetCABundle
    <2>2. CASE hook.secret \in bundles
      <3>1. /\ hook' = [hook EXCEPT !.todo = hook.todo \ {"GetCABundle"}, !.secret = {},
                                    !.osc.bundle = hook.secret]
            /\ "GetCABundle" \in hook.todo /\ UNCHANGED <<vars, osc, flow>>
        BY <1>9, <2>2 DEF GetCABundle
      <3>2. /\ hook.active /\ hook'.active /\ hook'.mutate = hook.mutate /\ hook'.secret = {}
            /\ hook'.osc = [hook.osc EXCEPT !.bundle = hook.secret]
            /\ hook'.todo = hook.todo \ {"GetCABundle"} /\ hook.secret # {}
        BY <3>1 DEF FlowServesStatus
      <3> QED
        BY <1>1, <3>1, <3>2, BundleServes
    <2> QED
      BY <2>1, <2>2
  <1>7. CASE EnsureCRIConfig
    <2>1. CASE StatusMissing
      BY <1>5, <1>7, <2>1 DEF EnsureCRIConfig
    <2>2. CASE ~StatusMissing
      <3> DEFINE spec == IF hook.mutate THEN WithCaches(hook.osc) ELSE hook.osc
      <3>1. /\ hook' = [hook EXCEPT !.todo = hook.todo \ {"EnsureCRIConfig"}, !.osc = spec]
            /\ "EnsureCRIConfig" \in hook.todo /\ UNCHANGED <<vars, osc, flow>>
        BY <1>7, <2>2 DEF EnsureCRIConfig, Done
      <3>2. /\ hook.active /\ hook'.active /\ hook'.mutate = hook.mutate /\ hook'.osc = spec
            /\ hook'.secret = hook.secret /\ hook'.todo = hook.todo \ {"EnsureCRIConfig"}
        BY <3>1 DEF FlowServesStatus
      <3>3. hook.osc = FromStatus(hook.todo) => WithCaches(hook.osc) = FromStatus(hook'.todo)
        BY <3>1, <3>2, FromStatusGrows
      <3>4. hook.osc = status => WithCaches(hook.osc) = status
        BY StatusStays
      <3> HIDE DEF spec
      <3>5. hook.mutate => spec = WithCaches(hook.osc)
        BY DEF spec
      <3> QED
        BY <3>1, <3>2, <3>3, <3>4, <3>5, EnsurerServes DEF FlowServesStatus
    <2> QED
      BY <2>1, <2>2
  <1>8. CASE Admit
    BY <1>1, <1>2, <1>8, FromStatusGrows DEF Admit, FlowServesStatus, Ready
  <1> QED
    BY <1>3, <1>4, <1>6, <1>7, <1>8, <1>9 DEF WebhookStep

LEMMA ServingStep ==
  ASSUME TypeOK, ControlInv, ServingInv, [NodeNext]_allVars
  PROVE  ServingInv'
  <1>1. AddressesFit'
    BY NodeStep, AddressesStep DEF ServingInv, allVars
  <1> SUFFICES FlowServesStatus'
    BY <1>1 DEF ServingInv
  <1>2. ASSUME UNCHANGED nodeVars, UNCHANGED <<stage, request, op, pc, awake, status>>
        PROVE  FlowServesStatus'
    BY <1>2 DEF ServingInv, FlowServesStatus, FromStatus, Ready, nodeVars
  <1>3. ASSUME flow = "pending", UNCHANGED nodeVars
        PROVE  FlowServesStatus'
    BY <1>3 DEF ServingInv, FlowServesStatus, nodeVars
  <1>4. CASE (UNCHANGED allVars) \/ (Disabled /\ UNCHANGED nodeVars)
    <2>1. UNCHANGED nodeVars /\ UNCHANGED <<stage, request, op, pc, awake, status>>
      BY <1>4 DEF allVars, Disabled, vars, shootVars, workerVars
    <2> QED
      BY <1>2, <2>1
  <1>5. CASE Unobserved /\ UNCHANGED nodeVars
    <2>1. Ready \/ flow = "pending"
      BY DEF ServingInv, FlowServesStatus
    <2> QED
      BY <1>2, <1>3, <1>5, <2>1, ReadyRests
  <1>6. ASSUME flow' = "pending", UNCHANGED <<osc, hook>>
        PROVE  FlowServesStatus'
    BY <1>6 DEF ServingInv, FlowServesStatus
  <1>7. CASE SystemStep
    <2>1. \/ Unobserved /\ UNCHANGED nodeVars
          \/ Disabled /\ UNCHANGED nodeVars
          \/ flow' = "pending" /\ UNCHANGED <<osc, hook>>
      BY <1>7 DEF SystemStep
    <2> QED
      BY <1>4, <1>5, <1>6, <2>1
  <1>8. CASE DeployOSC \/ TouchOSC \/ WebhookStep
    BY <1>8, WebhookServes DEF ServingInv
  <1> QED
    BY <1>4, <1>7, <1>8 DEF NodeNext, allVars

(* A flow that is done has left the providerStatus on the nodes.           *)
THEOREM ServingCorrect == NodeSpec => []ServingInv
  <1>1. NodeInit => ServingInv
    BY DEF NodeInit, Init, NoStatus, NoHook, NoLocal, NoObjects, NothingSeen, NoObject, Kinds,
           ServingInv, AddressesFit, FlowServesStatus
  <1>2. TypeOK /\ (SecretPart /\ ControlInv /\ CertificatesSeen) /\ ServingInv
          /\ [NodeNext]_allVars => ServingInv'
    BY ServingStep
  <1> QED
    BY <1>1, <1>2, NodesImplementSystem, TypeCorrect, SecretsInvariant, PTL DEF NodeSpec

(* Although the bundle is looked up after the status was read, gardenlet's *)
(* own write finds it, whatever rotations and failures came before.        *)
THEOREM FlowBundleSafe == NodeSpec => []FlowFindsBundle
  <1>1. StatusCAExists /\ ServingInv => FlowFindsBundle
    BY DEF StatusCAExists, ServingInv, FlowServesStatus, FlowFindsBundle
  <1> QED
    BY <1>1, ServingCorrect, NodesImplementSystem, StatusCASafe, PTL

(* For any changes, rotations and failures, and as long as migrations      *)
(* leave no Service under a name that is no longer wanted: when the flow   *)
(* of an awake Shoot is done, the nodes have what is configured.           *)
THEOREM DoneUnlessOrphaned == NodeSpec /\ []NoOrphans => []DoneServesConfig
  <1>1. ReadyServesConfig /\ StatusTrustsCertificates /\ ServingInv => DoneServesConfig
    <2> SUFFICES ASSUME ReadyServesConfig, StatusTrustsCertificates, FlowServesStatus,
                        flow = "done", Ready
                 PROVE  /\ stage = "live" /\ awake =>
                             /\ osc.schemes = caches /\ osc.ips = status.ips
                             /\ \A u \in Caches(caches) :
                                  mr["caches"].desired[u].scheme = osc.schemes[u]
                             /\ \A u \in Upstreams : caches[u] = "https" =>
                                  /\ mr["caches"].desired[u].ip = osc.ips[u]
                                  /\ mr["caches"].desired[u].ca \in osc.bundle
                        /\ stage = "gone" => osc = NoStatus
      BY DEF DoneServesConfig, ServingInv
    <2>1. CASE stage = "live" /\ awake
      <3>1. /\ osc = status /\ status.schemes = caches
            /\ \A u \in Upstreams : mr["caches"].desired[u].scheme = caches[u]
            /\ \A u \in Upstreams : caches[u] = "https" =>
                 mr["caches"].desired[u].ip = status.ips[u]
        BY <2>1 DEF ReadyServesConfig, FlowServesStatus, SchemesOf
      <3>2. \A u \in Upstreams : caches[u] = "https" => mr["caches"].desired[u].ca \in osc.bundle
        BY <3>1 DEF StatusTrustsCertificates
      <3> QED
        BY <2>1, <3>1, <3>2 DEF Caches
    <2>2. CASE ~(stage = "live" /\ awake)
      BY <2>2 DEF FlowServesStatus
    <2> QED
      BY <2>1, <2>2
  <1> QED
    BY <1>1, ServingCorrect, NodesImplementSystem, ReadyUnlessOrphaned, TrustSafe, PTL

(* Without migrations the nodes always have what is configured.            *)
THEOREM DoneSafe == ASSUME MaxMigrations = 0 PROVE NodeSpec => []DoneServesConfig
  BY DoneUnlessOrphaned, NodesImplementSystem, NeverOrphaned, PTL

=============================================================================
