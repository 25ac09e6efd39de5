--------------------- MODULE RegistryCacheSecrets_proof ---------------------
(***************************************************************************)
(* The CA secrets: for every set of upstreams, any number of rotations,    *)
(* migrations, changes and faults, the published CA bundle exists and it   *)
(* trusts every certificate deployed for a published cache.                *)
(***************************************************************************)
EXTENDS RegistryCacheInvariants, RegistryCacheTypes_proof, WellFoundedInduction

-----------------------------------------------------------------------------
(* A nonempty set of epochs has a latest one (from the well-foundedness of *)
(* the natural numbers).                                                   *)
Less == {p \in Nat \X Nat : p[1] < p[2]}

LEMMA LessWellFounded == IsWellFoundedOn(Less, Nat)
  BY NatLessThanWellFounded, Zenon DEF OpToRel, Less

LEMMA LatestExists ==
  ASSUME NEW N \in Nat, NEW T \in SUBSET (0..N), T # {}
  PROVE  \E x \in T : \A y \in T : y <= x
  <1> DEFINE U == {n \in Nat : \E t \in T : n = N - t}
  <1>1. \A t \in T : t \in 0..N
    OBVIOUS
  <1>2. \A t \in T : N - t \in Nat
    BY <1>1
  <1>3. U \subseteq Nat /\ U # {}
    BY <1>2
  <1>4. \E m \in U : \A n \in U : ~(<<n, m>> \in Less)
    <2> HIDE DEF U
    <2> QED
      BY <1>3, LessWellFounded, WFMin
  <1>5. PICK x \in T : \A y \in T : ~(<<N - y, N - x>> \in Less)
    BY <1>2, <1>4
  <1>6. \A y \in T : <<N - y, N - x>> \in Nat \X Nat
    BY <1>2
  <1>7. \A y \in T : ~(N - y < N - x)
    BY <1>2, <1>5, <1>6 DEF Less
  <1> QED
    BY <1>1, <1>7

-----------------------------------------------------------------------------
(* The operations, the requests and the life of the Extension.             *)

ControlInv == OperationFitsStage /\ PCFitsOperation /\ SnapshotCurrent

LEMMA ControlInit == Init => ControlInv
  BY DEF Init, ControlInv, OperationFitsStage, PCFitsOperation, SnapshotCurrent,
         ReconcileOps, DeleteOps, BeforeBundle, AfterBundle, DestroyPCs

LEMMA AbortControl ==
  ASSUME TypeOK, ControlInv, pc # "idle", Abort, UNCHANGED <<epoch, keepOld>>
  PROVE  ControlInv'
  BY DEF ControlInv, OperationFitsStage, PCFitsOperation, SnapshotCurrent, Abort, TypeOK,
         ReconcileOps, DeleteOps, BeforeBundle, AfterBundle, DestroyPCs, Operations

LEMMA CompleteControl ==
  ASSUME TypeOK, ControlInv, pc # "idle", Complete, UNCHANGED <<epoch, keepOld>>
  PROVE  ControlInv'
  BY DEF ControlInv, OperationFitsStage, PCFitsOperation, SnapshotCurrent, Complete, TypeOK,
         ReconcileOps, DeleteOps, BeforeBundle, AfterBundle, DestroyPCs, Operations

(* A step of an operation goes on to the next one or ends the operation.   *)
Advance ==
  /\ \E l \in PCs \ {"idle"} : Goto(l)
  /\ UNCHANGED <<stage, epoch, keepOld>>
  /\ local'.epoch = local.epoch /\ local'.keepOld = local.keepOld
  /\ PCFitsOperation'

End == (Abort \/ Complete) /\ UNCHANGED <<epoch, keepOld>>

LEMMA OutcomeControl == TypeOK /\ ControlInv /\ pc # "idle" /\ (Advance \/ End) => ControlInv'
  <1>1. TypeOK /\ ControlInv /\ pc # "idle" /\ Advance => ControlInv'
    BY DEF Advance, ControlInv, OperationFitsStage, SnapshotCurrent, Goto, PCs
  <1> QED
    BY <1>1, AbortControl, CompleteControl DEF End

LEMMA FrameControl ==
  ASSUME ControlInv, UNCHANGED <<stage, request, op, pc, local, epoch, keepOld>>
  PROVE  ControlInv'
  BY DEF ControlInv, OperationFitsStage, PCFitsOperation, SnapshotCurrent

LEMMA BeginControl == TypeOK /\ ControlInv /\ Begin => ControlInv'
  BY DEF Begin, BeginReconcile, BeginMigrate, BeginDelete, ControlInv, shootVars,
         OperationFitsStage, PCFitsOperation, SnapshotCurrent, TypeOK, NoLocal,
         ReconcileOps, DeleteOps, BeforeBundle, AfterBundle, DestroyPCs, Operations

LEMMA StepOutcome ==
  ASSUME TypeOK, ControlInv, ReconcileStep \/ DestroyStep \/ Cleanup \/ Fail
  PROVE  pc # "idle" /\ (Advance \/ End)
  <1> USE DEF Advance, End, Goto, shootVars, ControlInv, PCFitsOperation, ReconcileOps, DeleteOps,
              BeforeBundle, AfterBundle, DestroyPCs, PCs
  <1>1. CASE DeployServices
    BY <1>1 DEF DeployServices
  <1>2. CASE AwaitHealthy
    BY <1>2 DEF AwaitHealthy
  <1>3. CASE FetchServices
    BY <1>3 DEF FetchServices, Locals, TypeOK
  <1>4. CASE GenerateCA
    BY <1>4 DEF GenerateCA
  <1>5. CASE GenerateBundle
    BY <1>5 DEF GenerateBundle, Locals, TypeOK
  <1>6. CASE DeployCaches
    BY <1>6 DEF DeployCaches
  <1>7. CASE DeployMonitoring
    BY <1>7 DEF DeployMonitoring
  <1>8. CASE PatchStatus
    BY <1>8 DEF PatchStatus
  <1>9. CASE KeepServices
    BY <1>9 DEF KeepServices, Keep
  <1>10. CASE DestroyServices
    BY <1>10 DEF DestroyServices
  <1>11. CASE AwaitServicesGone
    BY <1>11 DEF AwaitServicesGone
  <1>12. CASE KeepCaches
    BY <1>12 DEF KeepCaches, Keep
  <1>13. CASE DestroyCaches
    BY <1>13 DEF DestroyCaches
  <1>14. CASE DestroyMonitoring
    BY <1>14 DEF DestroyMonitoring
  <1>15. CASE AwaitCachesGone
    BY <1>15 DEF AwaitCachesGone
  <1>16. CASE Cleanup
    BY <1>16 DEF Cleanup
  <1>17. CASE Fail
    BY <1>17 DEF Fail
  <1> QED
    BY <1>1, <1>2, <1>3, <1>4, <1>5, <1>6, <1>7, <1>8, <1>9, <1>10,
       <1>11, <1>12, <1>13, <1>14, <1>15, <1>16, <1>17
    DEF ReconcileStep, DestroyStep

LEMMA EnvironmentControl ==
  TypeOK /\ ControlInv /\ (Gardenlet \/ Users \/ Disabled \/ ResourceManager) => ControlInv'
  <1> SUFFICES ASSUME TypeOK, ControlInv, Gardenlet \/ Users \/ Disabled \/ ResourceManager
               PROVE  ControlInv'
    OBVIOUS
  <1> USE DEF shootVars, workerVars
  <1>1. CASE Gardenlet
    BY <1>1 DEF Gardenlet, StartRotation, CompleteRotation, RequestReconcile, RequestMigrate,
                RequestRestore, RequestDelete, RequestForceDelete, Enable, UserChange, Ready,
                ControlInv, OperationFitsStage, PCFitsOperation, SnapshotCurrent,
                ReconcileOps, DeleteOps
  <1>2. CASE ChangeCaches \/ ToggleHibernation
    BY <1>2 DEF ChangeCaches, ToggleHibernation, UserChange, ControlInv, OperationFitsStage,
                PCFitsOperation, SnapshotCurrent, ReconcileOps, DeleteOps
  <1>3. ASSUME NEW n \in Names, DeleteService(n) PROVE ControlInv'
    BY <1>3, FrameControl DEF DeleteService
  <1>4. CASE Disabled
    BY <1>4, FrameControl DEF Disabled, vars
  <1>5. CASE ResourceManager
    BY <1>5, FrameControl
    DEF ResourceManager, ApplyObject, AdoptObject, RemoveObject, Observe, FinishDeletion
  <1> QED
    BY <1>1, <1>2, <1>3, <1>4, <1>5 DEF Users

LEMMA ControlStep == TypeOK /\ ControlInv /\ [Next]_vars => ControlInv'
  <1>1. UNCHANGED vars /\ ControlInv => ControlInv'
    BY FrameControl DEF vars, shootVars, workerVars
  <1> QED
    BY <1>1, BeginControl, StepOutcome, OutcomeControl, EnvironmentControl DEF Next, Worker

-----------------------------------------------------------------------------
(* The Services a reconciliation has listed.                               *)

LEMMA FetchOutcome ==
  ASSUME FetchServices
  PROVE  \/ Abort
         \/ /\ AllServicesFound /\ pc' = "generateCA" /\ UNCHANGED <<request, op, stage>>
            /\ \E seen \in LastListed(Schemes), certs \in LastListed({"https"}) :
                 /\ \A u \in Upstreams : seen[u].scheme = "https" => certs[u] = seen[u]
                 /\ local' = [local EXCEPT !.seen = seen, !.certs = certs]
  BY DEF FetchServices, Goto

LEMMA FetchEffect ==
  ASSUME TypeOK, FetchServices, ~Abort
  PROVE  /\ AllServicesFound /\ pc' = "generateCA" /\ UNCHANGED <<request, op, stage>>
         /\ local'.seen \in LastListed(Schemes) /\ local'.certs \in LastListed({"https"})
         /\ UNCHANGED <<local.caches, local.owners, local.epoch, local.keepOld, local.signer,
                        local.bundle>>
         /\ \A u \in Upstreams :
              local'.seen[u].scheme = "https" => local'.certs[u] = local'.seen[u]
  <1>1. AllServicesFound /\ pc' = "generateCA" /\ UNCHANGED <<request, op, stage>>
    BY FetchOutcome
  <1>2. PICK seen \in LastListed(Schemes), certs \in LastListed({"https"}) :
          /\ \A u \in Upstreams : seen[u].scheme = "https" => certs[u] = seen[u]
          /\ local' = [local EXCEPT !.seen = seen, !.certs = certs]
    BY FetchOutcome
  <1> QED
    BY <1>1, <1>2 DEF TypeOK, Locals

LEMMA CertificatesSeenStep == TypeOK /\ CertificatesSeen /\ [Next]_vars => CertificatesSeen'
  <1> SUFFICES ASSUME TypeOK, CertificatesSeen, [Next]_vars PROVE CertificatesSeen'
    OBVIOUS
  <1> USE DEF shootVars, workerVars, shootObjVars, secretVars, boundVars
  <1>1. local' = NoLocal => CertificatesSeen'
    BY DEF CertificatesSeen, NoLocal, NothingSeen, NoObject
  <1>2. CASE UNCHANGED local
    BY <1>2 DEF CertificatesSeen
  <1>3. CASE FetchServices
    <2>1. CASE Abort
      BY <1>1, <2>1 DEF Abort
    <2>2. CASE ~Abort
      BY <1>3, <2>2, FetchEffect DEF CertificatesSeen
    <2> QED
      BY <2>1, <2>2
  <1>4. CASE GenerateBundle
    <2>1. UNCHANGED <<local.seen, local.certs>>
      BY <1>4 DEF GenerateBundle, TypeOK, Locals
    <2> QED
      BY <2>1 DEF CertificatesSeen
  <1>5. CASE Begin
    <2>1. UNCHANGED local \/ (local'.seen = NothingSeen /\ local'.certs = NothingSeen)
      BY <1>5 DEF Begin, BeginReconcile, BeginMigrate, BeginDelete, NoLocal
    <2> QED
      BY <1>2, <2>1 DEF CertificatesSeen, NothingSeen, NoObject
  <1>6. CASE Fail \/ Cleanup
    BY <1>1, <1>6 DEF Fail, Cleanup, Abort, Complete
  <1>7. CASE ReconcileStep
    <2>1. \/ FetchServices \/ GenerateBundle
          \/ local' = NoLocal \/ UNCHANGED local
      BY <1>7 DEF ReconcileStep, DeployServices, AwaitHealthy, GenerateCA, DeployCaches,
                  DeployMonitoring, PatchStatus, Abort
    <2> QED
      BY <1>1, <1>2, <1>3, <1>4, <2>1
  <1>8. CASE DestroyStep
    <2>1. local' = NoLocal \/ UNCHANGED local
      BY <1>8 DEF DestroyStep, KeepServices, KeepCaches, Keep, DestroyServices,
                  AwaitServicesGone, DestroyCaches, DestroyMonitoring, AwaitCachesGone, Abort,
                  Complete
    <2> QED
      BY <1>1, <1>2, <2>1
  <1>9. ResourceManager \/ Users \/ Disabled \/ UNCHANGED vars => UNCHANGED local
    BY DEF ResourceManager, ApplyObject, AdoptObject, RemoveObject, Observe, FinishDeletion,
           Users, ChangeCaches, ToggleHibernation, DeleteService, Disabled, vars
  <1>10. Gardenlet => UNCHANGED local
    BY DEF Gardenlet, StartRotation, CompleteRotation, RequestReconcile, RequestMigrate,
           RequestRestore, RequestDelete, RequestForceDelete, Enable
  <1> QED
    BY <1>2, <1>5, <1>6, <1>7, <1>8, <1>9, <1>10 DEF Next, Worker

-----------------------------------------------------------------------------
(* The secrets.                                                            *)

SecretPart ==
  /\ BundleGenerated /\ CleanupPublished /\ StatusHasBundle /\ StatusCAExists
  /\ NextSignerPublished /\ CurrentCAPublished
  /\ DeployedSignerGenerated /\ StatusTrustsCertificates

LEMMA SecretInit == Init => SecretPart
  <1> SUFFICES ASSUME Init PROVE SecretPart
    OBVIOUS
  <1>1. status.bundle = {} /\ local.bundle = {} /\ op = "none" /\ pc = "idle"
        /\ \A u \in Upstreams : status.schemes[u] = "none"
    BY DEF Init, NoStatus, NoLocal
  <1> QED
    BY <1>1 DEF SecretPart, BundleGenerated, CleanupPublished, StatusHasBundle, StatusCAExists,
      NextSignerPublished, CurrentCAPublished, DeployedSignerGenerated, StatusTrustsCertificates,
      ReconcileOps, DeleteOps, AfterBundle

(* No new certificate is deployed.                                         *)
DesiredShrinks ==
  \A u \in Upstreams :
    mr'["caches"].desired[u].scheme = "https" =>
      /\ mr["caches"].desired[u].scheme = "https"
      /\ mr'["caches"].desired[u].ca = mr["caches"].desired[u].ca

(* The CAs depend on the CA secrets and the rotation only.                 *)
LEMMA SignersFrame ==
  ASSUME UNCHANGED <<epoch, keepOld, cas>>
  PROVE  /\ Signers(epoch, keepOld)' = Signers(epoch, keepOld)
         /\ OldCA(epoch, keepOld)' = OldCA(epoch, keepOld)
  BY DEF Signers, OldCA, OldEpochs

Passive == UNCHANGED <<epoch, keepOld, cas, bundles, status>> /\ DesiredShrinks

(* The worker, the request and the stage do not change.                    *)
LEMMA QuietSecrets ==
  ASSUME SecretPart, Passive, UNCHANGED <<awake, stage, request, op, pc, local>>
  PROVE  SecretPart'
  BY SignersFrame
  DEF SecretPart, Passive, DesiredShrinks, BundleGenerated, CleanupPublished, StatusHasBundle,
      StatusCAExists, SecretsAlive, NextSignerPublished, CurrentCAPublished, Ready, TLSSeen,
      DeployedSignerGenerated, StatusTrustsCertificates

(* The operation fails.                                                    *)
LEMMA AbortSecrets ==
  ASSUME TypeOK, ControlInv, SecretPart, Passive, pc # "idle", Abort
  PROVE  SecretPart'
  <1>1. local'.bundle = {} /\ pc' = "idle" /\ op' = "none" /\ request' # "none"
    BY DEF Abort, NoLocal, ControlInv, OperationFitsStage
  <1> QED
    BY <1>1, SignersFrame
    DEF Abort, SecretPart, Passive, DesiredShrinks, BundleGenerated, CleanupPublished,
        StatusHasBundle, StatusCAExists, SecretsAlive, NextSignerPublished, CurrentCAPublished,
        Ready, DeployedSignerGenerated, StatusTrustsCertificates, ReconcileOps, DeleteOps,
        AfterBundle

(* The operation goes on without touching a secret or the status.          *)
LEMMA GotoSecrets ==
  ASSUME ControlInv, SecretPart, Passive, NEW l \in PCs \ {"idle", "cleanup"}, Goto(l),
         UNCHANGED <<awake, stage, local>>,
         l \in AfterBundle => pc \in AfterBundle \/ ~TLSSeen,
         l \in {"deployMonitoring", "patchStatus"} => pc \in {"deployMonitoring", "patchStatus"},
         l \in BeforeBundle \cup DestroyPCs => pc \in BeforeBundle \cup DestroyPCs
  PROVE  SecretPart'
  BY SignersFrame
  DEF Goto, SecretPart, Passive, DesiredShrinks, BundleGenerated, CleanupPublished,
      StatusHasBundle, StatusCAExists, SecretsAlive, NextSignerPublished, CurrentCAPublished,
      Ready, TLSSeen, DeployedSignerGenerated, StatusTrustsCertificates, ReconcileOps, DeleteOps,
      AfterBundle, BeforeBundle, DestroyPCs, PCs

(* The operation ends without touching a secret: a completed migration.    *)
LEMMA MigratedSecrets ==
  ASSUME TypeOK, ControlInv, SecretPart, Passive, op = "migrate", Complete
  PROVE  SecretPart'
  <1>1. local'.bundle = {} /\ pc' = "idle" /\ op' = "none" /\ stage' = "migrated"
    BY DEF Complete, NoLocal
  <1> QED
    BY <1>1, SignersFrame
    DEF SecretPart, Passive, DesiredShrinks, BundleGenerated, CleanupPublished,
        StatusHasBundle, StatusCAExists, SecretsAlive, NextSignerPublished, CurrentCAPublished,
        Ready, DeployedSignerGenerated, StatusTrustsCertificates, ReconcileOps, DeleteOps,
        AfterBundle

(* A deletion reaches Cleanup.                                             *)
LEMMA DeletionCleanupSecrets ==
  ASSUME TypeOK, ControlInv, SecretPart, Passive, op \in DeleteOps, Goto("cleanup"),
         UNCHANGED <<awake, stage, local>>
  PROVE  SecretPart'
  BY SignersFrame
  DEF Goto, SecretPart, Passive, DesiredShrinks, BundleGenerated, CleanupPublished,
      StatusHasBundle, StatusCAExists, SecretsAlive, NextSignerPublished, CurrentCAPublished,
      Ready, DeployedSignerGenerated, StatusTrustsCertificates, ReconcileOps, DeleteOps,
      AfterBundle

LEMMA DestroyStepSecrets ==
  ASSUME TypeOK, ControlInv, SecretPart, DestroyStep
  PROVE  SecretPart'
  <1> USE DEF shootVars, shootObjVars, secretVars, boundVars, PCs, DestroyPCs, BeforeBundle,
              AfterBundle
  <1>1. CASE KeepServices \/ KeepCaches \/ DestroyServices \/ DestroyCaches
    <2>1. mr'["caches"].desired = mr["caches"].desired
      BY <1>1 DEF KeepServices, KeepCaches, Keep, DestroyServices, DestroyCaches, TypeOK,
                  ManagedResources, Kinds
    <2>2. Passive
      BY <1>1, <2>1 DEF Passive, DesiredShrinks, KeepServices, KeepCaches, Keep,
                        DestroyServices, DestroyCaches
    <2> QED
      BY <1>1, <2>2, GotoSecrets DEF KeepServices, KeepCaches, Keep, DestroyServices, DestroyCaches
  <1>2. CASE AwaitServicesGone
    <2>1. Passive
      BY <1>2 DEF Passive, DesiredShrinks, AwaitServicesGone
    <2> QED
      BY <1>2, <2>1, GotoSecrets, AbortSecrets DEF AwaitServicesGone
  <1>3. CASE DestroyMonitoring
    <2>1. Passive
      BY <1>3 DEF Passive, DesiredShrinks, DestroyMonitoring
    <2>2. op = "forceDelete" => op \in DeleteOps
      BY DEF DeleteOps
    <2> QED
      BY <1>3, <2>1, <2>2, GotoSecrets, AbortSecrets, DeletionCleanupSecrets DEF DestroyMonitoring
  <1>4. CASE AwaitCachesGone
    <2>1. Passive
      BY <1>4 DEF Passive, DesiredShrinks, AwaitCachesGone
    <2>2. op # "migrate" => op \in DeleteOps
      BY <1>4 DEF AwaitCachesGone, ControlInv, PCFitsOperation
    <2> QED
      BY <1>4, <2>1, <2>2, AbortSecrets, MigratedSecrets, DeletionCleanupSecrets
      DEF AwaitCachesGone
  <1> QED
    BY <1>1, <1>2, <1>3, <1>4 DEF DestroyStep

LEMMA BeginSecrets ==
  ASSUME ControlInv, SecretPart, Begin
  PROVE  SecretPart'
  <1> USE DEF shootVars, shootObjVars, secretVars, boundVars
  <1>1. Passive /\ awake' = awake /\ stage' = stage /\ pc = "idle"
    BY DEF Begin, BeginReconcile, BeginMigrate, BeginDelete, Passive, DesiredShrinks
  <1>2. pc' \in {"idle", "deployServices", "keepServices", "destroyServices"}
    BY DEF Begin, BeginReconcile, BeginMigrate, BeginDelete
  <1>3. local.bundle = {} /\ local'.bundle = {}
    BY <1>1 DEF Begin, BeginReconcile, BeginMigrate, BeginDelete, NoLocal, SecretPart,
                BundleGenerated
  <1>4. pc' = "idle" => ~awake
    BY Zenon DEF Begin, BeginReconcile, BeginMigrate, BeginDelete
  <1>5. SecretsAlive' => SecretsAlive
    BY <1>1 DEF Begin, BeginReconcile, BeginMigrate, BeginDelete, SecretsAlive, ReconcileOps,
                ControlInv, OperationFitsStage
  <1> QED
    BY <1>1, <1>2, <1>3, <1>4, <1>5, SignersFrame
    DEF SecretPart, Passive, DesiredShrinks, BundleGenerated, CleanupPublished,
        StatusHasBundle, StatusCAExists, NextSignerPublished, CurrentCAPublished,
        Ready, DeployedSignerGenerated, StatusTrustsCertificates, AfterBundle, BeforeBundle,
        DestroyPCs

-----------------------------------------------------------------------------
(* The steps of a reconciliation.                                          *)

LEMMA GenerateCASecrets ==
  ASSUME TypeOK, ControlInv, SecretPart, GenerateCA
  PROVE  SecretPart'
  <1> USE DEF shootVars, shootObjVars, secretVars, boundVars, PCs, DestroyPCs, BeforeBundle,
              AfterBundle
  <1>1. op \in ReconcileOps /\ local.epoch = epoch /\ local.bundle = {}
    BY DEF GenerateCA, ControlInv, PCFitsOperation, SnapshotCurrent, SecretPart, BundleGenerated
  <1>2. CASE UNCHANGED cas
    <2>1. Passive
      BY <1>2 DEF Passive, DesiredShrinks, GenerateCA
    <2>2. (Goto("generateBundle") \/ (Goto("deployCaches") /\ ~TLSSeen))
          /\ UNCHANGED <<awake, stage, local>>
      BY DEF GenerateCA
    <2> QED
      BY <2>1, <2>2, GotoSecrets DEF GenerateCA
  <1>3. CASE cas[epoch] = 0 /\ cas' = [cas EXCEPT ![epoch] = lastCA + 1]
                            /\ Goto("generateBundle")
    <2>1. UNCHANGED <<awake, epoch, keepOld, stage, op, local, mr, bundles, status>>
          /\ pc' = "generateBundle"
      BY <1>3 DEF GenerateCA, Goto
    <2>2. OldEpochs(epoch, keepOld)' = OldEpochs(epoch, keepOld)
      BY <1>3, <2>1 DEF OldEpochs, TypeOK, Epochs
    <2>3. OldCA(epoch, keepOld)' = OldCA(epoch, keepOld)
      BY <1>3, <2>1, <2>2 DEF OldCA, OldEpochs, TypeOK, Epochs
    <2>4. OldCA(epoch, keepOld) = {} => status.bundle = {}
      <3>1. status.bundle \subseteq CAIds /\ 0 \notin CAIds
        BY DEF TypeOK, Statuses, CAIds
      <3>2. status.bundle # {} => Signers(epoch, keepOld) \subseteq status.bundle
        BY <1>1 DEF SecretPart, NextSignerPublished, SecretsAlive
      <3> QED
        BY <1>3, <3>1, <3>2 DEF Signers
    <2>5. status.bundle # {} => Signers(epoch, keepOld)' = Signers(epoch, keepOld)
      BY <2>3, <2>4 DEF Signers
    <2> QED
      BY <1>1, <2>1, <2>5
      DEF SecretPart, BundleGenerated, CleanupPublished, StatusHasBundle, StatusCAExists,
          SecretsAlive, NextSignerPublished, CurrentCAPublished, Ready, DeployedSignerGenerated,
          StatusTrustsCertificates
  <1> QED
    BY <1>1, <1>2, <1>3 DEF GenerateCA

LEMMA GenerateBundleSecrets ==
  ASSUME TypeOK, CAGenerated, ControlInv, SecretPart, GenerateBundle
  PROVE  SecretPart'
  <1>1. op \in ReconcileOps /\ local.epoch = epoch /\ local.keepOld = keepOld
    BY DEF GenerateBundle, ControlInv, PCFitsOperation, SnapshotCurrent, BeforeBundle
  <1>2. /\ UNCHANGED <<awake, epoch, keepOld, stage, op, request, mr, cas, status>>
        /\ pc' = "deployCaches" /\ bundles \subseteq bundles' /\ op' \notin DeleteOps
    BY <1>1 DEF GenerateBundle, Goto, shootVars, shootObjVars, ReconcileOps, DeleteOps
  <1>3. /\ local'.bundle = {cas[epoch]} \cup OldCA(epoch, keepOld)
        /\ local'.bundle \in bundles' /\ local'.signer \in Signers(epoch, keepOld)
    BY <1>1 DEF GenerateBundle, TypeOK, Locals
  <1>4. cas[epoch] # 0
    BY <1>1 DEF GenerateBundle, CAGenerated
  <1> QED
    BY <1>1, <1>2, <1>3, <1>4, SignersFrame
    DEF SecretPart, BundleGenerated, CleanupPublished, StatusHasBundle, StatusCAExists,
        SecretsAlive, NextSignerPublished, CurrentCAPublished, Ready, DeployedSignerGenerated,
        StatusTrustsCertificates, AfterBundle, BeforeBundle, DestroyPCs

(* What a reconciliation has generated covers every certificate it signs.  *)
LEMMA SignerInBundle ==
  ASSUME SecretPart, local.bundle # {}
  PROVE  Signers(epoch, keepOld) \subseteq local.bundle /\ local.signer \in local.bundle
  BY DEF SecretPart, BundleGenerated, Signers

LEMMA DeployCachesSecrets ==
  ASSUME TypeOK, ControlInv, SecretPart, DeployCaches
  PROVE  SecretPart'
  <1>1. op \in ReconcileOps
    BY DEF DeployCaches, ControlInv, PCFitsOperation, AfterBundle
  <1>2. CASE CertificateMissing
    <2>1. Passive
      BY <1>2 DEF Passive, DesiredShrinks, DeployCaches, secretVars
    <2> QED
      BY <1>2, <2>1, AbortSecrets DEF DeployCaches
  <1>3. CASE ~CertificateMissing
    <2>1. /\ UNCHANGED <<awake, epoch, keepOld, stage, op, request, cas, bundles, status, local>>
          /\ pc' = "deployMonitoring"
      BY <1>3 DEF DeployCaches, Goto, secretVars
    <2>2. mr'["caches"].desired = DesiredCaches
      BY <1>3 DEF DeployCaches, Deploy, Deployed, TypeOK, Kinds, ManagedResources
    <2>3. ASSUME NEW u \in Upstreams, mr'["caches"].desired[u].scheme = "https"
          PROVE  mr'["caches"].desired[u].ca = local.signer /\ local.bundle # {}
      <3>1. local.caches[u] = "https"
        BY <2>2, <2>3, DesiredCache
      <3>2. TLSSeen
        BY <1>3, <3>1 DEF CertificateMissing, TLSSeen
      <3>3. mr'["caches"].desired[u].ca = local.signer
        BY <2>2, <3>1, DesiredCache
      <3> QED
        BY <3>2, <3>3 DEF SecretPart, BundleGenerated, DeployCaches, AfterBundle
    <2>4. DeployedSignerGenerated'
      BY <2>1, <2>3, SignerInBundle DEF DeployedSignerGenerated
    <2>5. StatusTrustsCertificates'
      <3>1. local.bundle # {} /\ status.bundle # {} => local.signer \in status.bundle
        BY <1>1 DEF SecretPart, BundleGenerated, NextSignerPublished, SecretsAlive
      <3> QED
        BY <2>1, <2>3, <3>1 DEF StatusTrustsCertificates, SecretPart, StatusHasBundle
    <2> QED
      BY <1>1, <2>1, <2>4, <2>5, SignersFrame
      DEF SecretPart, BundleGenerated, CleanupPublished, StatusHasBundle, StatusCAExists,
          SecretsAlive, NextSignerPublished, CurrentCAPublished, Ready, TLSSeen,
          AfterBundle, BeforeBundle, DestroyPCs, DeployCaches
  <1> QED
    BY <1>2, <1>3

LEMMA PatchStatusSecrets ==
  ASSUME TypeOK, ControlInv, CertificatesSeen, SecretPart, PatchStatus
  PROVE  SecretPart'
  <1>1. op \in ReconcileOps /\ pc \in AfterBundle
    BY DEF PatchStatus, ControlInv, PCFitsOperation, AfterBundle
  <1>2. /\ UNCHANGED <<awake, epoch, keepOld, stage, op, request, cas, bundles, mr, local>>
        /\ pc' = "cleanup" /\ op' \notin DeleteOps
    BY <1>1 DEF PatchStatus, Goto, shootVars, shootObjVars, secretVars, ReconcileOps, DeleteOps
  <1>3. /\ status'.bundle = local.bundle
        /\ \A u \in Upstreams : status'.schemes[u] = "https" => local.bundle # {}
    BY <1>1 DEF PatchStatus, SchemesOf, SecretPart, BundleGenerated, TLSSeen, CertificatesSeen
  <1>4. StatusTrustsCertificates'
    BY <1>1, <1>2, <1>3
    DEF StatusTrustsCertificates, SecretPart, DeployedSignerGenerated, PatchStatus
  <1> QED
    BY <1>1, <1>2, <1>3, <1>4, SignersFrame, SignerInBundle
    DEF SecretPart, BundleGenerated, CleanupPublished, StatusHasBundle, StatusCAExists,
        SecretsAlive, NextSignerPublished, CurrentCAPublished, Ready, DeployedSignerGenerated,
        AfterBundle, BeforeBundle, DestroyPCs, PatchStatus

LEMMA ReconcileStepSecrets ==
  ASSUME TypeOK, CAGenerated, ControlInv, CertificatesSeen, SecretPart, ReconcileStep
  PROVE  SecretPart'
  <1> USE DEF shootVars, shootObjVars, secretVars, boundVars, PCs, DestroyPCs, BeforeBundle,
              AfterBundle
  <1>1. CASE DeployServices
    <2>1. Passive
      BY <1>1 DEF Passive, DesiredShrinks, DeployServices, Deploy, TypeOK, Kinds
    <2> QED
      BY <1>1, <2>1, GotoSecrets DEF DeployServices
  <1>2. CASE AwaitHealthy
    <2>1. Passive
      BY <1>2 DEF Passive, DesiredShrinks, AwaitHealthy
    <2> QED
      BY <1>2, <2>1, GotoSecrets, AbortSecrets DEF AwaitHealthy
  <1>3. CASE FetchServices
    <2>1. Passive
      BY <1>3 DEF Passive, DesiredShrinks, FetchServices
    <2>2. CASE AllServicesFound
      <3>1. local'.bundle = {} /\ pc' = "generateCA" /\ UNCHANGED <<awake, stage, op>>
        BY <1>3, <2>2 DEF FetchServices, Goto, TypeOK, Locals, SecretPart, BundleGenerated
      <3> QED
        BY <2>1, <3>1, SignersFrame
        DEF SecretPart, Passive, DesiredShrinks, BundleGenerated, CleanupPublished,
            StatusHasBundle, StatusCAExists, SecretsAlive, NextSignerPublished,
            CurrentCAPublished, Ready, DeployedSignerGenerated, StatusTrustsCertificates
    <2> QED
      BY <1>3, <2>1, <2>2, AbortSecrets DEF FetchServices
  <1>4. CASE DeployMonitoring
    <2>1. Passive
      BY <1>4 DEF Passive, DesiredShrinks, DeployMonitoring
    <2>2. Abort \/ (Goto("patchStatus") /\ UNCHANGED <<awake, stage, local>>)
      BY <1>4, Zenon DEF DeployMonitoring
    <2> QED
      BY <1>4, <2>1, <2>2, GotoSecrets, AbortSecrets DEF DeployMonitoring
  <1> QED
    BY <1>1, <1>2, <1>3, <1>4, GenerateCASecrets, GenerateBundleSecrets, DeployCachesSecrets,
       PatchStatusSecrets DEF ReconcileStep

-----------------------------------------------------------------------------
(* Cleanup.                                                                *)

(* A reconciliation that has generated a bundle deletes neither the bundle *)
(* nor a CA the next certificates may be signed with.                      *)
LEMMA CleanupKeepsSigners ==
  ASSUME TypeOK, ControlInv, SecretPart, Cleanup, op \in ReconcileOps, local.bundle # {}
  PROVE  /\ local.bundle \in bundles' /\ cas'[epoch] = cas[epoch]
         /\ Signers(epoch, keepOld)' = Signers(epoch, keepOld)
  <1> DEFINE Old == OldEpochs(epoch, keepOld)
             CAs == OldCA(epoch, keepOld)
  <1>1. /\ epoch' = epoch /\ keepOld' = keepOld /\ epoch \in Epochs
        /\ local.bundle \in bundles /\ local.bundle = {cas[epoch]} \cup CAs
    BY DEF Cleanup, TypeOK, SecretPart, BundleGenerated
  <1>2. PICK es \in SUBSET Garbage.cas, bs \in SUBSET Garbage.bundles :
          cas' = [e \in Epochs |-> IF e \in es THEN 0 ELSE cas[e]] /\ bundles' = bundles \ bs
    BY DEF Cleanup
  <1>3. /\ \A e \in es : cas[e] \notin local.bundle
        /\ local.bundle \notin bs
    BY <1>2 DEF Garbage
  <1>4. local.bundle \in bundles' /\ cas'[epoch] = cas[epoch]
    BY <1>1, <1>2, <1>3
  <1>5. Old' \subseteq Old /\ \A e \in Old' : cas'[e] = cas[e]
    BY <1>1, <1>2 DEF OldEpochs
  <1>6. CAs' = CAs
    <2>1. CASE Old = {}
      BY <2>1, <1>5 DEF OldCA
    <2>2. CASE Old # {}
      <3>1. Old \in SUBSET (0..MaxRotations) /\ MaxRotations \in Nat
        BY BoundsAssumption DEF OldEpochs, Epochs
      <3>2. PICK m \in Old : \A f \in Old : f <= m
        BY <2>2, <3>1, LatestExists
      <3>3. cas[m] \in CAs
        BY <3>2 DEF OldCA, OldEpochs
      <3>4. m \notin es
        BY <1>1, <1>3, <3>3
      <3>5. m \in Old' /\ cas'[m] = cas[m]
        BY <1>1, <1>2, <3>2, <3>4 DEF OldEpochs
      <3>6. \A e \in Old : (\A f \in Old : f <= e) => e = m
        BY <3>1, <3>2
      <3>7. CAs = {cas[m]}
        BY <3>2, <3>6 DEF OldCA
      <3>8. \A e \in Old' : (\A f \in Old' : f <= e) => e = m
        BY <1>5, <3>1, <3>2, <3>5
      <3>9. \A f \in Old' : f <= m
        BY <1>5, <3>2
      <3>10. CAs' = {cas'[m]}
        BY <3>5, <3>8, <3>9 DEF OldCA
      <3> QED
        BY <3>5, <3>7, <3>10
    <2> QED
      BY <2>1, <2>2
  <1> QED
    BY <1>1, <1>4, <1>6 DEF Signers

LEMMA CleanupSecrets ==
  ASSUME TypeOK, ControlInv, SecretPart, Cleanup
  PROVE  SecretPart'
  <1>1. /\ UNCHANGED <<awake, epoch, keepOld, mr, status>>
        /\ pc' = "idle" /\ op' = "none" /\ local'.bundle = {}
    BY DEF Cleanup, Abort, Complete, NoLocal, shootObjVars
  <1> USE DEF SecretPart, BundleGenerated, CleanupPublished, StatusHasBundle, StatusCAExists,
              SecretsAlive, NextSignerPublished, CurrentCAPublished, Ready,
              DeployedSignerGenerated, StatusTrustsCertificates, ReconcileOps, DeleteOps,
              AfterBundle
  <1>2. CASE op \in DeleteOps
    <2>1. stage' \notin {"live", "migrating"}
      BY <1>2 DEF Cleanup, Abort, Complete, ControlInv, OperationFitsStage
    <2> QED
      BY <1>1, <2>1
  <1>3. CASE op \in ReconcileOps
    <2>1. status.bundle = local.bundle
      BY <1>3 DEF Cleanup
    <2>2. CASE local.bundle = {}
      BY <1>1, <2>1, <2>2
    <2>3. CASE local.bundle # {}
      <3>1. cas[epoch] \in status.bundle /\ Signers(epoch, keepOld) \subseteq status.bundle
        BY <2>1, <2>3, SignerInBundle
      <3>2. /\ status.bundle \in bundles' /\ cas'[epoch] = cas[epoch]
            /\ Signers(epoch, keepOld)' = Signers(epoch, keepOld)
        BY <1>3, <2>1, <2>3, CleanupKeepsSigners
      <3> QED
        BY <1>1, <3>1, <3>2
    <2> QED
      BY <2>2, <2>3
  <1> QED
    BY <1>2, <1>3 DEF Cleanup, ControlInv, PCFitsOperation

-----------------------------------------------------------------------------
(* gardenlet and the users.                                                *)

(* An operation is asked for.                                              *)
LEMMA RequestSecrets ==
  ASSUME SecretPart, Passive, request' # "none", UNCHANGED <<op, pc, local>>,
         stage' \in {"live", "migrating"} => stage \in {"live", "migrating"}
  PROVE  SecretPart'
  BY SignersFrame
  DEF SecretPart, Passive, DesiredShrinks, BundleGenerated, CleanupPublished, StatusHasBundle,
      StatusCAExists, SecretsAlive, NextSignerPublished, CurrentCAPublished, Ready, TLSSeen,
      DeployedSignerGenerated, StatusTrustsCertificates

(* The published CA becomes the old one: it has been generated.            *)
LEMMA StartRotationSecrets ==
  ASSUME TypeOK, ControlInv, SecretPart, StartRotation
  PROVE  SecretPart'
  <1>1. /\ pc = "idle" /\ op = "none" /\ local.bundle = {} /\ request' = "reconcile"
        /\ UNCHANGED <<stage, op, pc, local, mr, cas, bundles, status>>
    BY DEF StartRotation, Ready, ControlInv, OperationFitsStage, SecretPart, BundleGenerated,
           shootObjVars, secretVars
  <1>2. ASSUME status.bundle # {} PROVE Signers(epoch, keepOld)' \subseteq status.bundle
    <2>1. cas[epoch] \in status.bundle
      BY <1>2 DEF StartRotation, SecretPart, CurrentCAPublished
    <2>2. cas[epoch] # 0 /\ epoch \in Epochs /\ epoch \in 0..MaxRotations
      BY <2>1 DEF TypeOK, Statuses, CAIds, Epochs
    <2>3. epoch' = epoch + 1 /\ keepOld' /\ cas' = cas
      BY <1>1 DEF StartRotation
    <2>4. epoch \in OldEpochs(epoch, keepOld)'
      BY <2>2, <2>3 DEF OldEpochs
    <2>5. \A e \in OldEpochs(epoch, keepOld)' : e \in 0..MaxRotations /\ e <= epoch
      BY <2>2, <2>3 DEF OldEpochs, Epochs
    <2>6. \A e \in OldEpochs(epoch, keepOld)' :
            (\A f \in OldEpochs(epoch, keepOld)' : f <= e) => e = epoch
      BY <2>2, <2>4, <2>5
    <2>7. OldCA(epoch, keepOld)' = {cas[epoch]}
      BY <2>3, <2>4, <2>5, <2>6 DEF OldCA
    <2> QED
      BY <2>1, <2>7 DEF Signers
  <1> QED
    BY <1>1, <1>2
    DEF StartRotation, SecretPart, BundleGenerated, CleanupPublished, StatusHasBundle,
        StatusCAExists, SecretsAlive, NextSignerPublished, CurrentCAPublished, Ready,
        DeployedSignerGenerated, StatusTrustsCertificates, ReconcileOps, DeleteOps, AfterBundle

(* The old CA is dropped: the new one has been published.                  *)
LEMMA CompleteRotationSecrets ==
  ASSUME TypeOK, ControlInv, SecretPart, CompleteRotation
  PROVE  SecretPart'
  <1>1. /\ pc = "idle" /\ op = "none" /\ local.bundle = {} /\ request' = "reconcile"
        /\ UNCHANGED <<stage, op, pc, local, mr, cas, bundles, status>>
    BY DEF CompleteRotation, Ready, ControlInv, OperationFitsStage, SecretPart, BundleGenerated,
           shootObjVars, secretVars
  <1>2. ASSUME status.bundle # {} PROVE Signers(epoch, keepOld)' \subseteq status.bundle
    <2>1. cas[epoch] \in status.bundle
      BY <1>2 DEF CompleteRotation, SecretPart, CurrentCAPublished
    <2>2. epoch' = epoch /\ ~keepOld' /\ cas' = cas
      BY <1>1 DEF CompleteRotation
    <2>3. OldEpochs(epoch, keepOld)' = {}
      BY <2>2 DEF OldEpochs
    <2> QED
      BY <2>1, <2>2, <2>3 DEF Signers, OldCA
  <1> QED
    BY <1>1, <1>2
    DEF CompleteRotation, SecretPart, BundleGenerated, CleanupPublished, StatusHasBundle,
        StatusCAExists, SecretsAlive, NextSignerPublished, CurrentCAPublished, Ready,
        DeployedSignerGenerated, StatusTrustsCertificates, ReconcileOps, DeleteOps, AfterBundle

(* The Extension is created: its status is empty.                          *)
LEMMA CreationSecrets ==
  ASSUME ControlInv, SecretPart, pc = "idle", status' = NoStatus,
         UNCHANGED <<epoch, keepOld, op, pc, local, mr>>
  PROVE  SecretPart'
  <1>1. status'.bundle = {} /\ \A u \in Upstreams : status'.schemes[u] = "none"
    BY DEF NoStatus
  <1>2. local.bundle = {} /\ op = "none"
    BY DEF SecretPart, BundleGenerated, ControlInv, OperationFitsStage
  <1> QED
    BY <1>1, <1>2
    DEF SecretPart, BundleGenerated, CleanupPublished, StatusHasBundle,
        StatusCAExists, SecretsAlive, NextSignerPublished, CurrentCAPublished,
        DeployedSignerGenerated, StatusTrustsCertificates, ReconcileOps, DeleteOps, AfterBundle

(* The ManagedResource controller asks for no certificates.                *)
LEMMA ResourceManagerShrinks ==
  ASSUME TypeOK, ResourceManager
  PROVE  DesiredShrinks
  <1>1. PICK k \in Kinds : \/ \E n \in Names :
                              ApplyObject(k, n) \/ AdoptObject(k, n) \/ RemoveObject(k, n)
                          \/ Observe(k) \/ FinishDeletion(k)
    BY DEF ResourceManager
  <1>2. mr \in [Kinds -> ManagedResources] /\ "caches" \in Kinds
    BY DEF TypeOK, Kinds
  <1>3. CASE FinishDeletion(k)
    <2>1. mr'["caches"].desired \in {mr["caches"].desired, NoObjects}
      BY <1>2, <1>3 DEF FinishDeletion, NoResource
    <2> QED
      BY <2>1, NamesAssumption DEF DesiredShrinks, NoObjects, NoObject
  <1>4. CASE ~FinishDeletion(k)
    <2>1. \/ \E t : mr' = [mr EXCEPT ![k].tracked = t]
          \/ mr' = [mr EXCEPT ![k].observed = TRUE]
      BY <1>1, <1>4, Zenon DEF ApplyObject, AdoptObject, RemoveObject, Observe
    <2>2. ASSUME NEW t, mr' = [mr EXCEPT ![k].tracked = t]
          PROVE  mr'["caches"].desired = mr["caches"].desired
      BY <1>2, <2>2 DEF ManagedResources
    <2>3. ASSUME mr' = [mr EXCEPT ![k].observed = TRUE]
          PROVE  mr'["caches"].desired = mr["caches"].desired
      BY <1>2, <2>3 DEF ManagedResources
    <2> QED
      BY <2>1, <2>2, <2>3 DEF DesiredShrinks
  <1> QED
    BY <1>3, <1>4

LEMMA EnvironmentSecrets ==
  ASSUME TypeOK, ControlInv, SecretPart, Gardenlet \/ Users \/ ResourceManager
  PROVE  SecretPart'
  <1> USE DEF shootVars, workerVars, shootObjVars, secretVars, boundVars
  <1>1. CASE RequestReconcile \/ RequestMigrate \/ RequestDelete \/ RequestForceDelete
             \/ ChangeCaches \/ ToggleHibernation
    <2>1. Passive
      BY <1>1 DEF Passive, DesiredShrinks, RequestReconcile, RequestMigrate, RequestDelete,
                  RequestForceDelete, ChangeCaches, ToggleHibernation
    <2> QED
      BY <1>1, <2>1, RequestSecrets
      DEF RequestReconcile, RequestMigrate, RequestDelete, RequestForceDelete, ChangeCaches,
          ToggleHibernation, UserChange
  <1>2. CASE RequestRestore
    BY <1>2, CreationSecrets DEF RequestRestore, Ready
  <1>3. CASE Enable
    <2>1. pc = "idle"
      BY <1>3 DEF Enable, ControlInv, OperationFitsStage, TypeOK, Operations, ReconcileOps,
                  DeleteOps
    <2> QED
      BY <1>3, <2>1, CreationSecrets DEF Enable
  <1>4. ASSUME NEW n \in Names, DeleteService(n) PROVE SecretPart'
    <2>1. Passive
      BY <1>4 DEF Passive, DesiredShrinks, DeleteService
    <2> QED
      BY <1>4, <2>1, QuietSecrets DEF DeleteService
  <1>5. CASE ResourceManager
    <2>1. DesiredShrinks
      BY <1>5, ResourceManagerShrinks
    <2>2. Passive /\ UNCHANGED <<awake, stage, request, op, pc, local>>
      BY <1>5, <2>1
      DEF Passive, ResourceManager, ApplyObject, AdoptObject, RemoveObject, Observe,
          FinishDeletion
    <2> QED
      BY <2>2, QuietSecrets
  <1> QED
    BY <1>1, <1>2, <1>3, <1>4, <1>5, StartRotationSecrets, CompleteRotationSecrets
    DEF Gardenlet, Users

-----------------------------------------------------------------------------
LEMMA SecretStep ==
  ASSUME TypeOK, CAGenerated, ControlInv, CertificatesSeen, SecretPart, [Next]_vars
  PROVE  SecretPart'
  <1>1. CASE UNCHANGED vars
    <2>1. Passive /\ UNCHANGED <<awake, stage, request, op, pc, local>>
      BY <1>1 DEF vars, shootVars, workerVars, shootObjVars, secretVars, Passive, DesiredShrinks
    <2> QED
      BY <2>1, QuietSecrets
  <1>2. CASE Fail
    <2>1. Passive
      BY <1>2 DEF Fail, Passive, DesiredShrinks, shootObjVars, secretVars
    <2> QED
      BY <1>2, <2>1, AbortSecrets DEF Fail
  <1>3. CASE Disabled
    BY <1>1, <1>3 DEF Disabled
  <1> QED
    BY <1>1, <1>2, <1>3, BeginSecrets, ReconcileStepSecrets, DestroyStepSecrets, CleanupSecrets,
       EnvironmentSecrets DEF Next, Worker

LEMMA SecretsInvariant == Spec => [](SecretPart /\ ControlInv /\ CertificatesSeen)
  <1>1. Init => TypeOK /\ CAGenerated /\ ControlInv /\ SecretPart /\ CertificatesSeen
    BY InitTypes, ControlInit, SecretInit
    DEF Init, CAGenerated, CertificatesSeen, NoLocal, NothingSeen, NoObject
  <1>2. TypeOK /\ CAGenerated /\ ControlInv /\ SecretPart /\ CertificatesSeen /\ [Next]_vars
          => CAGenerated' /\ ControlInv' /\ SecretPart' /\ CertificatesSeen'
    BY CAGeneratedStep, ControlStep, CertificatesSeenStep, SecretStep
  <1> QED
    BY <1>1, <1>2, TypeCorrect, PTL DEF Spec

(* Cleanup, a failed or a repeated operation never deletes the CA bundle   *)
(* the providerStatus names while the Extension is not being deleted.      *)
THEOREM StatusCASafe == Spec => []StatusCAExists
  <1>1. SecretPart => StatusCAExists
    BY DEF SecretPart
  <1> QED
    BY <1>1, SecretsInvariant, PTL

(* Whatever CA signed the certificate of a published cache, through every  *)
(* phase of a CA rotation, the published bundle contains that CA.          *)
THEOREM TrustSafe == Spec => []StatusTrustsCertificates
  <1>1. SecretPart => StatusTrustsCertificates
    BY DEF SecretPart
  <1> QED
    BY <1>1, SecretsInvariant, PTL

(* Before a server certificate is signed with a CA, that CA is in the      *)
(* published bundle: in every phase of a rotation the old CA is in use     *)
(* until the new one is published.                                         *)
THEOREM NextSignerSafe == Spec => []NextSignerPublished
  <1>1. SecretPart => NextSignerPublished
    BY DEF SecretPart
  <1> QED
    BY <1>1, SecretsInvariant, PTL

(* All conjuncts of the strengthening hold.                                *)
THEOREM SecretsCorrect == Spec => []SecretsInv
  <1>1. SecretPart /\ ControlInv /\ CertificatesSeen => SecretsInv
    BY DEF SecretPart, ControlInv, SecretsInv
  <1> QED
    BY <1>1, SecretsInvariant, PTL

=============================================================================
