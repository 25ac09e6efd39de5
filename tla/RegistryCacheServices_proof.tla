-------------------- MODULE RegistryCacheServices_proof --------------------
(***************************************************************************)
(* For every set of upstreams and any number of rotations, migrations,     *)
(* changes and faults: migrations and deletions go on in the right order,  *)
(* a deletion cleans the seed, and as long as no migration leaves a        *)
(* Service under a name that is no longer configured, a successful         *)
(* operation leaves what was configured and the actuator implements        *)
(* PublishedStatus.  Without migrations a deletion leaves nothing at all.  *)
(***************************************************************************)
EXTENDS RegistryCacheSecrets_proof, FiniteSetTheorems

-----------------------------------------------------------------------------
(* The ManagedResources and their objects.                                 *)

(* Resource k alone changes; it goes on asking for the same.               *)
OthersKept(k) == \A j \in Kinds \ {k} : mr'[j] = mr[j] /\ objects'[j] = objects[j]
KeepsAsking(k) ==
  /\ mr[k].present /\ mr'[k].present /\ mr'[k].keep = mr[k].keep
  /\ mr'[k].deleting = mr[k].deleting /\ mr'[k].desired = mr[k].desired

LEMMA ApplyEffect ==
  ASSUME TypeOK, NEW k \in Kinds, NEW n \in Names, ApplyObject(k, n)
  PROVE  /\ OthersKept(k) /\ KeepsAsking(k) /\ mr'[k].observed = mr[k].observed
         /\ mr'[k].tracked = mr[k].tracked \cup {n}
         /\ mr[k].desired[n].scheme # "none"
         /\ SameAnnotations(objects'[k][n], mr[k].desired[n])
         /\ \A m \in Names \ {n} : objects'[k][m] = objects[k][m]
  <1>1. mr' = [mr EXCEPT ![k].tracked = mr[k].tracked \cup {n}] /\ mr[k].present
        /\ mr[k].desired[n].scheme # "none"
    BY DEF ApplyObject
  <1>2. PICK i : objects' = [objects EXCEPT ![k][n] = [mr[k].desired[n] EXCEPT !.ip = i]]
                 \/ objects' = [objects EXCEPT ![k][n] = mr[k].desired[n]]
    BY DEF ApplyObject
  <1>3. mr[k].desired[n] \in Objects
    BY DEF TypeOK, ManagedResources
  <1>4. SameAnnotations(objects'[k][n], mr[k].desired[n])
    <2> DEFINE d == mr[k].desired[n]
    <2>1. SameAnnotations([d EXCEPT !.ip = i], d) /\ SameAnnotations(d, d)
      BY <1>3 DEF Objects, SameAnnotations
    <2>2. PICK x : objects' = [objects EXCEPT ![k][n] = x] /\ SameAnnotations(x, d)
      BY <1>2, <2>1
    <2>3. objects[k] \in [Names -> Objects] /\ objects \in [Kinds -> [Names -> Objects]]
      BY DEF TypeOK
    <2> QED
      BY <2>2, <2>3
  <1> QED
    BY <1>1, <1>2, <1>4 DEF TypeOK, ManagedResources, OthersKept, KeepsAsking

LEMMA AdoptEffect ==
  ASSUME TypeOK, NEW k \in Kinds, NEW n \in Names, AdoptObject(k, n)
  PROVE  /\ OthersKept(k) /\ KeepsAsking(k) /\ mr'[k].observed = mr[k].observed
         /\ mr'[k].tracked = mr[k].tracked \cup {n}
         /\ mr[k].desired[n].scheme # "none" /\ objects' = objects
  BY DEF AdoptObject, TypeOK, ManagedResources, OthersKept, KeepsAsking

LEMMA RemoveEffect ==
  ASSUME TypeOK, NEW k \in Kinds, NEW n \in Names, RemoveObject(k, n)
  PROVE  /\ OthersKept(k) /\ KeepsAsking(k) /\ mr'[k].observed = mr[k].observed
         /\ mr'[k].tracked = mr[k].tracked \ {n}
         /\ objects'[k][n].scheme = "none"
         /\ \A m \in Names \ {n} : objects'[k][m] = objects[k][m]
  BY DEF RemoveObject, TypeOK, ManagedResources, OthersKept, KeepsAsking, NoObject

LEMMA ObserveEffect ==
  ASSUME TypeOK, NEW k \in Kinds, Observe(k)
  PROVE  /\ OthersKept(k) /\ KeepsAsking(k) /\ mr'[k].observed
         /\ mr'[k].tracked = mr[k].tracked /\ objects' = objects
         /\ \A n \in Names :
              IF mr[k].desired[n].scheme = "none" THEN n \notin mr[k].tracked
              ELSE SameAnnotations(objects[k][n], mr[k].desired[n])
  <1>1. /\ OthersKept(k) /\ KeepsAsking(k) /\ mr'[k].observed
        /\ mr'[k].tracked = mr[k].tracked /\ objects' = objects
    BY DEF Observe, TypeOK, ManagedResources, OthersKept, KeepsAsking
  <1>2. ASSUME NEW n \in Names
        PROVE  IF mr[k].desired[n].scheme = "none" THEN n \notin mr[k].tracked
               ELSE SameAnnotations(objects[k][n], mr[k].desired[n])
    BY DEF Observe, InPlace, SameAnnotations
  <1> QED
    BY <1>1, <1>2

LEMMA FinishEffect ==
  ASSUME TypeOK, NEW k \in Kinds, FinishDeletion(k)
  PROVE  /\ OthersKept(k) /\ mr'[k] = NoResource /\ objects' = objects
         /\ mr[k].deleting /\ (mr[k].keep \/ mr[k].tracked = {})
  BY DEF FinishDeletion, TypeOK, OthersKept

LEMMA DeployEffect ==
  ASSUME TypeOK, NEW k \in Kinds, NEW d, Deploy(k, d)
  PROVE  /\ \A j \in Kinds \ {k} : mr'[j] = mr[j]
         /\ mr'[k].present /\ ~mr'[k].keep /\ mr'[k].desired = d
         /\ mr'[k].deleting = mr[k].deleting /\ mr'[k].tracked = mr[k].tracked
         /\ mr'[k].observed => mr[k].observed /\ mr[k].desired = d
  <1>1. mr[k] \in ManagedResources /\ mr'[k] = Deployed(mr[k], d)
        /\ \A j \in Kinds \ {k} : mr'[j] = mr[j]
    BY DEF Deploy, TypeOK
  <1>2. mr[k].observed \in BOOLEAN /\ mr[k].present \in BOOLEAN
    BY <1>1 DEF ManagedResources
  <1> QED
    BY <1>1, <1>2 DEF ManagedResources, Deployed

(* A ManagedResource that is there is deleted; an absent one stays away.   *)
LEMMA DestroyEffect ==
  ASSUME TypeOK, NEW k \in Kinds, mr' = [mr EXCEPT ![k].deleting = mr[k].present]
  PROVE  /\ \A j \in Kinds \ {k} : mr'[j] = mr[j]
         /\ mr'[k].present = mr[k].present /\ mr'[k].keep = mr[k].keep
         /\ mr'[k].desired = mr[k].desired /\ mr'[k].tracked = mr[k].tracked
         /\ mr'[k].observed = mr[k].observed /\ mr'[k].deleting = mr[k].present
  <1>1. mr[k] \in ManagedResources /\ mr'[k] = [mr[k] EXCEPT !.deleting = mr[k].present]
        /\ \A j \in Kinds \ {k} : mr'[j] = mr[j]
    BY DEF TypeOK
  <1> QED
    BY <1>1 DEF ManagedResources

LEMMA KeepEffect ==
  ASSUME TypeOK, NEW k \in Kinds, mr' = [mr EXCEPT ![k].keep = mr[k].present]
  PROVE  /\ \A j \in Kinds \ {k} : mr'[j] = mr[j]
         /\ mr'[k].present = mr[k].present /\ mr'[k].keep = mr[k].present
         /\ mr'[k].desired = mr[k].desired /\ mr'[k].tracked = mr[k].tracked
         /\ mr'[k].observed = mr[k].observed /\ mr'[k].deleting = mr[k].deleting
  <1>1. mr[k] \in ManagedResources /\ mr'[k] = [mr[k] EXCEPT !.keep = mr[k].present]
        /\ \A j \in Kinds \ {k} : mr'[j] = mr[j]
    BY DEF TypeOK
  <1> QED
    BY <1>1 DEF ManagedResources

(* The steps of the worker leave the objects in the shoot alone.           *)
LEMMA WorkerObjects ==
  ASSUME Worker \/ Fail
  PROVE  objects' = objects
  BY DEF Worker, Fail, Begin, BeginReconcile, BeginMigrate, BeginDelete, ReconcileStep,
         DestroyStep, DeployServices, AwaitHealthy, FetchServices, GenerateCA, GenerateBundle,
         DeployCaches, DeployMonitoring, PatchStatus, Cleanup, KeepServices, KeepCaches, Keep,
         DestroyServices, AwaitServicesGone, DestroyCaches, DestroyMonitoring, AwaitCachesGone,
         shootObjVars

-----------------------------------------------------------------------------
(* The operations.                                                         *)

(* A step of an operation goes on, keeping what it has read, or ends it.   *)
GoesOn ==
  /\ \E l \in PCs \ {"idle"} : Goto(l)
  /\ UNCHANGED <<stage, local.caches, local.owners>>
  /\ op \notin ReconcileOps => UNCHANGED local
Completes == Complete /\ (pc = "cleanup" \/ op = "migrate")

LEMMA StepGoesOn ==
  ASSUME TypeOK, ControlInv, ReconcileStep \/ DestroyStep \/ Cleanup \/ Fail
  PROVE  pc # "idle" /\ UNCHANGED <<caches, owners>> /\ (GoesOn \/ Abort \/ Completes)
  <1> USE DEF GoesOn, Completes, Goto, shootVars, ControlInv, PCFitsOperation,
              BeforeBundle, AfterBundle, DestroyPCs, PCs, TypeOK
  <1>1. CASE DeployServices
    BY <1>1 DEF DeployServices
  <1>2. CASE AwaitHealthy
    BY <1>2 DEF AwaitHealthy
  <1>3. CASE FetchServices
    BY <1>3, FetchEffect DEF FetchServices
  <1>4. CASE GenerateCA
    BY <1>4 DEF GenerateCA
  <1>5. CASE GenerateBundle
    BY <1>5 DEF GenerateBundle, Locals
  <1>6. CASE DeployCaches
    BY <1>6 DEF DeployCaches
  <1>7. CASE DeployMonitoring
    BY <1>7 DEF DeployMonitoring
  <1>8. CASE PatchStatus
    BY <1>8 DEF PatchStatus
  <1>9. CASE KeepServices \/ KeepCaches
    BY <1>9 DEF KeepServices, KeepCaches, Keep
  <1>10. CASE DestroyServices
    BY <1>10 DEF DestroyServices
  <1>11. CASE AwaitServicesGone
    BY <1>11 DEF AwaitServicesGone
  <1>12. CASE DestroyCaches
    BY <1>12 DEF DestroyCaches
  <1>13. CASE DestroyMonitoring
    BY <1>13 DEF DestroyMonitoring
  <1>14. CASE AwaitCachesGone
    BY <1>14 DEF AwaitCachesGone
  <1>15. CASE Cleanup
    BY <1>15 DEF Cleanup
  <1>16. CASE Fail
    BY <1>16 DEF Fail
  <1> QED
    BY <1>1, <1>2, <1>3, <1>4, <1>5, <1>6, <1>7, <1>8, <1>9, <1>10,
       <1>11, <1>12, <1>13, <1>14, <1>15, <1>16
    DEF ReconcileStep, DestroyStep

-----------------------------------------------------------------------------
(* What is marked for deletion.                                            *)

MarksPart == MarkedInOrder /\ MigrateProgress /\ DeleteProgress

LEMMA MarksInit == Init => MarksPart
  BY DEF Init, MarksPart, MarkedInOrder, MigrateProgress, DeleteProgress, NoResource, Kinds,
         ReconcileOps

(* A ManagedResource is as before or has gone.                             *)
MarksShrink ==
  \A k \in Kinds :
    \/ /\ mr'[k].present <=> mr[k].present
       /\ mr'[k].deleting = mr[k].deleting
       /\ mr'[k].keep = mr[k].keep
    \/ mr'[k] = NoResource

LEMMA ManagerMarks ==
  ASSUME TypeOK, MarksPart, ResourceManager
  PROVE  MarksPart'
  <1>1. UNCHANGED <<stage, op, pc>>
    BY DEF ResourceManager, ApplyObject, AdoptObject, RemoveObject, Observe, FinishDeletion,
           shootVars, workerVars
  <1>2. ASSUME NEW k \in Kinds, Observe(k)
        PROVE  OthersKept(k) /\ KeepsAsking(k)
    BY <1>2 DEF Observe, TypeOK, ManagedResources, OthersKept, KeepsAsking
  <1>3. MarksShrink
    <2>1. ASSUME NEW k \in Kinds, OthersKept(k), KeepsAsking(k) PROVE MarksShrink
      BY <2>1 DEF OthersKept, KeepsAsking, MarksShrink
    <2>2. ASSUME NEW k \in Kinds, FinishDeletion(k) PROVE MarksShrink
      BY <2>2, FinishEffect DEF OthersKept, MarksShrink
    <2> QED
      BY <1>2, <2>1, <2>2, ApplyEffect, AdoptEffect, RemoveEffect DEF ResourceManager
  <1> QED
    BY <1>1, <1>3
    DEF MarksPart, MarkedInOrder, MigrateProgress, DeleteProgress, MarksShrink, NoResource,
        Kinds

(* The operations of gardenlet and of the users mark nothing.              *)
LEMMA EnvironmentMarks ==
  ASSUME TypeOK, ControlInv, MarksPart, Gardenlet \/ Users \/ Disabled \/ UNCHANGED vars
  PROVE  MarksPart'
  <1> USE DEF shootVars, workerVars, shootObjVars
  <1>1. UNCHANGED <<mr, op, pc>>
    BY DEF Gardenlet, StartRotation, CompleteRotation, RequestReconcile, RequestMigrate,
           RequestRestore, RequestDelete, RequestForceDelete, Enable, Users, ChangeCaches,
           ToggleHibernation, DeleteService, Disabled, vars
  <1>2. stage' = stage \/ (stage \in {"live", "migrated", "gone"}
                           /\ stage' \in {"live", "migrating", "deleting"})
    BY DEF Gardenlet, StartRotation, CompleteRotation, RequestReconcile, RequestMigrate,
           RequestRestore, RequestDelete, RequestForceDelete, Enable, Users, ChangeCaches,
           ToggleHibernation, DeleteService, Disabled, vars, UserChange
  <1> QED
    BY <1>1, <1>2 DEF MarksPart, MarkedInOrder, MigrateProgress, DeleteProgress

LEMMA BeginMarks ==
  ASSUME TypeOK, ControlInv, MarksPart, Begin
  PROVE  MarksPart'
  BY DEF Begin, BeginReconcile, BeginMigrate, BeginDelete, shootVars, shootObjVars, MarksPart,
         MarkedInOrder, MigrateProgress, DeleteProgress, ControlInv, OperationFitsStage,
         ReconcileOps

(* A reconciliation marks nothing, and nothing is marked while it runs.    *)
LEMMA ReconcileMarks ==
  ASSUME TypeOK, ControlInv, MarksPart, ReconcileStep
  PROVE  MarksPart'
  <1>1. op \in ReconcileOps /\ pc \in BeforeBundle \cup AfterBundle
    BY DEF ReconcileStep, DeployServices, AwaitHealthy, FetchServices, GenerateCA,
           GenerateBundle, DeployCaches, DeployMonitoring, PatchStatus, ControlInv,
           PCFitsOperation, BeforeBundle, AfterBundle
  <1>2. UNCHANGED stage /\ (op' = op \/ op' = "none")
        /\ pc' \notin {"keepServices", "keepCaches"}
    BY DEF ReconcileStep, DeployServices, AwaitHealthy, FetchServices, GenerateCA,
           GenerateBundle, DeployCaches, DeployMonitoring, PatchStatus, Abort, Goto, shootVars
  <1>3. \A k \in Kinds : ~mr[k].deleting
    BY <1>1 DEF MarksPart, MarkedInOrder
  <1>4. \A k \in Kinds : ~mr'[k].deleting
    <2>1. ASSUME NEW k \in Kinds, NEW d, Deploy(k, d) PROVE \A j \in Kinds : ~mr'[j].deleting
      BY <1>3, <2>1, DeployEffect
    <2>2. CASE UNCHANGED mr
      BY <1>3, <2>2
    <2> QED
      BY <2>1, <2>2
      DEF ReconcileStep, DeployServices, AwaitHealthy, FetchServices, GenerateCA,
          GenerateBundle, DeployCaches, DeployMonitoring, PatchStatus, shootObjVars, Kinds
  <1> QED
    BY <1>1, <1>2, <1>4
    DEF MarksPart, MarkedInOrder, MigrateProgress, DeleteProgress, ReconcileOps

LEMMA DestroyMarks ==
  ASSUME TypeOK, ControlInv, MarksPart, DestroyStep
  PROVE  MarksPart'
  <1> USE DEF MarksPart, MarkedInOrder, MigrateProgress, DeleteProgress, Kinds
  <1>1. op \in {"delete", "forceDelete", "migrate"}
        /\ (op = "migrate" => stage = "migrating") /\ (op # "migrate" => stage = "deleting")
    BY DEF DestroyStep, KeepServices, KeepCaches, Keep, DestroyServices, AwaitServicesGone,
           DestroyCaches, DestroyMonitoring, AwaitCachesGone, ControlInv, PCFitsOperation,
           OperationFitsStage, DestroyPCs, DeleteOps
  <1>2. CASE KeepServices \/ KeepCaches
    <2>1. op = "migrate" /\ UNCHANGED <<stage, op>>
      BY <1>2 DEF KeepServices, KeepCaches, Keep, Goto, shootVars
    <2>2. CASE KeepServices
      BY <1>1, <2>1, <2>2, KeepEffect DEF KeepServices, Keep, Goto, ReconcileOps
    <2>3. CASE KeepCaches
      BY <1>1, <2>1, <2>3, KeepEffect DEF KeepCaches, Keep, Goto, ReconcileOps
    <2> QED
      BY <1>2, <2>2, <2>3
  <1>3. CASE DestroyServices
    BY <1>1, <1>3, DestroyEffect DEF DestroyServices, Goto, shootVars, ReconcileOps
  <1>4. CASE DestroyCaches
    BY <1>1, <1>4, DestroyEffect DEF DestroyCaches, Goto, shootVars, ReconcileOps
  <1>5. CASE AwaitServicesGone
    BY <1>1, <1>5 DEF AwaitServicesGone, Goto, Abort, shootObjVars, ReconcileOps
  <1>6. CASE DestroyMonitoring
    BY <1>1, <1>6 DEF DestroyMonitoring, Goto, Abort, shootObjVars, ReconcileOps
  <1>7. CASE AwaitCachesGone
    BY <1>1, <1>7 DEF AwaitCachesGone, Goto, Abort, Complete, shootObjVars, ReconcileOps
  <1> QED
    BY <1>2, <1>3, <1>4, <1>5, <1>6, <1>7 DEF DestroyStep

LEMMA EndMarks ==
  ASSUME TypeOK, ControlInv, MarksPart, Cleanup \/ Fail
  PROVE  MarksPart'
  <1>1. UNCHANGED mr /\ op' = "none" /\ pc' = "idle"
    BY DEF Cleanup, Fail, Abort, Complete, shootObjVars
  <1>2. UNCHANGED stage \/ (pc = "cleanup" /\ Complete /\ op \in DeleteOps)
    BY DEF Cleanup, Fail, Abort, Complete, ControlInv, PCFitsOperation, ReconcileOps, DeleteOps
  <1>3. stage' = "gone" => stage = "gone" \/ \A k \in Kinds : ~mr[k].present
    BY <1>2 DEF Complete, DeleteOps, MarksPart, DeleteProgress, Kinds
  <1> QED
    BY <1>1, <1>2, <1>3
    DEF MarksPart, MarkedInOrder, MigrateProgress, DeleteProgress, Complete, DeleteOps,
        ReconcileOps

LEMMA MarksStep ==
  ASSUME TypeOK, ControlInv, MarksPart, [Next]_vars
  PROVE  MarksPart'
  BY ManagerMarks, EnvironmentMarks, BeginMarks, ReconcileMarks, DestroyMarks, EndMarks
  DEF Next, Worker

-----------------------------------------------------------------------------
(* Bundles, and what a deletion takes away from the seed.                  *)

LEMMA BundleStep ==
  ASSUME TypeOK, ControlInv, SecretPart, BundleForTLS, [Next]_vars
  PROVE  BundleForTLS'
  <1> USE DEF BundleForTLS, TLSSeen, shootVars, workerVars, shootObjVars, secretVars
  <1>1. CASE Begin
    <2>1. local'.bundle = {} /\ pc' # "generateBundle" /\ UNCHANGED bundles
      BY <1>1 DEF Begin, BeginReconcile, BeginMigrate, BeginDelete, NoLocal, SecretPart,
                  BundleGenerated
    <2> QED
      BY <2>1
  <1>2. CASE FetchServices /\ ~Abort
    <2>1. local.bundle = {} /\ local'.bundle = local.bundle /\ pc' = "generateCA"
      BY <1>2, FetchEffect DEF FetchServices, SecretPart, BundleGenerated, BeforeBundle
    <2> QED
      BY <1>2, <2>1 DEF FetchServices
  <1>3. CASE GenerateBundle
    <2>1. PICK b : b = {cas[local.epoch]} \cup OldCA(local.epoch, local.keepOld)
                   /\ bundles' = bundles \cup {b}
      BY <1>3 DEF GenerateBundle
    <2>2. b # {}
      BY <2>1
    <2>3. local'.certs = local.certs /\ pc = "generateBundle"
      BY <1>3 DEF GenerateBundle, TypeOK, Locals
    <2> QED
      BY <2>1, <2>2, <2>3
  <1>4. CASE Abort \/ Complete
    <2>1. bundles' \subseteq bundles \/ GenerateBundle
      BY <1>4 DEF Next, vars, Worker, Fail, Begin, BeginReconcile, BeginMigrate, BeginDelete,
        ReconcileStep, DestroyStep, DeployServices, AwaitHealthy, FetchServices, GenerateCA,
        DeployCaches, DeployMonitoring, PatchStatus, Cleanup, KeepServices, KeepCaches, Keep,
        DestroyServices, AwaitServicesGone, DestroyCaches, DestroyMonitoring, AwaitCachesGone,
        ResourceManager, ApplyObject, AdoptObject, RemoveObject, Observe, FinishDeletion,
        Gardenlet, StartRotation, CompleteRotation, RequestReconcile, RequestMigrate,
        RequestRestore, RequestDelete, RequestForceDelete, Enable, Users, ChangeCaches,
        ToggleHibernation, DeleteService, Disabled
    <2>2. local'.bundle = {} /\ pc' = "idle"
      BY <1>4 DEF Abort, Complete, NoLocal
    <2> QED
      BY <1>3, <2>1, <2>2
  <1>5. CASE ReconcileStep /\ ~(FetchServices \/ GenerateBundle \/ Abort)
    BY <1>5 DEF ReconcileStep, DeployServices, AwaitHealthy, GenerateCA, DeployCaches,
                DeployMonitoring, PatchStatus, Goto
  <1>6. CASE (DestroyStep \/ Cleanup \/ Fail) /\ ~(Abort \/ Complete)
    BY <1>6 DEF DestroyStep, KeepServices, KeepCaches, Keep, DestroyServices, AwaitServicesGone,
                DestroyCaches, DestroyMonitoring, AwaitCachesGone, Cleanup, Fail, Goto
  <1>7. CASE ResourceManager
    BY <1>7 DEF ResourceManager, ApplyObject, AdoptObject, RemoveObject, Observe, FinishDeletion
  <1>8. CASE Gardenlet \/ Users \/ Disabled \/ UNCHANGED vars
    BY <1>8 DEF Gardenlet, StartRotation, CompleteRotation, RequestReconcile, RequestMigrate,
                RequestRestore, RequestDelete, RequestForceDelete, Enable, Users, ChangeCaches,
                ToggleHibernation, DeleteService, Disabled, vars
  <1> QED
    BY <1>1, <1>2, <1>3, <1>4, <1>5, <1>6, <1>7, <1>8 DEF Next, Worker

(* The whole of the secrets goes when a deletion is completed.             *)
LEMMA CleanedUp ==
  ASSUME TypeOK, SecretPart, BundleForTLS, op \in DeleteOps, Cleanup, ~Abort
  PROVE  bundles' = {} /\ \A e \in Epochs : cas'[e] = 0
  <1>1. local.bundle = {}
    BY DEF SecretPart, BundleGenerated
  <1>2. cas' = [e \in Epochs |-> IF e \in Garbage.cas THEN 0 ELSE cas[e]]
        /\ bundles' = bundles \ Garbage.bundles
    BY DEF Cleanup
  <1>3. Garbage.cas = {e \in Epochs : cas[e] # 0} /\ Garbage.bundles = bundles
    BY <1>1 DEF Garbage, BundleForTLS
  <1> QED
    BY <1>2, <1>3

LEMMA WorkerSeed ==
  ASSUME TypeOK, ControlInv, SecretPart, MarksPart, BundleForTLS, SeedCleaned,
         ReconcileStep \/ DestroyStep \/ Cleanup \/ Fail
  PROVE  SeedCleaned'
  <1> USE DEF shootVars, shootObjVars, secretVars
  <1>1. pc # "idle" /\ (GoesOn \/ Abort \/ Completes)
    BY StepGoesOn
  <1>2. op # "none" /\ stage \notin {"gone", "forceDeleted"}
    BY <1>1 DEF ControlInv, OperationFitsStage, SeedCleaned
  <1>3. CASE Abort
    BY <1>2, <1>3 DEF Abort, SeedCleaned
  <1>4. CASE Complete /\ op = "delete" /\ ~Abort
    <2>1. Cleanup /\ pc = "cleanup"
      <3>1. op' # op
        BY <1>4 DEF Complete
      <3>2. ~DestroyStep
        BY <1>4, <3>1 DEF DestroyStep, KeepServices, KeepCaches, Keep, DestroyServices,
          AwaitServicesGone, DestroyCaches, DestroyMonitoring, AwaitCachesGone, Goto
      <3>3. ~ReconcileStep
        BY <1>4, <3>1 DEF ReconcileStep, DeployServices, AwaitHealthy, FetchServices, GenerateCA,
          GenerateBundle, DeployCaches, DeployMonitoring, PatchStatus, Goto
      <3> QED
        BY <1>4, <3>2, <3>3 DEF Cleanup, Fail
    <2>2. \A k \in Kinds : ~mr[k].present
      BY <1>4, <2>1 DEF MarksPart, DeleteProgress, Kinds
    <2>3. bundles' = {} /\ (\A e \in Epochs : cas'[e] = 0) /\ monitoring = {}
      BY <1>4, <2>1, CleanedUp DEF SeedCleaned, DeleteOps
    <2> QED
      BY <1>4, <2>1, <2>2, <2>3 DEF Cleanup, Complete, SeedCleaned
  <1>5. CASE Complete /\ op # "delete"
    BY <1>2, <1>5 DEF Complete, ControlInv, OperationFitsStage, SeedCleaned, DeleteOps
  <1>6. CASE GoesOn /\ op # "delete"
    BY <1>2, <1>6 DEF GoesOn, Goto, SeedCleaned
  <1>7. CASE GoesOn /\ op = "delete"
    <2> USE DEF GoesOn, Goto, SeedCleaned
    <2>1. pc \in DestroyPCs \cup {"cleanup"}
      BY <1>1, <1>7 DEF ControlInv, PCFitsOperation, ReconcileOps, BeforeBundle, AfterBundle,
                        DestroyPCs, PCs, TypeOK
    <2>2. DestroyStep
      BY <1>1, <1>7, <2>1 DEF DestroyPCs, ReconcileStep, DeployServices, AwaitHealthy,
        FetchServices, GenerateCA, GenerateBundle, DeployCaches, DeployMonitoring, PatchStatus,
        Cleanup, Complete, Abort, Fail
    <2>3. CASE DestroyServices \/ DestroyCaches \/ KeepServices \/ KeepCaches
      BY <1>2, <1>7, <2>3 DEF DestroyServices, DestroyCaches, KeepServices, KeepCaches, Keep
    <2>4. CASE AwaitServicesGone
      BY <1>2, <1>7, <2>4 DEF AwaitServicesGone, Abort
    <2>5. CASE DestroyMonitoring
      BY <1>2, <1>7, <2>5 DEF DestroyMonitoring, Abort
    <2>6. CASE AwaitCachesGone
      BY <1>2, <1>7, <2>6 DEF AwaitCachesGone, Abort
    <2> QED
      BY <2>2, <2>3, <2>4, <2>5, <2>6 DEF DestroyStep
  <1> QED
    BY <1>1, <1>3, <1>4, <1>5, <1>6, <1>7 DEF Completes

LEMMA SeedStep ==
  ASSUME TypeOK, ControlInv, SecretPart, MarksPart, BundleForTLS, SeedCleaned, [Next]_vars
  PROVE  SeedCleaned'
  <1> USE DEF shootVars, workerVars, shootObjVars, secretVars
  <1>1. CASE ReconcileStep \/ DestroyStep \/ Cleanup \/ Fail
    BY <1>1, WorkerSeed
  <1>2. CASE ResourceManager
    <2>1. UNCHANGED <<stage, request, op, pc, cas, bundles, monitoring>>
      BY <1>2 DEF ResourceManager, ApplyObject, AdoptObject, RemoveObject, Observe, FinishDeletion
    <2>2. PICK k \in Kinds : mr[k].present /\ \A j \in Kinds \ {k} : mr'[j] = mr[j]
      BY <1>2 DEF ResourceManager, ApplyObject, AdoptObject, RemoveObject, Observe,
                  FinishDeletion, TypeOK
    <2> QED
      BY <2>1, <2>2 DEF SeedCleaned, Kinds
  <1> USE DEF SeedCleaned
  <1>3. CASE Begin
    BY <1>3 DEF Begin, BeginReconcile, BeginMigrate, BeginDelete
  <1>4. CASE Gardenlet
    BY <1>4 DEF Gardenlet, StartRotation, CompleteRotation, RequestReconcile, RequestMigrate,
                RequestRestore, RequestDelete, RequestForceDelete, Enable, UserChange
  <1>5. CASE Users \/ Disabled \/ UNCHANGED vars
    BY <1>5 DEF Users, ChangeCaches, ToggleHibernation, DeleteService, UserChange, Disabled, vars
  <1> QED
    BY <1>1, <1>2, <1>3, <1>4, <1>5 DEF Next, Worker

LEMMA DestroyInit == Init => DestroyInv
  <1>1. Init => BundleForTLS /\ SeedCleaned
    BY DEF Init, BundleForTLS, SeedCleaned, NoLocal
  <1> QED
    BY <1>1, MarksInit DEF DestroyInv, MarksPart

LEMMA DestroyInvStep ==
  ASSUME TypeOK, ControlInv, SecretPart, DestroyInv, [Next]_vars
  PROVE  DestroyInv'
  BY MarksStep, BundleStep, SeedStep DEF DestroyInv, MarksPart

(* Through any number of migrations and deletions, repeated after any      *)
(* failure, ManagedResources are marked and deleted in the right order.    *)
THEOREM DestroyCorrect == Spec => []DestroyInv
  BY DestroyInit, DestroyInvStep, TypeCorrect, SecretsInvariant, PTL DEF Spec

(* A deletion that is repeated after any failure, or requested while a     *)
(* reconciliation is interrupted, leaves no ManagedResource, secret or     *)
(* monitoring object in the seed, whatever migrations came before it.      *)
THEOREM DeletionCleansSeed == Spec => []SeedCleaned
  <1>1. DestroyInv => SeedCleaned
    BY DEF DestroyInv
  <1> QED
    BY <1>1, DestroyCorrect, PTL

LEMMA KeepsObjectsStep ==
  ASSUME TypeOK, MarksPart, [Next]_vars, stage = "migrating",
         ~(\E n \in Names : DeleteService(n)), NEW k \in Kinds, mr[k].deleting
  PROVE  Existing(objects[k]) \subseteq Existing(objects'[k])
  <1>1. mr[k].keep
    BY DEF MarksPart, MarkedInOrder
  <1>2. CASE UNCHANGED objects
    BY <1>2
  <1>3. CASE ResourceManager
    <2>1. ASSUME NEW j \in Kinds, NEW n \in Names, ApplyObject(j, n) \/ RemoveObject(j, n)
          PROVE  j # k /\ objects'[k] = objects[k]
      <3>1. j # k
        BY <1>1, <2>1 DEF ApplyObject, RemoveObject
      <3> QED
        BY <2>1, <3>1, ApplyEffect, RemoveEffect DEF OthersKept
    <2> QED
      BY <1>2, <1>3, <2>1 DEF ResourceManager, AdoptObject, Observe, FinishDeletion
  <1>4. ~ResourceManager => objects' = objects
    BY WorkerObjects
    DEF Next, vars, shootObjVars, Gardenlet, StartRotation, CompleteRotation, RequestReconcile,
        RequestMigrate, RequestRestore, RequestDelete, RequestForceDelete, Enable, Users,
        ChangeCaches, ToggleHibernation, Disabled
  <1> QED
    BY <1>2, <1>3, <1>4

(* A migration takes no Service and no cache away from the shoot, however  *)
(* often it fails and is repeated, and whatever still ran when it began.   *)
THEOREM MigrationSafe == Spec => MigrationKeepsObjects
  <1>1. TypeOK /\ DestroyInv /\ [Next]_vars =>
          [stage = "migrating" /\ ~(\E n \in Names : DeleteService(n)) =>
             \A k \in Kinds :
               mr[k].deleting => Existing(objects[k]) \subseteq Existing(objects'[k])]_vars
    BY KeepsObjectsStep DEF DestroyInv, MarksPart
  <1> QED
    BY <1>1, DestroyCorrect, TypeCorrect, PTL DEF Spec, MigrationKeepsObjects

-----------------------------------------------------------------------------
(* What a reconciliation works on.                                         *)

LEMMA LocalStep ==
  ASSUME TypeOK, ControlInv, LocalIsCurrent, [Next]_vars
  PROVE  LocalIsCurrent'
  <1> USE DEF shootVars, workerVars, LocalIsCurrent, ReconcileOps
  <1>1. CASE ReconcileStep \/ DestroyStep \/ Cleanup \/ Fail
    BY <1>1, StepGoesOn DEF GoesOn, Goto, Abort, Complete, Completes
  <1>2. CASE Begin
    BY <1>2 DEF Begin, BeginReconcile, BeginMigrate, BeginDelete, NoLocal, ControlInv,
                OperationFitsStage
  <1>3. CASE Gardenlet
    BY <1>3 DEF Gardenlet, StartRotation, CompleteRotation, RequestReconcile, RequestMigrate,
                RequestRestore, RequestDelete, RequestForceDelete, Enable, UserChange, Ready,
                TypeOK, ControlInv, OperationFitsStage
  <1>4. CASE Users
    BY <1>4 DEF Users, ChangeCaches, ToggleHibernation, DeleteService, UserChange
  <1>5. CASE ResourceManager \/ Disabled \/ UNCHANGED vars
    BY <1>5 DEF ResourceManager, ApplyObject, AdoptObject, RemoveObject, Observe, FinishDeletion,
                Disabled, vars
  <1> QED
    BY <1>1, <1>2, <1>3, <1>4, <1>5 DEF Next, Worker

-----------------------------------------------------------------------------
(* What it finds in the shoot.                                             *)

ResourcePart == ResourceWhole /\ ObservedInPlace

(* Whoever reconciles now found the Services that are there wanted.        *)
StillWanted ==
  op' \in ReconcileOps =>
    \/ op \in ReconcileOps /\ local'.owners = local.owners
    \/ NoOrphans /\ local'.owners = owners

LEMMA WantedServices ==
  ASSUME ResourceWhole, StillWanted, op' \in ReconcileOps
  PROVE  Existing(objects["services"]) \ mr["services"].tracked \subseteq Named(local'.owners)
  BY DEF ResourceWhole, StillWanted, NoOrphans

LEMMA ManagerResources ==
  ASSUME TypeOK, MarksPart, ResourcePart, ResourceManager
  PROVE  ResourcePart'
  <1>1. UNCHANGED <<local, op>>
    BY DEF ResourceManager, ApplyObject, AdoptObject, RemoveObject, Observe, FinishDeletion,
           workerVars
  <1> USE <1>1 DEF ResourcePart, ResourceWhole, ObservedInPlace, OthersKept, KeepsAsking, Existing,
                   Named, SameAnnotations, Kinds
  <1>2. ASSUME NEW k \in Kinds, NEW n \in Names, ApplyObject(k, n) PROVE ResourcePart'
    BY <1>2, ApplyEffect
  <1>3. ASSUME NEW k \in Kinds, NEW n \in Names, AdoptObject(k, n) PROVE ResourcePart'
    BY <1>3, AdoptEffect
  <1>4. ASSUME NEW k \in Kinds, NEW n \in Names, RemoveObject(k, n) PROVE ResourcePart'
    BY <1>4, RemoveEffect
  <1>5. ASSUME NEW k \in Kinds, Observe(k) PROVE ResourcePart'
    BY <1>5, ObserveEffect
  <1>6. ASSUME NEW k \in Kinds, FinishDeletion(k) PROVE ResourcePart'
    BY <1>6, FinishEffect DEF NoResource, MarksPart, MarkedInOrder
  <1> QED
    BY <1>2, <1>3, <1>4, <1>5, <1>6 DEF ResourceManager

LEMMA SameResources ==
  ASSUME ResourcePart, StillWanted, UNCHANGED objects,
         \A k \in Kinds :
           /\ mr'[k].present = mr[k].present /\ mr'[k].observed = mr[k].observed
           /\ mr'[k].desired = mr[k].desired /\ mr'[k].tracked = mr[k].tracked
  PROVE  ResourcePart'
  <1>1. op' \in ReconcileOps =>
          Existing(objects["services"]) \ mr["services"].tracked \subseteq Named(local'.owners)
    BY WantedServices DEF ResourcePart
  <1> QED
    BY <1>1 DEF ResourcePart, ResourceWhole, ObservedInPlace, Existing, Named, Kinds

LEMMA WorkerResources ==
  ASSUME TypeOK, ControlInv, NoOrphans, ResourcePart, Worker \/ Fail
  PROVE  ResourcePart'
  <1> USE DEF shootObjVars
  <1>1. UNCHANGED objects
    BY WorkerObjects
  <1>2. StillWanted
    <2>1. CASE Begin
      BY <2>1 DEF StillWanted, Begin, BeginReconcile, BeginMigrate, BeginDelete, ReconcileOps,
                  NoLocal, ControlInv, OperationFitsStage
    <2>2. CASE ReconcileStep \/ DestroyStep \/ Cleanup \/ Fail
      BY <2>2, StepGoesOn DEF GoesOn, Goto, Abort, Complete, Completes, ReconcileOps, StillWanted
    <2> QED
      BY <2>1, <2>2 DEF Worker
  <1>3. ASSUME NEW k \in Kinds, NEW d, Deploy(k, d) PROVE ResourcePart'
    <2>1. /\ \A j \in Kinds \ {k} : mr'[j] = mr[j]
          /\ mr'[k].present /\ mr'[k].tracked = mr[k].tracked
          /\ mr'[k].observed => mr[k].observed /\ mr'[k].desired = mr[k].desired
      BY <1>3, DeployEffect
    <2>2. op' \in ReconcileOps =>
            Existing(objects["services"]) \ mr["services"].tracked \subseteq Named(local'.owners)
      BY <1>2, WantedServices DEF ResourcePart
    <2> QED
      BY <1>1, <2>1, <2>2 DEF ResourcePart, ResourceWhole, ObservedInPlace, Existing, Named, Kinds
  <1>4. ASSUME NEW k \in Kinds, mr' = [mr EXCEPT ![k].deleting = mr[k].present]
        PROVE  ResourcePart'
    BY <1>1, <1>2, <1>4, DestroyEffect, SameResources
  <1>5. ASSUME NEW k \in Kinds, mr' = [mr EXCEPT ![k].keep = mr[k].present]
        PROVE  ResourcePart'
    BY <1>1, <1>2, <1>5, KeepEffect, SameResources
  <1>6. CASE UNCHANGED mr
    BY <1>1, <1>2, <1>6, SameResources
  <1>7. CASE DestroyServices \/ DestroyCaches \/ KeepServices \/ KeepCaches
    BY <1>4, <1>5, <1>7 DEF DestroyServices, DestroyCaches, KeepServices, KeepCaches, Keep, Kinds
  <1>8. CASE DeployServices \/ DeployCaches
    BY <1>3, <1>6, <1>8 DEF DeployServices, DeployCaches, Kinds
  <1> QED
    BY <1>6, <1>7, <1>8
    DEF Worker, Begin, BeginReconcile, BeginMigrate, BeginDelete, ReconcileStep, DestroyStep,
        AwaitHealthy, FetchServices, GenerateCA, GenerateBundle, DeployMonitoring, PatchStatus,
        AwaitServicesGone, DestroyMonitoring, AwaitCachesGone, Cleanup, Fail

LEMMA ResourceStep ==
  ASSUME TypeOK, ControlInv, MarksPart, NoOrphans, ResourcePart, [Next]_vars
  PROVE  ResourcePart'
  <1> USE DEF shootVars, workerVars, shootObjVars
  <1>1. CASE Worker \/ Fail
    BY <1>1, WorkerResources
  <1>2. CASE ResourceManager
    BY <1>2, ManagerResources
  <1>3. CASE Gardenlet \/ ChangeCaches \/ ToggleHibernation \/ Disabled \/ UNCHANGED vars
    <2>1. UNCHANGED <<op, local, mr, objects>>
      BY <1>3 DEF Gardenlet, StartRotation, CompleteRotation, RequestReconcile, RequestMigrate,
                  RequestRestore, RequestDelete, RequestForceDelete, Enable, ChangeCaches,
                  ToggleHibernation, Disabled, vars
    <2> QED
      BY <2>1, SameResources DEF StillWanted
  <1>4. ASSUME NEW n \in Names, DeleteService(n) PROVE ResourcePart'
    <2>1. /\ objects'["services"][n].scheme = "none"
          /\ \A m \in Names \ {n} : objects'["services"][m] = objects["services"][m]
          /\ UNCHANGED <<mr, op, local>>
      BY <1>4 DEF DeleteService, TypeOK, Kinds, NoObject
    <2> QED
      BY <2>1 DEF ResourcePart, ResourceWhole, ObservedInPlace, Existing, Named, Kinds
  <1> QED
    BY <1>1, <1>2, <1>3, <1>4 DEF Next, Users

-----------------------------------------------------------------------------
(* What a reconciliation has deployed, seen and published.                 *)

ServicePart == ServicesDeployed /\ CachesDeployed /\ StatusPatched

LEMMA LocalFrame ==
  ASSUME UNCHANGED <<local.caches, local.owners>>
  PROVE  /\ DesiredServices' = DesiredServices
         /\ UNCHANGED <<local.seen, local.certs>> =>
              /\ TLSSeen' = TLSSeen /\ SchemesOf(local'.seen) = SchemesOf(local.seen)
              /\ IPsOf(local'.seen) = IPsOf(local.seen)
              /\ local'.signer = local.signer => DesiredCaches' = DesiredCaches
  BY DEF DesiredServices, DesiredCaches, TLSSeen, SchemesOf, IPsOf

LEMMA NoSignerLeft == \A u \in Upstreams : NoResource.desired[u].ca = 0
  BY NamesAssumption DEF NoResource, NoObjects, NoObject

(* No reconciliation runs, or it has not done anything yet.                *)
LEMMA NothingDone ==
  ASSUME ServicePart, op' \notin ReconcileOps \/ pc' = "deployServices",
         mr'["caches"].desired = mr["caches"].desired
  PROVE  ServicePart'
  BY DEF ServicePart, ServicesDeployed, CachesDeployed, StatusPatched, Fetched

(* What it has done stays.                                                 *)
LEMMA DoneKept ==
  ASSUME ServicePart, UNCHANGED <<op, pc, local, monitoring, status>>,
         op \in ReconcileOps =>
           /\ mr["services"].present => mr'["services"].present
           /\ mr["services"].observed => mr'["services"].observed
           /\ mr'["services"].desired = mr["services"].desired
           /\ mr'["caches"].desired = mr["caches"].desired,
         \A u \in Upstreams :
           mr'["caches"].desired[u].ca # 0 => mr'["caches"].desired[u] = mr["caches"].desired[u]
  PROVE  ServicePart'
  BY LocalFrame
  DEF ServicePart, ServicesDeployed, CachesDeployed, StatusPatched, Fetched

LEMMA ManagerServices ==
  ASSUME TypeOK, MarksPart, ServicePart, ResourceManager
  PROVE  ServicePart'
  <1>1. UNCHANGED <<op, pc, local, monitoring, status>>
    BY DEF ResourceManager, ApplyObject, AdoptObject, RemoveObject, Observe, FinishDeletion,
           workerVars
  <1>2. ASSUME NEW k \in Kinds, OthersKept(k), KeepsAsking(k), mr[k].observed => mr'[k].observed
        PROVE  ServicePart'
    BY <1>1, <1>2, DoneKept DEF OthersKept, KeepsAsking, Kinds
  <1>3. ASSUME NEW k \in Kinds, FinishDeletion(k) PROVE ServicePart'
    <2>1. mr[k].deleting /\ mr'[k] = NoResource /\ OthersKept(k)
      BY <1>3, FinishEffect
    <2>2. op \notin ReconcileOps
      BY <2>1 DEF MarksPart, MarkedInOrder
    <2> QED
      BY <1>1, <2>1, <2>2, DoneKept, NoSignerLeft DEF OthersKept, Kinds
  <1> QED
    BY <1>2, <1>3, ApplyEffect, AdoptEffect, RemoveEffect, ObserveEffect
    DEF ResourceManager

(* The caches and their Service names are as many.                         *)
LEMMA AsManyNames ==
  ASSUME NEW c \in Configs, NEW o \in Namings(c)
  PROVE  IsFiniteSet(Named(o)) /\ Cardinality(Named(o)) = Cardinality(Caches(c))
  <1> DEFINE f == [n \in Named(o) |-> o[n]]
  <1>1. IsFiniteSet(Named(o))
    BY NamesAssumption, FS_Subset DEF Named
  <1>2. f \in Bijection(Named(o), Caches(c))
    <2>1. f \in [Named(o) -> Caches(c)]
      BY DEF Namings
    <2>2. \A u \in Caches(c) : \E n \in Named(o) : f[n] = u
      BY UpstreamsAssumption DEF Namings, Named, Caches
    <2>3. \A m, n \in Named(o) : f[m] = f[n] => m = n
      BY DEF Namings
    <2> QED
      BY <2>1, <2>2, <2>3 DEF Bijection, Injection, Surjection, IsInjective
  <1> QED
    BY <1>1, <1>2, FS_Bijection DEF ExistsBijection

(* Once they are in place, only Services that are configured are there.    *)
LEMMA ServicesWanted ==
  ASSUME TypeOK, LocalIsCurrent, ResourcePart, ServicePart, op \in ReconcileOps,
         pc = "fetchServices", NEW n \in Existing(objects["services"])
  PROVE  /\ n \in Named(local.owners)
         /\ SameAnnotations(objects["services"][n],
                            Plain(local.owners[n], local.caches[local.owners[n]]))
  <1>1. n \in Names /\ objects["services"][n].scheme # "none"
    BY DEF Existing
  <1>2. mr["services"].desired = DesiredServices /\ mr["services"].observed
    BY DEF ServicePart, ServicesDeployed
  <1>3. n \in Named(local.owners)
    <2>1. CASE n \in mr["services"].tracked
      <3>1. DesiredServices[n].scheme # "none"
        BY <1>1, <1>2, <2>1 DEF ResourcePart, ObservedInPlace
      <3> QED
        BY <1>1, <3>1 DEF DesiredServices, Named, NoObject
    <2>2. CASE n \notin mr["services"].tracked
      BY <2>2 DEF ResourcePart, ResourceWhole
    <2> QED
      BY <2>1, <2>2
  <1>4. local.caches[local.owners[n]] # "none"
    BY <1>3 DEF LocalIsCurrent, Namings, Caches
  <1>5. DesiredServices[n] = Plain(local.owners[n], local.caches[local.owners[n]])
    BY <1>1, <1>3 DEF DesiredServices, Named
  <1>6. DesiredServices[n].scheme # "none"
    BY <1>4, <1>5 DEF Plain
  <1> QED
    BY <1>1, <1>2, <1>3, <1>5, <1>6 DEF ResourcePart, ObservedInPlace

(* As many Services as caches, and none that is not wanted: all are there. *)
LEMMA AllServicesThere ==
  ASSUME TypeOK, LocalIsCurrent, ResourcePart, ServicePart, op \in ReconcileOps,
         pc = "fetchServices"
  PROVE  AllServicesFound <=> Existing(objects["services"]) = Named(local.owners)
  <1> DEFINE found == Existing(objects["services"])
             asked == Named(local.owners)
  <1>1. IsFiniteSet(asked) /\ Cardinality(asked) = Cardinality(Caches(local.caches))
    BY AsManyNames DEF TypeOK, Locals, LocalIsCurrent
  <1>2. found \subseteq asked
    BY ServicesWanted
  <1> QED
    BY <1>1, <1>2, FS_Subset DEF AllServicesFound

(* So for each upstream the one Service of its cache is listed.            *)
LEMMA AllServicesSeen ==
  ASSUME TypeOK, LocalIsCurrent, ResourcePart, ServicePart, op \in ReconcileOps,
         pc = "fetchServices", AllServicesFound,
         NEW seen \in LastListed(Schemes), NEW certs \in LastListed({"https"})
  PROVE  /\ SchemesOf(seen) = local.caches
         /\ \A u \in Upstreams : certs[u].scheme = "https" => local.caches[u] = "https"
  <1> DEFINE live == objects["services"]
             listed(S, u) == {live[n] : n \in {n \in Names : live[n].upstream = u
                                                             /\ live[n].scheme \in S}}
  <1>1. local.caches \in Configs /\ local.owners \in Namings(local.caches)
    BY DEF TypeOK, Locals, LocalIsCurrent
  <1>2. Existing(live) = Named(local.owners)
    BY AllServicesThere
  <1>3. /\ seen \in [Upstreams -> {live[n] : n \in Names} \cup {NoObject}]
        /\ \A u \in Upstreams :
             seen[u] \in IF listed(Schemes, u) = {} THEN {NoObject} ELSE listed(Schemes, u)
        /\ \A u \in Upstreams :
             certs[u] \in IF listed({"https"}, u) = {} THEN {NoObject} ELSE listed({"https"}, u)
    BY DEF LastListed
  <1>4. ASSUME NEW u \in Upstreams, NEW S \in SUBSET Schemes, NEW o \in listed(S, u)
        PROVE  o.scheme = local.caches[u] /\ u \in Caches(local.caches)
    <2>1. PICK n \in Names : live[n].upstream = u /\ live[n].scheme \in S /\ o = live[n]
      BY <1>4
    <2>2. n \in Existing(live)
      BY <2>1 DEF Existing, Schemes
    <2>3. local.owners[n] = u /\ live[n].scheme = local.caches[u]
      BY <2>1, <2>2, ServicesWanted DEF SameAnnotations, Plain
    <2> QED
      BY <1>1, <1>2, <2>1, <2>2, <2>3 DEF Namings
  <1>5. ASSUME NEW u \in Caches(local.caches) PROVE listed(Schemes, u) # {}
    <2>1. PICK n \in Names : local.owners[n] = u
      BY <1>1 DEF Namings
    <2>2. n \in Existing(live)
      BY <1>2, <2>1, UpstreamsAssumption DEF Named, Caches
    <2>3. live[n].upstream = u /\ live[n].scheme = local.caches[u]
      BY <2>1, <2>2, ServicesWanted DEF SameAnnotations, Plain
    <2>4. live[n].scheme \in Schemes
      BY <1>1, <2>3 DEF Configs, Caches
    <2> QED
      BY <2>1, <2>3, <2>4
  <1>6. ASSUME NEW u \in Upstreams PROVE seen[u].scheme = local.caches[u]
    <2>1. CASE u \in Caches(local.caches)
      <3>1. seen[u] \in listed(Schemes, u)
        BY <1>3, <1>5, <2>1
      <3> QED
        BY <1>4, <3>1
    <2>2. CASE u \notin Caches(local.caches)
      <3>1. seen[u] = NoObject
        BY <1>3, <1>4, <2>2
      <3> QED
        BY <2>2, <3>1 DEF Caches, NoObject
    <2> QED
      BY <2>1, <2>2
  <1>7. ASSUME NEW u \in Upstreams, certs[u].scheme = "https" PROVE local.caches[u] = "https"
    <2>1. certs[u] # NoObject
      BY <1>7 DEF NoObject
    <2>2. {"https"} \in SUBSET Schemes /\ certs[u] \in listed({"https"}, u)
      BY <1>3, <2>1 DEF Schemes
    <2>3. certs[u].scheme = local.caches[u]
      BY <1>4, <2>2
    <2> QED
      BY <1>7, <2>3
  <1> QED
    BY <1>1, <1>6, <1>7 DEF SchemesOf, Configs

LEMMA ReconcileServices ==
  ASSUME TypeOK, ControlInv, LocalIsCurrent, ResourcePart, ServicePart, ReconcileStep, ~Abort
  PROVE  ServicePart'
  <1> USE LocalFrame DEF shootVars, shootObjVars, Goto, BeforeBundle, AfterBundle
  <1> USE DEF ServicePart, ServicesDeployed, CachesDeployed, StatusPatched, Fetched
  <1>1. op \in ReconcileOps
    BY DEF ReconcileStep, DeployServices, AwaitHealthy, FetchServices, GenerateCA, GenerateBundle,
           DeployCaches, DeployMonitoring, PatchStatus, ControlInv, PCFitsOperation
  <1>2. CASE DeployServices
    <2>1. /\ mr'["caches"] = mr["caches"] /\ mr'["services"].present
          /\ mr'["services"].desired = DesiredServices
      BY <1>2, DeployEffect DEF DeployServices, Kinds
    <2> QED
      BY <1>1, <1>2, <2>1 DEF DeployServices
  <1>3. CASE AwaitHealthy
    BY <1>3 DEF AwaitHealthy, Healthy
  <1>4. CASE FetchServices
    <2>1. /\ AllServicesFound /\ pc = "fetchServices" /\ pc' = "generateCA"
          /\ UNCHANGED <<local.caches, local.owners, mr, objects, monitoring, status, op>>
      BY <1>4, FetchEffect DEF FetchServices
    <2>2. /\ SchemesOf(local'.seen) = local.caches
          /\ \A u \in Upstreams : local'.certs[u].scheme = "https" => local.caches[u] = "https"
      BY <1>1, <1>4, <2>1, FetchEffect, AllServicesSeen
    <2> QED
      BY <1>4, <2>1, <2>2 DEF FetchServices
  <1>5. CASE GenerateCA
    BY <1>5 DEF GenerateCA
  <1>6. CASE GenerateBundle
    <2>1. UNCHANGED <<local.caches, local.owners, local.seen, local.certs>>
      BY <1>6 DEF GenerateBundle, TypeOK, Locals
    <2> QED
      BY <1>6, <2>1 DEF GenerateBundle
  <1>7. CASE DeployCaches
    <2>1. mr'["services"] = mr["services"] /\ mr'["caches"].desired = DesiredCaches
      BY <1>7, DeployEffect DEF DeployCaches, Kinds
    <2>2. \A u \in Upstreams : DesiredCaches[u].ca # 0 => DesiredCaches[u].scheme = "https"
      BY DesiredCache
    <2> QED
      BY <1>1, <1>7, <2>1, <2>2 DEF DeployCaches
  <1>8. CASE DeployMonitoring
    <2>1. monitoring' = IF MonitoringEnabled THEN MonitoringObjects ELSE {}
      <3>1. {DeployOrder[i] : i \in 1..3} = MonitoringObjects
        BY DEF DeployOrder, MonitoringObjects
      <3> QED
        BY <1>8, <3>1 DEF DeployMonitoring, TypeOK
    <2> QED
      BY <1>8, <2>1 DEF DeployMonitoring
  <1>9. CASE PatchStatus
    BY <1>9 DEF PatchStatus
  <1> QED
    BY <1>2, <1>3, <1>4, <1>5, <1>6, <1>7, <1>8, <1>9 DEF ReconcileStep

LEMMA WorkerServices ==
  ASSUME TypeOK, ControlInv, LocalIsCurrent, ResourcePart, ServicePart, Worker \/ Fail
  PROVE  ServicePart'
  <1> USE DEF shootVars, shootObjVars
  <1>1. CASE Begin
    <2>1. op' \notin ReconcileOps \/ pc' = "deployServices"
      BY <1>1 DEF Begin, BeginReconcile, BeginMigrate, BeginDelete, ReconcileOps, ControlInv,
                  OperationFitsStage
    <2>2. UNCHANGED mr
      BY <1>1 DEF Begin, BeginReconcile, BeginMigrate, BeginDelete
    <2> QED
      BY <2>1, <2>2, NothingDone
  <1>2. CASE ReconcileStep /\ ~Abort
    BY <1>2, ReconcileServices
  <1>3. CASE (ReconcileStep /\ Abort) \/ DestroyStep \/ Cleanup \/ Fail
    <2>1. mr'["caches"].desired = mr["caches"].desired
      <3>1. CASE DestroyServices \/ DestroyCaches
        BY <3>1, DestroyEffect DEF DestroyServices, DestroyCaches, Kinds
      <3>2. CASE KeepServices \/ KeepCaches
        BY <3>2, KeepEffect DEF KeepServices, KeepCaches, Keep, Kinds
      <3>3. CASE ReconcileStep /\ Abort
        BY <3>3 DEF ReconcileStep, DeployServices, AwaitHealthy, FetchServices, GenerateCA,
                    GenerateBundle, DeployCaches, DeployMonitoring, PatchStatus, Goto, Abort
      <3> QED
        BY <1>3, <3>1, <3>2, <3>3
        DEF DestroyStep, AwaitServicesGone, DestroyMonitoring, AwaitCachesGone, Cleanup, Fail
    <2>2. op' \notin ReconcileOps
      <3>1. CASE Abort \/ Complete
        BY <3>1 DEF Abort, Complete, ReconcileOps
      <3>2. CASE DestroyStep
        <4>1. pc \in DestroyPCs
          BY <3>2 DEF DestroyStep, KeepServices, KeepCaches, Keep, DestroyServices, DestroyCaches,
                      AwaitServicesGone, DestroyMonitoring, AwaitCachesGone, DestroyPCs
        <4>2. op \notin ReconcileOps
          BY <4>1 DEF ControlInv, PCFitsOperation, ReconcileOps, DeleteOps
        <4> QED
          BY <3>1, <3>2, <4>2, StepGoesOn DEF GoesOn, Goto, Completes
      <3> QED
        BY <1>3, <3>1, <3>2 DEF Cleanup, Fail
    <2> QED
      BY <2>1, <2>2, NothingDone
  <1> QED
    BY <1>1, <1>2, <1>3 DEF Worker

LEMMA ServiceStep ==
  ASSUME TypeOK, ControlInv, MarksPart, LocalIsCurrent, ResourcePart, ServicePart,
         [Next]_vars
  PROVE  ServicePart'
  <1> USE DEF shootVars, workerVars, shootObjVars
  <1>1. CASE Worker \/ Fail
    BY <1>1, WorkerServices
  <1>2. CASE ResourceManager
    BY <1>2, ManagerServices
  <1>3. CASE Users \/ Disabled \/ UNCHANGED vars
    BY <1>3, DoneKept DEF Users, ChangeCaches, ToggleHibernation, DeleteService, Disabled, vars
  <1>4. CASE Enable \/ RequestRestore
    <2>1. op' \notin ReconcileOps /\ UNCHANGED mr
      BY <1>4 DEF Enable, RequestRestore, Ready, TypeOK, Operations, ReconcileOps, DeleteOps,
                  ControlInv, OperationFitsStage
    <2> QED
      BY <2>1, NothingDone
  <1>5. CASE Gardenlet /\ ~Enable /\ ~RequestRestore
    BY <1>5, DoneKept DEF Gardenlet, StartRotation, CompleteRotation, RequestReconcile,
                          RequestMigrate, RequestDelete, RequestForceDelete
  <1> QED
    BY <1>1, <1>2, <1>3, <1>4, <1>5 DEF Next

-----------------------------------------------------------------------------
(* Success.                                                                *)

(* The Cleanup that ends a reconciliation leaves one bundle, if any.       *)
LEMMA CleanedToOne ==
  ASSUME SecretPart, BundleForTLS, ServicePart, op \in ReconcileOps, pc = "cleanup", Cleanup,
         ~Abort
  PROVE  bundles' = IF \E u \in Upstreams : local.caches[u] = "https" THEN {status.bundle}
                                                                      ELSE {}
  <1>1. bundles' = bundles \ (bundles \ {local.bundle})
    BY DEF Cleanup, Garbage
  <1>2. status.bundle = local.bundle /\ status.schemes = local.caches
        /\ SchemesOf(local.seen) = local.caches
        /\ \A u \in Upstreams : local.certs[u].scheme = "https" => local.caches[u] = "https"
    BY DEF ServicePart, StatusPatched, ServicesDeployed, Fetched
  <1>3. CASE \E u \in Upstreams : local.caches[u] = "https"
    <2>1. local.bundle # {}
      BY <1>2, <1>3 DEF SecretPart, StatusHasBundle
    <2> QED
      BY <1>1, <1>2, <1>3, <2>1 DEF SecretPart, BundleGenerated
  <1>4. CASE ~\E u \in Upstreams : local.caches[u] = "https"
    <2>1. ~TLSSeen
      BY <1>2, <1>4 DEF TLSSeen
    <2>2. local.bundle \notin bundles
      BY <2>1 DEF BundleForTLS
    <2> QED
      BY <1>1, <1>4, <2>2
  <1> QED
    BY <1>3, <1>4

LEMMA CompletedServes ==
  ASSUME TypeOK, ControlInv, SecretPart, CertificatesSeen, BundleForTLS, LocalIsCurrent,
         ServicePart, op \in ReconcileOps, pc = "cleanup", Cleanup, ~Abort
  PROVE  ReadyServesConfig'
  <1>1. local.caches = caches \/ request # "none"
    BY DEF LocalIsCurrent
  <1>2. UNCHANGED <<caches, mr, status, monitoring, request>>
    BY DEF Cleanup, Complete, shootObjVars, ReconcileOps
  <1>3. mr["caches"].desired = DesiredCaches /\ SchemesOf(local.seen) = local.caches
        /\ monitoring = (IF MonitoringEnabled THEN MonitoringObjects ELSE {})
        /\ status.schemes = SchemesOf(local.seen) /\ status.ips = IPsOf(local.seen)
    BY DEF ServicePart, CachesDeployed, ServicesDeployed, StatusPatched, Fetched
  <1>4. local.caches \in Configs
    BY DEF TypeOK, Locals
  <1>5. SchemesOf(DesiredCaches) = local.caches
    <2>1. \A u \in Upstreams : DesiredCaches[u].scheme = local.caches[u]
      BY DesiredCache
    <2> QED
      BY <1>4, <2>1 DEF SchemesOf, Configs
  <1>6. \A u \in Upstreams :
          local.caches[u] = "https" => DesiredCaches[u].ip = IPsOf(local.seen)[u]
    <2> SUFFICES ASSUME NEW u \in Upstreams, local.caches[u] = "https"
                 PROVE  DesiredCaches[u].ip = IPsOf(local.seen)[u]
      OBVIOUS
    <2>1. local.certs[u] = local.seen[u]
      BY <1>3 DEF SchemesOf, CertificatesSeen
    <2> QED
      BY <2>1, DesiredCache DEF IPsOf
  <1> QED
    BY <1>1, <1>2, <1>3, <1>5, <1>6, CleanedToOne DEF ReadyServesConfig, Ready

LEMMA ReadyStep ==
  ASSUME TypeOK, ControlInv, SecretPart, CertificatesSeen, MarksPart, BundleForTLS,
         LocalIsCurrent, ServicePart, ReadyServesConfig, [Next]_vars
  PROVE  ReadyServesConfig'
  <1> USE DEF shootVars, workerVars, shootObjVars, secretVars
  <1>1. CASE ReconcileStep \/ DestroyStep \/ Cleanup \/ Fail
    <2>1. pc # "idle" /\ (GoesOn \/ Abort \/ Completes)
      BY <1>1, StepGoesOn
    <2>2. CASE GoesOn
      BY <2>2 DEF GoesOn, Goto, PCs, ReadyServesConfig, Ready
    <2>3. CASE Abort
      BY <2>1, <2>3 DEF Abort, ReadyServesConfig, Ready, ControlInv, OperationFitsStage
    <2>4. CASE op = "migrate" /\ Complete
      BY <2>4 DEF Complete, ReadyServesConfig
    <2>5. CASE pc = "cleanup" /\ Complete /\ ~Abort
      <3>1. Cleanup
        BY <1>1, <2>5 DEF ReconcileStep, DestroyStep, DeployServices, AwaitHealthy, FetchServices,
          GenerateCA, GenerateBundle, DeployCaches, DeployMonitoring, PatchStatus, KeepServices,
          KeepCaches, Keep, DestroyServices, AwaitServicesGone, DestroyCaches, DestroyMonitoring,
          AwaitCachesGone, Fail
      <3>2. CASE op \in ReconcileOps
        BY <2>5, <3>1, <3>2, CompletedServes
      <3>3. CASE op \in DeleteOps
        BY <2>5, <3>3 DEF Complete, ReadyServesConfig, DeleteOps
      <3> QED
        BY <2>5, <3>2, <3>3 DEF ControlInv, PCFitsOperation
    <2> QED
      BY <2>1, <2>2, <2>3, <2>4, <2>5 DEF Completes
  <1>2. CASE Begin
    BY <1>2 DEF Begin, BeginReconcile, BeginMigrate, BeginDelete, ReadyServesConfig, Ready
  <1>3. CASE ResourceManager
    <2>1. UNCHANGED <<caches, awake, stage, request, pc, bundles, monitoring, status>>
      BY <1>3 DEF ResourceManager, ApplyObject, AdoptObject, RemoveObject, Observe, FinishDeletion
    <2>2. ASSUME NEW k \in Kinds, OthersKept(k), KeepsAsking(k) PROVE ReadyServesConfig'
      BY <2>1, <2>2 DEF OthersKept, KeepsAsking, Kinds, ReadyServesConfig, Ready
    <2>3. ASSUME NEW k \in Kinds, FinishDeletion(k) PROVE ReadyServesConfig'
      BY <2>1, <2>3, FinishEffect DEF MarksPart, MarkedInOrder, ReadyServesConfig
    <2> QED
      BY <1>3, <2>2, <2>3, ApplyEffect, AdoptEffect, RemoveEffect, ObserveEffect
      DEF ResourceManager
  <1>4. CASE Gardenlet
    BY <1>4 DEF Gardenlet, StartRotation, CompleteRotation, RequestReconcile, RequestMigrate,
                RequestRestore, RequestDelete, RequestForceDelete, Enable, ReadyServesConfig, Ready
  <1>5. CASE Users \/ Disabled \/ UNCHANGED vars
    BY <1>5 DEF Users, ChangeCaches, ToggleHibernation, DeleteService, Disabled, vars,
                ReadyServesConfig, Ready
  <1> QED
    BY <1>1, <1>2, <1>3, <1>4, <1>5 DEF Next, Worker

LEMMA ReconcileInit == Init => ReconcileInv
  <1> SUFFICES ASSUME Init PROVE ReconcileInv
    OBVIOUS
  <1> USE DEF Init
  <1>1. LocalIsCurrent
    BY DEF LocalIsCurrent, ReconcileOps
  <1>2. ResourceWhole /\ ObservedInPlace
    BY DEF ResourceWhole, ObservedInPlace, NoResource, Kinds, ReconcileOps
  <1>3. ServicesDeployed /\ CachesDeployed /\ StatusPatched
    BY NoSignerLeft DEF ServicesDeployed, CachesDeployed, StatusPatched, ReconcileOps, Kinds
  <1>4. ReadyServesConfig
    BY DEF ReadyServesConfig, Ready
  <1> QED
    BY <1>1, <1>2, <1>3, <1>4 DEF ReconcileInv

LEMMA ReconcileInvStep ==
  ASSUME TypeOK, ControlInv, SecretPart, CertificatesSeen, DestroyInv, NoOrphans, ReconcileInv,
         [Next]_vars
  PROVE  ReconcileInv'
  <1>1. MarksPart /\ BundleForTLS /\ ResourcePart /\ ServicePart /\ LocalIsCurrent
        /\ ReadyServesConfig
    BY DEF DestroyInv, MarksPart, ReconcileInv, ResourcePart, ServicePart
  <1>2. LocalIsCurrent' /\ ResourcePart' /\ ServicePart' /\ ReadyServesConfig'
    BY <1>1, LocalStep, ResourceStep, ServiceStep, ReadyStep
  <1> QED
    BY <1>2 DEF ReconcileInv, ResourcePart, ServicePart

(* As long as migrations leave no Service under a name that is no longer   *)
(* wanted, a reconciliation finds what it has done before unchanged.       *)
THEOREM ReconcileCorrect == Spec /\ []NoOrphans => []ReconcileInv
  <1>1. TypeOK /\ ControlInv /\ SecretPart /\ CertificatesSeen /\ DestroyInv /\ NoOrphans
        /\ ReconcileInv /\ [Next]_vars => ReconcileInv'
    BY ReconcileInvStep
  <1> QED
    BY <1>1, ReconcileInit, DestroyCorrect, TypeCorrect, SecretsInvariant, PTL DEF Spec

(* Once gardenlet sees the last operation on an awake shoot succeed, the   *)
(* status and the caches are what is configured, whatever failed or was    *)
(* changed in between and however often the Shoot was migrated (Services   *)
(* under names no longer wanted left aside), and no other bundle is left.  *)
THEOREM ReadyUnlessOrphaned == Spec /\ []NoOrphans => []ReadyServesConfig
  <1>1. ReconcileInv => ReadyServesConfig
    BY DEF ReconcileInv
  <1> QED
    BY <1>1, ReconcileCorrect, PTL

(* A reconciliation that gives up on the list of Services misses one.      *)
LEMMA FetchStep ==
  ASSUME TypeOK, LocalIsCurrent, ResourcePart, ServicePart, ControlInv, [Next]_vars,
         pc = "fetchServices", pc' = "idle", faults' = faults
  PROVE  \E n \in Named(local.owners) : objects["services"][n].scheme = "none"
  <1>1. FetchServices
    <2>1. ~Fail
      BY DEF Fail, Fault, TypeOK
    <2>2. ~UNCHANGED pc
      OBVIOUS
    <2>3. ~(Begin \/ Cleanup \/ DestroyStep)
      BY DEF Begin, BeginReconcile, BeginMigrate, BeginDelete, DestroyStep, Cleanup, KeepServices,
             KeepCaches, Keep, DestroyServices, AwaitServicesGone, DestroyCaches,
             DestroyMonitoring, AwaitCachesGone
    <2>4. ~(ResourceManager \/ Gardenlet \/ Users \/ Disabled \/ UNCHANGED vars)
      BY <2>2 DEF ResourceManager, ApplyObject, AdoptObject, RemoveObject, Observe, FinishDeletion,
                  Gardenlet, StartRotation, CompleteRotation, RequestReconcile, RequestMigrate,
                  RequestRestore, RequestDelete, RequestForceDelete, Enable, Users, ChangeCaches,
                  ToggleHibernation, DeleteService, Disabled, vars, workerVars
    <2>5. ReconcileStep
      BY <2>1, <2>3, <2>4 DEF Next, Worker
    <2> QED
      BY <2>5 DEF ReconcileStep, DeployServices, AwaitHealthy, GenerateCA, GenerateBundle,
                  DeployCaches, DeployMonitoring, PatchStatus
  <1>2. ~AllServicesFound /\ op \in ReconcileOps
    BY <1>1 DEF FetchServices, Goto, ControlInv, PCFitsOperation, BeforeBundle
  <1>3. Existing(objects["services"]) \subseteq Named(local.owners)
    BY <1>2, ServicesWanted
  <1>4. Existing(objects["services"]) # Named(local.owners)
    BY <1>2, AllServicesThere
  <1> QED
    BY <1>3, <1>4 DEF Existing, Named

(* Only a Service that a migration has left behind under a name that is no *)
(* longer configured (its cache was removed, or its serviceNameSuffix      *)
(* changed) makes an operation give up on the list of Services although    *)
(* every configured cache has one.                                         *)
THEOREM FetchFailsJustly == Spec /\ []NoOrphans => FetchFailsOnlyIfServiceMissing
  <1>1. TypeOK /\ ControlInv /\ ReconcileInv /\ [Next]_vars =>
          [pc = "fetchServices" /\ pc' = "idle" /\ faults' = faults =>
             \E n \in Named(local.owners) : objects["services"][n].scheme = "none"]_vars
    BY FetchStep DEF ReconcileInv, ResourcePart, ServicePart
  <1> QED
    BY <1>1, ReconcileCorrect, TypeCorrect, SecretsInvariant, PTL
    DEF Spec, FetchFailsOnlyIfServiceMissing

-----------------------------------------------------------------------------
(* Without migrations.                                                     *)

LEMMA NeverStep ==
  ASSUME MaxMigrations = 0, TypeOK, ControlInv, NeverMigrated, [Next]_vars
  PROVE  NeverMigrated'
  <1> USE DEF shootVars, workerVars, NeverMigrated, ReconcileOps
  <1>1. CASE ReconcileStep \/ DestroyStep \/ Cleanup \/ Fail
    BY <1>1, StepGoesOn DEF GoesOn, Goto, Abort, Complete, Completes, ControlInv, OperationFitsStage
  <1>2. CASE Begin
    BY <1>2 DEF Begin, BeginReconcile, BeginMigrate, BeginDelete
  <1>3. CASE Gardenlet
    BY <1>3 DEF Gardenlet, StartRotation, CompleteRotation, RequestReconcile, RequestMigrate,
                RequestRestore, RequestDelete, RequestForceDelete, Enable, UserChange, TypeOK
  <1>4. CASE Users
    BY <1>4 DEF Users, ChangeCaches, ToggleHibernation, DeleteService, UserChange
  <1>5. CASE ResourceManager \/ Disabled \/ UNCHANGED vars
    BY <1>5 DEF ResourceManager, ApplyObject, AdoptObject, RemoveObject, Observe, FinishDeletion,
                Disabled, vars
  <1> QED
    BY <1>1, <1>2, <1>3, <1>4, <1>5 DEF Next, Worker

LEMMA TrackedStep ==
  ASSUME TypeOK, MarksPart, NeverMigrated, EverythingTracked, [Next]_vars
  PROVE  EverythingTracked'
  <1> USE DEF EverythingTracked, Existing
  <1>1. CASE ResourceManager
    <2> USE DEF OthersKept, KeepsAsking
    <2>1. ASSUME NEW k \in Kinds, NEW n \in Names, ApplyObject(k, n) PROVE EverythingTracked'
      BY <2>1, ApplyEffect
    <2>2. ASSUME NEW k \in Kinds, NEW n \in Names, AdoptObject(k, n) PROVE EverythingTracked'
      BY <2>2, AdoptEffect
    <2>3. ASSUME NEW k \in Kinds, NEW n \in Names, RemoveObject(k, n) PROVE EverythingTracked'
      BY <2>3, RemoveEffect
    <2>4. ASSUME NEW k \in Kinds, Observe(k) PROVE EverythingTracked'
      BY <2>4, ObserveEffect
    <2>5. ASSUME NEW k \in Kinds, FinishDeletion(k) PROVE EverythingTracked'
      BY <2>5, FinishEffect DEF NoResource
    <2> QED
      BY <1>1, <2>1, <2>2, <2>3, <2>4, <2>5 DEF ResourceManager
  <1>2. CASE Worker \/ Fail
    <2>1. objects' = objects
      BY <1>2, WorkerObjects
    <2>2. ASSUME NEW k \in Kinds, NEW d, Deploy(k, d) PROVE EverythingTracked'
      BY <2>1, <2>2, DeployEffect
    <2>3. ASSUME NEW k \in Kinds, mr' = [mr EXCEPT ![k].deleting = mr[k].present]
          PROVE  EverythingTracked'
      BY <2>1, <2>3, DestroyEffect
    <2>4. ~KeepServices /\ ~KeepCaches
      BY DEF KeepServices, KeepCaches, Keep, MarksPart, MigrateProgress, NeverMigrated
    <2>5. CASE UNCHANGED mr
      BY <2>1, <2>5
    <2> QED
      BY <1>2, <2>2, <2>3, <2>4, <2>5
      DEF Worker, Fail, Begin, BeginReconcile, BeginMigrate, BeginDelete, ReconcileStep,
          DestroyStep, DeployServices, AwaitHealthy, FetchServices, GenerateCA, GenerateBundle,
          DeployCaches, DeployMonitoring, PatchStatus, Cleanup, DestroyServices,
          AwaitServicesGone, DestroyCaches, DestroyMonitoring, AwaitCachesGone, shootObjVars,
          Kinds
  <1>3. CASE Gardenlet \/ ChangeCaches \/ ToggleHibernation \/ Disabled \/ UNCHANGED vars
    <2>1. UNCHANGED <<mr, objects>>
      BY <1>3 DEF Gardenlet, StartRotation, CompleteRotation, RequestReconcile, RequestMigrate,
                  RequestRestore, RequestDelete, RequestForceDelete, Enable, ChangeCaches,
                  ToggleHibernation, Disabled, vars, shootObjVars
    <2> QED
      BY <2>1
  <1>4. ASSUME NEW n \in Names, DeleteService(n) PROVE EverythingTracked'
    <2>1. /\ objects'["caches"] = objects["caches"] /\ objects'["services"][n].scheme = "none"
          /\ \A m \in Names \ {n} : objects'["services"][m] = objects["services"][m]
          /\ UNCHANGED mr
      BY <1>4 DEF DeleteService, TypeOK, Kinds, NoObject
    <2> QED
      BY <2>1 DEF Kinds
  <1> QED
    BY <1>1, <1>2, <1>3, <1>4 DEF Next, Users

LEMMA NothingLeft == EverythingTracked /\ DestroyInv /\ ReconcileInv => DeletedLeavesNothing
  BY DEF EverythingTracked, DestroyInv, SeedCleaned, ReconcileInv, ResourceWhole,
         DeletedLeavesNothing, Kinds

LEMMA TrackedNotOrphaned == EverythingTracked => NoOrphans
  BY DEF EverythingTracked, NoOrphans, Kinds

(* Without migrations every object is tracked by its ManagedResource.      *)
THEOREM ServicesCorrect ==
  ASSUME MaxMigrations = 0
  PROVE  Spec => []ServicesInv
  <1>1. Init => NeverMigrated /\ EverythingTracked
    BY DEF Init, NeverMigrated, EverythingTracked, Existing, NoResource, NoObjects, NoObject
  <1>2. TypeOK /\ ControlInv /\ DestroyInv /\ NeverMigrated /\ EverythingTracked /\ [Next]_vars
          => NeverMigrated' /\ EverythingTracked'
    BY NeverStep, TrackedStep DEF DestroyInv, MarksPart
  <1>3. Spec => [](NeverMigrated /\ EverythingTracked)
    BY <1>1, <1>2, DestroyCorrect, TypeCorrect, SecretsInvariant, PTL DEF Spec
  <1>4. NeverMigrated /\ EverythingTracked /\ DestroyInv /\ ReconcileInv => ServicesInv
    BY DEF ServicesInv
  <1> QED
    BY <1>3, <1>4, TrackedNotOrphaned, DestroyCorrect, ReconcileCorrect, PTL

(* Only a migration leaves a Service behind that is no longer wanted.      *)
THEOREM NeverOrphaned ==
  ASSUME MaxMigrations = 0
  PROVE  Spec => []NoOrphans
  <1>1. ServicesInv => NoOrphans
    BY TrackedNotOrphaned DEF ServicesInv
  <1> QED
    BY <1>1, ServicesCorrect, PTL

(* So without migrations success has no exception.                         *)
THEOREM ReadySafe ==
  ASSUME MaxMigrations = 0
  PROVE  Spec => []ReadyServesConfig
  BY NeverOrphaned, ReadyUnlessOrphaned, PTL

(* Without migrations a deletion leaves nothing in the shoot either.       *)
THEOREM DeletionSafe ==
  ASSUME MaxMigrations = 0
  PROVE  Spec => []DeletedLeavesNothing
  <1>1. ServicesInv => DeletedLeavesNothing
    BY NothingLeft DEF ServicesInv
  <1> QED
    BY <1>1, ServicesCorrect, PTL

-----------------------------------------------------------------------------
(* The refinement of PublishedStatus.                                      *)

AbstractStep == [Published!AbstractNext]_Published!abstractVars

SameSigners == \A u \in Upstreams : mr'["caches"].desired[u].ca = mr["caches"].desired[u].ca

LEMMA SignersKept == SameSigners => SignersInUse' = SignersInUse
  BY DEF SameSigners, SignersInUse

(* Nothing abstract changes, but an operation may give up what it took.    *)
LEMMA DropOrStutter ==
  ASSUME UNCHANGED <<caches, status, bundles, Ending>>, SameSigners,
         local'.caches \in {local.caches, NoLocal.caches}
  PROVE  AbstractStep
  BY SignersKept
  DEF AbstractStep, Published!AbstractNext, Published!abstractVars, Published!Drop,
      Published!Nothing, NoLocal

LEMMA RefineInit == Init => Published!AbstractInit
  BY NamesAssumption DEF Init, Published!AbstractInit, Published!Configurations,
                         Published!Nothing, Configs,
         Schemes, NoLocal, NoStatus, SignersInUse, Ending, NoResource, NoObjects, NoObject, Kinds

LEMMA RefineManager ==
  ASSUME TypeOK, MarksPart, ResourceManager
  PROVE  AbstractStep
  <1>1. UNCHANGED <<caches, status, bundles, stage, local>>
    BY DEF ResourceManager, ApplyObject, AdoptObject, RemoveObject, Observe, FinishDeletion,
           shootVars, workerVars, secretVars
  <1>2. Ending' = Ending
    BY <1>1 DEF Ending
  <1>3. ASSUME NEW k \in Kinds, OthersKept(k), KeepsAsking(k) PROVE AbstractStep
    <2>1. SameSigners
      BY <1>3 DEF OthersKept, KeepsAsking, Kinds, SameSigners
    <2> QED
      BY <1>1, <1>2, <2>1, DropOrStutter
  <1>4. ASSUME FinishDeletion("services") PROVE AbstractStep
    <2>1. SameSigners
      BY <1>4, FinishEffect DEF OthersKept, Kinds, SameSigners
    <2> QED
      BY <1>1, <1>2, <2>1, DropOrStutter
  <1>5. ASSUME FinishDeletion("caches") PROVE AbstractStep
    <2>1. mr["caches"].deleting /\ mr'["caches"] = NoResource
      BY <1>5, FinishEffect DEF Kinds
    <2>2. Ending
      BY <2>1 DEF MarksPart, MarkedInOrder, Ending, Kinds
    <2>3. SignersInUse' = [u \in Upstreams |-> {}]
      BY <2>1, NamesAssumption DEF SignersInUse, NoResource, NoObjects, NoObject
    <2> QED
      BY <1>1, <1>2, <2>2, <2>3 DEF AbstractStep, Published!AbstractNext, Published!Remove
  <1> QED
    BY <1>3, <1>4, <1>5, ApplyEffect, AdoptEffect, RemoveEffect, ObserveEffect
    DEF ResourceManager, Kinds

LEMMA RefineEnvironment ==
  ASSUME TypeOK, Gardenlet \/ Users \/ Disabled
  PROVE  AbstractStep
  <1> USE DEF shootVars, workerVars, shootObjVars, secretVars
  <1>1. CASE RequestDelete \/ RequestMigrate
    BY <1>1 DEF RequestDelete, RequestMigrate, UserChange, AbstractStep, Published!AbstractNext,
                Published!End, Ending, SignersInUse
  <1>2. CASE Enable \/ RequestRestore
    <2>1. /\ Ending /\ ~Ending' /\ caches' \in Published!Configurations
          /\ status' = NoStatus /\ bundles' \subseteq bundles /\ UNCHANGED <<local, mr>>
      BY <1>2 DEF Enable, RequestRestore, Ending, TypeOK, Published!Configurations, Configs,
                  Schemes
    <2>2. Published!Restart
      BY <2>1 DEF Published!Restart, Published!Nothing, NoStatus, SignersInUse, Ending
    <2> QED
      BY <2>2 DEF AbstractStep, Published!AbstractNext
  <1>3. CASE ChangeCaches
    BY <1>3 DEF ChangeCaches, UserChange, AbstractStep, Published!AbstractNext, Published!Want,
                Ending, SignersInUse, Published!Configurations, Configs, Schemes
  <1>4. CASE StartRotation \/ CompleteRotation \/ RequestReconcile \/ RequestForceDelete
    <2>1. UNCHANGED <<caches, status, bundles, stage, local, mr>>
      BY <1>4 DEF StartRotation, CompleteRotation, RequestReconcile, RequestForceDelete
    <2> QED
      BY <2>1, DropOrStutter DEF Ending, SameSigners
  <1>5. CASE (Users /\ ~ChangeCaches) \/ Disabled
    <2>1. UNCHANGED <<caches, status, bundles, stage, local, mr>>
      BY <1>5 DEF Users, ToggleHibernation, DeleteService, UserChange, Disabled, vars
    <2> QED
      BY <2>1, DropOrStutter DEF Ending, SameSigners
  <1> QED
    BY <1>1, <1>2, <1>3, <1>4, <1>5 DEF Gardenlet

(* A deployment of the caches or of the status may rely on the other.      *)
LEMMA TrustedSigners ==
  ASSUME SecretPart', ServicePart'
  PROVE  Published!Trusted(status'.schemes, status'.bundle, SignersInUse')
  <1>1. ASSUME NEW u \in Upstreams, status'.schemes[u] = "https"
        PROVE  {mr'["caches"].desired[u].ca} \ {0} \subseteq status'.bundle
    BY <1>1 DEF SecretPart, StatusTrustsCertificates, ServicePart, CachesDeployed
  <1> QED
    BY <1>1 DEF Published!Trusted, SignersInUse

LEMMA RefineDeploy ==
  ASSUME TypeOK, ControlInv, ServicePart, TypeOK', SecretPart', ServicePart', DeployCaches, ~Abort
  PROVE  AbstractStep
  <1>1. UNCHANGED <<caches, stage, status, bundles, local, op>> /\ pc' = "deployMonitoring"
        /\ op \in ReconcileOps
    BY DEF DeployCaches, Goto, secretVars, ControlInv, PCFitsOperation, AfterBundle
  <1>2. mr'["caches"].desired = DesiredCaches
    BY DeployEffect DEF DeployCaches, Kinds
  <1>3. local.caches \in Configs /\ local.bundle \subseteq CAIds
    BY DEF TypeOK, Locals
  <1>4. ASSUME NEW u \in Upstreams
        PROVE  /\ DesiredCaches[u].ca \in 0..MaxCA
               /\ DesiredCaches[u].ca # 0 <=> local.caches[u] = "https"
    <2>1. mr'["caches"].desired[u] \in Objects
      BY NamesAssumption DEF TypeOK, ManagedResources, Kinds
    <2>2. DesiredCaches[u].scheme = local.caches[u]
      BY DesiredCache
    <2>3. local.caches[u] = "https" => DesiredCaches[u].ca \in local.bundle
      BY <1>1, <1>2, <2>2 DEF SecretPart, DeployedSignerGenerated
    <2>4. local.caches[u] # "https" => DesiredCaches[u].ca = 0
      BY DesiredCache
    <2> QED
      BY <1>2, <1>3, <2>1, <2>3, <2>4, BoundsAssumption DEF Objects, CAIds
  <1>5. SignersInUse' = [u \in Upstreams |-> {DesiredCaches[u].ca} \ {0}]
    BY <1>2 DEF SignersInUse
  <1>6. SignersInUse' \in [Upstreams -> {{}} \cup {{ca} : ca \in CAIds}]
    <2>1. ASSUME NEW u \in Upstreams
          PROVE  {DesiredCaches[u].ca} \ {0} \in {{}} \cup {{ca} : ca \in CAIds}
      <3>1. CASE DesiredCaches[u].ca = 0
        BY <3>1
      <3>2. CASE DesiredCaches[u].ca # 0
        <4>1. DesiredCaches[u].ca \in CAIds
          BY <1>4, <3>2, BoundsAssumption DEF CAIds
        <4>2. {DesiredCaches[u].ca} \ {0} = {DesiredCaches[u].ca}
          BY <3>2
        <4> QED
          BY <4>1, <4>2
      <3> QED
        BY <3>1, <3>2
    <2> QED
      BY <1>5, <2>1
  <1>7. \A u \in Upstreams : SignersInUse'[u] # {} <=> local.caches[u] = "https"
    BY <1>4, <1>5
  <1>8. Published!Trusted(status.schemes, status.bundle, SignersInUse')
    BY <1>1, TrustedSigners
  <1>9. Ending' = Ending
    BY <1>1 DEF Ending
  <1>10. Published!Deploy
    BY <1>1, <1>6, <1>7, <1>8, <1>9 DEF Published!Deploy
  <1> QED
    BY <1>10 DEF AbstractStep, Published!AbstractNext

LEMMA RefinePublish ==
  ASSUME TypeOK, ControlInv, SecretPart, ServicePart, SecretPart', ServicePart', PatchStatus
  PROVE  AbstractStep
  <1>1. UNCHANGED <<caches, stage, mr, bundles, local, op>> /\ op \in ReconcileOps
        /\ status'.schemes = SchemesOf(local.seen) /\ status'.bundle = local.bundle
    BY DEF PatchStatus, Goto, shootVars, shootObjVars, secretVars, ControlInv, PCFitsOperation,
           AfterBundle
  <1>2. status'.schemes = local.caches
    BY <1>1 DEF PatchStatus, ServicePart, ServicesDeployed, Fetched
  <1>3. status'.bundle \in bundles \cup {{}}
    BY <1>1 DEF SecretPart, BundleGenerated
  <1>4. (\E u \in Upstreams : local.caches[u] = "https") => status'.bundle # {}
    BY <1>2 DEF SecretPart, StatusHasBundle
  <1>5. SignersInUse' = SignersInUse
    BY <1>1 DEF SignersInUse
  <1>6. Published!Trusted(status'.schemes, status'.bundle, SignersInUse)
    BY <1>5, TrustedSigners
  <1>7. Ending' = Ending
    BY <1>1 DEF Ending
  <1>8. Published!Publish
    BY <1>1, <1>2, <1>3, <1>4, <1>5, <1>6, <1>7 DEF Published!Publish
  <1> QED
    BY <1>8 DEF AbstractStep, Published!AbstractNext

LEMMA RefineCleanup ==
  ASSUME TypeOK, TypeOK', ControlInv, SecretPart', Cleanup
  PROVE  AbstractStep
  <1>1. UNCHANGED <<caches, mr, status>> /\ bundles' \subseteq bundles
        /\ local'.caches = NoLocal.caches
    BY DEF Cleanup, Abort, Complete, shootObjVars
  <1>2. Ending' = Ending
    BY DEF Cleanup, Abort, Complete, Ending, ControlInv, PCFitsOperation, OperationFitsStage,
           ReconcileOps, DeleteOps
  <1>3. ~Ending /\ status.bundle # {} => status.bundle \in bundles'
    BY <1>1, <1>2 DEF Ending, SecretPart, StatusCAExists
  <1>4. SignersInUse' = SignersInUse
    BY <1>1 DEF SignersInUse
  <1> QED
    BY <1>1, <1>2, <1>3, <1>4
    DEF AbstractStep, Published!AbstractNext, Published!Collect, Published!Nothing, NoLocal

LEMMA RefineStore ==
  ASSUME TypeOK, TypeOK', GenerateBundle
  PROVE  AbstractStep
  <1>1. /\ UNCHANGED <<caches, stage, mr, status>>
        /\ local'.caches = local.caches /\ bundles' = bundles \cup {local'.bundle}
    BY DEF GenerateBundle, shootVars, shootObjVars, TypeOK, Locals
  <1>2. local'.bundle \in SUBSET CAIds
    BY DEF TypeOK, Locals
  <1>3. SignersInUse' = SignersInUse /\ Ending' = Ending
    BY <1>1 DEF SignersInUse, Ending
  <1>4. Published!Store
    BY <1>1, <1>2, <1>3 DEF Published!Store
  <1> QED
    BY <1>4 DEF AbstractStep, Published!AbstractNext

LEMMA RefineBegin ==
  ASSUME ControlInv, LocalIsCurrent, Begin
  PROVE  AbstractStep
  <1>1. UNCHANGED <<caches, stage, mr, bundles, status>>
    BY DEF Begin, BeginReconcile, BeginMigrate, BeginDelete, shootVars, shootObjVars, secretVars
  <1>2. CASE local'.caches = local.caches
    BY <1>1, <1>2, DropOrStutter DEF Ending, SameSigners
  <1>3. CASE local'.caches # local.caches
    <2>1. BeginReconcile /\ awake
      BY <1>3 DEF Begin, BeginReconcile, BeginMigrate, BeginDelete
    <2>2. local'.caches = caches
      BY <2>1 DEF BeginReconcile, NoLocal
    <2>3. local.caches = NoLocal.caches
      BY <2>1 DEF BeginReconcile, LocalIsCurrent, ControlInv, OperationFitsStage,
                  ReconcileOps
    <2> QED
      BY <1>1, <2>2, <2>3
      DEF AbstractStep, Published!AbstractNext, Published!Take, Published!Nothing, NoLocal,
          SignersInUse, Ending
  <1> QED
    BY <1>2, <1>3

LEMMA RefineWorker ==
  ASSUME TypeOK, ControlInv, SecretPart, LocalIsCurrent, ServicePart,
         TypeOK', SecretPart', ServicePart', Worker \/ Fail
  PROVE  AbstractStep
  <1>1. CASE Begin \/ Cleanup \/ GenerateBundle \/ PatchStatus \/ (DeployCaches /\ ~Abort)
    BY <1>1, RefineBegin, RefineCleanup, RefineStore, RefinePublish, RefineDeploy
  <1>2. CASE ~(Begin \/ Cleanup \/ GenerateBundle \/ PatchStatus \/ (DeployCaches /\ ~Abort))
    <2> USE DEF shootVars, shootObjVars, secretVars
    <2>1. UNCHANGED <<status, bundles>>
      BY <1>2 DEF Worker, Fail, ReconcileStep, DestroyStep, DeployServices, AwaitHealthy,
        FetchServices, GenerateCA, DeployCaches, DeployMonitoring, KeepServices, KeepCaches, Keep,
        DestroyServices, AwaitServicesGone, DestroyCaches, DestroyMonitoring, AwaitCachesGone
    <2>2. SameSigners
      <3>1. CASE DeployServices
        BY <3>1, DeployEffect DEF DeployServices, Kinds, SameSigners
      <3>2. CASE DestroyServices \/ DestroyCaches
        BY <3>2, DestroyEffect DEF DestroyServices, DestroyCaches, Kinds, SameSigners
      <3>3. CASE KeepServices \/ KeepCaches
        BY <3>3, KeepEffect DEF KeepServices, KeepCaches, Keep, Kinds, SameSigners
      <3>4. CASE UNCHANGED mr
        BY <3>4 DEF SameSigners
      <3> QED
        BY <1>2, <3>1, <3>2, <3>3, <3>4
        DEF Worker, Fail, ReconcileStep, DestroyStep, AwaitHealthy, FetchServices, GenerateCA,
            DeployCaches, DeployMonitoring, AwaitServicesGone, DestroyMonitoring, AwaitCachesGone,
            Abort, Goto
    <2>3. /\ pc # "idle" /\ UNCHANGED caches
          /\ GoesOn \/ Abort \/ Completes
      BY <1>2, StepGoesOn DEF Worker
    <2>4. UNCHANGED caches /\ local'.caches \in {local.caches, NoLocal.caches}
      BY <2>3 DEF GoesOn, Abort, Complete, Completes
    <2>5. Ending' = Ending
      BY <2>3 DEF GoesOn, Abort, Complete, Completes, Ending, ControlInv,
                  PCFitsOperation, OperationFitsStage, ReconcileOps, DeleteOps
    <2> QED
      BY <2>1, <2>2, <2>4, <2>5, DropOrStutter
  <1> QED
    BY <1>1, <1>2

LEMMA RefineStep ==
  ASSUME TypeOK, ControlInv, SecretPart, DestroyInv, ReconcileInv,
         TypeOK', SecretPart', ReconcileInv', [Next]_vars
  PROVE  AbstractStep
  <1>1. MarksPart /\ LocalIsCurrent /\ ServicePart /\ ServicePart'
    BY DEF DestroyInv, MarksPart, ReconcileInv, ServicePart
  <1>2. CASE UNCHANGED vars
    <2>1. UNCHANGED <<caches, status, bundles, stage, local, mr>>
      BY <1>2 DEF vars, shootVars, workerVars, shootObjVars, secretVars
    <2> QED
      BY <2>1, DropOrStutter DEF Ending, SameSigners
  <1> QED
    BY <1>1, <1>2, RefineWorker, RefineManager, RefineEnvironment DEF Next

(* The actuator implements PublishedStatus, from one seed to the next: a   *)
(* reader of the providerStatus sees one whole configuration, with a CA    *)
(* bundle that exists and that trusts every certificate in use (Services   *)
(* under names no longer wanted left aside).                               *)
THEOREM PublishedUnlessOrphaned == Spec /\ []NoOrphans => ImplementsPublishedStatus
  <1>1. TypeOK /\ ControlInv /\ SecretPart /\ DestroyInv /\ ReconcileInv /\ TypeOK' /\ SecretPart'
        /\ ReconcileInv' /\ [Next]_vars
          => [Published!AbstractNext]_Published!abstractVars
    BY RefineStep DEF AbstractStep
  <1> QED
    BY <1>1, RefineInit, DestroyCorrect, ReconcileCorrect, TypeCorrect, SecretsInvariant, PTL
    DEF Spec, ImplementsPublishedStatus, Published!AbstractSpec

(* Without migrations that has no exception.                               *)
THEOREM PublishedStatusImplemented ==
  ASSUME MaxMigrations = 0
  PROVE  Spec => ImplementsPublishedStatus
  BY NeverOrphaned, PublishedUnlessOrphaned, PTL

=============================================================================
