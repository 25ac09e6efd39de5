------------------------ MODULE RegistryCacheSystem ------------------------
(***************************************************************************)
(* The actuator together with everything that runs beside it: the          *)
(* ManagedResource controller that applies and deletes the shoot objects   *)
(* one by one, gardenlet that asks for operations, and the users that      *)
(* change the Shoot and delete Services.  All of the latter is external to *)
(* the repository and is modelled from how the actuator relies on it.      *)
(***************************************************************************)
EXTENDS RegistryCacheActuator

-----------------------------------------------------------------------------
(* The ManagedResource controller.                                         *)

(* The live object is what the ManagedResource wants; the address of a     *)
(* Service belongs to the API server.                                      *)
SameAnnotations(o, d) == o.upstream = d.upstream /\ o.scheme = d.scheme

InPlace(k, n) ==
  IF k = "services" THEN SameAnnotations(objects[k][n], mr[k].desired[n])
                    ELSE objects[k][n] = mr[k].desired[n]

FreeIPs == IPs \ {objects["services"][n].ip : n \in Names}

ApplyObject(k, n) ==
  /\ mr[k].present /\ ~mr[k].deleting
  /\ mr[k].desired[n].scheme # "none" /\ ~InPlace(k, n)
  /\ IF k = "services"
     THEN \E i \in IF objects[k][n].ip = NoIP THEN FreeIPs ELSE {objects[k][n].ip} :
            objects' = [objects EXCEPT ![k][n] = [mr[k].desired[n] EXCEPT !.ip = i]]
     ELSE objects' = [objects EXCEPT ![k][n] = mr[k].desired[n]]
  /\ mr' = [mr EXCEPT ![k].tracked = mr[k].tracked \cup {n}]
  /\ UNCHANGED <<shootVars, workerVars, secretVars, monitoring, status, boundVars>>

(* Objects the ManagedResource applied earlier are deleted when it no      *)
(* longer wants them, or when it is deleted itself without keepObjects.    *)
RemoveObject(k, n) ==
  /\ mr[k].present /\ n \in mr[k].tracked
  /\ \/ ~mr[k].deleting /\ mr[k].desired[n].scheme = "none"
     \/ mr[k].deleting /\ ~mr[k].keep
  /\ objects' = [objects EXCEPT ![k][n] = NoObject]
  /\ mr' = [mr EXCEPT ![k].tracked = mr[k].tracked \ {n}]
  /\ UNCHANGED <<shootVars, workerVars, secretVars, monitoring, status, boundVars>>

Observe(k) ==
  /\ mr[k].present /\ ~mr[k].deleting /\ ~mr[k].observed
  /\ \A n \in Names :
       IF mr[k].desired[n].scheme = "none" THEN n \notin mr[k].tracked
                                           ELSE n \in mr[k].tracked /\ InPlace(k, n)
  /\ mr' = [mr EXCEPT ![k].observed = TRUE]
  /\ UNCHANGED <<shootVars, workerVars, objects, secretVars, monitoring, status, boundVars>>

(* An object that is already in place is adopted.                          *)
AdoptObject(k, n) ==
  /\ mr[k].present /\ ~mr[k].deleting
  /\ mr[k].desired[n].scheme # "none" /\ InPlace(k, n) /\ n \notin mr[k].tracked
  /\ mr' = [mr EXCEPT ![k].tracked = mr[k].tracked \cup {n}]
  /\ UNCHANGED <<shootVars, workerVars, objects, secretVars, monitoring, status, boundVars>>

FinishDeletion(k) ==
  /\ mr[k].present /\ mr[k].deleting /\ (mr[k].keep \/ mr[k].tracked = {})
  /\ mr' = [mr EXCEPT ![k] = NoResource]
  /\ UNCHANGED <<shootVars, workerVars, objects, secretVars, monitoring, status, boundVars>>

-----------------------------------------------------------------------------
(* gardenlet and the users.                                                *)

(* The last operation asked for has succeeded.                             *)
Ready == pc = "idle" /\ request = "none"

UserChange == stage = "live" /\ changes < MaxChanges /\ changes' = changes + 1

(* Caches are added, removed, switched to TLS and back, and their Services *)
(* renamed.  Gardener rejects changes of a Shoot that is being migrated or *)
(* restored.                                                               *)
ChangeCaches ==
  /\ UserChange /\ request # "restore" /\ op # "restore"
  /\ caches' \in {c \in Configs : Caches(c) # {}} /\ owners' \in Namings(caches')
  /\ <<caches', owners'>> # <<caches, owners>>
  /\ request' = "reconcile"
  /\ UNCHANGED <<awake, epoch, keepOld, stage, op, pc, local, shootObjVars, secretVars,
                 monitoring, status, migrations, faults>>

ToggleHibernation ==
  /\ UserChange /\ awake' = ~awake /\ request' = "reconcile"
  /\ UNCHANGED <<caches, owners, epoch, keepOld, stage, op, pc, local, shootObjVars, secretVars,
                 monitoring, status, migrations, faults>>

(* Phase Preparing: the old CA is kept beside the new one.                 *)
StartRotation ==
  /\ stage = "live" /\ awake /\ Ready /\ epoch < MaxRotations
  /\ epoch = 0 \/ ~keepOld
  /\ epoch' = epoch + 1 /\ keepOld' = TRUE /\ request' = "reconcile"
  /\ UNCHANGED <<caches, owners, awake, stage, op, pc, local, shootObjVars, secretVars,
                 monitoring, status, boundVars>>

(* Phase Completing, possible once Preparing has succeeded.                *)
CompleteRotation ==
  /\ stage = "live" /\ awake /\ Ready /\ epoch > 0 /\ keepOld
  /\ keepOld' = FALSE /\ request' = "reconcile"
  /\ UNCHANGED <<caches, owners, awake, epoch, stage, op, pc, local, shootObjVars, secretVars,
                 monitoring, status, boundVars>>

(* Periodic reconciliation of the Shoot.                                   *)
RequestReconcile ==
  /\ stage = "live" /\ Ready /\ request' = "reconcile"
  /\ UNCHANGED <<shootVars, op, pc, local, shootObjVars, secretVars, monitoring,
                 status, boundVars>>

RequestMigrate ==
  /\ stage = "live" /\ migrations < MaxMigrations
  /\ migrations' = migrations + 1 /\ stage' = "migrating" /\ request' = "migrate"
  /\ UNCHANGED <<caches, owners, awake, epoch, keepOld, op, pc, local, shootObjVars, secretVars,
                 monitoring, status, changes, faults>>

(* The Extension is created in the new seed: neither the providerStatus    *)
(* nor the secrets that are not persisted come along.                      *)
RequestRestore ==
  /\ stage = "migrated" /\ Ready
  /\ stage' = "live" /\ request' = "restore"
  /\ status' = NoStatus /\ bundles' = {}
  /\ UNCHANGED <<caches, owners, awake, epoch, keepOld, op, pc, local, shootObjVars, cas, lastCA,
                 monitoring, boundVars>>

RequestDelete ==
  /\ UserChange /\ stage' = "deleting" /\ request' = "delete"
  /\ UNCHANGED <<caches, owners, awake, epoch, keepOld, op, pc, local, shootObjVars, secretVars,
                 monitoring, status, migrations, faults>>

RequestForceDelete ==
  /\ stage = "deleting" /\ op # "forceDelete" /\ request # "forceDelete"
  /\ changes < MaxChanges /\ changes' = changes + 1 /\ request' = "forceDelete"
  /\ UNCHANGED <<shootVars, op, pc, local, shootObjVars, secretVars, monitoring, status,
                 migrations, faults>>

(* The extension is enabled again after it was disabled.                   *)
Enable ==
  /\ stage = "gone" /\ changes < MaxChanges /\ changes' = changes + 1
  /\ caches' \in {c \in Configs : Caches(c) # {}} /\ owners' \in Namings(caches')
  /\ stage' = "live" /\ request' = "reconcile" /\ status' = NoStatus
  /\ UNCHANGED <<awake, epoch, keepOld, op, pc, local, shootObjVars, secretVars,
                 monitoring, migrations, faults>>

(* A user deletes a Service in the shoot.                                  *)
DeleteService(n) ==
  /\ Fault /\ objects["services"][n].scheme # "none"
  /\ objects' = [objects EXCEPT !["services"][n] = NoObject]
  /\ UNCHANGED <<shootVars, workerVars, mr, secretVars, monitoring, status,
                 changes, migrations>>

Disabled == stage \in {"gone", "forceDeleted"} /\ UNCHANGED vars

-----------------------------------------------------------------------------
Begin == BeginReconcile \/ BeginMigrate \/ BeginDelete

ReconcileStep ==
  \/ DeployServices \/ AwaitHealthy \/ FetchServices \/ GenerateCA
  \/ GenerateBundle \/ DeployCaches \/ DeployMonitoring \/ PatchStatus

DestroyStep ==
  \/ KeepServices \/ DestroyServices \/ AwaitServicesGone \/ KeepCaches
  \/ DestroyCaches \/ DestroyMonitoring \/ AwaitCachesGone

Worker == Begin \/ ReconcileStep \/ DestroyStep \/ Cleanup

ResourceManager ==
  \E k \in Kinds :
    \/ \E n \in Names : ApplyObject(k, n) \/ AdoptObject(k, n) \/ RemoveObject(k, n)
    \/ Observe(k) \/ FinishDeletion(k)

Gardenlet ==
  \/ StartRotation \/ CompleteRotation \/ RequestReconcile \/ RequestMigrate
  \/ RequestRestore \/ RequestDelete \/ RequestForceDelete \/ Enable

Users == ChangeCaches \/ ToggleHibernation \/ \E n \in Names : DeleteService(n)

Next == Worker \/ Fail \/ ResourceManager \/ Gardenlet \/ Users \/ Disabled

Spec == Init /\ [][Next]_vars

(* The worker never stops; the ManagedResource controller gets to every    *)
(* object; gardenlet restores what it migrated and reconciles from time to *)
(* time.                                                                   *)
Fairness ==
  /\ WF_vars(Worker)
  /\ \A k \in Kinds :
       /\ WF_vars(Observe(k)) /\ WF_vars(FinishDeletion(k))
       /\ \A n \in Names :
            WF_vars(ApplyObject(k, n) \/ AdoptObject(k, n) \/ RemoveObject(k, n))
  /\ WF_vars(RequestReconcile) /\ WF_vars(RequestRestore)

FairSpec == Spec /\ Fairness

-----------------------------------------------------------------------------
(* Every variable has its type.                                            *)
TypeOK ==
  /\ caches \in Configs /\ owners \in Owners /\ awake \in BOOLEAN
  /\ epoch \in Epochs /\ keepOld \in BOOLEAN
  /\ stage \in Stages /\ request \in Operations /\ op \in Operations /\ pc \in PCs
  /\ local \in Locals
  /\ mr \in [Kinds -> ManagedResources]
  /\ objects \in [Kinds -> [Names -> Objects]]
  /\ cas \in [Epochs -> 0..MaxCA] /\ bundles \in SUBSET SUBSET CAIds
  /\ lastCA \in 0..MaxCA
  /\ monitoring \in SUBSET MonitoringObjects /\ status \in Statuses
  /\ changes \in 0..MaxChanges /\ migrations \in 0..MaxMigrations
  /\ faults \in 0..MaxFaults

(* As long as the Extension is not being deleted, the CA bundle secret the *)
(* providerStatus names exists in the seed: the webhook reads it for every *)
(* OperatingSystemConfig.  Reconcile cleans secrets up only after it has   *)
(* patched the status.                                                     *)
StatusCAExists ==
  stage \in {"live", "migrating"} /\ status.bundle # {} => status.bundle \in bundles

(* For a cache that is published and deployed with TLS, the published      *)
(* bundle holds the CA that signed the deployed certificate: through CA    *)
(* rotations, TLS switched off and on, and operations that stop halfway.   *)
StatusTrustsCertificates ==
  \A u \in Upstreams :
    status.schemes[u] = "https" /\ mr["caches"].desired[u].scheme = "https"
      => mr["caches"].desired[u].ca \in status.bundle

(* Once gardenlet sees the last operation on an awake shoot succeed, the   *)
(* status lists exactly the configured caches, the caches are deployed     *)
(* with the published schemes and with certificates for the published      *)
(* addresses, no other CA is left over, and monitoring is as wanted.       *)
ReadyServesConfig ==
  Ready /\ stage = "live" /\ awake =>
    /\ status.schemes = caches
    /\ SchemesOf(mr["caches"].desired) = caches
    /\ \A u \in Upstreams : caches[u] = "https" => mr["caches"].desired[u].ip = status.ips[u]
    /\ bundles = IF \E u \in Upstreams : caches[u] = "https" THEN {status.bundle} ELSE {}
    /\ monitoring = IF MonitoringEnabled THEN MonitoringObjects ELSE {}

(* After a deletion that was not forced nothing of the extension is left:  *)
(* no shoot object, ManagedResource, secret or monitoring object.          *)
DeletedLeavesNothing ==
  stage = "gone" =>
    /\ \A k \in Kinds : ~mr[k].present /\ Existing(objects[k]) = {}
    /\ \A e \in Epochs : cas[e] = 0
    /\ bundles = {} /\ monitoring = {}

(* While the control plane migrates, deleting the ManagedResources takes   *)
(* no Service and no cache away from the shoot (a user still may).         *)
MigrationKeepsObjects ==
  [][stage = "migrating" /\ ~(\E n \in Names : DeleteService(n)) =>
       \A k \in Kinds : mr[k].deleting => Existing(objects[k]) \subseteq Existing(objects'[k])]_vars

(* "not all services for all configured caches exist": the actuator only   *)
(* gives up on the list of Services if a configured cache has no Service.  *)
FetchFailsOnlyIfServiceMissing ==
  [][pc = "fetchServices" /\ pc' = "idle" /\ faults' = faults =>
       \E n \in Named(local.owners) : objects["services"][n].scheme = "none"]_vars

(* When the owner of an awake shoot stops changing it, the status comes to *)
(* publish the configured caches at the addresses of their live Services,  *)
(* and the caches run with the certificates that were deployed for them.   *)
StatusConverges ==
  <>[](stage = "live" /\ awake) =>
    <>[](/\ status.schemes = caches
         /\ \A n \in Named(owners) : objects["services"][n].ip = status.ips[owners[n]]
         /\ objects["caches"] = mr["caches"].desired)

(* A deletion is completed.                                                *)
DeletionCompletes == stage = "deleting" ~> stage \in {"gone", "forceDeleted"}

(* A migration is completed.                                               *)
MigrationCompletes == stage = "migrating" ~> stage = "migrated"

=============================================================================
