---------------------- MODULE RegistryCacheInvariants ----------------------
(***************************************************************************)
(* The inductive invariants behind the safety properties of                *)
(* RegistryCacheSystem: what holds between the steps of an operation.      *)
(***************************************************************************)
EXTENDS RegistryCacheSystem

ReconcileOps == {"reconcile", "restore"}
DeleteOps    == {"delete", "forceDelete"}
BeforeBundle == {"deployServices", "awaitHealthy", "fetchServices", "generateCA",
                 "generateBundle"}
AfterBundle  == {"deployCaches", "deployMonitoring", "patchStatus"}
DestroyPCs   == {"keepServices", "destroyServices", "awaitServicesGone", "keepCaches",
                 "destroyCaches", "destroyMonitoring", "awaitCachesGone"}

(* What the worker runs, what it is asked for, and where the Extension is  *)
(* in its life fit together.                                               *)
OperationFitsStage ==
  /\ pc = "idle" <=> op = "none"
  /\ request \in ReconcileOps => stage = "live"
  /\ request = "migrate" => stage = "migrating" /\ op # "migrate"
  /\ op = "migrate" => stage = "migrating"
  /\ request \in DeleteOps \/ op \in DeleteOps => stage = "deleting"
  /\ op \in ReconcileOps /\ stage # "live" => request \notin ReconcileOps \cup {"none"}

PCFitsOperation ==
  /\ pc \in BeforeBundle \cup AfterBundle => op \in ReconcileOps
  /\ pc \in DestroyPCs => op \in DeleteOps \cup {"migrate"}
  /\ pc = "cleanup" => op \in ReconcileOps \cup DeleteOps

(* A rotation moves on only between two operations, so the Cluster that a  *)
(* reconciliation has read is still the current one.                       *)
SnapshotCurrent ==
  op \in ReconcileOps => local.epoch = epoch /\ local.keepOld = keepOld

(* The bundle a reconciliation has generated: the CA of the current epoch  *)
(* and the old CA, if any, stored in the seed.                             *)
BundleGenerated ==
  /\ pc \in BeforeBundle \cup DestroyPCs \cup {"idle"} \/ op \in DeleteOps => local.bundle = {}
  /\ pc \in AfterBundle /\ TLSSeen => local.bundle # {}
  /\ local.bundle # {} =>
       /\ local.bundle \in bundles
       /\ cas[epoch] # 0
       /\ local.bundle = {cas[epoch]} \cup OldCA(epoch, keepOld)
       /\ local.signer \in Signers(epoch, keepOld)

(* A Service with TLS that the status is going to list has a certificate.  *)
CertificatesSeen ==
  \A u \in Upstreams : local.seen[u].scheme = "https" => local.certs[u] = local.seen[u]

(* At Cleanup the status already names the bundle that is kept.            *)
CleanupPublished ==
  pc = "cleanup" /\ op \in ReconcileOps => status.bundle = local.bundle

StatusHasBundle ==
  \A u \in Upstreams : status.schemes[u] = "https" => status.bundle # {}

(* No deletion has begun yet to remove the secrets.                        *)
SecretsAlive == stage \in {"live", "migrating"} \/ op \in ReconcileOps

(* Every CA the next server certificates may be signed with is published.  *)
NextSignerPublished ==
  SecretsAlive /\ status.bundle # {} => Signers(epoch, keepOld) \subseteq status.bundle

(* Before a rotation completes, the new CA has been published.             *)
CurrentCAPublished ==
  Ready /\ stage = "live" /\ awake /\ status.bundle # {} => cas[epoch] \in status.bundle

DeployedSignerGenerated ==
  op \in ReconcileOps /\ pc \in {"deployMonitoring", "patchStatus", "cleanup"} =>
    \A u \in Upstreams :
      mr["caches"].desired[u].scheme = "https" => mr["caches"].desired[u].ca \in local.bundle

(* The inductive invariant of StatusCAExists and StatusTrustsCertificates. *)
SecretsInv ==
  /\ OperationFitsStage /\ PCFitsOperation /\ SnapshotCurrent /\ BundleGenerated
  /\ CertificatesSeen /\ CleanupPublished /\ StatusHasBundle /\ StatusCAExists
  /\ NextSignerPublished /\ CurrentCAPublished
  /\ DeployedSignerGenerated /\ StatusTrustsCertificates

-----------------------------------------------------------------------------
(* What a migration or a deletion has marked and taken away.               *)

(* A ManagedResource is never deleted under a reconciliation, and a marked *)
(* one is gone before the Extension goes on with its life; in a migration  *)
(* it leaves its objects in the shoot.                                     *)
MarkedInOrder ==
  /\ \A k \in Kinds : mr[k].deleting => mr[k].present
  /\ stage \in {"live", "migrated", "gone"} \/ op \in ReconcileOps =>
       \A k \in Kinds : ~mr[k].deleting
  /\ stage = "migrating" => \A k \in Kinds : mr[k].deleting => mr[k].keep

(* What Migrate has done so far: keepObjects is set before the deletion,   *)
(* and the Services are gone before it comes to the caches.                *)
MigrateProgress ==
  /\ pc \in {"keepServices", "keepCaches"} => op = "migrate"
  /\ op = "migrate" =>
       /\ pc = "destroyServices" /\ mr["services"].present => mr["services"].keep
       /\ pc = "destroyCaches" /\ mr["caches"].present => mr["caches"].keep
       /\ pc \in {"keepCaches", "destroyCaches", "destroyMonitoring", "awaitCachesGone"} =>
            ~mr["services"].present

(* What a deletion has awaited stays away.                                 *)
DeleteProgress ==
  op = "delete" =>
    /\ pc \in {"destroyCaches", "destroyMonitoring", "awaitCachesGone", "cleanup"} =>
         ~mr["services"].present
    /\ pc = "cleanup" => ~mr["caches"].present

BundleForTLS ==
  /\ {} \notin bundles
  /\ pc = "generateBundle" \/ local.bundle # {} => TLSSeen

(* A deletion leaves nothing in the seed, and after it nothing runs.       *)
SeedCleaned ==
  /\ op = "delete" /\ pc \in {"awaitCachesGone", "cleanup"} => monitoring = {}
  /\ stage \in {"gone", "forceDeleted"} => op = "none" /\ request = "none"
  /\ stage = "gone" =>
       /\ \A k \in Kinds : ~mr[k].present
       /\ \A e \in Epochs : cas[e] = 0
       /\ bundles = {} /\ monitoring = {}

(* The inductive invariant of MigrationKeepsObjects, and of what           *)
(* DeletedLeavesNothing says of the seed, together with SecretsInv.        *)
DestroyInv ==
  /\ MarkedInOrder /\ MigrateProgress /\ DeleteProgress /\ BundleForTLS /\ SeedCleaned

-----------------------------------------------------------------------------
(* What a reconciliation has done and finds.                               *)

(* A Service that no ManagedResource tracks, left by a migration, has the  *)
(* name of one that is configured: neither was its cache removed nor its   *)
(* suffix changed before the migration.                                    *)
NoOrphans == Existing(objects["services"]) \ mr["services"].tracked \subseteq Named(owners)

(* A reconciliation works on the configuration that gardenlet asked for;   *)
(* every cache has one Service name.                                       *)
LocalIsCurrent ==
  /\ owners \in Namings(caches)
  /\ op \in ReconcileOps => local.owners \in Namings(local.caches)
  /\ op \notin ReconcileOps => local = NoLocal
  /\ op \in ReconcileOps /\ request = "none" =>
       local.caches = caches /\ local.owners = owners

(* An absent ManagedResource has no remains, and what a migration has left *)
(* in the shoot is wanted by the reconciliation that finds it.             *)
ResourceWhole ==
  /\ \A k \in Kinds : ~mr[k].present => ~mr[k].observed /\ mr[k].tracked = {}
  /\ op \in ReconcileOps =>
       Existing(objects["services"]) \ mr["services"].tracked \subseteq Named(local.owners)

(* Once the Services were observed in place, none is tracked that is not   *)
(* wanted and each that is wanted and there is of the upstream and has the *)
(* scheme that is wanted.                                                  *)
ObservedInPlace ==
  LET r == mr["services"] IN
  r.observed =>
    \A n \in Names :
      IF r.desired[n].scheme = "none" THEN n \notin r.tracked
      ELSE objects["services"][n].scheme # "none" =>
             SameAnnotations(objects["services"][n], r.desired[n])

Fetched == pc \notin {"deployServices", "awaitHealthy", "fetchServices"}

(* What a reconciliation has done so far it finds unchanged.               *)
ServicesDeployed ==
  op \in ReconcileOps =>
    /\ pc # "deployServices" =>
         mr["services"].present /\ mr["services"].desired = DesiredServices
    /\ pc = "fetchServices" => mr["services"].observed
    /\ Fetched =>
         /\ SchemesOf(local.seen) = local.caches
         /\ \A u \in Upstreams : local.certs[u].scheme = "https" => local.caches[u] = "https"

CachesDeployed ==
  /\ op \in ReconcileOps /\ pc \in {"deployMonitoring", "patchStatus", "cleanup"} =>
       mr["caches"].desired = DesiredCaches
  /\ \A u \in Upstreams :
       mr["caches"].desired[u].ca # 0 => mr["caches"].desired[u].scheme = "https"

StatusPatched ==
  op \in ReconcileOps =>
    /\ pc \in {"patchStatus", "cleanup"} =>
         monitoring = IF MonitoringEnabled THEN MonitoringObjects ELSE {}
    /\ pc = "cleanup" =>
         status = [schemes |-> SchemesOf(local.seen), ips |-> IPsOf(local.seen),
                   bundle |-> local.bundle]

(* The inductive invariant of ReadyServesConfig as long as NoOrphans       *)
(* holds, together with SecretsInv and DestroyInv.                         *)
ReconcileInv ==
  /\ LocalIsCurrent /\ ResourceWhole /\ ObservedInPlace
  /\ ServicesDeployed /\ CachesDeployed /\ StatusPatched /\ ReadyServesConfig

-----------------------------------------------------------------------------
(* Without migrations (MaxMigrations = 0) nothing is ever left untracked.  *)

NeverMigrated ==
  /\ stage \notin {"migrating", "migrated"}
  /\ op \notin {"migrate", "restore"} /\ request \notin {"migrate", "restore"}

EverythingTracked ==
  \A k \in Kinds : ~mr[k].keep /\ Existing(objects[k]) \subseteq mr[k].tracked

(* The inductive invariant of DeletedLeavesNothing, and of                 *)
(* ImplementsPublishedStatus together with SecretsInv.                     *)
ServicesInv == NeverMigrated /\ EverythingTracked /\ DestroyInv /\ ReconcileInv

-----------------------------------------------------------------------------
(* What PublishedStatus speaks of, in the terms of the actuator.           *)
SignersInUse ==
  [u \in Upstreams |-> {mr["caches"].desired[u].ca} \ {0}]
Ending == stage # "live"

Published ==
  INSTANCE PublishedStatus WITH
    CAs <- CAIds, wanted <- caches, taken <- local.caches,
    published <- status.schemes, bundle <- status.bundle, secrets <- bundles,
    certs <- SignersInUse, ending <- Ending

(* The actuator, the controllers and the users implement PublishedStatus,  *)
(* from one seed to the next: whatever fails in between, a status is       *)
(* published as a whole, its CA bundle exists and trusts every certificate *)
(* in use.                                                                 *)
ImplementsPublishedStatus == Published!AbstractSpec
=============================================================================
