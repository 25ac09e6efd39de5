----------------------- MODULE RegistryCacheActuator -----------------------
(***************************************************************************)
(* The registry-cache Extension actuator (pkg/controller/cache) with the   *)
(* two components it deploys: the shoot Services and the caches            *)
(* (StatefulSets with their Secrets, and the seed monitoring objects).     *)
(*                                                                         *)
(* One worker runs at most one operation on the Extension.  Every call of  *)
(* the operation that reads or writes the seed or the shoot is one step;   *)
(* the ManagedResource controller, gardenlet and users run in between.     *)
(* An operation that fails, times out or dies with the process loses its   *)
(* local variables and is run again from the beginning.                    *)
(*                                                                         *)
(* Abstracted: a cache is its upstream, its scheme and the name of its     *)
(* Service, which serviceNameSuffix may change; a certificate is the CA    *)
(* that signed it and the IP address in its SANs; a CA bundle is the set   *)
(* of CAs in it.  External, modelled from how the code uses them:          *)
(* ManagedResources, the secrets manager, gardenlet and the Shoot API.     *)
(***************************************************************************)
EXTENDS Integers, FiniteSets

CONSTANTS
  Upstreams,          \* upstreams a cache may be configured for
  NoUpstream,         \* "no upstream"
  Names,              \* names of shoot objects: the one computed from an
                      \* upstream is written like it, others take a suffix
  IPs,                \* cluster IPs the shoot API server hands out
  NoIP,               \* "no address"
  MonitoringEnabled,  \* FALSE for shoots of purpose testing
  MaxRotations,       \* bound: CA rotations
  MaxCA,              \* bound: CA key pairs ever generated
  MaxChanges,         \* bound: changes of the Shoot by its owner
  MaxMigrations,      \* bound: control plane migrations
  MaxFaults           \* bound: failed calls, crashes, deleted Services

ASSUME NamesAssumption == IsFiniteSet(Names) /\ Upstreams \subseteq Names
ASSUME UpstreamsAssumption == NoUpstream \notin Upstreams
ASSUME IPsAssumption == NoIP \notin IPs
ASSUME BoundsAssumption ==
  /\ MonitoringEnabled \in BOOLEAN
  /\ MaxRotations \in Nat /\ MaxCA \in Nat /\ MaxChanges \in Nat
  /\ MaxMigrations \in Nat /\ MaxFaults \in Nat

-----------------------------------------------------------------------------
Schemes  == {"http", "https"}
Configs  == [Upstreams -> Schemes \cup {"none"}]
Caches(f) == {u \in Upstreams : f[u] # "none"}

Epochs == 0..MaxRotations
CAIds  == 1..MaxCA

(* Whose Service has a name.  No two caches have one name: the webhooks    *)
(* admit equal suffixes no more than equal upstreams.                      *)
Owners == [Names -> Upstreams \cup {NoUpstream}]
NoOwners == [n \in Names |-> NoUpstream]
Named(o) == {n \in Names : o[n] # NoUpstream}
Namings(f) ==
  {o \in Owners : /\ \A u \in Caches(f) : \E n \in Names : o[n] = u
                  /\ \A n \in Named(o) : o[n] \in Caches(f)
                  /\ \A m, n \in Named(o) : o[m] = o[n] => m = n}

(* A shoot object: a Service (upstream and scheme annotations and cluster  *)
(* IP) or a StatefulSet with its TLS certificate.                          *)
Objects ==
  [upstream : Upstreams \cup {NoUpstream}, scheme : Schemes \cup {"none"},
   ca : 0..MaxCA, ip : IPs \cup {NoIP}]
NoObject == [upstream |-> NoUpstream, scheme |-> "none", ca |-> 0, ip |-> NoIP]
Plain(u, s) == [upstream |-> u, scheme |-> s, ca |-> 0, ip |-> NoIP]

(* The StatefulSet of an upstream has the name computed from it.           *)
Kinds == {"services", "caches"}
NoObjects == [n \in Names |-> NoObject]
SchemesOf(objs) == [u \in Upstreams |-> objs[u].scheme]
IPsOf(objs) == [u \in Upstreams |-> objs[u].ip]
Existing(objs) == {n \in Names : objs[n].scheme # "none"}

(* A ManagedResource; "tracked" are the objects its status lists.          *)
ManagedResources ==
  [present : BOOLEAN, deleting : BOOLEAN, keep : BOOLEAN, observed : BOOLEAN,
   desired : [Names -> Objects], tracked : SUBSET Names]
NoResource ==
  [present |-> FALSE, deleting |-> FALSE, keep |-> FALSE, observed |-> FALSE,
   desired |-> NoObjects, tracked |-> {}]

MonitoringObjects == {"dashboards", "prometheusrule", "scrapeconfig"}

(* The providerStatus; no cache in it means that it was never written.     *)
Statuses ==
  [schemes : Configs, ips : [Upstreams -> IPs \cup {NoIP}], bundle : SUBSET CAIds]
NoStatus ==
  [schemes |-> [u \in Upstreams |-> "none"],
   ips |-> [u \in Upstreams |-> NoIP], bundle |-> {}]

Operations == {"none", "reconcile", "restore", "migrate", "delete", "forceDelete"}
Stages == {"live", "migrating", "migrated", "deleting", "gone", "forceDeleted"}
PCs == {"idle", "deployServices", "awaitHealthy", "fetchServices", "generateCA",
        "generateBundle", "deployCaches", "deployMonitoring", "patchStatus",
        "keepServices", "destroyServices", "awaitServicesGone", "keepCaches",
        "destroyCaches", "destroyMonitoring", "awaitCachesGone", "cleanup"}

(* Of the Services listed for an upstream the last counts: the last of all *)
(* in the status (seen), the last with TLS for its certificate (certs).    *)
Locals ==
  [caches : Configs, owners : Owners, epoch : Epochs, keepOld : BOOLEAN,
   seen : [Upstreams -> Objects], certs : [Upstreams -> Objects],
   signer : 0..MaxCA, bundle : SUBSET CAIds]
NothingSeen == [u \in Upstreams |-> NoObject]
NoLocal ==
  [caches |-> [u \in Upstreams |-> "none"], owners |-> NoOwners, epoch |-> 0,
   keepOld |-> FALSE, seen |-> NothingSeen, certs |-> NothingSeen,
   signer |-> 0, bundle |-> {}]

VARIABLES
  caches,      \* Extension.spec.providerConfig.caches
  owners,      \* the caches' Service names, from upstream and serviceNameSuffix
  awake,       \* the Shoot in the Cluster is not hibernated
  epoch,       \* CA rotations initiated so far
  keepOld,     \* the rotation is not completing: the old CA is still used
  stage,       \* life of the Extension
  request,     \* operation gardenlet asked for and no worker has begun
  op,          \* operation the worker runs
  pc,          \* next step of the worker
  local,       \* variables of the running operation
  mr,          \* the two ManagedResources
  objects,     \* the shoot objects of each ManagedResource
  cas,         \* seed: CA secret of each rotation epoch (0 when absent)
  bundles,     \* seed: CA bundle secrets
  lastCA,      \* CA key pairs generated so far
  monitoring,  \* seed: monitoring objects
  status,      \* Extension.status.providerStatus
  changes, migrations, faults

shootVars  == <<caches, owners, awake, epoch, keepOld, stage>>
workerVars == <<request, op, pc, local>>
shootObjVars == <<mr, objects>>
secretVars == <<cas, bundles, lastCA>>
boundVars  == <<changes, migrations, faults>>
vars == <<shootVars, workerVars, shootObjVars, secretVars, monitoring, status, boundVars>>

Init ==
  /\ caches \in {c \in Configs : Caches(c) # {}} /\ owners \in Namings(caches)
  /\ awake = TRUE /\ epoch = 0 /\ keepOld = TRUE
  /\ stage = "live" /\ request = "reconcile"
  /\ op = "none" /\ pc = "idle" /\ local = NoLocal
  /\ mr = [k \in Kinds |-> NoResource]
  /\ objects = [k \in Kinds |-> NoObjects]
  /\ cas = [e \in Epochs |-> 0] /\ bundles = {} /\ lastCA = 0
  /\ monitoring = {} /\ status = NoStatus
  /\ changes = 0 /\ migrations = 0 /\ faults = 0

-----------------------------------------------------------------------------
(* The worker: how an operation ends.                                      *)

Goto(label) == pc' = label /\ UNCHANGED <<request, op>>

(* The operation returns an error: it is run again unless gardenlet has    *)
(* already asked for another one.                                          *)
Abort ==
  /\ pc' = "idle" /\ op' = "none" /\ local' = NoLocal
  /\ request' = IF request = "none" THEN op ELSE request
  /\ UNCHANGED stage

(* The operation returns nil; after a deletion the Extension is gone.      *)
Complete ==
  /\ pc' = "idle" /\ op' = "none" /\ local' = NoLocal
  /\ stage' = CASE op = "migrate" -> "migrated"
                [] op = "delete" -> "gone"
                [] op = "forceDelete" -> "forceDeleted"
                [] OTHER -> stage
  /\ request' = IF op \in {"delete", "forceDelete"} THEN "none" ELSE request

Fault == faults < MaxFaults /\ faults' = faults + 1

(* Any call of an operation may fail, and the process may die anywhere.    *)
Fail ==
  /\ pc # "idle" /\ Fault /\ Abort
  /\ UNCHANGED <<caches, owners, awake, epoch, keepOld, shootObjVars, secretVars,
                 monitoring, status, changes, migrations>>

-----------------------------------------------------------------------------
(* Beginning of an operation: the Extension and the Cluster are read once. *)

BeginReconcile ==
  /\ pc = "idle" /\ request \in {"reconcile", "restore"}
  /\ IF awake
     THEN /\ pc' = "deployServices" /\ op' = request
          /\ local' = [NoLocal EXCEPT !.caches = caches, !.owners = owners,
                                      !.epoch = epoch, !.keepOld = keepOld]
     ELSE UNCHANGED <<pc, op, local>>      \* hibernated: return nil
  /\ request' = "none"
  /\ UNCHANGED <<shootVars, shootObjVars, secretVars, monitoring, status, boundVars>>

BeginMigrate ==
  /\ pc = "idle" /\ request = "migrate"
  /\ pc' = "keepServices" /\ op' = request /\ request' = "none"
  /\ UNCHANGED <<local, shootVars, shootObjVars, secretVars, monitoring, status, boundVars>>

BeginDelete ==
  /\ pc = "idle" /\ request \in {"delete", "forceDelete"}
  /\ pc' = "destroyServices" /\ op' = request /\ request' = "none"
  /\ UNCHANGED <<local, shootVars, shootObjVars, secretVars, monitoring, status, boundVars>>

-----------------------------------------------------------------------------
(* Reconcile and Restore                                                   *)

(* Creates or updates ManagedResource k: a changed content is a new        *)
(* generation that the ManagedResource controller has not observed yet.    *)
Deployed(r, desired) ==
  [r EXCEPT !.present = TRUE, !.keep = FALSE, !.desired = desired,
            !.observed = r.observed /\ r.present /\ r.desired = desired]

Deploy(k, desired) == mr' = [mr EXCEPT ![k] = Deployed(mr[k], desired)]

DesiredServices ==
  [n \in Names |-> LET u == local.owners[n] IN
                   IF u = NoUpstream THEN NoObject ELSE Plain(u, local.caches[u])]

DeployServices ==
  /\ pc = "deployServices" /\ Goto("awaitHealthy")
  /\ Deploy("services", DesiredServices)
  /\ UNCHANGED <<local, shootVars, objects, secretVars, monitoring, status, boundVars>>

Healthy(k) == mr[k].present /\ ~mr[k].deleting /\ mr[k].observed

(* Mutant: the Services component is deployed but not awaited.             *)
AwaitHealthySkipped ==
  /\ pc = "awaitHealthy" /\ Goto("fetchServices")
  /\ UNCHANGED <<local, shootVars, shootObjVars, secretVars, monitoring, status, boundVars>>

(* WaitUntilHealthy polls for two minutes, then fails.                     *)
AwaitHealthy ==
  /\ pc = "awaitHealthy"
  /\ IF Healthy("services") THEN Goto("fetchServices") /\ UNCHANGED <<local, stage>>
                            ELSE Abort
  /\ UNCHANGED <<caches, owners, awake, epoch, keepOld, shootObjVars, secretVars,
                 monitoring, status, boundVars>>

(* Mutant: some of the Services are enough.                                *)
SomeServicesFound ==
  Cardinality(Existing(objects["services"])) <= Cardinality(Caches(local.caches))

(* Lists the labelled shoot Services; only their number is compared.       *)
AllServicesFound ==
  Cardinality(Existing(objects["services"])) = Cardinality(Caches(local.caches))

(* Services that may be listed last among those of their upstream.         *)
LastListed(schemes) ==
  LET listed(u) == {objects["services"][n] : n \in
                      {n \in Names : /\ objects["services"][n].upstream = u
                                     /\ objects["services"][n].scheme \in schemes}}
  IN  {f \in [Upstreams -> {objects["services"][n] : n \in Names} \cup {NoObject}] :
         \A u \in Upstreams :
           f[u] \in IF listed(u) = {} THEN {NoObject} ELSE listed(u)}

FetchServices ==
  /\ pc = "fetchServices"
  /\ IF AllServicesFound
     THEN /\ \E seen \in LastListed(Schemes), certs \in LastListed({"https"}) :
               /\ \A u \in Upstreams : seen[u].scheme = "https" => certs[u] = seen[u]
               /\ local' = [local EXCEPT !.seen = seen, !.certs = certs]
          /\ Goto("generateCA") /\ UNCHANGED stage
     ELSE Abort
  /\ UNCHANGED <<caches, owners, awake, epoch, keepOld, shootObjVars, secretVars,
                 monitoring, status, boundVars>>

TLSSeen == \E u \in Upstreams : local.certs[u].scheme = "https"

(* Mutant: the CA is taken for granted, not generated.                     *)
GenerateCAMissing ==
  /\ pc = "generateCA" /\ Goto(IF TLSSeen THEN "generateBundle" ELSE "deployCaches")
  /\ UNCHANGED <<local, shootVars, shootObjVars, secretVars, monitoring, status, boundVars>>

(* The secrets manager creates the CA of the current rotation epoch if it  *)
(* does not exist; without a TLS Service no secret is generated at all.    *)
GenerateCA ==
  /\ pc = "generateCA"
  /\ IF TLSSeen
     THEN /\ Goto("generateBundle")
          /\ IF cas[local.epoch] = 0
             THEN /\ lastCA < MaxCA
                  /\ lastCA' = lastCA + 1
                  /\ cas' = [cas EXCEPT ![local.epoch] = lastCA + 1]
             ELSE UNCHANGED <<cas, lastCA>>
     ELSE Goto("deployCaches") /\ UNCHANGED <<cas, lastCA>>
  /\ UNCHANGED <<local, shootVars, shootObjVars, bundles, monitoring, status, boundVars>>

(* The most recent earlier CA, unless the rotation is completing.          *)
OldEpochs(current, keep) == {e \in Epochs : keep /\ e < current /\ cas[e] # 0}
OldCA(current, keep) ==
  {cas[e] : e \in {e \in OldEpochs(current, keep) :
                      \A f \in OldEpochs(current, keep) : f <= e}}

(* Mutant: server certificates are signed by the current CA at once.       *)
SignersCurrent(current, keep) == {cas[current]}

(* Server certificates are signed by the old CA as long as there is one    *)
(* (UseOldCA).                                                             *)
Signers(current, keep) ==
  IF OldCA(current, keep) = {} THEN {cas[current]} ELSE OldCA(current, keep)

(* Mutant: the bundle holds the current CA only.                           *)
GenerateBundleCurrent ==
  /\ pc = "generateBundle" /\ Goto("deployCaches")
  /\ LET bundle == {cas[local.epoch]}
     IN  /\ bundles' = bundles \cup {bundle}
         /\ \E signer \in Signers(local.epoch, local.keepOld) :
              local' = [local EXCEPT !.bundle = bundle, !.signer = signer]
  /\ UNCHANGED <<shootVars, shootObjVars, cas, lastCA, monitoring, status, boundVars>>

GenerateBundle ==
  /\ pc = "generateBundle" /\ Goto("deployCaches")
  /\ LET bundle == {cas[local.epoch]} \cup OldCA(local.epoch, local.keepOld)
     IN  /\ bundles' = bundles \cup {bundle}
         /\ \E signer \in Signers(local.epoch, local.keepOld) :
              local' = [local EXCEPT !.bundle = bundle, !.signer = signer]
  /\ UNCHANGED <<shootVars, shootObjVars, cas, lastCA, monitoring, status, boundVars>>

(* A TLS cache needs the certificate generated for its Service.            *)
CertificateMissing ==
  \E u \in Upstreams : local.caches[u] = "https" /\ local.certs[u].scheme # "https"

DesiredCaches ==
  [n \in Names |->
     IF n \notin Caches(local.caches) THEN NoObject
     ELSE IF local.caches[n] = "http" THEN Plain(n, "http")
     ELSE [Plain(n, "https") EXCEPT !.ca = local.signer, !.ip = local.certs[n].ip]]

DeployCaches ==
  /\ pc = "deployCaches"
  /\ IF CertificateMissing
     THEN Abort /\ UNCHANGED mr
     ELSE /\ Deploy("caches", DesiredCaches)
          /\ Goto("deployMonitoring") /\ UNCHANGED <<local, stage>>
  /\ UNCHANGED <<caches, owners, awake, epoch, keepOld, objects, secretVars,
                 monitoring, status, boundVars>>

(* The monitoring objects are written one after the other, or removed for  *)
(* a testing shoot; a failure leaves what was done so far.                 *)
DeployOrder == <<"dashboards", "prometheusrule", "scrapeconfig">>

DeployMonitoring ==
  /\ pc = "deployMonitoring"
  /\ IF MonitoringEnabled
     THEN \E n \in 0..3 :
            /\ monitoring' = monitoring \cup {DeployOrder[i] : i \in 1..n}
            /\ IF n = 3 THEN Goto("patchStatus") /\ UNCHANGED <<local, stage, faults>>
                        ELSE Abort /\ Fault
     ELSE \E left \in SUBSET monitoring :
            /\ monitoring' = left
            /\ IF left = {} THEN Goto("patchStatus") /\ UNCHANGED <<local, stage, faults>>
                            ELSE Abort /\ Fault
  /\ UNCHANGED <<caches, owners, awake, epoch, keepOld, shootObjVars, secretVars, status,
                 changes, migrations>>

(* Mutant: the status is patched only if the caches have changed.          *)
PatchStatusForCaches ==
  /\ pc = "patchStatus" /\ Goto("cleanup")
  /\ status' = IF status.schemes = SchemesOf(local.seen) THEN status
               ELSE [schemes |-> SchemesOf(local.seen), ips |-> IPsOf(local.seen),
                     bundle |-> local.bundle]
  /\ UNCHANGED <<local, shootVars, shootObjVars, secretVars, monitoring, boundVars>>

PatchStatus ==
  /\ pc = "patchStatus" /\ Goto("cleanup")
  /\ status' = [schemes |-> SchemesOf(local.seen), ips |-> IPsOf(local.seen),
                bundle |-> local.bundle]
  /\ UNCHANGED <<local, shootVars, shootObjVars, secretVars, monitoring, boundVars>>

-----------------------------------------------------------------------------
(* Migrate, Delete and ForceDelete                                         *)

(* Migrate first sets keepObjects on the ManagedResource.                  *)
Keep(k, label, next) ==
  /\ pc = label /\ Goto(next)
  /\ mr' = [mr EXCEPT ![k].keep = mr[k].present]
  /\ UNCHANGED <<local, shootVars, objects, secretVars, monitoring, status, boundVars>>

(* Mutant: keepObjects is not set on the caches.                           *)
KeepCachesForgotten ==
  /\ pc = "keepCaches" /\ Goto("destroyCaches")
  /\ UNCHANGED <<local, shootVars, shootObjVars, secretVars, monitoring, status, boundVars>>

KeepServices == Keep("services", "keepServices", "destroyServices")
KeepCaches   == Keep("caches", "keepCaches", "destroyCaches")

(* Mutant: the ManagedResource of the Services is not deleted.             *)
DestroyServicesForgotten ==
  /\ pc = "destroyServices"
  /\ Goto(IF op = "forceDelete" THEN "destroyCaches" ELSE "awaitServicesGone")
  /\ UNCHANGED <<local, shootVars, shootObjVars, secretVars, monitoring, status, boundVars>>

DestroyServices ==
  /\ pc = "destroyServices"
  /\ mr' = [mr EXCEPT !["services"].deleting = mr["services"].present]
  /\ Goto(IF op = "forceDelete" THEN "destroyCaches" ELSE "awaitServicesGone")
  /\ UNCHANGED <<local, shootVars, objects, secretVars, monitoring, status, boundVars>>

(* WaitUntilDeleted polls for two minutes, then fails.                     *)
AwaitServicesGone ==
  /\ pc = "awaitServicesGone"
  /\ IF mr["services"].present
     THEN Abort
     ELSE /\ Goto(IF op = "migrate" THEN "keepCaches" ELSE "destroyCaches")
          /\ UNCHANGED <<local, stage>>
  /\ UNCHANGED <<caches, owners, awake, epoch, keepOld, shootObjVars, secretVars,
                 monitoring, status, boundVars>>

(* Mutant: the ManagedResource of the caches is not deleted.               *)
DestroyCachesForgotten ==
  /\ pc = "destroyCaches" /\ Goto("destroyMonitoring")
  /\ UNCHANGED <<local, shootVars, shootObjVars, secretVars, monitoring, status, boundVars>>

DestroyCaches ==
  /\ pc = "destroyCaches" /\ Goto("destroyMonitoring")
  /\ mr' = [mr EXCEPT !["caches"].deleting = mr["caches"].present]
  /\ UNCHANGED <<local, shootVars, objects, secretVars, monitoring, status, boundVars>>

DestroyMonitoring ==
  /\ pc = "destroyMonitoring"
  /\ \E left \in SUBSET monitoring :
       /\ monitoring' = left
       /\ IF left # {}
          THEN Abort /\ Fault
          ELSE /\ Goto(IF op = "forceDelete" THEN "cleanup" ELSE "awaitCachesGone")
               /\ UNCHANGED <<local, stage, faults>>
  /\ UNCHANGED <<caches, owners, awake, epoch, keepOld, shootObjVars, secretVars, status,
                 changes, migrations>>

(* Mutant: the deletion of the caches is not awaited.                      *)
AwaitCachesGoneSkipped ==
  /\ pc = "awaitCachesGone"
  /\ IF op = "migrate" THEN Complete ELSE Goto("cleanup") /\ UNCHANGED <<local, stage>>
  /\ UNCHANGED <<caches, owners, awake, epoch, keepOld, shootObjVars, secretVars,
                 monitoring, status, boundVars>>

(* Mutant: Migrate cleans the secrets up as Delete does.                   *)
AwaitCachesGoneCleansUp ==
  /\ pc = "awaitCachesGone"
  /\ IF mr["caches"].present THEN Abort ELSE Goto("cleanup") /\ UNCHANGED <<local, stage>>
  /\ UNCHANGED <<caches, owners, awake, epoch, keepOld, shootObjVars, secretVars,
                 monitoring, status, boundVars>>

AwaitCachesGone ==
  /\ pc = "awaitCachesGone"
  /\ IF mr["caches"].present THEN Abort
     ELSE IF op = "migrate" THEN Complete
     ELSE Goto("cleanup") /\ UNCHANGED <<local, stage>>
  /\ UNCHANGED <<caches, owners, awake, epoch, keepOld, shootObjVars, secretVars,
                 monitoring, status, boundVars>>

-----------------------------------------------------------------------------
(* Cleanup deletes every managed secret this operation has not generated;  *)
(* the deletions are independent calls and some of them may fail.          *)
Garbage ==
  [cas |-> {e \in Epochs : cas[e] # 0 /\ cas[e] \notin local.bundle},
   bundles |-> bundles \ {local.bundle}]

Cleanup ==
  /\ pc = "cleanup"
  /\ \E es \in SUBSET Garbage.cas, bs \in SUBSET Garbage.bundles :
       /\ cas' = [e \in Epochs |-> IF e \in es THEN 0 ELSE cas[e]]
       /\ bundles' = bundles \ bs
       /\ IF es = Garbage.cas /\ bs = Garbage.bundles
          THEN Complete /\ UNCHANGED faults
          ELSE Abort /\ Fault
  /\ UNCHANGED <<caches, owners, awake, epoch, keepOld, shootObjVars, lastCA, monitoring,
                 status, changes, migrations>>

=============================================================================
