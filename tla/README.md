# Verification of gardener-extension-registry-cache

TLA+ models of the registry-cache extension, checked with TLC on small instances
and, for the properties that matter most, proved with TLAPS for every value of the
constants. Paths below are relative to the repository.

## 1. The system

The extension runs pull-through registry caches inside a Gardener shoot cluster.
Its code runs in the seed, next to the control plane of the shoot.

| Component | State | Operations | Hard behaviour | What makes it correct |
|---|---|---|---|---|
| Extension actuator, `pkg/controller/cache/actuator.go` | `Extension.status.providerStatus`; locals of one operation | Reconcile, Restore, Migrate, Delete, ForceDelete | about a dozen calls per operation, each of which may fail; retried from the beginning; early return for hibernated shoots | success means that what is published is what is configured and deployed; a deletion leaves nothing |
| Shoot Services, `pkg/component/registrycacheservices` | one ManagedResource in the seed | Deploy, Wait, Destroy, WaitCleanup | applied asynchronously; two-minute waits | addresses that are published are those of the live Services |
| Caches, `pkg/component/registrycaches` | one ManagedResource, monitoring objects in the seed | Deploy, Destroy, WaitCleanup | certificates are made for addresses read earlier | certificates match scheme, address and a published CA |
| Secrets, `pkg/secrets` and gardener's secrets manager | CA of each rotation epoch, CA bundle, server certificates | Generate, Get, Cleanup | three-phase CA rotation; cleanup deletes what the run did not generate | trust is never lost: a deployed certificate is signed by a published CA, and the published CA bundle exists |
| OperatingSystemConfig webhooks, `pkg/webhook/cache`, `pkg/webhook/mirror` | the OperatingSystemConfig of each worker pool | EnsureAdditionalFiles, EnsureCRIConfig | reads status and secret at different times; both write containerd registries | each upstream has one entry; a CA file a host configuration names exists |
| Admission, `pkg/admission/validator`, `pkg/apis/*/validation` | none; compares old and new Shoot | Validate (two validators), immutability rules | properties of sequences of updates, each compared with the previous one only | no admitted sequence leads to shared names, to a cached and mirrored upstream or to an undeployable configuration |
| Names, `pkg/utils/registry` | none | ComputeUpstreamLabelValue, ComputeKubernetesResourceName | length limits and hashes | names within limits; which upstreams may share a name is known |
| registry-mirror actuator, `pkg/controller/mirror` | none | all empty | none | nothing to model |
| External | shoot objects; ManagedResource status; Shoot | the ManagedResource controller, gardenlet, the shoot's API server, users | all of them run concurrently with the actuator | |

How they interact:

    users --> Shoot --(admission)--> gardenlet --> Extension, Cluster
                                                       |
                                       actuator: Reconcile / Migrate / Delete
                                        |             |              |
                              ManagedResources   CA secrets    providerStatus
                                        |             \______________/
                            ManagedResource controller        |
                                        |            OperatingSystemConfig webhook
                              Services, StatefulSets          |
                                    in the shoot  <--- containerd on the nodes

The actuator writes ManagedResources and waits for the first of them; their
controller applies the shoot objects one by one. The actuator reads back the Services
(their cluster IPs), generates certificates for them, deploys the caches and
publishes caches, addresses and the name of the CA bundle secret in the
providerStatus, which the webhook reads when gardenlet reconciles the
OperatingSystemConfig.

What is hard to test in it is listed, at its line, under `hazards` in
`PROJECT.json`, with the properties that cover each.

## 2. Modules

| Module | What it is |
|---|---|
| `RegistryCacheActuator` | the actuator with the components it deploys and the secrets: constants, variables, and one action for every call of an operation that reads or writes state |
| `RegistryCacheSystem` | EXTENDS it with the ManagedResource controller, gardenlet and the users; `Next`, `Spec`, `FairSpec` and the properties |
| `PublishedStatus` | the abstract specification: what the extension promises to a reader of its status |
| `RegistryCacheInvariants` | the inductive invariants `SecretsInv`, `DestroyInv`, `ReconcileInv` and `ServicesInv` as named conjuncts, and the refinement mapping to `PublishedStatus` |
| `MCRegistryCacheSystem` | instance for TLC |
| `RegistryCacheTypes_proof`, `RegistryCacheSecrets_proof`, `RegistryCacheServices_proof` | proofs about `RegistryCacheSystem` |
| `RegistryNames` | names computed from upstreams and the validation of upstreams and suffixes, on sequences of characters |
| `RegistryConfig` | EXTENDS it with the fields of a `RegistryCache`: decoding and defaulting, helpers, the validation of a cache, of an update and of a credentials Secret |
| `RegistryCacheObjects` | EXTENDS it with what a configuration becomes in the shoot: Secrets, StatefulSets, Pods and volumes |
| `MCRegistryCacheObjects` | its instance, with the limits of the code |
| `RegistryNames_proof`, `RegistryCacheObjects_proof` | their proofs |
| `ShootAdmission` | both admission validators: relations between the caches, the mirrors and the references of a Shoot |
| `ContainerdRegistries` | EXTENDS it with both OperatingSystemConfig webhooks, gardenlet's flow and hibernation: who writes the registry of an upstream |
| `MCShootAdmission`, `ShootAdmission_proof` | the instance and the proofs of both |
| `NodeRegistries` | EXTENDS `RegistryCacheInvariants`: the OperatingSystemConfig webhook of registry-cache, its writers, and all of `RegistryCacheSystem` |
| `MCNodeRegistries`, `NodeRegistries_proof` | its instance; the proofs that it implements `RegistryCacheSystem` and that the nodes trust and reach the caches |
| `RegistryMirror` | registry-mirror: validation of the mirrors and the OperatingSystemConfig webhook |
| `MCRegistryMirror`, `RegistryMirror_proof` | its instance: upstreams, host URLs and their file names; its proofs |

### RegistryCacheActuator and RegistryCacheSystem

One worker (`op`, `pc`, `local`) runs at most one operation on the Extension:
controller-runtime never reconciles one object twice at a time. `request` is the
operation annotation, `stage` the life of the Extension.

| Code | Actions |
|---|---|
| `Reconcile`, `Restore` (actuator.go:58-130, 159) | `BeginReconcile` (with the hibernation return), `DeployServices`, `AwaitHealthy`, `FetchServices` (`fetchRegistryCacheServices`, 213), `GenerateCA` and `GenerateBundle` (the secrets manager, in `registryCaches.Deploy`), `DeployCaches`, `DeployMonitoring`, `PatchStatus`, `Cleanup` |
| `Migrate` (164) | `BeginMigrate`, `KeepServices`, `DestroyServices`, `AwaitServicesGone`, `KeepCaches`, `DestroyCaches`, `DestroyMonitoring`, `AwaitCachesGone` |
| `Delete`, `ForceDelete` (133, 188) | `BeginDelete` and the destroy steps; `ForceDelete` skips both waits; then `Cleanup` |
| an error of any call, the death of the process | `Fail`; partial failures of loops are part of `DeployMonitoring`, `DestroyMonitoring` and `Cleanup` |
| `Wait`, `WaitCleanup` timeouts | the `Abort` branch of `AwaitHealthy`, `AwaitServicesGone`, `AwaitCachesGone`: the poll may be evaluated, for the last time, at any moment |

The ManagedResource controller applies, adopts and removes one object per step
(`ApplyObject`, `AdoptObject`, `RemoveObject`), reports a generation only when all
of it is applied (`Observe`), and drops the ManagedResource (`FinishDeletion`).
Users change the caches and the names of their Services, hibernate and wake the Shoot, delete Services, disable the
extension and enable it again; gardenlet reconciles, rotates, migrates and
restores.

Abstractions, and why the properties do not see them:

- A cache is its upstream, `http` or `https`, and the name of its Service (`owners`), which is computed
  from the upstream or taken from `serviceNameSuffix`. An update may change the suffix, so a Service is
  keyed by its name and carries its upstream in an annotation, as in the code: the list of Services may
  hold two of one upstream, of which the last counts (`LastListed`; for the certificate the last with TLS).
  StatefulSets have the name computed from the upstream. Everything else in a
  `RegistryCache` goes into the Secrets and the StatefulSet, which `RegistryCacheObjects` looks at.
- A certificate is the CA that signed it and the address in its SANs, a CA bundle the
  set of CAs in it; secret names carry a content hash, so a bundle is
  identified by its content.
- The Extension and the Cluster are read together when an operation begins. In the
  code they come from caches of the same manager; lags between them are not modelled.
- Writes that are one API call are one step, as are writes that are retried until
  they have succeeded or the operation has failed.
- The ManagedResource controller and users are not held back by hibernation, where
  they might be: the model has more behaviours than the system.

External assumptions: the secrets manager keeps one CA per rotation epoch, signs
server certificates with the old CA as long as it is kept (`UseOldCA`), and the CA
secrets (persisted in the ShootState) survive a migration while the bundle and the
providerStatus do not. Gardener starts and completes a rotation only on an awake
shoot whose last operation has succeeded, and rejects spec changes while a Shoot is
migrated or restored. A ManagedResource with `keepObjects` leaves its objects; one
created in another seed tracks only what it wants itself.

### PublishedStatus

The abstract specification knows a configuration that is wanted, one that is being worked on, the
one that is published, the bundle of the status, the CA bundle Secrets and the signers of the
certificates in use. Configurations are taken and published as a whole; certificates change only
within what the published bundle trusts, and the bundle only to one that trusts the certificates in
use; the Secret of the published bundle is not collected before the Extension leaves its seed, because it is
deleted or because the control plane migrates; in the next seed everything begins anew.
`ImplementsPublishedStatus` is `AbstractSpec` under the mapping at the end of
`RegistryCacheInvariants`:

| Step of `RegistryCacheSystem` | Step of `PublishedStatus` |
|---|---|
| `BeginReconcile` | `Take` |
| `Fail`, the `Abort` branches, the end of an operation | `Drop` |
| `GenerateBundle` | `Store` |
| `DeployCaches` | `Deploy` |
| `PatchStatus` | `Publish` |
| `Cleanup` | `Collect` |
| `FinishDeletion` of the caches' ManagedResource | `Remove` |
| `RequestDelete`, `RequestMigrate` | `End` |
| `Enable`, `RequestRestore` | `Restart` |
| `ChangeCaches` | `Want`, or a stutter if only the name of a Service changes |
| everything else | a stutter |

### RegistryNames and RegistryConfig

Names are computed on sequences of characters, with the limits of the code (43, 37 and a hash of 5,
`registry-` in front, a Service name of 63): `ComputeUpstreamLabelValue`,
`ComputeKubernetesResourceName` and `ComputeServiceName` follow `pkg/utils/registry/registry.go`,
`ValidateHostPort` and `ValidateServiceNameSuffix` follow `validation.go`. `MayShareName` is the
reference definition: it says, without computing a name, which two upstreams may end up with one.
It has three cases: both fit the limit and are alike up to their separators; both are cut, alike in the 37
characters that are kept, and their hashes are equal; or one is cut, and the other, of exactly 43 characters and
so not cut, spells out its first 37 characters, a separator and its hash.
What Kubernetes accepts (`IsDNS1123Label`, `IsLabelValue`, `PodsCanBeCreated`) and what a port may be
(`PortCanBeDialed`, by its value, where the validation looks at its digits) is external. The hash is
any function to five hexadecimal digits.

A cache as an owner writes it has optional objects with optional fields. `Decoded` is what the extension
works with: `Unmarshalled` gives the fields that are no pointers their zero value
(`v1alpha3/types.go`), `SetDefaults` follows `v1alpha3/defaults.go`. `TLSEnabled`,
`GarbageCollectionTTL`, `VolumeSize` and `VolumeStorageClassName` are the functions of
`pkg/apis/registry/helper`.

### RegistryCacheObjects

`UpdateShoot` is an update that the admission lets through (with its two early returns),
`EditSecret` an edit of a Secret in the garden that is not immutable, `ReplaceSecret` its deletion and
re-creation, which immutability does not prevent, `RenewCertificates` a renewal of
the server certificates. `Reconcile` computes `Desired` as `registryCacheObjects` and
`computeResourcesData` do, in one step, or fails if the configuration is not `Deployable`:
`RegistryCacheSystem` has the interleavings of that operation. Secrets carry a hash of their data in
their name (`MakeUnique`); `InjectAnnotations` names the mounted Secrets in the annotations of the StatefulSet
and of its Pods, which is all that the garbage collector looks at.

`ApplySecrets`, `ApplyStatefulSet`, `RemoveStatefulSet`, `StartPod` and `CollectSecret` are external, in
any order and at any time: an update of a volume claim template is refused, a Pod starts when the
Secrets it mounts exist and reads them once, a claim is created once and goes with its StatefulSet
(`PersistentVolumeClaimRetentionPolicy`). A volume remembers whether it was used with garbage collection
disabled. A name is told by the set of registries that have it, so that `cache_objects` runs with the
names of the code and without their characters.

`Prompt` says that the owner waits until a configuration is served before changing it again; without
it finding 2 arises. `unseen` is set once what the reference leads to has changed without a validation: by an
exchange through `spec.resources` with an unchanged providerConfig, which returns before the Secrets are validated, or by
a replacement of the Secret that the reference leads to. Nothing validates again until the providerConfig changes, so
`CredentialsUsed` says nothing of these times. Upstreams with colliding names (`a.b:5000` and `a.b-5000`) are both admitted but cannot be deployed
together, and used one after the other they reuse each other's StatefulSet and volume; the two properties of volumes
except them (`NamesCollide`), and `NamesTellApart` says which upstreams these are: those of the three cases of
`MayShareName`, and no others. It does not say that admission keeps them out, which it does not.

### ShootAdmission

`UpdateShoot` is an update of a Shoot that both `Validate` functions let through, with any
new configurations and references: `CacheAdmitted` follows
`pkg/admission/validator/cache/shoot.go` with its two early returns (extension not
enabled; configuration unchanged), `ValidConfig` follows the two loops of
`ValidateRegistryConfig` over the list of caches (what they have collected when they are at the i-th cache:
`UpstreamsBefore`, `SuffixesBefore`, and `AllocatedNames`, which the first loop has completed before the second
one compares), `ValidCredentials` the checks of the references, `MirrorAdmitted` the
mirror validator. Fields are taken as well-formed on their own (`RegistryConfig` has them);
credentials are valid, invalid or absent. `AdmittedIsDeployable` excludes what the code lets through and reports later:
equal computed names, and references or Secrets changed without or after the configuration (`touched`).

### ContainerdRegistries

EXTENDS `ShootAdmission` with both OperatingSystemConfig webhooks at work on one OperatingSystemConfig: gardenlet's flow
(`BeginFlow` reads the Shoot, `ReconcileCaches` and `SyncMirrors` follow it in any order, `DeployOSC` writes anew),
other writers (`TouchOSC`), and `CacheWebhook` and `MirrorWebhook`, which replace the registries of the same
upstreams in an order that nothing fixes. A registry is the extension that wrote it. The actuator leaves a
hibernated Shoot and its providerStatus as they are (actuator.go:65) and so does the webhook of registry-cache (ensurer.go:154),
while that of registry-mirror goes on: an upstream that becomes a mirror during hibernation is in an old
providerStatus and in the new providerConfig. `RegistriesOfOwners` says that a finished flow leaves each registry to
the extension that is configured for it; it needs the admission (disjoint upstreams), the check for hibernation
and the order of the flow. The owner changes the Shoot between two flows, since gardenlet sees a change only when it begins anew.

### NodeRegistries

`osc` is what a node gets: the scheme and address of the registry of each upstream and the
CA file. `hook` is the admission request that is being served, `flow` tells how far gardenlet is
with the last operation it asked for.

| Code | Definitions |
|---|---|
| `EnsureAdditionalFiles` (ensurer.go:97) | two steps: `EnsureAdditionalFiles` reads the status (107; `StatusMissing` is its error), `GetCABundle` looks the Secret up that it names (123), which may be gone by then |
| `EnsureCRIConfig` (49) | `EnsureCRIConfig` with `StatusMissing` and `WithCaches` (replaces the registry of an upstream or adds it, never removes one) |
| `shouldMutate` (146) | `ShouldMutate`, evaluated once per request: the generic mutator caches the Cluster |
| an error of an ensurer | `Deny`: the write is rejected, gardenlet tries again |

The two ensurers run in either order, so that the status may change between them; the
model has more behaviours than the generic mutator, which fixes the order. `DeployOSC` is gardenlet, which
computes the whole specification anew and does so after the Extension is ready;
`TouchOSC` is any other patch of the resource, at any time, with what earlier requests have added still
in it. One request is served at a time: writes that overlap fail on
optimistic locking and are retried from the beginning. An operation that gardenlet begins waits for
the end of its flow before; operations of the owner do not, unless `Prompt`.

Between the two reads of `EnsureAdditionalFiles` the actuator may patch the status and clean up the Secret that
it named before: a request of another controller is denied then. gardenlet's own write never is
(`FlowFindsBundle`), because the actuator rests while a flow deploys.

The certificates in `NodesTrustCaches` and `DoneServesConfig` are those of the ManagedResource
of the caches, which the actuator does not wait for; `NodesConverge` is about the
ones that run. `NodesTrustCaches` holds under `Prompt`: if the owner turns
TLS off and on again for the last cache before the nodes have seen either change, the cleanup in
between deletes the CA and the nodes trust the old one until the OperatingSystemConfig is written at
the end of the flow.

### RegistryMirror

A configuration is a sequence of mirrors, each with a sequence of hosts that may refer to a
Secret. `UpdateShoot` is an update that `Validate` lets through (`ValidMirrorConfig` follows
`ValidateMirrorConfig`, `ValidCABundles` the checks of the Secrets). The webhook is as above, with the
providerConfig of the Extension in place of the status. The Cluster is read once per request (`hook.resources` are the
references of its Shoot), the Extension by each ensurer and the Secrets after it, so that the Cluster may lack a reference and the seed its Secret
(`Unreadable`: ensurer.go:128, 134 and 139); the Secrets of all hosts are read in one step. `CABundlePath` and
`SanitizedHost` compute file names from sanitized parts that the instance gives,
`Long` and `Hash` stand for the length limit and the hash, and `CutName` gives the name of a long one, which may be
that of a short one as well. Lengths in bytes are not modelled. The files and the containerd entries that the two
ensurers write are given as a whole: of all hosts with one path the bundle of the last is written (`RefAt`), an
entry is replaced or added, and nothing that another writer has put there is touched (`WithFiles`, `WithMirrors`).
gardenlet's flow
(`BeginFlow`, `SyncSecrets`, `SyncExtension`, `DeployOSC`) writes Cluster, copies Secrets and writes configuration one after the
other, deletes copies that the Shoot no longer refers to, and begins anew after a denied write. Secrets are immutable but can be deleted and created again (`ReplaceSecret`). In a
deletion the Extension goes before or after the OperatingSystemConfig, whose finalizer is
removed by an update that passes through the webhook. Capabilities and `overridePath` are
copied and left out.

## 3. Runs

All runs take from a second to about two and a half minutes with two workers; the passing ones have from a hundred thousand to
1.2 million distinct states. Bounds are constants of the modules.

| Run | Instance | What it shows |
|---|---|---|
| `rotation` | 2 upstreams, 2 names of Services, 2 addresses, monitoring, 2 rotations, 1 change, 1 fault | `StatusCAExists`, `StatusTrustsCertificates`, `NextSignerPublished`, `ReadyServesConfig`, the whole of `SecretsInv`, and `ImplementsPublishedStatus`. Two rotations are needed for an old CA to be older than the previous epoch; one fault is enough to stop any operation anywhere, after which it is run in full with a stale status |
| `lifecycle` | 1 upstream, 2 names of Services, 2 addresses, monitoring, 3 changes, 1 fault | `TypeOK`, `DeletedLeavesNothing` and the whole of `ServicesInv`, with `ReadyServesConfig` in it: with 3 changes a Service is renamed and its scheme changed with operations still under way, the extension is disabled and enabled again, or disabled by force. What takes two caches is left to `rotation` |
| `convergence` | 1 upstream, 1 name, 2 addresses, 2 changes, 1 migration, 1 fault, `FairSpec` | `StatusConverges`, `DeletionCompletes`, `MigrationCompletes`, `MigrationKeepsObjects`, and across seeds `StatusCAExists`, `ImplementsPublishedStatus` and the whole of `DestroyInv` |
| `orphaned_service` | 2 upstreams, 2 names of Services, 1 migration, 1 change, no faults | finding 1 |
| `admission_names` | 2 upstreams, 2 names, suffixes, 1 reference, up to 2 caches, `RegistriesSpec` | `SuffixedServiceUnshared`, `RegistriesOfOwners`, `AdmittedIsDeployable`: all relations between caches are between two of them, and one upstream is enough for two webhooks to meet |
| `cache_objects` | 8 upstreams in sets of one or two (equal up to separators, at and over the 43 characters, cut with equal beginnings, invalid), 4 caches to choose from, suffixes of 54 and 55 characters, 2 Secrets with 3 contents; 4 changes less one per registry in use; `Prompt` | `TypeOK`, `NamesAccepted`, `NamesTellApart`, `VolumesMatch`, `ExpiryNotReenabled`, `MountsKept`, `CredentialsUsed`, `PodsServeConfig`. With one registry there are 3 changes: add, remove and add again, or edit, exchange, replace and renew. The port 65536 is among the upstreams. Two registries are needed for names only |
| `config_readd` | 1 upstream, no `Prompt` | finding 2 |
| `config_defaults` | caches with empty objects | finding 3 |
| `node_trust` | 1 upstream, 1 name, 2 rotations, 2 changes, 1 fault, `Prompt` | `NodesTrustCaches` and its inductive invariant `NodesInv`: the two halves of a rotation, and a second one after it; `DoneServesConfig`; `FlowFindsBundle` |
| `node_convergence` | 1 upstream, 2 names of Services, 1 change, 1 fault, no `Prompt`, `NodeFairSpec` | `DoneServesConfig` with changes of scheme and of the name of the Service, hibernation and disabling in the middle of a request, its inductive invariant `ServingInv`; `FlowCompletes`, `NodesConverge` |
| `mirror_flow` | 1 upstream, 2 Secrets, up to 2 hosts, 2 changes, names over the limit, `FairSpec` | `DoneServesMirrors`, `HostsHaveOwnBundle`, their inductive invariant `MirrorInv`, `FlowCompletes`, `DeletionCompletes`. One upstream: mirrors meet only if their upstreams have equal sanitized names (`a.b:5000` and `a.b-5000`), which is finding 4 for upstreams |
| `mirror_file_names` | 1 upstream, 2 Secrets, 2 hosts, 1 change, a port and a path with equal sanitized names | finding 4 |

One upstream is enough for the nodes: registries of two upstreams are written by independent steps, and
what joins them (one CA file, one status) is covered by the runs of the actuator with two.

Upstreams and addresses are symmetric in the two safety runs of the actuator (in `rotation` the names of Services are
the upstreams and permuted with them; `lifecycle` has one upstream). In the runs with one upstream there are two addresses, so that a Service that is
recreated can come back with another one; in `rotation` two caches and a renamed Service compete for two. `MaxCA` bounds key pairs; `lastCA` only grows, and a model without the
bound would not be finite. Deadlock is checked everywhere; `Disabled` is the stutter of an Extension that is gone.

`DeletedLeavesNothing` is checked without migrations: objects that a migration kept
and that no ManagedResource tracks yet are not removed if the Shoot is deleted
before the restore has run; when that may happen is decided outside of the repository.
`convergence` has one upstream and one name, with which finding 1 does not arise.

### Fairness

`FairSpec` assumes that the worker takes its next step (controller-runtime requeues
every failed reconciliation and never drops a request), that the ManagedResource
controller gets to each object, and that gardenlet restores what it has migrated
and reconciles a Shoot from time to time (the maintenance and sync periods). All are
weak fairness: each of these steps stays possible until taken. Users are not fair. Faults are
bounded and not fair, which is "when faults stop". A wait whose poll fails is retried
as a new operation; weak fairness of the ManagedResource controller makes one of the
retries succeed.

`NodeFairSpec` adds that requests are answered (`WebhookStep`), that gardenlet repeats a write that
was denied (`DeployOSC`: its flow fails and is retried), and lets it reconcile anew after each flow.
The fairness of `RegistryMirror` is the same for its flow, requests and deletions; `TouchOSC`, changes and
Secrets are not fair.

In `RegistryCacheObjects`, `Reconcile` and the controllers that apply, remove and start objects are weakly
fair, for the reasons given above and because the controllers of Kubernetes repeat what has failed. Changes
are bounded and not fair, nor is the garbage collector. `Spec` includes this fairness; the safety theorems
do not use it.

### Findings

1. **A Service too many blocks the reconciliation** (`orphaned_service`). `fetchRegistryCacheServices`
   compares the *number* of labelled Services with the number of caches. A cache is removed
   from a Shoot and, before that is reconciled (the Shoot is hibernated, or is migrated at
   once), the control plane migrates. `Migrate` keeps the Services; the restored
   ManagedResource does not want and does not track the one of the removed cache, so
   nothing deletes it. From then on the count is one too many and every
   reconciliation fails with "not all services for all configured caches exist",
   although they do. The same happens without a removed cache if its `serviceNameSuffix` was changed instead
   (`ValidateRegistryConfigUpdate` allows it): the old Service is one too many. `docs/development/extension-registry-cache.md` describes the
   check as waiting for Services that are still missing.
2. **Garbage collection can be enabled again** (`config_readd`). The immutability rule compares
   with the previous configuration only. A cache that is removed and added again before a
   reconciliation has removed its StatefulSet keeps its volume, and garbage collection is
   enabled on blobs that were stored without it; the documentation says that this
   cannot be done without losing the cached data.
3. **An empty object does not get its default** (`config_defaults`). `garbageCollection` and `http` are
   defaulted if they are absent; `ttl` and `tls` in them are not pointers and are not defaulted. So
   `garbageCollection: {}` is a ttl of 0, which disables garbage collection for good, and `http: {}`
   turns TLS off, where `types.go` and the documentation promise 168h and true.
4. **Two mirror hosts share a CA file** (`mirror_file_names`). The file name of a host's CA bundle leaves
   out the scheme and maps `:` and `/` to `-`. `http://m:5000`, `https://m:5000` and `https://m/5000` of one
   upstream are three hosts for the validation and one file on the node; the last bundle
   wins, and containerd verifies the other host with it. `pkg/apis/mirror/types.go` documents
   the bundle as belonging to its host, and a comment in `sanitizeHost` expects hosts that
   differ in their scheme to get distinct names, which only the branch for long
   names achieves. A host with `http` has no TLS certificate to verify, so that the case that
   matters is a path against a port; it is unusual but admitted.

Observations that no document contradicts, met while modelling:

- `a.b:5000` and `a.b-5000` are both admitted, their computed names are equal, and a Shoot with both
  cannot be reconciled: the validation compares the computed names with suffixes only.
- A reference that is changed alone, with an unchanged providerConfig, is not validated.
- `config.yml.tpl` renders credentials only if neither half is empty, and the username without quotes: a
  username that YAML reads as something else than a string is changed on the way.

## 4. Proofs

| Theorem | Statement |
|---|---|
| `TypeCorrect` | `Spec => []TypeOK` |
| `StatusCASafe` | `Spec => []StatusCAExists` |
| `TrustSafe` | `Spec => []StatusTrustsCertificates` |
| `NextSignerSafe` | `Spec => []NextSignerPublished` |
| `SecretsCorrect` | `Spec => []SecretsInv` |
| `DestroyCorrect`, `DeletionCleansSeed`, `MigrationSafe` | `Spec => []DestroyInv`, `[]SeedCleaned` (its part about deletions), `MigrationKeepsObjects` |
| `ReconcileCorrect`, `ReadyUnlessOrphaned`, `FetchFailsJustly` | `Spec /\ []NoOrphans => []ReconcileInv`, `[]ReadyServesConfig`, `FetchFailsOnlyIfServiceMissing` |
| `PublishedUnlessOrphaned` | `Spec /\ []NoOrphans => ImplementsPublishedStatus` |
| `NeverOrphaned` | without migrations: `Spec => []NoOrphans` |
| `ServicesCorrect`, `ReadySafe`, `DeletionSafe`, `PublishedStatusImplemented` | so without migrations: `Spec => []ServicesInv`, `[]ReadyServesConfig`, `[]DeletedLeavesNothing`, `ImplementsPublishedStatus` |
| `NodesImplementSystem` | `NodeSpec => Spec`: nodes and webhook add nothing to what the actuator, its controller and the users can do |
| `FlowBundleSafe` | `NodeSpec => []FlowFindsBundle` |
| `NodesCorrect`, `NodesTrustSafe` | under `Prompt`: `NodeSpec => []NodesInv`, `[]NodesTrustCaches` |
| `ServingCorrect`, `DoneUnlessOrphaned`, `DoneSafe` | `NodeSpec => []ServingInv`; `NodeSpec /\ []NoOrphans => []DoneServesConfig`, without migrations `NodeSpec => []DoneServesConfig` |
| `MirrorCorrect`, `MirrorsServed` | `RegistryMirror`: `Spec => []MirrorInv`, `[]DoneServesMirrors` |
| `OwnBundles` | `Spec => [](NoPathShared => HostsHaveOwnBundle)` |
| `SuffixSafe`, `AdmittedDeploys` | `ShootAdmission`: `Spec => []SuffixedServiceUnshared`, `[]AdmittedIsDeployable` |
| `RegistriesServed` | `ContainerdRegistries`: `RegistriesSpec => []RegistriesOfOwners` |
| `NamesFit` | what the validation admits, of any length, computes to names within the limits of Kubernetes, and its port exists |
| `NamesShared` | upstreams with equal names satisfy `MayShareName` |
| `TypesCorrect`, `NamesSafe`, `NamesToldApart`, `MountsSafe`, `CredentialsSafe` | the invariants `TypeOK`, `NamesAccepted`, `NamesTellApart`, `MountsKept`, `CredentialsUsed` of `RegistryCacheObjects` |
| `VolumesSafe`, `ExpirySafe` | under `Prompt`: `VolumesMatch`, `ExpiryNotReenabled` |

They hold for any number of upstreams, addresses, rotations, migrations (where not excepted), changes,
Secrets and faults, from the assumptions named in the modules (the set of upstreams is finite, `NoIP`
is no address, bounds are natural numbers, `Nil` is no value of a field, the hash has five digits, a
string belongs to one registry).

**Why trust survives a rotation.** Neither `StatusCAExists` nor
`StatusTrustsCertificates` is inductive: `Cleanup` keeps exactly what the running operation
has generated, so one has to know that this is what the status names
(`CleanupPublished`), that the local bundle still is what the secrets manager would
generate now (`BundleGenerated`), which holds because a rotation moves on only between
two operations (`SnapshotCurrent`, and `OperationFitsStage` behind it), and that the
CA that the *next* certificates will be signed with has been published already
(`NextSignerPublished`). For the last one, `StartRotation` keeps the old CA as the signer,
which is published; `CompleteRotation` makes the new one the signer, which is
published because the reconciliation of the Preparing phase has succeeded
(`CurrentCAPublished`). The old CA exists whenever one is kept because a nonempty
set of epochs has a latest element (`LatestExists`, the only induction, over the
epochs, by `WFMin`). `SecretsInv` is the conjunction; the proof has one lemma per group
of actions and uses `TypeOK` from `TypeCorrect`.

**Why a migration keeps what is in use, and a deletion cleans the seed.** `DestroyInv` says what an operation that takes
things away has marked so far, and that no mark survives into a reconciliation: a ManagedResource that is deleted
belongs to an operation that has not ended (`MarkedInOrder`), because the operation waits for it or, after a fault,
its repetition does. `Migrate` sets `keepObjects` before it deletes (`MigrateProgress`), and a ManagedResource that is
marked while the Extension is migrating has it, which is all that `MigrationKeepsObjects` needs. A deletion has waited for
both ManagedResources before it collects the secrets (`DeleteProgress`), and the monitoring objects
are gone before (`SeedCleaned`). None of this depends on the objects in the shoot, so it holds with any
number of migrations.

**Why success means served.** `ReconcileInv` says what each step of a reconciliation may rely on when it is
reached: which ManagedResources it has written, that they want the caches it has read, that the Services it has
read are all there. `fetchRegistryCacheServices` compares numbers only. The wait before it has seen every wanted object in place and
every other tracked one removed, so that a Service that exists and is not wanted is one that nothing
tracks; if such Services can only be of configured caches, those that exist are among those that are wanted, and equal
numbers mean equal sets (`AllServicesSeen`, by cardinality). That premise is `NoOrphans`, about the *names* of Services, and it is needed: a Service that a
migration has left behind under a name that is no longer configured can stand in for one that a user has just deleted. TLC finds
that with a second upstream, one migration and one fault, and the same Service one too many is finding 1. `NoOrphans` fails only
when a cache is removed, or its suffix changed, while no ManagedResource tracks its Service: before a migration, without having been reconciled, or after
it, before the new seed has adopted the Service (a Shoot that is restored asleep). `FetchFailsJustly` is the converse: where no Service is orphaned the reconciliation gives up only if one
is missing, so that Services under names no longer configured are the only cause of finding 1. `NeverOrphaned` discharges the
hypothesis without migrations.

**Why a deletion leaves nothing in the shoot.** A ManagedResource ends only when it tracks nothing any more, and without
migrations every object is tracked by the one of its kind (`EverythingTracked`). With them that is false: objects that were
kept are tracked only when they are adopted.

**Why the actuator implements `PublishedStatus`.** The initial states map, and every action maps to the step in the
table of section 2; `Deploy` and `Publish` need `SecretsInv` for their conditions on trust and `ReconcileInv` for
publishing all of what was taken, hence `NoOrphans`; `Collect` needs `StatusCAExists`, and `Remove` that a
ManagedResource is deleted only when the Extension leaves its seed (`MarkedInOrder`). A migration is an end and a restore
a new beginning, in which the status is empty and the Secrets of the old seed are gone.

**Why names are good.** A label is the escaped upstream or 37 characters, a dash and the hash, so at most 43
characters that keep the first and last characters alphanumeric; with `registry-` in front it has 52, which leaves 11 for
the Pods of a StatefulSet. Equal names have equal flattened characters, position by position, as far as they are
kept: that leads to the cases of `MayShareName`. A port that the digits of `portRegexp` admit has a value from 1 to
65535 (`ValidPortIsPort`). The proofs speak about the length and
the characters of sequences only and hold for any length.

**Why the caches get their Secrets, credentials and volumes.** The annotations equal the mounts in the
ManagedResource, the StatefulSets and the Pods (`AnnotationsMatch`), so that what a Pod mounts is never collected.
Validated Secrets are immutable, so that what was validated is what is read, until the reference leads elsewhere or the
Secret is replaced (`unseen`). `VolumesInv` says that an update
of a wanted StatefulSet has the volume that it has; if the owner waits, "served" means that nothing of an older configuration
is left over, because StatefulSets that are not wanted any more still have their Pod (`UnwantedHavePods`), and an
admitted update keeps the volume of a cache that stays. `ExpiryInv` follows a disabled garbage collection through
ManagedResource, StatefulSet, Pod and volume in the order in which they get it (`KeptInOrder`): the
volume is the last to be kept without collection, and from the configuration on a ttl of 0 is never left again.

The admission theorems follow from the validation being complete for the new
configuration: each invariant is inductive together with the facts about the previous
configuration that the early return for an unchanged configuration relies on. `LoopsCompareAll` says that the two loops,
which look back only, compare any two caches whichever is listed first.

**Why every registry has its owner.** `RegistriesInv` says that the flow works on disjoint caches and mirrors, because the Cluster
is a copy of what was admitted; that both Extensions have followed it before the OperatingSystemConfig is written, but for
the status of a hibernated Shoot; and that gardenlet's bare write holds what the webhooks called so far add (`Written`), in
either order. What other writers send through afterwards adds the same again.

Every step of `NodeNext` is a step of `Next` or leaves its variables alone, so that
`NodesImplementSystem` needs no refinement mapping and carries the theorems above over to the composition;
`FlowBundleSafe` combines `StatusCAExists` with `ServingInv`: while gardenlet's write is served, the Secret that is about to be
looked up is the one that the status still names.

**Why the nodes trust the caches.** A CA file may be on its way to the nodes (`NodeBundles`: in `osc` or in a request
being served) while the CAs move on. `NextSignerTrusted` says that as long as a cache with TLS is configured, all of these
files hold the CA that the next certificates will be signed with. It is preserved by a new CA because the old
one, if kept, goes on signing; by `CompleteRotation` and by every change because they begin only when
a flow is done, which leaves no file but that of the status (`NodeBundlesCurrent`), and the status publishes the
next signer (`NextSignerPublished`); by the cleanup, which keeps the CA that signs as long as TLS is configured
(`TLSKeepsBundle`). It holds with migrations as well, which keep the CAs.

**Why a finished flow serves the configuration.** An operation that has succeeded leaves the status alone until the next
one is asked for, which makes the flow pending again (`ReadyRests`). In between both ensurers read the same status,
in whatever order, into a specification that gardenlet sent bare (`FromStatus`); a request that another
controller sends afterwards adds the same once more, and one from before is overtaken by gardenlet's write. So `osc` equals
the status (`ServingInv`), and what the status holds is `ReadyServesConfig` and `StatusTrustsCertificates`.

**Why a finished flow serves the mirrors.** The argument is the same, with the Extension in place of the status:
`MirrorInv` says that an OperatingSystemConfig written after the Extension was synchronized holds every mirror and every file
of it (`FlowServesExtension`), and that a request under way will add what is missing, whichever ensurer runs
first. Every file that a host names is written, since it stems from the same list of hosts; that it is the bundle of *this* host
needs distinct paths (`NoPathShared`, the negation of finding 4), since the ensurer keeps one file per path.
The hypothesis is about names only, and `mirror_flow` satisfies it with cut and hashed names.

Only model-checked is liveness: `StatusConverges`, `DeletionCompletes`, `MigrationCompletes`, `FlowCompletes`,
`NodesConverge` and `PodsServeConfig` are temporal properties under fairness, which are out of the prover's reach, as
are `ENABLED` and induction over data (which the names do without). Every safety property that
a passing run checks is stated by a theorem, with the hypotheses of the table: `Prompt` where an owner who does not wait leads to
a finding or to the window described in section 2, `NoOrphans` for finding 1, `NoPathShared` for finding 4.

## 5. Not modelled, and why

- Dashboards, probes, resource requests, proxies, high availability, VPA, PodDisruptionBudget, NetworkPolicies and
  charts: data without control, or a choice made once from a flag.
- Generated conversions and deep copies: they copy field by field.
- Syntax of URLs and of StorageClass names in the validation, `GetUpstreamURL`, the container runtime check.
- Commands and manager wiring: no state.
- The registry-mirror actuator: all of its operations are empty.
- Lags of informer caches (actuator.go:60): an operation reads one coherent snapshot. Nothing in the
  repository bounds the lag; a Cluster that is stale by a whole phase of a rotation would break
  `NextSignerPublished`, and a bound of ours would only be restated by the property.

## 6. Plan

1. *Done*: `RegistryCacheActuator`, `RegistryCacheSystem`, the secrets proof, `ShootAdmission`.
2. *Done*: the OperatingSystemConfig webhooks (`NodeRegistries`, `RegistryMirror`) and the mirror
   validation.
3. *Done*: `PublishedStatus`, refined by `RegistryCacheSystem` from one seed to the next, and the proof of the refinement.
4. *Done*: `RegistryNames`, `RegistryConfig` and `RegistryCacheObjects` with the proofs of all their invariants.
5. *Done*: `ReadyServesConfig` and, without migrations, `DeletedLeavesNothing`.
6. *Done*: both webhooks on one OperatingSystemConfig (`ContainerdRegistries`): their order is irrelevant.
7. Stale informer reads in `BeginReconcile`, once their lag is bounded.
8. Proofs. *Done*: `NodesTrustCaches` under `Prompt`; `DoneServesMirrors` and `HostsHaveOwnBundle`; `MigrationKeepsObjects`;
   `ReadyServesConfig`, `DoneServesConfig` and the refinement, across migrations that orphan no Service. Next:
   - an abstract specification of the nodes (they pass from one published configuration to the next as a whole),
     refined by `NodeRegistries`, with `ServingInv` as its invariant;
   - what a deletion leaves after migrations: only objects that no ManagedResource has adopted;
   - when `NoOrphans` holds: if migrations are asked for only when the last change has been reconciled, and changes only
     when the Services are adopted.
