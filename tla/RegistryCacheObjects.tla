------------------------ MODULE RegistryCacheObjects ------------------------
(***************************************************************************)
(* What becomes of a RegistryConfig in the shoot: the Secrets and the      *)
(* StatefulSet that registrycaches computes for each cache, how they are   *)
(* applied, and the Pods and volumes that follow, over a sequence of       *)
(* changes that the admission lets through.                                *)
(*                                                                         *)
(* Abstracted: a reconciliation is one step (RegistryCacheSystem has its   *)
(* interleavings), and so is a visit of an external controller; relations  *)
(* between the caches of a configuration are left to ShootAdmission.       *)
(***************************************************************************)
EXTENDS RegistryConfig

CONSTANTS
  Registries,      \* registries that may be cached
  UpstreamOf,      \* the string that an owner writes for a registry
  Choices,         \* the sets of registries an owner works with
  Menu,            \* caches an owner writes
  GardenSecrets,   \* Secrets a reference may lead to
  Contents,        \* contents they may have
  Prompt,          \* the owner waits until a configuration is served
  MaxChanges       \* bound: changes of the Shoot, the Secrets and the certificates;
                   \* one less for every registry in use

ASSUME UpstreamOfAssumption ==
  /\ UpstreamOf \in [Registries -> Upstreams]
  /\ \A r, s \in Registries : UpstreamOf[r] = UpstreamOf[s] => r = s
ASSUME ChoicesAssumption == IsFiniteSet(Registries) /\ Choices \subseteq SUBSET Registries
ASSUME MenuAssumption == Menu \subseteq WrittenCaches
ASSUME ContentsAssumption == GardenSecrets # {} /\ Contents \subseteq CredentialSecrets
ASSUME BoundsAssumption == Prompt \in BOOLEAN /\ MaxChanges \in Nat

VARIABLES
  using,        \* the registries of this owner
  written,      \* providerConfig.caches, by registry
  reference,    \* the Secret that spec.resources names "credentials"
  secrets,      \* the contents of the Secrets in the garden
  unseen,       \* what the reference leads to has changed without a validation
  certificates, \* how often the certificates of the caches were renewed
  mr,           \* the objects in the ManagedResource
  live,         \* Secrets in the shoot, by name
  sts,          \* StatefulSets in the shoot, by name
  pods,         \* the Pod of each StatefulSet: what it mounts and what it has read
  claims,       \* the PersistentVolumeClaim of each StatefulSet
  changes       \* how many of MaxChanges are used up

shoot == <<using, written, reference, unseen>>
cluster == <<live, sts, pods, claims>>
vars == <<shoot, secrets, certificates, mr, cluster, changes>>

Configurations == UNION {[U -> Menu] : U \in SUBSET using}
Without(f, x) == [y \in DOMAIN f \ {x} |-> f[y]]
With(f, x, v) == [y \in DOMAIN f \cup {x} |-> IF y = x THEN v ELSE f[y]]
NoObjects == [x \in {} |-> Nil]

Init ==
  /\ using \in Choices /\ written = NoObjects
  /\ reference = CHOOSE s \in GardenSecrets : TRUE
  /\ secrets \in [GardenSecrets -> Contents]
  /\ unseen = FALSE /\ certificates = 0 /\ changes = 0
  /\ mr = [sts |-> NoObjects, secrets |-> NoObjects]
  /\ live = NoObjects /\ sts = NoObjects /\ pods = NoObjects /\ claims = NoObjects

-----------------------------------------------------------------------------
(* Constants of the names, which TLC evaluates once.  A name is told by    *)
(* the registries that have it.                                            *)

NameOf ==
  LET name == [u \in Registries |-> ComputeKubernetesResourceName(UpstreamOf[u])]
  IN  [u \in Registries |-> {v \in Registries : name[v] = name[u]}]

DecodedOf == [c \in Menu |-> Decoded(c)]
Valid ==
  [u \in Registries |-> {c \in Menu : ValidateRegistryCache(UpstreamOf[u], Decoded(c))}]

(* What Kubernetes accepts: labels, names, Pods, Services; and a port that *)
(* exists.                                                                 *)
Creatable ==
  [u \in Registries |->
     {c \in Menu :
        /\ IsLabelValue(ComputeUpstreamLabelValue(UpstreamOf[u]))
        /\ IsDNS1123Label(ComputeKubernetesResourceName(UpstreamOf[u]))
        /\ PodsCanBeCreated(ComputeKubernetesResourceName(UpstreamOf[u]))
        /\ IsDNS1123Label(ComputeServiceName(UpstreamOf[u], c.serviceNameSuffix))
        /\ PortCanBeDialed(UpstreamOf[u])}]

-----------------------------------------------------------------------------
(* registryCacheObjects, for an upstream that is cached.                   *)

Cache(u) == DecodedOf[written[u]]
Name(u) == NameOf[u]

(* The template renders credentials if neither half is empty.              *)
Credentials(s) ==
  IF {s.username, s.password} \cap {Nil, "empty"} = {}
  THEN [username |-> s.username, password |-> s.password] ELSE Nil

(* The data of the Secret with config.yml.                                 *)
ConfigOf(u) ==
  [remote |-> u, ttl |-> GarbageCollectionTTL(Cache(u)), tls |-> TLSEnabled(Cache(u)),
   credentials |-> IF Cache(u).secretReferenceName = Nil THEN Nil
                   ELSE Credentials(secrets[reference])]

CertificateOf(u) == [certificate |-> u, renewed |-> certificates]

(* Mutant: Secrets keep their name when their data change.                 *)
MakeUniqueByName(name, kind, data) == [of |-> name, kind |-> kind]

(* kubernetesutils.MakeUnique: the name carries a hash of the data.        *)
MakeUnique(name, kind, data) == [of |-> name, kind |-> kind, hash |-> data]

SecretsOf(u) ==
  {[name |-> MakeUnique(Name(u), "config", ConfigOf(u)), data |-> ConfigOf(u)]} \cup
  IF TLSEnabled(Cache(u))
  THEN {[name |-> MakeUnique(Name(u), "tls", CertificateOf(u)), data |-> CertificateOf(u)]}
  ELSE {}

Mounts(u) == {s.name : s \in SecretsOf(u)}

(* Mutant: annotated before the volume with the certificate is appended.   *)
InjectAnnotationsEarly(mounts) == {n \in mounts : n.kind = "config"}

(* references.InjectAnnotations: the StatefulSet and its Pods name the     *)
(* Secrets that they mount.                                                *)
InjectAnnotations(mounts) == mounts

StatefulSetOf(u) ==
  [mounts |-> Mounts(u), annotations |-> InjectAnnotations(Mounts(u)),
   volume |-> [size |-> VolumeSize(Cache(u)), class |-> VolumeStorageClassName(Cache(u))]]

(* computeResourcesData: a cache without a size and two objects of one     *)
(* kind and name are errors.                                               *)
Deployable ==
  /\ \A u \in DOMAIN written : VolumeSize(Cache(u)) # Nil
  /\ \A u, v \in DOMAIN written : Name(u) = Name(v) => u = v

Desired ==
  [sts |-> [n \in {Name(u) : u \in DOMAIN written} |->
              StatefulSetOf(CHOOSE u \in DOMAIN written : Name(u) = n)],
   secrets |-> LET all == UNION {SecretsOf(u) : u \in DOMAIN written}
               IN  [n \in {s.name : s \in all} |-> (CHOOSE s \in all : s.name = n).data]]

-----------------------------------------------------------------------------
(* The configuration is served: every cache has the Pod that is desired.   *)
Served ==
  /\ DOMAIN pods = {Name(u) : u \in DOMAIN written}
  /\ \A u \in DOMAIN written :
       /\ pods[Name(u)].read = {s.data : s \in SecretsOf(u)}
       /\ sts[Name(u)].volume = StatefulSetOf(u).volume

Unchanged(new) ==
  /\ DOMAIN new = DOMAIN written
  /\ \A u \in DOMAIN new : Decoded(new[u]) = Cache(u)

(* shoot.Validate: an extension that is not enabled and a configuration    *)
(* that decodes to the old one are let through unseen.                     *)
Admitted(new, ref) ==
  \/ DOMAIN new = {}
  \/ Unchanged(new)
  \/ \A u \in DOMAIN new :
       /\ new[u] \in Valid[u]
       /\ u \in DOMAIN written => ValidateUpdate(Cache(u), Decoded(new[u]))
       /\ new[u].secretReferenceName # Nil => ValidateUpstreamRegistrySecret(secrets[ref])

Change == changes + Cardinality(using) < MaxChanges /\ changes' = changes + 1

UpdateShoot ==
  /\ Change
  /\ Prompt => Served \/ ~Deployable
  /\ \E new \in Configurations, ref \in GardenSecrets :
       /\ Admitted(new, ref)
       /\ written' = new /\ reference' = ref
       /\ unseen' = (Unchanged(new) /\ (unseen \/ ref # reference))
  /\ UNCHANGED <<using, secrets, certificates, mr, cluster>>

(* A Secret in the garden is edited, unless it is immutable.               *)
EditSecret ==
  /\ Change
  /\ \E s \in GardenSecrets, c \in Contents :
       ~secrets[s].immutable /\ secrets' = [secrets EXCEPT ![s] = c]
  /\ UNCHANGED <<shoot, certificates, mr, cluster>>

(* A Secret is deleted and created again: nothing keeps an immutable one   *)
(* from being replaced, and no admission looks at what the reference leads *)
(* to until the configuration changes.                                     *)
ReplaceSecret ==
  /\ Change
  /\ \E s \in GardenSecrets, c \in Contents :
       /\ c # secrets[s] /\ secrets' = [secrets EXCEPT ![s] = c]
       /\ unseen' = (unseen \/ s = reference)
  /\ UNCHANGED <<using, written, reference, certificates, mr, cluster>>

RenewCertificates ==
  /\ Change
  /\ certificates' = certificates + 1
  /\ UNCHANGED <<shoot, secrets, mr, cluster>>

(* registryCaches.Deploy or, without caches, Destroy; an error changes     *)
(* nothing.                                                                *)
Reconcile ==
  /\ mr' = IF Deployable THEN Desired ELSE mr
  /\ UNCHANGED <<shoot, secrets, certificates, cluster, changes>>

-----------------------------------------------------------------------------
(* gardener-resource-manager and the controllers of the shoot (external).  *)

External == UNCHANGED <<shoot, secrets, certificates, mr, changes>>

ApplySecrets ==
  /\ live' = [n \in DOMAIN live \cup DOMAIN mr.secrets |->
                IF n \in DOMAIN mr.secrets THEN mr.secrets[n] ELSE live[n]]
  /\ UNCHANGED <<sts, pods, claims>> /\ External

(* The volume of a StatefulSet cannot be changed: such an update is        *)
(* refused as a whole.                                                     *)
ApplyStatefulSet ==
  /\ \E n \in DOMAIN mr.sts :
       /\ n \in DOMAIN sts => sts[n].volume = mr.sts[n].volume
       /\ sts' = With(sts, n, mr.sts[n])
  /\ UNCHANGED <<live, pods, claims>> /\ External

(* Mutant: the ManagedResource does not ask for it.                        *)
ClaimsLeftBehind(n) == claims

(* DeletePersistentVolumeClaims: the claim goes with its StatefulSet.      *)
ClaimsAfterRemoval(n) == Without(claims, n)

RemoveStatefulSet ==
  /\ \E n \in DOMAIN sts \ DOMAIN mr.sts :
       sts' = Without(sts, n) /\ pods' = Without(pods, n) /\ claims' = ClaimsAfterRemoval(n)
  /\ UNCHANGED live /\ External

(* The Pod is replaced when the template has changed.  It starts when the  *)
(* Secrets it mounts are there and reads them once; its claim is created   *)
(* once.  Blobs that are stored with garbage collection disabled stay.     *)
StartPod ==
  /\ \E n \in DOMAIN sts :
       /\ n \in DOMAIN pods =>
            <<pods[n].mounts, pods[n].annotations>> # <<sts[n].mounts, sts[n].annotations>>
       /\ sts[n].mounts \subseteq DOMAIN live
       /\ LET read == {live[s] : s \in sts[n].mounts}
              keeps == \E d \in read : "ttl" \in DOMAIN d /\ d.ttl = 0
          IN  /\ pods' = With(pods, n, [mounts |-> sts[n].mounts, read |-> read,
                                        annotations |-> sts[n].annotations])
              /\ claims' = With(claims, n,
                             IF n \in DOMAIN claims
                             THEN [claims[n] EXCEPT !.kept = @ \/ keeps]
                             ELSE [volume |-> sts[n].volume, kept |-> keeps])
  /\ UNCHANGED <<live, sts>> /\ External

(* The garbage collector looks at the annotations only.                    *)
CollectSecret ==
  /\ \E n \in DOMAIN live :
       /\ \A m \in DOMAIN sts : n \notin sts[m].annotations
       /\ \A m \in DOMAIN pods : n \notin pods[m].annotations
       /\ live' = Without(live, n)
  /\ UNCHANGED <<sts, pods, claims>> /\ External

Next ==
  \/ UpdateShoot \/ EditSecret \/ ReplaceSecret \/ RenewCertificates \/ Reconcile
  \/ ApplySecrets \/ ApplyStatefulSet \/ RemoveStatefulSet \/ StartPod \/ CollectSecret

Fairness ==
  /\ WF_vars(Reconcile) /\ WF_vars(ApplySecrets) /\ WF_vars(ApplyStatefulSet)
  /\ WF_vars(RemoveStatefulSet) /\ WF_vars(StartPod)

Spec == Init /\ [][Next]_vars /\ Fairness

-----------------------------------------------------------------------------
TypeOK ==
  /\ using \in Choices /\ written \in Configurations /\ reference \in GardenSecrets
  /\ secrets \in [GardenSecrets -> Contents] /\ unseen \in BOOLEAN
  /\ certificates \in 0..MaxChanges /\ changes \in 0..MaxChanges
  /\ DOMAIN pods \subseteq DOMAIN sts /\ DOMAIN pods = DOMAIN claims
  /\ \A n \in DOMAIN sts : sts[n].annotations \subseteq sts[n].mounts

(* What the admission accepts, Kubernetes accepts: labels, names, Pods of  *)
(* a StatefulSet and Services of whatever length and form the upstream and *)
(* the suffix have; and a port is a number that a port can have.           *)
NamesAccepted == \A u \in DOMAIN written : written[u] \in Creatable[u]

(* Two caches have the same name only if their upstreams differ in their   *)
(* separators alone, are both cut with equal hashes, or the longer one is  *)
(* cut and the other, of 43 characters, ends in a separator and its hash.  *)
NamesTellApart ==
  \A u, v \in DOMAIN written : Name(u) = Name(v) => MayShareName(UpstreamOf[u], UpstreamOf[v])

NamesCollide == \E u, v \in using : u # v /\ Name(u) = Name(v)

(* An update of a StatefulSet is never refused because of its volume: the  *)
(* validation of updates and the removal of claims see to it, in every     *)
(* sequence of changes, if the owner waits and no names collide.           *)
VolumesMatch ==
  ~NamesCollide =>
    \A n \in DOMAIN mr.sts \cap DOMAIN sts : mr.sts[n].volume = sts[n].volume

(* "The garbage collection cannot be enabled once it is disabled": a cache *)
(* that collects garbage has no blobs in its volume that were stored while *)
(* it did not.                                                             *)
ExpiryNotReenabled ==
  ~NamesCollide =>
    \A n \in DOMAIN pods :
      (\E d \in pods[n].read : "ttl" \in DOMAIN d /\ d.ttl > 0) => ~claims[n].kept

(* The garbage collector never takes a Secret that a Pod mounts, whatever  *)
(* the order in which Secrets, StatefulSets and Pods are replaced.         *)
MountsKept == \A n \in DOMAIN pods : pods[n].mounts \subseteq DOMAIN live

(* A Secret that the admission has accepted cannot be edited into one      *)
(* without credentials: as long as the reference leads to the Secret that  *)
(* was validated, and that is not replaced by another of its name, the     *)
(* caches get both halves, in whatever order configurations, references    *)
(* and other Secrets change.                                               *)
CredentialsUsed ==
  ~unseen =>
    \A u \in DOMAIN written :
      Cache(u).secretReferenceName # Nil =>
        /\ ConfigOf(u).credentials # Nil
        /\ ConfigOf(u).credentials.password # "blank"

(* When the changes end, the Pods serve the last configuration with the    *)
(* last credentials and certificates, unless its names collide.            *)
PodsServeConfig == <>[](NamesCollide \/ Served)

(* "TTL ... Defaults to 168h (7 days)." "TLS ... Defaults to true.": of a  *)
(* cache whose owner does not set them.                                    *)
UnsetFieldsDefault ==
  \A u \in DOMAIN written :
    /\ written[u].garbageCollection = Nil \/ written[u].garbageCollection.ttl = Nil
         => ConfigOf(u).ttl = DefaultTTL
    /\ written[u].http = Nil \/ written[u].http.tls = Nil => ConfigOf(u).tls

=============================================================================
