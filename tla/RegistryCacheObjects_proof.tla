--------------------- MODULE RegistryCacheObjects_proof ---------------------
(***************************************************************************)
(* The invariants of RegistryCacheObjects, for any registries, upstreams,  *)
(* caches, Secrets and numbers of changes.                                 *)
(***************************************************************************)
EXTENDS RegistryCacheObjects, RegistryNames_proof, FiniteSetTheorems

-----------------------------------------------------------------------------
(* What decoding leaves alone and what it always sets.                     *)

LEMMA DecodedProperties ==
  ASSUME NEW c \in WrittenCaches
  PROVE  /\ Decoded(c).serviceNameSuffix = c.serviceNameSuffix
         /\ Decoded(c).secretReferenceName = c.secretReferenceName
         /\ VolumeSize(Decoded(c)) # Nil
         /\ GarbageCollectionTTL(Decoded(c)) \in Int
  <1>1. /\ c \in [{"volume", "garbageCollection", "http", "secretReferenceName",
                   "serviceNameSuffix"} -> {c.volume, c.garbageCollection, c.http,
                                            c.secretReferenceName, c.serviceNameSuffix}]
        /\ c.volume \in Optional([size : Optional(Int), class : Optional(StorageClasses)])
        /\ c.garbageCollection \in Optional([ttl : Optional(Int)])
    BY DEF WrittenCaches
  <1>2. PICK d : d = Unmarshalled(c)
    OBVIOUS
  <1>3. /\ DOMAIN d = DOMAIN c
        /\ d.volume = c.volume
        /\ d.serviceNameSuffix = c.serviceNameSuffix
        /\ d.secretReferenceName = c.secretReferenceName
        /\ d.garbageCollection = IF c.garbageCollection # Nil /\ c.garbageCollection.ttl = Nil
                                 THEN [ttl |-> 0] ELSE c.garbageCollection
    BY <1>1, <1>2 DEF Unmarshalled
  <1>4. d.garbageCollection = Nil \/ d.garbageCollection.ttl \in Int
    BY <1>1, <1>3 DEF Optional
  <1>5. PICK e : e = SetDefaults(d)
    OBVIOUS
  <1>6. /\ e.serviceNameSuffix = d.serviceNameSuffix
        /\ e.secretReferenceName = d.secretReferenceName
        /\ e.volume = [size |-> IF d.volume = Nil \/ d.volume.size = Nil
                                THEN DefaultCacheSize ELSE d.volume.size,
                       class |-> IF d.volume = Nil THEN Nil ELSE d.volume.class]
        /\ e.garbageCollection = IF d.garbageCollection = Nil THEN [ttl |-> DefaultTTL]
                                 ELSE d.garbageCollection
    BY <1>1, <1>3, <1>5 DEF SetDefaults
  <1>7. /\ e.volume \in [size : Optional(Int), class : Optional(StorageClasses)]
        /\ e.volume.size \in Int
    BY <1>1, <1>3, <1>6 DEF Optional, DefaultCacheSize
  <1>8. VolumeSize(e) # Nil
    BY <1>7, NilAssumption DEF VolumeSize
  <1>9. GarbageCollectionTTL(e) \in Int
    BY <1>4, <1>6 DEF GarbageCollectionTTL, DefaultTTL
  <1>10. Decoded(c) = e
    BY <1>2, <1>5, Zenon DEF Decoded
  <1> QED
    BY <1>3, <1>6, <1>8, <1>9, <1>10, Zenon

(* Names of a registry that the validation admits are accepted.            *)
LEMMA ValidCreatable ==
  ASSUME NEW u \in Registries, NEW c \in Valid[u]
  PROVE  c \in Creatable[u]
  <1>1. /\ c \in Menu /\ ValidateHostPort(UpstreamOf[u])
        /\ ValidateServiceNameSuffix(Decoded(c).serviceNameSuffix)
    BY DEF Valid, ValidateRegistryCache
  <1>2. c \in WrittenCaches /\ UpstreamOf[u] \in Upstreams
    BY <1>1, MenuAssumption, UpstreamOfAssumption
  <1>3. /\ ValidateServiceNameSuffix(c.serviceNameSuffix)
        /\ c.serviceNameSuffix \in Seq(Char) \cup {Nil}
    <2>1. ValidateServiceNameSuffix(c.serviceNameSuffix)
      BY <1>1, <1>2, DecodedProperties, Zenon
    <2>2. c.serviceNameSuffix \in Optional(Seq(Char))
      BY <1>2 DEF WrittenCaches
    <2> QED
      BY <2>1, <2>2, Zenon DEF Optional
  <1>4. /\ IsLabelValue(ComputeUpstreamLabelValue(UpstreamOf[u]))
        /\ IsDNS1123Label(ComputeKubernetesResourceName(UpstreamOf[u]))
        /\ PodsCanBeCreated(ComputeKubernetesResourceName(UpstreamOf[u]))
        /\ IsDNS1123Label(ComputeServiceName(UpstreamOf[u], c.serviceNameSuffix))
        /\ PortCanBeDialed(UpstreamOf[u])
    BY <1>1, <1>2, <1>3, NamesFit, Zenon
  <1> QED
    BY <1>1, <1>4 DEF Creatable

LEMMA SameNameAlike ==
  ASSUME NEW u \in Registries, NEW v \in Registries, Name(u) = Name(v)
  PROVE  MayShareName(UpstreamOf[u], UpstreamOf[v])
  <1>1. /\ UpstreamOf[u] \in Upstreams /\ UpstreamOf[v] \in Upstreams
    BY UpstreamOfAssumption
  <1>2. ComputeKubernetesResourceName(UpstreamOf[u]) = ComputeKubernetesResourceName(UpstreamOf[v])
    BY DEF Name, NameOf
  <1> QED
    BY <1>1, <1>2, NamesShared, Zenon

-----------------------------------------------------------------------------
(* Types.                                                                  *)

LEMMA ConfigurationProperties ==
  ASSUME using \in Choices, NEW f \in Configurations
  PROVE  /\ DOMAIN f \subseteq using /\ DOMAIN f \subseteq Registries
         /\ \A u \in DOMAIN f : f[u] \in Menu /\ f[u] \in WrittenCaches
  BY ChoicesAssumption, MenuAssumption DEF Configurations

(* What the StatefulSets in the ManagedResource, in the shoot and the Pods *)
(* are annotated with is what they mount.                                  *)
Annotated(f) == \A n \in DOMAIN f : f[n].annotations = f[n].mounts
AnnotationsMatch == Annotated(mr.sts) /\ Annotated(sts) /\ Annotated(pods)

TypesInv ==
  /\ using \in Choices /\ written \in Configurations /\ reference \in GardenSecrets
  /\ secrets \in [GardenSecrets -> Contents] /\ unseen \in BOOLEAN
  /\ certificates \in Nat /\ certificates <= changes /\ changes \in 0..MaxChanges
  /\ DOMAIN pods \subseteq DOMAIN sts /\ DOMAIN pods = DOMAIN claims
  /\ AnnotationsMatch

LEMMA InitTypes == Init => TypesInv
  <1> SUFFICES ASSUME Init PROVE TypesInv
    OBVIOUS
  <1>1. DOMAIN NoObjects = {}
    BY DEF NoObjects
  <1>2. NoObjects \in Configurations
    <2>1. NoObjects \in [{} -> Menu] /\ {} \in SUBSET using
      BY DEF NoObjects
    <2> QED
      BY <2>1, Zenon DEF Configurations
  <1>3. reference \in GardenSecrets
    BY ContentsAssumption DEF Init
  <1>4. AnnotationsMatch
    BY <1>1 DEF Init, AnnotationsMatch, Annotated
  <1>5. certificates \in Nat /\ certificates <= changes /\ changes \in 0..MaxChanges
    <2>1. certificates = 0 /\ changes = 0 /\ MaxChanges \in Nat
      BY BoundsAssumption, Zenon DEF Init
    <2> QED
      BY <2>1
  <1>6. /\ using \in Choices /\ written \in Configurations
        /\ secrets \in [GardenSecrets -> Contents] /\ unseen \in BOOLEAN
    BY <1>2, Zenon DEF Init
  <1>7. DOMAIN pods \subseteq DOMAIN sts /\ DOMAIN pods = DOMAIN claims
    BY DEF Init
  <1> QED
    BY <1>3, <1>4, <1>5, <1>6, <1>7, Zenon DEF TypesInv

LEMMA ChangeTypes ==
  ASSUME using \in Choices, changes \in 0..MaxChanges, Change
  PROVE  changes' \in 0..MaxChanges /\ changes' = changes + 1
  <1>1. Cardinality(using) \in Nat
    BY ChoicesAssumption, FS_Subset, FS_CardinalityType
  <1> QED
    BY <1>1, BoundsAssumption DEF Change

LEMMA DesiredAnnotated == Annotated(Desired.sts)
  BY DEF Desired, Annotated, StatefulSetOf, InjectAnnotations

LEMMA NextTypes == TypesInv /\ [Next]_vars => TypesInv'
  <1> SUFFICES ASSUME TypesInv, [Next]_vars PROVE TypesInv'
    OBVIOUS
  <1> USE DEF TypesInv
  <1>1. CASE UpdateShoot
    <2>1. /\ written' \in Configurations /\ using' = using
      BY <1>1 DEF UpdateShoot
    <2>2. reference' \in GardenSecrets /\ unseen' \in BOOLEAN
      BY <1>1 DEF UpdateShoot, Unchanged
    <2>3. changes' \in 0..MaxChanges /\ certificates' = certificates /\ certificates' <= changes'
      BY <1>1, ChangeTypes DEF UpdateShoot
    <2> QED
      BY <1>1, <2>1, <2>2, <2>3
         DEF UpdateShoot, cluster, Configurations, AnnotationsMatch, Annotated
  <1>2. CASE EditSecret
    <2>1. secrets' \in [GardenSecrets -> Contents]
      BY <1>2 DEF EditSecret
    <2>2. changes' \in 0..MaxChanges /\ certificates' = certificates /\ certificates' <= changes'
      BY <1>2, ChangeTypes DEF EditSecret
    <2> QED
      BY <1>2, <2>1, <2>2
         DEF EditSecret, shoot, cluster, Configurations, AnnotationsMatch, Annotated
  <1>3. CASE RenewCertificates
    <2>1. changes' \in 0..MaxChanges /\ certificates' \in Nat /\ certificates' <= changes'
      BY <1>3, ChangeTypes DEF RenewCertificates
    <2> QED
      BY <1>3, <2>1
         DEF RenewCertificates, shoot, cluster, Configurations, AnnotationsMatch, Annotated
  <1>4. CASE Reconcile
    <2>1. Annotated(mr'.sts)
      BY <1>4, DesiredAnnotated DEF Reconcile, AnnotationsMatch
    <2> QED
      BY <1>4, <2>1 DEF Reconcile, shoot, cluster, Configurations, AnnotationsMatch, Annotated
  <1>5. CASE ApplySecrets
    BY <1>5 DEF ApplySecrets, External, shoot, Configurations, AnnotationsMatch, Annotated
  <1>6. CASE ApplyStatefulSet
    <2>1. PICK n \in DOMAIN mr.sts : sts' = With(sts, n, mr.sts[n])
      BY <1>6 DEF ApplyStatefulSet
    <2>2. DOMAIN sts \subseteq DOMAIN sts' /\ Annotated(sts')
      BY <2>1 DEF With, Without, AnnotationsMatch, Annotated
    <2> QED
      BY <1>6, <2>2
         DEF ApplyStatefulSet, External, shoot, Configurations, AnnotationsMatch, Annotated
  <1>7. CASE RemoveStatefulSet
    <2>1. PICK n : /\ sts' = Without(sts, n) /\ pods' = Without(pods, n)
                   /\ claims' = Without(claims, n)
      BY <1>7 DEF RemoveStatefulSet, ClaimsAfterRemoval
    <2>2. DOMAIN pods' \subseteq DOMAIN sts' /\ DOMAIN pods' = DOMAIN claims'
      BY <2>1 DEF With, Without
    <2>3. Annotated(sts') /\ Annotated(pods')
      BY <2>1 DEF With, Without, AnnotationsMatch, Annotated
    <2> QED
      BY <1>7, <2>2, <2>3
         DEF RemoveStatefulSet, External, shoot, Configurations, AnnotationsMatch, Annotated
  <1>8. CASE StartPod
    <2>1. PICK n, read, claim :
            /\ n \in DOMAIN sts
            /\ pods' = With(pods, n, [mounts |-> sts[n].mounts, read |-> read,
                                      annotations |-> sts[n].annotations])
            /\ claims' = With(claims, n, claim)
      BY <1>8 DEF StartPod
    <2>2. DOMAIN pods' \subseteq DOMAIN sts /\ DOMAIN pods' = DOMAIN claims'
      BY <2>1 DEF With, Without
    <2>3. Annotated(pods')
      BY <2>1 DEF With, Without, AnnotationsMatch, Annotated
    <2> QED
      BY <1>8, <2>2, <2>3
         DEF StartPod, External, shoot, Configurations, AnnotationsMatch, Annotated
  <1>9. CASE CollectSecret
    BY <1>9 DEF CollectSecret, External, shoot, Configurations, AnnotationsMatch, Annotated
  <1>10. CASE UNCHANGED vars
    BY <1>10 DEF vars, shoot, cluster, Configurations, AnnotationsMatch, Annotated
  <1>11. CASE ReplaceSecret
    <2>1. secrets' \in [GardenSecrets -> Contents] /\ unseen' \in BOOLEAN
      BY <1>11 DEF ReplaceSecret
    <2>2. changes' \in 0..MaxChanges /\ certificates' = certificates /\ certificates' <= changes'
      BY <1>11, ChangeTypes DEF ReplaceSecret
    <2> QED
      BY <1>11, <2>1, <2>2
         DEF ReplaceSecret, cluster, Configurations, AnnotationsMatch, Annotated
  <1> QED
    BY <1>1, <1>2, <1>3, <1>4, <1>5, <1>6, <1>7, <1>8, <1>9, <1>10, <1>11 DEF Next

(* Every variable keeps its type in every behaviour.                       *)
THEOREM TypesCorrect == Spec => []TypeOK
  <1>1. TypesInv => TypeOK
    BY BoundsAssumption DEF TypesInv, TypeOK, AnnotationsMatch, Annotated
  <1> QED
    BY <1>1, InitTypes, NextTypes, PTL DEF Spec

-----------------------------------------------------------------------------
(* Names.                                                                  *)

LEMMA UnchangedProperties ==
  ASSUME TypesInv, NEW new \in Configurations, Unchanged(new)
  PROVE  /\ DOMAIN new = DOMAIN written
         /\ \A u \in DOMAIN new :
              /\ new[u].serviceNameSuffix = written[u].serviceNameSuffix
              /\ new[u].secretReferenceName = written[u].secretReferenceName
              /\ Decoded(new[u]) = Decoded(written[u])
  <1>1. /\ DOMAIN new = DOMAIN written
        /\ \A u \in DOMAIN new : Decoded(new[u]) = DecodedOf[written[u]]
    BY DEF Unchanged, Cache
  <1>2. ASSUME NEW u \in DOMAIN new
        PROVE  /\ new[u].serviceNameSuffix = written[u].serviceNameSuffix
               /\ new[u].secretReferenceName = written[u].secretReferenceName
               /\ Decoded(new[u]) = Decoded(written[u])
    <2>1. /\ new[u] \in WrittenCaches /\ written[u] \in WrittenCaches
          /\ written[u] \in Menu
      BY <1>1, ConfigurationProperties DEF TypesInv
    <2>2. DecodedOf[written[u]] = Decoded(written[u])
      BY <2>1, Zenon DEF DecodedOf
    <2>3. Decoded(new[u]) = Decoded(written[u])
      BY <1>1, <2>2, Zenon
    <2> QED
      BY <2>1, <2>3, DecodedProperties, Zenon
  <1> QED
    BY <1>1, <1>2, Zenon

(* Admitted names stay accepted: a configuration that is let through       *)
(* unseen has the names of the one before.                                 *)
LEMMA NextNames == TypesInv /\ NamesAccepted /\ [Next]_vars => NamesAccepted'
  <1> SUFFICES ASSUME TypesInv, NamesAccepted, [Next]_vars PROVE NamesAccepted'
    OBVIOUS
  <1>1. CASE UpdateShoot
    <2>1. PICK new \in Configurations, ref \in GardenSecrets :
            Admitted(new, ref) /\ written' = new
      BY <1>1 DEF UpdateShoot
    <2>2. /\ DOMAIN new \subseteq Registries
          /\ \A u \in DOMAIN new : new[u] \in Menu
      BY <2>1, ConfigurationProperties DEF TypesInv
    <2>3. CASE Unchanged(new)
      <3>1. ASSUME NEW u \in DOMAIN new PROVE new[u] \in Creatable[u]
        <4>1. /\ u \in DOMAIN written /\ written[u] \in Creatable[u] /\ u \in Registries
              /\ new[u].serviceNameSuffix = written[u].serviceNameSuffix
          BY <2>2, <2>3, UnchangedProperties DEF NamesAccepted
        <4> QED
          BY <2>2, <4>1 DEF Creatable
      <3> QED
        BY <2>1, <3>1, Zenon DEF NamesAccepted
    <2>4. CASE \A u \in DOMAIN new : new[u] \in Valid[u]
      BY <2>1, <2>2, <2>4, ValidCreatable DEF NamesAccepted
    <2> QED
      BY <2>1, <2>3, <2>4 DEF Admitted
  <1>2. CASE UNCHANGED written
    BY <1>2 DEF NamesAccepted
  <1> QED
    BY <1>1, <1>2 DEF Next, EditSecret, ReplaceSecret, RenewCertificates, Reconcile, ApplySecrets,
         ApplyStatefulSet, RemoveStatefulSet, StartPod, CollectSecret, External, shoot, vars

(* What the admission accepts, Kubernetes accepts, whatever the upstreams, *)
(* the suffixes and their lengths.                                         *)
THEOREM NamesSafe == Spec => []NamesAccepted
  <1>1. Init => NamesAccepted
    BY DEF Init, NoObjects, NamesAccepted
  <1>2. Init => TypesInv /\ NamesAccepted
    BY <1>1, InitTypes
  <1> QED
    BY <1>2, NextNames, NextTypes, PTL DEF Spec

(* Caches share a name only if their upstreams differ in their separators  *)
(* alone, are both cut with equal hashes, or one is cut and the other, of  *)
(* 43 characters, spells out its hash.                                     *)
THEOREM NamesToldApart == Spec => []NamesTellApart
  <1>1. TypesInv => NamesTellApart
    BY ConfigurationProperties, SameNameAlike DEF TypesInv, NamesTellApart
  <1> QED
    BY <1>1, InitTypes, NextTypes, PTL DEF Spec

-----------------------------------------------------------------------------
(* Secrets.                                                                *)

LEMMA NextMounts == TypesInv /\ MountsKept /\ [Next]_vars => MountsKept'
  <1> SUFFICES ASSUME TypesInv, MountsKept, [Next]_vars PROVE MountsKept'
    OBVIOUS
  <1> USE DEF MountsKept
  <1>1. CASE ApplySecrets
    BY <1>1 DEF ApplySecrets
  <1>2. CASE RemoveStatefulSet
    BY <1>2 DEF RemoveStatefulSet, Without
  <1>3. CASE StartPod
    BY <1>3 DEF StartPod, With
  <1>4. CASE CollectSecret
    BY <1>4 DEF CollectSecret, Without, TypesInv, AnnotationsMatch, Annotated
  <1>5. CASE UNCHANGED <<live, pods>>
    BY <1>5
  <1> QED
    BY <1>1, <1>2, <1>3, <1>4, <1>5 DEF Next, UpdateShoot, EditSecret, ReplaceSecret,
         RenewCertificates, Reconcile, ApplyStatefulSet, cluster, vars

(* The garbage collector takes no Secret that a Pod mounts.                *)
THEOREM MountsSafe == Spec => []MountsKept
  <1>1. Init => TypesInv /\ MountsKept
    BY InitTypes DEF Init, NoObjects, MountsKept
  <1> QED
    BY <1>1, NextMounts, NextTypes, PTL DEF Spec

(* Credentials in use are those of a Secret that was validated and that an *)
(* edit can no longer change.                                              *)
CredentialsValid ==
  ~unseen =>
    \A u \in DOMAIN written :
      written[u].secretReferenceName # Nil => ValidateUpstreamRegistrySecret(secrets[reference])

LEMMA NextCredentials == TypesInv /\ CredentialsValid /\ [Next]_vars => CredentialsValid'
  <1> SUFFICES ASSUME TypesInv, CredentialsValid, [Next]_vars PROVE CredentialsValid'
    OBVIOUS
  <1> USE DEF CredentialsValid
  <1>1. CASE UpdateShoot
    <2>1. PICK new \in Configurations, ref \in GardenSecrets :
            /\ Admitted(new, ref) /\ written' = new /\ reference' = ref /\ secrets' = secrets
            /\ unseen' = (Unchanged(new) /\ (unseen \/ ref # reference))
      BY <1>1 DEF UpdateShoot
    <2>2. CASE Unchanged(new)
      BY <2>1, <2>2, UnchangedProperties
    <2>3. CASE DOMAIN new = {}
      BY <2>1, <2>3
    <2>4. CASE \A u \in DOMAIN new :
                 new[u].secretReferenceName # Nil => ValidateUpstreamRegistrySecret(secrets[ref])
      BY <2>1, <2>4
    <2> QED
      BY <2>1, <2>2, <2>3, <2>4 DEF Admitted
  <1>2. CASE EditSecret
    BY <1>2 DEF EditSecret, shoot, ValidateUpstreamRegistrySecret, TypesInv
  <1>3. CASE ReplaceSecret
    BY <1>3 DEF ReplaceSecret, TypesInv
  <1>4. CASE UNCHANGED <<shoot, secrets>>
    BY <1>4 DEF shoot
  <1> QED
    BY <1>1, <1>2, <1>3, <1>4 DEF Next, RenewCertificates, Reconcile, ApplySecrets,
         ApplyStatefulSet, RemoveStatefulSet, StartPod, CollectSecret, External, vars

(* As long as the reference leads to the very Secret that was validated,   *)
(* which editing cannot change, the caches get both halves of credentials. *)
(* Nothing is said of a Secret that has been deleted and created again, or *)
(* that spec.resources alone has exchanged.                                *)
THEOREM CredentialsSafe == Spec => []CredentialsUsed
  <1>1. Init => TypesInv /\ CredentialsValid
    BY InitTypes DEF Init, NoObjects, CredentialsValid
  <1>2. TypesInv /\ CredentialsValid => CredentialsUsed
    <2> SUFFICES ASSUME TypesInv, CredentialsValid, ~unseen, NEW u \in DOMAIN written,
                        Cache(u).secretReferenceName # Nil
                 PROVE  /\ ConfigOf(u).credentials # Nil
                        /\ ConfigOf(u).credentials.password # "blank"
      BY DEF CredentialsUsed
    <2>1. written[u] \in Menu /\ written[u] \in WrittenCaches
      BY ConfigurationProperties DEF TypesInv
    <2>2. Cache(u).secretReferenceName = written[u].secretReferenceName
      BY <2>1, DecodedProperties, Zenon DEF Cache, DecodedOf
    <2>3. PICK s : s = secrets[reference]
      OBVIOUS
    <2>4. s \in CredentialSecrets /\ ValidateUpstreamRegistrySecret(s)
      BY <2>2, <2>3, ContentsAssumption DEF CredentialsValid, TypesInv
    <2>5. /\ s.username \in Usernames \ {Nil, "empty"}
          /\ s.password \in Passwords \ {Nil, "empty", "blank"}
      BY <2>4, NilAssumption DEF CredentialSecrets, ValidateUpstreamRegistrySecret, Optional,
           Usernames, Passwords
    <2>6. Credentials(s) = [username |-> s.username, password |-> s.password]
      BY <2>5 DEF Credentials
    <2>7. Credentials(s) # Nil /\ Credentials(s).password # "blank"
      BY <2>5, <2>6, NilAssumption
    <2>8. ConfigOf(u).credentials = Credentials(s)
      BY <2>3 DEF ConfigOf
    <2> QED
      BY <2>7, <2>8, Zenon
  <1> QED
    BY <1>1, <1>2, NextCredentials, NextTypes, PTL DEF Spec

-----------------------------------------------------------------------------
(* Volumes, if the owner waits until a configuration is served.            *)

WrittenNames == {Name(u) : u \in DOMAIN written}
VolumeOf(c) == [size |-> VolumeSize(Decoded(c)), class |-> VolumeStorageClassName(Decoded(c))]

(* A StatefulSet that is no longer wanted still has its Pod, so that the   *)
(* configuration is not served before it is gone.                          *)
UnwantedHavePods ==
  /\ DOMAIN mr.sts \ WrittenNames \subseteq DOMAIN pods
  /\ DOMAIN sts \ WrittenNames \subseteq DOMAIN pods

(* Every stage has the volume that is configured now.                      *)
VolumesConfigured ==
  \A u \in DOMAIN written :
    /\ Name(u) \in DOMAIN mr.sts => mr.sts[Name(u)].volume = VolumeOf(written[u])
    /\ Name(u) \in DOMAIN sts => sts[Name(u)].volume = VolumeOf(written[u])

VolumesInv ==
  ~NamesCollide =>
    /\ UnwantedHavePods /\ VolumesConfigured
    /\ \A n \in DOMAIN mr.sts \cap DOMAIN sts : mr.sts[n].volume = sts[n].volume

LEMMA DesiredProperties ==
  ASSUME TypesInv, ~NamesCollide
  PROVE  /\ Deployable /\ DOMAIN Desired.sts = WrittenNames
         /\ \A u \in DOMAIN written : Desired.sts[Name(u)] = StatefulSetOf(u)
         /\ \A u \in DOMAIN written : StatefulSetOf(u).volume = VolumeOf(written[u])
         /\ \A u, v \in DOMAIN written : Name(u) = Name(v) => u = v
  <1>1. \A u, v \in using : Name(u) = Name(v) => u = v
    BY DEF NamesCollide
  <1>2. DOMAIN written \subseteq using
    BY ConfigurationProperties DEF TypesInv
  <1>3. \A u, v \in DOMAIN written : Name(u) = Name(v) => u = v
    BY <1>1, <1>2, Zenon
  <1>4. ASSUME NEW u \in DOMAIN written
        PROVE  Cache(u) = Decoded(written[u]) /\ VolumeSize(Cache(u)) # Nil
    <2>1. written[u] \in Menu /\ written[u] \in WrittenCaches
      BY ConfigurationProperties DEF TypesInv
    <2>2. Cache(u) = Decoded(written[u])
      BY <2>1, Zenon DEF Cache, DecodedOf
    <2> QED
      BY <2>1, <2>2, DecodedProperties, Zenon
  <1>5. Deployable
    BY <1>3, <1>4, Zenon DEF Deployable
  <1>6. DOMAIN Desired.sts = WrittenNames
    BY DEF Desired, WrittenNames
  <1>7. ASSUME NEW u \in DOMAIN written PROVE Desired.sts[Name(u)] = StatefulSetOf(u)
    <2>1. Name(u) \in WrittenNames
      BY DEF WrittenNames
    <2>2. (CHOOSE v \in DOMAIN written : Name(v) = Name(u)) = u
      BY <1>3
    <2>3. Desired.sts[Name(u)] = StatefulSetOf(CHOOSE v \in DOMAIN written : Name(v) = Name(u))
      BY <2>1 DEF Desired, WrittenNames
    <2> QED
      BY <2>2, <2>3, Zenon
  <1>8. ASSUME NEW u \in DOMAIN written PROVE StatefulSetOf(u).volume = VolumeOf(written[u])
    BY <1>4 DEF StatefulSetOf, VolumeOf
  <1> QED
    BY <1>3, <1>5, <1>6, <1>7, <1>8, Zenon

LEMMA AdmittedUpdate ==
  ASSUME TypesInv, NEW new \in Configurations, NEW ref, Admitted(new, ref),
         NEW u \in DOMAIN new, u \in DOMAIN written
  PROVE  \/ Decoded(new[u]) = Decoded(written[u])
         \/ /\ ValidateUpdate(Decoded(written[u]), Decoded(new[u]))
            /\ GarbageCollectionTTL(Decoded(new[u])) >= 0
  <1>1. CASE Unchanged(new)
    BY <1>1, UnchangedProperties
  <1>2. CASE new[u] \in Valid[u] /\ ValidateUpdate(Cache(u), Decoded(new[u]))
    <2>1. written[u] \in Menu /\ u \in Registries
      BY ConfigurationProperties DEF TypesInv
    <2>2. Cache(u) = Decoded(written[u])
      BY <2>1, Zenon DEF Cache, DecodedOf
    <2>3. GarbageCollectionTTL(Decoded(new[u])) >= 0
      BY <1>2, <2>1 DEF Valid, ValidateRegistryCache
    <2> QED
      BY <1>2, <2>2, <2>3, Zenon
  <1> QED
    BY <1>1, <1>2 DEF Admitted

(* What an update of the Shoot finds if the owner waits: StatefulSets and  *)
(* Pods exactly of the caches that were configured.                        *)
LEMMA UpdateFindsServed ==
  ASSUME TypesInv, Prompt = TRUE, ~NamesCollide, UnwantedHavePods, UpdateShoot
  PROVE  /\ DOMAIN mr.sts \subseteq WrittenNames
         /\ DOMAIN sts = WrittenNames /\ DOMAIN pods = WrittenNames
  <1>1. Served
    BY DesiredProperties DEF UpdateShoot
  <1>2. DOMAIN pods = WrittenNames
    BY <1>1 DEF Served, WrittenNames
  <1> QED
    BY <1>2 DEF UnwantedHavePods, TypesInv

LEMMA NextVolumes ==
  ASSUME Prompt = TRUE, TypesInv, VolumesInv, [Next]_vars
  PROVE  VolumesInv'
  <1> SUFFICES ASSUME ~NamesCollide'
               PROVE  /\ UnwantedHavePods' /\ VolumesConfigured'
                      /\ \A n \in DOMAIN mr'.sts \cap DOMAIN sts' :
                           mr'.sts[n].volume = sts'[n].volume
    BY DEF VolumesInv
  <1>1. using' = using
    BY DEF Next, UpdateShoot, EditSecret, ReplaceSecret, RenewCertificates, Reconcile, ApplySecrets,
       ApplyStatefulSet, RemoveStatefulSet, StartPod, CollectSecret, External, shoot, vars
  <1>2. ~NamesCollide
    BY <1>1 DEF NamesCollide, Name
  <1>3. /\ UnwantedHavePods /\ VolumesConfigured
        /\ \A n \in DOMAIN mr.sts \cap DOMAIN sts : mr.sts[n].volume = sts[n].volume
    BY <1>2 DEF VolumesInv
  <1>4. DOMAIN pods \subseteq DOMAIN sts
    BY DEF TypesInv
  <1>5. CASE UpdateShoot
    <2>1. PICK new \in Configurations, ref \in GardenSecrets :
            Admitted(new, ref) /\ written' = new
      BY <1>5 DEF UpdateShoot
    <2>2. mr' = mr /\ sts' = sts /\ pods' = pods
      BY <1>5 DEF UpdateShoot, cluster
    <2>3. /\ DOMAIN mr.sts \subseteq WrittenNames
          /\ DOMAIN sts = WrittenNames /\ DOMAIN pods = WrittenNames
      BY <1>2, <1>3, <1>5, UpdateFindsServed
    <2>4. UnwantedHavePods'
      BY <2>2, <2>3 DEF UnwantedHavePods
    <2>5. ASSUME NEW u \in DOMAIN new, Name(u) \in WrittenNames
          PROVE  u \in DOMAIN written /\ VolumeOf(new[u]) = VolumeOf(written[u])
      <3>1. PICK v \in DOMAIN written : Name(v) = Name(u)
        BY <2>5 DEF WrittenNames
      <3>2. u \in using /\ v \in using
        BY <2>1, ConfigurationProperties DEF TypesInv
      <3>3. u = v
        BY <1>2, <3>1, <3>2 DEF NamesCollide
      <3> QED
        BY <2>1, <3>3, AdmittedUpdate DEF VolumeOf, ValidateUpdate
    <2>6. VolumesConfigured'
      <3>1. ASSUME NEW u \in DOMAIN new
            PROVE  /\ Name(u) \in DOMAIN mr.sts => mr.sts[Name(u)].volume = VolumeOf(new[u])
                   /\ Name(u) \in DOMAIN sts => sts[Name(u)].volume = VolumeOf(new[u])
        BY <1>3, <2>3, <2>5 DEF VolumesConfigured
      <3> QED
        BY <2>1, <2>2, <3>1 DEF VolumesConfigured, Name
    <2> QED
      BY <1>3, <2>2, <2>4, <2>6
  <1>6. CASE Reconcile
    <2>1. /\ mr' = Desired /\ sts' = sts /\ pods' = pods /\ written' = written
      BY <1>2, <1>6, DesiredProperties DEF Reconcile, cluster, shoot
    <2>2. WrittenNames' = WrittenNames
      BY <2>1 DEF WrittenNames, Name
    <2>3. UnwantedHavePods'
      BY <1>2, <1>3, <2>1, <2>2, DesiredProperties DEF UnwantedHavePods
    <2>4. ASSUME NEW u \in DOMAIN written
          PROVE  /\ Desired.sts[Name(u)].volume = VolumeOf(written[u])
                 /\ Name(u) \in DOMAIN sts => sts[Name(u)].volume = VolumeOf(written[u])
      BY <1>2, <1>3, DesiredProperties DEF VolumesConfigured
    <2>5. VolumesConfigured'
      BY <2>1, <2>4 DEF VolumesConfigured, Name
    <2>6. ASSUME NEW n \in DOMAIN Desired.sts, n \in DOMAIN sts
          PROVE  Desired.sts[n].volume = sts[n].volume
      <3>1. PICK u \in DOMAIN written : n = Name(u)
        BY <1>2, <2>6, DesiredProperties DEF WrittenNames
      <3> QED
        BY <2>4, <2>6, <3>1
    <2> QED
      BY <2>1, <2>3, <2>5, <2>6
  <1>7. CASE ApplyStatefulSet
    <2>1. PICK n \in DOMAIN mr.sts : sts' = With(sts, n, mr.sts[n])
      BY <1>7 DEF ApplyStatefulSet
    <2>2. mr' = mr /\ pods' = pods /\ written' = written
      BY <1>7 DEF ApplyStatefulSet, External, shoot
    <2>3. WrittenNames' = WrittenNames
      BY <2>2 DEF WrittenNames, Name
    <2>4. /\ DOMAIN sts' = DOMAIN sts \cup {n}
          /\ \A m \in DOMAIN sts' : sts'[m] = IF m = n THEN mr.sts[n] ELSE sts[m]
      BY <2>1 DEF With
    <2>5. UnwantedHavePods'
      BY <1>3, <2>2, <2>3, <2>4 DEF UnwantedHavePods
    <2>6. VolumesConfigured'
      BY <1>3, <2>2, <2>4 DEF VolumesConfigured, Name
    <2> QED
      BY <1>3, <2>2, <2>4, <2>5, <2>6
  <1>8. CASE RemoveStatefulSet
    <2>1. PICK n \in DOMAIN sts \ DOMAIN mr.sts :
            sts' = Without(sts, n) /\ pods' = Without(pods, n)
      BY <1>8 DEF RemoveStatefulSet
    <2>2. mr' = mr /\ written' = written
      BY <1>8 DEF RemoveStatefulSet, External, shoot
    <2>3. WrittenNames' = WrittenNames
      BY <2>2 DEF WrittenNames, Name
    <2>4. /\ DOMAIN sts' = DOMAIN sts \ {n} /\ DOMAIN pods' = DOMAIN pods \ {n}
          /\ \A m \in DOMAIN sts' : sts'[m] = sts[m]
      BY <2>1 DEF Without
    <2>5. UnwantedHavePods'
      BY <1>3, <2>1, <2>2, <2>3, <2>4 DEF UnwantedHavePods
    <2>6. VolumesConfigured'
      BY <1>3, <2>2, <2>4 DEF VolumesConfigured, Name
    <2> QED
      BY <1>3, <2>2, <2>4, <2>5, <2>6
  <1>9. CASE StartPod
    <2>1. sts' = sts /\ mr' = mr /\ written' = written /\ DOMAIN pods \subseteq DOMAIN pods'
      BY <1>9 DEF StartPod, External, shoot, With
    <2>2. UnwantedHavePods'
      BY <1>3, <2>1 DEF UnwantedHavePods, WrittenNames, Name
    <2> QED
      BY <1>3, <2>1, <2>2 DEF VolumesConfigured, Name
  <1>10. CASE UNCHANGED <<written, mr, sts, pods>>
    BY <1>3, <1>10 DEF UnwantedHavePods, WrittenNames, VolumesConfigured, Name
  <1> QED
    BY <1>5, <1>6, <1>7, <1>8, <1>9, <1>10 DEF Next, EditSecret, ReplaceSecret, RenewCertificates,
         ApplySecrets, CollectSecret, External, shoot, cluster, vars

(* An update of a StatefulSet is never refused because of its volume, if   *)
(* the owner waits and no names collide.                                   *)
THEOREM VolumesSafe == ASSUME Prompt = TRUE PROVE Spec => []VolumesMatch
  <1>1. Init => TypesInv /\ VolumesInv
    BY InitTypes DEF Init, NoObjects, VolumesInv, UnwantedHavePods, VolumesConfigured
  <1>2. VolumesInv => VolumesMatch
    BY DEF VolumesInv, VolumesMatch
  <1>3. TypesInv /\ VolumesInv /\ [Next]_vars => VolumesInv'
    BY NextVolumes
  <1> QED
    BY <1>1, <1>2, <1>3, NextTypes, PTL DEF Spec

-----------------------------------------------------------------------------
(* Garbage collection.  What a StatefulSet does about old blobs is told by *)
(* the config.yml that it mounts; the name of a Secret tells its data.     *)

TTLOf(c) == GarbageCollectionTTL(Decoded(c))
Keeps(mounts) == \E s \in mounts : "ttl" \in DOMAIN s.hash /\ s.hash.ttl = 0
Collects(mounts) == \E s \in mounts : "ttl" \in DOMAIN s.hash /\ s.hash.ttl > 0

NamesTellData ==
  /\ \A s \in DOMAIN mr.secrets : mr.secrets[s] = s.hash
  /\ \A s \in DOMAIN live : live[s] = s.hash

OneTTL(f) == \A n \in DOMAIN f : ~(Keeps(f[n].mounts) /\ Collects(f[n].mounts))

(* A disabled garbage collection reaches the volume last: what is kept     *)
(* there, each earlier stage keeps as well.                                *)
KeptInOrder ==
  /\ \A n \in DOMAIN claims : claims[n].kept => Keeps(sts[n].mounts)
  /\ \A n \in DOMAIN mr.sts \cap DOMAIN sts : Keeps(sts[n].mounts) => Keeps(mr.sts[n].mounts)
  /\ \A u \in DOMAIN written :
       /\ Name(u) \in DOMAIN mr.sts /\ Keeps(mr.sts[Name(u)].mounts) => TTLOf(written[u]) = 0
       /\ Name(u) \in DOMAIN sts /\ Keeps(sts[Name(u)].mounts) => TTLOf(written[u]) = 0

CollectorsKeepNothing ==
  \A n \in DOMAIN pods :
    (\E d \in pods[n].read : "ttl" \in DOMAIN d /\ d.ttl > 0) => ~claims[n].kept

ClaimsTyped ==
  \A n \in DOMAIN claims : "kept" \in DOMAIN claims[n] /\ claims[n].kept \in BOOLEAN

ExpiryInv ==
  ~NamesCollide =>
    /\ ClaimsTyped /\ NamesTellData /\ OneTTL(mr.sts) /\ OneTTL(sts)
    /\ KeptInOrder /\ CollectorsKeepNothing

LEMMA MountsProperties ==
  ASSUME TypesInv, NEW u \in DOMAIN written
  PROVE  /\ Keeps(Mounts(u)) <=> TTLOf(written[u]) = 0
         /\ Collects(Mounts(u)) <=> TTLOf(written[u]) > 0
  <1>1. written[u] \in Menu /\ written[u] \in WrittenCaches
    BY ConfigurationProperties DEF TypesInv
  <1>2. Cache(u) = Decoded(written[u])
    BY <1>1, Zenon DEF Cache, DecodedOf
  <1>3. ConfigOf(u).ttl = TTLOf(written[u]) /\ "ttl" \in DOMAIN ConfigOf(u)
    BY <1>2 DEF ConfigOf, TTLOf
  <1>4. "ttl" \notin DOMAIN CertificateOf(u)
    BY DEF CertificateOf
  <1>5. PICK config : config = MakeUnique(Name(u), "config", ConfigOf(u))
    OBVIOUS
  <1>6. config \in Mounts(u) /\ config.hash = ConfigOf(u)
    <2>1. PICK r : r = [name |-> config, data |-> ConfigOf(u)]
      OBVIOUS
    <2>2. r \in SecretsOf(u)
      BY <1>5, <2>1, Zenon DEF SecretsOf
    <2>3. r.name = config
      BY <2>1
    <2>4. config \in Mounts(u)
      BY <2>2, <2>3 DEF Mounts
    <2> QED
      BY <1>5, <2>4 DEF MakeUnique
  <1>7. ASSUME NEW s \in Mounts(u)
        PROVE  s.hash = ConfigOf(u) \/ s.hash = CertificateOf(u)
    BY DEF Mounts, SecretsOf, MakeUnique
  <1>8. \A s \in Mounts(u) : "ttl" \in DOMAIN s.hash => s.hash.ttl = TTLOf(written[u])
    BY <1>3, <1>4, <1>7
  <1>9. "ttl" \in DOMAIN config.hash /\ config.hash.ttl = TTLOf(written[u])
    BY <1>3, <1>6
  <1> QED
    BY <1>6, <1>8, <1>9 DEF Keeps, Collects

LEMMA DesiredSecrets == \A s \in DOMAIN Desired.secrets : Desired.secrets[s] = s.hash
  <1>1. PICK all : all = UNION {SecretsOf(u) : u \in DOMAIN written}
    OBVIOUS
  <1>2. \A s \in all : s.name.hash = s.data
    BY <1>1 DEF SecretsOf, MakeUnique
  <1>3. Desired.secrets = [n \in {s.name : s \in all} |-> (CHOOSE s \in all : s.name = n).data]
    BY <1>1 DEF Desired
  <1> QED
    BY <1>2, <1>3

LEMMA NextExpiry ==
  ASSUME Prompt = TRUE, TypesInv, VolumesInv, ExpiryInv, [Next]_vars
  PROVE  ExpiryInv'
  <1> SUFFICES ASSUME ~NamesCollide'
               PROVE  /\ ClaimsTyped' /\ NamesTellData' /\ OneTTL(mr'.sts) /\ OneTTL(sts')
                      /\ KeptInOrder' /\ CollectorsKeepNothing'
    BY DEF ExpiryInv
  <1>1. using' = using
    BY DEF Next, UpdateShoot, EditSecret, ReplaceSecret, RenewCertificates, Reconcile, ApplySecrets,
       ApplyStatefulSet, RemoveStatefulSet, StartPod, CollectSecret, External, shoot, vars
  <1>2. ~NamesCollide
    BY <1>1 DEF NamesCollide, Name
  <1>3. /\ UnwantedHavePods
        /\ ClaimsTyped /\ NamesTellData /\ OneTTL(mr.sts) /\ OneTTL(sts)
        /\ KeptInOrder /\ CollectorsKeepNothing
    BY <1>2 DEF VolumesInv, ExpiryInv
  <1>4. DOMAIN pods \subseteq DOMAIN sts /\ DOMAIN pods = DOMAIN claims
    BY DEF TypesInv
  <1>5. CASE UpdateShoot
    <2>1. PICK new \in Configurations, ref \in GardenSecrets :
            Admitted(new, ref) /\ written' = new
      BY <1>5 DEF UpdateShoot
    <2>2. UNCHANGED <<mr, live, sts, pods, claims>>
      BY <1>5 DEF UpdateShoot, cluster
    <2>3. /\ DOMAIN mr.sts \subseteq WrittenNames
          /\ DOMAIN sts = WrittenNames /\ DOMAIN pods = WrittenNames
      BY <1>2, <1>3, <1>5, UpdateFindsServed
    <2>4. ASSUME NEW u \in DOMAIN new, Name(u) \in WrittenNames
          PROVE  /\ u \in DOMAIN written
                 /\ TTLOf(written[u]) = 0 => TTLOf(new[u]) = 0
      <3>1. PICK v \in DOMAIN written : Name(v) = Name(u)
        BY <2>4 DEF WrittenNames
      <3>2. u \in using /\ v \in using
        BY <2>1, ConfigurationProperties DEF TypesInv
      <3>3. u = v
        BY <1>2, <3>1, <3>2 DEF NamesCollide
      <3>4. GarbageCollectionTTL(Decoded(new[u])) \in Int
        BY <2>1, ConfigurationProperties, DecodedProperties DEF TypesInv
      <3> QED
        BY <2>1, <3>3, <3>4, AdmittedUpdate DEF TTLOf, ValidateUpdate, GarbageCollectionEnabled
    <2>5. ASSUME NEW u \in DOMAIN new
          PROVE  /\ Name(u) \in DOMAIN mr.sts /\ Keeps(mr.sts[Name(u)].mounts) => TTLOf(new[u]) = 0
                 /\ Name(u) \in DOMAIN sts /\ Keeps(sts[Name(u)].mounts) => TTLOf(new[u]) = 0
      BY <1>3, <2>3, <2>4 DEF KeptInOrder
    <2>6. KeptInOrder'
      BY <1>3, <2>1, <2>2, <2>5 DEF KeptInOrder, Name
    <2> QED
      BY <1>3, <2>2, <2>6 DEF ClaimsTyped, NamesTellData, CollectorsKeepNothing
  <1>6. CASE Reconcile
    <2>1. mr' = Desired /\ UNCHANGED <<written, live, sts, pods, claims>>
      BY <1>2, <1>6, DesiredProperties DEF Reconcile, cluster, shoot
    <2>2. \A u \in DOMAIN written : Desired.sts[Name(u)].mounts = Mounts(u)
      <3>1. \A u \in DOMAIN written : Desired.sts[Name(u)] = StatefulSetOf(u)
        BY <1>2, DesiredProperties, Zenon
      <3>2. \A u : StatefulSetOf(u).mounts = Mounts(u)
        BY DEF StatefulSetOf
      <3> QED
        BY <3>1, <3>2, Zenon
    <2>3. \A n \in DOMAIN Desired.sts : \E u \in DOMAIN written : n = Name(u)
      BY <1>2, DesiredProperties DEF WrittenNames
    <2>4. OneTTL(Desired.sts)
      BY <2>2, <2>3, MountsProperties DEF OneTTL
    <2>5. KeptInOrder'
      <3>1. ASSUME NEW n \in DOMAIN Desired.sts, n \in DOMAIN sts, Keeps(sts[n].mounts)
            PROVE  Keeps(Desired.sts[n].mounts)
        <4>1. PICK u \in DOMAIN written : n = Name(u)
          BY <2>3
        <4> QED
          BY <1>3, <2>2, <3>1, <4>1, MountsProperties DEF KeptInOrder
      <3>2. ASSUME NEW u \in DOMAIN written, Keeps(Desired.sts[Name(u)].mounts)
            PROVE  TTLOf(written[u]) = 0
        BY <2>2, <3>2, MountsProperties
      <3> QED
        BY <1>3, <2>1, <3>1, <3>2 DEF KeptInOrder, Name
    <2> QED
      BY <1>3, <2>1, <2>4, <2>5, DesiredSecrets
         DEF ClaimsTyped, NamesTellData, CollectorsKeepNothing
  <1>7. CASE ApplyStatefulSet
    <2>1. PICK n \in DOMAIN mr.sts : sts' = With(sts, n, mr.sts[n])
      BY <1>7 DEF ApplyStatefulSet
    <2>2. UNCHANGED <<written, mr, live, pods, claims>>
      BY <1>7 DEF ApplyStatefulSet, External, shoot
    <2>3. /\ DOMAIN sts' = DOMAIN sts \cup {n}
          /\ \A m \in DOMAIN sts' : sts'[m] = IF m = n THEN mr.sts[n] ELSE sts[m]
      BY <2>1 DEF With
    <2>4. OneTTL(sts')
      BY <1>3, <2>3 DEF OneTTL
    <2>5. KeptInOrder'
      BY <1>3, <1>4, <2>2, <2>3 DEF KeptInOrder, Name
    <2> QED
      BY <1>3, <2>2, <2>4, <2>5 DEF ClaimsTyped, NamesTellData, CollectorsKeepNothing
  <1>8. CASE RemoveStatefulSet
    <2>1. PICK n : /\ sts' = Without(sts, n) /\ pods' = Without(pods, n)
                   /\ claims' = Without(claims, n)
      BY <1>8 DEF RemoveStatefulSet, ClaimsAfterRemoval
    <2>2. UNCHANGED <<written, mr, live>>
      BY <1>8 DEF RemoveStatefulSet, External, shoot
    <2>3. /\ DOMAIN sts' = DOMAIN sts \ {n} /\ \A m \in DOMAIN sts' : sts'[m] = sts[m]
          /\ DOMAIN pods' = DOMAIN pods \ {n} /\ \A m \in DOMAIN pods' : pods'[m] = pods[m]
          /\ DOMAIN claims' = DOMAIN claims \ {n}
          /\ \A m \in DOMAIN claims' : claims'[m] = claims[m]
      BY <2>1 DEF Without
    <2>4. KeptInOrder'
      BY <1>3, <1>4, <2>2, <2>3 DEF KeptInOrder, Name
    <2>5. CollectorsKeepNothing'
      BY <1>3, <1>4, <2>3 DEF CollectorsKeepNothing
    <2>6. OneTTL(sts') /\ ClaimsTyped'
      BY <1>3, <2>3 DEF OneTTL, ClaimsTyped
    <2> QED
      BY <1>3, <2>2, <2>4, <2>5, <2>6 DEF NamesTellData
  <1>9. CASE StartPod
    <2>1. PICK n, read, keeps :
            /\ n \in DOMAIN sts
            /\ sts[n].mounts \subseteq DOMAIN live
            /\ read = {live[s] : s \in sts[n].mounts}
            /\ keeps \in BOOLEAN /\ keeps = (\E d \in read : "ttl" \in DOMAIN d /\ d.ttl = 0)
            /\ pods' = With(pods, n, [mounts |-> sts[n].mounts, read |-> read,
                                      annotations |-> sts[n].annotations])
            /\ claims' = With(claims, n, IF n \in DOMAIN claims
                                         THEN [claims[n] EXCEPT !.kept = @ \/ keeps]
                                         ELSE [volume |-> sts[n].volume, kept |-> keeps])
      BY <1>9, Zenon DEF StartPod
    <2>2. UNCHANGED <<written, mr, live, sts>>
      BY <1>9 DEF StartPod, External, shoot
    <2>3. read = {s.hash : s \in sts[n].mounts}
      BY <1>3, <2>1 DEF NamesTellData
    <2>4. keeps => Keeps(sts[n].mounts)
      BY <2>1, <2>3 DEF Keeps
    <2>5. (\E d \in read : "ttl" \in DOMAIN d /\ d.ttl > 0) => Collects(sts[n].mounts)
      BY <2>3 DEF Collects
    <2>6. /\ DOMAIN claims' = DOMAIN claims \cup {n}
          /\ claims'[n] = IF n \in DOMAIN claims THEN [claims[n] EXCEPT !.kept = @ \/ keeps]
                          ELSE [volume |-> sts[n].volume, kept |-> keeps]
          /\ \A m \in DOMAIN claims \ {n} : claims'[m] = claims[m]
      BY <2>1, Zenon DEF With
    <2>7. /\ "kept" \in DOMAIN claims'[n] /\ claims'[n].kept \in BOOLEAN
          /\ claims'[n].kept => Keeps(sts[n].mounts)
      <3>1. CASE n \in DOMAIN claims
        <4>1. "kept" \in DOMAIN claims'[n] /\ claims'[n].kept = (claims[n].kept \/ keeps)
          BY <1>3, <2>6, <3>1 DEF ClaimsTyped
        <4>2. claims[n].kept => Keeps(sts[n].mounts)
          BY <1>3, <3>1, Zenon DEF KeptInOrder
        <4>3. claims'[n].kept \in BOOLEAN
          BY <4>1, Zenon
        <4>4. claims'[n].kept => Keeps(sts[n].mounts)
          BY <2>4, <4>1, <4>2, Zenon
        <4> QED
          BY <4>1, <4>3, <4>4, Zenon
      <3>2. CASE n \notin DOMAIN claims
        <4>1. claims'[n] = [volume |-> sts[n].volume, kept |-> keeps]
          BY <2>6, <3>2, Zenon
        <4>2. "kept" \in DOMAIN claims'[n] /\ claims'[n].kept = keeps
          BY <4>1
        <4> QED
          BY <2>1, <2>4, <4>2, Zenon
      <3> QED
        BY <3>1, <3>2
    <2>8. /\ DOMAIN pods' = DOMAIN pods \cup {n} /\ pods'[n].read = read
          /\ \A m \in DOMAIN pods \ {n} : pods'[m] = pods[m]
      BY <2>1 DEF With
    <2>9. ~(Keeps(sts[n].mounts) /\ Collects(sts[n].mounts))
      BY <1>3, <2>1 DEF OneTTL
    <2>10. KeptInOrder'
      <3>1. ASSUME NEW m \in DOMAIN claims', claims'[m].kept PROVE Keeps(sts[m].mounts)
        <4>1. CASE m = n
          BY <2>6, <2>7, <3>1, <4>1, Zenon
        <4>2. CASE m # n
          BY <1>3, <2>6, <3>1, <4>2 DEF KeptInOrder
        <4> QED
          BY <4>1, <4>2
      <3> QED
        BY <1>3, <2>2, <3>1 DEF KeptInOrder, Name
    <2>11. CollectorsKeepNothing'
      <3>1. ASSUME NEW m \in DOMAIN pods', \E d \in pods'[m].read : "ttl" \in DOMAIN d /\ d.ttl > 0
            PROVE  ~claims'[m].kept
        <4>1. CASE m = n
          <5>1. Collects(sts[n].mounts)
            BY <2>5, <2>8, <3>1, <4>1, Zenon
          <5> QED
            BY <2>6, <2>7, <2>9, <4>1, <5>1, Zenon
        <4>2. CASE m # n
          BY <1>3, <1>4, <2>6, <2>8, <3>1, <4>2 DEF CollectorsKeepNothing
        <4> QED
          BY <4>1, <4>2
      <3> QED
        BY <3>1 DEF CollectorsKeepNothing
    <2>12. ClaimsTyped'
      BY <1>3, <2>6, <2>7 DEF ClaimsTyped
    <2> QED
      BY <1>3, <2>2, <2>10, <2>11, <2>12 DEF NamesTellData
  <1>10. CASE ApplySecrets
    BY <1>3, <1>10 DEF ApplySecrets, External, shoot, ClaimsTyped, NamesTellData, KeptInOrder,
       CollectorsKeepNothing, Name
  <1>11. CASE CollectSecret
    BY <1>3, <1>11
       DEF CollectSecret, Without, External, shoot, ClaimsTyped, NamesTellData, KeptInOrder,
       CollectorsKeepNothing, Name
  <1>12. CASE UNCHANGED <<written, mr, live, sts, pods, claims>>
    BY <1>3, <1>12 DEF ClaimsTyped, NamesTellData, KeptInOrder, CollectorsKeepNothing, Name
  <1> QED
    BY <1>5, <1>6, <1>7, <1>8, <1>9, <1>10, <1>11, <1>12 DEF Next, EditSecret,
       ReplaceSecret, RenewCertificates, shoot, cluster, vars

(* A cache that collects garbage has no blobs in its volume that were      *)
(* stored while it did not, if the owner waits and no names collide.       *)
THEOREM ExpirySafe == ASSUME Prompt = TRUE PROVE Spec => []ExpiryNotReenabled
  <1>1. Init => TypesInv /\ VolumesInv
    BY InitTypes DEF Init, NoObjects, VolumesInv, UnwantedHavePods, VolumesConfigured
  <1>2. Init => ExpiryInv
    BY DEF Init, NoObjects, ExpiryInv, ClaimsTyped, NamesTellData, OneTTL, KeptInOrder,
           CollectorsKeepNothing
  <1>3. ExpiryInv => ExpiryNotReenabled
    BY DEF ExpiryInv, ExpiryNotReenabled, CollectorsKeepNothing
  <1>4. TypesInv /\ VolumesInv /\ [Next]_vars => VolumesInv'
    BY NextVolumes
  <1>5. TypesInv /\ VolumesInv /\ ExpiryInv /\ [Next]_vars => ExpiryInv'
    BY NextExpiry
  <1> QED
    BY <1>1, <1>2, <1>3, <1>4, <1>5, NextTypes, PTL DEF Spec

=============================================================================
