--------------------------- MODULE ShootAdmission ---------------------------
(***************************************************************************)
(* Which relations between the caches and the mirrors of a Shoot the       *)
(* admission webhooks of registry-cache and registry-mirror keep, over all *)
(* sequences of changes they let through (pkg/admission and the validation *)
(* packages of pkg/apis).                                                  *)
(*                                                                         *)
(* Every Update of the Shoot runs both validators in full.  Abstracted:    *)
(* fields are well-formed on their own and may be updated as they are      *)
(* (RegistryConfig and RegistryCacheObjects have these rules); a reference *)
(* stands for the entry of spec.resources and the Secret behind it.        *)
(***************************************************************************)
EXTENDS Integers, Sequences, FiniteSets

CONSTANTS
  Upstreams,    \* upstreams of caches and mirrors
  Names,        \* names of Services and StatefulSets
  DefaultName,  \* the name computed from an upstream: not injective
  Suffixes,     \* names a serviceNameSuffix may ask for
  NoName,       \* no serviceNameSuffix
  Refs, NoRef,  \* references to credentials
  MaxCaches     \* bound: caches in one configuration

ASSUME DefaultNameAssumption == DefaultName \in [Upstreams -> Names]
ASSUME SuffixesAssumption == Suffixes \subseteq Names /\ NoName \notin Names
ASSUME RefsAssumption == NoRef \notin Refs
ASSUME CachesAssumption == MaxCaches \in Nat

-----------------------------------------------------------------------------
CacheSpecs ==
  [upstream : Upstreams, suffix : Suffixes \cup {NoName}, ref : Refs \cup {NoRef}]

(* The extension is not enabled when it has no caches.                     *)
Configurations == UNION {[1..n -> CacheSpecs] : n \in 0..MaxCaches}
Credentials == {"valid", "invalid", "absent"}

ServiceName(c) == IF c.suffix = NoName THEN DefaultName[c.upstream] ELSE c.suffix
Positions(s) == 1..Len(s)

VARIABLES
  caches,      \* providerConfig.caches of registry-cache
  mirrors,     \* upstreams of the registry-mirror extension
  resources,   \* the credentials each reference leads to
  touched      \* resources have changed since caches were admitted

vars == <<caches, mirrors, resources, touched>>

Init ==
  /\ caches = <<>> /\ mirrors = {} /\ touched = FALSE
  /\ resources \in [Refs -> Credentials]

-----------------------------------------------------------------------------
(* ValidateRegistryConfig: two loops over the caches.  What the loops have *)
(* collected when they are at the i-th cache:                              *)

UpstreamsBefore(s, i) == {s[k].upstream : k \in 1..i-1}
SuffixesBefore(s, i)  == {s[k].suffix : k \in 1..i-1} \ {NoName}
NamesWithin(s, n) == {ServiceName(s[k]) : k \in {j \in 1..n : s[j].suffix = NoName}}

(* Mutant: one loop that collects and compares.                            *)
AllocatedNamesBefore(s, i) == NamesWithin(s, i - 1)

(* The first loop has collected the names of all caches without a suffix   *)
(* before the second one compares.                                         *)
AllocatedNames(s, i) == NamesWithin(s, Len(s))

ValidConfig(s) ==
  \A i \in Positions(s) :
    /\ s[i].upstream \notin UpstreamsBefore(s, i)
    /\ s[i].suffix # NoName =>
         /\ s[i].suffix \notin SuffixesBefore(s, i)
         /\ ServiceName(s[i]) \notin AllocatedNames(s, i)

(* Mutant: the Secrets behind the references are not looked at.            *)
CredentialsIgnored(s, res) == TRUE

ValidCredentials(s, res) ==
  \A i \in Positions(s) : s[i].ref # NoRef => res[s[i].ref] = "valid"

(* shoot.Validate of registry-cache: an unchanged configuration is let     *)
(* through unseen.                                                         *)
CacheAdmitted(new, newResources) ==
  \/ new = <<>>
  \/ new = caches
  \/ ValidConfig(new) /\ ValidCredentials(new, newResources)

(* shoot.Validate of registry-mirror: no upstream is both cached and       *)
(* mirrored.                                                               *)
MirrorAdmitted(new, newMirrors) ==
  \A i \in Positions(new) : new[i].upstream \notin newMirrors

UpdateShoot ==
  /\ \E new \in Configurations, newResources \in [Refs -> Credentials] :
       /\ CacheAdmitted(new, newResources)
       /\ caches' = new /\ resources' = newResources
       /\ touched' = (new = caches /\ (touched \/ newResources # resources))
       /\ \E newMirrors \in SUBSET Upstreams :
            MirrorAdmitted(new, newMirrors) /\ mirrors' = newMirrors

(* A Secret is replaced or deleted while the Shoot refers to it.           *)
ChangeSecret ==
  /\ resources' \in [Refs -> Credentials] /\ resources' # resources
  /\ touched' = TRUE
  /\ UNCHANGED <<caches, mirrors>>

-----------------------------------------------------------------------------
(* What the two components need: a Service and a StatefulSet of its own    *)
(* for every cache, and the Secret of every reference.                     *)
Deployable(s) ==
  /\ \A i, j \in Positions(s) :
       ServiceName(s[i]) = ServiceName(s[j])
         \/ DefaultName[s[i].upstream] = DefaultName[s[j].upstream] => i = j
  /\ \A i \in Positions(s) : s[i].ref # NoRef => resources[s[i].ref] # "absent"

Next == UpdateShoot \/ ChangeSecret

Spec == Init /\ [][Next]_vars

-----------------------------------------------------------------------------
(* A cache whose Service has a name of its own choice shares it with no    *)
(* other cache, in whatever order the caches are listed.                   *)
SuffixedServiceUnshared ==
  \A i, j \in Positions(caches) :
    caches[i].suffix # NoName /\ ServiceName(caches[i]) = ServiceName(caches[j]) => i = j

(* An admitted configuration can be deployed, unless two upstreams have    *)
(* the same computed name, or a reference or its Secret was changed        *)
(* without or after the configuration.                                     *)
AdmittedIsDeployable ==
  ~touched /\ (\A i, j \in Positions(caches) :
                 DefaultName[caches[i].upstream] = DefaultName[caches[j].upstream] => i = j)
    => Deployable(caches)

=============================================================================
