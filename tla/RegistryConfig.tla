--------------------------- MODULE RegistryConfig ---------------------------
(***************************************************************************)
(* One cache of a RegistryConfig: what its owner writes, what the          *)
(* admission and the actuator decode from it (types and defaults of        *)
(* v1alpha3), the helpers that read it and the rules that validate it.     *)
(* Abstracted: URLs of remotes and proxies are well-formed and belong to   *)
(* the upstream; sizes and TTLs are numbers.                               *)
(***************************************************************************)
EXTENDS RegistryNames, FiniteSets

CONSTANTS StorageClasses

Optional(S) == S \cup {Nil}

(* What an owner may write; an empty object leaves its field unset.        *)
WrittenCaches ==
  [volume : Optional([size : Optional(Int), class : Optional(StorageClasses)]),
   garbageCollection : Optional([ttl : Optional(Int)]),
   http : Optional([tls : Optional(BOOLEAN)]),
   secretReferenceName : Optional({"credentials"}),
   serviceNameSuffix : Optional(Seq(Char))]

(* Fields that are no pointers have their zero value when unset.           *)
Unmarshalled(c) ==
  [c EXCEPT !.garbageCollection = IF @ # Nil /\ @.ttl = Nil THEN [ttl |-> 0] ELSE @,
            !.http = IF @ # Nil /\ @.tls = Nil THEN [tls |-> FALSE] ELSE @]

DefaultTTL == 7 * 24
DefaultCacheSize == 10

(* SetDefaults_RegistryCache, then SetDefaults_Volume.                     *)
SetDefaults(c) ==
  [c EXCEPT !.volume = [size |-> IF @ = Nil \/ @.size = Nil THEN DefaultCacheSize ELSE @.size,
                        class |-> IF @ = Nil THEN Nil ELSE @.class],
            !.garbageCollection = IF @ = Nil THEN [ttl |-> DefaultTTL] ELSE @,
            !.http = IF @ = Nil THEN [tls |-> TRUE] ELSE @]

Decoded(c) == SetDefaults(Unmarshalled(c))

-----------------------------------------------------------------------------
(* The helpers, which also stand a cache without defaults.                 *)

GarbageCollectionTTL(c) ==
  IF c.garbageCollection = Nil THEN DefaultTTL ELSE c.garbageCollection.ttl
GarbageCollectionEnabled(c) == GarbageCollectionTTL(c) > 0
VolumeSize(c) == IF c.volume = Nil THEN Nil ELSE c.volume.size
VolumeStorageClassName(c) == IF c.volume = Nil THEN Nil ELSE c.volume.class
TLSEnabled(c) == c.http = Nil \/ c.http.tls

-----------------------------------------------------------------------------
(* The validation of one cache and of its update.                          *)

ValidateRegistryCache(u, c) ==
  /\ ValidateHostPort(u)
  /\ VolumeSize(c) # Nil => VolumeSize(c) > 0
  /\ GarbageCollectionTTL(c) >= 0
  /\ ValidateServiceNameSuffix(c.serviceNameSuffix)

(* Mutant: the StorageClass may change.                                    *)
ValidateUpdateOfSize(old, new) ==
  /\ VolumeSize(old) = VolumeSize(new)
  /\ GarbageCollectionEnabled(new) => GarbageCollectionEnabled(old)

(* Mutant: garbage collection may be enabled again.                        *)
ValidateUpdateOfVolume(old, new) ==
  /\ VolumeSize(old) = VolumeSize(new)
  /\ VolumeStorageClassName(old) = VolumeStorageClassName(new)

ValidateUpdate(old, new) ==
  /\ VolumeSize(old) = VolumeSize(new)
  /\ VolumeStorageClassName(old) = VolumeStorageClassName(new)
  /\ GarbageCollectionEnabled(new) => GarbageCollectionEnabled(old)

-----------------------------------------------------------------------------
(* Secrets with credentials.  A username or a password is told by what the *)
(* validation and the template look at; a service account key by whether   *)
(* it has only the fields that are allowed.                                *)

Usernames == {"empty", "blank", "spaced", "plain", "_json_key"}
Passwords == {"empty", "blank", "plain", "key", "forbidden key"}

CredentialSecrets ==
  [immutable : BOOLEAN, username : Optional(Usernames), password : Optional(Passwords),
   others : BOOLEAN]

(* Mutant: the Secret may be mutable.                                      *)
ValidateSecretData(s) ==
  /\ s.username \in {"plain", "_json_key"} /\ s.password \notin {Nil, "empty", "blank"}
  /\ ~s.others
  /\ s.username = "_json_key" => s.password = "key"

(* Immutable, with a username, a password and nothing else; the username   *)
(* has no whitespace, and that of a service account comes with its key.    *)
ValidateUpstreamRegistrySecret(s) ==
  /\ s.immutable /\ ~s.others
  /\ s.username \in {"plain", "_json_key"} /\ s.password \notin {Nil, "empty", "blank"}
  /\ s.username = "_json_key" => s.password = "key"

(* An optional field that is not set can be told from any value.           *)
ASSUME NilAssumption ==
  /\ Nil \notin Int \cup Usernames \cup Passwords
  /\ Nil \notin [size : Optional(Int), class : Optional(StorageClasses)]
  /\ Nil \notin [username : Usernames, password : Passwords]

=============================================================================
