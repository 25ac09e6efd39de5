--------------------------- MODULE RegistryMirror ---------------------------
(***************************************************************************)
(* The registry-mirror extension: its Shoot validator, and its             *)
(* OperatingSystemConfig webhook (pkg/webhook/mirror) that turns mirror    *)
(* hosts and the Secrets they refer to into containerd registries and CA   *)
(* files.  Its actuator does nothing.                                      *)
(*                                                                         *)
(* External: gardenlet writes the Shoot into the Cluster, copies the       *)
(* Secrets it refers to and the configuration to the seed, one after the   *)
(* other, and then writes the OperatingSystemConfig; other controllers     *)
(* patch its metadata; overlapping writes are retried, so that one         *)
(* admission request at a time counts.  Abstracted: capabilities and       *)
(* overridePath are copied; a Secret is the bundle in it; a Shoot lists    *)
(* the references that its mirrors use; the Secrets of all hosts are read  *)
(* in one step, since only requests that a later one of gardenlet replaces *)
(* can see some of them before and some after they are copied.             *)
(***************************************************************************)
EXTENDS Integers, Sequences

CONSTANTS
  Upstreams,
  URLs,              \* host URLs behind their scheme
  SanitizedUpstream, \* ":" replaced by "-": not injective
  SanitizedURL,      \* ":" and "/" replaced by "-": not injective
  Long,              \* sanitized URLs that are too long for a file name
  Hash,              \* first characters of the hash of a host
  CutName,           \* first bytes of a long one, "-" and a hash: a short one
                     \* may be written like it
  Refs, NoRef,       \* references to Secrets
  Bundles, NoFile,   \* PEM-encoded CA bundles
  MaxMirrors,        \* bound: mirrors in a configuration
  MaxHosts,          \* bound: hosts of a mirror
  MaxChanges         \* bound: updates of the Shoot and of its Secrets

Hosts == [scheme : {"http", "https"}, url : URLs]

ASSUME MirrorBoundsAssumption ==
  MaxMirrors \in Nat /\ MaxHosts \in Nat /\ MaxChanges \in Nat
ASSUME NamesAssumption ==
  Upstreams \subseteq DOMAIN SanitizedUpstream /\ URLs \subseteq DOMAIN SanitizedURL
ASSUME HashAssumption ==
  /\ DOMAIN Hash = Hosts
  /\ \A h \in Hosts : SanitizedURL[h.url] \in Long =>
       <<SanitizedURL[h.url], Hash[h]>> \in DOMAIN CutName
ASSUME MarkersAssumption ==
  /\ NoRef \notin Refs
  /\ {NoFile, "absent"} \cap (Bundles \cup {"keyless", "malformed"}) = {} /\ NoFile # "absent"

-----------------------------------------------------------------------------
HostConfigs == [host : Hosts, ref : Refs \cup {NoRef}]
Mirrors == [upstream : Upstreams, hosts : UNION {[1..n -> HostConfigs] : n \in 0..MaxHosts}]

(* The extension is not enabled when it has no mirrors.                    *)
MirrorConfigs == UNION {[1..n -> Mirrors] : n \in 0..MaxMirrors}

(* "keyless" has no bundle.crt, "malformed" is not PEM.                    *)
Contents == Bundles \cup {"keyless", "malformed"}

(* Mutant: the scheme is not told apart when names are cut.                *)
SanitizedHostByURL(host) ==
  IF SanitizedURL[host.url] \in Long
  THEN CutName[SanitizedURL[host.url], Hash[[host EXCEPT !.scheme = "https"]]]
  ELSE SanitizedURL[host.url]

(* The scheme is dropped, and a name that is too long is cut and made      *)
(* distinct by the hash of the whole host.                                 *)
SanitizedHost(host) ==
  IF SanitizedURL[host.url] \in Long
  THEN CutName[SanitizedURL[host.url], Hash[host]]
  ELSE SanitizedURL[host.url]

CABundlePath(upstream, host) == <<SanitizedUpstream[upstream], SanitizedHost(host)>>
Paths == {CABundlePath(u, h) : u \in Upstreams, h \in Hosts}

(* A position in a configuration: of a mirror, and of a host in it.        *)
Positions == (1..MaxMirrors) \X (1..MaxHosts)
PathAt(c, x) == CABundlePath(c[x[1]].upstream, c[x[1]].hosts[x[2]].host)
RefAt(c, x)  == c[x[1]].hosts[x[2]].ref

(* The position a loop over mirrors and hosts gets to last.                *)
LastOf(positions) ==
  CHOOSE x \in positions :
    \A y \in positions : y[1] < x[1] \/ (y[1] = x[1] /\ y[2] <= x[2])

(* Mutant: the loop ends with the first host of a mirror.                  *)
CAHostsFirst(c) ==
  {x \in Positions : x[1] \in DOMAIN c /\ x[2] \in DOMAIN c[x[1]].hosts /\ x[2] = 1
                       /\ RefAt(c, x) # NoRef}

(* The hosts with a CA bundle.                                             *)
CAHosts(c) ==
  {x \in Positions : x[1] \in DOMAIN c /\ x[2] \in DOMAIN c[x[1]].hosts /\ RefAt(c, x) # NoRef}

(* The references to Secrets of a Shoot with these mirrors.                *)
RefsOf(c) == {RefAt(c, x) : x \in CAHosts(c)}

VARIABLES
  config,     \* providerConfig of the Shoot
  secrets,    \* Secrets of the references, in the garden
  replaced,   \* a Secret was replaced after the configuration was admitted
  cluster,    \* the mirrors of the Shoot in the Cluster
  seed,       \* copies of the Secrets in the seed
  extension,  \* Extension.spec.providerConfig in the seed
  deleting,   \* the Shoot has a deletion timestamp
  osc,        \* the OperatingSystemConfig: registries and files
  hook,       \* the admission request that is being served
  flow,       \* next step of gardenlet's flow
  changes

shootVars == <<config, secrets, replaced, deleting, changes>>
seedVars == <<cluster, seed, extension>>
vars == <<shootVars, seedVars, osc, hook, flow>>

Spec0 == [present |-> TRUE, registries |-> [u \in Upstreams |-> <<>>],
          files |-> [p \in Paths |-> NoFile]]
Gone  == [Spec0 EXCEPT !.present = FALSE]

NoHook ==
  [purpose |-> "none", mutate |-> FALSE, resources |-> {}, todo |-> {}, osc |-> Gone]

Init ==
  /\ config = <<>> /\ cluster = <<>> /\ extension = <<>>
  /\ replaced = FALSE /\ deleting = FALSE
  /\ secrets \in [Refs -> Contents] /\ seed = [r \in Refs |-> "absent"]
  /\ osc = Spec0 /\ hook = NoHook /\ flow = "done" /\ changes = 0

-----------------------------------------------------------------------------
(* ValidateMirrorConfig and the Shoot validator.                           *)

ValidMirrorConfig(c) ==
  /\ \A i, j \in DOMAIN c : c[i].upstream = c[j].upstream => i = j
  /\ \A i \in DOMAIN c :
       /\ c[i].hosts # <<>>
       /\ \A j, k \in DOMAIN c[i].hosts : c[i].hosts[j].host = c[i].hosts[k].host => j = k

(* Mutant: the data key of the Secret is not looked at.                    *)
ValidCABundlesAnyKey(c, contents) ==
  \A x \in CAHosts(c) : contents[RefAt(c, x)] # "malformed"

ValidCABundles(c, contents) == \A x \in CAHosts(c) : contents[RefAt(c, x)] \in Bundles

Change == changes < MaxChanges /\ changes' = changes + 1

UpdateShoot ==
  /\ ~deleting /\ Change
  /\ config' \in {c \in MirrorConfigs : ValidMirrorConfig(c) /\ ValidCABundles(c, secrets)}
  /\ replaced' = FALSE
  /\ UNCHANGED <<secrets, deleting, seedVars, osc, hook, flow>>

(* The Secrets are immutable, but may be deleted and created again.        *)
ReplaceSecret(r) ==
  /\ Change
  /\ \E content \in Contents \ {secrets[r]} : secrets' = [secrets EXCEPT ![r] = content]
  /\ replaced' = TRUE
  /\ UNCHANGED <<config, deleting, seedVars, osc, hook, flow>>

DeleteShoot ==
  /\ ~deleting /\ Change /\ deleting' = TRUE
  /\ UNCHANGED <<config, secrets, replaced, seedVars, osc, hook, flow>>

-----------------------------------------------------------------------------
(* The webhook.                                                            *)

(* Mutant: the deletion timestamp is ignored.                              *)
ShouldMutateDeleting == TRUE

(* The Cluster is read once per request.                                   *)
ShouldMutate == ~deleting

(* The webhook is called for namespaces with the extension enabled; the    *)
(* label of a Shoot that is deleted stays.                                 *)
Serve(purpose, spec) ==
  hook' = [purpose |-> purpose, mutate |-> ShouldMutate, osc |-> spec,
           resources |-> RefsOf(cluster),
           todo |-> IF extension = <<>> /\ ~deleting THEN {}
                    ELSE {"EnsureCRIConfig", "EnsureAdditionalFiles"}]

(* Mutant: the write is admitted although an ensurer has failed.           *)
DenyIgnored == hook' = [hook EXCEPT !.todo = {}] /\ UNCHANGED flow

(* gardenlet begins its flow anew when a write is denied.                  *)
Deny ==
  /\ hook' = NoHook
  /\ flow' = IF hook.purpose = "deploy" THEN "denied" ELSE flow

Ensured(ensurer, spec) ==
  /\ hook' = [hook EXCEPT !.todo = hook.todo \ {ensurer}, !.osc = spec]
  /\ UNCHANGED flow

HostEntries(mirror) ==
  [j \in DOMAIN mirror.hosts |->
     [host |-> mirror.hosts[j].host,
      ca   |-> IF mirror.hosts[j].ref = NoRef THEN NoFile
               ELSE CABundlePath(mirror.upstream, mirror.hosts[j].host)]]

(* The registry of a mirror replaces that of its upstream, or is added.    *)
WithMirrors(registries) ==
  [u \in Upstreams |->
     LET mirrors == {i \in DOMAIN extension : extension[i].upstream = u} IN
     IF mirrors = {} THEN registries[u]
     ELSE HostEntries(extension[CHOOSE i \in mirrors : \A k \in mirrors : k <= i])]

EnsureCRIConfig ==
  /\ "EnsureCRIConfig" \in hook.todo
  /\ IF ~hook.mutate THEN Ensured("EnsureCRIConfig", hook.osc)
     ELSE IF extension = <<>> THEN Deny
     ELSE Ensured("EnsureCRIConfig",
            [hook.osc EXCEPT !.registries = WithMirrors(hook.osc.registries)])
  /\ UNCHANGED <<shootVars, seedVars, osc>>

(* Files of the same name replace each other, in the order of the hosts.   *)
WithFiles(files) ==
  [p \in Paths |->
     LET named == {x \in CAHosts(extension) : PathAt(extension, x) = p} IN
     IF named = {} THEN files[p] ELSE seed[RefAt(extension, LastOf(named))]]

(* The Cluster lacks the reference, the seed the Secret, or this its key.  *)
(* Cluster, Extension and Secrets are read one after the other.            *)
Unreadable(x) ==
  \/ RefAt(extension, x) \notin hook.resources
  \/ seed[RefAt(extension, x)] \in {"absent", "keyless"}

EnsureAdditionalFiles ==
  /\ "EnsureAdditionalFiles" \in hook.todo
  /\ IF ~hook.mutate THEN Ensured("EnsureAdditionalFiles", hook.osc)
     ELSE IF extension = <<>> \/ \E x \in CAHosts(extension) : Unreadable(x) THEN Deny
     ELSE Ensured("EnsureAdditionalFiles",
            [hook.osc EXCEPT !.files = WithFiles(hook.osc.files)])
  /\ UNCHANGED <<shootVars, seedVars, osc>>

Admit ==
  /\ hook.purpose # "none" /\ hook.todo = {}
  /\ osc' = IF hook.purpose = "finalize" THEN Gone ELSE hook.osc
  /\ hook' = NoHook
  /\ flow' = IF hook.purpose = "deploy" THEN "done" ELSE flow
  /\ UNCHANGED <<shootVars, seedVars>>

-----------------------------------------------------------------------------
(* gardenlet and the other writers.                                        *)

BeginFlow ==
  /\ ~deleting
  /\ \/ flow = "denied"
     \/ flow = "done" /\ config # cluster
     \/ flow = "done" /\ \E r \in RefsOf(config) : seed[r] # secrets[r]
  /\ cluster' = config /\ flow' = "secrets"
  /\ UNCHANGED <<shootVars, seed, extension, osc, hook>>

(* Copies of Secrets that the Shoot no longer refers to are deleted.       *)
SyncSecrets ==
  /\ flow = "secrets" /\ ~deleting /\ flow' = "extension"
  /\ seed' = [r \in Refs |-> IF r \in RefsOf(cluster) THEN secrets[r] ELSE "absent"]
  /\ UNCHANGED <<shootVars, cluster, extension, osc, hook>>

SyncExtension ==
  /\ flow = "extension" /\ ~deleting /\ extension' = cluster /\ flow' = "osc"
  /\ UNCHANGED <<shootVars, cluster, seed, osc, hook>>

DeployOSC ==
  /\ flow = "osc" /\ ~deleting /\ Serve("deploy", Spec0) /\ flow' = "deploying"
  /\ UNCHANGED <<shootVars, seedVars, osc>>

TouchOSC ==
  /\ hook.purpose = "none" /\ osc.present /\ Serve("touch", osc)
  /\ UNCHANGED <<shootVars, seedVars, osc, flow>>

(* The Extension of a Shoot that is deleted goes before or after its       *)
(* OperatingSystemConfig, whose finalizer is removed by one more update.   *)
DeleteExtension ==
  /\ deleting /\ extension # <<>> /\ extension' = <<>>
  /\ UNCHANGED <<shootVars, cluster, seed, osc, hook, flow>>

RemoveFinalizer ==
  /\ deleting /\ osc.present /\ hook.purpose \in {"none", "touch"}
  /\ Serve("finalize", osc)
  /\ UNCHANGED <<shootVars, seedVars, osc, flow>>

Deleted == deleting /\ ~osc.present /\ UNCHANGED vars

Flow == BeginFlow \/ SyncSecrets \/ SyncExtension \/ DeployOSC
Webhook == EnsureCRIConfig \/ EnsureAdditionalFiles \/ Admit
Environment ==
  \/ UpdateShoot \/ DeleteShoot \/ TouchOSC
  \/ \E r \in Refs : ReplaceSecret(r)

Next == Flow \/ Webhook \/ Environment \/ DeleteExtension \/ RemoveFinalizer \/ Deleted

Spec == Init /\ [][Next]_vars

(* Requests are answered, gardenlet goes on, and what has to be deleted is *)
(* deleted.                                                                *)
Fairness ==
  WF_vars(Flow) /\ WF_vars(Webhook) /\ WF_vars(DeleteExtension) /\ WF_vars(RemoveFinalizer)

FairSpec == Spec /\ Fairness

-----------------------------------------------------------------------------
(* The inductive invariant of the properties below.                        *)

Entries == UNION {[1..n -> [host : Hosts, ca : Paths \cup {NoFile}]] : n \in 0..MaxHosts}
OSCs == [present : BOOLEAN, registries : [Upstreams -> Entries],
         files : [Paths -> Contents \cup {"absent", NoFile}]]

(* Every variable has its type.                                            *)
TypeOK ==
  /\ config \in MirrorConfigs /\ cluster \in MirrorConfigs /\ extension \in MirrorConfigs
  /\ secrets \in [Refs -> Contents] /\ seed \in [Refs -> Contents \cup {"absent"}]
  /\ replaced \in BOOLEAN /\ deleting \in BOOLEAN /\ changes \in 0..MaxChanges
  /\ osc \in OSCs
  /\ hook \in [purpose : {"none", "touch", "deploy", "finalize"}, mutate : BOOLEAN,
               resources : SUBSET Refs,
               todo : SUBSET {"EnsureCRIConfig", "EnsureAdditionalFiles"}, osc : OSCs]
  /\ flow \in {"done", "secrets", "extension", "osc", "deploying", "denied"}

(* What a request that gardenlet sent bare holds while todo is left to do. *)
FromExtension(todo) ==
  [present    |-> TRUE,
   registries |-> IF "EnsureCRIConfig" \in todo THEN Spec0.registries
                  ELSE WithMirrors(Spec0.registries),
   files      |-> IF "EnsureAdditionalFiles" \in todo THEN Spec0.files
                  ELSE WithFiles(Spec0.files)]

(* Extension and Secrets stand still while the webhook works for the flow, *)
(* and requests of others add what is there already.                       *)
FlowServesExtension ==
  /\ hook.purpose = "none" => hook.todo = {}
  /\ hook.purpose # "none" => hook.osc.present
  /\ hook.purpose = "deploy" <=> flow = "deploying"
  /\ ~deleting /\ hook.purpose # "none" => hook.mutate /\ hook.purpose # "finalize"
  /\ ~deleting => osc.present
  /\ ~deleting /\ hook.purpose = "deploy" => hook.osc = FromExtension(hook.todo)
  /\ ~deleting /\ flow = "done" =>
       /\ osc = FromExtension({})
       /\ hook.purpose = "touch" => hook.osc = osc

(* Each step of gardenlet rests on those before it.                        *)
FlowInOrder ==
  ~deleting =>
    /\ flow # "secrets" => \A r \in RefsOf(cluster) : seed[r] # "absent"
    /\ flow \notin {"secrets", "extension"} => extension = cluster

MirrorInv ==
  /\ TypeOK /\ FlowServesExtension /\ FlowInOrder
  /\ ValidMirrorConfig(config) /\ ValidMirrorConfig(cluster) /\ ValidMirrorConfig(extension)

-----------------------------------------------------------------------------
(* When gardenlet's flow is done, every mirror has its hosts in the order  *)
(* of the configuration, other upstreams have none, and every CA file a    *)
(* host names is written from a Secret that is there, whichever ensurer    *)
(* ran first and whatever touched the OperatingSystemConfig since.         *)
DoneServesMirrors ==
  flow = "done" /\ ~deleting =>
    \A u \in Upstreams :
      /\ osc.registries[u] # <<>> => \E i \in DOMAIN extension : extension[i].upstream = u
      /\ \A i \in DOMAIN extension : extension[i].upstream = u =>
           /\ DOMAIN osc.registries[u] = DOMAIN extension[i].hosts
           /\ \A j \in DOMAIN osc.registries[u] :
                osc.registries[u][j].host = extension[i].hosts[j].host
      /\ \A j \in DOMAIN osc.registries[u] :
           osc.registries[u][j].ca # NoFile =>
             osc.files[osc.registries[u][j].ca] \in Contents

(* "The CA bundle is used to verify the TLS certificate of the mirror      *)
(* host": the file a host names holds the bundle of its own reference, not *)
(* that of another host with the same file name.                           *)
HostsHaveOwnBundle ==
  flow = "done" /\ ~deleting =>
    \A x \in CAHosts(extension) :
      osc.files[PathAt(extension, x)] = seed[RefAt(extension, x)]

(* An admitted configuration reaches the nodes, unless one of its Secrets  *)
(* is replaced afterwards.                                                 *)
FlowCompletes ==
  []<>(flow = "done" \/ deleting \/ replaced)

(* The webhook does not stand in the way of a deletion, although the       *)
(* Extension it reads may be gone by then.                                 *)
DeletionCompletes == deleting ~> ~osc.present

=============================================================================
