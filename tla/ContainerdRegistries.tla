------------------------ MODULE ContainerdRegistries ------------------------
(***************************************************************************)
(* The containerd registries that the OperatingSystemConfig webhooks of    *)
(* registry-cache and registry-mirror write together, one after the other  *)
(* in an order that nothing fixes, from the caches and mirrors that        *)
(* ShootAdmission lets through.                                            *)
(*                                                                         *)
(* External: gardenlet reads the Shoot, has both Extensions reconciled and *)
(* writes the OperatingSystemConfig; it sees what the owner changes in the *)
(* meantime when it begins anew, so that changes are made between two      *)
(* flows.  Others patch the metadata of the OperatingSystemConfig at any   *)
(* time; overlapping writes are retried, so that one request at a time     *)
(* counts.  Abstracted: a registry is the extension that wrote it          *)
(* (NodeRegistries and RegistryMirror have what it holds, and the deletion *)
(* of the Shoot); a webhook reads Cluster and Extension in one step, since *)
(* only a write that gardenlet replaces can see one old and one new.       *)
(***************************************************************************)
EXTENDS ShootAdmission

VARIABLES
  cluster,       \* the Shoot in the Cluster: upstreams and hibernation
  unreconciled,  \* Extensions that this flow has still to see reconciled
  status,        \* upstreams in the providerStatus of registry-cache; {}: none
  extension,     \* upstreams in the providerConfig of registry-mirror; {}: none
  registries,    \* in the OperatingSystemConfig: which webhook wrote them
  request,       \* the write that is being admitted
  flow           \* of gardenlet

registriesVars == <<cluster, unreconciled, status, extension, registries, request, flow>>
allVars == <<vars, registriesVars>>

Extensions == {"registry-cache", "registry-mirror"}
NoRegistries == [u \in Upstreams |-> "none"]
NoRequest == [writer |-> "none", todo |-> {}, registries |-> NoRegistries]

RegistriesInit ==
  /\ Init
  /\ cluster = [caches |-> {}, mirrors |-> {}, hibernated |-> FALSE]
  /\ unreconciled = {} /\ status = {} /\ extension = {}
  /\ registries = NoRegistries /\ request = NoRequest /\ flow = "done"

-----------------------------------------------------------------------------
(* gardenlet.                                                              *)

BeginFlow ==
  /\ flow \in {"done", "denied"}
  /\ \E hibernated \in BOOLEAN :
       cluster' = [caches |-> {caches[i].upstream : i \in Positions(caches)},
                   mirrors |-> mirrors, hibernated |-> hibernated]
  /\ unreconciled' = Extensions /\ flow' = "extensions"
  /\ UNCHANGED <<vars, status, extension, registries, request>>

(* The actuator leaves a hibernated Shoot, and its status, as they are.    *)
ReconcileCaches ==
  /\ "registry-cache" \in unreconciled
  /\ status' = IF cluster.hibernated /\ cluster.caches # {} THEN status ELSE cluster.caches
  /\ unreconciled' = unreconciled \ {"registry-cache"}
  /\ UNCHANGED <<vars, cluster, extension, registries, request, flow>>

SyncMirrors ==
  /\ "registry-mirror" \in unreconciled
  /\ extension' = cluster.mirrors /\ unreconciled' = unreconciled \ {"registry-mirror"}
  /\ UNCHANGED <<vars, cluster, status, registries, request, flow>>

(* The webhooks are called for namespaces with their extension enabled.    *)
Serve(writer, spec) ==
  request' = [writer |-> writer, registries |-> spec,
              todo |-> (IF cluster.caches = {} THEN {} ELSE {"registry-cache"}) \cup
                       (IF cluster.mirrors = {} THEN {} ELSE {"registry-mirror"})]

DeployOSC ==
  /\ flow = "extensions" /\ unreconciled = {}
  /\ Serve("gardenlet", NoRegistries) /\ flow' = "deploying"
  /\ UNCHANGED <<vars, cluster, unreconciled, status, extension, registries>>

TouchOSC ==
  /\ request.writer = "none" /\ Serve("other", registries)
  /\ UNCHANGED <<vars, cluster, unreconciled, status, extension, registries, flow>>

Admit ==
  /\ request.writer # "none" /\ request.todo = {}
  /\ registries' = request.registries /\ request' = NoRequest
  /\ flow' = IF request.writer = "gardenlet" THEN "done" ELSE flow
  /\ UNCHANGED <<vars, cluster, unreconciled, status, extension>>

-----------------------------------------------------------------------------
(* The webhooks.                                                           *)

Deny ==
  /\ request' = NoRequest
  /\ flow' = IF request.writer = "gardenlet" THEN "denied" ELSE flow

(* EnsureCRIConfig: its registries replace those of the same upstreams.    *)
Write(webhook, upstreams, entry) ==
  /\ request' = [request EXCEPT
                   !.todo = @ \ {webhook},
                   !.registries = [u \in Upstreams |-> IF u \in upstreams THEN entry ELSE @[u]]]
  /\ UNCHANGED flow

(* Mutant: hibernated Shoots are mutated from the status that they have.   *)
ShouldMutateHibernated == TRUE

(* Of registry-cache; registry-mirror mutates hibernated Shoots as well.   *)
ShouldMutate == ~cluster.hibernated

CacheWebhook ==
  /\ "registry-cache" \in request.todo
  /\ IF ~ShouldMutate THEN Write("registry-cache", {}, "cache")
     ELSE IF status = {} THEN Deny
     ELSE Write("registry-cache", status, "cache")
  /\ UNCHANGED <<vars, cluster, unreconciled, status, extension, registries>>

MirrorWebhook ==
  /\ "registry-mirror" \in request.todo
  /\ IF extension = {} THEN Deny ELSE Write("registry-mirror", extension, "mirror")
  /\ UNCHANGED <<vars, cluster, unreconciled, status, extension, registries>>

Owner == flow = "done" /\ Next /\ UNCHANGED registriesVars

RegistriesNext ==
  \/ Owner
  \/ BeginFlow \/ ReconcileCaches \/ SyncMirrors \/ DeployOSC \/ TouchOSC \/ Admit
  \/ CacheWebhook \/ MirrorWebhook

RegistriesSpec == RegistriesInit /\ [][RegistriesNext]_allVars

-----------------------------------------------------------------------------
(* When gardenlet's flow is done, the registry of every upstream is that   *)
(* of the one extension that is configured for it, in whichever order the  *)
(* webhooks ran: also after an upstream went from the caches to the        *)
(* mirrors or back while the Shoot was hibernated, its providerStatus      *)
(* stood still, and others patched the OperatingSystemConfig.              *)
RegistriesOfOwners ==
  flow = "done" =>
    registries = [u \in Upstreams |->
                    IF u \in cluster.mirrors THEN "mirror"
                    ELSE IF u \in cluster.caches /\ ~cluster.hibernated THEN "cache"
                    ELSE "none"]

=============================================================================
