--------------------------- MODULE NodeRegistries ---------------------------
(***************************************************************************)
(* The OperatingSystemConfig webhook of registry-cache                     *)
(* (pkg/webhook/cache) composed with RegistryCacheSystem: what the Shoot   *)
(* asks for, through actuator, providerStatus and CA bundle, up to the     *)
(* containerd registries and the CA file of the nodes.                     *)
(*                                                                         *)
(* The two ensurer functions run one after the other in one admission      *)
(* request and read the Extension separately; the CA bundle is looked up   *)
(* after the Extension that names it.  External: gardenlet writes the      *)
(* whole OperatingSystemConfig once the Extension has been reconciled;     *)
(* other controllers patch its metadata at any time; writes that overlap   *)
(* are retried from the beginning, so that one request at a time counts.   *)
(***************************************************************************)
EXTENDS RegistryCacheInvariants

CONSTANT Prompt   \* the owner waits for the nodes before the next change

ASSUME PromptAssumption == Prompt \in BOOLEAN

VARIABLES
  osc,   \* registries (scheme and address of each upstream) and CA file
  hook,  \* the admission request that is being served
  flow   \* gardenlet's flow for the last operation it asked for

nodeVars == <<osc, hook, flow>>
allVars  == <<vars, nodeVars>>

(* Registries and CA file have the form of the status they come from; an   *)
(* empty bundle is no file.                                                *)
Ensurers == {"EnsureAdditionalFiles", "EnsureCRIConfig"}
NoHook ==
  [active |-> FALSE, mutate |-> FALSE, todo |-> {}, secret |-> {}, osc |-> NoStatus]

NodeInit == Init /\ osc = NoStatus /\ hook = NoHook /\ flow = "pending"

-----------------------------------------------------------------------------
(* The webhook.                                                            *)

(* Mutant: hibernated Shoots are mutated as well.                          *)
ShouldMutateHibernated == stage = "live"

(* The Cluster is read once per request.                                   *)
ShouldMutate == stage = "live" /\ awake

Serve(spec) ==
  hook' = [active |-> TRUE, mutate |-> ShouldMutate, todo |-> Ensurers, secret |-> {},
           osc |-> spec]

Done(ensurer, spec) ==
  hook' = [hook EXCEPT !.todo = hook.todo \ {ensurer}, !.osc = spec]

(* An ensurer returns an error: the request is denied.                     *)
Deny == hook' = NoHook /\ flow' = IF flow = "deploying" THEN "pending" ELSE flow

StatusMissing == hook.mutate /\ status = NoStatus

(* The status is read: without a CASecretName there is nothing to add,     *)
(* otherwise the Secret of that name is looked up next.                    *)
EnsureAdditionalFiles ==
  /\ "EnsureAdditionalFiles" \in hook.todo
  /\ IF StatusMissing THEN Deny
     ELSE /\ IF hook.mutate /\ status.bundle # {}
             THEN hook' = [hook EXCEPT !.todo = {"GetCABundle"} \cup
                                                (hook.todo \ {"EnsureAdditionalFiles"}),
                                       !.secret = status.bundle]
             ELSE Done("EnsureAdditionalFiles", hook.osc)
          /\ UNCHANGED flow
  /\ UNCHANGED <<osc, vars>>

(* By now the actuator may have patched the status and cleaned up the      *)
(* Secret that it named before: it is not found, the request is denied.    *)
GetCABundle ==
  /\ "GetCABundle" \in hook.todo
  /\ IF hook.secret \notin bundles THEN Deny
     ELSE /\ hook' = [hook EXCEPT !.todo = hook.todo \ {"GetCABundle"}, !.secret = {},
                                  !.osc.bundle = hook.secret]
          /\ UNCHANGED flow
  /\ UNCHANGED <<osc, vars>>

(* Mutant: caches with TLS are configured without their CA file.           *)
WithPlainCaches(spec) ==
  [spec EXCEPT
     !.schemes = [u \in Upstreams |->
                    IF status.schemes[u] = "none" THEN spec.schemes[u] ELSE "http"],
     !.ips = [u \in Upstreams |->
                IF status.schemes[u] = "none" THEN spec.ips[u] ELSE status.ips[u]]]

(* The registry of a cache replaces that of its upstream, or is added.     *)
WithCaches(spec) ==
  [spec EXCEPT
     !.schemes = [u \in Upstreams |-> IF status.schemes[u] = "none" THEN spec.schemes[u]
                                      ELSE status.schemes[u]],
     !.ips = [u \in Upstreams |-> IF status.schemes[u] = "none" THEN spec.ips[u]
                                  ELSE status.ips[u]]]

EnsureCRIConfig ==
  /\ "EnsureCRIConfig" \in hook.todo /\ "GetCABundle" \notin hook.todo
  /\ IF StatusMissing
     THEN Deny
     ELSE /\ Done("EnsureCRIConfig", IF hook.mutate THEN WithCaches(hook.osc) ELSE hook.osc)
          /\ UNCHANGED flow
  /\ UNCHANGED <<osc, vars>>

-----------------------------------------------------------------------------
(* Writers of the OperatingSystemConfig.                                   *)

(* gardenlet writes the specification anew: nothing of what the webhook    *)
(* added earlier is in it.  The webhook is called for namespaces with the  *)
(* extension enabled.                                                      *)
DeployOSC ==
  /\ flow = "pending" /\ Ready
  /\ \/ stage = "live" /\ Serve(NoStatus) /\ flow' = "deploying" /\ UNCHANGED osc
     \/ stage = "gone" /\ osc' = NoStatus /\ hook' = NoHook /\ flow' = "done"
  /\ UNCHANGED vars

(* Another controller patches labels, annotations or finalizers.           *)
TouchOSC ==
  /\ stage = "live" /\ ~hook.active /\ Serve(osc)
  /\ UNCHANGED <<osc, flow, vars>>

Admit ==
  /\ hook.active /\ hook.todo = {}
  /\ osc' = hook.osc /\ hook' = NoHook
  /\ flow' = IF flow = "deploying" THEN "done" ELSE flow
  /\ UNCHANGED vars

-----------------------------------------------------------------------------
(* RegistryCacheSystem, with the flows of gardenlet in order: an operation *)
(* it begins by itself waits for the end of the flow before.               *)
Unobserved == Worker \/ Fail \/ ResourceManager \/ \E n \in Names : DeleteService(n)

OwnerStep ==
  ChangeCaches \/ ToggleHibernation \/ RequestDelete \/ Enable \/ RequestForceDelete

GardenletStep ==
  StartRotation \/ CompleteRotation \/ RequestReconcile \/ RequestMigrate \/ RequestRestore

SystemStep ==
  \/ Unobserved /\ UNCHANGED nodeVars
  \/ (Prompt => flow = "done" \/ stage = "deleting") /\ OwnerStep
       /\ flow' = "pending" /\ UNCHANGED <<osc, hook>>
  \/ (flow = "done" \/ stage = "migrated") /\ GardenletStep
       /\ flow' = "pending" /\ UNCHANGED <<osc, hook>>
  \/ Disabled /\ UNCHANGED nodeVars

WebhookStep == EnsureAdditionalFiles \/ GetCABundle \/ EnsureCRIConfig \/ Admit

NodeNext == SystemStep \/ DeployOSC \/ TouchOSC \/ WebhookStep

NodeSpec == NodeInit /\ [][NodeNext]_allVars

(* gardenlet retries a write that was denied; a request is answered.       *)
NodeFairness ==
  /\ WF_allVars(Worker /\ UNCHANGED nodeVars)
  /\ \A k \in Kinds :
       /\ WF_allVars(Observe(k) /\ UNCHANGED nodeVars)
       /\ WF_allVars(FinishDeletion(k) /\ UNCHANGED nodeVars)
       /\ \A n \in Names :
            WF_allVars((ApplyObject(k, n) \/ AdoptObject(k, n) \/ RemoveObject(k, n))
                         /\ UNCHANGED nodeVars)
  /\ WF_allVars(flow = "done" /\ RequestReconcile /\ flow' = "pending"
                  /\ UNCHANGED <<osc, hook>>)
  /\ WF_allVars(DeployOSC) /\ WF_allVars(WebhookStep)

NodeFairSpec == NodeSpec /\ NodeFairness

-----------------------------------------------------------------------------
(* The inductive invariant of NodesTrustCaches, for an owner who waits     *)
(* (Prompt): what holds between gardenlet's flows and within one.          *)

NodeTypes ==
  /\ osc \in Statuses /\ flow \in {"pending", "deploying", "done"}
  /\ hook \in [active : BOOLEAN, mutate : BOOLEAN, todo : SUBSET (Ensurers \cup {"GetCABundle"}),
               secret : SUBSET CAIds, osc : Statuses]

(* A flow ends only between two operations; an operation works on the      *)
(* configuration that the flow began with.                                 *)
FlowFitsOperation ==
  /\ flow # "pending" => Ready /\ stage \in {"live", "gone"}
  /\ flow = "deploying" => stage = "live" /\ hook.active
  /\ flow = "done" /\ stage = "gone" => ~hook.active
  /\ op \in ReconcileOps => stage = "live" /\ local.caches = caches /\ local.owners = owners
  /\ ~hook.active => hook = NoHook

(* The CA files that nodes have or are about to get.                       *)
NodeBundles == {osc.bundle, hook.osc.bundle, hook.secret} \ {{}}

(* A finished flow leaves no bundle on its way but that of the status.     *)
NodeBundlesCurrent ==
  /\ flow = "done" => NodeBundles \subseteq {status.bundle}
  /\ flow = "done" /\ stage = "gone" => NodeBundles = {}
  /\ flow = "deploying" => {hook.osc.bundle, hook.secret} \subseteq {{}, status.bundle}

TLSConfigured == \E u \in Upstreams : caches[u] = "https"

TLSKeepsBundle ==
  pc \in {"deployMonitoring", "patchStatus", "cleanup"} /\ op \in ReconcileOps
    /\ TLSConfigured => local.bundle # {}

(* As long as certificates may still be signed, the nodes trust the CA     *)
(* that they would be signed with.                                         *)
NextSignerTrusted ==
  stage \in {"live", "migrating", "migrated"} =>
    /\ TLSConfigured => \A b \in NodeBundles : Signers(epoch, keepOld) \subseteq b
    /\ status.bundle # {} => Signers(epoch, keepOld) \subseteq status.bundle

CertificatesTrusted ==
  \A b \in NodeBundles \cup ({status.bundle} \ {{}}), u \in Upstreams :
    mr["caches"].desired[u].scheme = "https" => mr["caches"].desired[u].ca \in b

NodesInv ==
  /\ NodeTypes /\ FlowFitsOperation /\ NodeBundlesCurrent /\ TLSKeepsBundle
  /\ NextSignerTrusted /\ CertificatesTrusted

-----------------------------------------------------------------------------
(* The inductive invariant of DoneServesConfig, on top of those of the     *)
(* system (ReadyServesConfig says what the status holds).                  *)

(* Where there is no cache there is no address either.                     *)
AddressesFit ==
  /\ \A n \in Names : objects["services"][n].scheme = "none" => objects["services"][n].ip = NoIP
  /\ \A u \in Upstreams :
       /\ local.seen[u].scheme = "none" => local.seen[u].ip = NoIP
       /\ status.schemes[u] = "none" => status.ips[u] = NoIP

(* What a request that gardenlet sent bare holds while todo is left to do. *)
FromStatus(todo) ==
  LET registries == IF "EnsureCRIConfig" \in todo THEN NoStatus ELSE status IN
  [schemes |-> registries.schemes, ips |-> registries.ips,
   bundle  |-> IF todo \cap {"EnsureAdditionalFiles", "GetCABundle"} # {} THEN {}
               ELSE status.bundle]

(* Within a flow the status stands still, and both ensurers read it.       *)
FlowServesStatus ==
  /\ hook.todo # {} => hook.active
  /\ "GetCABundle" \in hook.todo =>
       hook.secret # {} /\ hook.mutate /\ "EnsureAdditionalFiles" \notin hook.todo
  /\ flow # "pending" => Ready
  /\ flow = "deploying" =>
       /\ stage = "live" /\ hook.active /\ hook.mutate = awake
       /\ awake => hook.osc = FromStatus(hook.todo)
       /\ "GetCABundle" \in hook.todo => hook.secret = status.bundle
  /\ flow = "done" /\ stage = "live" /\ awake =>
       /\ osc = status
       /\ hook.active => hook.mutate /\ hook.osc = status /\ hook.secret \in {{}, status.bundle}
  /\ flow = "done" /\ stage = "gone" => osc = NoStatus /\ ~hook.active

ServingInv == AddressesFit /\ FlowServesStatus

-----------------------------------------------------------------------------
(* A node that has the CA file trusts every cache it is told to reach with *)
(* TLS, at every moment: also between the two halves of a CA rotation,     *)
(* when Extension and OperatingSystemConfig are reconciled one after the   *)
(* other, and if the file and the registries come from different statuses. *)
NodesTrustCaches ==
  \A u \in Upstreams :
    /\ osc.schemes[u] = "https" /\ osc.bundle # {}
    /\ mr["caches"].desired[u].scheme = "https"
    => mr["caches"].desired[u].ca \in osc.bundle

(* When gardenlet's flow for an awake Shoot is done, the nodes have a      *)
(* registry for every configured cache and for nothing else, at the        *)
(* address and with the scheme it was deployed with, and the CA file that  *)
(* its certificate needs; when the extension is disabled, they have none.  *)
DoneServesConfig ==
  flow = "done" /\ Ready =>
    /\ stage = "live" /\ awake =>
         /\ osc.schemes = caches /\ osc.ips = status.ips
         /\ \A u \in Caches(caches) : mr["caches"].desired[u].scheme = osc.schemes[u]
         /\ \A u \in Upstreams : caches[u] = "https" =>
              /\ mr["caches"].desired[u].ip = osc.ips[u]
              /\ mr["caches"].desired[u].ca \in osc.bundle
    /\ stage = "gone" => osc = NoStatus

(* gardenlet's own write is never denied because the CA bundle that the    *)
(* status named is gone by the time it is looked up: within a flow the     *)
(* actuator rests, which a request of another controller cannot rely on.   *)
FlowFindsBundle ==
  flow = "deploying" /\ "GetCABundle" \in hook.todo => hook.secret \in bundles

(* A Shoot that stays as it is gets its flow done, even if it is           *)
(* hibernated and the providerStatus "can be missing (on Shoot creation)". *)
FlowCompletes ==
  <>[](stage = "live") => []<>(flow = "done")

(* When changes and faults have stopped, the nodes of an awake Shoot come  *)
(* to reach every configured cache at the address of its live Service, and *)
(* to trust the certificate that the running cache presents.               *)
NodesConverge ==
  <>[](stage = "live" /\ awake) =>
    <>[](\A u \in Caches(caches) :
           /\ osc.schemes[u] = objects["caches"][u].scheme
           /\ \A n \in Names : owners[n] = u => osc.ips[u] = objects["services"][n].ip
           /\ caches[u] = "https" => objects["caches"][u].ca \in osc.bundle)

=============================================================================
