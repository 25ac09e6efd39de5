-------------------------- MODULE PublishedStatus --------------------------
(***************************************************************************)
(* What the extension promises to whoever reads its providerStatus, and    *)
(* nothing of how the actuator gets there.                                 *)
(*                                                                         *)
(* Configurations are taken and published as a whole: no status is a       *)
(* mixture of two.  The certificate of a cache only ever changes within    *)
(* what the published CA bundle trusts, the bundle only to one that trusts *)
(* the certificates in use, and the Secret behind the published bundle is  *)
(* not collected before the Extension leaves its seed.                     *)
(***************************************************************************)
CONSTANTS
  Upstreams,  \* upstreams of caches
  CAs         \* CA key pairs

VARIABLES
  wanted,     \* the configuration: the scheme of each cache or "none"
  taken,      \* the configuration that is being worked on
  published,  \* the configuration the status tells
  bundle,     \* the CA bundle the status names, {} for none
  secrets,    \* CA bundles that exist as Secrets
  certs,      \* signers of the certificates in use, {} for a cache without TLS
  ending      \* the Extension leaves its seed: it is migrated or deleted

abstractVars == <<wanted, taken, published, bundle, secrets, certs, ending>>

Configurations == [Upstreams -> {"none", "http", "https"}]
Nothing == [u \in Upstreams |-> "none"]

Trusted(c, b, signers) == \A u \in Upstreams : c[u] = "https" => signers[u] \subseteq b

AbstractInit ==
  /\ wanted \in Configurations /\ taken = Nothing /\ published = Nothing
  /\ bundle = {} /\ secrets = {} /\ ending = FALSE
  /\ certs = [u \in Upstreams |-> {}]

(* The owner asks for other caches, or for an end in this seed.            *)
Want ==
  /\ wanted' \in Configurations
  /\ UNCHANGED <<taken, published, bundle, secrets, certs, ending>>

End ==
  /\ ending' = TRUE
  /\ UNCHANGED <<wanted, taken, published, bundle, secrets, certs>>

Take ==
  /\ taken = Nothing /\ taken' = wanted
  /\ UNCHANGED <<wanted, published, bundle, secrets, certs, ending>>

(* What was taken is given up or done with.                                *)
Drop ==
  /\ taken' = Nothing
  /\ UNCHANGED <<wanted, published, bundle, secrets, certs, ending>>

Store ==
  /\ \E b \in SUBSET CAs : secrets' = secrets \cup {b}
  /\ UNCHANGED <<wanted, taken, published, bundle, certs, ending>>

(* The caches get certificates that readers of the status already trust.   *)
Deploy ==
  /\ certs' \in [Upstreams -> {{}} \cup {{ca} : ca \in CAs}]
  /\ \A u \in Upstreams : certs'[u] # {} <=> taken[u] = "https"
  /\ Trusted(published, bundle, certs')
  /\ UNCHANGED <<wanted, taken, published, bundle, secrets, ending>>

(* The status tells all of what was taken, and a bundle for its caches.    *)
Publish ==
  /\ published' = taken
  /\ bundle' \in secrets \cup {{}}
  /\ (\E u \in Upstreams : taken[u] = "https") => bundle' # {}
  /\ Trusted(published', bundle', certs)
  /\ UNCHANGED <<wanted, taken, secrets, certs, ending>>

Collect ==
  /\ secrets' \subseteq secrets
  /\ ~ending /\ bundle # {} => bundle \in secrets'
  /\ taken' \in {taken, Nothing}
  /\ UNCHANGED <<wanted, published, bundle, certs, ending>>

(* The caches are removed at the end.                                      *)
Remove ==
  /\ ending /\ certs' = [u \in Upstreams |-> {}]
  /\ UNCHANGED <<wanted, taken, published, bundle, secrets, ending>>

(* After the end everything may begin anew, here or in another seed, where *)
(* neither a status nor Secrets are found.                                 *)
Restart ==
  /\ ending /\ ending' = FALSE
  /\ wanted' \in Configurations /\ published' = Nothing /\ bundle' = {}
  /\ secrets' \subseteq secrets
  /\ UNCHANGED <<taken, certs>>

AbstractNext ==
  \/ Want \/ End \/ Take \/ Drop \/ Store \/ Deploy \/ Publish \/ Collect \/ Remove \/ Restart

AbstractSpec == AbstractInit /\ [][AbstractNext]_abstractVars

=============================================================================
