----------------------- MODULE MCRegistryCacheSystem -----------------------
(* Instances of RegistryCacheSystem for TLC.                               *)
EXTENDS RegistryCacheInvariants, TLC

(* Upstreams and addresses are interchangeable.                            *)
Symmetry == Permutations(Upstreams) \cup Permutations(IPs)
=============================================================================
