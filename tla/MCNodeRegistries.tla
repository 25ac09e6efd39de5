-------------------------- MODULE MCNodeRegistries --------------------------
(* Instances of NodeRegistries for TLC.  Symmetry is not used: one of them *)
(* checks liveness, and with one upstream it would save little.            *)
EXTENDS NodeRegistries, TLC
=============================================================================
