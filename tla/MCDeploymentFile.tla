-------------------------- MODULE MCDeploymentFile --------------------------
EXTENDS DeploymentFile, TLC

(* No definition tells names or identities apart. *)
Symmetry == Permutations(Names) \cup Permutations(Ids)
=============================================================================
