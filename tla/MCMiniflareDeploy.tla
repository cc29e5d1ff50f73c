------------------------- MODULE MCMiniflareDeploy -------------------------
(***************************************************************************)
(* Small instances of MiniflareDeploy for TLC.  Deployments, accounts and  *)
(* ports are interchangeable where only safety is checked.                 *)
(***************************************************************************)
EXTENDS MiniflareDeploy, TLC

Symmetry == Permutations(Deploys) \cup Permutations(Accounts) \cup Permutations(Ports)
=============================================================================
