---------------------------- MODULE MCDeployment ---------------------------
(* An instance of Deployment for TLC. *)
EXTENDS Deployment, TLC

CONSTANTS p1, p2
============================================================================
