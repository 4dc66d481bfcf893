-------------------------- MODULE MCRemoteCommands -------------------------
(* Instances of RemoteCommands for TLC. *)
EXTENDS RemoteCommands, TLC

CONSTANTS m1, m2, a1, a2, o1, o2

(* The service and a console "run" of one machine, both with its token. *)
SharedToken == a1 :> m1 @@ a2 :> m1

(* One agent on each of two machines. *)
OwnToken == a1 :> m1 @@ a2 :> m2

(* One agent. *)
Single == a1 :> m1

AgentSymmetry == Permutations({a1, a2})

OperatorSymmetry == Permutations({o1, o2})
=============================================================================
