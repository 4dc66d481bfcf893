-------------------------- MODULE MCCommandsFair ---------------------------
(* The liveness of RemoteCommands, with faults and without, in one run. *)
EXTENDS MCRemoteCommands

(* A behaviour with faults or one without: which of the two, it decides at *)
(* the start.  With faults there is one command.  The retention job is     *)
(* left out: in one tick nothing gets old.                                 *)
VARIABLE calm

FaultyCommands == 1     \* bound

MayFailSpec ==
  /\ Init /\ calm \in BOOLEAN
  /\ [][/\ IF calm THEN Calm ELSE Next /\ lastId' <= FaultyCommands
        /\ UNCHANGED <<job_, calm>>]_<<vars, calm>>
  /\ ServerFairness
  /\ \A a \in Agents : AgentFairness(a)

(* Without faults every stored command reaches a final state: the poll,    *)
(* the execution and the result of two agents drop none.                   *)
CalmCompletes == calm => EventuallyFinal

(* Without faults the timeline shows the result of every finished command: *)
(* the event written after the result is not forgotten.                    *)
CalmInTimeline == calm => EventuallyInTimeline
=============================================================================
