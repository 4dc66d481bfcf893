--------------------------- MODULE CommandLedger ---------------------------
(***************************************************************************)
(* What the remote-command feature promises, with no agent, network, clock *)
(* or database: a command is requested, dispatched, run at most once, and  *)
(* the outcome the register shows is the outcome that run really had.      *)
(* RemoteCommands is the detailed specification that implements it.        *)
(***************************************************************************)
EXTENDS Integers

CONSTANT Ids            \* the identifiers commands may get

VARIABLES stage,        \* what the register says of each command
          starts,       \* how many times its work was begun on a machine
          outcome       \* how that work ended, "none" while it has not

lvars == <<stage, starts, outcome>>

Outcomes == {"succeeded", "failed"}

Stages == {"none", "pending", "running", "purged"} \cup Outcomes

LedgerInit == /\ stage = [i \in Ids |-> "none"]
              /\ starts = [i \in Ids |-> 0]
              /\ outcome = [i \in Ids |-> "none"]

(* An operator asks for the command. *)
Request(i) == /\ stage[i] = "none"
              /\ stage' = [stage EXCEPT ![i] = "pending"]
              /\ UNCHANGED <<starts, outcome>>

(* The command is given away, once. *)
Dispatch(i) == /\ stage[i] = "pending"
               /\ stage' = [stage EXCEPT ![i] = "running"]
               /\ UNCHANGED <<starts, outcome>>

(* A machine begins the work: only after dispatch, and never again. *)
Begin(i) == /\ stage[i] = "running"
            /\ starts[i] = 0
            /\ starts' = [starts EXCEPT ![i] = 1]
            /\ UNCHANGED <<stage, outcome>>

(* The work ends, while the register still shows the command running. *)
Finish(i, s) == /\ stage[i] = "running"
                /\ starts[i] = 1
                /\ outcome[i] = "none"
                /\ outcome' = [outcome EXCEPT ![i] = s]
                /\ UNCHANGED <<stage, starts>>

(* The register learns the outcome, the true one. *)
Record(i) == /\ stage[i] = "running"
             /\ outcome[i] \in Outcomes
             /\ stage' = [stage EXCEPT ![i] = outcome[i]]
             /\ UNCHANGED <<starts, outcome>>

(* Retention forgets finished commands, any number of them at once. *)
Forget(S) == /\ S # {}
             /\ \A i \in S : stage[i] \in Outcomes
             /\ stage' = [i \in Ids |-> IF i \in S THEN "purged" ELSE stage[i]]
             /\ UNCHANGED <<starts, outcome>>

LedgerNext ==
  \/ \E i \in Ids : \/ Request(i)
                    \/ Dispatch(i)
                    \/ Begin(i)
                    \/ \E s \in Outcomes : Finish(i, s)
                    \/ Record(i)
  \/ \E S \in SUBSET Ids : Forget(S)

LedgerSpec == LedgerInit /\ [][LedgerNext]_lvars
============================================================================
