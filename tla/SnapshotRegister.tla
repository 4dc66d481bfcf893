-------------------------- MODULE SnapshotRegister -------------------------
(***************************************************************************)
(* What the device inventory promises, without rows, statuses, loops and   *)
(* events: a register per category, each holding what the hardware held of *)
(* that category at one moment.                                            *)
(*                                                                         *)
(* A snapshot is a function from the categories it covers to sets of pairs *)
(* (key, status).  It is taken one category after another, so that two     *)
(* categories of it may be of two moments; it is put in the registers as a *)
(* whole or not at all, in any order and at any time after it was taken.   *)
(* A category without pairs is never part of a snapshot, unless it can     *)
(* hold what has no pair.                                                  *)
(***************************************************************************)
CONSTANTS Categories,   \* the registers
          Pairs,        \* the contents a register can hold: (key, status)
          Emptiable     \* categories that may be covered while they are empty

VARIABLES world,        \* what there is, per category
          seen,         \* the snapshot that is being taken
          taken,        \* snapshots that may still be put
          shown         \* the registers

rvars == <<world, seen, taken, shown>>

(* A register holds one status for each key: two devices that share a key  *)
(* are one row.                                                            *)
OnePerKey(V) ==
  {W \in SUBSET V : /\ {x[1] : x \in W} = {x[1] : x \in V}
                    /\ \A x, y \in W : x[1] = y[1] => x = y}

Nothing == [c \in {} |-> {}]

RegisterInit == /\ world \in [Categories -> SUBSET Pairs]
                /\ seen = Nothing
                /\ taken = {}
                /\ shown = [c \in Categories |-> {}]

(* Hardware comes, goes or changes its status. *)
Change == /\ world' \in [Categories -> SUBSET Pairs]
          /\ UNCHANGED <<seen, taken, shown>>

(* The snapshot is extended by what category c holds now. *)
Look(c) == /\ c \notin DOMAIN seen
           /\ world[c] # {} \/ c \in Emptiable
           /\ seen' = [b \in DOMAIN seen \cup {c} |->
                         IF b = c THEN world[c] ELSE seen[b]]
           /\ UNCHANGED <<world, taken, shown>>

Take == /\ taken' = taken \cup {seen}
        /\ seen' = Nothing
        /\ UNCHANGED <<world, shown>>

Drop(t) == /\ taken' = taken \ {t}
           /\ UNCHANGED <<world, seen, shown>>

Put(t) == /\ taken' = taken \ {t}
          /\ shown' \in [Categories -> SUBSET Pairs]
          /\ \A c \in Categories : IF c \in DOMAIN t
                                   THEN shown'[c] \in OnePerKey(t[c])
                                   ELSE shown'[c] = shown[c]
          /\ UNCHANGED <<world, seen>>

RegisterNext == \/ Change
                \/ \E c \in Categories : Look(c)
                \/ Take
                \/ \E t \in taken : Drop(t) \/ Put(t)

RegisterSpec == RegisterInit /\ [][RegisterNext]_rvars
=============================================================================
