----------------------------- MODULE MCPresence -----------------------------
(* An instance of Presence for TLC, in units of 10 s: heartbeats every     *)
(* 30 s and temperatures every 60 s, which take up to 20 s to collect.     *)
EXTENDS Presence

CONSTANTS temperatures

MCPeriod == [l \in Loops |-> IF l = Heartbeat THEN 3 ELSE 6]

MCCollect == [l \in Loops |-> IF l = Heartbeat THEN 1 ELSE 2]

MCSkews == {-2, 1}
============================================================================
