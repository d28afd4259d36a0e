--------------------------- MODULE MCHeartbeatWake ---------------------------
(* Instances of HeartbeatWake: an interval and an action wake for one agent, *)
(* and an event for another one.                                             *)
EXTENDS HeartbeatWake

ThreeRequests == {"interval", "action", "other"}
TwoTargets == [r \in ThreeRequests |-> IF r = "other" THEN "agentB" ELSE "agentA"]
Priorities == [r \in ThreeRequests |->
    CASE r = "interval" -> 1 [] r = "action" -> 3 [] r = "other" -> 2]
=============================================================================
