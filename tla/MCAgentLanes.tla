---------------------------- MODULE MCAgentLanes ----------------------------
(* Instances of AgentLanes for TLC. *)
EXTENDS AgentLanes

CONSTANTS m1, m2, k, s1, s2

MCRuns == {m1, m2, k}
MCSessionOf == m1 :> s1 @@ m2 :> s2 @@ k :> s1
MCOrigin == m1 :> "message" @@ m2 :> "message" @@ k :> "manual"
MCCaps == <<[main |-> 1, cron |-> 1], [main |-> 2, cron |-> 1]>>
=============================================================================
