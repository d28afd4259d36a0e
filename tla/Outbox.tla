-------------------------------- MODULE Outbox --------------------------------
(***************************************************************************)
(* What a durable outbound queue promises: a message that was accepted     *)
(* stays queued until it is settled, it becomes visible on the platform    *)
(* only while it is queued, and it is settled as delivered only if it      *)
(* became visible.                                                         *)
(***************************************************************************)
EXTENDS Naturals

CONSTANT Entries    \* the messages

VARIABLES
    status,     \* message -> "new", "queued", "delivered" or "given-up"
    visible     \* message -> how often it appeared on the platform

outboxVars == <<status, visible>>

OutboxInit ==
    /\ status = [e \in Entries |-> "new"]
    /\ visible = [e \in Entries |-> 0]

Accept(e) ==
    /\ status[e] = "new"
    /\ status' = [status EXCEPT ![e] = "queued"]
    /\ UNCHANGED visible

Show(e) ==
    /\ status[e] = "queued"
    /\ visible' = [visible EXCEPT ![e] = @ + 1]
    /\ UNCHANGED status

Deliver(e) ==
    /\ status[e] = "queued"
    /\ visible[e] > 0
    /\ status' = [status EXCEPT ![e] = "delivered"]
    /\ UNCHANGED visible

GiveUp(e) ==
    /\ status[e] = "queued"
    /\ status' = [status EXCEPT ![e] = "given-up"]
    /\ UNCHANGED visible

OutboxNext == \E e \in Entries : Accept(e) \/ Show(e) \/ Deliver(e) \/ GiveUp(e)

OutboxSpec == OutboxInit /\ [][OutboxNext]_outboxVars
=============================================================================
