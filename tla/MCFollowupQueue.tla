--------------------------- MODULE MCFollowupQueue ---------------------------
(* Instances of FollowupQueue: three or four messages, chats and senders.   *)
EXTENDS FollowupQueue

Setting(mode, cap, drop) == [mode |-> mode, cap |-> cap, drop |-> drop]

ThreeMessages == {"m1", "m2", "m3"}
OneChat == [m \in ThreeMessages |-> "chatA"]
TwoSenders == [m \in ThreeMessages |-> IF m = "m1" THEN "owner" ELSE "guest"]

\* m1 cannot be routed, m3 is from another sender: a queue can be mixed first
\* and uniform later, and a uniform batch can still need a split.
ThreeRoutes == [m \in ThreeMessages |-> IF m = "m1" THEN "cross" ELSE "chatA"]
ThreeSenders == [m \in ThreeMessages |-> IF m = "m3" THEN "guest" ELSE "owner"]

\* m1, m2 and m3 are from one chat, m3 is from another sender, m4 cannot be
\* routed.
FourMessages == {"m1", "m2", "m3", "m4"}
FourRoutes == [m \in FourMessages |-> IF m = "m4" THEN "cross" ELSE "chatA"]
FourSenders == [m \in FourMessages |-> IF m = "m3" THEN "guest" ELSE "owner"]

NoOverflow == {Setting("followup", 2, "new"), Setting("collect", 4, "new")}
Summarize == {Setting("followup", 2, "summarize"),
              Setting("collect", 2, "summarize"),
              Setting("collect", 2, "old")}
FollowupOld == {Setting("followup", 2, "old")}
FollowupNew == {Setting("followup", 4, "new")}
=============================================================================
