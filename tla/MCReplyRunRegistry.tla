------------------------- MODULE MCReplyRunRegistry -------------------------
(* The instance of ReplyRunRegistry that TLC checks.                       *)
EXTENDS ReplyRunRegistry, TLC

CONSTANTS k1, k2, s1, s2, o1, o2, o3, w1

TwoKeys == {k1, k2}
TwoSessionIds == {s1, s2}
ThreeOps == {o1, o2, o3}
OneWaiter == {w1}

Symmetric == Permutations(TwoKeys) \cup Permutations(TwoSessionIds)
                 \cup Permutations(ThreeOps)
=============================================================================
