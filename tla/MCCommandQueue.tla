--------------------------- MODULE MCCommandQueue ---------------------------
\* Instances of CommandQueue for TLC: an ordinary lane and a probe lane.
EXTENDS CommandQueue

CONSTANTS t1, t2, main, probe

MCTasks == {t1, t2}
MCLanes == {main, probe}
MCProbeLanes == {probe}
=============================================================================
