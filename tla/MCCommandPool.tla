---------------------------- MODULE MCCommandPool ---------------------------
(* Instances of CommandPool for TLC. *)
EXTENDS CommandPool

CONSTANTS w1, w2, j1, j2, t1, t2

MCWorkers == {w1, w2}
MCJobs    == {j1, j2, t1, t2}
MCTimers  == {t1, t2}
MCPanicky == {j1, t1}
=============================================================================
