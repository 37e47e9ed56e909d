-------------------------- MODULE MCPlatformJobs --------------------------
(* Instances of PlatformJobs for TLC.                                      *)
EXTENDS PlatformJobs, TLC

CONSTANTS j1, j2, w1, w2, k1

OneJob == {j1}
TwoJobs == {j1, j2}
OneWorker == {w1}
TwoWorkers == {w1, w2}
OneKey == {k1}

\* One retry by the worker before the job fails.
MCMaxAttempts == [j \in Jobs |-> 2]

WorkerSymmetry == Permutations(Workers)
=============================================================================
