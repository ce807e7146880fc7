-------------------------- MODULE MCProcessManager --------------------------
(***************************************************************************)
(* An instance of ProcessManager: two callers beside the shutdown hook,    *)
(* two repositories, three process launches.                               *)
(***************************************************************************)
EXTENDS ProcessManager, TLC

CONSTANTS t1, t2, main, r1, r2, p1, p2, p3

MCThreads == {t1, t2, main}
MCWorkers == {}        \* both callers serve HTTP requests
MCRepos == {r1, r2}
MCProcs == {p1, p2, p3}

(* Processes and repositories are interchangeable; no run that uses the    *)
(* symmetry checks liveness.                                               *)
MCSymmetry == Permutations(MCRepos) \cup Permutations(MCProcs)
=============================================================================
