------------------------- MODULE MCScanApplications -------------------------
(***************************************************************************)
(* An instance of ScanApplications: a scan that starts the application of  *)
(* its repository, a user's request thread, the shutdown hook, a second    *)
(* repository with an application of its own, two process launches.        *)
(***************************************************************************)
EXTENDS ScanApplications, TLC

CONSTANTS s1, t1, main, r1, r2, p1, p2

MCThreads == {s1, t1, main}
MCWorkers == {s1}
MCRepos == {r1, r2}
MCProcs == {p1, p2}
MCTools == {"builtin"}
MCNone == {}
MCCompletes == {"completed"}

MCRequests ==
    { [repo |-> r1, tools |-> <<"builtin">>, url |-> FALSE, startup |-> TRUE, schema |-> FALSE] }

(* Processes are interchangeable; the repositories are not, since scans    *)
(* name r1.  The run checks no liveness.                                   *)
MCSymmetry == Permutations(MCProcs)
=============================================================================
