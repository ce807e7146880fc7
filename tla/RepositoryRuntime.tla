-------------------------- MODULE RepositoryRuntime --------------------------
(***************************************************************************)
(* What app/core/process_manager.py promises about one repository's        *)
(* application: "Stop the old process before launching the replacement"    *)
(* (process_manager.py, lines 147-148).  A repository has at most one      *)
(* running process; a launch happens only where none runs; a process that  *)
(* has ended is never revived and its identity never used again.           *)
(*                                                                         *)
(* The promise is made for a process whose launch no other operation on    *)
(* the repository overlaps: nothing in the code keeps callers apart, and a *)
(* process they launch across each other is given up (End, Forfeit).       *)
(***************************************************************************)
CONSTANTS
    Repos,    \* the repositories
    Procs,    \* operating-system processes
    NoProc    \* "no process"

VARIABLES
    running,  \* running[r]: the process serving repository r, or NoProc
    launched  \* the processes launched so far

vars == <<running, launched>>

Init ==
    /\ running = [r \in Repos |-> NoProc]
    /\ launched = {}

(* The old process is gone before the replacement exists. *)
Launch(r, p) ==
    /\ running[r] = NoProc
    /\ p \notin launched
    /\ running' = [running EXCEPT ![r] = p]
    /\ launched' = launched \cup {p}

(* Stopped by YashSec, ended by itself, or given up because another         *)
(* operation on r began before its start was through.                       *)
End(r) ==
    /\ running[r] # NoProc
    /\ running' = [running EXCEPT ![r] = NoProc]
    /\ UNCHANGED launched

(* Launched by an operation that another one already overlaps. *)
Forfeit(p) ==
    /\ p \notin launched
    /\ launched' = launched \cup {p}
    /\ UNCHANGED running

(* The backend ends: the next one knows of no process. *)
Crash ==
    /\ running' = [r \in Repos |-> NoProc]
    /\ UNCHANGED launched

Next ==
    \/ \E r \in Repos : End(r) \/ \E p \in Procs : Launch(r, p)
    \/ \E p \in Procs : Forfeit(p)
    \/ Crash

Spec == Init /\ [][Next]_vars
=============================================================================
