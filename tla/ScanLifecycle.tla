---------------------------- MODULE ScanLifecycle ----------------------------
(***************************************************************************)
(* What the scan engine promises about the rows of the table `scans`,      *)
(* whatever runs inside a scan: a scan is changed only by the worker thread *)
(* that executes it, at most MaxWorkers are executed at a time, it begins  *)
(* from `queued`, a final status is replaced by nothing but `failed`, and  *)
(* evidence once saved is never lost.                                      *)
(***************************************************************************)
EXTENDS Naturals, FiniteSets

CONSTANTS
    Scans,       \* scan identifiers
    Findings,    \* finding fingerprints
    MaxWorkers   \* settings.max_scan_workers

VARIABLES
    status,      \* scans.status; "none" before the row is inserted
    occupied,    \* the scans that hold a worker thread
    evidence     \* evidence[s]: the findings stored for scan s

vars == <<status, occupied, evidence>>

Final == {"completed", "completed_partial", "failed", "cancelled"}

Init ==
    /\ status = [s \in Scans |-> "none"]
    /\ occupied = {}
    /\ evidence = [s \in Scans |-> {}]

SetStatus(s, st) == status' = [status EXCEPT ![s] = st]

Create(s) ==
    /\ status[s] = "none"
    /\ SetStatus(s, "queued")
    /\ UNCHANGED <<occupied, evidence>>

Occupy(s) ==
    /\ status[s] = "queued"
    /\ s \notin occupied
    /\ Cardinality(occupied) < MaxWorkers
    /\ occupied' = occupied \cup {s}
    /\ UNCHANGED <<status, evidence>>

Begin(s) ==
    /\ s \in occupied
    /\ status[s] = "queued"
    /\ SetStatus(s, "running")
    /\ UNCHANGED <<occupied, evidence>>

Gather(s) ==
    /\ s \in occupied
    /\ status[s] = "running"
    /\ \E F \in SUBSET Findings : evidence' = [evidence EXCEPT ![s] = @ \cup F]
    /\ UNCHANGED <<status, occupied>>

Conclude(s) ==
    /\ s \in occupied
    /\ status[s] = "running"
    /\ \E f \in Final : SetStatus(s, f)
    /\ UNCHANGED <<occupied, evidence>>

(* An orchestration error, before, during or after the work. *)
Fail(s) ==
    /\ s \in occupied
    /\ SetStatus(s, "failed")
    /\ UNCHANGED <<occupied, evidence>>

Release(s) ==
    /\ s \in occupied
    /\ occupied' = occupied \ {s}
    /\ UNCHANGED <<status, evidence>>

(* The backend process ends: nothing is executed any more, every row stays. *)
Die ==
    /\ occupied' = {}
    /\ UNCHANGED <<status, evidence>>

Next ==
    \/ \E s \in Scans :
         Create(s) \/ Occupy(s) \/ Begin(s) \/ Gather(s) \/ Conclude(s) \/ Fail(s) \/ Release(s)
    \/ Die

Spec == Init /\ [][Next]_vars
=============================================================================
