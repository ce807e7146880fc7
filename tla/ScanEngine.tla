----------------------------- MODULE ScanEngine -----------------------------
(***************************************************************************)
(* app/core/scan_engine.py: scans queued by the API, executed by a pool of *)
(* worker threads, cancelled by users, interrupted by I/O errors and by    *)
(* the end of the backend process; together with the handlers of           *)
(* app/main.py that create and cancel scans.                               *)
(*                                                                         *)
(* One step is one database transaction, or one piece of work between two  *)
(* of them.  Of the process manager only what its calls return is here, at *)
(* the step at which they return; ScanApplications composes the engine     *)
(* with the steps of ProcessManager.                                       *)
(***************************************************************************)
EXTENDS Naturals, Sequences, FiniteSets

CONSTANTS
    Scans,          \* scan identifiers: bounds the rows inserted
    Repos,          \* repositories
    Requests,       \* the requests users make (see RequestType)
    Tools,          \* scanner keys
    Builtin,        \* "builtin"
    UrlTools,       \* "dynamic", "zap": need a URL
    SchemaTools,    \* "schemathesis": needs a URL and an OpenAPI schema
    Outcomes,       \* what a scanner may report (see OutcomeType)
    Findings,       \* finding fingerprints
    MaxWorkers,     \* settings.max_scan_workers
    MaxFaults,      \* bounds the exceptions raised by database and log writes
    Cancellable,    \* bounds the cancel requests to these scans
    MaxStops,       \* bounds the times the backend process ends
    None,           \* SQL NULL, Python None
    Given, Found    \* the URL the user supplied; one that answered on a hinted port

OutcomeType == {"completed", "completed_with_warnings", "missing", "error"}

RequestType ==
    [repo : Repos, tools : Seq(Tools), url : BOOLEAN, startup : BOOLEAN, schema : BOOLEAN]

ASSUME ConstantsAssumption ==
    /\ \A q \in Requests : q.repo \in Repos /\ q.tools \in Seq(Tools)
    (* validate_tools, main.py, lines 142-147: no tool is named twice *)
    /\ \A q \in Requests : \A i, j \in DOMAIN q.tools : q.tools[i] = q.tools[j] => i = j
    /\ Tools \cap {"runtime_start", "normalisation", "runtime_cleanup"} = {}
    /\ Builtin \in Tools
    /\ IsFiniteSet(Findings)
    /\ UrlTools \subseteq Tools /\ SchemaTools \subseteq Tools
    /\ Outcomes \subseteq OutcomeType
    /\ MaxWorkers \in Nat \ {0}
    /\ Cancellable \subseteq Scans
    /\ MaxFaults \in Nat /\ MaxStops \in Nat
    /\ None \notin Requests
    /\ None \notin {Given, Found}

VARIABLES
    (* the database: survives the backend *)
    req,          \* req[s]: the request stored in row s, None without a row
    status,       \* scans.status
    cancel,       \* scans.cancellation_requested
    progress,     \* scans.progress
    rowStages,    \* scans.stages_json
    rowTools,     \* scans.tool_status
    total,        \* scans.summary: total
    findings,     \* findings[s]: the fingerprints stored for s
    (* the backend's memory *)
    up,           \* "up", "draining" (shutdown hook has run), "stopped", "killed"
    queue,        \* the executor's work queue
    pc,           \* where _execute_scan(s) is
    stages,       \* its local `stages`
    tools,        \* its local `tool_status`
    idx,          \* its loop index, from 1
    apiUrl,       \* its local `api_url`: Given, Found, or None
    started,      \* its local `runtime_started_by_scan`
    escaped,      \* scans whose future holds an exception nobody reads
    (* users *)
    canceller,    \* scans for which a cancel request has passed its check
    acked,        \* scans whose cancellation was granted while they were queued (history)
    runsAfter,    \* scanners started while the row's cancel flag was set (history)
    (* bounds *)
    faults, stops

rowVars == <<req, status, cancel, progress, rowStages, rowTools, total, findings>>
localVars == <<stages, tools, idx, apiUrl, started>>
clientVars == <<canceller, acked, runsAfter>>
boundVars == <<faults, stops>>
vars == <<rowVars, up, queue, pc, localVars, escaped, clientVars, boundVars>>

-----------------------------------------------------------------------------
StageKeys == Tools \cup {"runtime_start", "normalisation", "runtime_cleanup"}
StageStatus ==
    {"absent", "waiting", "running", "completed", "completed_with_warnings",
     "missing", "skipped", "error", "cancelled", "failed"}
ToolStatus == {"absent", "completed", "missing", "skipped", "error"}

NoStages == [k \in StageKeys |-> "absent"]
NoTools == [k \in Tools |-> "absent"]

Final == {"completed", "completed_partial", "failed", "cancelled"}

(* Inside the try block of _execute_scan, lines 169-313. *)
TryPCs ==
    {"begin", "prepare", "starting", "probing", "plan", "check", "announce",
     "run", "record", "finish", "leaving"}
ExecutingPCs == TryPCs \cup {"failing", "cleanup", "cleaned"}
PCs == ExecutingPCs \cup {"none", "inserted", "waiting", "done", "lost"}

Executing == {s \in Scans : pc[s] \in ExecutingPCs}

(* Type correctness of the rows and the executions. *)
TypeOK ==
    /\ req \in [Scans -> Requests \cup {None}]
    /\ status \in [Scans -> {"none", "queued", "running"} \cup Final]
    /\ cancel \in [Scans -> BOOLEAN]
    /\ progress \in [Scans -> 0..100]
    /\ rowStages \in [Scans -> [StageKeys -> StageStatus]]
    /\ rowTools \in [Scans -> [Tools -> ToolStatus]]
    /\ total \in [Scans -> Nat]
    /\ findings \in [Scans -> SUBSET Findings]
    /\ up \in {"up", "draining", "stopped", "killed"}
    /\ queue \in Seq(Scans)
    /\ pc \in [Scans -> PCs]
    /\ stages \in [Scans -> [StageKeys -> StageStatus]]
    /\ tools \in [Scans -> [Tools -> ToolStatus]]
    /\ idx \in [Scans -> Nat \ {0}]
    /\ apiUrl \in [Scans -> {Given, Found, None}]
    /\ started \in [Scans -> BOOLEAN]
    /\ escaped \subseteq Scans
    /\ canceller \subseteq Scans
    /\ acked \subseteq Scans
    /\ runsAfter \in [Scans -> 0..2]
    /\ faults \in 0..MaxFaults
    /\ stops \in 0..MaxStops

Init ==
    /\ req = [s \in Scans |-> None]
    /\ status = [s \in Scans |-> "none"]
    /\ cancel = [s \in Scans |-> FALSE]
    /\ progress = [s \in Scans |-> 0]
    /\ rowStages = [s \in Scans |-> NoStages]
    /\ rowTools = [s \in Scans |-> NoTools]
    /\ total = [s \in Scans |-> 0]
    /\ findings = [s \in Scans |-> {}]
    /\ up = "up"
    /\ queue = <<>>
    /\ pc = [s \in Scans |-> "none"]
    /\ stages = [s \in Scans |-> NoStages]
    /\ tools = [s \in Scans |-> NoTools]
    /\ idx = [s \in Scans |-> 1]
    /\ apiUrl = [s \in Scans |-> None]
    /\ started = [s \in Scans |-> FALSE]
    /\ escaped = {}
    /\ canceller = {}
    /\ acked = {}
    /\ runsAfter = [s \in Scans |-> 0]
    /\ faults = 0
    /\ stops = 0

-----------------------------------------------------------------------------
(* main.py, create_scan, lines 767-779: the row is committed ...            *)
CreateScan(s, q) ==
    /\ up = "up"
    /\ req[s] = None
    /\ req' = [req EXCEPT ![s] = q]
    /\ status' = [status EXCEPT ![s] = "queued"]
    /\ pc' = [pc EXCEPT ![s] = "inserted"]
    /\ UNCHANGED <<cancel, progress, rowStages, rowTools, total, findings>>
    /\ UNCHANGED <<up, queue, localVars, escaped, clientVars, boundVars>>

(* ... and then, line 780, handed to the executor.                          *)
SubmitScan(s) ==
    /\ pc[s] = "inserted"
    /\ queue' = Append(queue, s)
    /\ pc' = [pc EXCEPT ![s] = "waiting"]
    /\ UNCHANGED <<rowVars, up, localVars, escaped, clientVars, boundVars>>

(* main.py, cancel_scan, lines 787-789: the status is read in a transaction *)
(* of its own ...                                                           *)
CancelCheck(s) ==
    /\ up = "up"
    /\ s \in Cancellable \ canceller
    /\ status[s] \in {"queued", "running"}
    /\ canceller' = canceller \cup {s}
    /\ UNCHANGED <<rowVars, up, queue, pc, localVars, escaped, acked, runsAfter, boundVars>>

(* ... before request_cancel writes the flag, and the user is told          *)
(* {"cancellation_requested": True}, whatever has become of the scan.       *)
CancelWrite(s) ==
    /\ s \in canceller
    /\ cancel' = [cancel EXCEPT ![s] = TRUE]
    /\ acked' = IF status[s] = "queued" THEN acked \cup {s} ELSE acked
    /\ canceller' = canceller \ {s}
    /\ UNCHANGED <<req, status, progress, rowStages, rowTools, total, findings>>
    /\ UNCHANGED <<up, queue, pc, localVars, escaped, runsAfter, boundVars>>

-----------------------------------------------------------------------------
(* _execute_scan.  A worker thread that is free takes the oldest scan.      *)

(* A plausible bug: a scan is handed to a worker whether one is free or not. *)
FreeWorker_Ignored == TRUE

FreeWorker == Cardinality(Executing) < MaxWorkers

(* A plausible bug: scans still queued when the backend closes are dropped. *)
Executes_UntilClosing == up = "up"

(* The executor's threads are joined when the interpreter ends: what is     *)
(* queued by then is still executed.                                        *)
Executes == up \in {"up", "draining"}

TakeScan ==
    /\ Executes
    /\ queue # <<>>
    /\ FreeWorker
    /\ pc' = [pc EXCEPT ![Head(queue)] = "begin"]
    /\ queue' = Tail(queue)
    /\ UNCHANGED <<rowVars, up, localVars, escaped, clientVars, boundVars>>

Goto(s, label) == pc' = [pc EXCEPT ![s] = label]
SetStage(s, k, st) == stages' = [stages EXCEPT ![s][k] = st]
SaveStages(s) == rowStages' = [rowStages EXCEPT ![s] = stages'[s]]
SaveTools(s) == rowTools' = [rowTools EXCEPT ![s] = tools'[s]]

(* Lines 170-186: the row becomes `running`, its cancel flag is cleared.    *)
Begin(s) ==
    /\ pc[s] = "begin"
    /\ status' = [status EXCEPT ![s] = "running"]
    /\ progress' = [progress EXCEPT ![s] = 0]
    /\ cancel' = [cancel EXCEPT ![s] = FALSE]
    /\ rowStages' = [rowStages EXCEPT ![s] = stages[s]]
    /\ Goto(s, "prepare")
    /\ UNCHANGED <<req, rowTools, total, findings>>
    /\ UNCHANGED <<up, queue, localVars, escaped, clientVars, boundVars>>

(* Lines 189-195: the target is given, or started first, or absent.         *)
Prepare(s) ==
    /\ pc[s] = "prepare"
    /\ \/ /\ req[s].url
          /\ apiUrl' = [apiUrl EXCEPT ![s] = Given]
          /\ Goto(s, "plan")
          /\ UNCHANGED <<stages, rowStages>>
       \/ /\ ~req[s].url /\ req[s].startup
          /\ SetStage(s, "runtime_start", "running") /\ SaveStages(s)
          /\ Goto(s, "starting")
          /\ UNCHANGED apiUrl
       \/ /\ ~req[s].url /\ ~req[s].startup
          /\ Goto(s, "plan")
          /\ UNCHANGED <<apiUrl, stages, rowStages>>
    /\ UNCHANGED <<req, status, cancel, progress, rowTools, total, findings>>
    /\ UNCHANGED <<up, queue, tools, idx, started, escaped, clientVars, boundVars>>

(* A plausible bug: the scan does not note that it started the application. *)
StartRuntime_NotNoted(s) ==
    /\ pc[s] = "starting"
    /\ Goto(s, "probing")
    /\ UNCHANGED <<rowVars, up, queue, localVars, escaped, clientVars, boundVars>>

(* Lines 198-199: start_repository_process returns. *)
StartRuntime(s) ==
    /\ pc[s] = "starting"
    /\ started' = [started EXCEPT ![s] = TRUE]
    /\ Goto(s, "probing")
    /\ UNCHANGED <<rowVars, up, queue, stages, tools, idx, apiUrl, escaped, clientVars, boundVars>>

(* It raises, before it touches the old application or after it has stopped *)
(* it: the inner except clause records it (217-220).                        *)
StartRuntimeFails(s) ==
    /\ pc[s] = "starting"
    /\ SetStage(s, "runtime_start", "failed") /\ SaveStages(s)
    /\ Goto(s, "plan")
    /\ UNCHANGED <<req, status, cancel, progress, rowTools, total, findings>>
    /\ UNCHANGED <<up, queue, tools, idx, apiUrl, started, escaped, clientVars, boundVars>>

(* The outcomes of lines 200-216, <<stage, api_url>>: something answers on a *)
(* hinted port, nothing does within 50 seconds, the command has exited.      *)
ProbeOutcomes ==
    {<<"completed", Found>>, <<"completed_with_warnings", None>>, <<"failed", None>>}

ProbeRuntime(s) ==
    /\ pc[s] = "probing"
    /\ \E o \in ProbeOutcomes :
         /\ SetStage(s, "runtime_start", o[1]) /\ SaveStages(s)
         /\ apiUrl' = [apiUrl EXCEPT ![s] = o[2]]
    /\ Goto(s, "plan")
    /\ UNCHANGED <<req, status, cancel, progress, rowTools, total, findings>>
    /\ UNCHANGED <<up, queue, tools, idx, started, escaped, clientVars, boundVars>>

(* A write fails while the URL is awaited or recorded: the inner except     *)
(* clause (217-220); api_url keeps what was found.                          *)
ProbeRaises(s) ==
    /\ pc[s] = "probing"
    /\ faults < MaxFaults
    /\ faults' = faults + 1
    /\ \E o \in ProbeOutcomes : apiUrl' = [apiUrl EXCEPT ![s] = o[2]]
    /\ SetStage(s, "runtime_start", "failed") /\ SaveStages(s)
    /\ Goto(s, "plan")
    /\ UNCHANGED <<req, status, cancel, progress, rowTools, total, findings>>
    /\ UNCHANGED <<up, queue, tools, idx, started, escaped, clientVars, stops>>

(* Lines 222-224: the built-in checks are always part of a scan.            *)
Selected(q) ==
    IF \E i \in DOMAIN q.tools : q.tools[i] = Builtin THEN q.tools ELSE <<Builtin>> \o q.tools

SelectedKeys(q) == {Selected(q)[i] : i \in DOMAIN Selected(q)}

Runnable(k, q, url) ==
    /\ k \in UrlTools \cup SchemaTools => url # None
    /\ k \in SchemaTools => q.schema

(* The `runners`, by their positions in the selection. *)
Runners(s) == {i \in DOMAIN Selected(req[s]) :
                 Runnable(Selected(req[s])[i], req[s], apiUrl[s])}

(* enumerate(runners, start=1): the index of the runner at position i. *)
Index(s, i) == Cardinality({j \in Runners(s) : j <= i})

(* The scanners of the runners from the n-th on. *)
Due(s, n) == {Selected(req[s])[i] : i \in {j \in Runners(s) : Index(s, j) >= n}}

Skipped(s) == {k \in SelectedKeys(req[s]) : ~Runnable(k, req[s], apiUrl[s])}

(* Every selected stage waits or is skipped. *)
PlannedStages(s) ==
    [k \in StageKeys |->
        IF k \in Skipped(s) THEN "skipped"
        ELSE IF k \in SelectedKeys(req[s]) THEN "waiting" ELSE stages[s][k]]

(* Lines 226-256. *)
Plan(s) ==
    /\ pc[s] = "plan"
    /\ stages' = [stages EXCEPT ![s] = PlannedStages(s)]
    /\ tools' = [tools EXCEPT ![s] =
                    [k \in Tools |-> IF k \in Skipped(s) THEN "skipped" ELSE @[k]]]
    /\ SaveStages(s) /\ SaveTools(s)
    /\ Goto(s, "check")
    /\ UNCHANGED <<req, status, cancel, progress, total, findings>>
    /\ UNCHANGED <<up, queue, idx, apiUrl, started, escaped, clientVars, boundVars>>

Completed(t) == {k \in Tools : t[k] = "completed"}
Unavailable(t) == {k \in Tools : t[k] \in {"missing", "skipped", "error"}}
CurrentKey(s) == Selected(req[s])[CHOOSE i \in Runners(s) : Index(s, i) = idx[s]]

(* len(runners), with which total_steps agrees wherever there is a step. *)
Steps(s) == Cardinality(Runners(s))

(* Lines 260-262: the scanner at hand and every later one. *)
StagesCancelled(s) ==
    [k \in StageKeys |-> IF k \in Due(s, idx[s]) THEN "cancelled" ELSE stages[s][k]]

(* Lines 259-274: the flag is seen before a scanner starts. *)
CheckCancelled(s) ==
    /\ pc[s] = "check"
    /\ idx[s] <= Steps(s)
    /\ cancel[s]
    /\ stages' = [stages EXCEPT ![s] = StagesCancelled(s)]
    /\ status' = [status EXCEPT ![s] = "cancelled"]
    /\ progress' = [progress EXCEPT ![s] = ((idx[s] - 1) * 100) \div Steps(s)]
    /\ total' = [total EXCEPT ![s] = Cardinality(findings[s])]
    /\ SaveStages(s)
    /\ rowTools' = [rowTools EXCEPT ![s] = tools[s]]
    /\ Goto(s, "leaving")
    /\ UNCHANGED <<req, cancel, findings>>
    /\ UNCHANGED <<up, queue, tools, idx, apiUrl, started, escaped, clientVars, boundVars>>

(* A plausible bug: the flag is read once, before the first scanner. *)
CheckNext_FirstOnly(s) ==
    /\ pc[s] = "check"
    /\ idx[s] <= Steps(s)
    /\ ~cancel[s] \/ idx[s] > 1
    /\ Goto(s, "announce")
    /\ UNCHANGED <<rowVars, up, queue, localVars, escaped, clientVars, boundVars>>

(* Line 259: the flag is not set; the next scanner is due. *)
CheckNext(s) ==
    /\ pc[s] = "check"
    /\ idx[s] <= Steps(s)
    /\ ~cancel[s]
    /\ Goto(s, "announce")
    /\ UNCHANGED <<rowVars, up, queue, localVars, escaped, clientVars, boundVars>>

(* Line 258: no scanner is left. *)
CheckDone(s) ==
    /\ pc[s] = "check"
    /\ idx[s] > Steps(s)
    /\ Goto(s, "finish")
    /\ UNCHANGED <<rowVars, up, queue, localVars, escaped, clientVars, boundVars>>

(* Lines 275-276, a transaction after the one that read the flag. *)
Announce(s) ==
    /\ pc[s] = "announce"
    /\ SetStage(s, CurrentKey(s), "running") /\ SaveStages(s)
    /\ rowTools' = [rowTools EXCEPT ![s] = tools[s]]
    /\ progress' = [progress EXCEPT ![s] = ((idx[s] - 1) * 90) \div Steps(s)]
    /\ runsAfter' = [runsAfter EXCEPT ![s] = IF cancel[s] /\ @ < 2 THEN @ + 1 ELSE @]
    /\ Goto(s, "run")
    /\ UNCHANGED <<req, status, cancel, total, findings>>
    /\ UNCHANGED <<up, queue, tools, idx, apiUrl, started, escaped, canceller, acked, boundVars>>

(* A finding is one row per scan and fingerprint (INSERT OR IGNORE), all of  *)
(* a scanner's in one transaction.                                           *)
SaveFindings(s, F) == findings' = [findings EXCEPT ![s] = @ \cup F]

(* Lines 279-289: the scanner runs, then its findings are saved.  One that   *)
(* is missing has none; one that fails may have some (schemathesis.py, lines *)
(* 41-63); any exception it lets out is reported as "error".                 *)
RunTool(s) ==
    /\ pc[s] = "run"
    /\ \E o \in Outcomes, F \in SUBSET Findings :
         /\ o = "missing" => F = {}
         /\ SaveFindings(s, F)
         /\ tools' = [tools EXCEPT ![s][CurrentKey(s)] =
                        IF o = "completed_with_warnings" THEN "completed" ELSE o]
         /\ SetStage(s, CurrentKey(s), o)
    /\ Goto(s, "record")
    /\ UNCHANGED <<req, status, cancel, progress, rowStages, rowTools, total>>
    /\ UNCHANGED <<up, queue, idx, apiUrl, started, escaped, clientVars, boundVars>>

RecordedProgress(s) == (idx[s] * 90) \div Steps(s)

(* Lines 290-291. *)
Record(s) ==
    /\ pc[s] = "record"
    /\ rowStages' = [rowStages EXCEPT ![s] = stages[s]]
    /\ rowTools' = [rowTools EXCEPT ![s] = tools[s]]
    /\ progress' = [progress EXCEPT ![s] = RecordedProgress(s)]
    /\ idx' = [idx EXCEPT ![s] = @ + 1]
    /\ Goto(s, "check")
    /\ UNCHANGED <<req, status, cancel, total, findings>>
    /\ UNCHANGED <<up, queue, stages, tools, apiUrl, started, escaped, clientVars, boundVars>>

(* A plausible bug: a missing scanner counts as if it had completed. *)
FinalStatus_MissingIgnored(t) ==
    CASE Completed(t) = {} -> "failed"
      [] Completed(t) # {} /\ \E k \in Tools : t[k] = "error" -> "completed_partial"
      [] OTHER -> "completed"

(* Lines 295-302. *)
FinalStatus(t) ==
    CASE Completed(t) = {} -> "failed"
      [] Completed(t) # {} /\ Unavailable(t) # {} -> "completed_partial"
      [] OTHER -> "completed"

(* Lines 293-312. *)
Finish(s) ==
    /\ pc[s] = "finish"
    /\ SetStage(s, "normalisation", "completed") /\ SaveStages(s)
    /\ rowTools' = [rowTools EXCEPT ![s] = tools[s]]
    /\ status' = [status EXCEPT ![s] = FinalStatus(tools[s])]
    /\ progress' = [progress EXCEPT ![s] = 100]
    /\ total' = [total EXCEPT ![s] = Cardinality(findings[s])]
    /\ Goto(s, "leaving")
    /\ UNCHANGED <<req, cancel, findings>>
    /\ UNCHANGED <<up, queue, tools, idx, apiUrl, started, escaped, clientVars, boundVars>>

(* The last log line (273, 313) is written. *)
Leave(s) ==
    /\ pc[s] = "leaving"
    /\ Goto(s, "cleanup")
    /\ UNCHANGED <<rowVars, up, queue, localVars, escaped, clientVars, boundVars>>

(* An exception inside the try block: a database or log write fails, the    *)
(* target is refused, the authentication profile cannot be resolved.        *)
Raise(s) ==
    /\ pc[s] \in TryPCs \ {"starting", "probing"}
    /\ faults < MaxFaults
    /\ faults' = faults + 1
    /\ Goto(s, "failing")
    /\ UNCHANGED <<rowVars, up, queue, localVars, escaped, clientVars, stops>>

(* A plausible bug: the summary of a failed scan is not computed afresh. *)
FailureTotal_Stale(s) == total[s]

FailureTotal(s) == Cardinality(findings[s])

(* Lines 314-327. *)
HandleFailure(s) ==
    /\ pc[s] = "failing"
    /\ status' = [status EXCEPT ![s] = "failed"]
    /\ progress' = [progress EXCEPT ![s] = 100]
    /\ rowStages' = [rowStages EXCEPT ![s] = stages[s]]
    /\ rowTools' = [rowTools EXCEPT ![s] = tools[s]]
    /\ total' = [total EXCEPT ![s] = FailureTotal(s)]
    /\ Goto(s, "cleanup")
    /\ UNCHANGED <<req, cancel, findings>>
    /\ UNCHANGED <<up, queue, localVars, escaped, clientVars, boundVars>>

(* The except clause itself raises (its log line, line 316, comes first):   *)
(* the row keeps its status and the exception ends up in the future.        *)
HandlerRaises(s) ==
    /\ pc[s] = "failing"
    /\ faults < MaxFaults
    /\ faults' = faults + 1
    /\ escaped' = escaped \cup {s}
    /\ Goto(s, "cleanup")
    /\ UNCHANGED <<rowVars, up, queue, localVars, clientVars, stops>>

(* The function returns: its locals are gone and its worker is free. *)
Return(s) ==
    /\ Goto(s, "done")
    /\ stages' = [stages EXCEPT ![s] = NoStages]
    /\ tools' = [tools EXCEPT ![s] = NoTools]
    /\ idx' = [idx EXCEPT ![s] = 1]
    /\ apiUrl' = [apiUrl EXCEPT ![s] = None]
    /\ started' = [started EXCEPT ![s] = FALSE]

(* The finally clause, lines 329-334: stop_repository_process has stopped   *)
(* whatever application is registered for the repository.                   *)
Cleanup(s) ==
    /\ pc[s] = "cleanup"
    /\ started[s]
    /\ SetStage(s, "runtime_cleanup", "completed")
    /\ Goto(s, "cleaned")
    /\ UNCHANGED <<rowVars, up, queue, tools, idx, apiUrl, started, escaped, clientVars, boundVars>>

NothingToClean(s) ==
    /\ pc[s] = "cleanup"
    /\ ~started[s]
    /\ Return(s)
    /\ UNCHANGED <<rowVars, up, queue, escaped, clientVars, boundVars>>

(* Lines 335-337. *)
RecordCleanup(s) ==
    /\ pc[s] = "cleaned"
    /\ rowStages' = [rowStages EXCEPT ![s] = stages[s]]
    /\ Return(s)
    /\ UNCHANGED <<req, status, cancel, progress, rowTools, total, findings>>
    /\ UNCHANGED <<up, queue, escaped, clientVars, boundVars>>

(* Lines 338-339: the write fails and the exception is dropped. *)
RecordCleanupFails(s) ==
    /\ pc[s] = "cleaned"
    /\ faults < MaxFaults
    /\ faults' = faults + 1
    /\ Return(s)
    /\ UNCHANGED <<rowVars, up, queue, escaped, clientVars, stops>>

(* A call of the process manager returns to the scan. *)
RuntimeStep(s) ==
    \/ StartRuntime(s) \/ StartRuntimeFails(s)
    \/ ProbeRuntime(s) \/ ProbeRaises(s)
    \/ Cleanup(s)

(* Everything else that _execute_scan does. *)
ScanStep(s) ==
    \/ Begin(s) \/ Prepare(s) \/ Plan(s)
    \/ CheckCancelled(s) \/ CheckNext(s) \/ CheckDone(s)
    \/ Announce(s) \/ RunTool(s) \/ Record(s) \/ Finish(s) \/ Leave(s)
    \/ Raise(s) \/ HandleFailure(s) \/ HandlerRaises(s)
    \/ NothingToClean(s) \/ RecordCleanup(s) \/ RecordCleanupFails(s)

(* What a worker thread does next for scan s. *)
WorkerStep(s) == RuntimeStep(s) \/ ScanStep(s)

-----------------------------------------------------------------------------
(* The end of the backend, and its next launch.                             *)

(* main.py, lines 258-260: the requests in flight are answered, then the    *)
(* hook begins to stop the applications; the executor goes on.              *)
Shutdown ==
    /\ up = "up"
    /\ stops < MaxStops
    /\ canceller = {} /\ \A s \in Scans : pc[s] # "inserted"
    /\ up' = "draining"
    /\ stops' = stops + 1
    /\ UNCHANGED <<rowVars, queue, pc, localVars, escaped, clientVars, faults>>

(* The interpreter ends once the executor is idle. *)
Exited ==
    /\ up = "draining"
    /\ queue = <<>>
    /\ Executing = {}
    /\ up' = "stopped"
    /\ UNCHANGED <<rowVars, queue, pc, localVars, escaped, clientVars, boundVars>>

(* The process is killed: a crash, or the desktop shell, which ends the     *)
(* backend with child.kill() (desktop/src-tauri/src/main.rs, lines 86-96).  *)
(* The rows stay as they are; the memory is lost.                           *)
Kill ==
    /\ up \in {"up", "draining"}
    /\ stops < MaxStops
    /\ up' = "killed"
    /\ stops' = stops + 1
    /\ queue' = <<>>
    /\ pc' = [s \in Scans |-> IF pc[s] \in {"none", "done"} THEN pc[s] ELSE "lost"]
    /\ stages' = [s \in Scans |-> NoStages]
    /\ tools' = [s \in Scans |-> NoTools]
    /\ idx' = [s \in Scans |-> 1]
    /\ apiUrl' = [s \in Scans |-> None]
    /\ started' = [s \in Scans |-> FALSE]
    /\ canceller' = {}
    /\ UNCHANGED <<rowVars, escaped, acked, runsAfter, faults>>

(* main.py, lines 247-255: nothing looks at the rows left behind. *)
Restart ==
    /\ up \in {"stopped", "killed"}
    /\ up' = "up"
    /\ UNCHANGED <<rowVars, queue, pc, localVars, escaped, clientVars, boundVars>>

Next ==
    \/ \E s \in Scans, q \in Requests : CreateScan(s, q)
    \/ \E s \in Scans : SubmitScan(s) \/ CancelCheck(s) \/ CancelWrite(s) \/ WorkerStep(s)
    \/ TakeScan
    \/ Shutdown \/ Exited \/ Kill \/ Restart

Spec == Init /\ [][Next]_vars

(* A request handler runs to its end, the executor hands out work, and a    *)
(* worker thread keeps going: every scanner runs under a timeout and the    *)
(* wait for a URL lasts 50 seconds at most (line 201).                      *)
Fairness ==
    /\ WF_vars(TakeScan)
    /\ \A s \in Scans : WF_vars(SubmitScan(s)) /\ WF_vars(WorkerStep(s))

FairSpec == Spec /\ Fairness

-----------------------------------------------------------------------------
(* The stage list is the source of truth: a scan that was concluded or      *)
(* cancelled shows no stage as still waiting or running.                    *)
StagesSettled ==
    \A s \in Scans : status[s] \in Final \ {"failed"} =>
        \A k \in StageKeys : rowStages[s][k] \notin {"waiting", "running"}

(* The two accounts a row gives of a scanner agree at every moment a        *)
(* reader may look: `tool_status` and the stage list.                       *)
StagesAgreeWithTools ==
    \A s \in Scans, k \in Tools : rowTools[s][k] # "absent" =>
        \/ rowStages[s][k] = rowTools[s][k]
        \/ rowStages[s][k] = "completed_with_warnings" /\ rowTools[s][k] = "completed"

(* What a reader may see of the stages, at any moment. *)
StagesTruthful == StagesSettled /\ StagesAgreeWithTools

(* "No smooth fake progress percentage is used"                             *)
(* (docs/FIRST_RUN_AND_INTENDED_BEHAVIOUR.md, line 180): 100 percent is     *)
(* shown exactly for a scan that has ended by itself.                       *)
ProgressHonest ==
    \A s \in Scans :
        progress[s] = 100 <=> status[s] \in {"completed", "completed_partial", "failed"}

(* The final status rules (ibid., lines 175-176), over the request and the  *)
(* evidence of every selected scanner.                                      *)
StatusMatchesEvidence ==
    \A s \in Scans :
        LET of(S) == {k \in Tools : rowTools[s][k] \in S}
        IN  /\ status[s] = "completed" => of({"completed"}) = SelectedKeys(req[s])
            /\ status[s] = "completed_partial" =>
                   /\ of({"completed"}) # {}
                   /\ of({"missing", "skipped", "error"}) = SelectedKeys(req[s]) \ of({"completed"})
                   /\ of({"missing", "skipped", "error"}) # {}

(* The summary stored with a final status counts the findings there are,    *)
(* those of the scanner whose bookkeeping failed included.                  *)
SummaryCounts ==
    \A s \in Scans : status[s] \in Final => total[s] = Cardinality(findings[s])

(* What a row says of an execution that is over. *)
ConclusionHonest == ProgressHonest /\ SummaryCounts

(* After a cancellation is granted for a running scan, at most one more     *)
(* scanner starts: the one whose check came before the flag.                *)
CancelBounded ==
    \A s \in Scans : runsAfter[s] <= 1

(* Every accepted scan comes to a final status, unless its exception        *)
(* handler failed or the backend was killed.                                *)
EveryScanEnds ==
    \A s \in Scans :
        pc[s] = "inserted" ~> (status[s] \in Final \/ s \in escaped \/ pc[s] = "lost")

(* The engine implements the life cycle of a scan. *)
Lifecycle == INSTANCE ScanLifecycle WITH occupied <- Executing, evidence <- findings

ImplementsLifecycle == Lifecycle!Spec

-----------------------------------------------------------------------------
(* "Only queued or running scans can be cancelled" (main.py, line 789): a   *)
(* cancellation granted while the scan was queued keeps its scanners from   *)
(* starting.                                                                *)
QueuedCancelHonoured ==
    \A s \in acked : pc[s] # "run"
=============================================================================
