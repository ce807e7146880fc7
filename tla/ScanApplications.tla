-------------------------- MODULE ScanApplications --------------------------
(***************************************************************************)
(* The scan engine and the process manager together: scans that start the  *)
(* application they test and stop it in their finally clause, users who    *)
(* start and stop the same application by HTTP request, and the shutdown   *)
(* hook, each a thread inside process_manager.py step by step.             *)
(*                                                                         *)
(* Every step is a step of one of the two modules or, where a call begins  *)
(* or returns, of both: the composition implements each of them.           *)
(***************************************************************************)
EXTENDS ProcessManager, Sequences, FiniteSets

CONSTANTS
    Requests, Tools, Builtin, UrlTools, SchemaTools, Outcomes, Findings,
    MaxWorkers, MaxFaults, Cancellable, MaxStops, None, Given, Found

VARIABLES
    req, status, cancel, progress, rowStages, rowTools, total, findings,
    up, queue, scanPc, stages, tools, idx, apiUrl, started, escaped,
    canceller, acked, runsAfter, faults, stops,
    launches    \* history: launches[s], the processes scan s has launched

(* A worker thread executes one scan and is named after it. *)
Engine == INSTANCE ScanEngine WITH Scans <- Workers, pc <- scanPc

ASSUME EngineAssumption == Engine!ConstantsAssumption

managerVars == vars
engineVars ==
    <<req, status, cancel, progress, rowStages, rowTools, total, findings,
      up, queue, scanPc, stages, tools, idx, apiUrl, started, escaped,
      canceller, acked, runsAfter, faults, stops>>
appVars == <<managerVars, engineVars, launches>>

AppTypeOK ==
    /\ TypeOK
    /\ Engine!TypeOK
    /\ launches \in [Workers -> SUBSET Procs]

AppInit ==
    /\ Init
    /\ Engine!Init
    /\ launches = [s \in Workers |-> {}]

-----------------------------------------------------------------------------
(* Calls.                                                                   *)

(* main.py, start_repository and stop_repository: a request of a user. *)
UserCalls(t, kind, r) ==
    /\ up = "up"
    /\ t \notin Workers
    /\ Call(t, kind, r)
    /\ UNCHANGED <<engineVars, launches>>

(* scan_engine.py, line 198. *)
ScanCallsStart(s) ==
    /\ scanPc[s] = "starting"
    /\ Call(s, "start", req[s].repo)
    /\ UNCHANGED <<engineVars, launches>>

(* scan_engine.py, lines 329-330. *)
ScanCallsStop(s) ==
    /\ scanPc[s] = "cleanup"
    /\ started[s]
    /\ Call(s, "stop", req[s].repo)
    /\ UNCHANGED <<engineVars, launches>>

(* main.py, lines 258-260: the server has stopped and runs its hook. *)
HookBegins ==
    /\ StopAll
    /\ Engine!Shutdown
    /\ UNCHANGED launches

-----------------------------------------------------------------------------
(* Inside the process manager.                                              *)

(* A step at which no call of a scan returns. *)
InsideStep(t) ==
    /\ \/ ReadPrevious(t) \/ Terminate(t) \/ Forget(t)
       \/ CloseLogHandle(t) /\ ~(t \in Workers /\ op[t] = "stop")
       \/ (SpawnFails(t) \/ Register(t)) /\ t \notin Workers
    /\ UNCHANGED <<engineVars, launches>>

Launches(t, p) ==
    /\ Spawn(t, p)
    /\ launches' = IF t \in Workers THEN [launches EXCEPT ![t] = @ \cup {p}] ELSE launches
    /\ UNCHANGED engineVars

HookStep ==
    /\ StopNext \/ StopAllReturns
    /\ UNCHANGED <<engineVars, launches>>

ApplicationExits(p) ==
    /\ Exit(p)
    /\ UNCHANGED <<engineVars, launches>>

-----------------------------------------------------------------------------
(* Returns to a scan.                                                       *)

ScanStarted(s) ==
    /\ Register(s)
    /\ Engine!StartRuntime(s)
    /\ UNCHANGED launches

ScanStartFails(s) ==
    /\ SpawnFails(s)
    /\ Engine!StartRuntimeFails(s)
    /\ UNCHANGED launches

(* The directory is gone: the old application is not touched (lines 143-145). *)
ScanStartRefused(s) ==
    /\ pc[s] = "idle"
    /\ Engine!StartRuntimeFails(s)
    /\ UNCHANGED <<managerVars, launches>>

(* wait_for_repository_url reports that the command has exited only when it *)
(* finds the process that is registered by now ended (lines 305-325).       *)
ScanProbes(s) ==
    /\ \/ Engine!ProbeRaises(s)
       \/ /\ Engine!ProbeRuntime(s)
          /\ rowStages'[s]["runtime_start"] = "failed" =>
                 processes[req[s].repo] \in Procs \ alive
    /\ UNCHANGED <<managerVars, launches>>

ScanStopped(s) ==
    /\ op[s] = "stop"
    /\ CloseLogHandle(s)
    /\ Engine!Cleanup(s)
    /\ UNCHANGED launches

-----------------------------------------------------------------------------
(* The engine by itself, and the end of the backend.                        *)

EngineStep ==
    /\ \/ \E s \in Workers, q \in Requests : Engine!CreateScan(s, q)
       \/ \E s \in Workers :
            \/ Engine!SubmitScan(s) \/ Engine!CancelCheck(s) \/ Engine!CancelWrite(s)
            \/ Engine!ScanStep(s)
       \/ Engine!TakeScan
       \/ Engine!Restart
    /\ UNCHANGED <<managerVars, launches>>

(* The hook has returned and nothing is left to execute. *)
Drained == up = "draining" /\ pc[Main] = "idle" /\ queue = <<>> /\ Engine!Executing = {}

(* The interpreter ends. *)
Exits ==
    /\ Drained
    /\ Engine!Exited
    /\ BackendEnds
    /\ UNCHANGED launches

(* At any moment, inside whatever operation. *)
Killed ==
    /\ Engine!Kill
    /\ BackendEnds
    /\ UNCHANGED launches

AppNext ==
    \/ \E t \in Threads, kind \in {"start", "stop"}, r \in Repos : UserCalls(t, kind, r)
    \/ \E s \in Workers :
         \/ ScanCallsStart(s) \/ ScanCallsStop(s)
         \/ ScanStarted(s) \/ ScanStartFails(s) \/ ScanStartRefused(s)
         \/ ScanProbes(s) \/ ScanStopped(s)
    \/ \E t \in Threads : InsideStep(t) \/ \E p \in Procs : Launches(t, p)
    \/ \E p \in Procs : ApplicationExits(p)
    \/ HookBegins \/ HookStep
    \/ EngineStep
    \/ Exits \/ Killed

AppSpec == AppInit /\ [][AppNext]_appVars

-----------------------------------------------------------------------------
(* "Automatic cleanup of target processes started for a scan"               *)
(* (RELEASE_NOTES.md, line 16): an application that a scan started does not *)
(* outlive the execution of that scan, however the scan ends and whoever    *)
(* starts or stops the repository's application meanwhile; the exception is *)
(* one whose start itself overlapped another operation on the repository.   *)
NoProcessLeftBehind ==
    \A s \in Workers : launches[s] \cap Undisturbed # {} => s \in Engine!Executing

(* A backend that shut down in order leaves no application running that it  *)
(* started, although queued scans start applications after the hook has     *)
(* taken its snapshot; the exception is the same.                           *)
OrderlyShutdown ==
    Drained => Undisturbed = {}

-----------------------------------------------------------------------------
(* The inductive strengthening.                                             *)

(* A scan is inside the process manager only at its two calls. *)
Linked ==
    \A s \in Workers :
        /\ pc[s] # "idle" =>
              /\ repo[s] = req[s].repo
              /\ \/ op[s] = "start" /\ scanPc[s] = "starting"
                 \/ op[s] = "stop" /\ scanPc[s] = "cleanup" /\ started[s]
        /\ pc[s] = "register" => held[s] \in launches[s]
        /\ scanPc[s] \notin {"none", "lost"} => req[s] # None
        /\ started[s] => scanPc[s] \in Engine!ExecutingPCs

(* A running application that a scan launched undisturbed: the scan is at   *)
(* the call that launched it, or has it to stop.                            *)
Owned ==
    \A s \in Workers : \A p \in launches[s] \cap Undisturbed :
        /\ spawnedFor[p] = req[s].repo
        /\ \/ pc[s] = "register" /\ held[s] = p
           \/ /\ started[s] /\ scanPc[s] # "cleaned"
              /\ pc[s] \in {"idle", "read", "terminate"}

(* While the hook is at work or has been, what runs undisturbed is among    *)
(* what it found or a scan's; an ended backend has left nothing behind that *)
(* it knows of.                                                             *)
Closing ==
    /\ closing <=> up = "draining"
    /\ up \in {"stopped", "killed"} => Undisturbed = {} /\ \A t \in Threads : pc[t] = "idle"
    /\ closing =>
          /\ \A t \in Threads \ Workers : t # Main => pc[t] = "idle"
          /\ \A p \in Undisturbed : p \in doomed \/ \E s \in Workers : p \in launches[s]

AppInv ==
    /\ IInv
    /\ Linked
    /\ Owned
    /\ Closing
=============================================================================
