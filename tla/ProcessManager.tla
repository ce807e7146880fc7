--------------------------- MODULE ProcessManager ---------------------------
(***************************************************************************)
(* app/core/process_manager.py: the table of the repository applications   *)
(* that YashSec started, operated on by several threads at once (HTTP      *)
(* request threads, scan workers, the shutdown hook).                      *)
(*                                                                         *)
(* The module-level lock `_lock` protects single reads and writes of the   *)
(* two dictionaries, not an operation as a whole: every access under the   *)
(* lock is one step here, and everything in between (poll, terminate,      *)
(* Popen) interleaves.  Nothing keeps two operations on one repository     *)
(* apart; what they may cost is confined to the processes launched while   *)
(* another operation on the repository was in flight (`exposed`).          *)
(***************************************************************************)
EXTENDS Naturals

CONSTANTS
    Threads,      \* threads that call into the module
    Workers,      \* those of the scan executor: they go on during the shutdown
    Main,         \* the thread that runs the shutdown hook (main.py, lines 258-260)
    Repos,        \* repositories
    Procs,        \* processes the operating system can create: bounds the launches
    NoProc, NoRepo

ASSUME ConstantsAssumption ==
    /\ Main \in Threads
    /\ Workers \subseteq Threads \ {Main}
    /\ NoProc \notin Procs
    /\ NoRepo \notin Repos

VARIABLES
    processes,    \* `_processes`: repository -> registered process
    logHandles,   \* `_log_handles`: repository -> the process whose log it is
    alive,        \* processes running in the operating system
    spawnedFor,   \* the repository a process was launched for (NoRepo: not launched)
    pc,           \* where each thread is
    op,           \* the operation the thread executes
    repo,         \* its repository_id argument
    held,         \* its local `previous` / `process`
    todo,         \* stop_all_processes: the identifiers still to visit
    closing,      \* the shutdown hook has begun: no HTTP request starts any more
    doomed,       \* history: the processes registered when it began
    contended,    \* history: the threads whose operation met another on its repository
    exposed,      \* history: the processes registered by such an operation
    left          \* history: the processes an earlier backend left running

tableVars == <<processes, logHandles>>
osVars == <<alive, spawnedFor>>
threadVars == <<pc, op, repo, held>>
shutdownVars == <<todo, closing, doomed>>
overlapVars == <<contended, exposed>>
vars == <<tableVars, osVars, threadVars, shutdownVars, overlapVars, left>>

PCs == {"idle", "read", "terminate", "forget", "close", "spawn", "register", "next"}

(* Type correctness of the table, the threads' locals and the shutdown hook. *)
TypeOK ==
    /\ processes \in [Repos -> Procs \cup {NoProc}]
    /\ logHandles \in [Repos -> Procs \cup {NoProc}]
    /\ alive \subseteq Procs
    /\ spawnedFor \in [Procs -> Repos \cup {NoRepo}]
    /\ pc \in [Threads -> PCs]
    /\ op \in [Threads -> {"start", "stop", "stop_all"}]
    /\ repo \in [Threads -> Repos \cup {NoRepo}]
    /\ held \in [Threads -> Procs \cup {NoProc}]
    /\ todo \subseteq Repos
    /\ closing \in BOOLEAN
    /\ doomed \subseteq Procs
    /\ contended \subseteq Threads
    /\ exposed \subseteq Procs
    /\ left \subseteq Procs
    /\ \A t \in Threads :
        /\ pc[t] \notin {"idle", "next"} => repo[t] \in Repos
        /\ pc[t] = "register" => held[t] \in Procs

(* Thread t is inside an operation on repository r. *)
Busy(t, r) == pc[t] \notin {"idle", "next"} /\ repo[t] = r

(* The other threads inside an operation on r. *)
Others(t, r) == {u \in Threads \ {t} : Busy(u, r)}

(* Thread t enters an operation on r: whoever it meets there, it met too. *)
Enters(t, r) ==
    contended' = IF Others(t, r) = {} THEN contended ELSE contended \cup {t} \cup Others(t, r)

Init ==
    /\ processes = [r \in Repos |-> NoProc]
    /\ logHandles = [r \in Repos |-> NoProc]
    /\ alive = {}
    /\ spawnedFor = [p \in Procs |-> NoRepo]
    /\ pc = [t \in Threads |-> "idle"]
    /\ op = [t \in Threads |-> "stop"]
    /\ repo = [t \in Threads |-> NoRepo]
    /\ held = [t \in Threads |-> NoProc]
    /\ todo = {}
    /\ closing = FALSE
    /\ doomed = {}
    /\ contended = {}
    /\ exposed = {}
    /\ left = {}

-----------------------------------------------------------------------------
(* start_repository_process / stop_repository_process are called.  A server *)
(* that is shutting down takes no new request; the executor's threads go on. *)
Call(t, kind, r) ==
    /\ t # Main
    /\ closing => t \in Workers
    /\ pc[t] = "idle"
    /\ Enters(t, r)
    /\ pc' = [pc EXCEPT ![t] = "read"]
    /\ op' = [op EXCEPT ![t] = kind]
    /\ repo' = [repo EXCEPT ![t] = r]
    /\ UNCHANGED <<tableVars, osVars, held, shutdownVars, exposed, left>>

(* stop_all_processes: a snapshot of the identifiers under the lock.  The   *)
(* server runs the shutdown hook once the requests in flight are answered;  *)
(* the scan workers may be anywhere.                                        *)
StopAll ==
    /\ ~closing
    /\ \A t \in Threads \ Workers : pc[t] = "idle"
    /\ closing' = TRUE
    /\ todo' = {r \in Repos : processes[r] # NoProc}
    /\ doomed' = {p \in Procs : \E r \in Repos : processes[r] = p}
    /\ pc' = [pc EXCEPT ![Main] = "next"]
    /\ op' = [op EXCEPT ![Main] = "stop_all"]
    /\ UNCHANGED <<tableVars, osVars, repo, held, overlapVars, left>>

(* The loop of stop_all_processes: stop_repository_process on the next one. *)
StopNext ==
    /\ pc[Main] = "next"
    /\ \E r \in todo :
         /\ Enters(Main, r)
         /\ todo' = todo \ {r}
         /\ repo' = [repo EXCEPT ![Main] = r]
         /\ pc' = [pc EXCEPT ![Main] = "read"]
    /\ UNCHANGED <<tableVars, osVars, op, held, closing, doomed, exposed, left>>

(* stop_all_processes returns. *)
StopAllReturns ==
    /\ pc[Main] = "next"
    /\ todo = {}
    /\ pc' = [pc EXCEPT ![Main] = "idle"]
    /\ UNCHANGED <<tableVars, osVars, op, repo, held, shutdownVars, overlapVars, left>>

(* with _lock: previous = _processes.get(repository_id) *)
ReadPrevious(t) ==
    /\ pc[t] = "read"
    /\ held' = [held EXCEPT ![t] = processes[repo[t]]]
    /\ pc' = [pc EXCEPT ![t] = "terminate"]
    /\ UNCHANGED <<tableVars, osVars, op, repo, shutdownVars, overlapVars, left>>

(* A plausible bug: the replacement is launched while the old process runs. *)
TerminateOnStopOnly(t) ==
    /\ pc[t] = "terminate"
    /\ alive' = IF op[t] = "start" THEN alive ELSE alive \ {held[t]}
    /\ pc' = [pc EXCEPT ![t] = "forget"]
    /\ UNCHANGED <<tableVars, spawnedFor, op, repo, held, shutdownVars, overlapVars, left>>

(* if previous and previous.poll() is None: _terminate_process_tree(previous). *)
(* SIGTERM, up to 10 s of waiting, SIGKILL: the process does not survive it.   *)
Terminate(t) ==
    /\ pc[t] = "terminate"
    /\ alive' = alive \ {held[t]}
    /\ pc' = [pc EXCEPT ![t] = "forget"]
    /\ UNCHANGED <<tableVars, spawnedFor, op, repo, held, shutdownVars, overlapVars, left>>

(* _forget_process pops by identifier, whatever process is registered by now. *)
Forget(t) ==
    /\ pc[t] = "forget"
    /\ processes' = [processes EXCEPT ![repo[t]] = NoProc]
    /\ pc' = [pc EXCEPT ![t] = "close"]
    /\ UNCHANGED <<logHandles, osVars, op, repo, held, shutdownVars, overlapVars, left>>

(* A plausible bug: stop_all_processes leaves its loop after one repository. *)
AfterCloseOnce(t) == IF op[t] = "start" THEN "spawn" ELSE "idle"

(* Where an operation goes on after _forget_process. *)
AfterClose(t) ==
    CASE op[t] = "start" -> "spawn"
      [] op[t] = "stop" -> "idle"
      [] OTHER -> "next"

(* The operation of t is over: its locals are gone. *)
Leaves(t) ==
    /\ repo' = [repo EXCEPT ![t] = NoRepo]
    /\ held' = [held EXCEPT ![t] = NoProc]
    /\ op' = [op EXCEPT ![t] = IF @ = "start" THEN "stop" ELSE @]
    /\ contended' = contended \ {t}

(* A plausible bug: the log handle of a stopped process is left registered. *)
CloseLogHandleOfStart(t) ==
    /\ pc[t] = "close"
    /\ logHandles' = IF op[t] = "start" THEN [logHandles EXCEPT ![repo[t]] = NoProc]
                                        ELSE logHandles
    /\ pc' = [pc EXCEPT ![t] = AfterClose(t)]
    /\ IF op[t] = "start" THEN UNCHANGED <<op, repo, held, contended>> ELSE Leaves(t)
    /\ UNCHANGED <<processes, osVars, shutdownVars, exposed, left>>

(* _close_log_handle: the lock is taken a second time. *)
CloseLogHandle(t) ==
    /\ pc[t] = "close"
    /\ logHandles' = [logHandles EXCEPT ![repo[t]] = NoProc]
    /\ pc' = [pc EXCEPT ![t] = AfterClose(t)]
    /\ IF op[t] = "start" THEN UNCHANGED <<op, repo, held, contended>> ELSE Leaves(t)
    /\ UNCHANGED <<processes, osVars, shutdownVars, exposed, left>>

(* The command cannot be parsed or resolved, the log file cannot be opened *)
(* or Popen raises: the old process is gone and nothing replaces it.       *)
SpawnFails(t) ==
    /\ pc[t] = "spawn"
    /\ pc' = [pc EXCEPT ![t] = "idle"]
    /\ Leaves(t)
    /\ UNCHANGED <<tableVars, osVars, shutdownVars, exposed, left>>

(* subprocess.Popen, outside the lock. *)
Spawn(t, p) ==
    /\ pc[t] = "spawn"
    /\ spawnedFor[p] = NoRepo
    /\ spawnedFor' = [spawnedFor EXCEPT ![p] = repo[t]]
    /\ alive' = alive \cup {p}
    /\ held' = [held EXCEPT ![t] = p]
    /\ pc' = [pc EXCEPT ![t] = "register"]
    /\ UNCHANGED <<tableVars, op, repo, shutdownVars, overlapVars, left>>

(* A plausible bug: the process is not registered while the backend closes. *)
RegisterUnlessClosing(t) ==
    /\ pc[t] = "register"
    /\ processes' = IF closing THEN processes ELSE [processes EXCEPT ![repo[t]] = held[t]]
    /\ logHandles' = IF closing THEN logHandles ELSE [logHandles EXCEPT ![repo[t]] = held[t]]
    /\ pc' = [pc EXCEPT ![t] = "idle"]
    /\ exposed' = IF t \in contended THEN exposed \cup {held[t]} ELSE exposed
    /\ Leaves(t)
    /\ UNCHANGED <<osVars, shutdownVars, left>>

(* with _lock: _processes[repository_id], _log_handles[repository_id] = ... *)
Register(t) ==
    /\ pc[t] = "register"
    /\ processes' = [processes EXCEPT ![repo[t]] = held[t]]
    /\ logHandles' = [logHandles EXCEPT ![repo[t]] = held[t]]
    /\ pc' = [pc EXCEPT ![t] = "idle"]
    /\ exposed' = IF t \in contended THEN exposed \cup {held[t]} ELSE exposed
    /\ Leaves(t)
    /\ UNCHANGED <<osVars, shutdownVars, left>>

(* The application ends by itself; the table still names it. *)
Exit(p) ==
    /\ p \in alive
    /\ alive' = alive \ {p}
    /\ UNCHANGED <<tableVars, spawnedFor, threadVars, shutdownVars, overlapVars, left>>

(* The backend ends, killed or in order: its memory is lost, its processes  *)
(* go on (start_new_session), and the next backend's table is empty.        *)
BackendEnds ==
    /\ processes' = [r \in Repos |-> NoProc]
    /\ logHandles' = [r \in Repos |-> NoProc]
    /\ pc' = [t \in Threads |-> "idle"]
    /\ op' = [t \in Threads |-> "stop"]
    /\ repo' = [t \in Threads |-> NoRepo]
    /\ held' = [t \in Threads |-> NoProc]
    /\ todo' = {}
    /\ closing' = FALSE
    /\ doomed' = {}
    /\ contended' = {}
    /\ left' = alive
    /\ UNCHANGED <<osVars, exposed>>

Step(t) ==
    \/ ReadPrevious(t)
    \/ Terminate(t)
    \/ Forget(t)
    \/ CloseLogHandle(t)
    \/ SpawnFails(t)
    \/ \E p \in Procs : Spawn(t, p)
    \/ Register(t)

Next ==
    \/ \E t \in Threads, kind \in {"start", "stop"}, r \in Repos : Call(t, kind, r)
    \/ StopAll
    \/ StopNext
    \/ StopAllReturns
    \/ \E t \in Threads : Step(t)
    \/ \E p \in Procs : Exit(p)
    \/ BackendEnds

Spec == Init /\ [][Next]_vars

-----------------------------------------------------------------------------
(* p was launched while another operation on its repository was in flight.  *)
Exposed(p) ==
    p \in exposed \/ \E t \in contended : pc[t] = "register" /\ held[t] = p

(* The running processes of this backend launched with nobody else at work  *)
(* on their repository.  Whatever overlaps later, they are not affected.    *)
Undisturbed == {p \in alive \ left : ~Exposed(p)}

(* "Stop the old process before launching the replacement" (lines 147-148): *)
(* no two processes of one repository run at the same time.  Two that were  *)
(* launched by overlapping operations may.                                  *)
OneInstance ==
    \A p, q \in Undisturbed : spawnedFor[p] = spawnedFor[q] => p = q

(* No orphan: the table names every running process, except one that its    *)
(* start is about to register: only such a process can be stopped later, by *)
(* a user, a scan's cleanup or the shutdown hook.  _forget_process pops by  *)
(* identifier and a start overwrites, with any number of callers on the     *)
(* repository: what they lose are processes launched among them, never one  *)
(* that was registered before.                                              *)
NoOrphan ==
    \A p \in Undisturbed :
        \/ processes[spawnedFor[p]] = p
        \/ \E t \in Threads : pc[t] = "register" /\ held[t] = p

(* The two dictionaries agree wherever no operation is in flight: the log   *)
(* handle kept open is never that of another process than the registered    *)
(* one, and it is missing only for a process of overlapping operations.     *)
HandlesMatch ==
    \A r \in Repos :
        (\A t \in Threads : ~Busy(t, r)) =>
            \/ logHandles[r] = processes[r]
            \/ logHandles[r] = NoProc /\ processes[r] \in exposed

(* When stop_all_processes has returned, every undisturbed process that was *)
(* registered when it began is dead, whatever the scan workers, which go on *)
(* starting and stopping, did in the meantime.                              *)
ShutdownStopsRegistered ==
    closing /\ pc[Main] = "idle" => Undisturbed \cap doomed = {}

(* "Target repository processes started by YashSec are terminated during    *)
(* shutdown" (docs/FIRST_RUN_AND_INTENDED_BEHAVIOUR.md, line 225): nothing  *)
(* this backend started runs once the shutdown hook and every other caller  *)
(* are through.                                                             *)
TerminatedByShutdown ==
    closing /\ (\A t \in Threads : pc[t] = "idle") => alive \subseteq left

-----------------------------------------------------------------------------
(* The inductive strengthening behind the invariants above.                 *)

(* Two operations on one repository know of each other. *)
Overlaps ==
    \A t, u \in Threads : \A r \in Repos :
        Busy(t, r) /\ Busy(u, r) => t = u \/ t \in contended

(* What a thread knows inside its operation.  Its `previous` may have been  *)
(* forgotten or replaced, but only by an operation that overlaps its own.   *)
InFlight ==
    \A t \in Threads :
        /\ pc[t] \in {"terminate", "forget"} =>
               \/ held[t] = processes[repo[t]]
               \/ t \in contended /\ processes[repo[t]] \in exposed \cup {NoProc}
        /\ pc[t] = "forget" => held[t] \notin alive
        /\ pc[t] \in {"close", "spawn", "register"} =>
               \/ processes[repo[t]] = NoProc
               \/ t \in contended /\ processes[repo[t]] \in exposed
        /\ pc[t] \in {"spawn", "register"} => op[t] = "start"
        /\ pc[t] \in {"terminate", "forget", "register"} /\ held[t] # NoProc =>
               spawnedFor[held[t]] = repo[t]
        /\ pc[t] = "next" => t = Main
        /\ t \in contended => pc[t] \notin {"idle", "next"}

Registered ==
    /\ \A r \in Repos : processes[r] # NoProc => spawnedFor[processes[r]] = r
    /\ \A p \in alive \cup exposed \cup left : spawnedFor[p] \in Repos

(* A handle without its process is about to be closed; a process without    *)
(* its handle was launched by overlapping operations.                       *)
Handles ==
    \A r \in Repos :
        /\ \/ logHandles[r] \in {NoProc, processes[r]}
           \/ \E t \in Threads : pc[t] = "close" /\ repo[t] = r
        /\ logHandles[r] = NoProc => processes[r] \in exposed \cup {NoProc}

(* A doomed process that still runs is one stop_all_processes will reach. *)
DoomedReachable ==
    /\ \A t \in Threads : op[t] = "stop_all" => t = Main
    /\ closing => op[Main] = "stop_all"
    /\ ~closing => pc[Main] = "idle" /\ doomed = {}
    /\ \A p \in doomed : spawnedFor[p] # NoRepo
    /\ \A p \in Undisturbed \cap doomed :
        /\ processes[spawnedFor[p]] = p
        /\ \/ pc[Main] # "idle" /\ spawnedFor[p] \in todo
           \/ pc[Main] \in {"read", "terminate"} /\ repo[Main] = spawnedFor[p]

IInv ==
    /\ TypeOK
    /\ Overlaps
    /\ InFlight
    /\ Registered
    /\ NoOrphan
    /\ Handles
    /\ DoomedReachable

-----------------------------------------------------------------------------
(* The one undisturbed process of r that runs, seen from outside. *)
RunningOf(r) ==
    IF \E p \in Undisturbed : spawnedFor[p] = r
    THEN CHOOSE p \in Undisturbed : spawnedFor[p] = r
    ELSE NoProc

Runtime == INSTANCE RepositoryRuntime WITH
    running <- [r \in Repos |-> RunningOf(r)],
    launched <- {p \in Procs : spawnedFor[p] # NoRepo}

(* The threads' steps, overlapping as they may, implement the specification *)
(* of at most one process.                                                  *)
ImplementsRuntime == Runtime!Spec
=============================================================================
