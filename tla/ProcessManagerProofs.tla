------------------------ MODULE ProcessManagerProofs ------------------------
(***************************************************************************)
(* TLAPS proofs about ProcessManager and ScanApplications, for every set   *)
(* of threads, repositories, processes and scans.  Callers overlap on a    *)
(* repository as they like: nothing is assumed to keep them apart.         *)
(***************************************************************************)
EXTENDS ScanApplications, FiniteSetTheorems, TLAPS

USE ConstantsAssumption

(* Every step of every caller keeps the types. *)
LEMMA TypeStep == TypeOK /\ [Next]_vars => TypeOK'
<1> SUFFICES ASSUME TypeOK, [Next]_vars PROVE TypeOK'
  OBVIOUS
<1> USE DEF TypeOK, PCs, tableVars, osVars, threadVars, shutdownVars, overlapVars
<1>1. ASSUME NEW t \in Threads, NEW kind \in {"start", "stop"}, NEW r \in Repos,
             Call(t, kind, r)
      PROVE TypeOK'
  BY <1>1 DEF Call, Enters, Others
<1>2. CASE StopAll
  BY <1>2 DEF StopAll
<1>3. CASE StopNext
  BY <1>3 DEF StopNext, Enters, Others
<1>4. CASE StopAllReturns
  BY <1>4 DEF StopAllReturns
<1>5. ASSUME NEW t \in Threads, Step(t)
      PROVE TypeOK'
  <2>1. CASE ReadPrevious(t)
    BY <2>1 DEF ReadPrevious
  <2>2. CASE Terminate(t)
    BY <2>2 DEF Terminate
  <2>3. CASE Forget(t)
    BY <2>3 DEF Forget
  <2>4. CASE CloseLogHandle(t)
    BY <2>4 DEF CloseLogHandle, AfterClose, Leaves
  <2>5. CASE SpawnFails(t)
    BY <2>5 DEF SpawnFails, Leaves
  <2>6. ASSUME NEW p \in Procs, Spawn(t, p)
        PROVE TypeOK'
    BY <2>6 DEF Spawn
  <2>7. CASE Register(t)
    BY <2>7 DEF Register, Leaves
  <2> QED BY <2>1, <2>2, <2>3, <2>4, <2>5, <2>6, <2>7, <1>5 DEF Step
<1>6. ASSUME NEW p \in Procs, Exit(p)
      PROVE TypeOK'
  BY <1>6 DEF Exit
<1>7. CASE BackendEnds
  BY <1>7 DEF BackendEnds
<1>8. CASE UNCHANGED vars
  BY <1>8 DEF vars
<1> QED BY <1>1, <1>2, <1>3, <1>4, <1>5, <1>6, <1>7, <1>8 DEF Next

LEMMA TypeInit == Init => TypeOK
<1> SUFFICES ASSUME Init PROVE TypeOK
  OBVIOUS
<1>1. \A t \in Threads : /\ pc[t] \notin {"idle", "next"} => repo[t] \in Repos
                       /\ pc[t] = "register" => held[t] \in Procs
  BY DEF Init
<1> QED BY <1>1 DEF Init, TypeOK, PCs

(* Whatever the callers do: the variables keep their types. *)
THEOREM TypeCorrect == Spec => []TypeOK
BY TypeInit, TypeStep, PTL DEF Spec

-----------------------------------------------------------------------------
(* The inductive invariant. *)
LEMMA IInvInit == Init => IInv
<1> SUFFICES ASSUME Init PROVE IInv
  OBVIOUS
<1>1. TypeOK
  BY TypeInit
<1>2. Overlaps /\ InFlight
  BY DEF Init, Overlaps, InFlight, Busy
<1>3. Registered /\ NoOrphan
  BY DEF Init, Registered, NoOrphan, Undisturbed
<1>4. Handles
  BY DEF Init, Handles
<1>5. DoomedReachable
  BY DEF Init, DoomedReachable, Undisturbed
<1> QED BY <1>1, <1>2, <1>3, <1>4, <1>5 DEF IInv

LEMMA IInvStep ==
  ASSUME IInv, [Next]_vars
  PROVE  IInv'
<1>0. TypeOK'
  BY TypeStep DEF IInv
<1> USE <1>0
    DEF IInv, TypeOK, PCs, Busy, tableVars, osVars, threadVars, shutdownVars, overlapVars
<1>1. ASSUME NEW t \in Threads, NEW kind \in {"start", "stop"}, NEW r \in Repos,
             Call(t, kind, r)
      PROVE  IInv'
  <2>1. Overlaps'
    BY <1>1 DEF Call, Enters, Others, Overlaps
  <2>2. InFlight'
    BY <1>1 DEF Call, Enters, Others, InFlight
  <2>3. Registered'
    BY <1>1 DEF Call, Enters, Others, Registered
  <2>4. NoOrphan'
    BY <1>1 DEF Call, Enters, Others, NoOrphan, Undisturbed, Exposed
  <2>5. Handles'
    BY <1>1 DEF Call, Enters, Others, Handles
  <2>6. DoomedReachable'
    BY <1>1 DEF Call, Enters, Others, DoomedReachable, Undisturbed, Exposed
  <2> QED BY <2>1, <2>2, <2>3, <2>4, <2>5, <2>6
<1>2. CASE StopAll
  <2>1. Overlaps'
    BY <1>2 DEF StopAll, Overlaps
  <2>2. InFlight'
    BY <1>2 DEF StopAll, InFlight
  <2>3. Registered'
    BY <1>2 DEF StopAll, Registered
  <2>4. NoOrphan'
    BY <1>2 DEF StopAll, NoOrphan, Undisturbed, Exposed
  <2>5. Handles'
    BY <1>2 DEF StopAll, Handles
  <2>6. DoomedReachable'
    BY <1>2 DEF StopAll, DoomedReachable, Undisturbed, Exposed, Registered
  <2> QED BY <2>1, <2>2, <2>3, <2>4, <2>5, <2>6
<1>3. CASE StopNext
  <2>1. Overlaps'
    BY <1>3 DEF StopNext, Enters, Others, Overlaps
  <2>2. InFlight'
    BY <1>3 DEF StopNext, Enters, Others, InFlight
  <2>3. Registered'
    BY <1>3 DEF StopNext, Enters, Others, Registered
  <2>4. NoOrphan'
    BY <1>3 DEF StopNext, Enters, Others, NoOrphan, Undisturbed, Exposed
  <2>5. Handles'
    BY <1>3 DEF StopNext, Enters, Others, Handles
  <2>6. DoomedReachable'
    BY <1>3 DEF StopNext, Enters, Others, DoomedReachable, Undisturbed, Exposed
  <2> QED BY <2>1, <2>2, <2>3, <2>4, <2>5, <2>6
<1>4. CASE StopAllReturns
  <2>1. Overlaps'
    BY <1>4 DEF StopAllReturns, Overlaps
  <2>2. InFlight'
    BY <1>4 DEF StopAllReturns, InFlight
  <2>3. Registered'
    BY <1>4 DEF StopAllReturns, Registered
  <2>4. NoOrphan'
    BY <1>4 DEF StopAllReturns, NoOrphan, Undisturbed, Exposed
  <2>5. Handles'
    BY <1>4 DEF StopAllReturns, Handles
  <2>6. DoomedReachable'
    BY <1>4 DEF StopAllReturns, DoomedReachable, Undisturbed, Exposed
  <2> QED BY <2>1, <2>2, <2>3, <2>4, <2>5, <2>6
<1>5. ASSUME NEW t \in Threads, ReadPrevious(t)
      PROVE  IInv'
  <2>1. Overlaps'
    BY <1>5 DEF ReadPrevious, Overlaps
  <2>2. InFlight'
    BY <1>5 DEF ReadPrevious, InFlight, Registered
  <2>3. Registered'
    BY <1>5 DEF ReadPrevious, Registered
  <2>4. NoOrphan'
    BY <1>5 DEF ReadPrevious, NoOrphan, Undisturbed, Exposed
  <2>5. Handles'
    BY <1>5 DEF ReadPrevious, Handles
  <2>6. DoomedReachable'
    BY <1>5 DEF ReadPrevious, DoomedReachable, Undisturbed, Exposed
  <2> QED BY <2>1, <2>2, <2>3, <2>4, <2>5, <2>6
<1>6. ASSUME NEW t \in Threads, Terminate(t)
      PROVE  IInv'
  <2>1. Overlaps'
    BY <1>6 DEF Terminate, Overlaps
  <2>2. InFlight'
    BY <1>6 DEF Terminate, InFlight
  <2>3. Registered'
    BY <1>6 DEF Terminate, Registered
  <2>4. NoOrphan'
    BY <1>6 DEF Terminate, NoOrphan, Undisturbed, Exposed
  <2>5. Handles'
    BY <1>6 DEF Terminate, Handles
  <2>6. DoomedReachable'
    BY <1>6 DEF Terminate, DoomedReachable, Undisturbed, Exposed, InFlight
  <2> QED BY <2>1, <2>2, <2>3, <2>4, <2>5, <2>6
<1>7. ASSUME NEW t \in Threads, Forget(t)
      PROVE  IInv'
  <2>1. Overlaps'
    BY <1>7 DEF Forget, Overlaps
  <2>2. InFlight'
    BY <1>7 DEF Forget, InFlight, Overlaps
  <2>3. Registered'
    BY <1>7 DEF Forget, Registered
  <2>4. NoOrphan'
    BY <1>7 DEF Forget, NoOrphan, Undisturbed, Exposed, InFlight
  <2>5. Handles'
    BY <1>7 DEF Forget, Handles
  <2>6. DoomedReachable'
    BY <1>7 DEF Forget, DoomedReachable, Undisturbed, Exposed, InFlight
  <2> QED BY <2>1, <2>2, <2>3, <2>4, <2>5, <2>6
<1>8. ASSUME NEW t \in Threads, CloseLogHandle(t)
      PROVE  IInv'
  <2>1. Overlaps'
    BY <1>8 DEF CloseLogHandle, AfterClose, Leaves, Overlaps
  <2>2. InFlight'
    BY <1>8 DEF CloseLogHandle, AfterClose, Leaves, InFlight, Overlaps, DoomedReachable
  <2>3. Registered'
    BY <1>8 DEF CloseLogHandle, AfterClose, Leaves, Registered
  <2>4. NoOrphan'
    BY <1>8 DEF CloseLogHandle, AfterClose, Leaves, NoOrphan, Undisturbed, Exposed, InFlight
  <2>5. Handles'
    BY <1>8 DEF CloseLogHandle, AfterClose, Leaves, Handles, InFlight
  <2>6. DoomedReachable'
    BY <1>8 DEF CloseLogHandle, AfterClose, Leaves, DoomedReachable, Undisturbed, Exposed
  <2> QED BY <2>1, <2>2, <2>3, <2>4, <2>5, <2>6
<1>9. ASSUME NEW t \in Threads, SpawnFails(t)
      PROVE  IInv'
  <2>1. Overlaps'
    BY <1>9 DEF SpawnFails, Leaves, Overlaps
  <2>2. InFlight'
    BY <1>9 DEF SpawnFails, Leaves, InFlight
  <2>3. Registered'
    BY <1>9 DEF SpawnFails, Leaves, Registered
  <2>4. NoOrphan'
    BY <1>9 DEF SpawnFails, Leaves, NoOrphan, Undisturbed, Exposed, InFlight
  <2>5. Handles'
    BY <1>9 DEF SpawnFails, Leaves, Handles
  <2>6. DoomedReachable'
    BY <1>9 DEF SpawnFails, Leaves, InFlight, DoomedReachable, Undisturbed, Exposed
  <2> QED BY <2>1, <2>2, <2>3, <2>4, <2>5, <2>6
<1>10. ASSUME NEW t \in Threads, NEW p \in Procs, Spawn(t, p)
      PROVE  IInv'
  <2>1. Overlaps'
    BY <1>10 DEF Spawn, Overlaps
  <2>2. InFlight'
    BY <1>10 DEF Spawn, InFlight, Registered
  <2>3. Registered'
    BY <1>10 DEF Spawn, Registered
  <2>4. NoOrphan'
    BY <1>10 DEF Spawn, NoOrphan, Undisturbed, Exposed, Registered
  <2>5. Handles'
    BY <1>10 DEF Spawn, Handles
  <2>6. DoomedReachable'
    BY <1>10 DEF Spawn, DoomedReachable, Undisturbed, Exposed, Registered, InFlight
  <2> QED BY <2>1, <2>2, <2>3, <2>4, <2>5, <2>6
<1>11. ASSUME NEW t \in Threads, Register(t)
      PROVE  IInv'
  <2>1. Overlaps'
    BY <1>11 DEF Register, Leaves, Overlaps
  <2>2. InFlight'
    BY <1>11 DEF Register, Leaves, InFlight, Overlaps, Registered
  <2>3. Registered'
    BY <1>11 DEF Register, Leaves, Registered, InFlight
  <2>4. NoOrphan'
    BY <1>11 DEF Register, Leaves, NoOrphan, Undisturbed, Exposed, InFlight
  <2>5. Handles'
    BY <1>11 DEF Register, Leaves, Handles, InFlight
  <2>6. DoomedReachable'
    BY <1>11 DEF Register, Leaves, DoomedReachable, Undisturbed, Exposed, InFlight
  <2> QED BY <2>1, <2>2, <2>3, <2>4, <2>5, <2>6
<1>12. ASSUME NEW p \in Procs, Exit(p)
      PROVE  IInv'
  <2>1. Overlaps'
    BY <1>12 DEF Exit, Overlaps
  <2>2. InFlight'
    BY <1>12 DEF Exit, InFlight
  <2>3. Registered'
    BY <1>12 DEF Exit, Registered
  <2>4. NoOrphan'
    BY <1>12 DEF Exit, NoOrphan, Undisturbed, Exposed
  <2>5. Handles'
    BY <1>12 DEF Exit, Handles
  <2>6. DoomedReachable'
    BY <1>12 DEF Exit, DoomedReachable, Undisturbed, Exposed
  <2> QED BY <2>1, <2>2, <2>3, <2>4, <2>5, <2>6
<1>13. CASE BackendEnds
  <2>1. Overlaps'
    BY <1>13 DEF BackendEnds, Overlaps
  <2>2. InFlight'
    BY <1>13 DEF BackendEnds, InFlight
  <2>3. Registered'
    BY <1>13 DEF BackendEnds, Registered
  <2>4. NoOrphan'
    BY <1>13 DEF BackendEnds, NoOrphan, Undisturbed, Exposed
  <2>5. Handles'
    BY <1>13 DEF BackendEnds, Handles
  <2>6. DoomedReachable'
    BY <1>13 DEF BackendEnds, DoomedReachable, Undisturbed, Exposed
  <2> QED BY <2>1, <2>2, <2>3, <2>4, <2>5, <2>6
<1>14. CASE UNCHANGED vars
  <2>1. Overlaps'
    BY <1>14 DEF vars, Overlaps
  <2>2. InFlight'
    BY <1>14 DEF vars, InFlight
  <2>3. Registered'
    BY <1>14 DEF vars, Registered
  <2>4. NoOrphan'
    BY <1>14 DEF vars, NoOrphan, Undisturbed, Exposed
  <2>5. Handles'
    BY <1>14 DEF vars, Handles
  <2>6. DoomedReachable'
    BY <1>14 DEF vars, DoomedReachable, Undisturbed, Exposed
  <2> QED BY <2>1, <2>2, <2>3, <2>4, <2>5, <2>6
<1> QED
  BY <1>1, <1>2, <1>3, <1>4, <1>5, <1>6, <1>7, <1>8, <1>9, <1>10, <1>11, <1>12, <1>13, <1>14 DEF Next, Step

(* However callers overlap: IInv is inductive. *)
THEOREM InductiveInvariant == Spec => []IInv
BY IInvInit, IInvStep, PTL DEF Spec

-----------------------------------------------------------------------------
(* What the table or a start's local names, of an undisturbed process. *)
LEMMA NamedOrHeld ==
  ASSUME IInv, NEW p \in Undisturbed, processes[spawnedFor[p]] # p
  PROVE  \E t \in Threads :
            pc[t] = "register" /\ held[t] = p /\ repo[t] = spawnedFor[p] /\ t \notin contended
<1>1. PICK t \in Threads : pc[t] = "register" /\ held[t] = p
  BY DEF IInv, NoOrphan
<1>2. p # NoProc
  BY DEF IInv, TypeOK, Undisturbed
<1>3. repo[t] = spawnedFor[p]
  BY <1>1, <1>2 DEF IInv, InFlight
<1>4. t \notin contended
  BY <1>1 DEF Undisturbed, Exposed
<1> QED BY <1>1, <1>3, <1>4

LEMMA OneInstanceFromIInv ==
  ASSUME IInv
  PROVE  OneInstance
<1> SUFFICES ASSUME NEW p \in Undisturbed, NEW q \in Undisturbed, spawnedFor[p] = spawnedFor[q]
             PROVE  p = q
  BY DEF OneInstance
<1> DEFINE r == spawnedFor[p]
<1>1. r \in Repos /\ p # NoProc /\ q # NoProc
  BY DEF IInv, Registered, TypeOK, Undisturbed
<1>2. ASSUME NEW t \in Threads, pc[t] = "register", repo[t] = r, t \notin contended
      PROVE  processes[r] = NoProc /\ Busy(t, r)
  BY <1>2 DEF IInv, InFlight, Busy
<1>3. CASE processes[r] = p
  BY <1>1, <1>2, <1>3, NamedOrHeld
<1>4. CASE processes[r] = q
  BY <1>1, <1>2, <1>4, NamedOrHeld
<1>5. CASE processes[r] # p /\ processes[r] # q
  <2>1. PICK t \in Threads :
           pc[t] = "register" /\ held[t] = p /\ repo[t] = r /\ t \notin contended
    BY <1>5, NamedOrHeld
  <2>2. PICK u \in Threads :
           pc[u] = "register" /\ held[u] = q /\ repo[u] = r /\ u \notin contended
    BY <1>5, NamedOrHeld
  <2>3. t = u
    BY <1>1, <1>2, <2>1, <2>2 DEF IInv, Overlaps
  <2> QED BY <2>1, <2>2, <2>3
<1> QED BY <1>3, <1>4, <1>5

(* Whoever calls when: of the processes launched without another operation  *)
(* in flight, a repository never has two that run: a start has terminated   *)
(* the old one before it launches the replacement (lines 147-153, 176-180). *)
THEOREM AtMostOneInstance == Spec => []OneInstance
BY InductiveInvariant, OneInstanceFromIInv, PTL

(* Such a process is never lost from the table while it runs, although      *)
(* other callers pop and overwrite its entry by repository identifier       *)
(* (process_manager.py 130-133, 179-180): they have terminated it before.   *)
THEOREM NothingOrphaned == Spec => []NoOrphan
<1>1. IInv => NoOrphan
  BY DEF IInv
<1> QED BY <1>1, InductiveInvariant, PTL

(* Outside operations the log handle kept is never that of another process  *)
(* than the registered one.                                                 *)
THEOREM HandlesFollowProcesses == Spec => []HandlesMatch
<1>1. IInv => HandlesMatch
  <2> SUFFICES ASSUME IInv, NEW r \in Repos, \A t \in Threads : ~Busy(t, r)
               PROVE  \/ logHandles[r] = processes[r]
                      \/ logHandles[r] = NoProc /\ processes[r] \in exposed
    BY DEF HandlesMatch
  <2>1. ~ \E t \in Threads : pc[t] = "close" /\ repo[t] = r
    BY DEF Busy
  <2> QED BY <2>1 DEF IInv, Handles
<1> QED BY <1>1, InductiveInvariant, PTL

(* The shutdown hook has stopped every undisturbed process registered when  *)
(* it began, although scan workers go on starting and stopping meanwhile    *)
(* (stop_all_processes, lines 227-231).                                     *)
THEOREM ShutdownReachesAll == Spec => []ShutdownStopsRegistered
<1>1. IInv => ShutdownStopsRegistered
  BY DEF IInv, DoomedReachable, ShutdownStopsRegistered
<1> QED BY <1>1, InductiveInvariant, PTL

-----------------------------------------------------------------------------
(* The refinement.  The undisturbed process of r that runs is RunningOf(r). *)
LEMMA RunningOfIs ==
  ASSUME OneInstance, NEW p \in Undisturbed
  PROVE  RunningOf(spawnedFor[p]) = p
BY DEF OneInstance, RunningOf

(* An undisturbed process that ends, or is no longer undisturbed, ends the  *)
(* abstract process of its repository.                                      *)
LEMMA EndOf ==
  ASSUME TypeOK, Registered, OneInstance, NEW p \in Undisturbed,
         Undisturbed' = Undisturbed \ {p}, UNCHANGED spawnedFor
  PROVE  Runtime!End(spawnedFor[p])
<1> DEFINE e == spawnedFor[p]
<1>1. e \in Repos /\ p # NoProc
  BY DEF Registered, TypeOK, Undisturbed
<1>2. RunningOf(e) = p
  BY RunningOfIs
<1>3. RunningOf(e)' = NoProc
  <2>1. \A q \in Undisturbed' : spawnedFor'[q] # e
    BY DEF OneInstance
  <2> QED BY <2>1 DEF RunningOf
<1>4. \A r \in Repos : r # e => RunningOf(r)' = RunningOf(r)
  <2> SUFFICES ASSUME NEW r \in Repos, r # e PROVE RunningOf(r)' = RunningOf(r)
    OBVIOUS
  <2>1. CASE \E q \in Undisturbed : spawnedFor[q] = r
    <3>1. PICK q \in Undisturbed : spawnedFor[q] = r
      BY <2>1
    <3>2. q \in Undisturbed' /\ spawnedFor'[q] = r
      BY <3>1
    <3>3. OneInstance'
      BY DEF OneInstance
    <3>4. RunningOf(r)' = q
      BY <3>2, <3>3 DEF OneInstance, RunningOf
    <3>5. RunningOf(r) = q
      BY <3>1, RunningOfIs
    <3> QED BY <3>4, <3>5
  <2>2. CASE \A q \in Undisturbed : spawnedFor[q] # r
    <3>1. \A q \in Undisturbed' : spawnedFor'[q] # r
      BY <2>2
    <3> QED BY <2>2, <3>1 DEF RunningOf
  <2> QED BY <2>1, <2>2
<1>5. [r \in Repos |-> RunningOf(r)]' = [[r \in Repos |-> RunningOf(r)] EXCEPT ![e] = NoProc]
  BY <1>1, <1>3, <1>4
<1> QED BY <1>1, <1>2, <1>5 DEF Runtime!End

(* What a launch adds. *)
LEMMA SpawnAdds ==
  ASSUME IInv, NEW t \in Threads, NEW p \in Procs, Spawn(t, p)
  PROVE  /\ p \notin alive /\ p \notin Undisturbed
         /\ spawnedFor[p] = NoRepo /\ repo[t] \in Repos
         /\ spawnedFor' = [spawnedFor EXCEPT ![p] = repo[t]]
         /\ Undisturbed' = IF t \in contended THEN Undisturbed ELSE Undisturbed \cup {p}
         /\ {q \in Procs : spawnedFor[q] # NoRepo}'
               = {q \in Procs : spawnedFor[q] # NoRepo} \cup {p}
<1> USE DEF IInv, TypeOK, Registered
<1>1. /\ p \notin alive \cup exposed \cup left /\ spawnedFor[p] = NoRepo /\ repo[t] \in Repos
      /\ spawnedFor' = [spawnedFor EXCEPT ![p] = repo[t]]
      /\ alive' = alive \cup {p} /\ left' = left /\ exposed' = exposed
      /\ contended' = contended /\ pc[t] = "spawn"
      /\ held' = [held EXCEPT ![t] = p] /\ pc' = [pc EXCEPT ![t] = "register"]
  BY DEF Spawn, overlapVars
<1>2. ASSUME NEW u \in Threads, pc[u] = "register" PROVE held[u] # p
  BY <1>1, <1>2 DEF InFlight
<1>3. Exposed(p)' <=> t \in contended
  BY <1>1, <1>2 DEF Exposed
<1>4. ASSUME NEW q, q # p PROVE Exposed(q)' <=> Exposed(q)
  BY <1>1, <1>4 DEF Exposed
<1>5. Undisturbed' = IF t \in contended THEN Undisturbed ELSE Undisturbed \cup {p}
  BY <1>1, <1>3, <1>4 DEF Undisturbed
<1>6. p \notin Undisturbed
  BY <1>1 DEF Undisturbed
<1> QED BY <1>1, <1>5, <1>6

(* A launch happens only where no undisturbed process of the repository runs. *)
LEMMA LaunchOf ==
  ASSUME IInv, NEW t \in Threads, NEW p \in Procs, Spawn(t, p), t \notin contended
  PROVE  Runtime!Launch(repo[t], p)
<1> DEFINE e == repo[t]
<1>1. /\ e \in Repos /\ p \notin Undisturbed /\ spawnedFor[p] = NoRepo
      /\ spawnedFor' = [spawnedFor EXCEPT ![p] = e]
      /\ Undisturbed' = Undisturbed \cup {p}
      /\ {q \in Procs : spawnedFor[q] # NoRepo}'
            = {q \in Procs : spawnedFor[q] # NoRepo} \cup {p}
  BY SpawnAdds
<1>2. \A q \in Undisturbed : spawnedFor[q] # e
  <2> SUFFICES ASSUME NEW q \in Undisturbed, spawnedFor[q] = e PROVE FALSE
    OBVIOUS
  <2>1. processes[e] = NoProc /\ q # NoProc /\ Busy(t, e)
    BY DEF IInv, InFlight, Spawn, TypeOK, Undisturbed, Busy
  <2>2. PICK u \in Threads : pc[u] = "register" /\ held[u] = q /\ repo[u] = e
    BY <2>1, NamedOrHeld
  <2> QED BY <1>1, <2>1, <2>2 DEF IInv, Overlaps, Spawn, Busy
<1>3. RunningOf(e) = NoProc
  BY <1>2 DEF RunningOf
<1>t. Undisturbed \subseteq Procs /\ spawnedFor \in [Procs -> Repos \cup {NoRepo}]
  BY DEF IInv, TypeOK, Undisturbed
<1>r. repo' = repo
  BY DEF Spawn
<1>4. RunningOf(e)' = p
  <2>1. \A q \in Undisturbed' : spawnedFor'[q] = e => q = p
    BY <1>1, <1>2, <1>t
  <2>2. p \in Undisturbed' /\ spawnedFor'[p] = e
    BY <1>1, <1>t
  <2> QED BY <1>r, <2>1, <2>2 DEF RunningOf
<1>5. \A r \in Repos : r # e => RunningOf(r)' = RunningOf(r)
  <2> SUFFICES ASSUME NEW r \in Repos, r # e PROVE RunningOf(r)' = RunningOf(r)
    OBVIOUS
  <2>1. OneInstance
    BY OneInstanceFromIInv
  <2>2. \A q : (q \in Undisturbed' /\ spawnedFor'[q] = r)
                 <=> (q \in Undisturbed /\ spawnedFor[q] = r)
    BY <1>1, <1>t
  <2>3. CASE \E q \in Undisturbed : spawnedFor[q] = r
    <3>1. PICK q \in Undisturbed : spawnedFor[q] = r
      BY <2>3
    <3>2. RunningOf(r) = q
      BY <2>1, <3>1, RunningOfIs
    <3>3. q \in Undisturbed' /\ spawnedFor'[q] = r
      BY <2>2, <3>1
    <3>4. \A x \in Undisturbed' : spawnedFor'[x] = r => x = q
      BY <2>1, <2>2, <3>1 DEF OneInstance
    <3> QED BY <3>2, <3>3, <3>4 DEF RunningOf
  <2>4. CASE \A q \in Undisturbed : spawnedFor[q] # r
    <3>1. \A q \in Undisturbed' : spawnedFor'[q] # r
      BY <2>2, <2>4
    <3> QED BY <2>4, <3>1 DEF RunningOf
  <2> QED BY <2>3, <2>4
<1>6. [r \in Repos |-> RunningOf(r)]' = [[r \in Repos |-> RunningOf(r)] EXCEPT ![e] = p]
  BY <1>1, <1>3, <1>4, <1>5, <1>r
<1> QED BY <1>1, <1>3, <1>6 DEF Runtime!Launch

(* A launch across another operation is forfeited from the start. *)
LEMMA ForfeitOf ==
  ASSUME IInv, NEW t \in Threads, NEW p \in Procs, Spawn(t, p), t \in contended
  PROVE  Runtime!Forfeit(p)
<1>1. /\ p \notin Undisturbed /\ spawnedFor[p] = NoRepo /\ repo[t] \in Repos
      /\ spawnedFor' = [spawnedFor EXCEPT ![p] = repo[t]]
      /\ Undisturbed' = Undisturbed
      /\ {q \in Procs : spawnedFor[q] # NoRepo}'
            = {q \in Procs : spawnedFor[q] # NoRepo} \cup {p}
  BY SpawnAdds
<1>2. ASSUME NEW r \in Repos PROVE RunningOf(r)' = RunningOf(r)
  <2>1. \A q \in Undisturbed : spawnedFor'[q] = spawnedFor[q]
    BY <1>1 DEF IInv, TypeOK, Undisturbed
  <2>2. OneInstance
    BY OneInstanceFromIInv
  <2>3. CASE \E q \in Undisturbed : spawnedFor[q] = r
    <3>1. PICK q \in Undisturbed : spawnedFor[q] = r
      BY <2>3
    <3>2. RunningOf(r) = q
      BY <2>2, <3>1, RunningOfIs
    <3>3. \A x \in Undisturbed' : spawnedFor'[x] = r => x = q
      BY <1>1, <2>1, <2>2, <3>1 DEF OneInstance
    <3>4. q \in Undisturbed' /\ spawnedFor'[q] = r
      BY <1>1, <2>1, <3>1
    <3> QED BY <3>2, <3>3, <3>4 DEF RunningOf
  <2>4. CASE \A q \in Undisturbed : spawnedFor[q] # r
    <3>1. \A q \in Undisturbed' : spawnedFor'[q] # r
      BY <1>1, <2>1, <2>4
    <3> QED BY <2>4, <3>1 DEF RunningOf
  <2> QED BY <2>3, <2>4
<1>3. [r \in Repos |-> RunningOf(r)]' = [r \in Repos |-> RunningOf(r)]
  BY <1>2
<1> QED BY <1>1, <1>3 DEF Runtime!Forfeit

(* When an operation begins on r, a start on r that was by itself so far    *)
(* and is about to register is so no longer; there is one at most.          *)
LEMMA EnterOf ==
  ASSUME IInv, NEW t \in Threads, NEW r \in Repos, Enters(t, r),
         pc[t] \in {"idle", "next"}, pc' = [pc EXCEPT ![t] = "read"],
         UNCHANGED <<alive, left, exposed, held, spawnedFor>>
  PROVE  \/ Undisturbed' = Undisturbed
         \/ \E p \in Undisturbed : Undisturbed' = Undisturbed \ {p}
<1> DEFINE lost == {u \in Others(t, r) : pc[u] = "register" /\ u \notin contended}
<1>1. lost \subseteq Threads \ {t} /\ \A u \in lost : Busy(u, r)
  BY DEF Others
<1>2. \A u, v \in lost : u = v
  BY <1>1 DEF IInv, Overlaps
<1>3. ASSUME NEW u \in Threads, pc'[u] = "register"
      PROVE  u # t /\ pc[u] = "register" /\ (u \in contended' <=> u \in contended \/ u \in lost)
  BY <1>3 DEF IInv, TypeOK, Enters, Others
<1>4. ASSUME NEW u \in Threads, pc[u] = "register"
      PROVE  pc'[u] = "register" /\ (u \in contended' <=> u \in contended \/ u \in lost)
  BY <1>4 DEF IInv, TypeOK, Enters, Others
<1>l. \A u \in lost : pc[u] = "register"
  OBVIOUS
<1>c. contended \subseteq Threads /\ contended' \subseteq Threads
  BY DEF IInv, TypeOK, Enters, Others
<1> HIDE DEF lost
<1>5. ASSUME NEW p
      PROVE  Exposed(p)' <=> Exposed(p) \/ \E u \in lost : held[u] = p
  <2>1. ASSUME Exposed(p)' PROVE Exposed(p) \/ \E u \in lost : held[u] = p
    BY <1>3, <1>c, <2>1 DEF Exposed
  <2>2. ASSUME Exposed(p) \/ \E u \in lost : held[u] = p PROVE Exposed(p)'
    BY <1>1, <1>4, <1>l, <1>c, <2>2 DEF Exposed
  <2> QED BY <2>1, <2>2
<1>6. CASE lost = {}
  BY <1>5, <1>6 DEF Undisturbed
<1>7. CASE lost # {}
  <2>1. PICK u \in lost : TRUE
    BY <1>7
  <2>2. \A v \in lost : v = u
    BY <1>2, <2>1
  <2>3. Undisturbed' = Undisturbed \ {held[u]}
    BY <1>5, <2>1, <2>2 DEF Undisturbed
  <2> QED BY <2>3
<1> QED BY <1>6, <1>7

(* A step that leaves the threads at "register", what they hold and what is *)
(* exposed alone changes Undisturbed only through the processes that end.   *)
LEMMA CalmStep ==
  ASSUME TypeOK, NEW t \in Threads, Step(t), \A p \in Procs : ~Spawn(t, p)
  PROVE  /\ Undisturbed' = Undisturbed \cap alive'
         /\ alive' \subseteq alive /\ UNCHANGED spawnedFor
         /\ ~Terminate(t) => alive' = alive
<1> USE DEF TypeOK, PCs, tableVars, osVars, threadVars, shutdownVars, overlapVars
<1>1. ASSUME UNCHANGED <<left, exposed, contended, held>>, alive' \subseteq alive,
             pc[t] # "register", pc'[t] # "register", \A u \in Threads \ {t} : pc'[u] = pc[u]
      PROVE  Undisturbed' = Undisturbed \cap alive'
  BY <1>1 DEF Undisturbed, Exposed
<1>2. CASE ReadPrevious(t)
  BY <1>2 DEF ReadPrevious, Undisturbed, Exposed
<1>3. CASE Terminate(t)
  BY <1>1, <1>3 DEF Terminate
<1>4. CASE Forget(t)
  BY <1>1, <1>4 DEF Forget, Terminate
<1>5. CASE CloseLogHandle(t)
  BY <1>5 DEF CloseLogHandle, AfterClose, Leaves, Terminate, Undisturbed, Exposed
<1>6. CASE SpawnFails(t)
  BY <1>6 DEF SpawnFails, Leaves, Terminate, Undisturbed, Exposed
<1>7. CASE Register(t)
  BY <1>7 DEF Register, Leaves, Terminate, Undisturbed, Exposed
<1> QED BY <1>2, <1>3, <1>4, <1>5, <1>6, <1>7 DEF Step

(* However its callers overlap, the process manager implements the promise  *)
(* of one process per repository (RepositoryRuntime), for the processes it  *)
(* launches with nobody else at work on the repository.                     *)
THEOREM Refinement == Spec => ImplementsRuntime
<1>1. Init => Runtime!Init
  BY DEF Init, Runtime!Init, RunningOf, Undisturbed
<1>2. IInv /\ [Next]_vars => [Runtime!Next]_(Runtime!vars)
  <2> SUFFICES ASSUME IInv, [Next]_vars PROVE [Runtime!Next]_(Runtime!vars)
    OBVIOUS
  <2>1. ASSUME Undisturbed' = Undisturbed, UNCHANGED spawnedFor
        PROVE  UNCHANGED Runtime!vars
    BY <2>1 DEF Runtime!vars, RunningOf
  <2>2. ASSUME NEW p \in Undisturbed, Undisturbed' = Undisturbed \ {p}, UNCHANGED spawnedFor
        PROVE  Runtime!Next
    <3>1. Runtime!End(spawnedFor[p]) /\ spawnedFor[p] \in Repos
      BY <2>2, EndOf, OneInstanceFromIInv DEF IInv, Registered, Undisturbed
    <3> QED BY <3>1 DEF Runtime!Next
  <2>3. ASSUME NEW p, alive' = alive \ {p}, UNCHANGED spawnedFor,
               Undisturbed' = Undisturbed \cap alive'
        PROVE  Runtime!Next \/ UNCHANGED Runtime!vars
    <3>1. Undisturbed' = Undisturbed \ {p}
      BY <2>3 DEF Undisturbed
    <3> QED BY <2>1, <2>2, <2>3, <3>1
  <2>4. ASSUME NEW t \in Threads, NEW kind \in {"start", "stop"}, NEW r \in Repos,
               Call(t, kind, r)
        PROVE  Runtime!Next \/ UNCHANGED Runtime!vars
    BY <2>1, <2>2, <2>4, EnterOf DEF Call, osVars
  <2>5. CASE StopNext
    <3>1. PICK r \in todo : Enters(Main, r) /\ pc' = [pc EXCEPT ![Main] = "read"]
      BY <2>5 DEF StopNext
    <3>2. r \in Repos
      BY DEF IInv, TypeOK
    <3> QED BY <2>1, <2>2, <2>5, <3>1, <3>2, EnterOf DEF StopNext, osVars
  <2>6. CASE StopAll \/ StopAllReturns
    <3>1. Undisturbed' = Undisturbed
      <4> USE DEF IInv, TypeOK, tableVars, osVars, shutdownVars, overlapVars
      <4>1. CASE StopAll
        BY <4>1 DEF StopAll, Undisturbed, Exposed, DoomedReachable
      <4>2. CASE StopAllReturns
        BY <4>2 DEF StopAllReturns, Undisturbed, Exposed
      <4> QED BY <2>6, <4>1, <4>2
    <3> QED BY <2>1, <2>6, <3>1 DEF StopAll, StopAllReturns, osVars
  <2>7. ASSUME NEW t \in Threads, Step(t)
        PROVE  Runtime!Next \/ UNCHANGED Runtime!vars
    <3>1. ASSUME NEW p \in Procs, Spawn(t, p)
          PROVE  Runtime!Next
      <4>1. repo[t] \in Repos
        BY <3>1, SpawnAdds
      <4>2. Runtime!Launch(repo[t], p) \/ Runtime!Forfeit(p)
        BY <3>1, LaunchOf, ForfeitOf
      <4> QED BY <4>1, <4>2 DEF Runtime!Next
    <3>2. CASE \A p \in Procs : ~Spawn(t, p)
      <4>1. /\ Undisturbed' = Undisturbed \cap alive' /\ UNCHANGED spawnedFor
            /\ ~Terminate(t) => alive' = alive
        BY <2>7, <3>2, CalmStep DEF IInv
      <4>2. CASE Terminate(t)
        BY <2>3, <4>1, <4>2 DEF Terminate
      <4>3. CASE ~Terminate(t)
        <5>1. Undisturbed' = Undisturbed
          BY <4>1, <4>3 DEF Undisturbed
        <5> QED BY <2>1, <4>1, <5>1
      <4> QED BY <4>2, <4>3
    <3> QED BY <3>1, <3>2
  <2>8. ASSUME NEW p \in Procs, Exit(p)
        PROVE  Runtime!Next \/ UNCHANGED Runtime!vars
    <3>1. Undisturbed' = Undisturbed \cap alive'
      BY <2>8 DEF Exit, threadVars, overlapVars, Undisturbed, Exposed
    <3> QED BY <2>3, <2>8, <3>1 DEF Exit
  <2>9. CASE BackendEnds
    <3>1. Undisturbed' = {} /\ UNCHANGED spawnedFor
      BY <2>9 DEF BackendEnds, osVars, Undisturbed
    <3>2. \A r \in Repos : RunningOf(r)' = NoProc
      BY <3>1 DEF RunningOf
    <3>3. Runtime!Crash
      BY <3>1, <3>2 DEF Runtime!Crash
    <3> QED BY <3>3 DEF Runtime!Next
  <2>10. CASE UNCHANGED vars
    <3>1. Undisturbed' = Undisturbed /\ UNCHANGED spawnedFor
      BY <2>10 DEF vars, osVars, threadVars, overlapVars, Undisturbed, Exposed
    <3> QED BY <2>1, <3>1
  <2> QED BY <2>4, <2>5, <2>6, <2>7, <2>8, <2>9, <2>10 DEF Next
<1> QED BY <1>1, <1>2, InductiveInvariant, PTL DEF Spec, ImplementsRuntime, Runtime!Spec

-----------------------------------------------------------------------------
(* One repository by itself.  Nothing in the code keeps callers apart; what *)
(* the operations on r promise depends on their not overlapping on r alone, *)
(* whatever goes on at the same time on every other repository.             *)
Alone(r) == \A t, u \in Threads : Busy(t, r) /\ Busy(u, r) => t = u

(* The running processes of r that this backend launched. *)
RunsAt(r) == {p \in alive \ left : spawnedFor[p] = r}

(* What the theorems above say of the repository r, and for every process.  *)
SafeAt(r) ==
    (* at most one process runs *)
    /\ \A p, q \in RunsAt(r) : p = q
    (* it is in the table, or about to be *)
    /\ \A p \in RunsAt(r) :
          processes[r] = p \/ \E t \in Threads : pc[t] = "register" /\ held[t] = p
    (* outside operations the log handle is that of the registered process *)
    /\ (\A t \in Threads : ~Busy(t, r)) => logHandles[r] = processes[r]
    (* the shutdown hook has stopped what was registered when it began *)
    /\ closing /\ pc[Main] = "idle" => RunsAt(r) \cap doomed = {}

(* Where operations on r never overlap, none of its processes is exposed. *)
AloneAt(r) ==
    /\ \A t \in contended : repo[t] # r
    /\ \A p \in exposed : spawnedFor[p] # r

LEMMA AloneStep ==
  ASSUME NEW r \in Repos, IInv, AloneAt(r), Alone(r), Alone(r)', [Next]_vars
  PROVE  AloneAt(r)'
<1>0. TypeOK /\ TypeOK'
  BY TypeStep DEF IInv
<1> USE <1>0 DEF TypeOK, PCs, Busy, tableVars, osVars, threadVars, shutdownVars, overlapVars
<1>e. ASSUME NEW t \in Threads, NEW s \in Repos, Enters(t, s), pc[t] \in {"idle", "next"},
             pc' = [pc EXCEPT ![t] = "read"], repo' = [repo EXCEPT ![t] = s]
      PROVE  \A u \in contended' : repo'[u] # r
  <2>1. t \notin contended /\ \A u \in contended : repo[u] # r
    BY <1>e DEF AloneAt, IInv, InFlight
  <2>2. CASE s = r
    <3>1. \A u \in Others(t, r) : u \in Threads /\ u # t /\ Busy(u, r)'
      BY <1>e DEF Others
    <3>2. Busy(t, r)'
      BY <1>e, <2>2
    <3>3. Others(t, r) = {}
      BY <3>1, <3>2 DEF Alone
    <3> QED BY <1>e, <2>1, <2>2, <3>3 DEF Enters
  <2>3. CASE s # r
    BY <1>e, <2>1, <2>3 DEF Enters, Others
  <2> QED BY <2>2, <2>3
<1>1. ASSUME NEW t \in Threads, NEW kind \in {"start", "stop"}, NEW s \in Repos,
             Call(t, kind, s)
      PROVE  AloneAt(r)'
  <2>1. pc[t] = "idle" /\ pc'[t] = "read" /\ Busy(t, s)'
    BY <1>1 DEF Call
  <2> QED BY <1>1, <1>e, <2>1 DEF Call, AloneAt
<1>2. CASE StopAll \/ StopAllReturns
  BY <1>2 DEF StopAll, StopAllReturns, AloneAt
<1>3. CASE StopNext
  <2>1. PICK s \in todo : Enters(Main, s) /\ repo' = [repo EXCEPT ![Main] = s]
                          /\ pc' = [pc EXCEPT ![Main] = "read"]
    BY <1>3 DEF StopNext
  <2> QED BY <1>3, <1>e, <2>1 DEF StopNext, AloneAt
<1>4. ASSUME NEW t \in Threads, ReadPrevious(t) \/ Terminate(t) \/ Forget(t)
      PROVE  AloneAt(r)'
  BY <1>4 DEF ReadPrevious, Terminate, Forget, AloneAt
<1>5. ASSUME NEW t \in Threads, CloseLogHandle(t) \/ SpawnFails(t)
      PROVE  AloneAt(r)'
  BY <1>5 DEF CloseLogHandle, SpawnFails, Leaves, AloneAt
<1>6. ASSUME NEW t \in Threads, NEW p \in Procs, Spawn(t, p)
      PROVE  AloneAt(r)'
  BY <1>6 DEF Spawn, AloneAt, IInv, Registered
<1>7. ASSUME NEW t \in Threads, Register(t)
      PROVE  AloneAt(r)'
  BY <1>7 DEF Register, Leaves, AloneAt, IInv, InFlight
<1>8. CASE BackendEnds \/ (\E p \in Procs : Exit(p)) \/ UNCHANGED vars
  BY <1>8 DEF BackendEnds, Exit, vars, AloneAt
<1> QED BY <1>1, <1>2, <1>3, <1>4, <1>5, <1>6, <1>7, <1>8 DEF Next, Step

LEMMA SafeFrom ==
  ASSUME NEW r \in Repos, IInv, AloneAt(r)
  PROVE  SafeAt(r)
<1>1. RunsAt(r) \subseteq Undisturbed
  BY DEF RunsAt, Undisturbed, Exposed, AloneAt, IInv, TypeOK, InFlight
<1>2. \A p \in RunsAt(r) : spawnedFor[p] = r
  BY DEF RunsAt
<1>3. \A p, q \in RunsAt(r) : p = q
  BY <1>1, <1>2, OneInstanceFromIInv DEF OneInstance
<1>4. \A p \in RunsAt(r) :
         processes[r] = p \/ \E t \in Threads : pc[t] = "register" /\ held[t] = p
  BY <1>1, <1>2 DEF IInv, NoOrphan
<1>5. (\A t \in Threads : ~Busy(t, r)) => logHandles[r] = processes[r]
  BY DEF AloneAt, IInv, Handles, Registered, TypeOK, Busy
<1>6. closing /\ pc[Main] = "idle" => RunsAt(r) \cap doomed = {}
  BY <1>1 DEF IInv, DoomedReachable
<1> QED BY <1>3, <1>4, <1>5, <1>6 DEF SafeAt

(* However callers overlap on other repositories: as long as no two         *)
(* operations on r overlap, at most one process of r runs, the table knows  *)
(* it, its log handle is the one kept open and the shutdown hook stops it,  *)
(* without exception.  So it is enough to keep callers apart repository by  *)
(* repository; one lock for all of them is not needed.                      *)
THEOREM OneRepositoryAtATime ==
  ASSUME NEW r \in Repos
  PROVE  Spec /\ []Alone(r) => []SafeAt(r)
<1>1. Init => AloneAt(r)
  BY DEF Init, AloneAt
<1>2. IInv /\ AloneAt(r) /\ Alone(r) /\ Alone(r)' /\ [Next]_vars => AloneAt(r)'
  BY AloneStep
<1>3. IInv /\ AloneAt(r) => SafeAt(r)
  BY SafeFrom
<1> QED BY <1>1, <1>2, <1>3, InductiveInvariant, PTL DEF Spec

-----------------------------------------------------------------------------
(* Every operation ends.                                                   *)

(* How many steps of its own a thread has still to take in its operation,  *)
(* at most; the shutdown hook has an operation ahead of it for every entry *)
(* of its snapshot.                                                        *)
Ahead(l) ==
    CASE l = "read" -> 6
      [] l = "terminate" -> 5
      [] l = "forget" -> 4
      [] l = "close" -> 3
      [] l = "spawn" -> 2
      [] l \in {"register", "next"} -> 1
      [] OTHER -> 0

StepsLeft(t) == Ahead(pc[t]) + (IF t = Main THEN 8 * Cardinality(todo) ELSE 0)

(* A step of thread t inside its operation. *)
Moves(t) == Step(t) \/ (t = Main /\ (StopNext \/ StopAllReturns))

(* Once begun, an operation is as far from its end as before unless its own *)
(* thread moves, and then it is nearer, or the backend ends.                *)
OperationsEnd ==
    \A t \in Threads : pc[t] # "idle" =>
        /\ StepsLeft(t)' = StepsLeft(t) \/ Moves(t) \/ BackendEnds
        /\ Moves(t) => StepsLeft(t)' < StepsLeft(t)

LEMMA AheadOf ==
  /\ Ahead("read") = 6 /\ Ahead("terminate") = 5 /\ Ahead("forget") = 4
  /\ Ahead("close") = 3 /\ Ahead("spawn") = 2 /\ Ahead("register") = 1
  /\ Ahead("next") = 1 /\ Ahead("idle") = 0
BY DEF Ahead

LEMMA OwnStep ==
  ASSUME TypeOK, IsFiniteSet(Repos), NEW t \in Threads, Step(t)
  PROVE  /\ todo' = todo
         /\ pc[t] # "idle"
         /\ \A u \in Threads \ {t} : pc'[u] = pc[u]
         /\ Ahead(pc'[t]) \in Nat /\ Ahead(pc[t]) \in Nat
         /\ Ahead(pc'[t]) < Ahead(pc[t])
<1> USE AheadOf DEF TypeOK, PCs, shutdownVars, Leaves
<1>1. CASE ReadPrevious(t)
  BY <1>1 DEF ReadPrevious
<1>2. CASE Terminate(t)
  BY <1>2 DEF Terminate
<1>3. CASE Forget(t)
  BY <1>3 DEF Forget
<1>4. CASE CloseLogHandle(t)
  <2>1. AfterClose(t) \in {"spawn", "idle", "next"}
    BY DEF AfterClose
  <2> QED BY <1>4, <2>1 DEF CloseLogHandle
<1>5. CASE SpawnFails(t)
  BY <1>5 DEF SpawnFails
<1>6. ASSUME NEW p \in Procs, Spawn(t, p)
      PROVE  /\ todo' = todo
             /\ pc[t] # "idle"
             /\ \A u \in Threads \ {t} : pc'[u] = pc[u]
             /\ Ahead(pc'[t]) \in Nat /\ Ahead(pc[t]) \in Nat
             /\ Ahead(pc'[t]) < Ahead(pc[t])
  BY <1>6 DEF Spawn
<1>7. CASE Register(t)
  BY <1>7 DEF Register
<1> QED BY <1>1, <1>2, <1>3, <1>4, <1>5, <1>6, <1>7 DEF Step

LEMMA HookMoves ==
  ASSUME TypeOK, IsFiniteSet(Repos), StopNext \/ StopAllReturns
  PROVE  /\ pc[Main] = "next"
         /\ \A u \in Threads \ {Main} : pc'[u] = pc[u]
         /\ StepsLeft(Main)' < StepsLeft(Main)
<1>1. IsFiniteSet(todo) /\ Cardinality(todo) \in Nat
  BY FS_Subset, FS_CardinalityType DEF TypeOK
<1>2. CASE StopNext
  <2>1. PICK r \in todo : /\ todo' = todo \ {r}
                          /\ pc' = [pc EXCEPT ![Main] = "read"]
    BY <1>2 DEF StopNext
  <2>2. Cardinality(todo') = Cardinality(todo) - 1
    BY <1>1, <2>1, FS_RemoveElement
  <2>3. pc[Main] = "next" /\ pc'[Main] = "read"
    BY <1>2, <2>1 DEF StopNext, TypeOK
  <2>4. Ahead(pc[Main]) = 1 /\ Ahead(pc'[Main]) = 6
    BY <2>3, AheadOf
  <2>5. StepsLeft(Main)' < StepsLeft(Main)
    BY <1>1, <2>2, <2>4 DEF StepsLeft
  <2> QED BY <2>1, <2>3, <2>5 DEF TypeOK
<1>3. CASE StopAllReturns
  <2>1. pc[Main] = "next" /\ pc'[Main] = "idle" /\ todo' = todo
    BY <1>3 DEF StopAllReturns, TypeOK, shutdownVars
  <2>2. Ahead(pc[Main]) = 1 /\ Ahead(pc'[Main]) = 0
    BY <2>1, AheadOf
  <2>3. StepsLeft(Main)' < StepsLeft(Main)
    BY <1>1, <2>1, <2>2 DEF StepsLeft
  <2> QED BY <1>3, <2>1, <2>3 DEF StopAllReturns, TypeOK
<1> QED BY <1>2, <1>3

LEMMA OperationsEndStep ==
  ASSUME TypeOK, IsFiniteSet(Repos), [Next]_vars
  PROVE  OperationsEnd
<1> SUFFICES ASSUME NEW t \in Threads, pc[t] # "idle"
             PROVE  /\ StepsLeft(t)' = StepsLeft(t) \/ Moves(t) \/ BackendEnds
                    /\ Moves(t) => StepsLeft(t)' < StepsLeft(t)
  BY DEF OperationsEnd
<1>1. Moves(t) => StepsLeft(t)' < StepsLeft(t)
  <2>1. CASE Step(t)
    <3>1. IsFiniteSet(todo) /\ Cardinality(todo) \in Nat
      BY FS_Subset, FS_CardinalityType DEF TypeOK
    <3>2. /\ todo' = todo
          /\ Ahead(pc'[t]) \in Nat /\ Ahead(pc[t]) \in Nat
          /\ Ahead(pc'[t]) < Ahead(pc[t])
      BY <2>1, OwnStep
    <3> QED BY <3>1, <3>2 DEF StepsLeft
  <2>2. CASE t = Main /\ (StopNext \/ StopAllReturns)
    BY <2>2, HookMoves
  <2> QED BY <2>1, <2>2 DEF Moves
<1>2. ASSUME pc'[t] = pc[t], t = Main => todo' = todo
      PROVE  StepsLeft(t)' = StepsLeft(t)
  BY <1>2 DEF StepsLeft
<1>3. StepsLeft(t)' = StepsLeft(t) \/ Moves(t) \/ BackendEnds
  <2>1. ASSUME NEW u \in Threads, NEW kind \in {"start", "stop"}, NEW r \in Repos,
               Call(u, kind, r)
        PROVE  StepsLeft(t)' = StepsLeft(t)
    BY <1>2, <2>1 DEF Call, TypeOK, shutdownVars
  <2>2. CASE StopAll
    <3>1. t # Main
      BY <2>2 DEF StopAll
    <3> QED BY <1>2, <2>2, <3>1 DEF StopAll, TypeOK
  <2>3. CASE StopNext \/ StopAllReturns
    BY <1>2, <2>3, HookMoves DEF Moves
  <2>4. ASSUME NEW u \in Threads, Step(u)
        PROVE  StepsLeft(t)' = StepsLeft(t) \/ Moves(t)
    BY <1>2, <2>4, OwnStep DEF Moves
  <2>5. ASSUME NEW p \in Procs, Exit(p)
        PROVE  StepsLeft(t)' = StepsLeft(t)
    BY <1>2, <2>5 DEF Exit, threadVars, shutdownVars
  <2>6. CASE UNCHANGED vars
    BY <1>2, <2>6 DEF vars, threadVars, shutdownVars
  <2> QED BY <2>1, <2>2, <2>3, <2>4, <2>5, <2>6 DEF Next
<1> QED BY <1>1, <1>3

(* Whatever callers overlap and whatever the executor's threads start in    *)
(* the meantime: an operation is through after at most six steps of its own *)
(* thread, and the shutdown hook after eight for each process it found plus *)
(* one.  The snapshot is what makes the hook end: new processes do not      *)
(* lengthen its loop.                                                       *)
THEOREM OperationsRunOut ==
  ASSUME IsFiniteSet(Repos)
  PROVE  Spec => []TypeOK /\ [][OperationsEnd]_vars
<1>1. TypeOK /\ [Next]_vars => OperationsEnd
  BY OperationsEndStep
<1> QED BY <1>1, TypeInit, TypeStep, PTL DEF Spec

-----------------------------------------------------------------------------
(* The composition with the scan engine.                                    *)
USE EngineAssumption DEF Engine!ConstantsAssumption

(* What is needed of the engine: a queued scan waits, each in one place;    *)
(* nothing is executed by a backend that has ended; a scan has launched     *)
(* only processes that exist.                                               *)
EngineInv ==
    /\ req \in [Workers -> Requests \cup {None}]
    /\ scanPc \in [Workers -> Engine!PCs]
    /\ started \in [Workers -> BOOLEAN]
    /\ launches \in [Workers -> SUBSET Procs]
    /\ queue \in Seq(Workers)
    /\ \A i \in DOMAIN queue : scanPc[queue[i]] = "waiting"
    /\ \A i, j \in DOMAIN queue : queue[i] = queue[j] => i = j
    /\ up \in {"up", "draining", "stopped", "killed"}
    /\ up \in {"stopped", "killed"} => Engine!Executing = {}
    /\ \A s \in Workers : \A p \in launches[s] : spawnedFor[p] # NoRepo

AppInd == AppInv /\ EngineInv

(* A step of scan s inside the engine, as far as it concerns the manager. *)
ScanFrame(s) ==
    /\ UNCHANGED <<req, queue, up>>
    /\ scanPc[s] \in Engine!ExecutingPCs \ {"starting", "probing"}
    /\ scanPc' = [scanPc EXCEPT ![s] = scanPc'[s]]
    /\ scanPc'[s] \in (Engine!ExecutingPCs \ {"cleaned"}) \cup {"done"}
    /\ scanPc[s] = "cleanup" => ~started[s]
    /\ \/ started' = started /\ scanPc'[s] # "done" /\ scanPc[s] # "cleaned"
       \/ /\ started' = [started EXCEPT ![s] = FALSE] /\ scanPc'[s] = "done"
          /\ scanPc[s] \in {"cleanup", "cleaned"}

LEMMA ScanStepFrame ==
  ASSUME EngineInv, NEW s \in Workers, Engine!ScanStep(s)
  PROVE  ScanFrame(s)
<1> USE DEF EngineInv, ScanFrame, Engine!Goto, Engine!ExecutingPCs, Engine!TryPCs, Engine!Return,
            Engine!rowVars, Engine!localVars, Engine!clientVars, Engine!boundVars
<1>1. CASE Engine!Begin(s)
  BY <1>1 DEF Engine!Begin
<1>2. CASE Engine!Prepare(s)
  BY <1>2 DEF Engine!Prepare
<1>3. CASE Engine!Plan(s)
  BY <1>3 DEF Engine!Plan
<1>4. CASE Engine!CheckCancelled(s)
  BY <1>4 DEF Engine!CheckCancelled
<1>5. CASE Engine!CheckNext(s)
  BY <1>5 DEF Engine!CheckNext
<1>6. CASE Engine!CheckDone(s)
  BY <1>6 DEF Engine!CheckDone
<1>7. CASE Engine!Announce(s)
  BY <1>7 DEF Engine!Announce
<1>8. CASE Engine!RunTool(s)
  BY <1>8 DEF Engine!RunTool
<1>9. CASE Engine!Record(s)
  BY <1>9 DEF Engine!Record
<1>10. CASE Engine!Finish(s)
  BY <1>10 DEF Engine!Finish
<1>11. CASE Engine!Leave(s)
  BY <1>11 DEF Engine!Leave
<1>12. CASE Engine!Raise(s)
  BY <1>12 DEF Engine!Raise
<1>13. CASE Engine!HandleFailure(s)
  BY <1>13 DEF Engine!HandleFailure
<1>14. CASE Engine!HandlerRaises(s)
  BY <1>14 DEF Engine!HandlerRaises
<1>15. CASE Engine!NothingToClean(s)
  BY <1>15 DEF Engine!NothingToClean
<1>16. CASE Engine!RecordCleanup(s)
  BY <1>16 DEF Engine!RecordCleanup
<1>17. CASE Engine!RecordCleanupFails(s)
  BY <1>17 DEF Engine!RecordCleanupFails
<1> QED
  BY <1>1, <1>2, <1>3, <1>4, <1>5, <1>6, <1>7, <1>8, <1>9, <1>10, <1>11, <1>12, <1>13,
     <1>14, <1>15, <1>16, <1>17 DEF Engine!ScanStep

(* A call that a scan makes is one that the manager takes; so is every step. *)
LEMMA ManagerStep ==
  ASSUME AppInd, [AppNext]_appVars
  PROVE  [Next]_vars
<1> USE DEF managerVars
<1>r. ASSUME NEW s \in Workers, scanPc[s] \notin {"none", "lost"}
      PROVE  req[s].repo \in Repos
  BY <1>r DEF AppInd, AppInv, EngineInv, Linked
<1>w. Workers \subseteq Threads
  OBVIOUS
<1>1. ASSUME NEW t \in Threads, NEW kind \in {"start", "stop"}, NEW r \in Repos,
             UserCalls(t, kind, r)
      PROVE  Next
  BY <1>1 DEF UserCalls, Next
<1>2. ASSUME NEW s \in Workers, ScanCallsStart(s) \/ ScanCallsStop(s)
      PROVE  Next
  BY <1>2, <1>r DEF ScanCallsStart, ScanCallsStop, Next
<1>3. ASSUME NEW s \in Workers, \/ ScanStarted(s) \/ ScanStartFails(s) \/ ScanStopped(s)
      PROVE  Next
  BY <1>3 DEF ScanStarted, ScanStartFails, ScanStopped, Next, Step
<1>4. ASSUME NEW s \in Workers, ScanStartRefused(s) \/ ScanProbes(s)
      PROVE  UNCHANGED vars
  BY <1>4 DEF ScanStartRefused, ScanProbes
<1>5. ASSUME NEW t \in Threads, InsideStep(t) \/ \E p \in Procs : Launches(t, p)
      PROVE  Next
  BY <1>5 DEF InsideStep, Launches, Next, Step
<1>6. ASSUME NEW p \in Procs, ApplicationExits(p)
      PROVE  Next
  BY <1>6 DEF ApplicationExits, Next
<1>7. CASE HookBegins \/ HookStep \/ Exits \/ Killed
  BY <1>7 DEF HookBegins, HookStep, Exits, Killed, Next
<1>8. CASE EngineStep \/ UNCHANGED appVars
  BY <1>8 DEF EngineStep, appVars
<1> QED BY <1>1, <1>2, <1>3, <1>4, <1>5, <1>6, <1>7, <1>8 DEF AppNext

(* What was launched stays so. *)
LEMMA LaunchedStay ==
  ASSUME TypeOK, [Next]_vars, NEW p \in Procs, spawnedFor[p] # NoRepo
  PROVE  spawnedFor'[p] = spawnedFor[p]
<1> USE DEF TypeOK, tableVars, osVars, threadVars, shutdownVars
<1>1. ASSUME NEW t \in Threads, Step(t) PROVE spawnedFor'[p] = spawnedFor[p]
  <2>1. ASSUME NEW q \in Procs, Spawn(t, q) PROVE spawnedFor'[p] = spawnedFor[p]
    BY <2>1 DEF Spawn
  <2> QED BY <1>1, <2>1
       DEF Step, ReadPrevious, Terminate, Forget, CloseLogHandle, SpawnFails, Register
<1>2. CASE \/ \E t \in Threads, kind \in {"start", "stop"}, r \in Repos : Call(t, kind, r)
           \/ StopAll \/ StopNext \/ StopAllReturns \/ (\E q \in Procs : Exit(q))
           \/ BackendEnds \/ UNCHANGED vars
  BY <1>2 DEF Call, StopAll, StopNext, StopAllReturns, Exit, BackendEnds, vars
<1> QED BY <1>1, <1>2 DEF Next

(* The engine's variables that the composition looks at. *)
engineView == <<req, scanPc, started, queue, up>>

(* A step of the engine for the scan s, taken inside its execution. *)
Moved(s) ==
    /\ UNCHANGED <<req, queue, up>>
    /\ scanPc[s] \in Engine!ExecutingPCs
    /\ scanPc' = [scanPc EXCEPT ![s] = scanPc'[s]]
    /\ scanPc'[s] \in Engine!ExecutingPCs \cup {"done"}
    /\ started' = [started EXCEPT ![s] = started'[s]]
    /\ started'[s] \in BOOLEAN

LEMMA RuntimeMoves ==
  ASSUME EngineInv, NEW s \in Workers,
         \/ Engine!StartRuntime(s) \/ Engine!StartRuntimeFails(s)
         \/ Engine!ProbeRuntime(s) \/ Engine!ProbeRaises(s) \/ Engine!Cleanup(s)
  PROVE  Moved(s)
<1> USE DEF EngineInv, Moved, Engine!Goto, Engine!ExecutingPCs, Engine!TryPCs,
            Engine!rowVars, Engine!localVars, Engine!clientVars, Engine!boundVars
<1>1. CASE Engine!StartRuntime(s)
  BY <1>1 DEF Engine!StartRuntime
<1>2. CASE Engine!StartRuntimeFails(s)
  BY <1>2 DEF Engine!StartRuntimeFails
<1>3. CASE Engine!ProbeRuntime(s)
  BY <1>3 DEF Engine!ProbeRuntime
<1>4. CASE Engine!ProbeRaises(s)
  BY <1>4 DEF Engine!ProbeRaises
<1>5. CASE Engine!Cleanup(s)
  BY <1>5 DEF Engine!Cleanup
<1> QED BY <1>1, <1>2, <1>3, <1>4, <1>5

LEMMA ScanMoves ==
  ASSUME EngineInv, NEW s \in Workers, Engine!ScanStep(s)
  PROVE  Moved(s)
<1>1. ScanFrame(s)
  BY ScanStepFrame
<1>2. started' = [started EXCEPT ![s] = started'[s]] /\ started'[s] \in BOOLEAN
  <2>1. started \in [Workers -> BOOLEAN]
    BY DEF EngineInv
  <2>2. started' = started \/ started' = [started EXCEPT ![s] = FALSE]
    BY <1>1 DEF ScanFrame
  <2> QED BY <2>1, <2>2
<1>3. scanPc[s] \in Engine!ExecutingPCs /\ scanPc'[s] \in Engine!ExecutingPCs \cup {"done"}
  BY <1>1 DEF ScanFrame
<1> QED BY <1>1, <1>2, <1>3 DEF ScanFrame, Moved

(* What a step of the composition is to the engine's part of it. *)
LEMMA EngineMoves ==
  ASSUME EngineInv, [AppNext]_appVars
  PROVE  \/ UNCHANGED engineView
         \/ \E s \in Workers : Moved(s)
         \/ \E s \in Workers, q \in Requests : Engine!CreateScan(s, q)
         \/ \E s \in Workers : Engine!SubmitScan(s)
         \/ Engine!TakeScan \/ Engine!Restart \/ Engine!Shutdown
         \/ Engine!Exited \/ Engine!Kill
<1> USE DEF engineVars, engineView
<1>1. ASSUME NEW t \in Threads, NEW kind \in {"start", "stop"}, NEW r \in Repos,
             UserCalls(t, kind, r)
      PROVE  UNCHANGED engineView
  BY <1>1 DEF UserCalls
<1>2. ASSUME NEW s \in Workers, ScanCallsStart(s) \/ ScanCallsStop(s)
      PROVE  UNCHANGED engineView
  BY <1>2 DEF ScanCallsStart, ScanCallsStop
<1>3. ASSUME NEW s \in Workers,
             \/ ScanStarted(s) \/ ScanStartFails(s) \/ ScanStopped(s)
             \/ ScanStartRefused(s) \/ ScanProbes(s)
      PROVE  Moved(s)
  BY <1>3, RuntimeMoves
     DEF ScanStarted, ScanStartFails, ScanStopped, ScanStartRefused, ScanProbes
<1>4. ASSUME NEW t \in Threads, InsideStep(t) \/ \E p \in Procs : Launches(t, p)
      PROVE  UNCHANGED engineView
  BY <1>4 DEF InsideStep, Launches
<1>5. CASE HookStep \/ (\E p \in Procs : ApplicationExits(p)) \/ UNCHANGED appVars
  BY <1>5 DEF HookStep, ApplicationExits, appVars
<1>6. ASSUME NEW s \in Workers, Engine!CancelCheck(s) \/ Engine!CancelWrite(s)
      PROVE  UNCHANGED engineView
  BY <1>6 DEF Engine!CancelCheck, Engine!CancelWrite, Engine!rowVars, Engine!localVars,
              Engine!boundVars
<1>7. CASE EngineStep
  BY <1>6, <1>7, ScanMoves DEF EngineStep
<1>8. CASE HookBegins \/ Exits \/ Killed
  BY <1>8 DEF HookBegins, Exits, Killed
<1> QED BY <1>1, <1>2, <1>3, <1>4, <1>5, <1>7, <1>8 DEF AppNext

(* Only a launch adds to what a scan has launched. *)
LEMMA LaunchesGrow ==
  ASSUME AppInd, [AppNext]_appVars
  PROVE  /\ launches' \in [Workers -> SUBSET Procs]
         /\ \A s \in Workers : \A p \in launches'[s] : spawnedFor'[p] # NoRepo
<1>1. TypeOK /\ [Next]_vars /\ launches \in [Workers -> SUBSET Procs]
      /\ \A s \in Workers : \A p \in launches[s] : spawnedFor[p] # NoRepo
  BY ManagerStep DEF AppInd, AppInv, IInv, EngineInv
<1>2. CASE UNCHANGED launches
  BY <1>1, <1>2, LaunchedStay
<1>3. ASSUME NEW t \in Threads, NEW p \in Procs, Launches(t, p)
      PROVE  /\ launches' \in [Workers -> SUBSET Procs]
             /\ \A s \in Workers : \A q \in launches'[s] : spawnedFor'[q] # NoRepo
  <2>1. /\ launches' = IF t \in Workers THEN [launches EXCEPT ![t] = @ \cup {p}] ELSE launches
        /\ spawnedFor'[p] # NoRepo
    BY <1>1, <1>3 DEF Launches, Spawn, TypeOK
  <2> QED BY <1>1, <2>1, LaunchedStay
<1>4. UNCHANGED launches \/ \E t \in Threads, p \in Procs : Launches(t, p)
  BY DEF AppNext, appVars, UserCalls, ScanCallsStart, ScanCallsStop, HookBegins, InsideStep,
         HookStep, ApplicationExits, ScanStarted, ScanStartFails, ScanStartRefused, ScanProbes,
         ScanStopped, EngineStep, Exits, Killed
<1> QED BY <1>2, <1>3, <1>4

LEMMA EngineInvStep ==
  ASSUME AppInd, [AppNext]_appVars
  PROVE  EngineInv'
<1>a. EngineInv /\ Linked
  BY DEF AppInd, AppInv
<1>l. /\ launches' \in [Workers -> SUBSET Procs]
      /\ \A s \in Workers : \A p \in launches'[s] : spawnedFor'[p] # NoRepo
  BY LaunchesGrow
<1> USE <1>a, <1>l DEF EngineInv, Engine!PCs, Engine!ExecutingPCs, Engine!TryPCs, Engine!Executing,
              Engine!rowVars, Engine!localVars, Engine!clientVars, Engine!boundVars
<1>1. CASE UNCHANGED engineView
  BY <1>1 DEF engineView
<1>2. ASSUME NEW s \in Workers, Moved(s) PROVE EngineInv'
  BY <1>2 DEF Moved
<1>3. ASSUME NEW s \in Workers, NEW q \in Requests, Engine!CreateScan(s, q) PROVE EngineInv'
  <2>1. scanPc[s] # "waiting" /\ up' = up /\ up = "up"
    BY <1>3 DEF Engine!CreateScan, Linked
  <2> QED BY <1>3, <2>1 DEF Engine!CreateScan
<1>4. ASSUME NEW s \in Workers, Engine!SubmitScan(s) PROVE EngineInv'
  <2>1. /\ scanPc[s] = "inserted" /\ scanPc' = [scanPc EXCEPT ![s] = "waiting"]
        /\ queue' = Append(queue, s) /\ UNCHANGED <<req, started, up>>
    BY <1>4 DEF Engine!SubmitScan
  <2>2. /\ queue' \in Seq(Workers) /\ Len(queue') = Len(queue) + 1
        /\ DOMAIN queue' = 1 .. Len(queue) + 1 /\ DOMAIN queue = 1 .. Len(queue)
        /\ queue'[Len(queue) + 1] = s
        /\ \A i \in DOMAIN queue : queue'[i] = queue[i] /\ queue[i] # s
        /\ Len(queue) \in Nat
    BY <2>1
  <2>3. \A i \in DOMAIN queue' : scanPc'[queue'[i]] = "waiting"
    BY <2>1, <2>2
  <2>4. \A i, j \in DOMAIN queue' : queue'[i] = queue'[j] => i = j
    BY <2>1, <2>2
  <2> QED BY <2>1, <2>2, <2>3, <2>4
<1>5. CASE Engine!TakeScan
  <2> DEFINE h == Head(queue)
  <2>1. /\ queue # <<>> /\ scanPc' = [scanPc EXCEPT ![h] = "begin"] /\ queue' = Tail(queue)
        /\ UNCHANGED <<req, started, up>> /\ up \in {"up", "draining"}
    BY <1>5 DEF Engine!TakeScan, Engine!Executes
  <2>2. h \in Workers /\ h = queue[1] /\ Len(queue) \in Nat \ {0}
    BY <2>1
  <2>3. /\ queue' \in Seq(Workers) /\ DOMAIN queue' = 1 .. Len(queue) - 1
        /\ DOMAIN queue = 1 .. Len(queue)
        /\ \A i \in DOMAIN queue' : queue'[i] = queue[i + 1] /\ queue'[i] # h
    BY <2>1, <2>2
  <2> HIDE DEF h
  <2>4. \A i \in DOMAIN queue' : scanPc'[queue'[i]] = "waiting"
    BY <2>1, <2>2, <2>3
  <2>5. \A i, j \in DOMAIN queue' : queue'[i] = queue'[j] => i = j
    <3> SUFFICES ASSUME NEW i \in DOMAIN queue', NEW j \in DOMAIN queue', queue'[i] = queue'[j]
                 PROVE  i = j
      OBVIOUS
    <3>1. i + 1 \in DOMAIN queue /\ j + 1 \in DOMAIN queue /\ queue[i + 1] = queue[j + 1]
      BY <2>2, <2>3
    <3>2. i + 1 = j + 1
      BY <3>1
    <3> QED BY <2>2, <2>3, <3>2
  <2> QED BY <2>1, <2>2, <2>3, <2>4, <2>5
<1>6. CASE Engine!Restart \/ Engine!Shutdown \/ Engine!Exited
  BY <1>6 DEF Engine!Restart, Engine!Shutdown, Engine!Exited
<1>7. CASE Engine!Kill
  BY <1>7 DEF Engine!Kill
<1> QED BY <1>1, <1>2, <1>3, <1>4, <1>5, <1>6, <1>7, EngineMoves

(* A thread inside an operation leaves the others' locals alone. *)
Stays(u) == pc'[u] = pc[u] /\ op'[u] = op[u] /\ repo'[u] = repo[u] /\ held'[u] = held[u]

LEMMA OthersStay ==
  ASSUME TypeOK, NEW t \in Threads, NEW u \in Threads \ {t},
         \/ Step(t)
         \/ \E kind \in {"start", "stop"}, r \in Repos : Call(t, kind, r)
         \/ t = Main /\ (StopAll \/ StopNext \/ StopAllReturns)
  PROVE  Stays(u)
<1> USE DEF TypeOK, Stays, tableVars, osVars, threadVars, shutdownVars
<1>1. CASE ReadPrevious(t) \/ Terminate(t) \/ Forget(t)
  BY <1>1 DEF ReadPrevious, Terminate, Forget
<1>2. CASE CloseLogHandle(t) \/ SpawnFails(t) \/ Register(t)
  BY <1>2 DEF CloseLogHandle, SpawnFails, Register, Leaves
<1>3. ASSUME NEW p \in Procs, Spawn(t, p) PROVE Stays(u)
  BY <1>3 DEF Spawn
<1>4. ASSUME NEW kind \in {"start", "stop"}, NEW r \in Repos, Call(t, kind, r) PROVE Stays(u)
  BY <1>4 DEF Call
<1>5. CASE t = Main /\ (StopAll \/ StopNext \/ StopAllReturns)
  BY <1>5 DEF StopAll, StopNext, StopAllReturns
<1> QED BY <1>1, <1>2, <1>3, <1>4, <1>5 DEF Step

(* What Linked says of one scan. *)
LinkedAt(s) ==
    /\ pc[s] # "idle" =>
          /\ repo[s] = req[s].repo
          /\ \/ op[s] = "start" /\ scanPc[s] = "starting"
             \/ op[s] = "stop" /\ scanPc[s] = "cleanup" /\ started[s]
    /\ pc[s] = "register" => held[s] \in launches[s]
    /\ scanPc[s] \notin {"none", "lost"} => req[s] # None
    /\ started[s] => scanPc[s] \in Engine!ExecutingPCs

LEMMA LinkedAtStays ==
  ASSUME NEW s \in Workers, LinkedAt(s), Stays(s),
         UNCHANGED <<req, scanPc, started>>, launches[s] \subseteq launches'[s]
  PROVE  LinkedAt(s)'
BY DEF LinkedAt, Stays

LEMMA LinkedStep ==
  ASSUME AppInd, [AppNext]_appVars
  PROVE  Linked'
<1>a. EngineInv /\ TypeOK /\ EngineInv' /\ TypeOK' /\ InFlight /\ DoomedReachable
  BY EngineInvStep, ManagerStep, TypeStep DEF AppInd, AppInv, IInv
<1>b. \A s \in Workers : LinkedAt(s)
  BY DEF AppInd, AppInv, Linked, LinkedAt
<1> SUFFICES ASSUME NEW s \in Workers PROVE LinkedAt(s)'
  BY DEF Linked, LinkedAt
<1>s. s \in Threads /\ s # Main /\ LinkedAt(s)
  BY <1>b
<1>f. /\ req \in [Workers -> Requests \cup {None}]
      /\ scanPc \in [Workers -> Engine!PCs]
      /\ started \in [Workers -> BOOLEAN]
      /\ launches \in [Workers -> SUBSET Procs]
  BY <1>a DEF EngineInv
<1> USE DEF Engine!ExecutingPCs, Engine!TryPCs, engineVars
<1>1. ASSUME NEW t \in Threads, NEW kind \in {"start", "stop"}, NEW r \in Repos,
             UserCalls(t, kind, r)
      PROVE  LinkedAt(s)'
  <2>1. Stays(s) /\ UNCHANGED <<engineVars, launches>>
    BY <1>1, <1>a, <1>s, OthersStay DEF UserCalls
  <2> QED BY <1>s, <2>1, LinkedAtStays
<1>2. ASSUME NEW u \in Workers, ScanCallsStart(u) \/ ScanCallsStop(u)
      PROVE  LinkedAt(s)'
  <2>1. /\ UNCHANGED <<engineVars, launches>>
        /\ u # s => Stays(s)
    <3>1. req[u].repo \in Repos
      BY <1>2, <1>b, <1>f DEF ScanCallsStart, ScanCallsStop, LinkedAt
    <3> QED BY <1>2, <1>a, <1>s, <3>1, OthersStay DEF ScanCallsStart, ScanCallsStop
  <2>2. CASE u = s
    BY <1>2, <1>a, <1>s, <1>f, <2>1, <2>2
       DEF ScanCallsStart, ScanCallsStop, Call, LinkedAt, TypeOK
  <2> QED BY <1>s, <2>1, <2>2, LinkedAtStays
<1>3. ASSUME NEW u \in Workers, \/ ScanStarted(u) \/ ScanStartFails(u) \/ ScanStopped(u)
      PROVE  LinkedAt(s)'
  <2>1. Moved(u) /\ (u # s => Stays(s)) /\ UNCHANGED launches
    BY <1>3, <1>a, <1>s, RuntimeMoves, OthersStay
       DEF ScanStarted, ScanStartFails, ScanStopped, Step
  <2>2. CASE u # s
    BY <1>s, <1>f, <2>1, <2>2, LinkedAtStays DEF Moved, LinkedAt, Stays
  <2>3. CASE u = s
    <3>1. pc'[s] = "idle"
      <4>1. CASE ScanStarted(s)
        BY <1>a, <1>s, <4>1 DEF ScanStarted, Register, TypeOK
      <4>2. CASE ScanStartFails(s)
        BY <1>a, <1>s, <4>2 DEF ScanStartFails, SpawnFails, TypeOK
      <4>3. CASE ScanStopped(s)
        BY <1>a, <1>s, <4>3 DEF ScanStopped, CloseLogHandle, AfterClose, TypeOK
      <4> QED BY <1>3, <2>3, <4>1, <4>2, <4>3
    <3>2. scanPc'[s] \in Engine!ExecutingPCs /\ req'[s] # None
      <4>1. scanPc[s] \in Engine!ExecutingPCs /\ req' = req
        BY <2>1, <2>3 DEF Moved
      <4>2. scanPc'[s] \in Engine!ExecutingPCs
        BY <1>3, <2>3, <1>f DEF ScanStarted, ScanStartFails, ScanStopped, Engine!StartRuntime,
           Engine!StartRuntimeFails, Engine!Cleanup, Engine!Goto
      <4> QED BY <1>s, <4>1, <4>2 DEF LinkedAt
    <3> QED BY <3>1, <3>2 DEF LinkedAt
  <2> QED BY <2>2, <2>3
<1>4. ASSUME NEW u \in Workers, ScanStartRefused(u) \/ ScanProbes(u)
      PROVE  LinkedAt(s)'
  <2>1. Moved(u) /\ Stays(s) /\ UNCHANGED launches
    BY <1>4, RuntimeMoves, <1>a
       DEF ScanStartRefused, ScanProbes, managerVars, vars, threadVars, Stays
  <2>2. CASE u # s
    BY <1>s, <1>f, <2>1, <2>2, LinkedAtStays DEF Moved, LinkedAt, Stays
  <2>3. CASE u = s
    <3>1. pc[s] = "idle"
      BY <1>4, <1>s, <2>3 DEF ScanStartRefused, ScanProbes, LinkedAt, Engine!ProbeRuntime,
         Engine!ProbeRaises
    <3>2. scanPc'[s] \in Engine!ExecutingPCs
      BY <1>4, <2>3, <1>f DEF ScanStartRefused, ScanProbes, Engine!StartRuntimeFails,
         Engine!ProbeRuntime, Engine!ProbeRaises, Engine!Goto
    <3> QED BY <1>s, <2>1, <2>3, <3>1, <3>2 DEF Moved, LinkedAt, Stays
  <2> QED BY <2>2, <2>3
<1>5. ASSUME NEW t \in Threads, InsideStep(t)
      PROVE  LinkedAt(s)'
  <2>1. UNCHANGED <<engineVars, launches>> /\ Step(t)
    BY <1>5 DEF InsideStep, Step
  <2>2. CASE t # s
    BY <1>a, <1>s, <2>1, <2>2, OthersStay, LinkedAtStays
  <2>3. CASE t = s
    <3>1. CASE ReadPrevious(s) \/ Terminate(s) \/ Forget(s)
      BY <1>a, <1>s, <2>1, <3>1 DEF ReadPrevious, Terminate, Forget, LinkedAt, TypeOK
    <3>2. CASE CloseLogHandle(s) /\ op[s] # "stop"
      <4>1. op[s] = "start"
        BY <1>a, <1>s, <3>2 DEF DoomedReachable, TypeOK
      <4> QED BY <1>a, <1>s, <2>1, <3>2, <4>1 DEF CloseLogHandle, AfterClose, LinkedAt, TypeOK
    <3> QED BY <1>5, <2>3, <3>1, <3>2 DEF InsideStep
  <2> QED BY <2>2, <2>3
<1>6. ASSUME NEW t \in Threads, NEW p \in Procs, Launches(t, p)
      PROVE  LinkedAt(s)'
  <2>1. /\ UNCHANGED engineVars /\ Step(t) /\ launches[s] \subseteq launches'[s]
        /\ t = s => p \in launches'[s]
    BY <1>6, <1>f DEF Launches, Step
  <2>2. CASE t # s
    BY <1>a, <1>s, <2>1, <2>2, OthersStay, LinkedAtStays
  <2>3. CASE t = s
    BY <1>6, <1>a, <1>s, <2>1, <2>3 DEF Launches, Spawn, LinkedAt, TypeOK
  <2> QED BY <2>2, <2>3
<1>7. CASE HookStep
  BY <1>7, <1>a, <1>s, OthersStay, LinkedAtStays DEF HookStep
<1>8. CASE HookBegins
  <2>1. Stays(s) /\ UNCHANGED <<req, scanPc, started, launches>>
    BY <1>8, <1>a, <1>s, OthersStay
       DEF HookBegins, Engine!Shutdown, Engine!rowVars, Engine!localVars
  <2> QED BY <1>s, <2>1, LinkedAtStays
<1>9. CASE (\E p \in Procs : ApplicationExits(p)) \/ UNCHANGED appVars
  <2>1. Stays(s) /\ UNCHANGED <<req, scanPc, started, launches>>
    BY <1>9 DEF ApplicationExits, Exit, appVars, managerVars, vars, threadVars, Stays
  <2> QED BY <1>s, <2>1, LinkedAtStays
<1>10. CASE EngineStep
  <2>1. Stays(s) /\ UNCHANGED launches
    BY <1>10 DEF EngineStep, managerVars, vars, threadVars, Stays
  <2>2. ASSUME UNCHANGED <<req, scanPc, started>> PROVE LinkedAt(s)'
    BY <1>s, <2>1, <2>2, LinkedAtStays
  <2>3. ASSUME NEW u \in Workers, NEW q \in Requests, Engine!CreateScan(u, q)
        PROVE  LinkedAt(s)'
    BY <1>s, <1>f, <2>1, <2>3 DEF Engine!CreateScan, Engine!localVars, LinkedAt, Stays
  <2>4. ASSUME NEW u \in Workers, Engine!SubmitScan(u)
        PROVE  LinkedAt(s)'
    BY <1>s, <1>f, <2>1, <2>4
       DEF Engine!SubmitScan, Engine!rowVars, Engine!localVars, LinkedAt, Stays
  <2>5. ASSUME NEW u \in Workers, Engine!CancelCheck(u) \/ Engine!CancelWrite(u)
        PROVE  LinkedAt(s)'
    BY <2>2, <2>5 DEF Engine!CancelCheck, Engine!CancelWrite, Engine!rowVars, Engine!localVars
  <2>6. ASSUME NEW u \in Workers, Engine!ScanStep(u)
        PROVE  LinkedAt(s)'
    <3>1. ScanFrame(u)
      BY <1>a, <2>6, ScanStepFrame
    <3>2. CASE u # s
      BY <1>s, <1>f, <2>1, <3>1, <3>2, LinkedAtStays DEF ScanFrame, LinkedAt, Stays
    <3>3. CASE u = s
      <4>1. pc[s] = "idle"
        BY <1>s, <3>1, <3>3 DEF ScanFrame, LinkedAt
      <4>2. req'[s] # None /\ (scanPc'[s] \in Engine!ExecutingPCs \/ ~started'[s])
        BY <1>s, <1>f, <3>1, <3>3 DEF ScanFrame, LinkedAt
      <4> QED BY <2>1, <4>1, <4>2 DEF LinkedAt, Stays
    <3> QED BY <3>2, <3>3
  <2>7. CASE Engine!TakeScan
    <3> DEFINE h == Head(queue)
    <3>1. h \in Workers /\ scanPc[h] = "waiting"
      BY <1>a, <2>7 DEF EngineInv, Engine!TakeScan
    <3>2. scanPc' = [scanPc EXCEPT ![h] = "begin"] /\ UNCHANGED <<req, started>>
      BY <2>7 DEF Engine!TakeScan, Engine!rowVars, Engine!localVars
    <3> HIDE DEF h
    <3> QED BY <1>s, <1>f, <2>1, <3>1, <3>2, <2>2 DEF LinkedAt, Stays
  <2>8. CASE Engine!Restart
    BY <2>2, <2>8 DEF Engine!Restart, Engine!rowVars, Engine!localVars
  <2> QED BY <1>10, <2>3, <2>4, <2>5, <2>6, <2>7, <2>8 DEF EngineStep
<1>11. CASE Exits
  BY <1>11, <1>a, <1>s, <1>f DEF Exits, Engine!Exited, Engine!rowVars, Engine!localVars,
     BackendEnds, LinkedAt
<1>12. CASE Killed
  BY <1>12, <1>a, <1>s, <1>f DEF Killed, Engine!Kill, Engine!rowVars, BackendEnds, LinkedAt
<1> QED
  BY <1>1, <1>2, <1>3, <1>4, <1>5, <1>6, <1>7, <1>8, <1>9, <1>10, <1>11, <1>12 DEF AppNext

(* Only a launch adds an undisturbed process. *)
LEMMA NoMore ==
  ASSUME IInv, [Next]_vars, \A t \in Threads, p \in Procs : ~Spawn(t, p)
  PROVE  Undisturbed' \subseteq Undisturbed
<1> USE DEF IInv, TypeOK, tableVars, osVars, threadVars, shutdownVars, overlapVars
<1>1. ASSUME NEW t \in Threads, NEW kind \in {"start", "stop"}, NEW r \in Repos,
             Call(t, kind, r)
      PROVE  Undisturbed' \subseteq Undisturbed
  BY <1>1, EnterOf DEF Call
<1>2. CASE StopNext
  <2>1. PICK r \in todo : Enters(Main, r) /\ pc' = [pc EXCEPT ![Main] = "read"]
    BY <1>2 DEF StopNext
  <2> QED BY <1>2, <2>1, EnterOf DEF StopNext
<1>3. ASSUME NEW t \in Threads, Step(t)
      PROVE  Undisturbed' \subseteq Undisturbed
  BY <1>3, CalmStep
<1>4. CASE StopAll \/ StopAllReturns \/ UNCHANGED vars
  BY <1>4 DEF StopAll, StopAllReturns, vars, Undisturbed, Exposed
<1>5. CASE (\E p \in Procs : Exit(p)) \/ BackendEnds
  BY <1>5 DEF Exit, BackendEnds, Undisturbed, Exposed
<1> QED BY <1>1, <1>2, <1>3, <1>4, <1>5 DEF Next

(* A process whose repository a thread is through terminating is disturbed  *)
(* or has ended, unless it is another start that is about to register it.   *)
LEMMA Terminated ==
  ASSUME IInv, NEW t \in Threads, Terminate(t), NEW p \in Undisturbed, spawnedFor[p] = repo[t]
  PROVE  p \notin Undisturbed'
<1>1. pc[t] = "terminate" /\ repo[t] \in Repos /\ Busy(t, repo[t]) /\ p # NoProc
  BY DEF Terminate, IInv, TypeOK, Busy, Undisturbed
<1>2. CASE processes[repo[t]] # p
  <2>1. PICK u \in Threads :
           pc[u] = "register" /\ held[u] = p /\ repo[u] = repo[t] /\ u \notin contended
    BY <1>2, NamedOrHeld
  <2> QED BY <1>1, <2>1 DEF IInv, Overlaps, Busy
<1>3. CASE processes[repo[t]] = p
  <2>1. held[t] = p
    BY <1>1, <1>3 DEF IInv, InFlight, Undisturbed, Exposed
  <2> QED BY <2>1 DEF Terminate, Undisturbed
<1> QED BY <1>2, <1>3

(* What Owned says of one process of one scan, besides its repository. *)
OwnedAt(s, p) ==
    \/ pc[s] = "register" /\ held[s] = p
    \/ started[s] /\ scanPc[s] # "cleaned" /\ pc[s] \in {"idle", "read", "terminate"}

LEMMA OwnedStep ==
  ASSUME AppInd, [AppNext]_appVars
  PROVE  Owned'
<1>a. /\ EngineInv /\ IInv /\ TypeOK /\ TypeOK' /\ InFlight /\ DoomedReachable
      /\ [Next]_vars /\ Linked
  BY ManagerStep, TypeStep DEF AppInd, AppInv, IInv
<1>b. \A s \in Workers : LinkedAt(s)
  BY <1>a DEF Linked, LinkedAt
<1> SUFFICES ASSUME NEW s \in Workers, NEW p \in launches'[s], p \in Undisturbed'
             PROVE  spawnedFor'[p] = req'[s].repo /\ OwnedAt(s, p)'
  BY DEF Owned, OwnedAt
<1>s. s \in Threads /\ s # Main /\ LinkedAt(s) /\ p \in Procs
  BY <1>a, <1>b, LaunchesGrow
<1>f. /\ req \in [Workers -> Requests \cup {None}]
      /\ scanPc \in [Workers -> Engine!PCs]
      /\ started \in [Workers -> BOOLEAN]
      /\ launches \in [Workers -> SUBSET Procs]
  BY <1>a DEF EngineInv
(* a process that the scan had launched before *)
<1>o. ASSUME p \in launches[s], p \in Undisturbed
      PROVE  /\ spawnedFor[p] = req[s].repo /\ OwnedAt(s, p)
             /\ scanPc[s] \in Engine!ExecutingPCs /\ req[s] # None
             /\ spawnedFor'[p] = spawnedFor[p] /\ spawnedFor[p] \in Repos
  <2>1. spawnedFor[p] = req[s].repo /\ OwnedAt(s, p)
    BY <1>o DEF AppInd, AppInv, Owned, OwnedAt
  <2>2. scanPc[s] \in Engine!ExecutingPCs /\ req[s] # None
    BY <2>1, <1>s DEF OwnedAt, LinkedAt, Engine!ExecutingPCs, Engine!TryPCs
  <2>3. spawnedFor[p] # NoRepo /\ spawnedFor[p] \in Repos
    BY <1>a, <1>o DEF IInv, Registered, Undisturbed
  <2> QED BY <1>a, <1>s, <2>1, <2>2, <2>3, LaunchedStay
<1>k. ASSUME UNCHANGED launches, \A t \in Threads, q \in Procs : ~Spawn(t, q)
      PROVE  p \in launches[s] /\ p \in Undisturbed
  BY <1>a, <1>k, NoMore
<1> USE DEF Engine!ExecutingPCs, Engine!TryPCs, engineVars
<1>1. ASSUME NEW t \in Threads, InsideStep(t)
      PROVE  spawnedFor'[p] = req'[s].repo /\ OwnedAt(s, p)'
  <2>1. UNCHANGED <<engineVars, launches>> /\ Step(t)
    BY <1>1 DEF InsideStep, Step
  <2>2. \A u \in Threads, q \in Procs : ~Spawn(u, q)
    <3>1. CASE ReadPrevious(t) \/ Terminate(t)
      BY <1>a, <3>1 DEF ReadPrevious, Terminate, Spawn, TypeOK
    <3>2. CASE Forget(t) \/ CloseLogHandle(t) \/ SpawnFails(t) \/ Register(t)
      BY <1>a, <3>2 DEF Forget, CloseLogHandle, AfterClose, SpawnFails, Register, Spawn, TypeOK
    <3> QED BY <1>1, <3>1, <3>2 DEF InsideStep
  <2>3. p \in launches[s] /\ p \in Undisturbed
    BY <1>k, <2>1, <2>2
  <2>4. CASE t # s
    BY <1>a, <1>s, <1>o, <2>1, <2>3, <2>4, OthersStay DEF OwnedAt, Stays
  <2>5. CASE t = s
    <3>1. CASE ReadPrevious(s)
      BY <1>a, <1>s, <1>o, <2>1, <2>3, <3>1 DEF ReadPrevious, OwnedAt, TypeOK
    <3>2. CASE Terminate(s)
      <4>1. spawnedFor[p] = repo[s]
        BY <1>s, <1>o, <2>3, <3>2 DEF Terminate, LinkedAt
      <4> QED BY <1>a, <1>s, <2>3, <3>2, <4>1, Terminated
    <3>3. CASE Forget(s) \/ CloseLogHandle(s)
      BY <1>o, <2>3, <3>3 DEF Forget, CloseLogHandle, OwnedAt
    <3> QED BY <1>1, <2>5, <3>1, <3>2, <3>3 DEF InsideStep
  <2> QED BY <2>4, <2>5
<1>2. ASSUME NEW t \in Threads, NEW q \in Procs, Launches(t, q)
      PROVE  spawnedFor'[p] = req'[s].repo /\ OwnedAt(s, p)'
  <2>1. /\ UNCHANGED engineVars /\ Step(t) /\ Spawn(t, q)
        /\ q \notin Undisturbed /\ spawnedFor[q] = NoRepo
        /\ spawnedFor' = [spawnedFor EXCEPT ![q] = repo[t]]
        /\ Undisturbed' \subseteq Undisturbed \cup {q}
        /\ launches' = IF t \in Workers THEN [launches EXCEPT ![t] = @ \cup {q}] ELSE launches
    BY <1>2, <1>a, SpawnAdds DEF Launches, Step
  <2>2. CASE p # q
    <3>1. p \in launches[s] /\ p \in Undisturbed
      BY <1>f, <2>1, <2>2
    <3>2. t # s
      BY <1>o, <2>1, <3>1 DEF OwnedAt, Spawn
    <3> QED BY <1>a, <1>s, <1>o, <2>1, <3>1, <3>2, OthersStay DEF OwnedAt, Stays
  <2>3. CASE p = q
    <3>1. t = s
      BY <1>a, <1>f, <2>1, <2>3 DEF EngineInv
    <3>2. repo[s] = req[s].repo /\ pc'[s] = "register" /\ held'[s] = p
      BY <1>a, <1>s, <2>1, <2>3, <3>1 DEF Spawn, LinkedAt, TypeOK
    <3> QED BY <1>a, <1>s, <2>1, <2>3, <3>1, <3>2 DEF OwnedAt, TypeOK
  <2> QED BY <2>2, <2>3
<1>3. ASSUME NEW t \in Threads, NEW kind \in {"start", "stop"}, NEW r \in Repos,
             UserCalls(t, kind, r)
      PROVE  spawnedFor'[p] = req'[s].repo /\ OwnedAt(s, p)'
  <2>1. Stays(s) /\ UNCHANGED <<engineVars, launches>>
    BY <1>3, <1>a, <1>s, OthersStay DEF UserCalls
  <2>2. p \in launches[s] /\ p \in Undisturbed
    BY <1>3, <1>k, <2>1, <1>a DEF UserCalls, Call, Spawn, TypeOK
  <2> QED BY <1>o, <2>1, <2>2 DEF OwnedAt, Stays
<1>4. ASSUME NEW u \in Workers, ScanCallsStart(u) \/ ScanCallsStop(u)
      PROVE  spawnedFor'[p] = req'[s].repo /\ OwnedAt(s, p)'
  <2>0. req[u].repo \in Repos
    BY <1>4, <1>b, <1>f DEF ScanCallsStart, ScanCallsStop, LinkedAt
  <2>1. (u # s => Stays(s)) /\ UNCHANGED <<engineVars, launches>>
    BY <1>4, <1>a, <1>s, <2>0, OthersStay DEF ScanCallsStart, ScanCallsStop
  <2>2. p \in launches[s] /\ p \in Undisturbed
    BY <1>4, <1>k, <2>1, <1>a DEF ScanCallsStart, ScanCallsStop, Call, Spawn, TypeOK
  <2>3. CASE u # s
    BY <1>o, <2>1, <2>2, <2>3 DEF OwnedAt, Stays
  <2>4. CASE u = s
    <3>1. pc[s] = "idle" /\ pc'[s] = "read"
      BY <1>4, <1>a, <1>s, <2>4 DEF ScanCallsStart, ScanCallsStop, Call, TypeOK
    <3> QED BY <1>o, <2>1, <2>2, <3>1 DEF OwnedAt
  <2> QED BY <2>3, <2>4
<1>5. ASSUME NEW u \in Workers, \/ ScanStarted(u) \/ ScanStartFails(u) \/ ScanStopped(u)
      PROVE  spawnedFor'[p] = req'[s].repo /\ OwnedAt(s, p)'
  <2>1. Moved(u) /\ (u # s => Stays(s)) /\ UNCHANGED launches
    BY <1>5, <1>a, <1>s, RuntimeMoves, OthersStay
       DEF ScanStarted, ScanStartFails, ScanStopped, Step
  <2>2. p \in launches[s] /\ p \in Undisturbed
    <3>1. \A t \in Threads, q \in Procs : ~Spawn(t, q)
      BY <1>5, <1>a DEF ScanStarted, ScanStartFails, ScanStopped, Register, SpawnFails,
         CloseLogHandle, AfterClose, Spawn, TypeOK
    <3> QED BY <1>k, <2>1, <3>1
  <2>3. CASE u # s
    BY <1>f, <1>o, <2>1, <2>2, <2>3 DEF Moved, OwnedAt, Stays
  <2>4. CASE u = s
    <3>1. CASE ScanStarted(s)
      BY <1>a, <1>s, <1>f, <1>o, <2>2, <3>1
         DEF ScanStarted, Register, Engine!StartRuntime, Engine!Goto, Engine!rowVars, OwnedAt, TypeOK
    <3>2. CASE ScanStartFails(s) \/ ScanStopped(s)
      BY <1>o, <2>2, <3>2
         DEF ScanStartFails, ScanStopped, SpawnFails, CloseLogHandle, OwnedAt
    <3> QED BY <1>5, <2>4, <3>1, <3>2
  <2> QED BY <2>3, <2>4
<1>6. ASSUME NEW u \in Workers, ScanStartRefused(u) \/ ScanProbes(u)
      PROVE  spawnedFor'[p] = req'[s].repo /\ OwnedAt(s, p)'
  <2>1. Moved(u) /\ Stays(s) /\ UNCHANGED <<vars, launches>>
    BY <1>6, RuntimeMoves, <1>a
       DEF ScanStartRefused, ScanProbes, managerVars, vars, threadVars, Stays
  <2>2. p \in launches[s] /\ p \in Undisturbed
    BY <2>1 DEF vars, osVars, threadVars, overlapVars, Undisturbed, Exposed
  <2>3. started' = started /\ (u = s => scanPc'[s] = "plan" \/ scanPc'[s] = scanPc[s])
    BY <1>6, <1>f DEF ScanStartRefused, ScanProbes, Engine!StartRuntimeFails,
       Engine!ProbeRuntime, Engine!ProbeRaises, Engine!Goto
  <2> QED BY <1>f, <1>o, <2>1, <2>2, <2>3 DEF Moved, OwnedAt, Stays
<1>7. CASE HookStep \/ HookBegins
  <2>1. Stays(s) /\ UNCHANGED <<req, scanPc, started, launches>>
    BY <1>7, <1>a, <1>s, OthersStay
       DEF HookStep, HookBegins, Engine!Shutdown, Engine!rowVars, Engine!localVars
  <2>2. p \in launches[s] /\ p \in Undisturbed
    BY <1>7, <1>k, <2>1, <1>a
       DEF HookStep, HookBegins, StopAll, StopNext, StopAllReturns, Spawn, TypeOK
  <2> QED BY <1>o, <2>1, <2>2 DEF OwnedAt, Stays
<1>8. CASE (\E q \in Procs : ApplicationExits(q)) \/ UNCHANGED appVars
  <2>1. Stays(s) /\ UNCHANGED <<req, scanPc, started, launches>>
    BY <1>8 DEF ApplicationExits, Exit, appVars, managerVars, vars, threadVars, Stays
  <2>2. p \in launches[s] /\ p \in Undisturbed
    BY <1>8, <2>1 DEF ApplicationExits, Exit, appVars, managerVars, vars, osVars, threadVars,
       overlapVars, Undisturbed, Exposed
  <2> QED BY <1>o, <2>1, <2>2 DEF OwnedAt, Stays
<1>9. CASE EngineStep
  <2>1. Stays(s) /\ UNCHANGED <<vars, launches>>
    BY <1>9 DEF EngineStep, managerVars, vars, threadVars, Stays
  <2>2. p \in launches[s] /\ p \in Undisturbed
    BY <2>1 DEF vars, osVars, threadVars, overlapVars, Undisturbed, Exposed
  <2>3. /\ spawnedFor[p] = req[s].repo /\ OwnedAt(s, p)
        /\ scanPc[s] \in Engine!ExecutingPCs /\ req[s] # None
        /\ spawnedFor'[p] = spawnedFor[p]
    BY <1>o, <2>2
  <2>4. ASSUME req'[s] = req[s], scanPc'[s] = scanPc[s], started'[s] = started[s]
        PROVE  spawnedFor'[p] = req'[s].repo /\ OwnedAt(s, p)'
    BY <2>1, <2>3, <2>4 DEF OwnedAt, Stays
  <2>5. ASSUME NEW u \in Workers, NEW q \in Requests, Engine!CreateScan(u, q)
        PROVE  req'[s] = req[s] /\ scanPc'[s] = scanPc[s] /\ started'[s] = started[s]
    BY <1>f, <2>3, <2>5 DEF Engine!CreateScan, Engine!localVars
  <2>6. ASSUME NEW u \in Workers, Engine!SubmitScan(u)
        PROVE  req'[s] = req[s] /\ scanPc'[s] = scanPc[s] /\ started'[s] = started[s]
    BY <1>f, <2>3, <2>6 DEF Engine!SubmitScan, Engine!rowVars, Engine!localVars
  <2>7. ASSUME NEW u \in Workers, Engine!CancelCheck(u) \/ Engine!CancelWrite(u)
        PROVE  req'[s] = req[s] /\ scanPc'[s] = scanPc[s] /\ started'[s] = started[s]
    BY <2>7 DEF Engine!CancelCheck, Engine!CancelWrite, Engine!rowVars, Engine!localVars
  <2>8. ASSUME NEW u \in Workers, Engine!ScanStep(u)
        PROVE  spawnedFor'[p] = req'[s].repo /\ OwnedAt(s, p)'
    <3>1. ScanFrame(u)
      BY <1>a, <2>8, ScanStepFrame
    <3>2. CASE u # s
      BY <1>f, <2>4, <3>1, <3>2 DEF ScanFrame
    <3>3. CASE u = s
      <4>1. pc[s] = "idle"
        BY <1>s, <3>1, <3>3 DEF ScanFrame, LinkedAt
      <4>2. started[s] /\ scanPc[s] # "cleaned"
        BY <2>3, <4>1 DEF OwnedAt
      <4>3. started' = started /\ scanPc'[s] # "cleaned"
        BY <1>f, <3>1, <3>3, <4>2 DEF ScanFrame
      <4> QED BY <2>1, <2>3, <3>1, <3>3, <4>1, <4>2, <4>3 DEF ScanFrame, OwnedAt, Stays
    <3> QED BY <3>2, <3>3
  <2>9. CASE Engine!TakeScan
    <3> DEFINE h == Head(queue)
    <3>1. h \in Workers /\ scanPc[h] = "waiting"
      BY <1>a, <2>9 DEF EngineInv, Engine!TakeScan
    <3>2. scanPc' = [scanPc EXCEPT ![h] = "begin"] /\ UNCHANGED <<req, started>>
      BY <2>9 DEF Engine!TakeScan, Engine!rowVars, Engine!localVars
    <3> HIDE DEF h
    <3> QED BY <1>f, <2>3, <2>4, <3>1, <3>2
  <2>10. CASE Engine!Restart
    BY <2>4, <2>10 DEF Engine!Restart, Engine!rowVars, Engine!localVars
  <2> QED BY <1>9, <2>4, <2>5, <2>6, <2>7, <2>8, <2>9, <2>10 DEF EngineStep
<1>10. CASE Exits \/ Killed
  <2>1. Undisturbed' = {}
    BY <1>10 DEF Exits, Killed, BackendEnds, osVars, Undisturbed
  <2> QED BY <2>1
<1> QED
  BY <1>1, <1>2, <1>3, <1>4, <1>5, <1>6, <1>7, <1>8, <1>9, <1>10 DEF AppNext

LEMMA ClosingStep ==
  ASSUME AppInd, [AppNext]_appVars
  PROVE  Closing'
<1>a. /\ EngineInv /\ IInv /\ TypeOK /\ TypeOK' /\ InFlight /\ DoomedReachable
      /\ [Next]_vars /\ Linked /\ Closing
  BY ManagerStep, TypeStep DEF AppInd, AppInv, IInv
<1>s. Workers \subseteq Threads \ {Main} /\ Main \in Threads
  OBVIOUS
<1>d. pc[Main] = "next" => closing
  BY <1>a DEF DoomedReachable
<1>k. ASSUME UNCHANGED <<closing, up, doomed>>, Undisturbed' \subseteq Undisturbed,
             \A s \in Workers : launches[s] \subseteq launches'[s],
             \A t \in Threads : pc[t] = "idle" =>
                 pc'[t] = "idle" \/ (t \in Workers /\ up \notin {"stopped", "killed"})
      PROVE  Closing'
  BY <1>a, <1>s, <1>k DEF Closing
<1>m. ASSUME \A t \in Threads, q \in Procs : ~Spawn(t, q)
      PROVE  Undisturbed' \subseteq Undisturbed
  BY <1>a, <1>m, NoMore
<1>v. ASSUME UNCHANGED vars
      PROVE  Undisturbed' = Undisturbed /\ pc' = pc /\ UNCHANGED <<closing, doomed>>
  BY <1>v DEF vars, osVars, threadVars, shutdownVars, overlapVars, Undisturbed, Exposed
<1>x. ASSUME NEW s \in Workers, scanPc[s] \in Engine!ExecutingPCs
      PROVE  up \notin {"stopped", "killed"}
  BY <1>a, <1>x DEF EngineInv, Engine!Executing
<1> USE DEF engineVars, shutdownVars
<1>1. ASSUME NEW t \in Threads, NEW kind \in {"start", "stop"}, NEW r \in Repos,
             UserCalls(t, kind, r)
      PROVE  Closing'
  BY <1>1, <1>a DEF UserCalls, Call, Closing
<1>2. ASSUME NEW u \in Workers, ScanCallsStart(u) \/ ScanCallsStop(u)
      PROVE  Closing'
  <2>1. /\ UNCHANGED <<closing, up, doomed, launches>>
        /\ pc[u] = "idle" /\ pc' = [pc EXCEPT ![u] = "read"]
        /\ scanPc[u] \in Engine!ExecutingPCs
    BY <1>2 DEF ScanCallsStart, ScanCallsStop, Call, Engine!ExecutingPCs, Engine!TryPCs
  <2>2. Undisturbed' \subseteq Undisturbed
    BY <1>m, <2>1, <1>a, <1>s DEF Spawn, TypeOK
  <2> QED BY <1>a, <1>k, <1>s, <1>x, <2>1, <2>2 DEF TypeOK
<1>3. ASSUME NEW u \in Workers, \/ ScanStarted(u) \/ ScanStartFails(u) \/ ScanStopped(u)
      PROVE  Closing'
  <2>1. Moved(u) /\ UNCHANGED <<closing, doomed, launches>>
    BY <1>3, <1>a, RuntimeMoves
       DEF ScanStarted, ScanStartFails, ScanStopped, Register, SpawnFails, CloseLogHandle
  <2>2. Undisturbed' \subseteq Undisturbed
    <3>1. \A t \in Threads, q \in Procs : ~Spawn(t, q)
      BY <1>3, <1>a DEF ScanStarted, ScanStartFails, ScanStopped, Register, SpawnFails,
         CloseLogHandle, AfterClose, Spawn, TypeOK
    <3> QED BY <1>m, <3>1
  <2>3. \A t \in Threads : pc[t] = "idle" => pc'[t] = "idle"
    BY <1>3, <1>a DEF ScanStarted, ScanStartFails, ScanStopped, Register, SpawnFails,
       CloseLogHandle, TypeOK
  <2> QED BY <1>k, <2>1, <2>2, <2>3 DEF Moved
<1>4. ASSUME NEW u \in Workers, ScanStartRefused(u) \/ ScanProbes(u)
      PROVE  Closing'
  <2>1. Moved(u) /\ UNCHANGED <<vars, launches>>
    BY <1>4, <1>a, RuntimeMoves DEF ScanStartRefused, ScanProbes, managerVars
  <2> QED BY <1>k, <1>v, <2>1 DEF Moved
<1>5. ASSUME NEW t \in Threads, InsideStep(t)
      PROVE  Closing'
  <2>1. UNCHANGED <<up, launches>> /\ UNCHANGED <<closing, doomed>>
    BY <1>5 DEF InsideStep, ReadPrevious, Terminate, Forget, CloseLogHandle, SpawnFails, Register
  <2>2. \A u \in Threads, q \in Procs : ~Spawn(u, q)
    BY <1>5, <1>a DEF InsideStep, ReadPrevious, Terminate, Forget, CloseLogHandle, AfterClose,
       SpawnFails, Register, Spawn, TypeOK
  <2>3. \A u \in Threads : pc[u] = "idle" => pc'[u] = "idle"
    BY <1>5, <1>a DEF InsideStep, ReadPrevious, Terminate, Forget, CloseLogHandle,
       SpawnFails, Register, TypeOK
  <2> QED BY <1>k, <1>m, <2>1, <2>2, <2>3
<1>6. ASSUME NEW t \in Threads, NEW q \in Procs, Launches(t, q)
      PROVE  Closing'
  <2>1. /\ UNCHANGED <<up, closing, doomed>> /\ Spawn(t, q)
        /\ pc[t] = "spawn" /\ pc' = [pc EXCEPT ![t] = "register"]
        /\ launches' = IF t \in Workers THEN [launches EXCEPT ![t] = @ \cup {q}] ELSE launches
        /\ Undisturbed' \subseteq Undisturbed \cup {q}
    BY <1>6, <1>a, SpawnAdds DEF Launches, Spawn
  <2>2. up \notin {"stopped", "killed"}
    BY <1>a, <2>1 DEF Closing
  <2>3. closing => t \in Workers
    BY <1>a, <2>1 DEF Closing, DoomedReachable, InFlight
  <2>4. launches \in [Workers -> SUBSET Procs]
    BY <1>a DEF EngineInv
  <2>5. \A u \in Threads : pc[u] = "idle" => pc'[u] = "idle"
    BY <1>a, <2>1 DEF TypeOK
  <2>6. ASSUME closing, NEW p \in Undisturbed'
        PROVE  p \in doomed \/ \E s \in Workers : p \in launches'[s]
    BY <1>a, <2>1, <2>3, <2>4, <2>6 DEF Closing
  <2> QED BY <1>a, <1>s, <2>1, <2>2, <2>5, <2>6 DEF Closing
<1>7. CASE HookBegins
  <2>1. /\ closing' = TRUE /\ up' = "draining" /\ UNCHANGED launches
        /\ \A t \in Threads \ Workers : pc[t] = "idle"
        /\ pc' = [pc EXCEPT ![Main] = "next"]
        /\ doomed' = {p \in Procs : \E r \in Repos : processes[r] = p}
    BY <1>7 DEF HookBegins, StopAll, Engine!Shutdown
  <2>2. Undisturbed' \subseteq Undisturbed
    BY <1>7, <1>m, <1>a DEF HookBegins, StopAll, Spawn, TypeOK
  <2>3. ASSUME NEW p \in Undisturbed
        PROVE  p \in doomed' \/ \E s \in Workers : p \in launches[s]
    <3>1. CASE processes[spawnedFor[p]] = p
      BY <1>a, <2>1, <3>1 DEF IInv, Registered, TypeOK, Undisturbed
    <3>2. CASE processes[spawnedFor[p]] # p
      <4>1. PICK t \in Threads : pc[t] = "register" /\ held[t] = p
        BY <1>a, <3>2, NamedOrHeld
      <4>2. t \in Workers
        BY <2>1, <4>1
      <4> QED BY <1>a, <4>1, <4>2 DEF Linked
    <3> QED BY <3>1, <3>2
  <2> QED BY <1>a, <1>s, <2>1, <2>2, <2>3 DEF Closing, TypeOK
<1>8. CASE HookStep
  <2>1. /\ UNCHANGED <<up, closing, doomed, launches>>
        /\ pc[Main] = "next" /\ \A t \in Threads \ {Main} : pc'[t] = pc[t]
    BY <1>8, <1>a DEF HookStep, StopNext, StopAllReturns, TypeOK
  <2>2. Undisturbed' \subseteq Undisturbed
    BY <1>8, <1>m, <1>a DEF HookStep, StopNext, StopAllReturns, Spawn, TypeOK
  <2> QED BY <1>k, <2>1, <2>2
<1>9. CASE (\E q \in Procs : ApplicationExits(q)) \/ UNCHANGED appVars
  <2>1. UNCHANGED <<up, closing, doomed, launches, pc>>
    BY <1>9 DEF ApplicationExits, Exit, appVars, managerVars, vars, threadVars
  <2>2. Undisturbed' \subseteq Undisturbed
    BY <1>9 DEF ApplicationExits, Exit, appVars, managerVars, vars, osVars, threadVars,
       overlapVars, Undisturbed, Exposed
  <2> QED BY <1>k, <2>1, <2>2
<1>10. CASE EngineStep
  <2>1. UNCHANGED <<vars, launches>>
    BY <1>10 DEF EngineStep, managerVars
  <2>2. CASE UNCHANGED up
    BY <1>k, <1>v, <2>1, <2>2
  <2>3. CASE Engine!Restart
    BY <1>a, <1>v, <2>1, <2>3 DEF Engine!Restart, Closing
  <2>4. UNCHANGED up \/ Engine!Restart
    <3>1. ASSUME NEW s \in Workers, Engine!ScanStep(s) PROVE UNCHANGED up
      BY <1>a, <3>1, ScanMoves DEF Moved
    <3>2. ASSUME NEW s \in Workers, NEW q \in Requests, Engine!CreateScan(s, q)
          PROVE  UNCHANGED up
      BY <3>2 DEF Engine!CreateScan
    <3>3. ASSUME NEW s \in Workers,
                 Engine!SubmitScan(s) \/ Engine!CancelCheck(s) \/ Engine!CancelWrite(s)
          PROVE  UNCHANGED up
      BY <3>3 DEF Engine!SubmitScan, Engine!CancelCheck, Engine!CancelWrite
    <3>4. CASE Engine!TakeScan
      BY <3>4 DEF Engine!TakeScan
    <3> QED BY <1>10, <3>1, <3>2, <3>3, <3>4 DEF EngineStep
  <2> QED BY <2>2, <2>3, <2>4
<1>11. CASE Exits \/ Killed
  <2>1. /\ up' \in {"stopped", "killed"} /\ closing' = FALSE
        /\ Undisturbed' = {} /\ pc' = [t \in Threads |-> "idle"]
    BY <1>11 DEF Exits, Killed, Engine!Exited, Engine!Kill, BackendEnds, osVars, Undisturbed
  <2> QED BY <2>1 DEF Closing
<1> QED
  BY <1>1, <1>2, <1>3, <1>4, <1>5, <1>6, <1>7, <1>8, <1>9, <1>10, <1>11 DEF AppNext

LEMMA AppIndInit == AppInit => AppInd
<1> SUFFICES ASSUME AppInit PROVE AppInd
  OBVIOUS
<1>1. IInv
  BY IInvInit DEF AppInit
<1>2. EngineInv
  BY DEF AppInit, Engine!Init, EngineInv, Engine!PCs, Engine!Executing, Engine!ExecutingPCs,
         Engine!TryPCs
<1>3. Undisturbed = {}
  BY DEF AppInit, Init, Undisturbed
<1>4. Linked /\ Owned /\ Closing
  BY <1>3 DEF AppInit, Init, Engine!Init, Linked, Owned, Closing
<1> QED BY <1>1, <1>2, <1>4 DEF AppInd, AppInv

(* The inductive invariant of the composition. *)
LEMMA AppInductive == AppSpec => []AppInd
<1>1. AppInd /\ [AppNext]_appVars => AppInd'
  <2> SUFFICES ASSUME AppInd, [AppNext]_appVars PROVE AppInd'
    OBVIOUS
  <2>1. IInv'
    BY ManagerStep, IInvStep DEF AppInd, AppInv
  <2> QED BY <2>1, EngineInvStep, LinkedStep, OwnedStep, ClosingStep DEF AppInd, AppInv
<1> QED BY <1>1, AppIndInit, PTL DEF AppSpec

(* The process manager of the composition is the one of ProcessManager: its *)
(* theorems above hold with scans, users and the shutdown hook as callers.  *)
THEOREM ManagerImplemented == AppSpec => Spec
<1>1. AppInit => Init
  BY DEF AppInit
<1>2. AppInd /\ [AppNext]_appVars => [Next]_vars
  BY ManagerStep
<1> QED BY <1>1, <1>2, AppInductive, PTL DEF AppSpec, Spec

(* The engine of the composition is the one of ScanEngine: start and stop   *)
(* of an application may take their several lock sections (149-184,         *)
(* 217-224) and what the engine does remains what it does around them.      *)
THEOREM EngineImplemented == AppSpec => Engine!Spec
<1>1. AppInit => Engine!Init
  BY DEF AppInit
<1>2. [AppNext]_appVars => [Engine!Next]_(Engine!vars)
  <2> SUFFICES ASSUME [AppNext]_appVars PROVE [Engine!Next]_(Engine!vars)
    OBVIOUS
  <2>1. ASSUME UNCHANGED engineVars PROVE UNCHANGED Engine!vars
    BY <2>1 DEF engineVars, Engine!vars, Engine!rowVars, Engine!localVars, Engine!clientVars,
       Engine!boundVars
  <2>2. ASSUME \/ \E t \in Threads, kind \in {"start", "stop"}, r \in Repos : UserCalls(t, kind, r)
               \/ \E s \in Workers : ScanCallsStart(s) \/ ScanCallsStop(s)
               \/ \E t \in Threads : InsideStep(t) \/ \E p \in Procs : Launches(t, p)
               \/ \E p \in Procs : ApplicationExits(p)
               \/ HookStep \/ UNCHANGED appVars
        PROVE  UNCHANGED engineVars
    BY <2>2 DEF UserCalls, ScanCallsStart, ScanCallsStop, InsideStep, Launches,
       ApplicationExits, HookStep, appVars
  <2>3. ASSUME NEW s \in Workers,
               \/ ScanStarted(s) \/ ScanStartFails(s) \/ ScanStartRefused(s)
               \/ ScanProbes(s) \/ ScanStopped(s)
        PROVE  Engine!Next
    BY <2>3 DEF ScanStarted, ScanStartFails, ScanStartRefused, ScanProbes, ScanStopped,
       Engine!RuntimeStep, Engine!WorkerStep, Engine!Next
  <2>4. CASE EngineStep
    BY <2>4 DEF EngineStep, Engine!WorkerStep, Engine!Next
  <2>5. CASE HookBegins \/ Exits \/ Killed
    BY <2>5 DEF HookBegins, Exits, Killed, Engine!Next
  <2> QED BY <2>1, <2>2, <2>3, <2>4, <2>5 DEF AppNext
<1> QED BY <1>1, <1>2, PTL DEF AppSpec, Engine!Spec

(* "Automatic cleanup of target processes started for a scan", the finally  *)
(* clause (scan_engine.py, 329-330): with users and other scans starting    *)
(* and stopping the same application step by step meanwhile.                *)
THEOREM NothingOutlivesItsScan == AppSpec => []NoProcessLeftBehind
<1>1. AppInd => NoProcessLeftBehind
  <2> SUFFICES ASSUME AppInd, NEW s \in Workers, NEW p \in launches[s] \cap Undisturbed
               PROVE  s \in Engine!Executing
    BY DEF NoProcessLeftBehind
  <2>1. \/ pc[s] = "register"
        \/ started[s]
    BY DEF AppInd, AppInv, Owned
  <2>2. scanPc[s] \in Engine!ExecutingPCs
    BY <2>1 DEF AppInd, AppInv, Linked, Engine!ExecutingPCs, Engine!TryPCs
  <2> QED BY <2>2 DEF Engine!Executing
<1> QED BY <1>1, AppInductive, PTL

(* "Target repository processes started by YashSec are terminated during    *)
(* shutdown", of the applications that no overlapping operations launched:  *)
(* the hook reaches those it finds, the scans that still run after it stop  *)
(* their own.                                                               *)
THEOREM ShutdownIsOrderly == AppSpec => []OrderlyShutdown
<1>1. AppInd => OrderlyShutdown
  <2> SUFFICES ASSUME AppInd, Drained, NEW p \in Undisturbed PROVE FALSE
    BY DEF OrderlyShutdown
  <2>1. closing /\ pc[Main] = "idle" /\ Engine!Executing = {}
    BY DEF Drained, AppInd, AppInv, Closing
  <2>2. p \notin doomed
    BY <2>1 DEF AppInd, AppInv, IInv, DoomedReachable
  <2>3. PICK s \in Workers : p \in launches[s]
    BY <2>1, <2>2 DEF AppInd, AppInv, Closing
  <2>4. \/ pc[s] = "register"
        \/ started[s]
    BY <2>3 DEF AppInd, AppInv, Owned
  <2>5. scanPc[s] \in Engine!ExecutingPCs
    BY <2>4 DEF AppInd, AppInv, Linked, Engine!ExecutingPCs, Engine!TryPCs
  <2> QED BY <2>1, <2>5 DEF Engine!Executing
<1> QED BY <1>1, AppInductive, PTL
=============================================================================
