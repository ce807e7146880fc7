------------------------------- MODULE Projects -------------------------------
(***************************************************************************)
(* Importing projects: clone_repository and extract_zip_repository in      *)
(* app/core/repo_service.py, and the endpoints of app/main.py that call    *)
(* them and insert the rows.                                               *)
(*                                                                         *)
(* An import chooses a directory that does not exist, has it filled, and   *)
(* then makes a row and, in another transaction, a membership of the user. *)
(* Other imports run between any two of these steps.  A clone runs in a    *)
(* thread of its own; import_zip_repository is a coroutine that no longer  *)
(* awaits once its archive is uploaded, so one archive is unpacked at a    *)
(* time, while clones go on.  An archive whose only entry is a directory   *)
(* is flattened: that directory is moved aside, the emptied one removed,   *)
(* and the first moved back to its place.                                  *)
(*                                                                         *)
(* What a directory holds is the set of imports whose files are in it, and *)
(* whether they are all there.  Archives without files are left out, and   *)
(* so is a project that its user moves or edits after the import.  An      *)
(* archive is unpacked in one step: a backend killed on the way leaves an  *)
(* empty directory here, or a full one.                                    *)
(***************************************************************************)
EXTENDS Integers, Sequences, FiniteSets

CONSTANTS
    Handlers,    \* threads and coroutines that serve imports
    Users,
    Names,       \* the names that projects are given, as slugs
    Dirs,        \* directories in REPOSITORY_DIR
    Candidates,  \* Candidates[n]: n, n-2, n-3, ... (bound: as many as there are)
    FlatOf,      \* FlatOf[d]: d with "-flat" appended
    Outside,     \* a project of the user's that stays where it is
    Null,
    MaxImports,  \* bound: imports
    MaxFaults    \* bound: timeouts and failed transactions, together

ASSUME DirsAssumption ==
    /\ Null \notin Users \cup Names \cup Dirs \cup {Outside, "local", "clone", "zip"}
    /\ \A files \in SUBSET [of : 1 .. MaxImports, whole : BOOLEAN] : Null # files
    /\ \A row \in [path : Dirs \cup {Outside}, by : Users] : Null # row
    /\ Outside \notin Dirs
    /\ Candidates \in [Names -> Seq(Dirs)]
    /\ FlatOf \in [Dirs -> Dirs \cup {Null}]   \* Null (bound): no archive is flattened there
    /\ \A d \in Dirs : FlatOf[d] # d
    /\ MaxImports \in Nat /\ MaxFaults \in Nat

VARIABLES
    dirs,       \* the directories, by what is in them
    projects,   \* the table `repositories`, by import
    members,    \* the table `project_memberships`
    job,        \* job[h]: the import that handler h serves
    imports,    \* how many were accepted
    shared,     \* history: directories a clone entered while an archive was there,
                \* and those flattened by way of one
    abandoned,  \* history: imports that a failure left half done
    faults

projectVars == <<dirs, projects, members, job, imports, shared, abandoned, faults>>

-----------------------------------------------------------------------------
Imports == 1 .. MaxImports
Part(i) == [of |-> i, whole |-> FALSE]
Whole(i) == [of |-> i, whole |-> TRUE]
Idle == [pc |-> "idle", kind |-> Null, user |-> Null, name |-> Null, nested |-> FALSE, import |-> 0, dir |-> Null]

Copies == [of : Imports, whole : BOOLEAN]
Kinds == {"local", "clone", "zip"}
Steps == {"idle", "choose", "start", "cloning", "extract", "move", "remove", "return", "insert", "grant"}
JobType == [pc : Steps, kind : Kinds \cup {Null}, user : Users \cup {Null}, name : Names \cup {Null},
            nested : BOOLEAN, import : Imports \cup {0}, dir : Dirs \cup {Outside, Null}]

(* The types of directories, rows and requests.                            *)
ProjectsTypeOK ==
    /\ dirs \in [Dirs -> (SUBSET Copies) \cup {Null}]
    /\ projects \in [Imports -> [path : Dirs \cup {Outside}, by : Users] \cup {Null}]
    /\ job \in [Handlers -> JobType]
    /\ imports \in 0 .. MaxImports
    /\ shared \subseteq Dirs /\ abandoned \subseteq Imports
    /\ faults \in 0 .. MaxFaults

ProjectsInit ==
    /\ dirs = [d \in Dirs |-> Null]
    /\ projects = [i \in Imports |-> Null]
    /\ members = {}
    /\ job = [h \in Handlers |-> Idle]
    /\ imports = 0
    /\ shared = {} /\ abandoned = {}
    /\ faults = 0

At(h, kind, step) == job[h].kind = kind /\ job[h].pc = step

Goto(h, step) == job' = [job EXCEPT ![h].pc = step]

(* The request is answered, with the project or with an error.             *)
Leave(h) == job' = [job EXCEPT ![h] = Idle]

Fault == faults < MaxFaults /\ faults' = faults + 1

Becomes(d, files) == dirs' = [dirs EXCEPT ![d] = files]

(* shutil.rmtree(..., ignore_errors=True)                                  *)
Removed(d) == Becomes(d, Null)

Absent(d) == dirs[d] = Null
Empty(d) == dirs[d] = {}
Files(d) == IF Absent(d) THEN {} ELSE dirs[d]

-----------------------------------------------------------------------------
(* POST /api/repositories and .../import-zip.                              *)
Accept(h, u, kind, n, nested) ==
    /\ job[h].pc = "idle" /\ imports < MaxImports
    /\ nested => kind = "zip"
    /\ imports' = imports + 1
    /\ job' = [job EXCEPT ![h] =
                 [pc |-> IF kind = "local" THEN "insert" ELSE "choose", kind |-> kind, user |-> u, name |-> n,
                  nested |-> nested, import |-> imports + 1, dir |-> IF kind = "local" THEN Outside ELSE Null]]
    /\ UNCHANGED <<dirs, projects, members, shared, abandoned, faults>>

Unpacking(h) == job[h].kind = "zip" /\ job[h].pc # "choose"

(* The first candidate that does not exist.                                *)
Available(n, k) ==
    /\ k \in DOMAIN Candidates[n] /\ Absent(Candidates[n][k])
    /\ \A j \in 1 .. k - 1 : ~Absent(Candidates[n][j])

Choose(h) ==
    /\ job[h].pc = "choose"
    /\ job[h].kind = "zip" => \A g \in Handlers : ~Unpacking(g)
    /\ \E k \in DOMAIN Candidates[job[h].name] :
         /\ Available(job[h].name, k)
         /\ job' = [job EXCEPT ![h].dir = Candidates[job[h].name][k], ![h].pc = "start"]
    /\ UNCHANGED <<dirs, projects, members, imports, shared, abandoned, faults>>

-----------------------------------------------------------------------------
(* git clone (external): it takes a directory that does not exist or is    *)
(* empty, refuses another one, and when it fails removes what it made -    *)
(* all of the directory, but for the directory itself if it was there.     *)

(* An archive is being unpacked to d, or flattened there.                  *)
UnpackedTo(d) ==
    \E h \in Handlers : job[h].kind = "zip" /\ job[h].pc \in {"extract", "remove", "return"} /\ job[h].dir = d

CloneStarts(h) ==
    /\ At(h, "clone", "start")
    /\ LET d == job[h].dir IN
         /\ Absent(d) \/ Empty(d)
         /\ Becomes(d, {Part(job[h].import)})
         /\ shared' = IF UnpackedTo(d) THEN shared \cup {d} ELSE shared
    /\ Goto(h, "cloning")
    /\ UNCHANGED <<projects, members, imports, abandoned, faults>>

CloneRefused(h) ==
    /\ At(h, "clone", "start") /\ ~Absent(job[h].dir) /\ ~Empty(job[h].dir)
    /\ Leave(h)
    /\ UNCHANGED <<dirs, projects, members, imports, shared, abandoned, faults>>

Cloned(h) ==
    /\ At(h, "clone", "cloning")
    /\ LET d == job[h].dir
           i == job[h].import
       IN  Part(i) \in Files(d) /\ Becomes(d, (dirs[d] \ {Part(i)}) \cup {Whole(i)})
    /\ Goto(h, "insert")
    /\ UNCHANGED <<projects, members, imports, shared, abandoned, faults>>

CloneFails(h) ==
    /\ At(h, "clone", "cloning")
    /\ \E left \in IF job[h].dir \in shared THEN {Null, {}} ELSE {Null} : Becomes(job[h].dir, left)
    /\ Leave(h)
    /\ UNCHANGED <<projects, members, imports, shared, abandoned, faults>>

(* After 600 seconds git is killed and has no time to clean up.            *)
CloneTimesOut(h) ==
    /\ At(h, "clone", "cloning") /\ Fault
    /\ abandoned' = abandoned \cup {job[h].import}
    /\ Leave(h)
    /\ UNCHANGED <<dirs, projects, members, imports, shared>>

-----------------------------------------------------------------------------
(* extract_zip_repository.  destination.mkdir comes before the try block:  *)
(* that it fails harms nobody.                                             *)
MakeDir_ExistOk(h) ==
    /\ At(h, "zip", "start")
    /\ IF Absent(job[h].dir) THEN Becomes(job[h].dir, {}) ELSE UNCHANGED dirs
    /\ Goto(h, "extract")
    /\ UNCHANGED <<projects, members, imports, shared, abandoned, faults>>

MakeDir(h) ==
    /\ At(h, "zip", "start")
    /\ IF Absent(job[h].dir)
       THEN Becomes(job[h].dir, {}) /\ Goto(h, "extract")
       ELSE Leave(h) /\ UNCHANGED dirs
    /\ UNCHANGED <<projects, members, imports, shared, abandoned, faults>>

(* The archive is validated and extracted; its entries are counted with    *)
(* whatever else the directory holds.                                      *)
Extract(h) ==
    /\ At(h, "zip", "extract")
    /\ LET d == job[h].dir
           own == {Whole(job[h].import)}
       IN  /\ Becomes(d, Files(d) \cup own)
           /\ Goto(h, IF job[h].nested /\ FlatOf[d] # Null /\ Files(d) \subseteq own THEN "move" ELSE "insert")
    /\ UNCHANGED <<projects, members, imports, shared, abandoned, faults>>

(* An archive that is refused, or is not one.                              *)
ExtractFails(h) ==
    /\ At(h, "zip", "extract")
    /\ Removed(job[h].dir)
    /\ Leave(h)
    /\ UNCHANGED <<projects, members, imports, shared, abandoned, faults>>

(* nested.rename(flattened): a rename replaces an empty directory on POSIX *)
(* and fails on Windows.                                                   *)
MoveAside(h) ==
    /\ At(h, "zip", "move")
    /\ LET d == job[h].dir
           f == FlatOf[d]
       IN  \/ /\ Absent(f) \/ Empty(f)
              /\ Whole(job[h].import) \in Files(d)
              /\ dirs' = [dirs EXCEPT ![f] = {Whole(job[h].import)}, ![d] = @ \ {Whole(job[h].import)}]
              /\ Goto(h, "remove")
           \/ /\ ~Absent(f) \/ Whole(job[h].import) \notin Files(d)
              /\ Removed(d)
              /\ Leave(h)
    /\ UNCHANGED <<projects, members, imports, shared, abandoned, faults>>

RemoveEmptied(h) ==
    /\ At(h, "zip", "remove")
    /\ Removed(job[h].dir)
    /\ Goto(h, "return")
    /\ UNCHANGED <<projects, members, imports, shared, abandoned, faults>>

(* flattened.rename(destination), and the except block if that fails.      *)
MoveBack_Again(h) ==
    /\ At(h, "zip", "return")
    /\ dirs' = [dirs EXCEPT ![job[h].dir] = {Whole(job[h].import)}]
    /\ Goto(h, "insert")
    /\ UNCHANGED <<projects, members, imports, shared, abandoned, faults>>

MoveBack(h) ==
    /\ At(h, "zip", "return")
    /\ LET d == job[h].dir
           f == FlatOf[d]
       IN  \/ /\ Absent(d) \/ Empty(d)
              /\ ~Absent(f)
              /\ dirs' = [dirs EXCEPT ![d] = dirs[f], ![f] = Null]
              /\ shared' = IF f \in shared THEN shared \cup {d} ELSE shared
              /\ Goto(h, "insert")
              /\ UNCHANGED abandoned
           \/ /\ ~Absent(d) \/ Absent(f)
              /\ Removed(d)
              /\ abandoned' = abandoned \cup {job[h].import}
              /\ Leave(h)
              /\ UNCHANGED shared
    /\ UNCHANGED <<projects, members, imports, faults>>

-----------------------------------------------------------------------------
(* The row is one transaction, _grant_project_creator is another.  No      *)
(* handler catches what a failure raises: the directory stays.             *)
Insert(h) ==
    /\ job[h].pc = "insert"
    /\ projects' = [projects EXCEPT ![job[h].import] = [path |-> job[h].dir, by |-> job[h].user]]
    /\ Goto(h, "grant")
    /\ UNCHANGED <<dirs, members, imports, shared, abandoned, faults>>

Grant(h) ==
    /\ job[h].pc = "grant"
    /\ members' = members \cup {<<job[h].user, job[h].import>>}
    /\ Leave(h)
    /\ UNCHANGED <<dirs, projects, imports, shared, abandoned, faults>>

TransactionFails(h) ==
    /\ job[h].pc \in {"insert", "grant"} /\ Fault
    /\ abandoned' = abandoned \cup {job[h].import}
    /\ Leave(h)
    /\ UNCHANGED <<dirs, projects, members, imports, shared>>

ImportStep(h) ==
    \/ Choose(h)
    \/ CloneStarts(h) \/ CloneRefused(h) \/ Cloned(h) \/ CloneFails(h) \/ CloneTimesOut(h)
    \/ MakeDir(h) \/ Extract(h) \/ ExtractFails(h) \/ MoveAside(h) \/ RemoveEmptied(h) \/ MoveBack(h)
    \/ Insert(h) \/ Grant(h) \/ TransactionFails(h)

Running(i) == \E h \in Handlers : job[h].pc # "idle" /\ job[h].import = i

(* The backend ends, with its threads and the program a thread waits for.  *)
ImportsEnd ==
    /\ job' = [h \in Handlers |-> Idle]
    /\ abandoned' = abandoned \cup {i \in Imports : Running(i)}
    /\ UNCHANGED <<dirs, projects, imports, shared, faults>>

-----------------------------------------------------------------------------
Managed(i) == projects[i] # Null /\ projects[i].path \in Dirs

(* The files of a project that has a row are in its directory, all of them *)
(* and nothing else, whatever was imported next to it under the same name: *)
(* an import that loses the choice of a directory, is refused, fails or is *)
(* cut off never touches another one's.  The one exception is a directory  *)
(* that a clone entered while an archive was unpacked or flattened there,  *)
(* and one that was later flattened by way of such a directory.            *)
FilesIntact ==
    \A i \in Imports : Managed(i) /\ projects[i].path \notin shared => dirs[projects[i].path] = {Whole(i)}

(* Nothing is left half done but by a failure: the files of an import are  *)
(* in the directory of its project, or it is still running, and the user   *)
(* who made a project is its member.                                       *)
NothingHalfDone ==
    /\ \A d \in Dirs \ shared : \A f \in Files(d) :
          \/ Managed(f.of) /\ projects[f.of].path = d
          \/ Running(f.of)
          \/ f.of \in abandoned
    /\ \A i \in Imports :
          projects[i] # Null => <<projects[i].by, i>> \in members \/ Running(i) \/ i \in abandoned
=============================================================================
