--------------------------- MODULE WorkspaceProofs ---------------------------
(***************************************************************************)
(* TLAPS proofs about Projects and Workspace, for every set of handlers,   *)
(* users, names, directories, visitors and addresses, and every bound.     *)
(***************************************************************************)
EXTENDS Workspace, FiniteSetTheorems, TLAPS

-----------------------------------------------------------------------------
(* Imports.  What a request that runs is about: who made it and where its  *)
(* files go, its row once it has one, and nobody else's number.            *)
Placed(j) ==
    /\ j.pc # "idle" => j.kind \in Kinds /\ j.user \in Users /\ j.name \in Names /\ j.import \in 1 .. imports
    /\ j.pc \in {"start", "cloning", "extract", "move", "remove", "return"} => j.dir \in Dirs
    /\ j.pc \in {"insert", "grant"} => j.dir \in Dirs \cup {Outside}
    /\ j.pc = "cloning" => j.kind = "clone"
    /\ j.pc \in {"extract", "move", "remove", "return"} => j.kind = "zip"
    /\ j.pc \in {"move", "remove", "return"} => FlatOf[j.dir] \in Dirs

RowOf(j) ==
    /\ j.pc \notin {"idle", "grant"} => projects[j.import] = Null
    /\ j.pc = "grant" => projects[j.import] = [path |-> j.dir, by |-> j.user]

Jobs ==
    /\ \A h \in Handlers : Placed(job[h]) /\ RowOf(job[h])
    /\ \A g, h \in Handlers :
          g # h /\ job[g].pc # "idle" /\ job[h].pc # "idle" => job[g].import # job[h].import
    /\ \A g, h \in Handlers : job[g].pc # "idle" /\ job[h].pc # "idle" /\ Unpacking(g) /\ Unpacking(h) => g = h
    /\ \A i \in Imports : i > imports => projects[i] = Null
    /\ abandoned \subseteq 1 .. imports

(* What a request that runs holds: its directory, in the state it left it, *)
(* unless a clone entered it.                                              *)
Claim(h) ==
    LET d == job[h].dir
        i == job[h].import
    IN  /\ d \in Dirs \ shared =>
             /\ job[h].pc = "cloning" => dirs[d] = {Part(i)}
             /\ job[h].pc \in {"extract", "remove"} => dirs[d] = {}
             /\ job[h].pc \in {"move", "insert"} => dirs[d] = {Whole(i)}
             /\ job[h].pc = "return" => dirs[d] = Null
        /\ job[h].pc \in {"remove", "return"} /\ FlatOf[d] \notin shared => dirs[FlatOf[d]] = {Whole(i)}

(* Whose a file is: a project's, an abandoned import's, or a request's     *)
(* that put it there.                                                      *)
PutThere(h, d) ==
    \/ job[h].pc \in {"cloning", "move", "insert", "grant"} /\ job[h].dir = d
    \/ job[h].pc \in {"remove", "return"} /\ FlatOf[job[h].dir] = d

Accounted(d, f) ==
    \/ Managed(f.of) /\ projects[f.of].path = d
    \/ f.of \in abandoned
    \/ \E h \in Handlers : job[h].import = f.of /\ PutThere(h, d)

Kept ==
    /\ \A h \in Handlers : Claim(h)
    /\ FilesIntact
    /\ \A d \in Dirs \ shared : \A f \in Files(d) : Accounted(d, f)

Granted ==
    \A i \in Imports : projects[i] # Null => <<projects[i].by, i>> \in members \/ Running(i) \/ i \in abandoned

PInv == ProjectsTypeOK /\ Jobs /\ Kept

-----------------------------------------------------------------------------
LEMMA Bounds ==
  /\ MaxImports \in Nat /\ MaxFaults \in Nat
  /\ FlatOf \in [Dirs -> Dirs \cup {Null}] /\ \A d \in Dirs : FlatOf[d] # d
  /\ Null \notin Users \cup Names \cup Dirs \cup {Outside, "local", "clone", "zip"} /\ Outside \notin Dirs
BY DirsAssumption

LEMMA Blank == Idle \in JobType
BY DEF Idle, JobType, Steps, Imports

LEMMA FilesDiffer ==
  /\ \A i, j : Part(i) # Whole(j)
  /\ \A i, j : Part(i) = Part(j) => i = j
  /\ \A i, j : Whole(i) = Whole(j) => i = j
  /\ \A i \in Imports : Part(i) \in Copies /\ Whole(i) \in Copies /\ Part(i).of = i /\ Whole(i).of = i
BY DEF Part, Whole, Copies

LEMMA HoldingsDiffer ==
  /\ \A i, j : {Part(i)} # {Whole(j)}
  /\ \A i, j : {Part(i)} = {Part(j)} => i = j
  /\ \A i, j : {Whole(i)} = {Whole(j)} => i = j
  /\ \A i \in Imports : {Part(i)} # Null /\ {Whole(i)} # Null
<1>1. \A x, y : {x} = {y} => x = y
  OBVIOUS
<1>2. \A i \in Imports : {Part(i)} \in SUBSET Copies /\ {Whole(i)} \in SUBSET Copies
  BY FilesDiffer
<1>3. \A files \in SUBSET Copies : files # Null
  BY DirsAssumption DEF Copies, Imports
<1> QED BY <1>1, <1>2, <1>3, FilesDiffer

LEMMA FileOfImport ==
  ASSUME ProjectsTypeOK, NEW d \in Dirs
  PROVE  Files(d) \subseteq Copies /\ \A f \in Files(d) : f.of \in Imports
<1>1. dirs[d] \in SUBSET Copies \/ Absent(d)
  BY DEF ProjectsTypeOK, Absent
<1>2. Files(d) \subseteq Copies
  BY <1>1 DEF Files
<1> QED BY <1>2 DEF Copies

(* The two ways in which a request goes on.                                *)
LEMMA GoneOn ==
  ASSUME ProjectsTypeOK, NEW h \in Handlers, NEW step \in Steps, Goto(h, step)
  PROVE  /\ job' \in [Handlers -> JobType]
         /\ \A g \in Handlers \ {h} : job'[g] = job[g]
         /\ job'[h].pc = step
         /\ job'[h].kind = job[h].kind /\ job'[h].user = job[h].user /\ job'[h].name = job[h].name
         /\ job'[h].nested = job[h].nested /\ job'[h].import = job[h].import /\ job'[h].dir = job[h].dir
<1>1. job[h] \in JobType
  BY DEF ProjectsTypeOK
<1>2. [job[h] EXCEPT !.pc = step] \in JobType
  BY <1>1 DEF JobType
<1> QED BY <1>1, <1>2 DEF ProjectsTypeOK, Goto, JobType

LEMMA LeftBehind ==
  ASSUME ProjectsTypeOK, NEW h \in Handlers, Leave(h)
  PROVE  /\ job' \in [Handlers -> JobType]
         /\ \A g \in Handlers \ {h} : job'[g] = job[g]
         /\ job'[h] = Idle /\ job'[h].pc = "idle"
BY Blank DEF ProjectsTypeOK, Leave, Idle

(* Jobs is kept by a request that ends or goes on to a step of its kind.   *)
LEMMA LeavingKeepsJobs ==
  ASSUME ProjectsTypeOK, Jobs, NEW h \in Handlers, Leave(h), projects' = projects, imports' = imports,
         abandoned' \subseteq 1 .. imports
  PROVE  Jobs'
<1> USE LeftBehind
<1>1. \A g \in Handlers : job'[g] = job[g] \/ job'[g].pc = "idle"
  OBVIOUS
<1>2. \A g \in Handlers : Placed(job[g])' /\ RowOf(job[g])'
  BY <1>1 DEF Jobs, Placed, RowOf
<1>3. \A g \in Handlers : job'[g].pc # "idle" => job'[g] = job[g]
  BY <1>1
<1> QED BY <1>2, <1>3 DEF Jobs, Unpacking

LEMMA GoingOnKeepsJobs ==
  ASSUME ProjectsTypeOK, Jobs, NEW h \in Handlers, NEW step \in Steps, Goto(h, step),
         imports' = imports, abandoned' = abandoned, job[h].pc \notin {"idle", "choose"}, step \notin {"idle", "choose"},
         Placed(job[h])', RowOf(job[h])',
         \A i \in Imports \ {job[h].import} : projects'[i] = projects[i]
  PROVE  Jobs'
<1> USE GoneOn
<1>0. \A g \in Handlers : job[g] \in JobType
  BY DEF ProjectsTypeOK
<1>1. \A g \in Handlers \ {h} : job[g].pc # "idle" => job[g].import \in Imports \ {job[h].import}
  BY Bounds DEF Jobs, Placed, Imports, ProjectsTypeOK
<1>2. \A g \in Handlers \ {h} : Placed(job[g])' /\ RowOf(job[g])'
  BY <1>1 DEF Jobs, Placed, RowOf
<1>3. Placed(job[h])' /\ RowOf(job[h])'
  BY DEF Placed
<1>4. \A i \in Imports : i > imports => projects'[i] = projects[i]
  BY DEF Jobs, Placed, ProjectsTypeOK, Imports
<1>5. \A g, k \in Handlers :
        g # k /\ job'[g].pc # "idle" /\ job'[k].pc # "idle" => job'[g].import # job'[k].import
  BY DEF Jobs
<1>6. \A g, k \in Handlers :
        job'[g].pc # "idle" /\ job'[k].pc # "idle" /\ Unpacking(g)' /\ Unpacking(k)' => g = k
  BY DEF Jobs, Unpacking
<1> QED BY <1>2, <1>3, <1>4, <1>5, <1>6 DEF Jobs

(* A directory that a request holds is nobody else's.                      *)
OthersOn(d, h) ==
    \/ \E g \in Handlers \ {h} :
          \/ job[g].pc \in {"cloning", "extract", "move", "remove", "return", "insert"} /\ job[g].dir = d
          \/ job[g].pc \in {"remove", "return"} /\ FlatOf[job[g].dir] = d
    \/ \E i \in Imports : Managed(i) /\ projects[i].path = d

Holding(h, d) ==
    \/ job[h].pc \in {"cloning", "extract", "move", "remove", "return", "insert"} /\ job[h].dir = d
    \/ job[h].pc \in {"remove", "return"} /\ FlatOf[job[h].dir] = d

LEMMA Alone ==
  ASSUME PInv, NEW h \in Handlers, NEW d \in Dirs \ shared, Holding(h, d)
  PROVE  ~OthersOn(d, h)
<1> DEFINE i == job[h].import
<1>h. Claim(h) /\ Placed(job[h]) /\ RowOf(job[h])
  BY DEF PInv, Kept, Jobs
<1>0. dirs[d] \in {Null, {}, {Part(i)}, {Whole(i)}} /\ i \in Imports /\ projects[i] = Null
  BY <1>h, Bounds DEF Claim, Placed, RowOf, Holding, PInv, ProjectsTypeOK, Imports
<1>1. dirs[d] \in {Null, {}} => job[h].pc \in {"extract", "remove", "return"} /\ job[h].kind = "zip"
  <2>1. {Part(i)} # Null /\ {Whole(i)} # Null
    BY <1>0, HoldingsDiffer
  <2> QED BY <1>h, <2>1 DEF Claim, Holding, Placed
<1>2. ASSUME NEW g \in Handlers \ {h}, Holding(g, d) PROVE FALSE
  <2> DEFINE j == job[g].import
  <2>1. Claim(g) /\ Placed(job[g]) /\ RowOf(job[g])
    BY DEF PInv, Kept, Jobs
  <2>2. dirs[d] \in {Null, {}, {Part(j)}, {Whole(j)}} /\ j \in Imports
    BY <1>2, <2>1, Bounds DEF Claim, Placed, RowOf, Holding, PInv, ProjectsTypeOK, Imports
  <2>3. dirs[d] \in {Null, {}} => job[g].pc \in {"extract", "remove", "return"} /\ job[g].kind = "zip"
    <3>2. {Part(j)} # Null /\ {Whole(j)} # Null
      BY <2>2, HoldingsDiffer
    <3> QED BY <1>2, <2>1, <3>2 DEF Claim, Holding, Placed
  <2>4. i # j
    BY <1>2 DEF PInv, Jobs, Holding
  <2>5. dirs[d] \in {Null, {}}
    <3>1. {Part(i)} # {Part(j)} /\ {Part(i)} # {Whole(j)} /\ {Whole(i)} # {Part(j)} /\ {Whole(i)} # {Whole(j)}
      BY <2>4, HoldingsDiffer
    <3> QED BY <1>0, <2>2, <3>1
  <2> QED BY <1>1, <2>3, <2>5 DEF PInv, Jobs, Unpacking
<1>3. ASSUME NEW j \in Imports, Managed(j), projects[j].path = d PROVE FALSE
  <2>1. dirs[d] = {Whole(j)} /\ i # j
    BY <1>0, <1>3 DEF PInv, Kept, FilesIntact, Managed
  <2>2. {Whole(j)} # {Part(i)} /\ {Whole(j)} # {Whole(i)} /\ {Whole(j)} # Null
    BY <1>0, <2>1, HoldingsDiffer
  <2> QED BY <1>0, <2>1, <2>2
<1> QED BY <1>2, <1>3 DEF OthersOn, Holding

(* What a step of one request has to show: it changes a directory only if  *)
(* no other holds it, and the files it leaves are somebody's.              *)
LEMMA KeptByStep ==
  ASSUME PInv, NEW h \in Handlers,
         \A g \in Handlers \ {h} : job'[g] = job[g],
         \A i \in Imports : \/ projects'[i] = projects[i]
                            \/ /\ i = job[h].import /\ projects[i] = Null
                               /\ projects'[i].path \in Dirs \ shared' => dirs'[projects'[i].path] = {Whole(i)},
         shared \subseteq shared', abandoned \subseteq abandoned',
         \A d \in Dirs \ shared' : dirs'[d] = dirs[d] \/ ~OthersOn(d, h),
         Claim(h)',
         \A d \in Dirs \ shared' : \A f \in Files(d)' :
            \/ f \in Files(d) /\ ~(job[h].import = f.of /\ PutThere(h, d))
            \/ Accounted(d, f)'
  PROVE  Kept'
<1>1. ASSUME NEW g \in Handlers \ {h} PROVE Claim(g)'
  <2>1. Claim(g) /\ Placed(job[g]) /\ job'[g] = job[g]
    BY DEF PInv, Kept, Jobs
  <2>2. \A d \in Dirs \ shared' : Holding(g, d) => dirs'[d] = dirs[d]
    BY DEF OthersOn, Holding
  <2> QED BY <2>1, <2>2 DEF Claim, Holding, Placed
<1>2. FilesIntact'
  <2> SUFFICES ASSUME NEW i \in Imports, Managed(i)', projects'[i].path \notin shared'
               PROVE  dirs'[projects'[i].path] = {Whole(i)}
    BY DEF FilesIntact
  <2>1. CASE projects'[i] = projects[i]
    <3>1. Managed(i) /\ projects[i].path \in Dirs \ shared' /\ dirs[projects[i].path] = {Whole(i)}
      BY <2>1 DEF PInv, Kept, FilesIntact, Managed
    <3>2. OthersOn(projects[i].path, h)
      BY <3>1 DEF OthersOn
    <3> QED BY <2>1, <3>1, <3>2
  <2>2. CASE projects'[i] # projects[i]
    BY <2>2 DEF Managed
  <2> QED BY <2>1, <2>2
<1>3. ASSUME NEW d \in Dirs \ shared', NEW f \in Files(d)' PROVE Accounted(d, f)'
  <2>1. CASE f \in Files(d) /\ ~(job[h].import = f.of /\ PutThere(h, d))
    <3>1. Accounted(d, f)
      BY <2>1 DEF PInv, Kept
    <3>2. f.of \in Imports
      BY <2>1, FileOfImport DEF PInv
    <3>3. ASSUME Managed(f.of), projects[f.of].path = d PROVE Accounted(d, f)'
      <4>1. projects'[f.of] = projects[f.of]
        BY <3>2, <3>3 DEF Managed
      <4> QED BY <3>3, <4>1 DEF Accounted, Managed
    <3>4. ASSUME NEW g \in Handlers, job[g].import = f.of, PutThere(g, d) PROVE Accounted(d, f)'
      <4>1. g # h /\ job'[g] = job[g]
        BY <2>1, <3>4
      <4> QED BY <3>4, <4>1 DEF Accounted, PutThere
    <3> QED BY <3>1, <3>3, <3>4 DEF Accounted
  <2> QED BY <1>3, <2>1
<1>4. \A g \in Handlers : Claim(g)'
  BY <1>1
<1> QED BY <1>2, <1>3, <1>4 DEF Kept

(* Steps that leave the directories alone. *)
LEMMA UntouchedKept ==
  ASSUME PInv, NEW h \in Handlers, \A g \in Handlers \ {h} : job'[g] = job[g],
         UNCHANGED <<dirs, projects, shared>>, abandoned \subseteq abandoned',
         Claim(h)',
         \A d \in Dirs \ shared : PutThere(h, d) =>
            \/ PutThere(h, d)' /\ job'[h].import = job[h].import
            \/ job[h].import \in abandoned'
            \/ Managed(job[h].import) /\ projects[job[h].import].path = d
  PROVE  Kept'
<1>1. ASSUME NEW d \in Dirs \ shared', NEW f \in Files(d)'
      PROVE  \/ f \in Files(d) /\ ~(job[h].import = f.of /\ PutThere(h, d))
             \/ Accounted(d, f)'
  <2>1. f \in Files(d)
    BY DEF Files, Absent
  <2>2. ASSUME job[h].import = f.of, PutThere(h, d) PROVE Accounted(d, f)'
    <3>1. CASE PutThere(h, d)' /\ job'[h].import = job[h].import
      BY <2>2, <3>1 DEF Accounted
    <3>2. CASE job[h].import \in abandoned'
      BY <2>2, <3>2 DEF Accounted
    <3>3. CASE Managed(job[h].import) /\ projects[job[h].import].path = d
      BY <2>2, <3>3 DEF Accounted, Managed
    <3> QED BY <2>2, <3>1, <3>2, <3>3
  <2> QED BY <2>1, <2>2
<1> HIDE DEF Accounted, PutThere, Claim
<1> QED BY <1>1, KeptByStep

LEMMA ChooseKeeps ==
  ASSUME PInv, NEW h \in Handlers, Choose(h)
  PROVE  PInv'
<1>1. PICK k \in DOMAIN Candidates[job[h].name] :
        job' = [job EXCEPT ![h].dir = Candidates[job[h].name][k], ![h].pc = "start"]
  BY DEF Choose
<1>2. job[h] \in JobType /\ job[h].pc = "choose" /\ Placed(job[h]) /\ RowOf(job[h])
  BY DEF PInv, ProjectsTypeOK, Choose, Jobs
<1>3. Candidates[job[h].name][k] \in Dirs
  <2>1. Candidates[job[h].name] \in Seq(Dirs)
    BY <1>2, DirsAssumption DEF Placed
  <2> QED BY <2>1
<1> DEFINE d == Candidates[job[h].name][k]
           new == [job[h] EXCEPT !.dir = d, !.pc = "start"]
<1>4. new \in JobType /\ job' = [job EXCEPT ![h] = new]
  BY <1>1, <1>2, <1>3 DEF JobType, Steps, PInv, ProjectsTypeOK
<1>5. /\ job' \in [Handlers -> JobType] /\ job'[h] = new
      /\ \A g \in Handlers \ {h} : job'[g] = job[g]
  BY <1>4 DEF PInv, ProjectsTypeOK
<1>6. /\ new.pc = "start" /\ new.kind = job[h].kind /\ new.user = job[h].user /\ new.name = job[h].name
      /\ new.import = job[h].import /\ new.dir = d
  BY <1>2 DEF JobType
<1>7. UNCHANGED <<dirs, projects, imports, shared, abandoned, faults>>
  BY DEF Choose
<1> HIDE DEF new, d
<1>8. ProjectsTypeOK'
  BY <1>5, <1>7 DEF PInv, ProjectsTypeOK
<1>9. Jobs'
  <2>1. \A g \in Handlers : Placed(job[g])' /\ RowOf(job[g])'
    BY <1>2, <1>3, <1>5, <1>6, <1>7 DEF PInv, Jobs, Placed, RowOf, d
  <2>2. \A g \in Handlers : job'[g].pc # "idle" => job[g].pc # "idle" /\ job'[g].import = job[g].import
    BY <1>2, <1>5, <1>6
  <2>3. \A g \in Handlers \ {h} : Unpacking(g)' <=> Unpacking(g)
    BY <1>5 DEF Unpacking
  <2>4. Unpacking(h)' => \A g \in Handlers : ~Unpacking(g)
    BY <1>5, <1>6 DEF Unpacking, Choose
  <2> QED BY <1>5, <1>7, <2>1, <2>2, <2>3, <2>4 DEF PInv, Jobs
<1>10. Kept'
  <2>1. Claim(h)'
    BY <1>5, <1>6 DEF Claim
  <2>2. \A e \in Dirs : ~PutThere(h, e)
    BY <1>2 DEF PutThere
  <2> HIDE DEF Claim, PutThere
  <2> QED BY <1>5, <1>7, <2>1, <2>2, UntouchedKept
<1> QED BY <1>8, <1>9, <1>10 DEF PInv

(* What ends a request without a trace: it has put nothing anywhere, or    *)
(* its directory is removed.                                               *)
LEMMA LeavingKeeps ==
  ASSUME PInv, NEW h \in Handlers, NEW left \in {Null, {}}, Leave(h),
         UNCHANGED <<projects, imports, shared>>, faults' \in 0 .. MaxFaults,
         abandoned' \in {abandoned, abandoned \cup {job[h].import}}, job[h].pc # "idle",
         \/ /\ dirs' = dirs
            /\ \/ abandoned' = abandoned \cup {job[h].import}
               \/ \A d \in Dirs : ~PutThere(h, d)
         \/ /\ job[h].dir \in Dirs /\ dirs' = [dirs EXCEPT ![job[h].dir] = left]
            /\ Holding(h, job[h].dir)
            /\ \/ abandoned' = abandoned \cup {job[h].import}
               \/ \A d \in Dirs : PutThere(h, d) => d = job[h].dir
  PROVE  PInv'
<1>1. Placed(job[h]) /\ abandoned \subseteq abandoned' /\ abandoned' \subseteq 1 .. imports
  BY DEF PInv, Jobs, Placed
<1>2. /\ job' \in [Handlers -> JobType] /\ job'[h].pc = "idle"
      /\ \A g \in Handlers \ {h} : job'[g] = job[g]
  BY LeftBehind DEF PInv
<1>3. ProjectsTypeOK'
  <2>1. dirs' \in [Dirs -> (SUBSET Copies) \cup {Null}]
    BY DEF PInv, ProjectsTypeOK
  <2>2. abandoned' \subseteq Imports
    BY <1>1, Bounds DEF PInv, ProjectsTypeOK, Imports
  <2> QED BY <1>2, <2>1, <2>2 DEF PInv, ProjectsTypeOK
<1>4. Jobs'
  BY <1>1, LeavingKeepsJobs DEF PInv
<1>5. Claim(h)'
  BY <1>2 DEF Claim
<1>6. \A d \in Dirs : dirs'[d] = dirs[d] \/ (dirs'[d] = left /\ Holding(h, d))
  BY DEF PInv, ProjectsTypeOK
<1>7. \A d \in Dirs \ shared' : dirs'[d] = dirs[d] \/ ~OthersOn(d, h)
  BY <1>6, Alone
<1>8. ASSUME NEW d \in Dirs \ shared', NEW f \in Files(d)'
      PROVE  \/ f \in Files(d) /\ ~(job[h].import = f.of /\ PutThere(h, d))
             \/ Accounted(d, f)'
  <2>1. dirs'[d] \notin {Null, {}} /\ dirs'[d] = dirs[d] /\ f \in Files(d)
    BY <1>6, <1>8 DEF Files, Absent
  <2>2. ASSUME job[h].import = f.of, PutThere(h, d) PROVE f.of \in abandoned'
    <3>1. job[h].dir \in Dirs /\ dirs' = [dirs EXCEPT ![job[h].dir] = left] => d # job[h].dir
      BY <2>1 DEF PInv, ProjectsTypeOK
    <3>2. abandoned' = abandoned \cup {job[h].import}
      <4> HIDE DEF PutThere, Holding
      <4> QED BY <2>2, <3>1
    <3> QED BY <2>2, <3>2
  <2> QED BY <2>1, <2>2 DEF Accounted
<1>9. Kept'
  <2> HIDE DEF Claim, PutThere, Accounted, OthersOn
  <2>1. \A i \in Imports : projects'[i] = projects[i]
    OBVIOUS
  <2>2. shared \subseteq shared'
    OBVIOUS
  <2> QED BY <1>1, <1>2, <1>5, <1>7, <1>8, <2>1, <2>2, KeptByStep
<1> QED BY <1>3, <1>4, <1>9 DEF PInv

LEMMA EndingSteps ==
  ASSUME PInv, NEW h \in Handlers,
         \/ CloneRefused(h) \/ CloneFails(h) \/ CloneTimesOut(h) \/ ExtractFails(h) \/ TransactionFails(h)
         \/ Leave(h) /\ (MakeDir(h) \/ MoveAside(h) \/ MoveBack(h)) /\ job'[h].pc = "idle"
  PROVE  PInv'
<1> DEFINE d == job[h].dir
<1>0. Placed(job[h]) /\ faults \in 0 .. MaxFaults
  BY DEF PInv, Jobs, ProjectsTypeOK
<1>1. CASE CloneRefused(h)
  <2>1. job[h].pc = "start" /\ \A e \in Dirs : ~PutThere(h, e)
    BY <1>1 DEF CloneRefused, At, PutThere
  <2> HIDE DEF PutThere, Holding
  <2> QED BY <1>0, <1>1, <2>1, LeavingKeeps DEF CloneRefused
<1>2. CASE CloneFails(h)
  <2>1. PICK left \in {Null, {}} : dirs' = [dirs EXCEPT ![d] = left]
    BY <1>2 DEF CloneFails, Becomes
  <2>2. job[h].pc = "cloning" /\ d \in Dirs /\ Holding(h, d) /\ \A e \in Dirs : PutThere(h, e) => e = d
    BY <1>0, <1>2 DEF CloneFails, At, PutThere, Holding, Placed
  <2> HIDE DEF PutThere, Holding
  <2> QED BY <1>0, <1>2, <2>1, <2>2, LeavingKeeps DEF CloneFails
<1>3. CASE CloneTimesOut(h) \/ TransactionFails(h)
  <2>1. /\ job[h].pc # "idle" /\ abandoned' = abandoned \cup {job[h].import} /\ faults' \in 0 .. MaxFaults
        /\ dirs' = dirs /\ Leave(h) /\ UNCHANGED <<projects, imports, shared>>
    BY <1>0, <1>3, Bounds DEF CloneTimesOut, TransactionFails, At, Fault
  <2> QED BY <2>1, LeavingKeeps
<1>4. CASE ExtractFails(h)
  <2>1. job[h].pc = "extract" /\ d \in Dirs /\ Holding(h, d) /\ \A e \in Dirs : ~PutThere(h, e)
    BY <1>0, <1>4 DEF ExtractFails, At, PutThere, Holding, Placed
  <2>2. dirs' = [dirs EXCEPT ![d] = Null]
    BY <1>4 DEF ExtractFails, Removed, Becomes
  <2> HIDE DEF PutThere, Holding
  <2> QED BY <1>0, <1>4, <2>1, <2>2, LeavingKeeps DEF ExtractFails
<1>5. CASE Leave(h) /\ MakeDir(h) /\ job'[h].pc = "idle"
  <2>1. job[h].pc = "start" /\ \A e \in Dirs : ~PutThere(h, e)
    BY <1>5 DEF MakeDir, At, PutThere
  <2>2. ~Goto(h, "extract")
    BY <1>5, GoneOn DEF PInv, Steps
  <2>3. dirs' = dirs
    BY <1>5, <2>2 DEF MakeDir
  <2> HIDE DEF PutThere, Holding
  <2> QED BY <1>0, <1>5, <2>1, <2>3, LeavingKeeps DEF MakeDir
<1>6. CASE Leave(h) /\ MoveAside(h) /\ job'[h].pc = "idle"
  <2>1. job[h].pc = "move" /\ d \in Dirs /\ Holding(h, d) /\ \A e \in Dirs : PutThere(h, e) => e = d
    BY <1>0, <1>6 DEF MoveAside, At, PutThere, Holding, Placed
  <2>2. ~Goto(h, "remove")
    BY <1>6, GoneOn DEF PInv, Steps
  <2>3. dirs' = [dirs EXCEPT ![d] = Null]
    BY <1>6, <2>2 DEF MoveAside, Removed, Becomes
  <2> HIDE DEF PutThere, Holding
  <2> QED BY <1>0, <1>6, <2>1, <2>3, LeavingKeeps DEF MoveAside
<1>7. CASE Leave(h) /\ MoveBack(h) /\ job'[h].pc = "idle"
  <2>1. job[h].pc = "return" /\ d \in Dirs /\ Holding(h, d)
    BY <1>0, <1>7 DEF MoveBack, At, Holding, Placed
  <2>2. ~Goto(h, "insert")
    BY <1>7, GoneOn DEF PInv, Steps
  <2>3. /\ dirs' = [dirs EXCEPT ![d] = Null] /\ abandoned' = abandoned \cup {job[h].import}
        /\ shared' = shared
    BY <1>7, <2>2 DEF MoveBack, Removed, Becomes
  <2> HIDE DEF PutThere, Holding
  <2> QED BY <1>0, <1>7, <2>1, <2>3, LeavingKeeps DEF MoveBack
<1> QED BY <1>1, <1>2, <1>3, <1>4, <1>5, <1>6, <1>7

(* A step after which the request goes on.                                 *)
LEMMA GoingOnKeeps ==
  ASSUME PInv, NEW h \in Handlers, NEW step \in Steps, Goto(h, step),
         imports' = imports, abandoned' = abandoned, faults' = faults,
         job[h].pc \notin {"idle", "choose"}, step \notin {"idle", "choose"},
         dirs' \in [Dirs -> (SUBSET Copies) \cup {Null}], shared \subseteq shared', shared' \subseteq Dirs,
         projects' \in [Imports -> [path : Dirs \cup {Outside}, by : Users] \cup {Null}],
         Placed(job[h])', RowOf(job[h])', Claim(h)',
         \A i \in Imports : \/ projects'[i] = projects[i]
                            \/ /\ i = job[h].import /\ projects[i] = Null
                               /\ projects'[i].path \in Dirs \ shared' => dirs'[projects'[i].path] = {Whole(i)},
         \A d \in Dirs \ shared' : dirs'[d] = dirs[d] \/ ~OthersOn(d, h),
         \A d \in Dirs \ shared' : \A f \in Files(d)' :
            \/ f \in Files(d) /\ ~(job[h].import = f.of /\ PutThere(h, d))
            \/ Accounted(d, f)'
  PROVE  PInv'
<1>1. job' \in [Handlers -> JobType] /\ \A g \in Handlers \ {h} : job'[g] = job[g]
  BY GoneOn DEF PInv
<1>2. ProjectsTypeOK'
  BY <1>1 DEF PInv, ProjectsTypeOK
<1> HIDE DEF Claim, PutThere, Accounted, OthersOn, Placed, RowOf
<1>3. Jobs'
  BY GoingOnKeepsJobs DEF PInv
<1>4. Kept'
  BY <1>1, KeptByStep
<1> QED BY <1>2, <1>3, <1>4 DEF PInv

LEMMA OneDirectory ==
  ASSUME ProjectsTypeOK, NEW d \in Dirs, NEW files \in (SUBSET Copies) \cup {Null}, Becomes(d, files)
  PROVE  /\ dirs' \in [Dirs -> (SUBSET Copies) \cup {Null}] /\ dirs'[d] = files
         /\ \A e \in Dirs \ {d} : dirs'[e] = dirs[e] /\ Files(e)' = Files(e)
BY DEF ProjectsTypeOK, Becomes, Files, Absent

(* A clone takes a directory that nobody holds, or makes it a shared one.  *)
LEMMA UnheldOrShared ==
  ASSUME PInv, NEW h \in Handlers, NEW d \in Dirs \ shared, Absent(d) \/ Empty(d), ~UnpackedTo(d)
  PROVE  ~OthersOn(d, h)
<1>1. ASSUME NEW g \in Handlers \ {h}, Holding(g, d) PROVE FALSE
  <2>1. Claim(g) /\ Placed(job[g]) /\ job[g].import \in Imports
    BY <1>1, Bounds DEF PInv, Kept, Jobs, Placed, Holding, Imports, ProjectsTypeOK
  <2>2. {Part(job[g].import)} \notin {Null, {}} /\ {Whole(job[g].import)} \notin {Null, {}}
    BY <2>1, HoldingsDiffer
  <2>3. dirs[d] \in {Null, {}}
    BY DEF Absent, Empty
  <2>4. job[g].dir = d => job[g].pc \notin {"extract", "remove", "return"}
    BY <2>1 DEF UnpackedTo, Placed
  <2> QED BY <1>1, <2>1, <2>2, <2>3, <2>4 DEF Claim, Holding
<1>2. ASSUME NEW j \in Imports, Managed(j), projects[j].path = d PROVE FALSE
  <2>1. dirs[d] = {Whole(j)} /\ {Whole(j)} \notin {Null, {}}
    BY <1>2, HoldingsDiffer DEF PInv, Kept, FilesIntact
  <2> QED BY <2>1 DEF Absent, Empty
<1> QED BY <1>1, <1>2 DEF OthersOn, Holding

LEMMA CloneStartsKeeps ==
  ASSUME PInv, NEW h \in Handlers, CloneStarts(h)
  PROVE  PInv'
<1> DEFINE d == job[h].dir
           i == job[h].import
<1>0. /\ Placed(job[h]) /\ RowOf(job[h]) /\ job[h].pc = "start" /\ job[h].kind = "clone" /\ d \in Dirs
      /\ i \in Imports /\ Part(i) \in Copies /\ Part(i).of = i
  BY Bounds, FilesDiffer DEF PInv, Jobs, CloneStarts, At, Placed, Imports, ProjectsTypeOK
<1>1. Goto(h, "cloning") /\ Becomes(d, {Part(i)}) /\ UNCHANGED <<projects, imports, abandoned, faults>>
  BY DEF CloneStarts
<1>2. /\ job'[h].pc = "cloning" /\ job'[h].kind = "clone" /\ job'[h].dir = d /\ job'[h].import = i
      /\ job'[h].user = job[h].user /\ job'[h].name = job[h].name
  BY <1>0, <1>1, GoneOn DEF PInv, Steps
<1>3. /\ dirs' \in [Dirs -> (SUBSET Copies) \cup {Null}] /\ dirs'[d] = {Part(i)}
      /\ \A e \in Dirs \ {d} : dirs'[e] = dirs[e] /\ Files(e)' = Files(e)
  BY <1>0, <1>1, OneDirectory DEF PInv
<1>4. shared \subseteq shared' /\ shared' \subseteq Dirs /\ (d \notin shared' => ~UnpackedTo(d))
  BY <1>0 DEF CloneStarts, PInv, ProjectsTypeOK
<1>5. \A e \in Dirs \ shared' : dirs'[e] = dirs[e] \/ ~OthersOn(e, h)
  <2>1. Absent(d) \/ Empty(d)
    BY DEF CloneStarts
  <2> QED BY <1>0, <1>3, <1>4, <2>1, UnheldOrShared
<1>6. Placed(job[h])' /\ RowOf(job[h])' /\ Claim(h)'
  BY <1>0, <1>1, <1>2, <1>3 DEF Placed, RowOf, Claim
<1>7. ASSUME NEW e \in Dirs \ shared', NEW f \in Files(e)'
      PROVE  \/ f \in Files(e) /\ ~(job[h].import = f.of /\ PutThere(h, e))
             \/ Accounted(e, f)'
  <2>1. CASE e = d
    BY <1>0, <1>2, <1>3, <2>1 DEF Files, Accounted, PutThere
  <2>2. CASE e # d
    BY <1>0, <1>3, <2>2 DEF PutThere
  <2> QED BY <2>1, <2>2
<1> HIDE DEF d, i, Claim, PutThere, Accounted, OthersOn, Placed, RowOf
<1> QED BY <1>0, <1>1, <1>3, <1>4, <1>5, <1>6, <1>7, GoingOnKeeps DEF Steps, PInv, ProjectsTypeOK

LEMMA ClonedKeeps ==
  ASSUME PInv, NEW h \in Handlers, Cloned(h)
  PROVE  PInv'
<1> DEFINE d == job[h].dir
           i == job[h].import
           files == (dirs[d] \ {Part(i)}) \cup {Whole(i)}
<1>0. /\ Placed(job[h]) /\ RowOf(job[h]) /\ Claim(h) /\ job[h].pc = "cloning" /\ d \in Dirs
      /\ i \in Imports /\ Whole(i) \in Copies /\ Whole(i).of = i /\ Part(i) # Whole(i)
  BY Bounds, FilesDiffer DEF PInv, Jobs, Kept, Cloned, At, Placed, Imports, ProjectsTypeOK
<1>1. Goto(h, "insert") /\ Becomes(d, files) /\ UNCHANGED <<projects, imports, shared, abandoned, faults>>
  BY DEF Cloned
<1>2. /\ job'[h].pc = "insert" /\ job'[h].kind = job[h].kind /\ job'[h].dir = d /\ job'[h].import = i
      /\ job'[h].user = job[h].user /\ job'[h].name = job[h].name
  BY <1>0, <1>1, GoneOn DEF PInv, Steps
<1>3. files \in SUBSET Copies
  <2>1. dirs[d] \in SUBSET Copies
    BY <1>0 DEF Cloned, Files, Absent, PInv, ProjectsTypeOK
  <2> QED BY <1>0, <2>1
<1>4. /\ dirs' \in [Dirs -> (SUBSET Copies) \cup {Null}] /\ dirs'[d] = files
      /\ \A e \in Dirs \ {d} : dirs'[e] = dirs[e] /\ Files(e)' = Files(e)
  BY <1>0, <1>1, <1>3, OneDirectory DEF PInv
<1>5. \A e \in Dirs \ shared' : dirs'[e] = dirs[e] \/ ~OthersOn(e, h)
  BY <1>0, <1>1, <1>4, Alone DEF Holding
<1>6. d \notin shared => dirs'[d] = {Whole(i)}
  BY <1>0, <1>4 DEF Claim
<1>7. Placed(job[h])' /\ RowOf(job[h])' /\ Claim(h)'
  BY <1>0, <1>1, <1>2, <1>6 DEF Placed, RowOf, Claim
<1>8. ASSUME NEW e \in Dirs \ shared', NEW f \in Files(e)'
      PROVE  \/ f \in Files(e) /\ ~(job[h].import = f.of /\ PutThere(h, e))
             \/ Accounted(e, f)'
  <2>1. CASE e = d
    BY <1>0, <1>1, <1>2, <1>6, <2>1 DEF Files, Accounted, PutThere
  <2>2. CASE e # d
    BY <1>0, <1>4, <2>2 DEF PutThere
  <2> QED BY <2>1, <2>2
<1> HIDE DEF d, i, files, Claim, PutThere, Accounted, OthersOn, Placed, RowOf
<1> QED BY <1>0, <1>1, <1>4, <1>5, <1>7, <1>8, GoingOnKeeps DEF Steps, PInv, ProjectsTypeOK

(* One archive is unpacked at a time.                                      *)
LEMMA NobodyElseUnpacks ==
  ASSUME PInv, NEW h \in Handlers, job[h].kind = "zip", job[h].pc \in {"start", "move"}, NEW e
  PROVE  ~UnpackedTo(e)
BY DEF PInv, Jobs, Unpacking, UnpackedTo

LEMMA MakeDirKeeps ==
  ASSUME PInv, NEW h \in Handlers, MakeDir(h)
  PROVE  PInv'
<1> DEFINE d == job[h].dir
           i == job[h].import
<1>0. /\ Placed(job[h]) /\ RowOf(job[h]) /\ job[h].pc = "start" /\ job[h].kind = "zip" /\ d \in Dirs
  BY DEF PInv, Jobs, MakeDir, At, Placed
<1>1. CASE ~Absent(d)
  <2>1. Leave(h)
    BY <1>1 DEF MakeDir
  <2>2. job'[h].pc = "idle"
    BY <2>1, LeftBehind DEF PInv
  <2> QED BY <2>1, <2>2, EndingSteps
<1>2. CASE Absent(d)
  <2>1. Goto(h, "extract") /\ Becomes(d, {}) /\ UNCHANGED <<projects, imports, shared, abandoned, faults>>
    BY <1>2 DEF MakeDir
  <2>2. /\ job'[h].pc = "extract" /\ job'[h].kind = "zip" /\ job'[h].dir = d /\ job'[h].import = i
        /\ job'[h].user = job[h].user /\ job'[h].name = job[h].name
    BY <1>0, <2>1, GoneOn DEF PInv, Steps
  <2>3. /\ dirs' \in [Dirs -> (SUBSET Copies) \cup {Null}] /\ dirs'[d] = {}
        /\ \A e \in Dirs \ {d} : dirs'[e] = dirs[e] /\ Files(e)' = Files(e)
    BY <1>0, <2>1, OneDirectory DEF PInv
  <2>4. \A e \in Dirs \ shared' : dirs'[e] = dirs[e] \/ ~OthersOn(e, h)
    BY <1>0, <1>2, <2>1, <2>3, NobodyElseUnpacks, UnheldOrShared
  <2>5. Placed(job[h])' /\ RowOf(job[h])' /\ Claim(h)'
    BY <1>0, <2>1, <2>2, <2>3 DEF Placed, RowOf, Claim
  <2>6. ASSUME NEW e \in Dirs \ shared', NEW f \in Files(e)'
        PROVE  f \in Files(e) /\ ~(job[h].import = f.of /\ PutThere(h, e))
    BY <1>0, <2>3 DEF PutThere, Files
  <2> HIDE DEF d, i, Claim, PutThere, Accounted, OthersOn, Placed, RowOf
  <2> QED BY <1>0, <2>1, <2>3, <2>4, <2>5, <2>6, GoingOnKeeps DEF Steps, PInv, ProjectsTypeOK
<1> QED BY <1>1, <1>2

LEMMA ExtractKeeps ==
  ASSUME PInv, NEW h \in Handlers, Extract(h)
  PROVE  PInv'
<1> DEFINE d == job[h].dir
           i == job[h].import
           files == Files(d) \cup {Whole(i)}
<1>0. /\ Placed(job[h]) /\ RowOf(job[h]) /\ Claim(h) /\ job[h].pc = "extract" /\ job[h].kind = "zip"
      /\ d \in Dirs /\ i \in Imports /\ Whole(i) \in Copies /\ Whole(i).of = i
  BY Bounds, FilesDiffer DEF PInv, Jobs, Kept, Extract, At, Placed, Imports, ProjectsTypeOK
<1>1. Becomes(d, files) /\ UNCHANGED <<projects, imports, shared, abandoned, faults>>
  BY DEF Extract
<1>2. PICK step \in {"move", "insert"} : Goto(h, step) /\ (step = "move" => FlatOf[d] # Null)
  BY DEF Extract
<1>3. /\ job'[h].pc = step /\ job'[h].kind = "zip" /\ job'[h].dir = d /\ job'[h].import = i
      /\ job'[h].user = job[h].user /\ job'[h].name = job[h].name /\ step \in Steps
  BY <1>0, <1>2, GoneOn DEF PInv, Steps
<1>4. files \in SUBSET Copies
  BY <1>0, FileOfImport DEF PInv
<1>5. /\ dirs' \in [Dirs -> (SUBSET Copies) \cup {Null}] /\ dirs'[d] = files
      /\ \A e \in Dirs \ {d} : dirs'[e] = dirs[e] /\ Files(e)' = Files(e)
  BY <1>0, <1>1, <1>4, OneDirectory DEF PInv
<1>6. \A e \in Dirs \ shared' : dirs'[e] = dirs[e] \/ ~OthersOn(e, h)
  BY <1>0, <1>1, <1>5, Alone DEF Holding
<1>7. d \notin shared => dirs'[d] = {Whole(i)}
  BY <1>0, <1>5 DEF Claim, Files
<1>8. Placed(job[h])' /\ RowOf(job[h])' /\ Claim(h)'
  BY <1>0, <1>1, <1>2, <1>3, <1>7, Bounds DEF Placed, RowOf, Claim
<1>9. ASSUME NEW e \in Dirs \ shared', NEW f \in Files(e)'
      PROVE  \/ f \in Files(e) /\ ~(job[h].import = f.of /\ PutThere(h, e))
             \/ Accounted(e, f)'
  <2>1. CASE e = d
    BY <1>0, <1>1, <1>3, <1>7, <2>1 DEF Files, Accounted, PutThere
  <2>2. CASE e # d
    BY <1>0, <1>5, <2>2 DEF PutThere
  <2> QED BY <2>1, <2>2
<1> HIDE DEF d, i, files, Claim, PutThere, Accounted, OthersOn, Placed, RowOf
<1> QED BY <1>0, <1>1, <1>2, <1>3, <1>5, <1>6, <1>8, <1>9, GoingOnKeeps DEF PInv, ProjectsTypeOK

LEMMA MoveAsideKeeps ==
  ASSUME PInv, NEW h \in Handlers, MoveAside(h)
  PROVE  PInv'
<1> DEFINE d == job[h].dir
           i == job[h].import
           flat == FlatOf[d]
<1>0. /\ Placed(job[h]) /\ RowOf(job[h]) /\ Claim(h) /\ job[h].pc = "move" /\ job[h].kind = "zip"
      /\ d \in Dirs /\ flat \in Dirs /\ flat # d
      /\ i \in Imports /\ {Whole(i)} \in SUBSET Copies /\ Whole(i).of = i
  BY Bounds, FilesDiffer DEF PInv, Jobs, Kept, MoveAside, At, Placed, Imports, ProjectsTypeOK
<1>1. CASE Leave(h)
  <2>1. job'[h].pc = "idle"
    BY <1>1, LeftBehind DEF PInv
  <2> QED BY <1>1, <2>1, EndingSteps
<1>2. CASE ~Leave(h)
  <2>1. /\ Absent(flat) \/ Empty(flat)
        /\ Whole(i) \in Files(d)
        /\ dirs' = [dirs EXCEPT ![flat] = {Whole(i)}, ![d] = @ \ {Whole(i)}]
        /\ Goto(h, "remove") /\ UNCHANGED <<projects, imports, shared, abandoned, faults>>
    BY <1>2 DEF MoveAside
  <2>2. /\ job'[h].pc = "remove" /\ job'[h].kind = "zip" /\ job'[h].dir = d /\ job'[h].import = i
        /\ job'[h].user = job[h].user /\ job'[h].name = job[h].name
    BY <1>0, <2>1, GoneOn DEF PInv, Steps
  <2>3. dirs[d] \in SUBSET Copies
    BY <1>0, <2>1 DEF Files, Absent, PInv, ProjectsTypeOK
  <2>4. /\ dirs' \in [Dirs -> (SUBSET Copies) \cup {Null}]
        /\ dirs'[d] = dirs[d] \ {Whole(i)} /\ dirs'[flat] = {Whole(i)}
        /\ \A e \in Dirs \ {d, flat} : dirs'[e] = dirs[e] /\ Files(e)' = Files(e)
    BY <1>0, <2>1, <2>3 DEF PInv, ProjectsTypeOK, Files, Absent
  <2>5. \A e \in Dirs \ shared' : dirs'[e] = dirs[e] \/ ~OthersOn(e, h)
    <3>1. flat \notin shared => ~OthersOn(flat, h)
      BY <1>0, <2>1, NobodyElseUnpacks, UnheldOrShared
    <3>2. d \notin shared => ~OthersOn(d, h)
      BY <1>0, Alone DEF Holding
    <3> QED BY <2>1, <2>4, <3>1, <3>2
  <2>6. d \notin shared => dirs'[d] = {}
    BY <1>0, <2>4 DEF Claim
  <2>7. Placed(job[h])' /\ RowOf(job[h])' /\ Claim(h)'
    BY <1>0, <2>1, <2>2, <2>4, <2>6 DEF Placed, RowOf, Claim
  <2>8. ASSUME NEW e \in Dirs \ shared', NEW f \in Files(e)'
        PROVE  \/ f \in Files(e) /\ ~(job[h].import = f.of /\ PutThere(h, e))
               \/ Accounted(e, f)'
    <3>1. CASE e = d
      BY <2>1, <2>6, <3>1 DEF Files
    <3>2. CASE e = flat
      BY <1>0, <2>2, <2>4, <3>2 DEF Files, Accounted, PutThere
    <3>3. CASE e \notin {d, flat}
      BY <1>0, <2>4, <3>3 DEF PutThere
    <3> QED BY <3>1, <3>2, <3>3
  <2> HIDE DEF d, i, flat, Claim, PutThere, Accounted, OthersOn, Placed, RowOf
  <2> QED BY <1>0, <2>1, <2>4, <2>5, <2>7, <2>8, GoingOnKeeps DEF Steps, PInv, ProjectsTypeOK
<1> QED BY <1>1, <1>2

LEMMA RemoveEmptiedKeeps ==
  ASSUME PInv, NEW h \in Handlers, RemoveEmptied(h)
  PROVE  PInv'
<1> DEFINE d == job[h].dir
           i == job[h].import
           flat == FlatOf[d]
<1>0. /\ Placed(job[h]) /\ RowOf(job[h]) /\ Claim(h) /\ job[h].pc = "remove" /\ job[h].kind = "zip"
      /\ d \in Dirs /\ flat \in Dirs /\ flat # d
  BY Bounds DEF PInv, Jobs, Kept, RemoveEmptied, At, Placed
<1>1. Goto(h, "return") /\ Becomes(d, Null) /\ UNCHANGED <<projects, imports, shared, abandoned, faults>>
  BY DEF RemoveEmptied, Removed
<1>2. /\ job'[h].pc = "return" /\ job'[h].kind = "zip" /\ job'[h].dir = d /\ job'[h].import = i
      /\ job'[h].user = job[h].user /\ job'[h].name = job[h].name
  BY <1>0, <1>1, GoneOn DEF PInv, Steps
<1>3. /\ dirs' \in [Dirs -> (SUBSET Copies) \cup {Null}] /\ dirs'[d] = Null
      /\ \A e \in Dirs \ {d} : dirs'[e] = dirs[e] /\ Files(e)' = Files(e)
  BY <1>0, <1>1, OneDirectory DEF PInv
<1>4. \A e \in Dirs \ shared' : dirs'[e] = dirs[e] \/ ~OthersOn(e, h)
  BY <1>0, <1>1, <1>3, Alone DEF Holding
<1>5. Placed(job[h])' /\ RowOf(job[h])' /\ Claim(h)'
  BY <1>0, <1>1, <1>2, <1>3 DEF Placed, RowOf, Claim
<1>6. ASSUME NEW e \in Dirs \ shared', NEW f \in Files(e)'
      PROVE  \/ f \in Files(e) /\ ~(job[h].import = f.of /\ PutThere(h, e))
             \/ Accounted(e, f)'
  <2>1. e # d /\ f \in Files(e)
    BY <1>3 DEF Files, Absent
  <2>2. PutThere(h, e) => e = flat
    BY <1>0 DEF PutThere
  <2>3. PutThere(h, flat)'
    BY <1>2 DEF PutThere
  <2> QED BY <1>2, <2>1, <2>2, <2>3 DEF Accounted
<1> HIDE DEF d, i, flat, Claim, PutThere, Accounted, OthersOn, Placed, RowOf
<1> QED BY <1>0, <1>1, <1>3, <1>4, <1>5, <1>6, GoingOnKeeps DEF Steps, PInv, ProjectsTypeOK

LEMMA MoveBackKeeps ==
  ASSUME PInv, NEW h \in Handlers, MoveBack(h)
  PROVE  PInv'
<1> DEFINE d == job[h].dir
           i == job[h].import
           flat == FlatOf[d]
<1>0. /\ Placed(job[h]) /\ RowOf(job[h]) /\ Claim(h) /\ job[h].pc = "return" /\ job[h].kind = "zip"
      /\ d \in Dirs /\ flat \in Dirs /\ flat # d /\ i \in Imports /\ Whole(i).of = i
  BY Bounds, FilesDiffer DEF PInv, Jobs, Kept, MoveBack, At, Placed, Imports, ProjectsTypeOK
<1>1. CASE Leave(h)
  <2>1. job'[h].pc = "idle"
    BY <1>1, LeftBehind DEF PInv
  <2> QED BY <1>1, <2>1, EndingSteps
<1>2. CASE ~Leave(h)
  <2>1. /\ ~Absent(flat) /\ dirs' = [dirs EXCEPT ![d] = dirs[flat], ![flat] = Null]
        /\ shared' = IF flat \in shared THEN shared \cup {d} ELSE shared
        /\ Goto(h, "insert") /\ UNCHANGED <<projects, imports, abandoned, faults>>
    BY <1>2 DEF MoveBack
  <2>2. /\ job'[h].pc = "insert" /\ job'[h].kind = "zip" /\ job'[h].dir = d /\ job'[h].import = i
        /\ job'[h].user = job[h].user /\ job'[h].name = job[h].name
    BY <1>0, <2>1, GoneOn DEF PInv, Steps
  <2>3. /\ dirs' \in [Dirs -> (SUBSET Copies) \cup {Null}]
        /\ dirs'[d] = dirs[flat] /\ dirs'[flat] = Null
        /\ \A e \in Dirs \ {d, flat} : dirs'[e] = dirs[e] /\ Files(e)' = Files(e)
    BY <1>0, <2>1 DEF PInv, ProjectsTypeOK, Files, Absent
  <2>4. \A e \in Dirs \ shared' : dirs'[e] = dirs[e] \/ ~OthersOn(e, h)
    <3>1. flat \notin shared => ~OthersOn(flat, h)
      BY <1>0, Alone DEF Holding
    <3>2. d \notin shared => ~OthersOn(d, h)
      BY <1>0, Alone DEF Holding
    <3> QED BY <2>1, <2>3, <3>1, <3>2
  <2>5. d \notin shared' => dirs'[d] = {Whole(i)}
    BY <1>0, <2>1, <2>3 DEF Claim
  <2>6. Placed(job[h])' /\ RowOf(job[h])' /\ Claim(h)'
    BY <1>0, <2>1, <2>2, <2>5 DEF Placed, RowOf, Claim
  <2>7. ASSUME NEW e \in Dirs \ shared', NEW f \in Files(e)'
        PROVE  \/ f \in Files(e) /\ ~(job[h].import = f.of /\ PutThere(h, e))
               \/ Accounted(e, f)'
    <3>1. CASE e = d
      BY <1>0, <2>2, <2>5, <3>1 DEF Files, Accounted, PutThere
    <3>2. CASE e = flat
      BY <2>3, <3>2 DEF Files, Absent
    <3>3. CASE e \notin {d, flat}
      BY <1>0, <2>3, <3>3 DEF PutThere
    <3> QED BY <3>1, <3>2, <3>3
  <2>8. shared \subseteq shared' /\ shared' \subseteq Dirs
    BY <1>0, <2>1 DEF PInv, ProjectsTypeOK
  <2> HIDE DEF d, i, flat, Claim, PutThere, Accounted, OthersOn, Placed, RowOf
  <2> QED BY <1>0, <2>1, <2>3, <2>4, <2>6, <2>7, <2>8, GoingOnKeeps DEF Steps, PInv, ProjectsTypeOK
<1> QED BY <1>1, <1>2

LEMMA InsertKeeps ==
  ASSUME PInv, NEW h \in Handlers, Insert(h)
  PROVE  PInv'
<1> DEFINE d == job[h].dir
           i == job[h].import
           row == [path |-> d, by |-> job[h].user]
<1>0. /\ Placed(job[h]) /\ RowOf(job[h]) /\ Claim(h) /\ job[h].pc = "insert"
      /\ d \in Dirs \cup {Outside} /\ i \in Imports /\ job[h].user \in Users /\ projects[i] = Null
  BY Bounds DEF PInv, Jobs, Kept, Insert, Placed, RowOf, Imports, ProjectsTypeOK
<1>1. /\ Goto(h, "grant") /\ projects' = [projects EXCEPT ![i] = row]
      /\ UNCHANGED <<dirs, imports, shared, abandoned, faults>>
  BY DEF Insert
<1>2. /\ job'[h].pc = "grant" /\ job'[h].kind = job[h].kind /\ job'[h].dir = d /\ job'[h].import = i
      /\ job'[h].user = job[h].user /\ job'[h].name = job[h].name
  BY <1>0, <1>1, GoneOn DEF PInv, Steps
<1>3. /\ projects' \in [Imports -> [path : Dirs \cup {Outside}, by : Users] \cup {Null}]
      /\ projects'[i] = row /\ \A j \in Imports \ {i} : projects'[j] = projects[j]
  BY <1>0, <1>1 DEF PInv, ProjectsTypeOK
<1>4. d \in Dirs \ shared' => dirs'[d] = {Whole(i)}
  BY <1>0, <1>1 DEF Claim
<1>5. Placed(job[h])' /\ RowOf(job[h])' /\ Claim(h)'
  BY <1>0, <1>1, <1>2, <1>3 DEF Placed, RowOf, Claim
<1>6. ASSUME NEW e \in Dirs \ shared', NEW f \in Files(e)'
      PROVE  \/ f \in Files(e) /\ ~(job[h].import = f.of /\ PutThere(h, e))
             \/ Accounted(e, f)'
  <2>1. f \in Files(e)
    BY <1>1 DEF Files, Absent
  <2>2. PutThere(h, e) => PutThere(h, e)'
    BY <1>0, <1>2 DEF PutThere
  <2> QED BY <1>2, <2>1, <2>2 DEF Accounted
<1>7. dirs' = dirs /\ dirs \in [Dirs -> (SUBSET Copies) \cup {Null}] /\ shared' \subseteq Dirs
  BY <1>1 DEF PInv, ProjectsTypeOK
<1>8. \A j \in Imports : \/ projects'[j] = projects[j]
                         \/ /\ j = job[h].import /\ projects[j] = Null
                            /\ projects'[j].path \in Dirs \ shared' => dirs'[projects'[j].path] = {Whole(j)}
  BY <1>0, <1>3, <1>4
<1> HIDE DEF d, i, row, Claim, PutThere, Accounted, OthersOn, Placed, RowOf
<1> QED BY <1>0, <1>1, <1>3, <1>5, <1>6, <1>7, <1>8, GoingOnKeeps DEF Steps

LEMMA GrantKeeps ==
  ASSUME PInv, NEW h \in Handlers, Grant(h)
  PROVE  PInv'
<1>0. Placed(job[h]) /\ RowOf(job[h]) /\ job[h].pc = "grant" /\ job[h].import \in Imports
  BY Bounds DEF PInv, Jobs, Grant, Placed, Imports, ProjectsTypeOK
<1>1. Leave(h) /\ UNCHANGED <<dirs, projects, imports, shared, abandoned, faults>>
  BY DEF Grant
<1>2. /\ job' \in [Handlers -> JobType] /\ job'[h].pc = "idle"
      /\ \A g \in Handlers \ {h} : job'[g] = job[g]
  BY <1>1, LeftBehind DEF PInv
<1>3. ProjectsTypeOK'
  BY <1>1, <1>2 DEF PInv, ProjectsTypeOK
<1>4. Jobs'
  <2>1. abandoned' \subseteq 1 .. imports
    BY <1>1 DEF PInv, Jobs
  <2> QED BY <1>1, <2>1, LeavingKeepsJobs DEF PInv
<1>5. Claim(h)'
  BY <1>2 DEF Claim
<1>6. ASSUME NEW d \in Dirs \ shared, PutThere(h, d)
      PROVE  Managed(job[h].import) /\ projects[job[h].import].path = d
  <2>1. job[h].dir = d /\ projects[job[h].import] = [path |-> d, by |-> job[h].user]
    BY <1>0, <1>6 DEF PutThere, RowOf
  <2>2. projects[job[h].import] # Null
    <3>1. [path |-> d, by |-> job[h].user] \in [path : Dirs \cup {Outside}, by : Users]
      BY <1>0 DEF Placed
    <3> QED BY <2>1, <3>1, DirsAssumption
  <2> QED BY <2>1, <2>2 DEF Managed
<1>7. Kept'
  <2> HIDE DEF Claim, PutThere
  <2> QED BY <1>1, <1>2, <1>5, <1>6, UntouchedKept
<1> QED BY <1>3, <1>4, <1>7 DEF PInv

LEMMA ImportStepKeeps ==
  ASSUME PInv, NEW h \in Handlers, ImportStep(h)
  PROVE  PInv'
BY ChooseKeeps, CloneStartsKeeps, ClonedKeeps, MakeDirKeeps, ExtractKeeps, MoveAsideKeeps, RemoveEmptiedKeeps,
   MoveBackKeeps, InsertKeeps, GrantKeeps, EndingSteps DEF ImportStep

LEMMA AcceptKeeps ==
  ASSUME PInv, NEW h \in Handlers, NEW u \in Users, NEW kind \in Kinds, NEW n \in Names, NEW nested \in BOOLEAN,
         Accept(h, u, kind, n, nested)
  PROVE  PInv'
<1> DEFINE new == [pc |-> IF kind = "local" THEN "insert" ELSE "choose", kind |-> kind, user |-> u, name |-> n,
                   nested |-> nested, import |-> imports + 1, dir |-> IF kind = "local" THEN Outside ELSE Null]
<1>1. imports \in Nat /\ imports + 1 \in 1 .. MaxImports /\ imports' = imports + 1
  BY Bounds DEF Accept, PInv, ProjectsTypeOK
<1>2. new \in JobType /\ job[h].pc = "idle" /\ job' = [job EXCEPT ![h] = new]
  BY <1>1 DEF JobType, Steps, Imports, Accept
<1>3. /\ job' \in [Handlers -> JobType] /\ job'[h] = new
      /\ \A g \in Handlers \ {h} : job'[g] = job[g]
  BY <1>2 DEF PInv, ProjectsTypeOK
<1>4. UNCHANGED <<dirs, projects, shared, abandoned, faults>>
  BY DEF Accept
<1>5. /\ new.pc \in {"insert", "choose"} /\ new.kind = kind /\ new.user = u /\ new.name = n
      /\ new.import = imports + 1 /\ (new.pc = "insert" => new.dir = Outside)
      /\ (kind = "zip" => new.pc = "choose")
  OBVIOUS
<1> HIDE DEF new
<1>6. ProjectsTypeOK'
  BY <1>1, <1>3, <1>4, Bounds DEF PInv, ProjectsTypeOK
<1>7. projects[imports + 1] = Null
  BY <1>1 DEF PInv, Jobs, Imports
<1>8. Jobs'
  <2>1. \A g \in Handlers \ {h} : Placed(job[g])' /\ RowOf(job[g])'
    BY <1>1, <1>3, <1>4 DEF PInv, Jobs, Placed, RowOf
  <2>2. Placed(job[h])' /\ RowOf(job[h])'
    BY <1>1, <1>3, <1>4, <1>5, <1>7 DEF Placed, RowOf
  <2>3. \A g \in Handlers \ {h} : job[g].pc # "idle" => job[g].import # imports + 1
    BY <1>1 DEF PInv, Jobs, Placed
  <2>4. \A g, k \in Handlers :
          g # k /\ job'[g].pc # "idle" /\ job'[k].pc # "idle" => job'[g].import # job'[k].import
    BY <1>3, <1>5, <2>3 DEF PInv, Jobs
  <2>5. \A g, k \in Handlers :
          job'[g].pc # "idle" /\ job'[k].pc # "idle" /\ Unpacking(g)' /\ Unpacking(k)' => g = k
    BY <1>3, <1>5 DEF PInv, Jobs, Unpacking
  <2>6. abandoned' \subseteq 1 .. imports'
    BY <1>1, <1>4 DEF PInv, Jobs
  <2>7. \A i \in Imports : i > imports' => projects'[i] = Null
    BY <1>1, <1>4 DEF PInv, Jobs, Imports
  <2> HIDE DEF Placed, RowOf
  <2> QED BY <2>1, <2>2, <2>4, <2>5, <2>6, <2>7 DEF Jobs
<1>9. Kept'
  <2>1. Claim(h)'
    BY <1>3, <1>5, Bounds DEF Claim
  <2>2. \A d \in Dirs : ~PutThere(h, d)
    BY <1>2 DEF PutThere
  <2> HIDE DEF Claim, PutThere
  <2> QED BY <1>3, <1>4, <2>1, <2>2, UntouchedKept
<1> QED BY <1>6, <1>8, <1>9 DEF PInv

LEMMA ImportsEndKeep ==
  ASSUME PInv, ImportsEnd
  PROVE  PInv'
<1>1. job' \in [Handlers -> JobType] /\ \A h \in Handlers : job'[h].pc = "idle"
  BY Blank DEF ImportsEnd, Idle
<1>2. UNCHANGED <<dirs, projects, imports, shared, faults>> /\ abandoned \subseteq abandoned'
  BY DEF ImportsEnd
<1>3. abandoned' \subseteq 1 .. imports
  BY DEF ImportsEnd, Running, PInv, Jobs, Placed
<1>4. ProjectsTypeOK'
  BY <1>1, <1>2, <1>3, Bounds DEF PInv, ProjectsTypeOK, Imports
<1>5. Jobs'
  BY <1>1, <1>2, <1>3 DEF PInv, Jobs, Placed, RowOf
<1>6. ASSUME NEW d \in Dirs \ shared, NEW f \in Files(d) PROVE Accounted(d, f)'
  <2>1. f.of \in Imports /\ Accounted(d, f)
    BY FileOfImport DEF PInv, Kept
  <2>2. ASSUME NEW h \in Handlers, job[h].import = f.of, PutThere(h, d) PROVE f.of \in abandoned'
    BY <2>1, <2>2 DEF PutThere, ImportsEnd, Running
  <2>3. CASE Managed(f.of) /\ projects[f.of].path = d
    BY <1>2, <2>3 DEF Accounted, Managed
  <2> QED BY <1>2, <2>1, <2>2, <2>3 DEF Accounted
<1>7. Kept'
  <2>1. \A h \in Handlers : Claim(h)'
    BY <1>1 DEF Claim
  <2>2. FilesIntact'
    BY <1>2 DEF PInv, Kept, FilesIntact, Managed
  <2>3. \A d \in Dirs : Files(d)' = Files(d)
    BY <1>2 DEF Files, Absent
  <2> HIDE DEF Claim, Accounted
  <2> QED BY <1>2, <1>6, <2>1, <2>2, <2>3 DEF Kept
<1> QED BY <1>4, <1>5, <1>7 DEF PInv

LEMMA InitKeeps == ProjectsInit => PInv /\ Granted
<1> SUFFICES ASSUME ProjectsInit PROVE PInv /\ Granted
  OBVIOUS
<1>1. ProjectsTypeOK
  BY Blank, Bounds DEF ProjectsInit, ProjectsTypeOK
<1>2. \A h \in Handlers : job[h].pc = "idle"
  BY DEF ProjectsInit, Idle
<1>3. Jobs
  BY <1>2 DEF ProjectsInit, Jobs, Placed, RowOf
<1>4. Kept
  BY <1>2 DEF ProjectsInit, Kept, Claim, FilesIntact, Managed, Files, Absent
<1> QED BY <1>1, <1>3, <1>4 DEF PInv, Granted, ProjectsInit

(* A row without its membership belongs to a request that is granting it.  *)
LEMMA StepKeepsGranted ==
  ASSUME PInv, Granted, NEW h \in Handlers, ImportStep(h)
  PROVE  Granted'
<1>0. Placed(job[h]) /\ RowOf(job[h]) /\ (job[h].pc # "idle" => job[h].import \in Imports)
  BY Bounds DEF PInv, Jobs, Placed, Imports, ProjectsTypeOK
<1>1. CASE Insert(h)
  <2>1. /\ \A g \in Handlers \ {h} : job'[g] = job[g]
        /\ job'[h].pc = "grant" /\ job'[h].import = job[h].import
    BY <1>1, GoneOn DEF Insert, PInv, Steps
  <2>2. \A i \in Imports \ {job[h].import} : projects'[i] = projects[i]
    BY <1>1 DEF Insert, PInv, ProjectsTypeOK
  <2>3. \A i \in Imports : Running(i) => Running(i)'
    BY <1>1, <2>1 DEF Running
  <2>4. \A i \in Imports : i = job[h].import => Running(i)'
    BY <2>1 DEF Running
  <2>5. members' = members /\ abandoned' = abandoned
    BY <1>1 DEF Insert
  <2>6. ASSUME NEW i \in Imports, projects'[i] # Null
        PROVE  <<projects'[i].by, i>> \in members' \/ Running(i)' \/ i \in abandoned'
    <3>1. CASE i = job[h].import
      BY <2>4, <3>1
    <3>2. CASE i # job[h].import
      <4>1. projects'[i] = projects[i] /\ projects[i] # Null
        BY <2>2, <2>6, <3>2
      <4>2. <<projects[i].by, i>> \in members \/ Running(i) \/ i \in abandoned
        BY <4>1 DEF Granted
      <4> QED BY <2>3, <2>5, <4>1, <4>2
    <3> QED BY <3>1, <3>2
  <2> QED BY <2>6 DEF Granted
<1>2. CASE Grant(h)
  <2>1. \A g \in Handlers \ {h} : job'[g] = job[g]
    BY <1>2, LeftBehind DEF Grant, PInv
  <2>2. \A i \in Imports \ {job[h].import} : Running(i) => Running(i)'
    BY <2>1 DEF Running
  <2>3. <<projects[job[h].import].by, job[h].import>> \in members'
    BY <1>0, <1>2 DEF Grant, RowOf
  <2> QED BY <1>2, <2>2, <2>3 DEF Granted, Grant
<1>3. CASE TransactionFails(h)
  <2>1. \A g \in Handlers \ {h} : job'[g] = job[g]
    BY <1>3, LeftBehind DEF TransactionFails, PInv
  <2>2. \A i \in Imports \ {job[h].import} : Running(i) => Running(i)'
    BY <2>1 DEF Running
  <2> QED BY <1>3, <2>2 DEF Granted, TransactionFails
<1>4. CASE ~Insert(h) /\ ~Grant(h) /\ ~TransactionFails(h)
  <2>1. /\ UNCHANGED <<projects, members>> /\ abandoned \subseteq abandoned'
        /\ job[h].pc \notin {"idle", "grant"}
    BY <1>4 DEF ImportStep, At, Choose, CloneStarts, CloneRefused, Cloned, CloneFails, CloneTimesOut, MakeDir, Extract,
       ExtractFails, MoveAside, RemoveEmptied, MoveBack
  <2>2. \A g \in Handlers \ {h} : job'[g] = job[g]
    BY <1>4 DEF ImportStep, Choose, CloneStarts, CloneRefused, Cloned, CloneFails, CloneTimesOut, MakeDir, Extract,
       ExtractFails, MoveAside, RemoveEmptied, MoveBack, Goto, Leave, PInv, ProjectsTypeOK
  <2>3. \A i \in Imports : projects[i] # Null /\ Running(i) => Running(i)'
    BY <1>0, <2>1, <2>2 DEF Running, RowOf
  <2> QED BY <2>1, <2>3 DEF Granted
<1> QED BY <1>1, <1>2, <1>3, <1>4

-----------------------------------------------------------------------------
(* The workspace.  A membership is of the bundled project or was made by   *)
(* the import of its user.                                                 *)
Memberships ==
    /\ members \subseteq Users \X (Imports \cup {Bundled})
    /\ \A u \in Users, i \in Imports : <<u, i>> \in members => projects[i] # Null /\ projects[i].by = u

(* What the accounts are owed by the startups, in either mode.             *)
Accountable ==
    /\ accounts \in [Users -> AccountType]
    /\ mode \in {"local", "demo"} /\ edited \in BOOLEAN
    /\ mode = "demo" => Exists(accounts, DemoViewer)
    /\ mode = "demo" /\ ~edited => accountOf.roles = {"viewer"}
    /\ Exists(accounts, DemoViewer) /\ accountOf.by = "demo" => accountOf.legacy = "viewer"
    /\ accountOf.by = "demo" => \A s \in sessions : accountOf.roles \subseteq s.opened \cup {"viewer"}
    /\ mode = "local" /\ ~edited => \A u \in Users : accounts[u].legacy = "admin" => "owner" \in accounts[u].roles
    /\ first = "demo" \/ SetupRequired(accounts) \/ \E u \in Users : accounts[u].legacy = "admin"

(* The admissions that a later request may have to count are still in the  *)
(* table: those within Window of the latest one.                           *)
Counted ==
    /\ \A a \in Addresses : IsFiniteSet(stamps[a]) /\ IsFiniteSet(admitted[a])
    /\ \A a \in Addresses : \A s \in admitted[a] :
          ~s.overtaken /\ (\A t \in admitted[a] : t.at <= s.at + Window) => [no |-> s.no, at |-> s.at] \in stamps[a]

WTypes ==
    /\ sessions \subseteq [no : 0 .. MaxEvents, created : Times, opened : SUBSET Roles]
    /\ clock \in Times
    /\ stamps \in [Addresses -> SUBSET [no : 0 .. MaxEvents, at : Times]]
    /\ visit \in [Visitors -> [pc : {"idle", "stamped", "admitted", "opened"}, from : Addresses \cup {Null},
                               at : Times, no : 0 .. MaxEvents]]
    /\ \A v \in Visitors : visit[v].pc = "stamped" => visit[v].from \in Addresses
    /\ events \in 0 .. MaxEvents
    /\ first \in {"setup", "demo", Null}
    /\ admitted \in [Addresses -> SUBSET [no : 0 .. MaxEvents, at : Times, overtaken : BOOLEAN]]

IInv == PInv /\ Granted /\ Memberships /\ Accountable /\ Counted /\ RateHolds /\ WTypes

LEMMA WBounds ==
  /\ MaxEvents \in Nat /\ MaxTime \in Nat /\ Window \in Nat /\ Limit \in Nat /\ Limit > 0
  /\ DemoViewer \in Users /\ Bundled \notin Imports
  /\ {"owner", "security_engineer", "reviewer", "viewer"} \subseteq Roles /\ "admin" \notin Roles /\ Null # "admin"
BY WorkspaceAssumption

LEMMA PInvSame ==
  ASSUME PInv, UNCHANGED <<dirs, projects, job, imports, shared, abandoned>>, faults' \in 0 .. MaxFaults
  PROVE  PInv'
<1>1. ProjectsTypeOK'
  BY DEF PInv, ProjectsTypeOK
<1>2. Jobs'
  BY DEF PInv, Jobs, Placed, RowOf, Unpacking
<1>3. (\A h \in Handlers : Claim(h)') /\ FilesIntact'
  BY DEF PInv, Kept, Claim, FilesIntact, Managed
<1>4. ASSUME NEW d \in Dirs \ shared', NEW f \in Files(d)' PROVE Accounted(d, f)'
  <2>1. Accounted(d, f)
    BY DEF PInv, Kept, Files, Absent
  <2> QED BY <2>1 DEF Accounted, Managed, PutThere
<1> QED BY <1>1, <1>2, <1>3, <1>4 DEF PInv, Kept

LEMMA GrantedSame ==
  ASSUME Granted, UNCHANGED <<projects, job, abandoned, members>>
  PROVE  Granted'
BY DEF Granted, Running

LEMMA MembershipsSame ==
  ASSUME Memberships, UNCHANGED <<projects, members>>
  PROVE  Memberships'
BY DEF Memberships

LEMMA AccountableSame ==
  ASSUME Accountable, UNCHANGED <<accounts, mode, edited, first>>, sessions' \subseteq sessions
  PROVE  Accountable'
BY DEF Accountable, accountOf, Exists, SetupRequired

LEMMA CountedSame ==
  ASSUME Counted, RateHolds, UNCHANGED <<stamps, admitted>>
  PROVE  Counted' /\ RateHolds'
BY DEF Counted, RateHolds

-----------------------------------------------------------------------------
LEMMA NewAccount ==
  ASSUME NEW legacy \in {"admin", "reviewer", "viewer"}, NEW R \in SUBSET Roles, NEW by \in {"setup", "owner", "demo"}
  PROVE  [legacy |-> legacy, roles |-> R, by |-> by] \in AccountType
BY WBounds DEF AccountType

LEMMA Reroled ==
  ASSUME NEW x \in AccountType, NEW R \in SUBSET Roles
  PROVE  LET y == [x EXCEPT !.roles = R] IN y \in AccountType /\ y.roles = R /\ y.legacy = x.legacy /\ y.by = x.by
BY DEF AccountType

LEMMA MappedIsRole ==
  ASSUME NEW legacy \in Roles \cup {"admin", Null}
  PROVE  Mapped(legacy) \in Roles /\ Mapped("viewer") = "viewer" /\ Mapped("admin") = "owner"
BY WBounds DEF Mapped

(* What _seed_rbac does to the accounts. *)
LEMMA SeedingAdds ==
  ASSUME NEW who \in [Users -> AccountType]
  PROVE  /\ Seeded(who) \in [Users -> AccountType]
         /\ \A u \in Users : Seeded(who)[u].legacy = who[u].legacy /\ Seeded(who)[u].by = who[u].by
         /\ \A u \in Users : ~Exists(who, u) => Seeded(who)[u] = who[u]
         /\ \A u \in Users : Exists(who, u) =>
               Seeded(who)[u].roles = who[u].roles \cup {Mapped(who[u].legacy)} /\ Exists(Seeded(who), u)
<1>1. ASSUME NEW u \in Users, Exists(who, u)
      PROVE  /\ Seeded(who)[u] \in AccountType
             /\ Seeded(who)[u].legacy = who[u].legacy /\ Seeded(who)[u].by = who[u].by
             /\ Seeded(who)[u].roles = who[u].roles \cup {Mapped(who[u].legacy)} /\ Exists(Seeded(who), u)
  <2> DEFINE R == who[u].roles \cup {Mapped(who[u].legacy)}
  <2>1. who[u] \in AccountType /\ R \in SUBSET Roles
    BY MappedIsRole DEF AccountType
  <2>2. Seeded(who)[u] = [who[u] EXCEPT !.roles = R]
    BY <1>1 DEF Seeded
  <2>3. R # {}
    OBVIOUS
  <2> HIDE DEF R
  <2>4. Seeded(who)[u].roles # Missing.roles
    BY <2>1, <2>2, <2>3, Reroled DEF Missing
  <2>5. /\ Seeded(who)[u] \in AccountType /\ Seeded(who)[u].legacy = who[u].legacy
        /\ Seeded(who)[u].by = who[u].by /\ Seeded(who)[u].roles = R
    BY <2>1, <2>2, Reroled
  <2>6. Exists(Seeded(who), u)
    BY <2>4 DEF Exists
  <2> QED BY <2>5, <2>6 DEF R
<1>2. \A u \in Users : ~Exists(who, u) => Seeded(who)[u] = who[u]
  BY DEF Seeded
<1>3. Seeded(who) = [u \in Users |-> Seeded(who)[u]]
  BY DEF Seeded
<1>4. \A u \in Users : Seeded(who)[u] \in AccountType
  BY <1>1, <1>2
<1>5. Seeded(who) \in [Users -> AccountType]
  <2> HIDE DEF Seeded
  <2> QED BY <1>3, <1>4
<1> QED BY <1>1, <1>2, <1>5

LEMMA MissingAccount == Missing \in AccountType /\ Missing.roles = {} /\ Missing.legacy = Null
BY DEF Missing, AccountType

(* What _insert_demo_user makes of them. *)
LEMMA DemoUserViews ==
  ASSUME NEW who \in [Users -> AccountType]
  PROVE  /\ WithDemoUser(who) \in [Users -> AccountType]
         /\ \A u \in Users \ {DemoViewer} : WithDemoUser(who)[u] = who[u]
         /\ WithDemoUser(who)[DemoViewer].roles = {"viewer"} /\ Exists(WithDemoUser(who), DemoViewer)
         /\ Exists(who, DemoViewer) =>
               /\ WithDemoUser(who)[DemoViewer].legacy = who[DemoViewer].legacy
               /\ WithDemoUser(who)[DemoViewer].by = who[DemoViewer].by
         /\ ~Exists(who, DemoViewer) => WithDemoUser(who)[DemoViewer].legacy = "viewer"
<1>1. CASE Exists(who, DemoViewer)
  <2> DEFINE y == [who[DemoViewer] EXCEPT !.roles = {"viewer"}]
  <2>1. WithDemoUser(who) = [who EXCEPT ![DemoViewer] = y]
    BY <1>1 DEF WithDemoUser
  <2>2. /\ y \in AccountType /\ y.roles = {"viewer"}
        /\ y.legacy = who[DemoViewer].legacy /\ y.by = who[DemoViewer].by
    BY Reroled, WBounds
  <2> HIDE DEF y
  <2>3. y # Missing
    BY <2>2, MissingAccount
  <2> QED BY <1>1, <2>1, <2>2, <2>3, WBounds DEF Exists
<1>2. CASE ~Exists(who, DemoViewer)
  <2> DEFINE y == [legacy |-> "viewer", roles |-> {"viewer"}, by |-> "demo"]
  <2>1. WithDemoUser(who) = [who EXCEPT ![DemoViewer] = y]
    BY <1>2 DEF WithDemoUser
  <2>2. y \in AccountType /\ y.roles = {"viewer"} /\ y.legacy = "viewer"
    BY NewAccount, WBounds
  <2> HIDE DEF y
  <2>3. y # Missing
    BY <2>2, MissingAccount
  <2> QED BY <1>2, <2>1, <2>2, <2>3, WBounds DEF Exists
<1> QED BY <1>1, <1>2

LEMMA EventCounts ==
  ASSUME events \in 0 .. MaxEvents, Event
  PROVE  events' \in 0 .. MaxEvents
BY WBounds DEF Event

LEMMA RestingType ==
  /\ Resting \in [pc : {"idle", "stamped", "admitted", "opened"}, from : Addresses \cup {Null},
                  at : Times, no : 0 .. MaxEvents]
  /\ Resting.pc = "idle"
BY WBounds DEF Resting, Times

LEMMA RestartKeeps ==
  ASSUME IInv, NEW m \in {"local", "demo"}, Restart(m)
  PROVE  IInv'
<1> DEFINE seeded == Seeded(accounts)
<1>0. ImportsEnd /\ Startup(m, accounts, members) /\ UNCHANGED <<sessions, clock>> /\ edited' = FALSE
  BY DEF Restart
<1>1. PInv'
  BY <1>0, ImportsEndKeep DEF IInv
<1>2. projects' = projects /\ members \subseteq members' /\ members' \subseteq members \cup {<<DemoViewer, Bundled>>}
  BY <1>0 DEF ImportsEnd, Startup
<1>3. Granted'
  <2>1. \A i \in Imports : Running(i) \/ i \in abandoned => i \in abandoned'
    BY <1>0 DEF ImportsEnd
  <2> QED BY <1>2, <2>1 DEF IInv, Granted
<1>4. Memberships'
  BY <1>2, WBounds DEF IInv, Memberships
<1>5. Accountable'
  <2>0. /\ accounts \in [Users -> AccountType] /\ DemoViewer \in Users
        /\ accounts[DemoViewer] \in AccountType
    BY WBounds DEF IInv, Accountable
  <2>1. /\ seeded \in [Users -> AccountType]
        /\ \A u \in Users : seeded[u].legacy = accounts[u].legacy /\ seeded[u].by = accounts[u].by
        /\ \A u \in Users : ~Exists(accounts, u) => seeded[u] = accounts[u]
        /\ \A u \in Users : Exists(accounts, u) =>
              seeded[u].roles = accounts[u].roles \cup {Mapped(accounts[u].legacy)} /\ Exists(seeded, u)
    BY <2>0, SeedingAdds
  <2>2. \A u \in Users : Exists(seeded, u) <=> Exists(accounts, u)
    BY <2>1 DEF Exists
  <2>m. Mapped("viewer") = "viewer" /\ Mapped("admin") = "owner"
    BY MappedIsRole
  <2>3. \A u \in Users : accounts[u].legacy = "admin" => Exists(accounts, u)
    BY MissingAccount, WBounds DEF Exists
  <2> HIDE DEF seeded
  <2>4. CASE m = "local"
    <3>1. accounts' = seeded /\ mode' = "local" /\ first' = first
      BY <1>0, <2>4 DEF Startup, seeded
    <3>2. \A u \in Users : seeded[u].legacy = "admin" => "owner" \in seeded[u].roles
      BY <2>1, <2>m, <2>3
    <3>3. seeded[DemoViewer].by = "demo" => \A s \in sessions : seeded[DemoViewer].roles \subseteq s.opened \cup {"viewer"}
      <4> SUFFICES ASSUME accounts[DemoViewer].by = "demo", NEW s \in sessions
                   PROVE  seeded[DemoViewer].roles \subseteq s.opened \cup {"viewer"}
        BY <2>0, <2>1
      <4>1. accounts[DemoViewer].roles \subseteq s.opened \cup {"viewer"}
        BY DEF IInv, Accountable, accountOf
      <4>2. CASE Exists(accounts, DemoViewer)
        BY <2>0, <2>1, <2>m, <4>1, <4>2 DEF IInv, Accountable, accountOf
      <4>3. CASE ~Exists(accounts, DemoViewer)
        BY <2>0, <2>1, <4>1, <4>3
      <4> QED BY <4>2, <4>3
    <3>4. Exists(seeded, DemoViewer) /\ seeded[DemoViewer].by = "demo" => seeded[DemoViewer].legacy = "viewer"
      BY <2>0, <2>1, <2>2 DEF IInv, Accountable, accountOf
    <3>5. first = "demo" \/ SetupRequired(seeded) \/ \E u \in Users : seeded[u].legacy = "admin"
      BY <2>1, <2>2 DEF IInv, Accountable, SetupRequired
    <3>6. /\ accountOf' = seeded[DemoViewer] /\ \A u \in Users : accounts'[u] = seeded[u]
          /\ Exists(accounts, DemoViewer)' = Exists(seeded, DemoViewer)
          /\ SetupRequired(accounts)' = SetupRequired(seeded)
      BY <3>1 DEF accountOf, Exists, SetupRequired
    <3> QED BY <1>0, <2>1, <3>1, <3>2, <3>3, <3>4, <3>5, <3>6 DEF Accountable
  <2>5. CASE m = "demo"
    <3> DEFINE after == WithDemoUser(seeded)
    <3>1. /\ accounts' = after /\ mode' = "demo"
          /\ first' = IF SetupRequired(accounts) THEN "demo" ELSE first
      BY <1>0, <2>5 DEF Startup, seeded
    <3>2. /\ after \in [Users -> AccountType]
          /\ \A u \in Users \ {DemoViewer} : after[u] = seeded[u]
          /\ after[DemoViewer].roles = {"viewer"} /\ Exists(after, DemoViewer)
          /\ Exists(seeded, DemoViewer) =>
                /\ after[DemoViewer].legacy = seeded[DemoViewer].legacy
                /\ after[DemoViewer].by = seeded[DemoViewer].by
          /\ ~Exists(seeded, DemoViewer) => after[DemoViewer].legacy = "viewer"
      BY <2>1, DemoUserViews
    <3> HIDE DEF after
    <3>3. after[DemoViewer].by = "demo" => after[DemoViewer].legacy = "viewer"
      BY <2>0, <2>1, <2>2, <3>2 DEF IInv, Accountable, accountOf
    <3>4. \A u \in Users : accounts[u].legacy = "admin" => after[u].legacy = "admin"
      BY <2>1, <2>2, <2>3, <3>2
    <3>5. first' = "demo" \/ \E u \in Users : after[u].legacy = "admin"
      BY <3>1, <3>4 DEF IInv, Accountable
    <3>6. /\ accountOf' = after[DemoViewer] /\ \A u \in Users : accounts'[u] = after[u]
          /\ Exists(accounts, DemoViewer)' = Exists(after, DemoViewer)
      BY <3>1 DEF accountOf, Exists
    <3> QED BY <1>0, <3>1, <3>2, <3>3, <3>5, <3>6 DEF Accountable
  <2> QED BY <2>4, <2>5
<1>6. /\ stamps' = [a \in Addresses |-> {}] /\ admitted' = [a \in Addresses |-> {}]
      /\ visit' = [v \in Visitors |-> Resting]
  BY DEF Restart
<1>7. Counted' /\ RateHolds'
  BY <1>6, FS_EmptySet DEF Counted, RateHolds
<1>8. WTypes'
  <2>1. events' \in 0 .. MaxEvents
    BY EventCounts DEF Restart, IInv, WTypes
  <2>2. first' \in {"setup", "demo", Null}
    BY <1>0 DEF Startup, IInv, WTypes
  <2> QED BY <1>0, <1>6, <2>1, <2>2, RestingType DEF IInv, WTypes
<1> QED BY <1>1, <1>3, <1>4, <1>5, <1>7, <1>8 DEF IInv

LEMMA SetupKeeps ==
  ASSUME IInv, NEW u \in Users, Setup(u)
  PROVE  IInv'
<1> DEFINE new == [legacy |-> "admin", roles |-> {"owner"}, by |-> "setup"]
<1>0. new \in AccountType /\ new.legacy = "admin" /\ new.roles = {"owner"} /\ new.by = "setup"
  BY NewAccount, WBounds
<1>1. accounts' = [accounts EXCEPT ![u] = new] /\ UNCHANGED <<projectVars, demoVars, mode, clock, edited>>
  BY DEF Setup
<1> HIDE DEF new
<1>2. PInv' /\ Granted' /\ Memberships'
  BY <1>1, PInvSame, GrantedSame, MembershipsSame DEF projectVars, IInv, PInv, ProjectsTypeOK
<1>3. Counted' /\ RateHolds'
  BY <1>1, CountedSame DEF demoVars, IInv
<1>4. Accountable'
  <2>1. /\ accounts' \in [Users -> AccountType] /\ accounts'[u] = new
        /\ \A w \in Users \ {u} : accounts'[w] = accounts[w]
    BY <1>0, <1>1 DEF IInv, Accountable
  <2>2. mode = "local" /\ mode' = "local" /\ sessions' = sessions
    BY <1>1 DEF Setup, demoVars
  <2> QED BY <1>0, <1>1, <2>1, <2>2, WBounds DEF IInv, Accountable, accountOf, Exists
<1>5. WTypes'
  <2>1. events' \in 0 .. MaxEvents
    BY EventCounts DEF Setup, IInv, WTypes
  <2> QED BY <1>1, <2>1 DEF IInv, WTypes, demoVars, Setup
<1> QED BY <1>2, <1>3, <1>4, <1>5 DEF IInv

LEMMA OwnerIsThere ==
  ASSUME OwnerLogsIn
  PROVE  ~SetupRequired(accounts)
BY MissingAccount DEF OwnerLogsIn, Holds, SetupRequired, Exists

LEMMA CreateUserKeeps ==
  ASSUME IInv, NEW u \in Users, NEW role \in Roles, CreateUser(u, role)
  PROVE  IInv'
<1> DEFINE new == [legacy |-> IF role = "owner" THEN "admin" ELSE "reviewer", roles |-> {role}, by |-> "owner"]
<1>0. /\ new \in AccountType /\ new.roles = {role} /\ new.by = "owner" /\ (new.legacy = "admin" => role = "owner")
  BY NewAccount
<1>1. /\ accounts' = [accounts EXCEPT ![u] = new] /\ ~Exists(accounts, u) /\ OwnerLogsIn
      /\ UNCHANGED <<projectVars, demoVars, mode, clock, edited, first>>
  BY DEF CreateUser
<1> HIDE DEF new
<1>2. PInv' /\ Granted' /\ Memberships'
  BY <1>1, PInvSame, GrantedSame, MembershipsSame DEF projectVars, IInv, PInv, ProjectsTypeOK
<1>3. Counted' /\ RateHolds'
  BY <1>1, CountedSame DEF demoVars, IInv
<1>4. Accountable'
  <2>1. /\ accounts' \in [Users -> AccountType] /\ accounts'[u] = new
        /\ \A w \in Users \ {u} : accounts'[w] = accounts[w]
    BY <1>0, <1>1 DEF IInv, Accountable
  <2>2. first = "demo" \/ \E w \in Users \ {u} : accounts[w].legacy = "admin"
    BY <1>1, OwnerIsThere, MissingAccount, WBounds DEF IInv, Accountable, Exists
  <2>3. mode = "demo" => u # DemoViewer
    BY <1>1 DEF IInv, Accountable
  <2>4. sessions' = sessions /\ mode' = mode /\ edited' = edited /\ first' = first
    BY <1>1 DEF demoVars
  <2>5. CASE u = DemoViewer
    BY <1>0, <2>1, <2>2, <2>3, <2>4, <2>5, WBounds DEF IInv, Accountable, accountOf, Exists
  <2>6. CASE u # DemoViewer
    <3>1. accountOf' = accountOf /\ Exists(accounts, DemoViewer)' = Exists(accounts, DemoViewer)
      BY <2>1, <2>6, WBounds DEF accountOf, Exists
    <3>2. \A w \in Users : accounts'[w].legacy = "admin" =>
             w = u \/ (accounts'[w] = accounts[w] /\ accounts[w].legacy = "admin")
      BY <2>1
    <3>3. mode = "local" /\ ~edited => \A w \in Users : accounts'[w].legacy = "admin" => "owner" \in accounts'[w].roles
      BY <1>0, <2>1, <3>2 DEF IInv, Accountable
    <3>4. first = "demo" \/ \E w \in Users : accounts'[w].legacy = "admin"
      BY <2>1, <2>2
    <3> QED BY <2>1, <2>4, <3>1, <3>3, <3>4 DEF IInv, Accountable
  <2> QED BY <2>5, <2>6
<1>5. WTypes'
  <2>1. events' \in 0 .. MaxEvents
    BY EventCounts DEF CreateUser, IInv, WTypes
  <2> QED BY <1>1, <2>1 DEF IInv, WTypes, demoVars
<1> QED BY <1>2, <1>3, <1>4, <1>5 DEF IInv

LEMMA ChangeRoleKeeps ==
  ASSUME IInv, NEW role \in Roles, ChangeRole(role)
  PROVE  IInv'
<1> DEFINE new == [accounts[DemoViewer] EXCEPT !.roles = {role}]
<1>0. /\ new \in AccountType /\ new.roles = {role} /\ new.by = accountOf.by /\ new.legacy = accountOf.legacy
  BY Reroled, WBounds DEF IInv, Accountable, accountOf
<1>1. /\ accounts' = [accounts EXCEPT ![DemoViewer] = new] /\ Exists(accounts, DemoViewer) /\ sessions' = {}
      /\ edited' = TRUE /\ UNCHANGED <<projectVars, stamps, visit, admitted, mode, clock, first>>
  BY DEF ChangeRole
<1> HIDE DEF new
<1>2. PInv' /\ Granted' /\ Memberships'
  BY <1>1, PInvSame, GrantedSame, MembershipsSame DEF projectVars, IInv, PInv, ProjectsTypeOK
<1>3. Counted' /\ RateHolds'
  BY <1>1, CountedSame DEF IInv
<1>4. Accountable'
  <2>1. /\ accounts' \in [Users -> AccountType] /\ accounts'[DemoViewer] = new
        /\ \A w \in Users \ {DemoViewer} : accounts'[w] = accounts[w]
    BY <1>0, <1>1, WBounds DEF IInv, Accountable
  <2>2. new # Missing
    BY <1>0, MissingAccount
  <2>3. first = "demo" \/ \E w \in Users : accounts'[w].legacy = "admin"
    BY <1>0, <1>1, <2>1, WBounds DEF IInv, Accountable, SetupRequired, accountOf
  <2> QED BY <1>0, <1>1, <2>1, <2>2, <2>3, WBounds DEF IInv, Accountable, accountOf, Exists
<1>5. WTypes'
  <2>1. events' \in 0 .. MaxEvents
    BY EventCounts DEF ChangeRole, IInv, WTypes
  <2> QED BY <1>1, <2>1 DEF IInv, WTypes
<1> QED BY <1>2, <1>3, <1>4, <1>5 DEF IInv

LEMMA AcceptImportKeeps ==
  ASSUME IInv, NEW h \in Handlers, NEW u \in Users, NEW kind \in Kinds, NEW n \in Names, NEW nested \in BOOLEAN,
         AcceptImport(h, u, kind, n, nested)
  PROVE  IInv'
<1>1. /\ Accept(h, u, kind, n, nested) /\ UNCHANGED <<demoVars, mode, accounts, clock, edited, first>>
      /\ UNCHANGED <<projects, members, abandoned>>
  BY DEF AcceptImport, Accept
<1>2. PInv'
  BY <1>1, AcceptKeeps DEF IInv
<1>3. Granted'
  <2>1. job[h].pc = "idle" /\ \A g \in Handlers \ {h} : job'[g] = job[g]
    BY <1>1 DEF Accept, IInv, PInv, ProjectsTypeOK
  <2>2. \A i \in Imports : Running(i) => Running(i)'
    BY <2>1 DEF Running
  <2> QED BY <1>1, <2>2 DEF IInv, Granted
<1>4. Memberships' /\ Accountable'
  BY <1>1, MembershipsSame, AccountableSame DEF IInv, demoVars
<1>5. Counted' /\ RateHolds'
  BY <1>1, CountedSame DEF IInv, demoVars
<1>6. WTypes'
  <2>1. events' \in 0 .. MaxEvents
    BY EventCounts DEF AcceptImport, IInv, WTypes
  <2> QED BY <1>1, <2>1 DEF IInv, WTypes, demoVars
<1> QED BY <1>2, <1>3, <1>4, <1>5, <1>6 DEF IInv

LEMMA StepKeepsMemberships ==
  ASSUME PInv, Memberships, NEW h \in Handlers, ImportStep(h)
  PROVE  Memberships'
<1>0. Placed(job[h]) /\ RowOf(job[h]) /\ (job[h].pc # "idle" => job[h].import \in Imports)
  BY Bounds DEF PInv, Jobs, Placed, Imports, ProjectsTypeOK
<1>1. CASE Insert(h)
  <2>1. /\ members' = members /\ projects[job[h].import] = Null /\ job[h].import \in Imports
        /\ \A i \in Imports \ {job[h].import} : projects'[i] = projects[i]
    BY <1>0, <1>1 DEF Insert, PInv, ProjectsTypeOK, RowOf
  <2> QED BY <2>1 DEF Memberships
<1>2. CASE Grant(h)
  <2>1. /\ members' = members \cup {<<job[h].user, job[h].import>>} /\ projects' = projects
        /\ job[h].user \in Users /\ job[h].import \in Imports /\ job[h].dir \in Dirs \cup {Outside}
        /\ projects[job[h].import] = [path |-> job[h].dir, by |-> job[h].user]
    BY <1>0, <1>2 DEF Grant, Placed, RowOf
  <2>2. projects[job[h].import] # Null /\ projects[job[h].import].by = job[h].user
    <3>1. [path |-> job[h].dir, by |-> job[h].user] \in [path : Dirs \cup {Outside}, by : Users]
      BY <2>1
    <3> QED BY <2>1, <3>1, DirsAssumption
  <2>3. members' \subseteq Users \X (Imports \cup {Bundled})
    BY <2>1 DEF Memberships
  <2>4. ASSUME NEW u \in Users, NEW i \in Imports, <<u, i>> \in members'
        PROVE  projects[i] # Null /\ projects[i].by = u
    <3>1. CASE <<u, i>> \in members
      BY <3>1 DEF Memberships
    <3>2. CASE u = job[h].user /\ i = job[h].import
      BY <2>2, <3>2
    <3> QED BY <2>1, <2>4, <3>1, <3>2
  <2> QED BY <2>1, <2>3, <2>4 DEF Memberships
<1>3. CASE ~Insert(h) /\ ~Grant(h)
  <2>1. UNCHANGED <<projects, members>>
    BY <1>3 DEF ImportStep, Choose, CloneStarts, CloneRefused, Cloned, CloneFails, CloneTimesOut, MakeDir, Extract,
       ExtractFails, MoveAside, RemoveEmptied, MoveBack, TransactionFails
  <2> QED BY <2>1, MembershipsSame
<1> QED BY <1>1, <1>2, <1>3

LEMMA ImportGoesOnKeeps ==
  ASSUME IInv, NEW h \in Handlers, ImportGoesOn(h)
  PROVE  IInv'
<1>1. ImportStep(h) /\ UNCHANGED <<demoVars, mode, accounts, clock, events, edited, first>>
  BY DEF ImportGoesOn
<1>2. PInv' /\ Granted' /\ Memberships'
  BY <1>1, ImportStepKeeps, StepKeepsGranted, StepKeepsMemberships DEF IInv
<1>3. Accountable' /\ Counted' /\ RateHolds'
  BY <1>1, AccountableSame, CountedSame DEF IInv, demoVars
<1>4. WTypes'
  BY <1>1 DEF IInv, WTypes, demoVars
<1> QED BY <1>2, <1>3, <1>4 DEF IInv

-----------------------------------------------------------------------------
(* A visit.  Nothing of it touches projects or accounts.                   *)
LEMMA VisitUntouched ==
  ASSUME IInv, UNCHANGED <<dirs, projects, members, job, imports, shared, abandoned, mode, accounts, edited, first>>,
         faults' \in 0 .. MaxFaults
  PROVE  /\ PInv' /\ Granted' /\ Memberships'
         /\ sessions' \subseteq sessions => Accountable'
BY PInvSame, GrantedSame, MembershipsSame, AccountableSame DEF IInv

LEMMA VisitBeginsKeeps ==
  ASSUME IInv, NEW v \in Visitors, NEW a \in Addresses, VisitBegins(v, a)
  PROVE  IInv'
<1> DEFINE new == [pc |-> "stamped", from |-> a, at |-> clock, no |-> events']
<1>1. /\ visit' = [visit EXCEPT ![v] = new] /\ UNCHANGED <<visitUnchanged, sessions, stamps, admitted>>
  BY DEF VisitBegins
<1>2. PInv' /\ Granted' /\ Memberships' /\ Accountable'
  BY <1>1, VisitUntouched DEF visitUnchanged, projectVars, IInv, PInv, ProjectsTypeOK
<1>3. Counted' /\ RateHolds'
  BY <1>1, CountedSame DEF IInv
<1>4. WTypes'
  <2>1. events' \in 0 .. MaxEvents
    BY EventCounts DEF VisitBegins, IInv, WTypes
  <2>2. /\ new \in [pc : {"idle", "stamped", "admitted", "opened"}, from : Addresses \cup {Null},
                    at : Times, no : 0 .. MaxEvents]
        /\ new.from \in Addresses
    BY <2>1 DEF IInv, WTypes
  <2> HIDE DEF new
  <2> QED BY <1>1, <2>1, <2>2 DEF IInv, WTypes, visitUnchanged
<1> QED BY <1>2, <1>3, <1>4 DEF IInv

LEMMA RestKeeps ==
  ASSUME IInv, NEW v \in Visitors, visit' = [visit EXCEPT ![v] = Resting],
         UNCHANGED <<dirs, projects, members, job, imports, shared, abandoned, mode, accounts, edited, first>>,
         faults' \in 0 .. MaxFaults, sessions' \subseteq sessions,
         UNCHANGED <<clock, stamps, admitted, events>>
  PROVE  IInv'
<1>1. PInv' /\ Granted' /\ Memberships' /\ Accountable'
  BY VisitUntouched
<1>2. Counted' /\ RateHolds'
  BY CountedSame DEF IInv
<1>3. WTypes'
  BY RestingType DEF IInv, WTypes
<1> QED BY <1>1, <1>2, <1>3 DEF IInv

LEMMA OpenSessionKeeps ==
  ASSUME IInv, NEW v \in Visitors, OpenSession(v)
  PROVE  IInv'
<1> DEFINE new == [no |-> visit[v].no, created |-> clock, opened |-> accounts[DemoViewer].roles]
<1>1. /\ sessions' \subseteq sessions \cup {new} /\ Proceed(v, "opened")
      /\ UNCHANGED <<visitUnchanged, stamps, admitted, events>>
  BY DEF OpenSession
<1>2. PInv' /\ Granted' /\ Memberships'
  BY <1>1, VisitUntouched DEF visitUnchanged, projectVars, IInv, PInv, ProjectsTypeOK
<1>3. Counted' /\ RateHolds'
  BY <1>1, CountedSame DEF IInv
<1>4. new \in [no : 0 .. MaxEvents, created : Times, opened : SUBSET Roles] /\ new.opened = accountOf.roles
  BY WBounds DEF IInv, WTypes, Accountable, AccountType, accountOf
<1> HIDE DEF new
<1>5. Accountable'
  <2>1. UNCHANGED <<accounts, mode, edited, first>>
    BY <1>1 DEF visitUnchanged
  <2>2. accountOf.by = "demo" => \A s \in sessions' : accountOf.roles \subseteq s.opened \cup {"viewer"}
    BY <1>1, <1>4 DEF IInv, Accountable
  <2> QED BY <2>1, <2>2 DEF IInv, Accountable, accountOf, Exists, SetupRequired
<1>6. WTypes'
  <2>1. \A w \in Visitors : visit'[w].pc = "stamped" => visit'[w].from \in Addresses
    BY <1>1 DEF Proceed, IInv, WTypes
  <2>2. visit' \in [Visitors -> [pc : {"idle", "stamped", "admitted", "opened"}, from : Addresses \cup {Null},
                                 at : Times, no : 0 .. MaxEvents]]
    BY <1>1 DEF Proceed, IInv, WTypes
  <2> QED BY <1>1, <1>4, <2>1, <2>2 DEF IInv, WTypes, visitUnchanged
<1> QED BY <1>2, <1>3, <1>5, <1>6 DEF IInv

LEMMA AdvanceKeeps ==
  ASSUME IInv, Advance
  PROVE  IInv'
<1>1. UNCHANGED <<projectVars, demoVars, mode, accounts, events, edited, first>>
  BY DEF Advance
<1>2. PInv' /\ Granted' /\ Memberships' /\ Accountable'
  BY <1>1, VisitUntouched DEF projectVars, demoVars, IInv, PInv, ProjectsTypeOK
<1>3. Counted' /\ RateHolds'
  BY <1>1, CountedSame DEF IInv, demoVars
<1>4. WTypes'
  <2>1. clock' \in Times
    BY WBounds DEF Advance, IInv, WTypes, Times
  <2> QED BY <1>1, <2>1 DEF IInv, WTypes, demoVars
<1> QED BY <1>2, <1>3, <1>4 DEF IInv

(* The admissions that count against a time: those of requests that were   *)
(* not overtaken, at most Window before it.                                *)
Within(admissions, time) == {t \in admissions : ~t.overtaken /\ time - Window <= t.at /\ t.at <= time}

LEMMA Stamped ==
  ASSUME NEW A \in SUBSET [no : 0 .. MaxEvents, at : Times, overtaken : BOOLEAN], NEW S, IsFiniteSet(S),
         \A t \in A : ~t.overtaken, \A t \in A : [no |-> t.no, at |-> t.at] \in S
  PROVE  IsFiniteSet(A) /\ Cardinality(A) <= Cardinality(S)
<1> DEFINE f == [t \in A |-> [no |-> t.no, at |-> t.at]]
<1>1. f \in [A -> S]
  OBVIOUS
<1>2. ASSUME NEW s \in A, NEW t \in A, f[s] = f[t] PROVE s = t
  BY <1>2
<1>3. f \in Injection(A, S)
  <2> HIDE DEF f
  <2> QED BY <1>1, <1>2 DEF Injection, IsInjective
<1> HIDE DEF f
<1> QED BY <1>3, FS_Injection

LEMMA AdmitKeeps ==
  ASSUME IInv, NEW v \in Visitors, Admit(v)
  PROVE  IInv'
<1> DEFINE a == visit[v].from
           now == visit[v].at
           stamp == [no |-> visit[v].no, at |-> now]
           late == \E s \in admitted[a] : s.at > now
           new == [no |-> visit[v].no, at |-> now, overtaken |-> late]
           recent == Recent(a, now)
<1>1. /\ a \in Addresses /\ now \in Times /\ visit[v].no \in 0 .. MaxEvents /\ Cardinality(recent) < Limit
      /\ stamps' = [stamps EXCEPT ![a] = recent \cup {stamp}]
      /\ admitted' = [admitted EXCEPT ![a] = @ \cup {new}]
      /\ Proceed(v, "admitted") /\ UNCHANGED <<visitUnchanged, sessions, events>>
  BY DEF Admit, Visiting, IInv, WTypes
<1>2. PInv' /\ Granted' /\ Memberships' /\ Accountable'
  BY <1>1, VisitUntouched DEF visitUnchanged, projectVars, IInv, PInv, ProjectsTypeOK
<1>3. /\ stamps'[a] = recent \cup {stamp} /\ admitted'[a] = admitted[a] \cup {new}
      /\ \A b \in Addresses \ {a} : stamps'[b] = stamps[b] /\ admitted'[b] = admitted[b]
  BY <1>1 DEF IInv, WTypes
<1>4. /\ recent \subseteq stamps[a] /\ \A s \in stamps[a] : s.at >= now - Window => s \in recent
      /\ \A s \in stamps[a] : s.at \in Nat
  BY <1>1 DEF Recent, IInv, WTypes, Times
<1>5. /\ new.at = now /\ new.no = visit[v].no /\ (new.overtaken <=> late) /\ new.overtaken \in BOOLEAN
      /\ stamp = [no |-> new.no, at |-> new.at]
      /\ now \in Nat /\ Window \in Nat /\ Limit \in Nat
      /\ admitted[a] \subseteq [no : 0 .. MaxEvents, at : Times, overtaken : BOOLEAN]
      /\ \A t \in admitted[a] : t.at \in Nat
  BY <1>1, WBounds DEF IInv, WTypes, Times
<1>6. IsFiniteSet(stamps[a]) /\ IsFiniteSet(admitted[a]) /\ IsFiniteSet(recent)
  BY <1>1, <1>4, FS_Subset DEF IInv, Counted
<1>7. \A s \in admitted[a] :
         ~s.overtaken /\ (\A t \in admitted[a] : t.at <= s.at + Window) => [no |-> s.no, at |-> s.at] \in stamps[a]
  BY <1>1 DEF IInv, Counted
<1>8. WTypes'
  <2>1. new \in [no : 0 .. MaxEvents, at : Times, overtaken : BOOLEAN] /\ stamp \in [no : 0 .. MaxEvents, at : Times]
    BY <1>1
  <2>2. admitted' \in [Addresses -> SUBSET [no : 0 .. MaxEvents, at : Times, overtaken : BOOLEAN]]
    <3> HIDE DEF new
    <3> QED BY <1>1, <2>1 DEF IInv, WTypes
  <2>3. stamps' \in [Addresses -> SUBSET [no : 0 .. MaxEvents, at : Times]]
    <3> HIDE DEF recent, stamp
    <3> QED BY <1>1, <1>4, <2>1 DEF IInv, WTypes
  <2>4. /\ \A w \in Visitors : visit'[w].pc = "stamped" => visit'[w].from \in Addresses
        /\ visit' \in [Visitors -> [pc : {"idle", "stamped", "admitted", "opened"}, from : Addresses \cup {Null},
                                    at : Times, no : 0 .. MaxEvents]]
    BY <1>1 DEF Proceed, IInv, WTypes
  <2> HIDE DEF new, stamp, recent, a, now
  <2> QED BY <1>1, <2>2, <2>3, <2>4 DEF IInv, WTypes, visitUnchanged
<1> HIDE DEF a, now, stamp, late, new, recent
<1>9. Counted'
  <2>1. IsFiniteSet(stamps'[a]) /\ IsFiniteSet(admitted'[a])
    BY <1>3, <1>6, FS_AddElement
  <2>2. ASSUME NEW s \in admitted'[a], ~s.overtaken, \A t \in admitted'[a] : t.at <= s.at + Window
        PROVE  [no |-> s.no, at |-> s.at] \in stamps'[a]
    <3>1. CASE s = new
      BY <1>3, <1>5, <3>1
    <3>2. CASE s \in admitted[a]
      <4>1. [no |-> s.no, at |-> s.at] \in stamps[a]
        BY <1>3, <1>7, <2>2, <3>2
      <4>2. s.at >= now - Window
        BY <1>3, <1>5, <2>2, <3>2
      <4> QED BY <1>3, <1>4, <4>1, <4>2
    <3> QED BY <1>3, <3>1, <3>2
  <2>3. ASSUME NEW b \in Addresses \ {a}
        PROVE  /\ IsFiniteSet(stamps'[b]) /\ IsFiniteSet(admitted'[b])
               /\ \A s \in admitted'[b] : ~s.overtaken /\ (\A t \in admitted'[b] : t.at <= s.at + Window)
                                             => [no |-> s.no, at |-> s.at] \in stamps'[b]
    BY <1>3 DEF IInv, Counted
  <2> QED BY <2>1, <2>2, <2>3 DEF Counted
<1>10. ASSUME ~late PROVE Cardinality(Within(admitted[a], now)) < Limit /\ IsFiniteSet(Within(admitted[a], now))
  <2> DEFINE A == Within(admitted[a], now)
  <2>1. \A u \in admitted[a] : u.at <= now
    BY <1>5, <1>10 DEF late
  <2>2. ASSUME NEW t \in A PROVE ~t.overtaken /\ [no |-> t.no, at |-> t.at] \in recent
    <3>1. t \in admitted[a] /\ ~t.overtaken /\ now - Window <= t.at
      BY DEF Within
    <3>2. \A u \in admitted[a] : u.at <= t.at + Window
      BY <1>5, <2>1, <3>1
    <3>3. [no |-> t.no, at |-> t.at] \in stamps[a]
      BY <1>7, <3>1, <3>2
    <3> QED BY <1>4, <3>1, <3>3
  <2>3. A \in SUBSET [no : 0 .. MaxEvents, at : Times, overtaken : BOOLEAN]
    BY <1>5 DEF Within
  <2> HIDE DEF A
  <2>4. IsFiniteSet(A) /\ Cardinality(A) <= Cardinality(recent)
    BY <1>6, <2>2, <2>3, Stamped
  <2>5. Cardinality(A) \in Nat /\ Cardinality(recent) \in Nat
    BY <1>6, <2>4, FS_CardinalityType
  <2> QED BY <1>1, <1>5, <2>4, <2>5 DEF A
<1>11. ASSUME NEW s \in admitted'[a], ~s.overtaken
       PROVE  Cardinality(Within(admitted'[a], s.at)) <= Limit
  <2>1. CASE ~late /\ s.at = now
    <3>1. Within(admitted'[a], s.at) = Within(admitted[a], now) \cup {new}
      BY <1>3, <1>5, <2>1 DEF Within
    <3>0. Cardinality(Within(admitted[a], now)) < Limit /\ IsFiniteSet(Within(admitted[a], now))
      BY <1>10, <2>1
    <3>2. /\ IsFiniteSet(Within(admitted[a], now) \cup {new})
          /\ \/ Cardinality(Within(admitted[a], now) \cup {new}) = Cardinality(Within(admitted[a], now))
             \/ Cardinality(Within(admitted[a], now) \cup {new}) = Cardinality(Within(admitted[a], now)) + 1
      BY <3>0, FS_AddElement
    <3>3. Cardinality(Within(admitted[a], now)) \in Nat
      BY <3>0, FS_CardinalityType
    <3> QED BY <1>5, <3>0, <3>1, <3>2, <3>3
  <2>2. CASE ~(~late /\ s.at = now)
    <3>1. s \in admitted[a]
      BY <1>3, <1>5, <1>11, <2>2
    <3>2. new.overtaken \/ s.at < now
      BY <1>5, <2>2, <3>1 DEF late
    <3>3. Within(admitted'[a], s.at) = Within(admitted[a], s.at)
      BY <1>3, <1>5, <3>1, <3>2 DEF Within
    <3>4. Cardinality(Within(admitted[a], s.at)) <= Limit
      BY <1>1, <1>11, <3>1 DEF IInv, RateHolds, Within
    <3> QED BY <3>3, <3>4
  <2> QED BY <2>1, <2>2
<1>12. RateHolds'
  <2>1. ASSUME NEW b \in Addresses, NEW s \in admitted'[b], ~s.overtaken
        PROVE  Cardinality({t \in admitted'[b] : ~t.overtaken /\ s.at - Window <= t.at /\ t.at <= s.at}) <= Limit
    <3>1. CASE b = a
      BY <1>11, <2>1, <3>1 DEF Within
    <3>2. CASE b # a
      BY <1>3, <2>1, <3>2 DEF IInv, RateHolds
    <3> QED BY <3>1, <3>2
  <2> QED BY <2>1 DEF RateHolds
<1> QED BY <1>2, <1>8, <1>9, <1>12 DEF IInv

LEMMA VisitStepKeeps ==
  ASSUME IInv, NEW v \in Visitors, VisitStep(v)
  PROVE  IInv'
<1>0. faults \in 0 .. MaxFaults
  BY DEF IInv, PInv, ProjectsTypeOK
<1>1. CASE Refuse(v)
  BY <1>0, <1>1, RestKeeps DEF Refuse, visitUnchanged, projectVars
<1>2. CASE Trim(v)
  BY <1>0, <1>2, RestKeeps DEF Trim, visitUnchanged, projectVars
<1>3. CASE VisitFails(v)
  <2>1. faults' \in 0 .. MaxFaults
    BY <1>0, <1>3, Bounds DEF VisitFails, Fault
  <2> QED BY <1>3, <2>1, RestKeeps DEF VisitFails
<1> QED BY <1>1, <1>2, <1>3, AdmitKeeps, OpenSessionKeeps DEF VisitStep

-----------------------------------------------------------------------------
LEMMA InitHolds == Init => IInv
<1> SUFFICES ASSUME Init PROVE IInv
  OBVIOUS
<1>1. PInv /\ Granted
  BY InitKeeps DEF Init
<1>2. Memberships
  BY DEF Init, ProjectsInit, Memberships
<1>3. Accountable
  BY MissingAccount, WBounds DEF Init, Accountable, Exists, accountOf, SetupRequired, Missing
<1>4. Counted /\ RateHolds
  BY FS_EmptySet DEF Init, Counted, RateHolds
<1>5. WTypes
  BY RestingType, WBounds DEF Init, WTypes, Times
<1> QED BY <1>1, <1>2, <1>3, <1>4, <1>5 DEF IInv

LEMMA StepHolds == IInv /\ [Next]_vars => IInv'
<1> SUFFICES ASSUME IInv, [Next]_vars PROVE IInv'
  OBVIOUS
<1>1. CASE Next
  BY <1>1, RestartKeeps, SetupKeeps, CreateUserKeeps, ChangeRoleKeeps, AcceptImportKeeps, ImportGoesOnKeeps,
     VisitBeginsKeeps, VisitStepKeeps, AdvanceKeeps DEF Next
<1>2. CASE UNCHANGED vars
  <2>1. PInv' /\ Granted' /\ Memberships' /\ Accountable'
    BY <1>2, VisitUntouched DEF vars, projectVars, demoVars, IInv, PInv, ProjectsTypeOK
  <2>2. Counted' /\ RateHolds'
    BY <1>2, CountedSame DEF IInv, vars, demoVars
  <2>3. WTypes'
    BY <1>2 DEF IInv, WTypes, vars, demoVars
  <2> QED BY <2>1, <2>2, <2>3 DEF IInv
<1> QED BY <1>1, <1>2

(* Imports keep to their directories and files to their imports, accounts  *)
(* keep what the startups owe them, and the table of stamps keeps what the *)
(* limit has to count, through every interleaving and restart.             *)
THEOREM InductiveInvariant == Spec => []IInv
<1>1. Init => IInv
  BY InitHolds
<1>2. IInv /\ [Next]_vars => IInv'
  BY StepHolds
<1> QED BY <1>1, <1>2, PTL DEF Spec

(* The types of directories, rows, requests, accounts, sessions and stamps *)
(* hold in every state.                                                    *)
THEOREM TypeCorrect == Spec => []TypeOK
<1>1. IInv => TypeOK
  BY DEF IInv, PInv, Memberships, Accountable, WTypes, TypeOK
<1> QED BY <1>1, InductiveInvariant, PTL

(* However many imports run at once, under the same name or not, and       *)
(* however they are refused, fail or are cut off (clone_repository,        *)
(* extract_zip_repository): a project's directory holds its files, all of  *)
(* them and nothing else, but where a clone entered an archive's.          *)
THEOREM FilesStayIntact == Spec => []FilesIntact
<1>1. IInv => FilesIntact
  BY DEF IInv, PInv, Kept
<1> QED BY <1>1, InductiveInvariant, PTL

(* Files without a project, and projects without a member (main.py inserts *)
(* the row and the membership in two transactions), belong to an import    *)
(* that still runs or that a failure ended.                                *)
THEOREM NothingLeftHalfDone == Spec => []NothingHalfDone
<1>1. ASSUME IInv, NEW d \in Dirs \ shared, NEW f \in Files(d)
      PROVE  (Managed(f.of) /\ projects[f.of].path = d) \/ Running(f.of) \/ f.of \in abandoned
  BY <1>1 DEF IInv, PInv, Kept, Accounted, PutThere, Running
<1>2. IInv => NothingHalfDone
  BY <1>1 DEF NothingHalfDone, IInv, Granted
<1> QED BY <1>2, InductiveInvariant, PTL

(* The account of the demo (demo_mode._insert_demo_user, db._seed_rbac,    *)
(* main.update_user_roles) only views while no owner changes it, its       *)
(* sessions never gain a right, and it sees the bundled project and what   *)
(* it imported itself.                                                     *)
THEOREM DemoViewsOnly == Spec => []DemoOnlyViews
<1>1. ASSUME IInv, ~Holds(DemoViewer, {"owner"}), NEW i \in Visible(DemoViewer)
      PROVE  i = Bundled \/ projects[i].by = DemoViewer
  BY <1>1, WBounds DEF Visible, IInv, Memberships
<1>2. IInv => DemoOnlyViews
  BY <1>1 DEF IInv, Accountable, DemoOnlyViews
<1> QED BY <1>2, InductiveInvariant, PTL

(* create_demo_session admits at most Limit requests of an address within  *)
(* a window, those overtaken between the clock and the lock apart: every   *)
(* admission that a later one has to count is still in the table.          *)
THEOREM RateIsHeld == Spec => []RateHolds
<1>1. IInv => RateHolds
  BY DEF IInv
<1> QED BY <1>1, InductiveInvariant, PTL

(* A local backend can be set up or has an owner, whatever modes ran on    *)
(* its data directory, unless the demo made the first account.             *)
THEOREM OwnerOrSetupOpen == Spec => []OwnerOrSetup
<1>1. IInv => OwnerOrSetup
  BY DEF IInv, Accountable, OwnerOrSetup, OwnerLogsIn, Holds
<1> QED BY <1>1, InductiveInvariant, PTL
=============================================================================
