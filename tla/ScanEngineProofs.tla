-------------------------- MODULE ScanEngineProofs --------------------------
(***************************************************************************)
(* TLAPS proofs about ScanEngine, for every set of scans, repositories,    *)
(* requests, scanners and findings and every bound.                        *)
(***************************************************************************)
EXTENDS ScanEngine, Functions, FiniteSetTheorems, TLAPS

(* A quotient is bounded by what bounds the dividend. *)
LEMMA Quotient ==
  ASSUME NEW a \in Nat, NEW n \in Nat, n > 0, NEW m \in Nat, a <= m * n
  PROVE  a \div n \in 0..m
<1>1. a \div n \in Nat
  OBVIOUS
<1>2. a \div n <= m
  OBVIOUS
<1> QED BY <1>1, <1>2

LEMMA Division ==
  ASSUME NEW a \in Nat, NEW n \in Nat, n > 0
  PROVE  /\ a \div n \in Nat /\ a % n \in 0 .. n - 1
         /\ a = n * (a \div n) + (a % n)
<1>1. a \div n \in Nat
  OBVIOUS
<1>2. a % n \in 0 .. n - 1
  OBVIOUS
<1>3. a = n * (a \div n) + (a % n)
  OBVIOUS
<1> QED BY <1>1, <1>2, <1>3

LEMMA NotAllOf ==
  ASSUME NEW a \in Nat, NEW n \in Nat, a < 100 * n
  PROVE  a \div n # 100
<1> DEFINE q == a \div n
           r == a % n
<1>1. n > 0
  OBVIOUS
<1>2. q \in Nat /\ r \in 0 .. n - 1 /\ a = n * q + r
  BY <1>1, Division
<1> HIDE DEF q, r
<1>3. ASSUME q = 100 PROVE FALSE
  <2>1. a = n * 100 + r
    BY <1>2, <1>3
  <2> QED BY <1>2, <2>1
<1>4. q # 100
  BY <1>3
<1> QED BY <1>4 DEF q

(* A scan that is cancelled has a scanner left: it shows less than 100      *)
(* percent.                                                                 *)
LEMMA PartOnly ==
  ASSUME NEW n \in Nat, NEW i \in Nat, i < n
  PROVE  (i * 100) \div n # 100
<1>1. i * 100 \in Nat /\ i * 100 < 100 * n
  OBVIOUS
<1> QED BY <1>1, NotAllOf

LEMMA Percent ==
  ASSUME NEW p \in 0..100
  PROVE  p \in Nat
OBVIOUS

LEMMA Below ==
  ASSUME NEW p \in 0..90
  PROVE  p \in Nat /\ p # 100
OBVIOUS

LEMMA FirstNumbers ==
  ASSUME NEW n \in Nat
  PROVE  IsFiniteSet(1 .. n) /\ Cardinality(1 .. n) = n
<1>1. IsFiniteSet(1 .. n) /\ Cardinality(1 .. n) = IF 1 > n THEN 0 ELSE n - 1 + 1
  BY FS_Interval
<1> QED BY <1>1

USE ConstantsAssumption

(* The part i of n steps, in percent of m. *)
LEMMA Share ==
  ASSUME NEW n \in Nat, NEW i \in Nat, n > 0, i <= n
  PROVE  (i * 90) \div n \in 0..90 /\ (i * 100) \div n \in 0..100
<1>1. i * 90 \in Nat /\ i * 90 <= 90 * n /\ i * 100 \in Nat /\ i * 100 <= 100 * n
  OBVIOUS
<1>2. (i * 90) \div n \in 0..90
  BY <1>1, Quotient
<1>3. (i * 100) \div n \in 0..100
  BY <1>1, Quotient
<1> QED BY <1>2, <1>3

(* A request selects a list of scanners, each of them once. *)
LEMMA SelectionType ==
  ASSUME NEW q \in Requests
  PROVE  /\ Selected(q) \in Seq(Tools)
         /\ \A i, j \in DOMAIN Selected(q) : Selected(q)[i] = Selected(q)[j] => i = j
<1>1. q.tools \in Seq(Tools) /\ \A i, j \in DOMAIN q.tools : q.tools[i] = q.tools[j] => i = j
  OBVIOUS
<1>2. CASE \E i \in DOMAIN q.tools : q.tools[i] = Builtin
  BY <1>1, <1>2 DEF Selected
<1>3. CASE ~ \E i \in DOMAIN q.tools : q.tools[i] = Builtin
  <2>1. Selected(q) = <<Builtin>> \o q.tools
    BY <1>3 DEF Selected
  <2>2. Selected(q) \in Seq(Tools)
    BY <1>1, <2>1
  <2>3. DOMAIN Selected(q) = 1 .. Len(q.tools) + 1
    BY <1>1, <2>1
  <2>4. /\ Selected(q)[1] = Builtin
        /\ \A i \in 2 .. Len(q.tools) + 1 :
              Selected(q)[i] = q.tools[i - 1] /\ i - 1 \in DOMAIN q.tools
    BY <1>1, <2>1
  <2>5. ASSUME NEW i \in DOMAIN Selected(q), NEW j \in DOMAIN Selected(q),
               Selected(q)[i] = Selected(q)[j]
        PROVE  i = j
    <3>1. CASE i = 1 \/ j = 1
      BY <1>3, <2>3, <2>4, <2>5, <3>1
    <3>2. CASE i # 1 /\ j # 1
      <4>1. i \in 2 .. Len(q.tools) + 1 /\ j \in 2 .. Len(q.tools) + 1
        BY <1>1, <2>3, <3>2
      <4>2. i - 1 = j - 1
        BY <1>1, <2>4, <2>5, <4>1
      <4> QED BY <1>1, <4>1, <4>2
    <3> QED BY <3>1, <3>2
  <2> QED BY <2>2, <2>5
<1> QED BY <1>2, <1>3

LEMMA RunnersType ==
  ASSUME TypeOK, NEW s \in Scans, req[s] # None
  PROVE  /\ Runners(s) \subseteq Nat /\ IsFiniteSet(Runners(s))
         /\ Steps(s) \in Nat
         /\ \A i \in Runners(s) : Selected(req[s])[i] \in Tools
         /\ \A i, j \in Runners(s) : Selected(req[s])[i] = Selected(req[s])[j] => i = j
<1> DEFINE l == Selected(req[s])
<1>1. l \in Seq(Tools) /\ \A i, j \in DOMAIN l : l[i] = l[j] => i = j
  BY SelectionType DEF TypeOK
<1>2. Runners(s) \subseteq DOMAIN l
  BY DEF Runners
<1> HIDE DEF l
<1>3. DOMAIN l = 1 .. Len(l) /\ Len(l) \in Nat
  BY <1>1
<1>4. IsFiniteSet(DOMAIN l)
  <2>1. IsFiniteSet(1 .. Len(l))
    BY <1>3, FirstNumbers
  <2> QED BY <1>3, <2>1
<1>5. IsFiniteSet(Runners(s))
  BY <1>2, <1>4, FS_Subset
<1>6. Steps(s) \in Nat
  BY <1>5, FS_CardinalityType DEF Steps
<1>7. Runners(s) \subseteq Nat
  BY <1>2, <1>3
<1>8. \A i \in Runners(s) : l[i] \in Tools
  BY <1>1, <1>2
<1> QED BY <1>1, <1>2, <1>5, <1>6, <1>7, <1>8 DEF l

LEMMA StepsType ==
  ASSUME TypeOK, NEW s \in Scans, req[s] # None
  PROVE  Steps(s) \in Nat
BY RunnersType

(* Every runner has an index of its own, and every index is that of one. *)
LEMMA IndexType ==
  ASSUME TypeOK, NEW s \in Scans, req[s] # None, NEW i \in Runners(s)
  PROVE  Index(s, i) \in 1 .. Steps(s)
<1> DEFINE U == {j \in Runners(s) : j <= i}
<1>1. IsFiniteSet(Runners(s)) /\ Runners(s) \subseteq Nat /\ Steps(s) \in Nat
  BY RunnersType
<1>2. IsFiniteSet(U) /\ Cardinality(U) <= Cardinality(Runners(s))
  <2>1. U \in SUBSET Runners(s)
    OBVIOUS
  <2> HIDE DEF U
  <2> QED BY <1>1, <2>1, FS_Subset
<1>3. i \in U
  BY <1>1
<1> HIDE DEF U
<1>4. Cardinality(U) \in Nat /\ Cardinality(U) # 0
  BY <1>2, <1>3, FS_CardinalityType, FS_EmptySet
<1>5. Cardinality(U) \in 1 .. Steps(s)
  BY <1>1, <1>2, <1>4 DEF Steps
<1> QED BY <1>5 DEF U, Index

LEMMA IndexInjective ==
  ASSUME TypeOK, NEW s \in Scans, req[s] # None,
         NEW i \in Runners(s), NEW j \in Runners(s), Index(s, i) = Index(s, j)
  PROVE  i = j
<1>1. IsFiniteSet(Runners(s)) /\ Runners(s) \subseteq Nat
  BY RunnersType
<1>2. ASSUME NEW a \in Runners(s), NEW b \in Runners(s), a < b, Index(s, a) = Index(s, b)
      PROVE  FALSE
  <2> DEFINE U == {c \in Runners(s) : c <= a}
             V == {c \in Runners(s) : c <= b}
  <2>1. U \in SUBSET V /\ b \in V /\ b \notin U /\ V \in SUBSET Runners(s)
    BY <1>1, <1>2
  <2>2. Cardinality(U) = Cardinality(V)
    BY <1>2 DEF Index
  <2> HIDE DEF U, V
  <2>3. IsFiniteSet(V)
    BY <1>1, <2>1, FS_Subset
  <2>4. U = V
    BY <2>1, <2>2, <2>3, FS_Subset
  <2> QED BY <2>1, <2>4
<1>3. ~(i < j) /\ ~(j < i)
  BY <1>2
<1> QED BY <1>1, <1>3

LEMMA IndexOnto ==
  ASSUME TypeOK, NEW s \in Scans, req[s] # None, NEW n \in 1 .. Steps(s)
  PROVE  \E i \in Runners(s) : Index(s, i) = n
<1> DEFINE N == 1 .. Steps(s)
           f == [i \in Runners(s) |-> Index(s, i)]
<1>1. Steps(s) \in Nat
  BY StepsType
<1>2. IsFiniteSet(N) /\ Cardinality(N) = Cardinality(Runners(s))
  BY <1>1, FirstNumbers DEF Steps
<1>3. f \in [Runners(s) -> N]
  BY IndexType
<1>4. \A i, j \in Runners(s) : f[i] = f[j] => i = j
  BY IndexInjective
<1>5. \A i \in Runners(s) : f[i] = Index(s, i)
  OBVIOUS
<1>6. n \in N
  OBVIOUS
<1> HIDE DEF f, N
<1>7. f \in Injection(Runners(s), N)
  BY <1>3, <1>4 DEF Injection, IsInjective
<1>8. f \in Surjection(Runners(s), N)
  BY <1>2, <1>7, FS_Injection
<1>9. \E i \in Runners(s) : f[i] = n
  BY <1>6, <1>8 DEF Surjection
<1> QED BY <1>5, <1>9

(* What is due from the first index on, at the end, and next. *)
LEMMA DueAtFirst ==
  ASSUME TypeOK, NEW s \in Scans, req[s] # None
  PROVE  /\ Due(s, 1) = SelectedKeys(req[s]) \ Skipped(s)
         /\ Skipped(s) \subseteq SelectedKeys(req[s])
         /\ SelectedKeys(req[s]) \subseteq Tools
<1>1. \A i \in Runners(s) : Index(s, i) >= 1
  BY IndexType, StepsType
<1>2. Due(s, 1) = {Selected(req[s])[i] : i \in Runners(s)}
  BY <1>1 DEF Due
<1>3. {Selected(req[s])[i] : i \in Runners(s)}
        = {k \in SelectedKeys(req[s]) : Runnable(k, req[s], apiUrl[s])}
  BY DEF Runners, SelectedKeys
<1>4. Selected(req[s]) \in Seq(Tools)
  BY SelectionType DEF TypeOK
<1>5. SelectedKeys(req[s]) \subseteq Tools
  BY <1>4 DEF SelectedKeys
<1> QED BY <1>2, <1>3, <1>5 DEF Skipped

LEMMA DueAtEnd ==
  ASSUME TypeOK, NEW s \in Scans, req[s] # None, idx[s] > Steps(s)
  PROVE  Due(s, idx[s]) = {}
<1>1. idx[s] \in Nat /\ Steps(s) \in Nat
  BY StepsType DEF TypeOK
<1>2. \A i \in Runners(s) : ~(Index(s, i) >= idx[s])
  BY <1>1, IndexType
<1> QED BY <1>2 DEF Due

LEMMA DueNext ==
  ASSUME TypeOK, NEW s \in Scans, req[s] # None, idx[s] <= Steps(s)
  PROVE  /\ CurrentKey(s) \in Due(s, idx[s]) /\ CurrentKey(s) \in Tools
         /\ Due(s, idx[s] + 1) = Due(s, idx[s]) \ {CurrentKey(s)}
<1> DEFINE l == Selected(req[s])
           c == CHOOSE i \in Runners(s) : Index(s, i) = idx[s]
           n == idx[s]
<1>0. Steps(s) \in Nat
  BY StepsType
<1>a. idx[s] \in Nat \ {0}
  BY DEF TypeOK
<1>1. n \in Nat /\ n \in 1 .. Steps(s) /\ Steps(s) \in Nat
  BY <1>0, <1>a
<1>2. c \in Runners(s) /\ Index(s, c) = n
  BY <1>1, IndexOnto
<1>3. CurrentKey(s) = l[c]
  BY DEF CurrentKey
<1>4. /\ \A i \in Runners(s) : l[i] \in Tools
      /\ \A i, j \in Runners(s) : l[i] = l[j] => i = j
  BY RunnersType
<1>5. \A i \in Runners(s) : Index(s, i) \in Nat /\ (Index(s, i) = n => i = c)
  BY <1>1, <1>2, IndexType, IndexInjective
<1>6. \A m : Due(s, m) = {l[i] : i \in {j \in Runners(s) : Index(s, j) >= m}}
  BY DEF Due
<1> HIDE DEF l, c, n
<1>7. Due(s, n + 1) = Due(s, n) \ {l[c]}
  <2>1. \A i \in Runners(s) : Index(s, i) >= n + 1 <=> Index(s, i) >= n /\ i # c
    BY <1>1, <1>2, <1>5
  <2> QED BY <1>2, <1>4, <1>6, <2>1
<1>8. l[c] \in Due(s, n) /\ l[c] \in Tools
  BY <1>1, <1>2, <1>4, <1>6
<1> QED BY <1>3, <1>7, <1>8 DEF n

-----------------------------------------------------------------------------
(* What holds of one scan by itself.                                        *)
ScanInv(s) ==
    (* a scan without a row is nowhere *)
    /\ req[s] = None => pc[s] = "none" /\ status[s] = "none"
    (* the status follows the execution up to its end *)
    /\ pc[s] \in {"inserted", "waiting", "begin"} => status[s] = "queued"
    /\ pc[s] \in {"prepare", "starting", "probing", "plan", "check", "announce",
                  "run", "record", "finish"} => status[s] = "running"
    (* the scanner at hand is one of the runners *)
    /\ pc[s] \in {"announce", "run", "record"} => idx[s] <= Steps(s)
    (* a scanner started after the cancel flag was set is the last one *)
    /\ runsAfter[s] <= 1
    /\ runsAfter[s] # 0 => cancel[s]
    /\ pc[s] \in {"none", "inserted", "waiting", "begin", "prepare", "starting",
                  "probing", "plan", "announce"} => runsAfter[s] = 0

TypeInv == TypeOK /\ \A s \in Scans : ScanInv(s)

LEMMA TypeInvInit == Init => TypeInv
<1> SUFFICES ASSUME Init PROVE TypeInv
  OBVIOUS
<1> USE DEF Init
<1>1. TypeOK
  BY DEF TypeOK, NoStages, NoTools, PCs, StageStatus, ToolStatus
<1>2. \A s \in Scans : ScanInv(s)
  BY DEF ScanInv
<1> QED BY <1>1, <1>2 DEF TypeInv

(* What the operations on stages do to the types. *)
LEMMA SetStageType ==
  ASSUME TypeOK, NEW s \in Scans, NEW k, NEW st \in StageStatus, SetStage(s, k, st)
  PROVE  stages' \in [Scans -> [StageKeys -> StageStatus]]
BY DEF TypeOK, SetStage

LEMMA SaveStagesType ==
  ASSUME TypeOK, NEW s \in Scans, SaveStages(s),
         stages' \in [Scans -> [StageKeys -> StageStatus]]
  PROVE  rowStages' \in [Scans -> [StageKeys -> StageStatus]]
BY DEF TypeOK, SaveStages

LEMMA CountType ==
  ASSUME TypeOK, NEW s \in Scans
  PROVE  Cardinality(findings[s]) \in Nat
<1>1. findings[s] \subseteq Findings
  BY DEF TypeOK
<1> QED BY <1>1, FS_Subset, FS_CardinalityType

(* Every step keeps the types. *)
LEMMA TypeStep == TypeInv /\ [Next]_vars => TypeOK'
<1> SUFFICES ASSUME TypeInv, [Next]_vars PROVE TypeOK'
  OBVIOUS
<1> USE DEF TypeInv, TypeOK, rowVars, localVars, clientVars, boundVars
<1>a. "runtime_start" \in StageKeys /\ "normalisation" \in StageKeys
      /\ "runtime_cleanup" \in StageKeys /\ Tools \subseteq StageKeys
  BY DEF StageKeys
<1>b. /\ PCs = {"begin", "prepare", "starting", "probing", "plan", "check", "announce",
               "run", "record", "finish", "leaving", "failing", "cleanup", "cleaned",
               "none", "inserted", "waiting", "done", "lost"}
      /\ NoStages \in [StageKeys -> StageStatus] /\ NoTools \in [Tools -> ToolStatus]
  BY DEF PCs, ExecutingPCs, TryPCs, NoStages, NoTools, StageStatus, ToolStatus
<1>s. ASSUME NEW s \in Scans, pc[s] # "none"
      PROVE Steps(s) \in Nat /\ req[s].repo \in Repos
  BY <1>s, StepsType DEF ScanInv
<1>d. ASSUME NEW s \in Scans, pc[s] # "none", idx[s] <= Steps(s)
      PROVE /\ ((idx[s] - 1) * 90) \div Steps(s) \in 0..90
            /\ ((idx[s] - 1) * 100) \div Steps(s) \in 0..100
            /\ (idx[s] * 90) \div Steps(s) \in 0..90
  <2>1. Steps(s) \in Nat /\ Steps(s) > 0 /\ idx[s] \in Nat /\ idx[s] - 1 \in Nat
        /\ idx[s] - 1 <= Steps(s)
    BY <1>d, <1>s
  <2> QED BY <1>d, <2>1, Share
<1>e. ASSUME NEW s \in Scans, Return(s)
      PROVE /\ pc' \in [Scans -> PCs]
            /\ stages' \in [Scans -> [StageKeys -> StageStatus]]
            /\ tools' \in [Scans -> [Tools -> ToolStatus]]
            /\ idx' \in [Scans -> Nat \ {0}]
            /\ apiUrl' \in [Scans -> {Given, Found, None}]
            /\ started' \in [Scans -> BOOLEAN]
  BY <1>e, <1>b DEF Return, Goto
<1>1. ASSUME NEW s \in Scans, NEW q \in Requests, CreateScan(s, q)
      PROVE TypeOK'
  BY <1>1, <1>b DEF CreateScan
<1>2. ASSUME NEW s \in Scans, SubmitScan(s)
      PROVE TypeOK'
  BY <1>2, <1>b DEF SubmitScan
<1>3. ASSUME NEW s \in Scans, CancelCheck(s)
      PROVE TypeOK'
  BY <1>3 DEF CancelCheck
<1>4. ASSUME NEW s \in Scans, CancelWrite(s)
      PROVE TypeOK'
  BY <1>4 DEF CancelWrite
<1>5. ASSUME NEW s \in Scans, WorkerStep(s)
      PROVE TypeOK'
  <2> USE DEF Goto, SetStage, SaveStages, SaveTools
  <2>1. CASE Begin(s)
    BY <2>1, <1>b DEF Begin
  <2>2. CASE Prepare(s)
    <3>1. CASE req[s].url \/ ~req[s].startup
      BY <2>2, <3>1, <1>b DEF Prepare
    <3>2. CASE ~req[s].url /\ req[s].startup
      <4>1. "running" \in StageStatus
        BY DEF StageStatus
      <4>2. SetStage(s, "runtime_start", "running") /\ SaveStages(s)
        BY <2>2, <3>2 DEF Prepare
      <4> QED BY <2>2, <3>2, <4>1, <4>2, <1>b, SetStageType, SaveStagesType DEF Prepare
    <3> QED BY <3>1, <3>2
  <2>3. CASE StartRuntime(s)
    BY <2>3, <1>b DEF StartRuntime
  <2>4. CASE StartRuntimeFails(s)
    BY <2>4, <1>a, <1>b DEF StartRuntimeFails, StageStatus
  <2>5. CASE ProbeRuntime(s)
    <3>1. PICK o \in ProbeOutcomes :
                  /\ SetStage(s, "runtime_start", o[1]) /\ SaveStages(s)
                  /\ apiUrl' = [apiUrl EXCEPT ![s] = o[2]]
      BY <2>5 DEF ProbeRuntime
    <3>2. o[1] \in StageStatus /\ o[2] \in {Given, Found, None}
      BY DEF ProbeOutcomes, StageStatus
    <3>3. /\ stages' \in [Scans -> [StageKeys -> StageStatus]]
          /\ rowStages' \in [Scans -> [StageKeys -> StageStatus]]
      BY <3>1, <3>2, SetStageType, SaveStagesType
    <3> QED BY <2>5, <3>1, <3>2, <3>3, <1>b DEF ProbeRuntime
  <2>6. CASE ProbeRaises(s)
    <3>1. PICK o \in ProbeOutcomes : apiUrl' = [apiUrl EXCEPT ![s] = o[2]]
      BY <2>6 DEF ProbeRaises
    <3>2. "failed" \in StageStatus /\ o[2] \in {Given, Found, None}
      BY DEF ProbeOutcomes, StageStatus
    <3>3. SetStage(s, "runtime_start", "failed") /\ SaveStages(s)
      BY <2>6 DEF ProbeRaises
    <3>4. /\ stages' \in [Scans -> [StageKeys -> StageStatus]]
          /\ rowStages' \in [Scans -> [StageKeys -> StageStatus]]
      BY <3>2, <3>3, SetStageType, SaveStagesType
    <3>5. apiUrl' \in [Scans -> {Given, Found, None}]
      BY <3>1, <3>2
    <3>6. pc' \in [Scans -> PCs] /\ faults' \in 0..MaxFaults
      BY <2>6, <1>b DEF ProbeRaises
    <3> QED BY <2>6, <3>4, <3>5, <3>6 DEF ProbeRaises
  <2>7. CASE Plan(s)
    BY <2>7, <1>b DEF Plan, PlannedStages, StageStatus, ToolStatus
  <2>8. CASE CheckCancelled(s)
    <3>1. StagesCancelled(s) \in [StageKeys -> StageStatus]
      BY DEF StagesCancelled, StageStatus
    <3>2. stages' \in [Scans -> [StageKeys -> StageStatus]]
      BY <2>8, <3>1 DEF CheckCancelled
    <3>3. rowStages' \in [Scans -> [StageKeys -> StageStatus]]
      BY <2>8, <3>2, SaveStagesType DEF CheckCancelled
    <3>4. ((idx[s] - 1) * 100) \div Steps(s) \in 0..100
      BY <2>8, <1>d DEF CheckCancelled
    <3> QED BY <2>8, <3>2, <3>3, <3>4, <1>b, CountType DEF CheckCancelled, Final
  <2>9. CASE CheckNext(s)
    BY <2>9, <1>b DEF CheckNext
  <2>10. CASE CheckDone(s)
    BY <2>10, <1>b DEF CheckDone
  <2>11. CASE Announce(s)
    <3>1. "running" \in StageStatus
      BY DEF StageStatus
    <3>2. stages' \in [Scans -> [StageKeys -> StageStatus]]
      BY <2>11, <3>1, SetStageType DEF Announce
    <3>3. rowStages' \in [Scans -> [StageKeys -> StageStatus]]
      BY <2>11, <3>2, SaveStagesType DEF Announce
    <3>4. ((idx[s] - 1) * 90) \div Steps(s) \in 0..90
      BY <2>11, <1>d DEF Announce, ScanInv
    <3>5. progress' \in [Scans -> 0..100]
      <4>1. ((idx[s] - 1) * 90) \div Steps(s) \in 0..100
        BY <3>4
      <4> DEFINE p == ((idx[s] - 1) * 90) \div Steps(s)
      <4>2. progress' = [progress EXCEPT ![s] = p]
        BY <2>11 DEF Announce
      <4>3. p \in 0..100
        BY <4>1
      <4> HIDE DEF p
      <4> QED BY <4>2, <4>3
    <3>6. runsAfter' \in [Scans -> 0..2]
      BY <2>11 DEF Announce
    <3> QED BY <2>11, <3>2, <3>3, <3>5, <3>6, <1>b DEF Announce
  <2>12. CASE RunTool(s)
    <3>1. PICK o \in Outcomes, F \in SUBSET Findings :
                  /\ findings' = [findings EXCEPT ![s] = @ \cup F]
                  /\ tools' = [tools EXCEPT ![s][CurrentKey(s)] =
                                 IF o = "completed_with_warnings" THEN "completed" ELSE o]
                  /\ SetStage(s, CurrentKey(s), o)
      BY <2>12 DEF RunTool, SaveFindings
    <3>2. o \in OutcomeType /\ o \in StageStatus
      BY DEF StageStatus, OutcomeType
    <3>3. stages' \in [Scans -> [StageKeys -> StageStatus]]
      BY <3>1, <3>2, SetStageType
    <3>4. tools' \in [Scans -> [Tools -> ToolStatus]]
      BY <3>1, <3>2 DEF OutcomeType, ToolStatus
    <3>5. findings' \in [Scans -> SUBSET Findings]
      BY <3>1
    <3> QED BY <2>12, <3>3, <3>4, <3>5, <1>b DEF RunTool
  <2>13. CASE Record(s)
    <3>1. RecordedProgress(s) \in 0..90
      BY <2>13, <1>d DEF Record, ScanInv, RecordedProgress
    <3> QED BY <2>13, <3>1, <1>b DEF Record
  <2>14. CASE Finish(s)
    <3>1. "completed" \in StageStatus
      BY DEF StageStatus
    <3>2. stages' \in [Scans -> [StageKeys -> StageStatus]]
      BY <2>14, <3>1, SetStageType DEF Finish
    <3>3. rowStages' \in [Scans -> [StageKeys -> StageStatus]]
      BY <2>14, <3>2, SaveStagesType DEF Finish
    <3>4. FinalStatus(tools[s]) \in Final
      BY DEF FinalStatus, Final
    <3>5. total' \in [Scans -> Nat]
      BY <2>14, CountType DEF Finish
    <3>6. status' \in [Scans -> {"none", "queued", "running"} \cup Final]
      BY <2>14, <3>4 DEF Finish
    <3>7. /\ rowTools' \in [Scans -> [Tools -> ToolStatus]]
          /\ progress' \in [Scans -> 0..100] /\ pc' \in [Scans -> PCs]
      BY <2>14, <1>b DEF Finish
    <3> QED BY <2>14, <3>2, <3>3, <3>5, <3>6, <3>7 DEF Finish
  <2>15. CASE Leave(s)
    BY <2>15, <1>b DEF Leave
  <2>16. CASE Raise(s)
    BY <2>16, <1>b DEF Raise
  <2>17. CASE HandleFailure(s)
    <3>1. FailureTotal(s) \in Nat
      BY CountType DEF FailureTotal
    <3> QED BY <2>17, <3>1, <1>b DEF HandleFailure, Final
  <2>18. CASE HandlerRaises(s)
    BY <2>18, <1>b DEF HandlerRaises
  <2>19. CASE Cleanup(s)
    BY <2>19, <1>a, <1>b DEF Cleanup, StageStatus
  <2>20. CASE NothingToClean(s)
    BY <2>20, <1>e DEF NothingToClean
  <2>21. CASE RecordCleanup(s)
    BY <2>21, <1>e DEF RecordCleanup
  <2>22. CASE RecordCleanupFails(s)
    BY <2>22, <1>e DEF RecordCleanupFails
  <2> QED
    BY <1>5, <2>1, <2>2, <2>3, <2>4, <2>5, <2>6, <2>7, <2>8, <2>9, <2>10, <2>11, <2>12,
       <2>13, <2>14, <2>15, <2>16, <2>17, <2>18, <2>19, <2>20, <2>21, <2>22 DEF WorkerStep, RuntimeStep, ScanStep
<1>8. CASE TakeScan
  <2>1. Head(queue) \in Scans /\ Tail(queue) \in Seq(Scans)
    BY <1>8 DEF TakeScan
  <2>2. pc' \in [Scans -> PCs]
    BY <1>8, <2>1, <1>b DEF TakeScan
  <2> QED BY <1>8, <2>1, <2>2 DEF TakeScan
<1>9. CASE Shutdown
  BY <1>9 DEF Shutdown
<1>10. CASE Exited
  BY <1>10 DEF Exited
<1>11. CASE Kill
  BY <1>11, <1>b DEF Kill
<1>12. CASE Restart
  BY <1>12 DEF Restart
<1>13. CASE UNCHANGED vars
  BY <1>13 DEF vars
<1> QED
  BY <1>1, <1>2, <1>3, <1>4, <1>5, <1>8, <1>9, <1>10, <1>11, <1>12, <1>13 DEF Next

-----------------------------------------------------------------------------
(* A queued scan waits, and is queued once. *)
QueueOrder ==
    /\ \A i \in 1..Len(queue) : pc[queue[i]] = "waiting"
    /\ \A i, j \in 1..Len(queue) : queue[i] = queue[j] => i = j

(* After the end of the process nothing is executed. *)
Closing == up \in {"stopped", "killed"} => Executing = {}

IInv == TypeInv /\ QueueOrder /\ Closing

LEMMA IInvInit == Init => IInv
<1> SUFFICES ASSUME Init PROVE IInv
  OBVIOUS
<1>1. TypeInv
  BY TypeInvInit
<1>2. QueueOrder /\ Closing
  BY DEF Init, QueueOrder, Closing
<1> QED BY <1>1, <1>2 DEF IInv

(* What a worker's step for s leaves alone, and where it may lead. *)
Frame(s) ==
    /\ req' = req /\ queue' = queue /\ up' = up
    /\ pc[s] \in ExecutingPCs /\ pc'[s] \notin {"inserted", "waiting", "none", "begin"}
    /\ \A t \in Scans \ {s} :
          /\ pc'[t] = pc[t] /\ status'[t] = status[t]
          /\ idx'[t] = idx[t] /\ apiUrl'[t] = apiUrl[t]
          /\ cancel'[t] = cancel[t] /\ runsAfter'[t] = runsAfter[t]

LEMMA WorkerFrame ==
  ASSUME TypeOK, NEW s \in Scans, WorkerStep(s)
  PROVE  Frame(s)
<1> USE DEF TypeOK, Frame, Goto, ExecutingPCs, TryPCs,
            rowVars, localVars, clientVars, boundVars
<1>1. CASE Begin(s)
  BY <1>1 DEF Begin
<1>2. CASE Prepare(s)
  BY <1>2 DEF Prepare
<1>3. CASE StartRuntime(s)
  BY <1>3 DEF StartRuntime
<1>4. CASE StartRuntimeFails(s)
  BY <1>4 DEF StartRuntimeFails
<1>5. CASE ProbeRuntime(s)
  BY <1>5 DEF ProbeRuntime
<1>6. CASE ProbeRaises(s)
  BY <1>6 DEF ProbeRaises
<1>7. CASE Plan(s)
  BY <1>7 DEF Plan
<1>8. CASE CheckCancelled(s)
  BY <1>8 DEF CheckCancelled
<1>9. CASE CheckNext(s)
  BY <1>9 DEF CheckNext
<1>10. CASE CheckDone(s)
  BY <1>10 DEF CheckDone
<1>11. CASE Announce(s)
  BY <1>11 DEF Announce
<1>12. CASE RunTool(s)
  BY <1>12 DEF RunTool
<1>13. CASE Record(s)
  BY <1>13 DEF Record
<1>14. CASE Finish(s)
  BY <1>14 DEF Finish
<1>15. CASE Leave(s)
  BY <1>15 DEF Leave
<1>16. CASE Raise(s)
  BY <1>16 DEF Raise
<1>17. CASE HandleFailure(s)
  BY <1>17 DEF HandleFailure
<1>18. CASE HandlerRaises(s)
  BY <1>18 DEF HandlerRaises
<1>19. CASE Cleanup(s)
  BY <1>19 DEF Cleanup
<1>20. CASE NothingToClean(s)
  BY <1>20 DEF NothingToClean, Return
<1>21. CASE RecordCleanup(s)
  BY <1>21 DEF RecordCleanup, Return
<1>22. CASE RecordCleanupFails(s)
  BY <1>22 DEF RecordCleanupFails, Return
<1> QED
  BY <1>1, <1>2, <1>3, <1>4, <1>5, <1>6, <1>7, <1>8, <1>9, <1>10, <1>11,
     <1>12, <1>13, <1>14, <1>15, <1>16, <1>17, <1>18, <1>19, <1>20, <1>21,
     <1>22 DEF WorkerStep, RuntimeStep, ScanStep

(* A worker's step for s keeps what holds of s. *)
LEMMA WorkerScan ==
  ASSUME TypeOK, NEW s \in Scans, WorkerStep(s), ScanInv(s)
  PROVE  ScanInv(s)'
<1> USE DEF TypeOK, ScanInv, Goto, rowVars, localVars, clientVars, boundVars
<1>1. CASE Begin(s)
  BY <1>1 DEF Begin
<1>2. CASE Prepare(s)
  BY <1>2 DEF Prepare
<1>3. CASE StartRuntime(s)
  BY <1>3 DEF StartRuntime
<1>4. CASE StartRuntimeFails(s)
  BY <1>4 DEF StartRuntimeFails
<1>5. CASE ProbeRuntime(s)
  BY <1>5 DEF ProbeRuntime
<1>6. CASE ProbeRaises(s)
  BY <1>6 DEF ProbeRaises
<1>7. CASE Plan(s)
  BY <1>7 DEF Plan
<1>8. CASE CheckCancelled(s)
  BY <1>8 DEF CheckCancelled
<1>9. CASE CheckNext(s)
  BY <1>9 DEF CheckNext, Steps, Runners
<1>10. CASE CheckDone(s)
  BY <1>10 DEF CheckDone
<1>11. CASE Announce(s)
  BY <1>11 DEF Announce, Steps, Runners
<1>12. CASE RunTool(s)
  BY <1>12 DEF RunTool, Steps, Runners
<1>13. CASE Record(s)
  BY <1>13 DEF Record
<1>14. CASE Finish(s)
  BY <1>14 DEF Finish
<1>15. CASE Leave(s)
  BY <1>15 DEF Leave
<1>16. CASE Raise(s)
  BY <1>16 DEF Raise, TryPCs
<1>17. CASE HandleFailure(s)
  BY <1>17 DEF HandleFailure
<1>18. CASE HandlerRaises(s)
  BY <1>18 DEF HandlerRaises
<1>19. CASE Cleanup(s)
  BY <1>19 DEF Cleanup
<1>20. CASE NothingToClean(s)
  BY <1>20 DEF NothingToClean, Return
<1>21. CASE RecordCleanup(s)
  BY <1>21 DEF RecordCleanup, Return
<1>22. CASE RecordCleanupFails(s)
  BY <1>22 DEF RecordCleanupFails, Return
<1> QED
  BY <1>1, <1>2, <1>3, <1>4, <1>5, <1>6, <1>7, <1>8, <1>9, <1>10, <1>11,
     <1>12, <1>13, <1>14, <1>15, <1>16, <1>17, <1>18, <1>19, <1>20, <1>21,
     <1>22 DEF WorkerStep, RuntimeStep, ScanStep

(* ... and the other invariants. *)
LEMMA WorkerQueue ==
  ASSUME IInv, NEW s \in Scans, WorkerStep(s)
  PROVE  QueueOrder' /\ Closing'
<1>1. Frame(s)
  BY WorkerFrame DEF IInv, TypeInv
<1>2. \A i \in 1..Len(queue) : queue[i] \in Scans
  BY DEF IInv, TypeInv, TypeOK
<1>3. QueueOrder'
  <2>1. pc[s] # "waiting"
    BY <1>1 DEF Frame, ExecutingPCs, TryPCs
  <2> QED BY <1>1, <1>2, <2>1 DEF IInv, QueueOrder, Frame
<1>4. Closing'
  <2>1. up' \notin {"stopped", "killed"}
    BY <1>1 DEF IInv, Closing, Frame, Executing
  <2> QED BY <2>1 DEF Closing
<1> QED BY <1>3, <1>4

-----------------------------------------------------------------------------
LEMMA IInvStep == IInv /\ [Next]_vars => IInv'
<1> SUFFICES ASSUME IInv, [Next]_vars PROVE IInv'
  OBVIOUS
<1> USE DEF rowVars, localVars, clientVars, boundVars
<1>t. TypeInv /\ TypeOK /\ TypeOK'
  BY TypeStep DEF IInv, TypeInv
<1>q. \A i \in 1..Len(queue) : queue[i] \in Scans
  BY <1>t DEF TypeOK
<1> SUFFICES (\A t \in Scans : ScanInv(t)') /\ QueueOrder' /\ Closing'
  BY <1>t DEF IInv, TypeInv
<1>1. ASSUME NEW s \in Scans, NEW q \in Requests, CreateScan(s, q)
      PROVE  (\A t \in Scans : ScanInv(t)') /\ QueueOrder' /\ Closing'
  <2> USE <1>1 DEF CreateScan
  <2>1. ASSUME NEW t \in Scans PROVE ScanInv(t)'
    <3>1. CASE t = s
      <4>1. /\ req'[s] # None /\ pc'[s] = "inserted" /\ status'[s] = "queued"
            /\ runsAfter'[s] = 0
        BY <1>t DEF TypeInv, TypeOK, ScanInv
      <4> QED BY <3>1, <4>1 DEF ScanInv
    <3>2. CASE t # s
      <4>1. /\ req'[t] = req[t] /\ pc'[t] = pc[t] /\ status'[t] = status[t]
            /\ UNCHANGED <<runsAfter, cancel, idx>> /\ Steps(t)' = Steps(t)
        BY <1>t, <3>2 DEF TypeOK, Steps, Runners
      <4> QED BY <1>t, <4>1 DEF TypeInv, ScanInv
    <3> QED BY <3>1, <3>2
  <2>2. QueueOrder'
    BY <1>t, <1>q DEF IInv, TypeInv, TypeOK, ScanInv, QueueOrder
  <2>3. Closing'
    BY <1>t DEF IInv, TypeInv, TypeOK, ScanInv, Closing, Executing, ExecutingPCs, TryPCs
  <2> QED BY <2>1, <2>2, <2>3
<1>2. ASSUME NEW s \in Scans, SubmitScan(s)
      PROVE  (\A t \in Scans : ScanInv(t)') /\ QueueOrder' /\ Closing'
  <2> USE <1>2 DEF SubmitScan
  <2>1. ASSUME NEW t \in Scans PROVE ScanInv(t)'
    <3>1. UNCHANGED <<req, status, runsAfter, cancel, idx>> /\ Steps(t)' = Steps(t)
      BY DEF Steps, Runners
    <3>2. pc'[t] = pc[t] \/ (pc[t] = "inserted" /\ pc'[t] = "waiting")
      <4>1. pc \in [Scans -> PCs]
        BY <1>t DEF TypeOK
      <4> QED BY <4>1, Zenon
    <3> QED BY <1>t, <3>1, <3>2 DEF TypeInv, ScanInv
  <2>2. QueueOrder'
    BY <1>t, <1>q DEF IInv, TypeOK, QueueOrder
  <2>3. Closing'
    BY <1>t DEF IInv, TypeOK, Closing, Executing, ExecutingPCs, TryPCs
  <2> QED BY <2>1, <2>2, <2>3
<1>3. ASSUME NEW s \in Scans, CancelCheck(s) \/ CancelWrite(s)
      PROVE  (\A t \in Scans : ScanInv(t)') /\ QueueOrder' /\ Closing'
  <2> USE <1>3 DEF CancelCheck, CancelWrite
  <2>1. ASSUME NEW t \in Scans PROVE ScanInv(t)'
    <3>1. /\ UNCHANGED <<req, status, runsAfter, idx, pc>> /\ Steps(t)' = Steps(t)
          /\ cancel'[t] = cancel[t] \/ cancel'[t]
      BY <1>t DEF TypeOK, Steps, Runners
    <3> QED BY <1>t, <3>1 DEF TypeInv, ScanInv
  <2>2. QueueOrder' /\ Closing'
    BY DEF IInv, QueueOrder, Closing, Executing
  <2> QED BY <2>1, <2>2
<1>4. ASSUME NEW s \in Scans, WorkerStep(s)
      PROVE  (\A t \in Scans : ScanInv(t)') /\ QueueOrder' /\ Closing'
  <2>1. Frame(s) /\ ScanInv(s)'
    BY <1>4, <1>t, WorkerFrame, WorkerScan DEF TypeInv
  <2>2. ASSUME NEW t \in Scans \ {s} PROVE ScanInv(t)'
    <3>1. /\ pc'[t] = pc[t] /\ status'[t] = status[t] /\ idx'[t] = idx[t]
          /\ cancel'[t] = cancel[t] /\ runsAfter'[t] = runsAfter[t]
      BY <2>1 DEF Frame
    <3>2. req' = req /\ apiUrl'[t] = apiUrl[t]
      BY <2>1 DEF Frame
    <3>3. Steps(t)' = Steps(t)
      BY <3>2 DEF Steps, Runners
    <3>4. ScanInv(t)
      BY <1>t DEF TypeInv
    <3> QED BY <3>1, <3>2, <3>3, <3>4 DEF ScanInv
  <2> QED BY <1>4, <2>1, <2>2, WorkerQueue
<1>8. CASE TakeScan
  <2> DEFINE h == Head(queue)
  <2>1. h \in Scans /\ pc[h] = "waiting" /\ Len(queue) \in Nat \ {0} /\ h = queue[1]
    BY <1>t, <1>q, <1>8 DEF TakeScan, IInv, QueueOrder, TypeOK
  <2>2. /\ pc' = [pc EXCEPT ![h] = "begin"] /\ queue' = Tail(queue)
        /\ up \in {"up", "draining"}
        /\ UNCHANGED <<rowVars, up, localVars, clientVars>>
    BY <1>8 DEF TakeScan, Executes
  <2> HIDE DEF h
  <2>3. ASSUME NEW t \in Scans PROVE ScanInv(t)'
    <3>1. UNCHANGED <<req, status, runsAfter, cancel, idx>> /\ Steps(t)' = Steps(t)
      BY <2>2 DEF Steps, Runners
    <3>2. pc'[t] = pc[t] \/ (pc[t] = "waiting" /\ pc'[t] = "begin")
      <4>1. pc \in [Scans -> PCs]
        BY <1>t DEF TypeOK
      <4> QED BY <2>1, <2>2, <4>1, Zenon
    <3> QED BY <1>t, <3>1, <3>2 DEF TypeInv, ScanInv
  <2>4. QueueOrder'
    <3>1. /\ Len(queue') = Len(queue) - 1
          /\ \A i \in 1..Len(queue') : queue'[i] = queue[i + 1] /\ i + 1 \in 1..Len(queue)
      BY <1>t, <2>1, <2>2 DEF TypeOK
    <3>2. \A i \in 1..Len(queue') : queue[i + 1] # h
      BY <2>1, <3>1 DEF IInv, QueueOrder
    <3>3. \A i \in 1..Len(queue') : pc'[queue'[i]] = "waiting"
      BY <1>t, <1>q, <2>1, <2>2, <3>1, <3>2 DEF IInv, QueueOrder, TypeOK
    <3>4. \A i, j \in 1..Len(queue') : queue'[i] = queue'[j] => i = j
      <4> SUFFICES ASSUME NEW i \in 1..Len(queue'), NEW j \in 1..Len(queue'),
                          queue'[i] = queue'[j]
                   PROVE  i = j
        OBVIOUS
      <4>1. i + 1 = j + 1
        BY <3>1 DEF IInv, QueueOrder
      <4> QED BY <4>1
    <3> QED BY <3>3, <3>4 DEF QueueOrder
  <2>5. Closing'
    BY <2>2 DEF IInv, Closing
  <2> QED BY <2>3, <2>4, <2>5
<1>9. CASE Shutdown
  <2>1. \A t \in Scans : ScanInv(t)'
    BY <1>9, <1>t DEF TypeInv, ScanInv, Steps, Runners, Shutdown
  <2>2. QueueOrder' /\ Closing'
    BY <1>9 DEF Shutdown, IInv, QueueOrder, Closing
  <2> QED BY <2>1, <2>2
<1>10. CASE Exited
  <2>1. \A t \in Scans : ScanInv(t)'
    BY <1>10, <1>t DEF TypeInv, ScanInv, Steps, Runners, Exited
  <2>2. QueueOrder' /\ Closing'
    BY <1>10 DEF Exited, IInv, QueueOrder, Closing, Executing
  <2> QED BY <2>1, <2>2
<1>11. CASE Kill
  <2>1. \A t \in Scans : ScanInv(t)'
    BY <1>11, <1>t DEF TypeInv, TypeOK, ScanInv, Kill
  <2>2. QueueOrder'
    BY <1>11 DEF Kill, QueueOrder
  <2>3. Closing'
    BY <1>11, <1>t DEF Kill, Closing, Executing, ExecutingPCs, TryPCs, TypeOK
  <2> QED BY <2>1, <2>2, <2>3
<1>12. CASE Restart
  <2>1. \A t \in Scans : ScanInv(t)'
    BY <1>12, <1>t DEF TypeInv, ScanInv, Steps, Runners, Restart
  <2>2. QueueOrder' /\ Closing'
    BY <1>12 DEF Restart, IInv, QueueOrder, Closing
  <2> QED BY <2>1, <2>2
<1>13. CASE UNCHANGED vars
  <2>1. \A t \in Scans : ScanInv(t)'
    BY <1>13, <1>t DEF TypeInv, ScanInv, Steps, Runners, vars
  <2>2. QueueOrder' /\ Closing'
    BY <1>13 DEF vars, IInv, QueueOrder, Closing, Executing
  <2> QED BY <2>1, <2>2
<1> QED
  BY <1>1, <1>2, <1>3, <1>4, <1>8, <1>9, <1>10, <1>11, <1>12, <1>13
  DEF Next

-----------------------------------------------------------------------------
(* Whatever users, workers and faults do: the rows and the executions keep  *)
(* their types.                                                             *)
THEOREM TypeCorrect == Spec => []TypeOK
<1>1. IInv => TypeOK
  BY DEF IInv, TypeInv
<1> QED BY <1>1, IInvInit, IInvStep, PTL DEF Spec

(* The inductive invariant behind the theorems below. *)
THEOREM InductiveInvariant == Spec => []IInv
BY IInvInit, IInvStep, PTL DEF Spec

(* Once the cancel flag is set at most one more scanner starts, the one     *)
(* whose check came first.                                                  *)
THEOREM CancelStopsScanners == Spec => []CancelBounded
<1>1. IInv => CancelBounded
  BY DEF IInv, TypeInv, ScanInv, CancelBounded
<1> QED BY <1>1, InductiveInvariant, PTL

-----------------------------------------------------------------------------
(* What the row of scan s says of its execution, in numbers. *)
ScanConcluded(s) ==
    /\ progress[s] = 100 <=> status[s] \in {"completed", "completed_partial", "failed"}
    /\ status[s] \in Final => total[s] = Cardinality(findings[s])

LEMMA ConclusionOf == ConclusionHonest <=> \A s \in Scans : ScanConcluded(s)
BY DEF ConclusionHonest, ProgressHonest, SummaryCounts, ScanConcluded

(* Most steps leave all of it alone. *)
LEMMA ConclusionKept ==
  ASSUME ConclusionHonest, UNCHANGED <<status, progress, total, findings>>
  PROVE  ConclusionHonest'
BY DEF ConclusionHonest, ProgressHonest, SummaryCounts

LEMMA WorkerConcludes ==
  ASSUME TypeInv, ConclusionHonest, NEW s \in Scans, WorkerStep(s)
  PROVE  ConclusionHonest'
<1> USE DEF rowVars
<1>t. /\ progress \in [Scans -> 0..100] /\ total \in [Scans -> Nat]
      /\ status \in [Scans -> {"none", "queued", "running"} \cup Final]
      /\ findings \in [Scans -> SUBSET Findings] /\ idx[s] \in Nat \ {0}
  BY DEF TypeInv, TypeOK
<1>i. ScanInv(s) /\ ScanConcluded(s) /\ \A t \in Scans : ScanConcluded(t)
  BY ConclusionOf DEF TypeInv
<1>n. pc[s] # "none" => Steps(s) \in Nat
  BY <1>i, StepsType DEF TypeInv, ScanInv
<1>o. ASSUME NEW p \in Nat, progress' = [progress EXCEPT ![s] = p], p # 100,
             UNCHANGED <<status, total, findings>>, status[s] = "running"
      PROVE  ConclusionHonest'
  <2>1. ASSUME NEW t \in Scans PROVE ScanConcluded(t)'
    BY <1>o, <1>t, <1>i DEF ScanConcluded, Final
  <2> QED BY <2>1 DEF ConclusionHonest, ProgressHonest, SummaryCounts, ScanConcluded
<1>e. ASSUME NEW st \in Final, NEW p \in Nat,
             status' = [status EXCEPT ![s] = st],
             progress' = [progress EXCEPT ![s] = p],
             total' = [total EXCEPT ![s] = Cardinality(findings[s])],
             UNCHANGED findings,
             p = 100 <=> st # "cancelled"
      PROVE  ConclusionHonest'
  <2>1. ASSUME NEW t \in Scans PROVE ScanConcluded(t)'
    BY <1>e, <1>t, <1>i DEF ScanConcluded, Final
  <2> QED BY <2>1 DEF ConclusionHonest, ProgressHonest, SummaryCounts, ScanConcluded
<1>1. CASE Begin(s)
  <2>1. ASSUME NEW t \in Scans PROVE ScanConcluded(t)'
    BY <1>1, <1>t, <1>i DEF Begin, ScanConcluded, Final
  <2> QED BY <2>1 DEF ConclusionHonest, ProgressHonest, SummaryCounts, ScanConcluded
<1>2. CASE CheckCancelled(s)
  <2> DEFINE p == ((idx[s] - 1) * 100) \div Steps(s)
  <2>1. /\ Steps(s) \in Nat /\ idx[s] - 1 \in Nat /\ idx[s] - 1 < Steps(s)
        /\ Steps(s) > 0 /\ idx[s] - 1 <= Steps(s)
    BY <1>2, <1>t, <1>n DEF CheckCancelled
  <2>2. p # 100
    BY <2>1, PartOnly
  <2>3. p \in Nat
    <3>1. p \in 0..100
      <4>1. /\ ((idx[s] - 1) * 90) \div Steps(s) \in 0..90
            /\ ((idx[s] - 1) * 100) \div Steps(s) \in 0..100
        BY <2>1, Share
      <4> QED BY <4>1
    <3> QED BY <3>1, Percent
  <2>4. progress' = [progress EXCEPT ![s] = p]
    BY <1>2 DEF CheckCancelled
  <2> HIDE DEF p
  <2> QED BY <1>2, <1>e, <2>2, <2>3, <2>4 DEF CheckCancelled, Final
<1>3. CASE Announce(s)
  <2> DEFINE p == ((idx[s] - 1) * 90) \div Steps(s)
  <2>1. Steps(s) \in Nat /\ idx[s] - 1 \in Nat /\ idx[s] - 1 <= Steps(s) /\ Steps(s) > 0
    BY <1>3, <1>t, <1>i, <1>n DEF Announce, ScanInv
  <2>2. p \in 0..90
    BY <2>1, Share
  <2>3. progress' = [progress EXCEPT ![s] = p] /\ UNCHANGED <<status, total, findings>>
    BY <1>3 DEF Announce
  <2>4. status[s] = "running"
    BY <1>3, <1>i DEF Announce, ScanInv
  <2>5. p \in Nat /\ p # 100
    BY <2>2, Below
  <2> HIDE DEF p
  <2> QED BY <1>o, <2>3, <2>4, <2>5
<1>4. CASE RunTool(s)
  <2>1. PICK F \in SUBSET Findings : findings' = [findings EXCEPT ![s] = @ \cup F]
    BY <1>4 DEF RunTool, SaveFindings
  <2>2. UNCHANGED <<status, progress, total>> /\ status[s] = "running"
    BY <1>4, <1>i DEF RunTool, ScanInv
  <2>3. ASSUME NEW t \in Scans PROVE ScanConcluded(t)'
    BY <1>t, <1>i, <2>1, <2>2 DEF ScanConcluded, Final
  <2> QED BY <2>3 DEF ConclusionHonest, ProgressHonest, SummaryCounts, ScanConcluded
<1>5. CASE Record(s)
  <2>1. Steps(s) \in Nat /\ idx[s] \in Nat /\ idx[s] <= Steps(s) /\ Steps(s) > 0
    BY <1>5, <1>t, <1>i, <1>n DEF Record, ScanInv
  <2>2. RecordedProgress(s) \in 0..90
    BY <2>1, Share DEF RecordedProgress
  <2>3. /\ progress' = [progress EXCEPT ![s] = RecordedProgress(s)]
        /\ UNCHANGED <<status, total, findings>>
    BY <1>5 DEF Record
  <2>4. status[s] = "running"
    BY <1>5, <1>i DEF Record, ScanInv
  <2>5. RecordedProgress(s) \in Nat /\ RecordedProgress(s) # 100
    BY <2>2, Below
  <2> HIDE DEF RecordedProgress
  <2> QED BY <1>o, <2>3, <2>4, <2>5
<1>6. CASE Finish(s)
  <2>1. FinalStatus(tools[s]) \in Final \ {"cancelled"}
    BY DEF FinalStatus, Final
  <2> QED BY <1>6, <1>e, <2>1 DEF Finish
<1>7. CASE HandleFailure(s)
  BY <1>7, <1>e DEF HandleFailure, FailureTotal, Final
<1>8. CASE ~(Begin(s) \/ CheckCancelled(s) \/ Announce(s) \/ RunTool(s) \/ Record(s)
             \/ Finish(s) \/ HandleFailure(s))
  <2>1. \/ Prepare(s) \/ StartRuntime(s) \/ StartRuntimeFails(s)
        \/ ProbeRuntime(s) \/ ProbeRaises(s) \/ Plan(s) \/ CheckNext(s) \/ CheckDone(s)
        \/ Leave(s) \/ Raise(s) \/ HandlerRaises(s) \/ Cleanup(s) \/ NothingToClean(s)
        \/ RecordCleanup(s) \/ RecordCleanupFails(s)
    BY <1>8 DEF WorkerStep, RuntimeStep, ScanStep
  <2>2. UNCHANGED <<status, progress, total, findings>>
    BY <2>1 DEF Prepare, StartRuntime, StartRuntimeFails, ProbeRuntime,
                ProbeRaises, Plan, CheckNext, CheckDone, Leave, Raise, HandlerRaises, Cleanup,
                NothingToClean, RecordCleanup, RecordCleanupFails
  <2> QED BY <2>2, ConclusionKept
<1> QED BY <1>1, <1>2, <1>3, <1>4, <1>5, <1>6, <1>7, <1>8

LEMMA ConclusionStep == IInv /\ ConclusionHonest /\ [Next]_vars => ConclusionHonest'
<1> SUFFICES ASSUME IInv, ConclusionHonest, [Next]_vars PROVE ConclusionHonest'
  OBVIOUS
<1> USE DEF rowVars
<1>1. ASSUME NEW s \in Scans, NEW q \in Requests, CreateScan(s, q)
      PROVE  ConclusionHonest'
  <2>1. /\ status' = [status EXCEPT ![s] = "queued"] /\ status[s] = "none"
        /\ UNCHANGED <<progress, total, findings>>
    BY <1>1 DEF CreateScan, IInv, TypeInv, ScanInv
  <2>2. ASSUME NEW t \in Scans PROVE ScanConcluded(t)'
    BY <2>1, ConclusionOf DEF IInv, TypeInv, TypeOK, ScanConcluded, Final
  <2> QED BY <2>2 DEF ConclusionHonest, ProgressHonest, SummaryCounts, ScanConcluded
<1>2. ASSUME NEW s \in Scans, WorkerStep(s)
      PROVE  ConclusionHonest'
  BY <1>2, WorkerConcludes DEF IInv
<1>3. CASE \/ \E s \in Scans : SubmitScan(s) \/ CancelCheck(s) \/ CancelWrite(s)
           \/ TakeScan \/ Shutdown \/ Exited \/ Kill \/ Restart \/ UNCHANGED vars
  <2>1. UNCHANGED <<status, progress, total, findings>>
    BY <1>3 DEF SubmitScan, CancelCheck, CancelWrite, TakeScan,
                Shutdown, Exited, Kill, Restart, vars
  <2> QED BY <2>1, ConclusionKept
<1> QED BY <1>1, <1>2, <1>3 DEF Next

(* Whatever fails, whoever cancels and whenever the backend ends: 100       *)
(* percent is shown exactly for a scan that has ended by itself, and the    *)
(* summary stored with a final status counts the findings there are.        *)
THEOREM ConclusionsAreHonest == Spec => []ConclusionHonest
<1>1. Init => ConclusionHonest
  BY DEF Init, ConclusionHonest, ProgressHonest, SummaryCounts, Final
<1> QED BY <1>1, ConclusionStep, InductiveInvariant, PTL DEF Spec

-----------------------------------------------------------------------------
(* What the local variables of an execution and its row say of the          *)
(* scanners, as the execution goes on.                                      *)
Open(st) == st \in {"waiting", "running"}

Agree(st, t) ==
    t # "absent" =>
        \/ st = t
        \/ st = "completed_with_warnings" /\ t = "completed"

(* The outcomes that end with the scan's own conclusion. *)
Ended == {"completed", "completed_partial", "cancelled"}

Early == {"none", "inserted", "waiting", "begin", "prepare", "starting", "probing", "plan"}
Looping == {"check", "announce", "run", "record", "finish"}

(* The scanners that have no result yet: the counter lags behind the result *)
(* until it is recorded.                                                    *)
Pending(s) == IF pc[s] = "record" THEN Due(s, idx[s] + 1) ELSE Due(s, idx[s])

Agreement(s) ==
    \A k \in Tools : Agree(rowStages[s][k], rowTools[s][k]) /\ Agree(stages[s][k], tools[s][k])

(* The row never knows more than the execution. *)
RowFollows(s) ==
    pc[s] \in ExecutingPCs => \A k \in Tools : rowTools[s][k] \in {"absent", tools[s][k]}

Beginning(s) ==
    pc[s] \in Early =>
        /\ idx[s] = 1 /\ tools[s] = NoTools /\ rowTools[s] = NoTools
        /\ \A k \in StageKeys : Open(stages[s][k]) =>
              k = "runtime_start" /\ pc[s] \in {"starting", "probing"}

(* A selected scanner is pending or has a result, never both. *)
Accounting(s) ==
    /\ pc[s] \in Looping =>
          /\ \A k \in Tools : tools[s][k] # "absent" <=> k \in SelectedKeys(req[s]) \ Pending(s)
          /\ \A k \in StageKeys : Open(stages[s][k]) => k \in Pending(s)
    /\ pc[s] = "finish" => Pending(s) = {}

Settling(s) ==
    status[s] \in Ended =>
        /\ \A k \in StageKeys : ~Open(rowStages[s][k])
        /\ pc[s] \in ExecutingPCs => \A k \in StageKeys : ~Open(stages[s][k])

Ground(s) ==
    LET of(S) == {k \in Tools : rowTools[s][k] \in S}
    IN  /\ status[s] = "completed" => of({"completed"}) = SelectedKeys(req[s])
        /\ status[s] = "completed_partial" =>
               /\ of({"completed"}) # {}
               /\ of({"missing", "skipped", "error"}) = SelectedKeys(req[s]) \ of({"completed"})
               /\ of({"missing", "skipped", "error"}) # {}

Evidence(s) ==
    Agreement(s) /\ RowFollows(s) /\ Beginning(s) /\ Accounting(s) /\ Settling(s) /\ Ground(s)

EvidenceInv == \A s \in Scans : Evidence(s)

LEMMA EvidenceInit == Init => EvidenceInv
<1> SUFFICES ASSUME Init, NEW s \in Scans PROVE Evidence(s)
  BY DEF EvidenceInv
<1>1. /\ pc[s] = "none" /\ status[s] = "none" /\ idx[s] = 1
      /\ stages[s] = NoStages /\ rowStages[s] = NoStages
      /\ tools[s] = NoTools /\ rowTools[s] = NoTools
  BY DEF Init
<1>2. \A k \in StageKeys : ~Open(NoStages[k])
  BY DEF NoStages, Open
<1>3. \A k \in Tools : NoTools[k] = "absent"
  BY DEF NoTools
<1> QED
  BY <1>1, <1>2, <1>3
  DEF Evidence, Agreement, Agree, RowFollows, ExecutingPCs, TryPCs, Beginning, Accounting, Looping,
      Settling, Ended, Ground

(* What is due depends on the request and the URL. *)
LEMMA DueKept ==
  ASSUME NEW s \in Scans, req'[s] = req[s], apiUrl'[s] = apiUrl[s]
  PROVE  /\ \A n : Due(s, n)' = Due(s, n)
         /\ SelectedKeys(req[s])' = SelectedKeys(req[s])
BY DEF Due, Index, Runners, SelectedKeys, Selected, Runnable

(* What a step on another scan leaves alone. *)
SameButPc(s) ==
    /\ req'[s] = req[s] /\ status'[s] = status[s] /\ idx'[s] = idx[s]
    /\ apiUrl'[s] = apiUrl[s] /\ stages'[s] = stages[s] /\ tools'[s] = tools[s]
    /\ rowStages'[s] = rowStages[s] /\ rowTools'[s] = rowTools[s]

Untouched(s) == SameButPc(s) /\ pc'[s] = pc[s]

LEMMA UntouchedKept ==
  ASSUME NEW s \in Scans, Evidence(s), Untouched(s)
  PROVE  Evidence(s)'
<1>1. /\ \A n : Due(s, n)' = Due(s, n)
      /\ SelectedKeys(req[s])' = SelectedKeys(req[s])
  BY DueKept DEF Untouched, SameButPc
<1>2. Pending(s)' = Pending(s)
  BY <1>1 DEF Untouched, SameButPc, Pending
<1> QED
  BY <1>1, <1>2
  DEF Untouched, SameButPc, Evidence, Agreement, RowFollows, Beginning, Accounting, Settling, Ground

LEMMA WorkerUntouched ==
  ASSUME TypeOK, NEW s \in Scans, WorkerStep(s), NEW t \in Scans \ {s}
  PROVE  Untouched(t)
<1> USE DEF TypeOK, Untouched, SameButPc, Goto, SetStage, SaveStages, SaveTools,
            rowVars, localVars, clientVars, boundVars
<1>1. CASE Begin(s)
  BY <1>1 DEF Begin
<1>2. CASE Prepare(s)
  BY <1>2 DEF Prepare
<1>3. CASE StartRuntime(s)
  BY <1>3 DEF StartRuntime
<1>4. CASE StartRuntimeFails(s)
  BY <1>4 DEF StartRuntimeFails
<1>5. CASE ProbeRuntime(s)
  BY <1>5 DEF ProbeRuntime
<1>6. CASE ProbeRaises(s)
  BY <1>6 DEF ProbeRaises
<1>7. CASE Plan(s)
  BY <1>7 DEF Plan
<1>8. CASE CheckCancelled(s)
  BY <1>8 DEF CheckCancelled
<1>9. CASE CheckNext(s)
  BY <1>9 DEF CheckNext
<1>10. CASE CheckDone(s)
  BY <1>10 DEF CheckDone
<1>11. CASE Announce(s)
  BY <1>11 DEF Announce
<1>12. CASE RunTool(s)
  BY <1>12 DEF RunTool
<1>13. CASE Record(s)
  BY <1>13 DEF Record
<1>14. CASE Finish(s)
  BY <1>14 DEF Finish
<1>15. CASE Leave(s)
  BY <1>15 DEF Leave
<1>16. CASE Raise(s)
  BY <1>16 DEF Raise
<1>17. CASE HandleFailure(s)
  BY <1>17 DEF HandleFailure
<1>18. CASE HandlerRaises(s)
  BY <1>18 DEF HandlerRaises
<1>19. CASE Cleanup(s)
  BY <1>19 DEF Cleanup
<1>20. CASE NothingToClean(s)
  BY <1>20 DEF NothingToClean, Return
<1>21. CASE RecordCleanup(s)
  BY <1>21 DEF RecordCleanup, Return
<1>22. CASE RecordCleanupFails(s)
  BY <1>22 DEF RecordCleanupFails, Return
<1> QED
  BY <1>1, <1>2, <1>3, <1>4, <1>5, <1>6, <1>7, <1>8, <1>9, <1>10, <1>11,
     <1>12, <1>13, <1>14, <1>15, <1>16, <1>17, <1>18, <1>19, <1>20, <1>21,
     <1>22 DEF WorkerStep, RuntimeStep, ScanStep

(* Steps that move the execution on and touch neither row nor locals. *)
Moves(s, l) == SameButPc(s) /\ pc'[s] = l

LEMMA MoveKept ==
  ASSUME NEW s \in Scans, Evidence(s), NEW l, Moves(s, l),
         \/ pc[s] = "inserted" /\ l = "waiting" /\ status[s] = "queued"
         \/ pc[s] = "waiting" /\ l = "begin" /\ status[s] = "queued"
         \/ pc[s] = "starting" /\ l = "probing"
         \/ pc[s] = "check" /\ l = "announce"
         \/ pc[s] = "check" /\ l = "finish" /\ Due(s, idx[s]) = {}
         \/ pc[s] \in ExecutingPCs /\ l \in {"failing", "cleanup"}
  PROVE  Evidence(s)'
<1>1. /\ \A n : Due(s, n)' = Due(s, n)
      /\ SelectedKeys(req[s])' = SelectedKeys(req[s])
  BY DueKept DEF Moves, SameButPc
<1> USE DEF Moves, SameButPc, Evidence
<1>2. Agreement(s)' /\ Ground(s)'
  BY <1>1 DEF Agreement, Ground
<1>3. RowFollows(s)'
  <2>1. \A k \in Tools : rowTools[s][k] \in {"absent", tools[s][k]}
    BY DEF RowFollows, Beginning, Early, ExecutingPCs, TryPCs, NoTools
  <2> QED BY <2>1 DEF RowFollows
<1>4. Beginning(s)'
  BY DEF Beginning, Early
<1>5. Accounting(s)'
  <2>1. CASE l \in Looping
    <3>1. pc[s] = "check" /\ Pending(s)' = Pending(s)
      BY <1>1, <2>1 DEF Pending, Looping
    <3> QED BY <1>1, <2>1, <3>1 DEF Accounting, Looping, Pending
  <2>2. CASE l \notin Looping
    BY <2>2 DEF Accounting, Looping
  <2> QED BY <2>1, <2>2
<1>6. Settling(s)'
  BY DEF Settling, Ended, ExecutingPCs, TryPCs
<1> QED BY <1>2, <1>3, <1>4, <1>5, <1>6

(* Steps before the scanners are planned. *)
LEMMA StartupKept ==
  ASSUME TypeOK, NEW s \in Scans, Evidence(s), pc[s] \in {"prepare", "starting", "probing"},
         NEW l \in {"plan", "starting"}, pc'[s] = l,
         status[s] = "running", status'[s] = "running", req'[s] = req[s], idx'[s] = idx[s],
         tools'[s] = tools[s], rowTools'[s] = rowTools[s],
         \/ pc[s] = "prepare" /\ stages'[s] = stages[s] /\ rowStages'[s] = rowStages[s]
         \/ \E st : /\ stages'[s] = [stages[s] EXCEPT !["runtime_start"] = st]
                    /\ rowStages'[s] = stages'[s]
                    /\ Open(st) => l = "starting"
  PROVE  Evidence(s)'
<1>1. stages[s] \in [StageKeys -> StageStatus] /\ "runtime_start" \in StageKeys
  BY DEF TypeOK, StageKeys
<1>2. /\ idx[s] = 1 /\ tools[s] = NoTools /\ rowTools[s] = NoTools
      /\ \A k \in StageKeys : Open(stages[s][k]) =>
            k = "runtime_start" /\ pc[s] \in {"starting", "probing"}
  BY DEF Evidence, Beginning, Early
<1>3. \A k \in Tools : NoTools[k] = "absent"
  BY DEF NoTools
<1>4. l \in Early /\ l \notin Looping
  BY DEF Early, Looping
<1>5. \A k \in StageKeys : Open(stages'[s][k]) => k = "runtime_start" /\ l = "starting"
  BY <1>1, <1>2
<1>6. Agreement(s)' /\ RowFollows(s)'
  BY <1>2, <1>3 DEF Agreement, Agree, RowFollows
<1>7. Beginning(s)'
  BY <1>2, <1>5 DEF Beginning
<1>8. Accounting(s)' /\ Settling(s)' /\ Ground(s)'
  BY <1>4 DEF Accounting, Settling, Ended, Ground, Looping
<1> QED BY <1>6, <1>7, <1>8 DEF Evidence

LEMMA PlanKept ==
  ASSUME TypeInv, NEW s \in Scans, Evidence(s), Plan(s)
  PROVE  Evidence(s)'
<1>1. /\ pc[s] = "plan" /\ pc'[s] = "check" /\ status[s] = "running" /\ status'[s] = "running"
      /\ stages'[s] = PlannedStages(s) /\ rowStages'[s] = stages'[s]
      /\ tools'[s] = [k \in Tools |-> IF k \in Skipped(s) THEN "skipped" ELSE tools[s][k]]
      /\ rowTools'[s] = tools'[s] /\ UNCHANGED <<req, apiUrl, idx>>
      /\ req[s] # None
  BY DEF Plan, Goto, SaveStages, SaveTools, TypeInv, TypeOK, ScanInv
<1>2. /\ idx[s] = 1 /\ tools[s] = NoTools
      /\ \A k \in StageKeys : ~Open(stages[s][k])
  BY <1>1 DEF Evidence, Beginning, Early
<1>3. \A k \in Tools : NoTools[k] = "absent" /\ k \in StageKeys
  BY DEF NoTools, StageKeys
<1>4. /\ Due(s, 1) = SelectedKeys(req[s]) \ Skipped(s)
      /\ Skipped(s) \subseteq SelectedKeys(req[s])
      /\ SelectedKeys(req[s]) \subseteq Tools
  BY <1>1, DueAtFirst DEF TypeInv
<1>5. Pending(s)' = Due(s, 1) /\ SelectedKeys(req[s])' = SelectedKeys(req[s])
  BY <1>1, <1>2, DueKept DEF Pending
<1>6. \A k \in Tools : tools'[s][k] = IF k \in Skipped(s) THEN "skipped" ELSE "absent"
  BY <1>1, <1>2, <1>3
<1>7. \A k \in StageKeys :
        /\ k \in Skipped(s) => stages'[s][k] = "skipped"
        /\ Open(stages'[s][k]) => k \in SelectedKeys(req[s]) \ Skipped(s)
  BY <1>1, <1>2 DEF PlannedStages, Open
<1>8. Agreement(s)' /\ RowFollows(s)'
  BY <1>1, <1>3, <1>6, <1>7 DEF Agreement, Agree, RowFollows
<1>9. Beginning(s)'
  BY <1>1 DEF Beginning, Early
<1>10. Accounting(s)'
  BY <1>1, <1>4, <1>5, <1>6, <1>7 DEF Accounting
<1>11. Settling(s)' /\ Ground(s)'
  BY <1>1 DEF Settling, Ended, Ground
<1> QED BY <1>8, <1>9, <1>10, <1>11 DEF Evidence

LEMMA CancelledKept ==
  ASSUME TypeInv, NEW s \in Scans, Evidence(s), CheckCancelled(s)
  PROVE  Evidence(s)'
<1>1. /\ pc[s] = "check" /\ pc'[s] = "leaving" /\ status'[s] = "cancelled"
      /\ stages'[s] = StagesCancelled(s) /\ rowStages'[s] = stages'[s]
      /\ tools'[s] = tools[s] /\ rowTools'[s] = tools[s]
  BY DEF CheckCancelled, Goto, SaveStages, TypeInv, TypeOK
<1>2. /\ \A k \in Tools : tools[s][k] # "absent" <=> k \in SelectedKeys(req[s]) \ Due(s, idx[s])
      /\ \A k \in StageKeys : Open(stages[s][k]) => k \in Due(s, idx[s])
  BY <1>1 DEF Evidence, Accounting, Looping, Pending
<1>3. \A k \in StageKeys :
        /\ k \in Due(s, idx[s]) => stages'[s][k] = "cancelled"
        /\ k \notin Due(s, idx[s]) => stages'[s][k] = stages[s][k]
  BY <1>1 DEF StagesCancelled
<1>4. \A k \in StageKeys : ~Open(stages'[s][k])
  BY <1>2, <1>3 DEF Open
<1>5. \A k \in Tools : k \in StageKeys
  BY DEF StageKeys
<1>6. Agreement(s)' /\ RowFollows(s)'
  BY <1>1, <1>2, <1>3, <1>5 DEF Agreement, Agree, RowFollows, Evidence
<1>7. Beginning(s)' /\ Accounting(s)'
  BY <1>1 DEF Beginning, Early, Accounting, Looping
<1>8. Settling(s)' /\ Ground(s)'
  BY <1>1, <1>4 DEF Settling, Ground
<1> QED BY <1>6, <1>7, <1>8 DEF Evidence

LEMMA AnnounceKept ==
  ASSUME TypeInv, NEW s \in Scans, Evidence(s), Announce(s)
  PROVE  Evidence(s)'
<1> DEFINE c == CurrentKey(s)
<1>1. /\ pc[s] = "announce" /\ pc'[s] = "run" /\ status'[s] = "running"
      /\ stages'[s] = [stages[s] EXCEPT ![c] = "running"] /\ rowStages'[s] = stages'[s]
      /\ tools'[s] = tools[s] /\ rowTools'[s] = tools[s] /\ UNCHANGED <<req, apiUrl, idx>>
      /\ req[s] # None /\ idx[s] <= Steps(s)
      /\ stages[s] \in [StageKeys -> StageStatus]
  BY DEF Announce, Goto, SetStage, SaveStages, TypeInv, TypeOK, ScanInv
<1>2. /\ \A k \in Tools : tools[s][k] # "absent" <=> k \in SelectedKeys(req[s]) \ Due(s, idx[s])
      /\ \A k \in StageKeys : Open(stages[s][k]) => k \in Due(s, idx[s])
  BY <1>1 DEF Evidence, Accounting, Looping, Pending
<1>3. c \in Due(s, idx[s]) /\ c \in Tools /\ Tools \subseteq StageKeys
  BY <1>1, DueNext DEF TypeInv, StageKeys
<1>4. Pending(s)' = Due(s, idx[s]) /\ SelectedKeys(req[s])' = SelectedKeys(req[s])
  BY <1>1, DueKept DEF Pending
<1> HIDE DEF c
<1>5. tools[s][c] = "absent" /\ \A k \in StageKeys \ {c} : stages'[s][k] = stages[s][k]
  BY <1>1, <1>2, <1>3
<1>6. Agreement(s)' /\ RowFollows(s)'
  BY <1>1, <1>3, <1>5 DEF Agreement, Agree, RowFollows, Evidence
<1>7. Beginning(s)'
  BY <1>1 DEF Beginning, Early
<1>8. Accounting(s)'
  BY <1>1, <1>2, <1>3, <1>4, <1>5 DEF Accounting
<1>9. Settling(s)' /\ Ground(s)'
  BY <1>1 DEF Settling, Ended, Ground
<1> QED BY <1>6, <1>7, <1>8, <1>9 DEF Evidence

LEMMA RunKept ==
  ASSUME TypeInv, NEW s \in Scans, Evidence(s), RunTool(s)
  PROVE  Evidence(s)'
<1> DEFINE c == CurrentKey(s)
<1>1. PICK o \in Outcomes :
        /\ tools' = [tools EXCEPT ![s][c] = IF o = "completed_with_warnings" THEN "completed" ELSE o]
        /\ SetStage(s, c, o)
  BY DEF RunTool
<1> DEFINE t == IF o = "completed_with_warnings" THEN "completed" ELSE o
<1>2. /\ pc[s] = "run" /\ pc'[s] = "record" /\ status'[s] = "running"
      /\ rowStages'[s] = rowStages[s] /\ rowTools'[s] = rowTools[s]
      /\ UNCHANGED <<req, apiUrl, idx>> /\ req[s] # None /\ idx[s] <= Steps(s)
      /\ stages[s] \in [StageKeys -> StageStatus] /\ tools[s] \in [Tools -> ToolStatus]
  BY DEF RunTool, Goto, TypeInv, TypeOK, ScanInv
<1>3. c \in Due(s, idx[s]) /\ c \in Tools /\ Tools \subseteq StageKeys
      /\ Due(s, idx[s] + 1) = Due(s, idx[s]) \ {c}
  BY <1>2, DueNext DEF TypeInv, StageKeys
<1>4. /\ \A k \in Tools : tools[s][k] # "absent" <=> k \in SelectedKeys(req[s]) \ Due(s, idx[s])
      /\ \A k \in StageKeys : Open(stages[s][k]) => k \in Due(s, idx[s])
  BY <1>2 DEF Evidence, Accounting, Looping, Pending
<1>5. Pending(s)' = Due(s, idx[s]) \ {c} /\ SelectedKeys(req[s])' = SelectedKeys(req[s])
  BY <1>2, <1>3, DueKept DEF Pending
<1>6. c \in SelectedKeys(req[s])
  BY <1>3 DEF Due, SelectedKeys, Runners
<1>7. o \in OutcomeType /\ ~Open(o) /\ t # "absent" /\ Agree(o, t)
  BY DEF OutcomeType, Open, Agree
<1> HIDE DEF c, t
<1>8. stages'[s] = [stages[s] EXCEPT ![c] = o] /\ tools'[s] = [tools[s] EXCEPT ![c] = t]
  BY <1>1 DEF t, SetStage, TypeInv, TypeOK
<1>9. /\ tools[s][c] = "absent" /\ rowTools[s][c] = "absent"
      /\ tools'[s][c] = t /\ stages'[s][c] = o
      /\ \A k \in StageKeys \ {c} : stages'[s][k] = stages[s][k]
      /\ \A k \in Tools \ {c} : tools'[s][k] = tools[s][k]
  <2>1. tools[s][c] = "absent"
    BY <1>3, <1>4
  <2>2. rowTools[s][c] = "absent"
    BY <1>2, <1>3, <2>1 DEF Evidence, RowFollows, ExecutingPCs, TryPCs
  <2> QED BY <1>2, <1>3, <1>8, <2>1, <2>2
<1>10. Agreement(s)'
  BY <1>2, <1>3, <1>7, <1>9 DEF Agreement, Evidence
<1>11. RowFollows(s)'
  BY <1>2, <1>9 DEF RowFollows, Evidence, ExecutingPCs, TryPCs
<1>12. Beginning(s)'
  BY <1>2 DEF Beginning, Early
<1>13. Accounting(s)'
  BY <1>2, <1>3, <1>4, <1>5, <1>6, <1>7, <1>9 DEF Accounting
<1>14. Settling(s)' /\ Ground(s)'
  BY <1>2 DEF Settling, Ended, Ground
<1> QED BY <1>10, <1>11, <1>12, <1>13, <1>14 DEF Evidence

LEMMA RecordKept ==
  ASSUME TypeInv, NEW s \in Scans, Evidence(s), Record(s)
  PROVE  Evidence(s)'
<1>1. /\ pc[s] = "record" /\ pc'[s] = "check" /\ status'[s] = "running"
      /\ stages'[s] = stages[s] /\ rowStages'[s] = stages[s]
      /\ tools'[s] = tools[s] /\ rowTools'[s] = tools[s]
      /\ UNCHANGED <<req, apiUrl>> /\ idx'[s] = idx[s] + 1
  BY DEF Record, Goto, TypeInv, TypeOK, ScanInv
<1>2. Pending(s)' = Pending(s) /\ SelectedKeys(req[s])' = SelectedKeys(req[s])
  BY <1>1, DueKept DEF Pending
<1>3. Agreement(s)' /\ RowFollows(s)'
  BY <1>1 DEF Agreement, RowFollows, Evidence
<1>4. Beginning(s)'
  BY <1>1 DEF Beginning, Early
<1>5. Accounting(s)'
  BY <1>1, <1>2 DEF Accounting, Looping, Evidence
<1>6. Settling(s)' /\ Ground(s)'
  BY <1>1 DEF Settling, Ended, Ground
<1> QED BY <1>3, <1>4, <1>5, <1>6 DEF Evidence

LEMMA FinishKept ==
  ASSUME TypeInv, NEW s \in Scans, Evidence(s), Finish(s)
  PROVE  Evidence(s)'
<1>1. /\ pc[s] = "finish" /\ pc'[s] = "leaving" /\ status'[s] = FinalStatus(tools[s])
      /\ stages'[s] = [stages[s] EXCEPT !["normalisation"] = "completed"]
      /\ rowStages'[s] = stages'[s] /\ tools'[s] = tools[s] /\ rowTools'[s] = tools[s]
      /\ req' = req /\ req[s] # None
      /\ stages[s] \in [StageKeys -> StageStatus] /\ tools[s] \in [Tools -> ToolStatus]
  BY DEF Finish, Goto, SetStage, SaveStages, TypeInv, TypeOK, ScanInv
<1>2. /\ \A k \in Tools : tools[s][k] # "absent" <=> k \in SelectedKeys(req[s])
      /\ \A k \in StageKeys : ~Open(stages[s][k])
  BY <1>1 DEF Evidence, Accounting, Looping
<1>3. SelectedKeys(req[s]) \subseteq Tools /\ SelectedKeys(req[s])' = SelectedKeys(req[s])
  BY <1>1, DueAtFirst DEF TypeInv, SelectedKeys, Selected
<1>4. "normalisation" \notin Tools /\ "normalisation" \in StageKeys /\ Tools \subseteq StageKeys
  BY DEF StageKeys
<1>5. \A k \in StageKeys : stages'[s][k] = stages[s][k] \/ stages'[s][k] = "completed"
  BY <1>1, <1>4
<1>6. \A k \in Tools : stages'[s][k] = stages[s][k]
  BY <1>1, <1>4
<1>7. Agreement(s)' /\ RowFollows(s)'
  BY <1>1, <1>6 DEF Agreement, RowFollows, Evidence
<1>8. Beginning(s)' /\ Accounting(s)'
  BY <1>1 DEF Beginning, Early, Accounting, Looping
<1>9. Settling(s)'
  BY <1>1, <1>2, <1>5 DEF Settling, Open
<1>10. Ground(s)'
  <2>1. \A k \in Tools : tools[s][k] \in {"absent", "completed", "missing", "skipped", "error"}
    BY <1>1 DEF ToolStatus
  <2>2. Completed(tools[s]) \cup Unavailable(tools[s]) = SelectedKeys(req[s])
    BY <1>2, <1>3, <2>1 DEF Completed, Unavailable
  <2>3. Completed(tools[s]) \cap Unavailable(tools[s]) = {}
    BY DEF Completed, Unavailable
  <2>4. /\ {k \in Tools : rowTools'[s][k] \in {"completed"}} = Completed(tools[s])
        /\ {k \in Tools : rowTools'[s][k] \in {"missing", "skipped", "error"}}
             = Unavailable(tools[s])
    BY <1>1 DEF Completed, Unavailable
  <2>5. /\ status'[s] = "completed" =>
              Completed(tools[s]) # {} /\ Unavailable(tools[s]) = {}
        /\ status'[s] = "completed_partial" =>
              Completed(tools[s]) # {} /\ Unavailable(tools[s]) # {}
    BY <1>1 DEF FinalStatus
  <2> QED BY <1>3, <2>2, <2>3, <2>4, <2>5 DEF Ground
<1> QED BY <1>7, <1>8, <1>9, <1>10 DEF Evidence

(* The end of an execution. *)
LEMMA EndKept ==
  ASSUME TypeInv, NEW s \in Scans, Evidence(s),
         \/ HandleFailure(s) \/ Cleanup(s) \/ NothingToClean(s)
         \/ RecordCleanup(s) \/ RecordCleanupFails(s)
  PROVE  Evidence(s)'
<1> USE DEF Evidence, rowVars
<1>t. /\ stages[s] \in [StageKeys -> StageStatus] /\ tools[s] \in [Tools -> ToolStatus]
      /\ Tools \subseteq StageKeys
      /\ "runtime_cleanup" \notin Tools /\ "runtime_cleanup" \in StageKeys
  BY DEF TypeInv, TypeOK, StageKeys
<1>1. CASE HandleFailure(s)
  <2>1. /\ pc'[s] = "cleanup" /\ status'[s] = "failed" /\ req' = req
        /\ stages'[s] = stages[s] /\ rowStages'[s] = stages[s]
        /\ tools'[s] = tools[s] /\ rowTools'[s] = tools[s]
    BY <1>1 DEF HandleFailure, Goto, localVars, TypeInv, TypeOK
  <2> QED
    BY <2>1 DEF Agreement, RowFollows, Beginning, Early, Accounting, Looping, Settling, Ended, Ground
<1>2. CASE Cleanup(s)
  <2>1. /\ pc[s] = "cleanup" /\ pc'[s] = "cleaned" /\ status'[s] = status[s] /\ req' = req
        /\ stages'[s] = [stages[s] EXCEPT !["runtime_cleanup"] = "completed"]
        /\ rowStages'[s] = rowStages[s]
        /\ tools'[s] = tools[s] /\ rowTools'[s] = rowTools[s]
    BY <1>2 DEF Cleanup, Goto, SetStage, TypeInv, TypeOK
  <2>2. \A k \in StageKeys : stages'[s][k] = stages[s][k] \/ stages'[s][k] = "completed"
    BY <1>t, <2>1
  <2>3. \A k \in Tools : stages'[s][k] = stages[s][k]
    BY <1>t, <2>1
  <2>4. SelectedKeys(req[s])' = SelectedKeys(req[s])
    BY <2>1 DEF SelectedKeys, Selected
  <2>5. Agreement(s)' /\ RowFollows(s)'
    BY <2>1, <2>3 DEF Agreement, RowFollows, ExecutingPCs
  <2>6. Settling(s)'
    BY <2>1, <2>2 DEF Settling, Open, ExecutingPCs
  <2>7. Beginning(s)' /\ Accounting(s)' /\ Ground(s)'
    BY <2>1, <2>4 DEF Beginning, Early, Accounting, Looping, Ground
  <2> QED BY <2>5, <2>6, <2>7
<1>3. CASE NothingToClean(s) \/ RecordCleanup(s) \/ RecordCleanupFails(s)
  <2>1. /\ pc[s] \in {"cleanup", "cleaned"} /\ pc'[s] = "done" /\ status'[s] = status[s]
        /\ req' = req /\ rowTools'[s] = rowTools[s]
        /\ stages'[s] = NoStages /\ tools'[s] = NoTools
        /\ rowStages'[s] = rowStages[s] \/ rowStages'[s] = stages[s]
    BY <1>3 DEF NothingToClean, RecordCleanup, RecordCleanupFails, Return, Goto, TypeInv, TypeOK
  <2>2. \A k \in Tools : NoTools[k] = "absent"
    BY DEF NoTools
  <2>3. SelectedKeys(req[s])' = SelectedKeys(req[s])
    BY <2>1 DEF SelectedKeys, Selected
  <2>4. Agreement(s)'
    BY <2>1, <2>2 DEF Agreement, Agree, RowFollows, ExecutingPCs
  <2>5. Settling(s)'
    BY <2>1 DEF Settling, ExecutingPCs, TryPCs
  <2>6. RowFollows(s)' /\ Beginning(s)' /\ Accounting(s)' /\ Ground(s)'
    BY <2>1, <2>3 DEF RowFollows, ExecutingPCs, TryPCs, Beginning, Early, Accounting, Looping, Ground
  <2> QED BY <2>4, <2>5, <2>6
<1> QED BY <1>1, <1>2, <1>3

LEMMA BeginKept ==
  ASSUME TypeInv, NEW s \in Scans, Evidence(s), Begin(s)
  PROVE  Evidence(s)'
<1>1. /\ pc[s] = "begin" /\ pc'[s] = "prepare" /\ status'[s] = "running"
      /\ stages'[s] = stages[s] /\ rowStages'[s] = stages[s] /\ idx'[s] = idx[s]
      /\ tools'[s] = tools[s] /\ rowTools'[s] = rowTools[s]
  BY DEF Begin, Goto, localVars, TypeInv, TypeOK
<1>2. \A k \in Tools : NoTools[k] = "absent"
  BY DEF NoTools
<1>3. tools[s] = NoTools /\ rowTools[s] = NoTools
  BY <1>1 DEF Evidence, Beginning, Early
<1>4. Agreement(s)' /\ RowFollows(s)'
  BY <1>1, <1>2, <1>3 DEF Agreement, Agree, RowFollows
<1>5. Beginning(s)'
  BY <1>1 DEF Beginning, Early, Evidence
<1>6. Accounting(s)' /\ Settling(s)' /\ Ground(s)'
  BY <1>1 DEF Accounting, Looping, Settling, Ended, Ground
<1> QED BY <1>4, <1>5, <1>6 DEF Evidence

LEMMA WorkerEvidence ==
  ASSUME TypeInv, NEW s \in Scans, WorkerStep(s), Evidence(s)
  PROVE  Evidence(s)'
<1> USE DEF rowVars, localVars
<1>t. TypeOK /\ ScanInv(s) /\ pc \in [Scans -> PCs]
      /\ "runtime_start" \in StageKeys /\ stages[s] \in [StageKeys -> StageStatus]
  BY DEF TypeInv, TypeOK, StageKeys
<1>1. CASE Begin(s)
  BY <1>1, BeginKept
<1>2. CASE Prepare(s)
  <2>1. /\ pc[s] = "prepare" /\ pc'[s] \in {"plan", "starting"}
        /\ status[s] = "running" /\ status'[s] = "running" /\ req'[s] = req[s]
        /\ idx'[s] = idx[s] /\ tools'[s] = tools[s] /\ rowTools'[s] = rowTools[s]
    BY <1>2, <1>t DEF Prepare, Goto, ScanInv
  <2>2. \/ stages'[s] = stages[s] /\ rowStages'[s] = rowStages[s]
        \/ /\ stages'[s] = [stages[s] EXCEPT !["runtime_start"] = "running"]
           /\ rowStages'[s] = stages'[s]
           /\ pc'[s] = "starting"
    BY <1>2, <1>t DEF Prepare, Goto, SetStage, SaveStages, TypeOK
  <2> QED BY <1>t, <2>1, <2>2, StartupKept
<1>3. CASE StartRuntime(s)
  <2>1. pc[s] = "starting" /\ Moves(s, "probing")
    BY <1>3, <1>t DEF StartRuntime, Goto, Moves, SameButPc
  <2> QED BY <2>1, MoveKept
<1>4. CASE StartRuntimeFails(s) \/ ProbeRuntime(s) \/ ProbeRaises(s)
  <2>1. /\ pc[s] \in {"starting", "probing"} /\ pc'[s] = "plan"
        /\ status[s] = "running" /\ status'[s] = "running" /\ req'[s] = req[s]
        /\ idx'[s] = idx[s] /\ tools'[s] = tools[s] /\ rowTools'[s] = rowTools[s]
    BY <1>4, <1>t
    DEF StartRuntimeFails, ProbeRuntime, ProbeRaises, Goto, ScanInv
  <2>2. PICK st \in {"failed", "completed", "completed_with_warnings"} :
              SetStage(s, "runtime_start", st) /\ SaveStages(s)
    BY <1>4
    DEF StartRuntimeFails, ProbeRuntime, ProbeRaises, ProbeOutcomes
  <2>3. /\ stages'[s] = [stages[s] EXCEPT !["runtime_start"] = st]
        /\ rowStages'[s] = stages'[s] /\ ~Open(st)
    BY <1>t, <2>2 DEF SetStage, SaveStages, TypeOK, Open
  <2> QED BY <1>t, <2>1, <2>3, StartupKept
<1>5. CASE Plan(s)
  BY <1>5, PlanKept
<1>6. CASE CheckCancelled(s)
  BY <1>6, CancelledKept
<1>7. CASE CheckNext(s)
  <2>1. pc[s] = "check" /\ Moves(s, "announce")
    BY <1>7, <1>t DEF CheckNext, Goto, Moves, SameButPc
  <2> QED BY <2>1, MoveKept
<1>8. CASE CheckDone(s)
  <2>1. pc[s] = "check" /\ Moves(s, "finish") /\ idx[s] > Steps(s) /\ req[s] # None
    BY <1>8, <1>t DEF CheckDone, Goto, Moves, SameButPc, ScanInv
  <2>2. Due(s, idx[s]) = {}
    BY <1>t, <2>1, DueAtEnd
  <2> QED BY <2>1, <2>2, MoveKept
<1>9. CASE Announce(s)
  BY <1>9, AnnounceKept
<1>10. CASE RunTool(s)
  BY <1>10, RunKept
<1>11. CASE Record(s)
  BY <1>11, RecordKept
<1>12. CASE Finish(s)
  BY <1>12, FinishKept
<1>13. CASE Leave(s) \/ Raise(s) \/ HandlerRaises(s)
  <2>1. pc[s] \in ExecutingPCs
    BY <1>13 DEF Leave, Raise, HandlerRaises, ExecutingPCs, TryPCs
  <2>2. Moves(s, "failing") \/ Moves(s, "cleanup")
    BY <1>13, <1>t DEF Leave, Raise, HandlerRaises, Goto, Moves, SameButPc
  <2> QED BY <2>1, <2>2, MoveKept
<1>14. CASE HandleFailure(s) \/ Cleanup(s) \/ NothingToClean(s)
            \/ RecordCleanup(s) \/ RecordCleanupFails(s)
  BY <1>14, EndKept
<1> QED
  BY <1>1, <1>2, <1>3, <1>4, <1>5, <1>6, <1>7, <1>8, <1>9, <1>10, <1>11, <1>12, <1>13, <1>14
  DEF WorkerStep, RuntimeStep, ScanStep

(* The backend is killed: the rows stay, the executions are gone. *)
LEMMA KillKept ==
  ASSUME TypeInv, NEW s \in Scans, Evidence(s), Kill
  PROVE  Evidence(s)'
<1> USE DEF rowVars
<1>1. /\ pc'[s] = IF pc[s] \in {"none", "done"} THEN pc[s] ELSE "lost"
      /\ stages'[s] = NoStages /\ tools'[s] = NoTools /\ idx'[s] = 1
      /\ rowStages' = rowStages /\ rowTools' = rowTools /\ status' = status /\ req' = req
  BY DEF Kill
<1>2. pc'[s] \notin ExecutingPCs /\ pc'[s] \notin Looping /\ pc'[s] # "finish"
      /\ (pc'[s] \in Early => pc[s] = "none")
  BY <1>1 DEF ExecutingPCs, TryPCs, Looping, Early
<1>3. /\ \A k \in Tools : NoTools[k] = "absent"
      /\ \A k \in StageKeys : ~Open(NoStages[k])
  BY DEF NoTools, NoStages, Open
<1>4. SelectedKeys(req[s])' = SelectedKeys(req[s])
  BY <1>1 DEF SelectedKeys, Selected
<1>5. Agreement(s)' /\ RowFollows(s)' /\ Accounting(s)'
  BY <1>1, <1>2, <1>3 DEF Evidence, Agreement, Agree, RowFollows, Accounting
<1>6. Beginning(s)'
  BY <1>1, <1>2, <1>3 DEF Evidence, Beginning, Early
<1>7. Settling(s)' /\ Ground(s)'
  BY <1>1, <1>2, <1>4 DEF Evidence, Settling, Ground
<1> QED BY <1>5, <1>6, <1>7 DEF Evidence

(* A row is inserted: nothing is known of its scanners yet. *)
LEMMA CreateKept ==
  ASSUME TypeInv, NEW s \in Scans, Evidence(s), NEW q \in Requests, CreateScan(s, q)
  PROVE  Evidence(s)'
<1>1. /\ pc[s] = "none" /\ pc'[s] = "inserted" /\ status'[s] = "queued"
      /\ stages'[s] = stages[s] /\ rowStages'[s] = rowStages[s] /\ idx'[s] = idx[s]
      /\ tools'[s] = tools[s] /\ rowTools'[s] = rowTools[s]
  BY DEF CreateScan, localVars, TypeInv, TypeOK, ScanInv
<1>2. Agreement(s)' /\ RowFollows(s)'
  BY <1>1 DEF Evidence, Agreement, RowFollows, ExecutingPCs, TryPCs
<1>3. Beginning(s)'
  BY <1>1 DEF Evidence, Beginning, Early
<1>4. Accounting(s)' /\ Settling(s)' /\ Ground(s)'
  BY <1>1 DEF Accounting, Looping, Settling, Ended, Ground
<1> QED BY <1>2, <1>3, <1>4 DEF Evidence

LEMMA EvidenceStep == IInv /\ EvidenceInv /\ [Next]_vars => EvidenceInv'
<1> SUFFICES ASSUME IInv, EvidenceInv, [Next]_vars, NEW t \in Scans
             PROVE  Evidence(t)'
  BY DEF EvidenceInv
<1> USE DEF rowVars, localVars
<1>t. TypeInv /\ TypeOK /\ Evidence(t) /\ pc \in [Scans -> PCs]
  BY DEF IInv, TypeInv, TypeOK, EvidenceInv
<1>1. ASSUME NEW s \in Scans, NEW q \in Requests, CreateScan(s, q)
      PROVE  Evidence(t)'
  <2>1. CASE t = s
    BY <1>1, <1>t, <2>1, CreateKept
  <2>2. CASE t # s
    <3>1. Untouched(t)
      BY <1>1, <1>t, <2>2 DEF CreateScan, Untouched, SameButPc, TypeOK
    <3> QED BY <1>t, <3>1, UntouchedKept
  <2> QED BY <2>1, <2>2
<1>2. ASSUME NEW s \in Scans, WorkerStep(s)
      PROVE  Evidence(t)'
  <2>1. CASE t = s
    BY <1>2, <1>t, <2>1, WorkerEvidence
  <2>2. CASE t # s
    <3>1. Untouched(t)
      BY <1>2, <1>t, <2>2, WorkerUntouched
    <3> QED BY <1>t, <3>1, UntouchedKept
  <2> QED BY <2>1, <2>2
<1>3. ASSUME NEW s \in Scans, SubmitScan(s)
      PROVE  Evidence(t)'
  <2>1. CASE t = s
    <3>1. Moves(s, "waiting") /\ pc[s] = "inserted" /\ status[s] = "queued"
      BY <1>3, <1>t DEF SubmitScan, Moves, SameButPc, TypeInv, ScanInv
    <3> QED BY <1>t, <2>1, <3>1, MoveKept
  <2>2. CASE t # s
    <3>1. Untouched(t)
      BY <1>3, <1>t, <2>2 DEF SubmitScan, Untouched, SameButPc
    <3> QED BY <1>t, <3>1, UntouchedKept
  <2> QED BY <2>1, <2>2
<1>4. CASE TakeScan
  <2> DEFINE h == Head(queue)
  <2>1. h \in Scans /\ pc[h] = "waiting"
    BY <1>4, <1>t DEF TakeScan, IInv, QueueOrder, TypeOK
  <2>2. pc' = [pc EXCEPT ![h] = "begin"] /\ UNCHANGED <<rowVars, localVars>>
    BY <1>4 DEF TakeScan
  <2> HIDE DEF h
  <2>3. CASE t = h
    <3>1. Moves(h, "begin") /\ status[h] = "queued"
      BY <1>t, <2>1, <2>2 DEF Moves, SameButPc, TypeInv, ScanInv
    <3> QED BY <1>t, <2>1, <2>3, <3>1, MoveKept
  <2>4. CASE t # h
    <3>1. Untouched(t)
      BY <1>t, <2>1, <2>2, <2>4 DEF Untouched, SameButPc
    <3> QED BY <1>t, <3>1, UntouchedKept
  <2> QED BY <2>3, <2>4
<1>5. CASE Kill
  BY <1>5, <1>t, KillKept
<1>6. CASE \/ \E s \in Scans : CancelCheck(s) \/ CancelWrite(s)
           \/ Shutdown \/ Exited \/ Restart \/ UNCHANGED vars
  <2>1. Untouched(t)
    BY <1>6 DEF CancelCheck, CancelWrite, Shutdown, Exited,
                Restart, vars, Untouched, SameButPc
  <2> QED BY <1>t, <2>1, UntouchedKept
<1> QED
  BY <1>1, <1>2, <1>3, <1>4, <1>5, <1>6 DEF Next

LEMMA EvidenceKeeps == Spec => []EvidenceInv
BY EvidenceInit, EvidenceStep, InductiveInvariant, PTL DEF Spec

(* Whatever fails, whoever cancels and whenever the backend ends: the two   *)
(* accounts a row gives of a scanner agree, and a scan that concluded or    *)
(* was cancelled shows no stage as waiting or running.                      *)
THEOREM StagesAreTruthful == Spec => []StagesTruthful
<1>1. EvidenceInv => StagesTruthful
  <2> SUFFICES ASSUME EvidenceInv PROVE StagesTruthful
    OBVIOUS
  <2>1. StagesSettled
    BY DEF EvidenceInv, Evidence, Settling, Ended, Open, StagesSettled, Final
  <2>2. StagesAgreeWithTools
    BY DEF EvidenceInv, Evidence, Agreement, Agree, StagesAgreeWithTools
  <2> QED BY <2>1, <2>2 DEF StagesTruthful
<1> QED BY <1>1, EvidenceKeeps, PTL

(* A scan is "completed" only if every selected scanner completed, and      *)
(* "completed_partial" only if every other selected scanner is accounted    *)
(* for as missing, skipped or failed.                                       *)
THEOREM StatusIsEarned == Spec => []StatusMatchesEvidence
<1>1. EvidenceInv => StatusMatchesEvidence
  BY DEF EvidenceInv, Evidence, Ground, StatusMatchesEvidence
<1> QED BY <1>1, EvidenceKeeps, PTL

-----------------------------------------------------------------------------
(* The refinement: a step of the engine is a step of the life cycle, or     *)
(* changes nothing of it.                                                   *)
LEMMA ExecutingAfter ==
  ASSUME pc \in [Scans -> PCs], NEW s \in Scans, NEW l, pc' = [pc EXCEPT ![s] = l]
  PROVE  /\ l \in ExecutingPCs => Executing' = Executing \cup {s}
         /\ l \notin ExecutingPCs => Executing' = Executing \ {s}
BY DEF Executing

LEMMA WorkerRefines ==
  ASSUME IInv, NEW s \in Scans, WorkerStep(s)
  PROVE  \/ Lifecycle!Begin(s) \/ Lifecycle!Gather(s) \/ Lifecycle!Conclude(s)
         \/ Lifecycle!Fail(s) \/ Lifecycle!Release(s)
         \/ UNCHANGED Lifecycle!vars
<1> USE DEF rowVars
<1>1. Frame(s) /\ ScanInv(s) /\ pc \in [Scans -> PCs]
  BY WorkerFrame DEF IInv, TypeInv, TypeOK
<1>2. s \in Executing
  BY <1>1 DEF Frame, Executing
<1>3. ASSUME NEW l \in ExecutingPCs, Goto(s, l)
      PROVE  Executing' = Executing
  <2>1. pc' = [pc EXCEPT ![s] = l]
    BY <1>3 DEF Goto
  <2>2. Executing' = Executing \cup {s}
    BY <1>1, <1>3, <2>1, ExecutingAfter
  <2> QED BY <1>2, <2>2
<1>4. ASSUME Return(s)
      PROVE  Executing' = Executing \ {s}
  <2>1. "done" \notin ExecutingPCs
    BY DEF ExecutingPCs, TryPCs
  <2> QED BY <1>1, <1>4, <2>1, ExecutingAfter DEF Return, Goto
<1>5. \A l \in {"prepare", "starting", "probing", "plan", "check", "announce", "run", "record",
               "finish", "leaving", "failing", "cleanup", "cleaned"} : l \in ExecutingPCs
  BY DEF ExecutingPCs, TryPCs
<1>6. CASE Begin(s)
  <2>1. Executing' = Executing
    BY <1>3, <1>5, <1>6 DEF Begin
  <2>2. Lifecycle!Begin(s)
    BY <1>1, <1>2, <1>6, <2>1 DEF Begin, ScanInv, Lifecycle!Begin, Lifecycle!SetStatus
  <2> QED BY <2>2
<1>7. CASE RunTool(s)
  <2>1. Executing' = Executing
    BY <1>3, <1>5, <1>7 DEF RunTool
  <2>2. \E F \in SUBSET Findings : findings' = [findings EXCEPT ![s] = @ \cup F]
    BY <1>7 DEF RunTool, SaveFindings
  <2>3. status[s] = "running" /\ UNCHANGED status
    BY <1>1, <1>7 DEF RunTool, ScanInv
  <2>4. Lifecycle!Gather(s)
    BY <1>2, <2>1, <2>2, <2>3 DEF Lifecycle!Gather
  <2> QED BY <2>4
<1>8. CASE CheckCancelled(s)
  <2>1. Executing' = Executing
    BY <1>3, <1>5, <1>8 DEF CheckCancelled
  <2>2. Lifecycle!Conclude(s)
    BY <1>1, <1>2, <1>8, <2>1
    DEF CheckCancelled, ScanInv, Lifecycle!Conclude, Lifecycle!SetStatus, Lifecycle!Final
  <2> QED BY <2>2
<1>9. CASE Finish(s)
  <2>1. Executing' = Executing
    BY <1>3, <1>5, <1>9 DEF Finish
  <2>2. FinalStatus(tools[s]) \in Lifecycle!Final
    BY DEF FinalStatus, Lifecycle!Final
  <2>3. status' = [status EXCEPT ![s] = FinalStatus(tools[s])] /\ status[s] = "running"
        /\ UNCHANGED findings
    BY <1>1, <1>9 DEF Finish, ScanInv
  <2>4. Lifecycle!Conclude(s)
    BY <1>2, <2>1, <2>2, <2>3 DEF Lifecycle!Conclude, Lifecycle!SetStatus
  <2> QED BY <2>4
<1>10. CASE HandleFailure(s)
  <2>1. Executing' = Executing
    BY <1>3, <1>5, <1>10 DEF HandleFailure
  <2>2. Lifecycle!Fail(s)
    BY <1>2, <1>10, <2>1 DEF HandleFailure, Lifecycle!Fail, Lifecycle!SetStatus
  <2> QED BY <2>2
<1>11. CASE NothingToClean(s) \/ RecordCleanup(s) \/ RecordCleanupFails(s)
  <2>1. Return(s) /\ UNCHANGED <<status, findings>>
    BY <1>11 DEF NothingToClean, RecordCleanup, RecordCleanupFails
  <2>2. Lifecycle!Release(s)
    BY <1>2, <1>4, <2>1 DEF Lifecycle!Release
  <2> QED BY <2>2
<1>12. CASE Prepare(s) \/ StartRuntime(s) \/ StartRuntimeFails(s)
            \/ ProbeRuntime(s) \/ ProbeRaises(s)
  <2>1. UNCHANGED <<status, findings>>
        /\ (Goto(s, "plan") \/ Goto(s, "starting") \/ Goto(s, "probing"))
    BY <1>12 DEF Prepare, StartRuntime, StartRuntimeFails, ProbeRuntime, ProbeRaises
  <2> QED BY <1>3, <1>5, <2>1 DEF Lifecycle!vars
<1>13. CASE Plan(s) \/ CheckNext(s) \/ CheckDone(s) \/ Announce(s) \/ Record(s)
  <2>1. UNCHANGED <<status, findings>>
        /\ (Goto(s, "check") \/ Goto(s, "announce") \/ Goto(s, "finish") \/ Goto(s, "run"))
    BY <1>13 DEF Plan, CheckNext, CheckDone, Announce, Record
  <2> QED BY <1>3, <1>5, <2>1 DEF Lifecycle!vars
<1>14. CASE Leave(s) \/ Raise(s) \/ HandlerRaises(s) \/ Cleanup(s)
  <2>1. UNCHANGED <<status, findings>>
        /\ (Goto(s, "cleanup") \/ Goto(s, "failing") \/ Goto(s, "cleaned"))
    BY <1>14 DEF Leave, Raise, HandlerRaises, Cleanup
  <2> QED BY <1>3, <1>5, <2>1 DEF Lifecycle!vars
<1> QED
  BY <1>6, <1>7, <1>8, <1>9, <1>10, <1>11, <1>12, <1>13, <1>14 DEF WorkerStep, RuntimeStep, ScanStep

LEMMA StepRefines == IInv /\ [Next]_vars => [Lifecycle!Next]_(Lifecycle!vars)
<1> SUFFICES ASSUME IInv, [Next]_vars
             PROVE  Lifecycle!Next \/ UNCHANGED Lifecycle!vars
  OBVIOUS
<1> USE DEF rowVars
<1>t. pc \in [Scans -> PCs] /\ TypeOK
  BY DEF IInv, TypeInv, TypeOK
<1>1. ASSUME NEW s \in Scans, NEW q \in Requests, CreateScan(s, q)
      PROVE  Lifecycle!Create(s)
  <2>1. ScanInv(s) /\ pc[s] = "none" /\ status[s] = "none"
    BY <1>1 DEF IInv, TypeInv, ScanInv, CreateScan
  <2>2. Executing' = Executing
    BY <1>1, <1>t, <2>1, ExecutingAfter DEF CreateScan, Executing, ExecutingPCs, TryPCs
  <2> QED BY <1>1, <2>1, <2>2 DEF CreateScan, Lifecycle!Create, Lifecycle!SetStatus
<1>2. ASSUME NEW s \in Scans, SubmitScan(s)
      PROVE  UNCHANGED Lifecycle!vars
  <2>1. Executing' = Executing
    BY <1>2, <1>t, ExecutingAfter DEF SubmitScan, Executing, ExecutingPCs, TryPCs
  <2> QED BY <1>2, <2>1 DEF SubmitScan, Lifecycle!vars
<1>3. ASSUME NEW s \in Scans, WorkerStep(s)
      PROVE  Lifecycle!Next \/ UNCHANGED Lifecycle!vars
  BY <1>3, WorkerRefines DEF Lifecycle!Next
<1>4. CASE TakeScan
  <2> DEFINE h == Head(queue)
  <2>1. h \in Scans /\ pc[h] = "waiting"
    BY <1>4, <1>t DEF TakeScan, IInv, QueueOrder, TypeOK
  <2>2. /\ pc' = [pc EXCEPT ![h] = "begin"] /\ Cardinality(Executing) < MaxWorkers
        /\ status' = status /\ findings' = findings
    BY <1>4 DEF TakeScan, FreeWorker
  <2> HIDE DEF h
  <2>3. status[h] = "queued"
    BY <2>1 DEF IInv, TypeInv, ScanInv
  <2>4. h \notin Executing
    BY <2>1 DEF Executing, ExecutingPCs, TryPCs
  <2>5. Executing' = Executing \cup {h}
    BY <1>t, <2>1, <2>2, ExecutingAfter DEF ExecutingPCs, TryPCs
  <2>6. Lifecycle!Occupy(h)
    <3>1. Lifecycle!Cardinality(Executing) = Cardinality(Executing)
      BY Zenon DEF Lifecycle!Cardinality, Cardinality
    <3> QED BY <2>2, <2>3, <2>4, <2>5, <3>1 DEF Lifecycle!Occupy
  <2> QED BY <2>1, <2>6 DEF Lifecycle!Next
<1>5. CASE Kill
  <2>1. Executing' = {}
    BY <1>5, <1>t DEF Kill, Executing, ExecutingPCs, TryPCs
  <2> QED BY <1>5, <2>1 DEF Kill, Lifecycle!Next, Lifecycle!Die
<1>6. CASE \/ \E s \in Scans : CancelCheck(s) \/ CancelWrite(s)
           \/ Shutdown \/ Exited \/ Restart \/ UNCHANGED vars
  <2>1. UNCHANGED <<pc, status, findings>>
    BY <1>6 DEF CancelCheck, CancelWrite, Shutdown, Exited,
                Restart, vars
  <2> QED BY <2>1 DEF Executing, Lifecycle!vars
<1> QED
  BY <1>1, <1>2, <1>3, <1>4, <1>5, <1>6 DEF Next, Lifecycle!Next

(* The engine, with its queue, its workers, its users and its failures,     *)
(* implements the life cycle of ScanLifecycle.                              *)
THEOREM Refinement == Spec => ImplementsLifecycle
<1>1. Init => Lifecycle!Init
  <2> SUFFICES ASSUME Init PROVE Lifecycle!Init
    OBVIOUS
  <2>1. Executing = {}
    BY DEF Init, Executing, ExecutingPCs, TryPCs
  <2> QED BY <2>1 DEF Init, Lifecycle!Init
<1> QED BY <1>1, IInvInit, IInvStep, StepRefines, PTL DEF Spec, ImplementsLifecycle, Lifecycle!Spec
-----------------------------------------------------------------------------
(* Progress.  How many steps a scan has ahead of it at most: a round of     *)
(* four for every scanner, and those before and after the rounds.           *)
Limit(s) == Len(Selected(req[s]))

Distance(p, l, i) ==
    CASE p = "inserted" -> 4 * l + 15
      [] p = "waiting"  -> 4 * l + 14
      [] p = "begin"    -> 4 * l + 13
      [] p = "prepare"  -> 4 * l + 12
      [] p = "starting" -> 4 * l + 11
      [] p = "probing"  -> 4 * l + 10
      [] p = "plan"     -> 4 * l + 9
      [] p = "check"    -> 4 * (l + 1 - i) + 8
      [] p = "announce" -> 4 * (l + 1 - i) + 7
      [] p = "run"      -> 4 * (l + 1 - i) + 6
      [] p = "record"   -> 4 * (l + 1 - i) + 5
      [] p = "finish"   -> 7
      [] p = "leaving"  -> 6
      [] p = "failing"  -> 5
      [] p = "cleanup"  -> 4
      [] p = "cleaned"  -> 3
      [] OTHER -> 0

Rank(s) == Distance(pc[s], Limit(s), idx[s])

(* A scan on its way: before its request it has no row, a new row is handed *)
(* on by a backend that is up, a queued one is in the queue of a backend    *)
(* that executes, the loop goes one beyond the last runner at most, and     *)
(* what comes after the conclusion finds a final status, or an exception    *)
(* that nobody reads.                                                       *)
OnItsWay(s) ==
    /\ pc[s] = "none" => status[s] = "none"
    /\ pc[s] = "inserted" => up = "up"
    /\ pc[s] = "waiting" => Executes /\ \E i \in 1 .. Len(queue) : queue[i] = s
    /\ pc[s] = "check" => idx[s] <= Steps(s) + 1
    /\ pc[s] \in {"leaving", "cleanup", "cleaned", "done"} =>
          status[s] \in Final \/ s \in escaped

ProgressInv == \A s \in Scans : OnItsWay(s)

(* Where a worker's step leads from p and the i-th scanner: the control     *)
(* flow of _execute_scan.                                                   *)
Leads(p, q, i, j) ==
    \/ p = "begin" /\ q = "prepare"
    \/ p = "prepare" /\ q \in {"starting", "plan"}
    \/ p = "starting" /\ q \in {"probing", "plan"}
    \/ p = "probing" /\ q = "plan"
    \/ p = "plan" /\ q = "check" /\ j = i
    \/ p = "check" /\ q = "announce" /\ j = i
    \/ p = "check" /\ q \in {"finish", "leaving"}
    \/ p = "announce" /\ q = "run" /\ j = i
    \/ p = "run" /\ q = "record" /\ j = i
    \/ p = "record" /\ q = "check" /\ j = i + 1
    \/ p = "finish" /\ q = "leaving"
    \/ p = "leaving" /\ q = "cleanup"
    \/ p \in TryPCs \ {"starting", "probing"} /\ q = "failing"
    \/ p = "failing" /\ q = "cleanup"
    \/ p = "cleanup" /\ q \in {"cleaned", "done"}
    \/ p = "cleaned" /\ q = "done"

LEMMA WorkerLeads ==
  ASSUME TypeOK, NEW s \in Scans, WorkerStep(s)
  PROVE  Leads(pc[s], pc'[s], idx[s], idx'[s])
<1> USE DEF TypeOK, Leads, Goto, Return, localVars
<1>1. CASE Begin(s) \/ Prepare(s)
  BY <1>1 DEF Begin, Prepare
<1>2. CASE StartRuntime(s) \/ StartRuntimeFails(s)
  BY <1>2 DEF StartRuntime, StartRuntimeFails
<1>3. CASE ProbeRuntime(s) \/ ProbeRaises(s) \/ Plan(s)
  BY <1>3 DEF ProbeRuntime, ProbeRaises, Plan
<1>4. CASE CheckCancelled(s) \/ CheckNext(s) \/ CheckDone(s)
  BY <1>4 DEF CheckCancelled, CheckNext, CheckDone
<1>5. CASE Announce(s) \/ RunTool(s) \/ Record(s)
  BY <1>5 DEF Announce, RunTool, Record
<1>6. CASE Finish(s) \/ Leave(s) \/ Raise(s) \/ HandleFailure(s) \/ HandlerRaises(s)
  BY <1>6 DEF Finish, Leave, Raise, HandleFailure, HandlerRaises
<1>7. CASE Cleanup(s) \/ NothingToClean(s) \/ RecordCleanup(s) \/ RecordCleanupFails(s)
  BY <1>7 DEF Cleanup, NothingToClean, RecordCleanup, RecordCleanupFails
<1> QED BY <1>1, <1>2, <1>3, <1>4, <1>5, <1>6, <1>7 DEF WorkerStep, RuntimeStep, ScanStep

(* There are no more runners than selected scanners. *)
LEMMA LimitType ==
  ASSUME TypeOK, NEW s \in Scans, req[s] # None
  PROVE  Limit(s) \in Nat /\ Steps(s) \in Nat /\ Steps(s) <= Limit(s)
<1> DEFINE l == Selected(req[s])
<1>1. l \in Seq(Tools)
  BY SelectionType DEF TypeOK
<1>2. Runners(s) \in SUBSET DOMAIN l
  BY DEF Runners
<1> HIDE DEF l
<1>3. DOMAIN l = 1 .. Len(l) /\ Len(l) \in Nat
  BY <1>1
<1>4. IsFiniteSet(1 .. Len(l)) /\ Cardinality(1 .. Len(l)) = Len(l)
  BY <1>3, FirstNumbers
<1>5. IsFiniteSet(Runners(s)) /\ Cardinality(Runners(s)) <= Len(l)
  BY <1>2, <1>3, <1>4, FS_Subset
<1>6. Cardinality(Runners(s)) \in Nat
  BY <1>5, FS_CardinalityType
<1> QED BY <1>3, <1>5, <1>6 DEF l, Limit, Steps

LEMMA DistanceType ==
  ASSUME NEW p \in PCs, NEW l \in Nat, NEW i \in Nat \ {0},
         p \in {"check", "announce", "run", "record"} => i <= l + 1
  PROVE  /\ Distance(p, l, i) \in Nat
         /\ p \notin {"none", "done", "lost"} => Distance(p, l, i) > 0
<1> DEFINE n == 4 * l
           m == 4 * (l + 1 - i)
           d == Distance(p, l, i)
<1>1. n \in Nat /\ m \in Int /\ (i <= l + 1 => m \in Nat)
  OBVIOUS
<1>2. \/ p \in {"check", "announce", "run", "record"} /\ d \in {m + 8, m + 7, m + 6, m + 5}
      \/ d \in {n + 15, n + 14, n + 13, n + 12, n + 11, n + 10, n + 9}
      \/ d \in {7, 6, 5, 4, 3}
      \/ d = 0 /\ p \in {"none", "done", "lost"}
  BY DEF Distance, PCs, ExecutingPCs, TryPCs
<1> HIDE DEF n, m, d
<1>3. p \in {"check", "announce", "run", "record"} => m \in Nat
  BY <1>1
<1>4. d \in {m + 8, m + 7, m + 6, m + 5} /\ m \in Nat => d \in Nat \ {0}
  OBVIOUS
<1>5. d \in {n + 15, n + 14, n + 13, n + 12, n + 11, n + 10, n + 9} => d \in Nat \ {0}
  <2>1. n \in Nat
    BY <1>1
  <2>2. ASSUME NEW c \in 9 .. 15, d = n + c PROVE d \in Nat \ {0}
    BY ONLY <2>1, <2>2
  <2> QED BY <2>2
<1>6. d \in {7, 6, 5, 4, 3} => d \in Nat \ {0}
  OBVIOUS
<1>7. d \in Nat \ {0} \/ (d = 0 /\ p \in {"none", "done", "lost"})
  BY <1>2, <1>3, <1>4, <1>5, <1>6, Zenon
<1> QED BY <1>7 DEF d

(* Every way through the control flow is downhill. *)
LEMMA Downhill ==
  ASSUME NEW p, NEW q, NEW l \in Nat, NEW i \in Nat \ {0}, NEW j, Leads(p, q, i, j),
         p = "plan" => i = 1,
         p = "check" => i <= l + 1,
         p \in {"announce", "run", "record"} => i <= l
  PROVE  Distance(q, l, j) < Distance(p, l, i)
<1> DEFINE n == 4 * l
           m == 4 * (l + 1 - i)
<1>1. /\ n \in Nat /\ m \in Int
      /\ i <= l + 1 => m >= 0
      /\ i <= l => m >= 4
      /\ i = 1 => m = n
      /\ j = i => 4 * (l + 1 - j) = m
      /\ j = i + 1 => 4 * (l + 1 - j) = m - 4
  OBVIOUS
<1>2. /\ p = "begin" => Distance(p, l, i) = n + 13
      /\ p = "prepare" => Distance(p, l, i) = n + 12
      /\ p = "starting" => Distance(p, l, i) = n + 11
      /\ p = "probing" => Distance(p, l, i) = n + 10
      /\ p = "plan" => Distance(p, l, i) = n + 9
      /\ p = "check" => Distance(p, l, i) = m + 8
      /\ p = "announce" => Distance(p, l, i) = m + 7
      /\ p = "run" => Distance(p, l, i) = m + 6
      /\ p = "record" => Distance(p, l, i) = m + 5
      /\ p = "finish" => Distance(p, l, i) = 7
      /\ p = "leaving" => Distance(p, l, i) = 6
      /\ p = "failing" => Distance(p, l, i) = 5
      /\ p = "cleanup" => Distance(p, l, i) = 4
      /\ p = "cleaned" => Distance(p, l, i) = 3
  BY DEF Distance
<1>3. /\ q = "prepare" => Distance(q, l, j) = n + 12
      /\ q = "starting" => Distance(q, l, j) = n + 11
      /\ q = "probing" => Distance(q, l, j) = n + 10
      /\ q = "plan" => Distance(q, l, j) = n + 9
      /\ q = "finish" => Distance(q, l, j) = 7
      /\ q = "leaving" => Distance(q, l, j) = 6
      /\ q = "failing" => Distance(q, l, j) = 5
      /\ q = "cleanup" => Distance(q, l, j) = 4
      /\ q = "cleaned" => Distance(q, l, j) = 3
      /\ q = "done" => Distance(q, l, j) = 0
  BY DEF Distance
<1> DEFINE k == 4 * (l + 1 - j)
<1>k. (j = i => k = m) /\ (j = i + 1 => k = m - 4)
  BY <1>1
<1>r. /\ q = "check" => Distance(q, l, j) = k + 8
      /\ q = "announce" => Distance(q, l, j) = k + 7
      /\ q = "run" => Distance(q, l, j) = k + 6
      /\ q = "record" => Distance(q, l, j) = k + 5
  BY DEF Distance
<1> HIDE DEF k
<1> HIDE DEF n, m
<1> USE <1>1, <1>2, <1>3, <1>k, <1>r
<1>l. Leads(p, q, i, j)
  OBVIOUS
<1>4. CASE p = "begin" /\ q \in {"prepare", "failing"}
  BY <1>4
<1>5. CASE p = "prepare" /\ q \in {"starting", "plan", "failing"}
  BY <1>5
<1>6. CASE p = "starting" /\ q \in {"probing", "plan"}
  BY <1>6
<1>7. CASE p = "probing" /\ q = "plan"
  BY <1>7
<1>8. CASE p = "plan" /\ (q = "failing" \/ (q = "check" /\ j = i))
  <2>1. m = n
    BY <1>8
  <2> QED BY <1>8, <2>1
<1>9. CASE p = "check" /\ (q \in {"finish", "leaving", "failing"} \/ (q = "announce" /\ j = i))
  BY <1>9
<1>10. CASE p = "announce" /\ (q = "failing" \/ (q = "run" /\ j = i))
  BY <1>10
<1>11. CASE p = "run" /\ (q = "failing" \/ (q = "record" /\ j = i))
  BY <1>11
<1>12. CASE p = "record" /\ (q = "failing" \/ (q = "check" /\ j = i + 1))
  BY <1>12
<1>13. CASE p = "finish" /\ q \in {"leaving", "failing"}
  BY <1>13
<1>14. CASE p = "leaving" /\ q \in {"cleanup", "failing"}
  BY <1>14
<1>15. CASE p = "failing" /\ q = "cleanup"
  BY <1>15
<1>16. CASE p = "cleanup" /\ q \in {"cleaned", "done"}
  BY <1>16
<1>17. CASE p = "cleaned" /\ q = "done"
  BY <1>17
<1> QED
  BY ONLY <1>l, <1>4, <1>5, <1>6, <1>7, <1>8, <1>9, <1>10, <1>11, <1>12, <1>13, <1>14, <1>15,
          <1>16, <1>17 DEF Leads, TryPCs

LEMMA RankType ==
  ASSUME TypeInv, NEW s \in Scans, OnItsWay(s)
  PROVE  Rank(s) \in Nat /\ (pc[s] \notin {"none", "done", "lost"} => Rank(s) > 0)
<1>1. CASE req[s] = None
  BY <1>1 DEF TypeInv, ScanInv, Rank, Distance
<1>2. CASE req[s] # None
  <2>1. Limit(s) \in Nat /\ Steps(s) \in Nat /\ Steps(s) <= Limit(s)
        /\ idx[s] \in Nat \ {0} /\ pc[s] \in PCs
    BY <1>2, LimitType DEF TypeInv, TypeOK
  <2>2. pc[s] \in {"check", "announce", "run", "record"} => idx[s] <= Limit(s) + 1
    BY <2>1 DEF TypeInv, ScanInv, OnItsWay
  <2> QED BY <2>1, <2>2, DistanceType DEF Rank
<1> QED BY <1>1, <1>2

LEMMA RankTypes == IInv /\ ProgressInv => \A s \in Scans : Rank(s) \in Nat
BY RankType DEF IInv, ProgressInv

LEMMA RankTypesNext == (IInv /\ ProgressInv => \A s \in Scans : Rank(s) \in Nat)'
BY RankTypes, PTL

(* A worker's step for s brings s nearer to its end. *)
LEMMA WorkerRank ==
  ASSUME IInv, EvidenceInv, NEW s \in Scans, OnItsWay(s), WorkerStep(s)
  PROVE  Rank(s)' < Rank(s)
<1>1. Leads(pc[s], pc'[s], idx[s], idx'[s]) /\ Frame(s) /\ TypeInv /\ ScanInv(s)
  BY WorkerLeads, WorkerFrame DEF IInv, TypeInv
<1>2. req[s] # None
  BY <1>1 DEF ScanInv, Frame, ExecutingPCs, TryPCs
<1>3. /\ Limit(s) \in Nat /\ Steps(s) \in Nat /\ Steps(s) <= Limit(s)
      /\ idx[s] \in Nat \ {0} /\ Limit(s)' = Limit(s)
  BY <1>1, <1>2, LimitType DEF TypeInv, TypeOK, Frame, Limit
<1>4. /\ pc[s] = "check" => idx[s] <= Limit(s) + 1
      /\ pc[s] \in {"announce", "run", "record"} => idx[s] <= Limit(s)
  BY <1>1, <1>3 DEF ScanInv, OnItsWay
<1>5. pc[s] = "plan" => idx[s] = 1
  BY DEF EvidenceInv, Evidence, Beginning, Early
<1>6. Distance(pc'[s], Limit(s), idx'[s]) < Distance(pc[s], Limit(s), idx[s])
  BY <1>1, <1>3, <1>4, <1>5, Downhill
<1> QED BY <1>3, <1>6 DEF Rank

(* What is on its way stays so through a worker's step ... *)
LEMMA WorkerKeepsEscaped ==
  ASSUME NEW s \in Scans, WorkerStep(s)
  PROVE  escaped \subseteq escaped'
<1>1. CASE Begin(s) \/ Prepare(s)
  BY <1>1 DEF Begin, Prepare
<1>2. CASE StartRuntime(s) \/ StartRuntimeFails(s)
  BY <1>2 DEF StartRuntime, StartRuntimeFails
<1>3. CASE ProbeRuntime(s) \/ ProbeRaises(s) \/ Plan(s)
  BY <1>3 DEF ProbeRuntime, ProbeRaises, Plan
<1>4. CASE CheckCancelled(s) \/ CheckNext(s) \/ CheckDone(s)
  BY <1>4 DEF CheckCancelled, CheckNext, CheckDone
<1>5. CASE Announce(s) \/ RunTool(s) \/ Record(s)
  BY <1>5 DEF Announce, RunTool, Record
<1>6. CASE Finish(s) \/ Leave(s) \/ Raise(s) \/ HandleFailure(s) \/ HandlerRaises(s)
  BY <1>6 DEF Finish, Leave, Raise, HandleFailure, HandlerRaises
<1>7. CASE Cleanup(s) \/ NothingToClean(s) \/ RecordCleanup(s) \/ RecordCleanupFails(s)
  BY <1>7 DEF Cleanup, NothingToClean, RecordCleanup, RecordCleanupFails
<1> QED BY <1>1, <1>2, <1>3, <1>4, <1>5, <1>6, <1>7 DEF WorkerStep, RuntimeStep, ScanStep

LEMMA WorkerConcluded ==
  ASSUME TypeOK, NEW s \in Scans, OnItsWay(s), WorkerStep(s),
         pc'[s] \in {"leaving", "cleanup", "cleaned", "done"}
  PROVE  status'[s] \in Final \/ s \in escaped'
<1> USE DEF TypeOK, Goto, Return, rowVars
<1>1. CASE CheckCancelled(s)
  BY <1>1 DEF CheckCancelled, Final
<1>2. CASE Finish(s)
  <2>1. FinalStatus(tools[s]) \in Final
    BY DEF FinalStatus, Final
  <2> QED BY <1>2, <2>1 DEF Finish
<1>3. CASE HandleFailure(s)
  BY <1>3 DEF HandleFailure, Final
<1>4. CASE HandlerRaises(s)
  BY <1>4 DEF HandlerRaises
<1>5. CASE Leave(s) \/ Cleanup(s) \/ NothingToClean(s)
  BY <1>5 DEF Leave, Cleanup, NothingToClean, OnItsWay
<1>6. CASE RecordCleanup(s) \/ RecordCleanupFails(s)
  BY <1>6 DEF RecordCleanup, RecordCleanupFails, OnItsWay
<1>7. CASE \/ Begin(s) \/ Prepare(s) \/ StartRuntime(s) \/ StartRuntimeFails(s)
           \/ ProbeRuntime(s) \/ ProbeRaises(s) \/ Plan(s)
  BY <1>7 DEF Begin, Prepare, StartRuntime, StartRuntimeFails, ProbeRuntime,
              ProbeRaises, Plan
<1>8. CASE CheckNext(s) \/ CheckDone(s) \/ Announce(s) \/ RunTool(s) \/ Record(s) \/ Raise(s)
  BY <1>8 DEF CheckNext, CheckDone, Announce, RunTool, Record, Raise
<1> QED BY <1>1, <1>2, <1>3, <1>4, <1>5, <1>6, <1>7, <1>8 DEF WorkerStep, RuntimeStep, ScanStep

LEMMA WorkerLoops ==
  ASSUME TypeOK, NEW s \in Scans, WorkerStep(s), pc'[s] = "check"
  PROVE  Plan(s) \/ Record(s)
<1> SUFFICES ASSUME ~(Plan(s) \/ Record(s)) PROVE FALSE
  OBVIOUS
<1> USE DEF TypeOK, Goto, Return
<1>1. CASE Begin(s) \/ Prepare(s)
  BY <1>1 DEF Begin, Prepare
<1>2. CASE StartRuntime(s) \/ StartRuntimeFails(s)
  BY <1>2 DEF StartRuntime, StartRuntimeFails
<1>3. CASE ProbeRuntime(s) \/ ProbeRaises(s)
  BY <1>3 DEF ProbeRuntime, ProbeRaises
<1>4. CASE CheckCancelled(s) \/ CheckNext(s) \/ CheckDone(s)
  BY <1>4 DEF CheckCancelled, CheckNext, CheckDone
<1>5. CASE Announce(s) \/ RunTool(s)
  BY <1>5 DEF Announce, RunTool
<1>6. CASE Finish(s) \/ Leave(s) \/ Raise(s) \/ HandleFailure(s) \/ HandlerRaises(s)
  BY <1>6 DEF Finish, Leave, Raise, HandleFailure, HandlerRaises
<1>7. CASE Cleanup(s) \/ NothingToClean(s) \/ RecordCleanup(s) \/ RecordCleanupFails(s)
  BY <1>7 DEF Cleanup, NothingToClean, RecordCleanup, RecordCleanupFails
<1> QED BY <1>1, <1>2, <1>3, <1>4, <1>5, <1>6, <1>7 DEF WorkerStep, RuntimeStep, ScanStep

LEMMA WorkerProgress ==
  ASSUME IInv, EvidenceInv, ProgressInv, NEW s \in Scans, WorkerStep(s)
  PROVE  ProgressInv'
<1>1. /\ Leads(pc[s], pc'[s], idx[s], idx'[s]) /\ Frame(s) /\ TypeInv /\ ScanInv(s)
      /\ OnItsWay(s) /\ escaped \subseteq escaped'
  BY WorkerLeads, WorkerFrame, WorkerKeepsEscaped DEF IInv, TypeInv, ProgressInv
<1>2. ASSUME NEW t \in Scans \ {s} PROVE OnItsWay(t)'
  <2>1. /\ pc'[t] = pc[t] /\ status'[t] = status[t] /\ idx'[t] = idx[t]
        /\ apiUrl'[t] = apiUrl[t] /\ req' = req /\ queue' = queue /\ up' = up
    BY <1>1 DEF Frame
  <2>2. Steps(t)' = Steps(t)
    BY <2>1 DEF Steps, Runners
  <2> QED BY <1>1, <2>1, <2>2 DEF ProgressInv, OnItsWay, Executes
<1>3. pc'[s] \notin {"none", "inserted", "waiting"}
  BY <1>1 DEF Frame
<1>4. pc'[s] = "check" => idx'[s] <= Steps(s)' + 1
  <2> SUFFICES ASSUME pc'[s] = "check" PROVE idx'[s] <= Steps(s)' + 1
    OBVIOUS
  <2>3. Plan(s) \/ Record(s)
    BY WorkerLoops DEF IInv, TypeInv
  <2>1. \/ pc[s] = "plan" /\ idx'[s] = idx[s]
        \/ pc[s] = "record" /\ idx'[s] = idx[s] + 1
    BY <2>3 DEF Plan, Record, IInv, TypeInv, TypeOK
  <2>2. req[s] # None
    BY <2>1 DEF TypeInv, ScanInv, IInv
  <2>4. req' = req /\ apiUrl' = apiUrl
    BY <1>1, <2>3 DEF Plan, Record, Frame
  <2>5. Steps(s)' = Steps(s)
    BY <2>4 DEF Steps, Runners
  <2>6. Steps(s) \in Nat /\ idx[s] \in Nat
    BY <2>2, StepsType DEF IInv, TypeInv, TypeOK
  <2>7. pc[s] = "plan" => idx[s] = 1
    BY DEF EvidenceInv, Evidence, Beginning, Early
  <2>8. pc[s] = "record" => idx[s] <= Steps(s)
    BY <1>1 DEF ScanInv
  <2> QED BY <2>1, <2>5, <2>6, <2>7, <2>8
<1>5. OnItsWay(s)'
  BY <1>1, <1>3, <1>4, WorkerConcluded DEF TypeInv, OnItsWay
<1> QED BY <1>2, <1>5 DEF ProgressInv

(* ... and through any other. *)
LEMMA ProgressStep == IInv /\ EvidenceInv /\ ProgressInv /\ [Next]_vars => ProgressInv'
<1> SUFFICES ASSUME IInv, EvidenceInv, ProgressInv, [Next]_vars PROVE ProgressInv'
  OBVIOUS
<1> USE DEF rowVars, localVars
<1>t. TypeInv /\ TypeOK /\ pc \in [Scans -> PCs] /\ queue \in Seq(Scans)
  BY DEF IInv, TypeInv, TypeOK
<1>o. \A t \in Scans : OnItsWay(t)
  BY DEF ProgressInv
<1> SUFFICES ASSUME NEW t \in Scans PROVE OnItsWay(t)'
  BY DEF ProgressInv
<1>1. ASSUME NEW s \in Scans, NEW q \in Requests, CreateScan(s, q)
      PROVE  OnItsWay(t)'
  <2>1. /\ pc' = [pc EXCEPT ![s] = "inserted"] /\ req' = [req EXCEPT ![s] = q] /\ up = "up"
        /\ UNCHANGED <<up, queue, idx, apiUrl, escaped>>
    BY <1>1 DEF CreateScan
  <2>2. CASE t = s
    BY <1>t, <2>1, <2>2 DEF OnItsWay
  <2>3. CASE t # s
    <3>1. req'[t] = req[t] /\ pc'[t] = pc[t] /\ status'[t] = status[t]
      BY <1>t, <1>1, <2>1, <2>3 DEF TypeOK, CreateScan
    <3>2. Steps(t)' = Steps(t)
      BY <2>1, <3>1 DEF Steps, Runners
    <3> QED BY <1>o, <2>1, <3>1, <3>2 DEF OnItsWay, Executes
  <2> QED BY <2>2, <2>3
<1>2. ASSUME NEW s \in Scans, SubmitScan(s)
      PROVE  OnItsWay(t)'
  <2>1. /\ pc[s] = "inserted" /\ pc' = [pc EXCEPT ![s] = "waiting"] /\ queue' = Append(queue, s)
        /\ UNCHANGED <<rowVars, up, idx, apiUrl, escaped>>
    BY <1>2 DEF SubmitScan
  <2>2. Steps(t)' = Steps(t)
    BY <2>1 DEF Steps, Runners
  <2>3. CASE t = s
    <3>1. Len(queue) + 1 \in 1 .. Len(queue') /\ queue'[Len(queue) + 1] = s
      BY <1>t, <2>1
    <3>2. Executes'
      BY <1>o, <2>1 DEF OnItsWay, Executes
    <3> QED BY <1>t, <2>1, <2>3, <3>1, <3>2 DEF OnItsWay
  <2>4. CASE t # s
    <3>1. \A i \in 1 .. Len(queue) : i \in 1 .. Len(queue') /\ queue'[i] = queue[i]
      BY <1>t, <2>1
    <3>2. pc'[t] = pc[t]
      BY <1>t, <2>1, <2>4
    <3> QED BY <1>o, <2>1, <2>2, <3>1, <3>2 DEF OnItsWay, Executes
  <2> QED BY <2>3, <2>4
<1>3. ASSUME NEW s \in Scans, WorkerStep(s)
      PROVE  OnItsWay(t)'
  BY <1>3, WorkerProgress DEF ProgressInv
<1>4. CASE TakeScan
  <2> DEFINE h == Head(queue)
  <2>1. h \in Scans /\ pc[h] = "waiting" /\ Len(queue) \in Nat \ {0} /\ h = queue[1]
    BY <1>4, <1>t DEF TakeScan, IInv, QueueOrder
  <2>2. /\ pc' = [pc EXCEPT ![h] = "begin"] /\ queue' = Tail(queue)
        /\ UNCHANGED <<rowVars, up, localVars, escaped>>
    BY <1>4 DEF TakeScan
  <2> HIDE DEF h
  <2>3. Steps(t)' = Steps(t)
    BY <2>2 DEF Steps, Runners
  <2>4. CASE t = h
    BY <1>t, <2>2, <2>4 DEF OnItsWay
  <2>5. CASE t # h
    <3>1. pc'[t] = pc[t]
      BY <1>t, <2>2, <2>5
    <3>2. ASSUME NEW i \in 1 .. Len(queue), queue[i] = t
          PROVE  \E j \in 1 .. Len(queue') : queue'[j] = t
      <4>1. i - 1 \in 1 .. Len(queue') /\ queue'[i - 1] = queue[i]
        BY <1>t, <2>1, <2>2, <2>5, <3>2
      <4> QED BY <3>2, <4>1
    <3> QED BY <1>o, <2>2, <2>3, <3>1, <3>2 DEF OnItsWay, Executes
  <2> QED BY <2>4, <2>5
<1>5. CASE Shutdown
  <2>1. Steps(t)' = Steps(t)
    BY <1>5 DEF Shutdown, Steps, Runners
  <2> QED BY <1>5, <1>o, <2>1 DEF Shutdown, OnItsWay, Executes
<1>6. CASE Exited
  <2>1. Steps(t)' = Steps(t)
    BY <1>6 DEF Exited, Steps, Runners
  <2> QED BY <1>6, <1>o, <2>1 DEF Exited, OnItsWay, Executes
<1>7. CASE Kill
  <2>1. /\ pc'[t] \in {"none", "done", "lost"}
        /\ pc'[t] # "lost" => pc'[t] = pc[t]
    BY <1>7, <1>t DEF Kill
  <2> QED BY <1>7, <1>o, <2>1 DEF Kill, OnItsWay
<1>8. CASE Restart
  <2>1. Steps(t)' = Steps(t)
    BY <1>8 DEF Restart, Steps, Runners
  <2> QED BY <1>8, <1>o, <2>1 DEF Restart, OnItsWay, Executes
<1>9. CASE \/ \E s \in Scans : CancelCheck(s) \/ CancelWrite(s)
           \/ UNCHANGED vars
  <2>1. UNCHANGED <<req, status, up, queue, pc, idx, apiUrl, escaped>>
    BY <1>9 DEF CancelCheck, CancelWrite, vars
  <2>2. Steps(t)' = Steps(t)
    BY <2>1 DEF Steps, Runners
  <2> QED BY <1>o, <2>1, <2>2 DEF OnItsWay, Executes
<1> QED
  BY <1>1, <1>2, <1>3, <1>4, <1>5, <1>6, <1>7, <1>8, <1>9 DEF Next

(* What a step does to the distance a scan has yet to go. *)
RunsDown ==
    \A s \in Scans : pc[s] # "none" =>
        /\ Rank(s)' <= Rank(s)
        /\ WorkerStep(s) \/ pc'[s] # pc[s] => Rank(s)' < Rank(s)

LEMMA RankStep == IInv /\ EvidenceInv /\ ProgressInv /\ [Next]_vars => RunsDown
<1> SUFFICES ASSUME IInv, EvidenceInv, ProgressInv, [Next]_vars,
                    NEW s \in Scans, pc[s] # "none"
             PROVE  /\ Rank(s)' <= Rank(s)
                    /\ WorkerStep(s) \/ pc'[s] # pc[s] => Rank(s)' < Rank(s)
  BY DEF RunsDown
<1> USE DEF rowVars, localVars
<1>t. TypeInv /\ TypeOK /\ pc \in [Scans -> PCs] /\ queue \in Seq(Scans) /\ OnItsWay(s)
  BY DEF IInv, TypeInv, TypeOK, ProgressInv
<1>r. Rank(s) \in Nat /\ (pc[s] \notin {"none", "done", "lost"} => Rank(s) > 0)
  BY <1>t, RankType
<1>n. ASSUME NEW t \in Scans, WorkerStep(t) PROVE pc[t] \in ExecutingPCs
  BY <1>n, <1>t, WorkerFrame DEF Frame
<1>0. CASE WorkerStep(s)
  <2>1. Rank(s)' < Rank(s)
    BY <1>0, <1>t, WorkerRank
  <2>2. Rank(s)' \in Nat
    <3>1. IInv' /\ ProgressInv'
      BY <1>0, IInvStep, ProgressStep
    <3> QED BY <3>1, RankTypesNext
  <2> QED BY <1>r, <2>1, <2>2
<1>e. ASSUME req'[s] = req[s], pc'[s] = pc[s], idx'[s] = idx[s] PROVE Rank(s)' = Rank(s)
  BY <1>e DEF Rank, Limit
<1>k. ASSUME req'[s] = req[s], pc'[s] = pc[s], idx'[s] = idx[s], ~WorkerStep(s)
      PROVE  /\ Rank(s)' <= Rank(s)
             /\ WorkerStep(s) \/ pc'[s] # pc[s] => Rank(s)' < Rank(s)
  BY <1>e, <1>k, <1>r
<1> SUFFICES ASSUME ~WorkerStep(s)
             PROVE  /\ Rank(s)' <= Rank(s)
                    /\ WorkerStep(s) \/ pc'[s] # pc[s] => Rank(s)' < Rank(s)
  BY <1>0
<1>l. req[s] # None /\ Limit(s) \in Nat
  BY <1>t, LimitType DEF TypeInv, ScanInv
<1>1. ASSUME NEW u \in Scans, NEW q \in Requests, CreateScan(u, q)
      PROVE  req'[s] = req[s] /\ pc'[s] = pc[s] /\ idx'[s] = idx[s]
  BY <1>1, <1>t, <1>l DEF CreateScan, TypeOK
<1>2. ASSUME NEW u \in Scans, SubmitScan(u)
      PROVE  /\ Rank(s)' <= Rank(s)
             /\ WorkerStep(s) \/ pc'[s] # pc[s] => Rank(s)' < Rank(s)
  <2>1. /\ pc[u] = "inserted" /\ pc' = [pc EXCEPT ![u] = "waiting"]
        /\ UNCHANGED <<req, idx>>
    BY <1>2 DEF SubmitScan
  <2>2. CASE u = s
    <3>1. Rank(s) = 4 * Limit(s) + 15 /\ Rank(s)' = 4 * Limit(s) + 14
      BY <1>t, <2>1, <2>2 DEF Rank, Distance, Limit
    <3> QED BY <1>l, <3>1
  <2>3. CASE u # s
    BY <1>t, <1>k, <2>1, <2>3
  <2> QED BY <2>2, <2>3
<1>3. ASSUME NEW u \in Scans, WorkerStep(u)
      PROVE  req'[s] = req[s] /\ pc'[s] = pc[s] /\ idx'[s] = idx[s]
  BY <1>3, <1>t, WorkerFrame DEF Frame
<1>4. CASE TakeScan
  <2> DEFINE h == Head(queue)
  <2>1. h \in Scans /\ pc[h] = "waiting"
    BY <1>4, <1>t DEF TakeScan, IInv, QueueOrder
  <2>2. pc' = [pc EXCEPT ![h] = "begin"] /\ UNCHANGED <<req, idx>>
    BY <1>4 DEF TakeScan
  <2> HIDE DEF h
  <2>3. CASE h = s
    <3>1. Rank(s) = 4 * Limit(s) + 14 /\ Rank(s)' = 4 * Limit(s) + 13
      BY <1>t, <2>1, <2>2, <2>3 DEF Rank, Distance, Limit
    <3> QED BY <1>l, <3>1
  <2>4. CASE h # s
    BY <1>t, <1>k, <2>1, <2>2, <2>4
  <2> QED BY <2>3, <2>4
<1>5. CASE Kill
  <2>1. /\ pc[s] = "done" => pc'[s] = "done"
        /\ pc[s] # "done" => pc'[s] = "lost"
    BY <1>5, <1>t DEF Kill
  <2>2. Rank(s)' = 0
    BY <2>1 DEF Rank, Distance
  <2> QED BY <1>r, <2>1, <2>2
<1>6. CASE \/ \E u \in Scans : CancelCheck(u) \/ CancelWrite(u)
           \/ Shutdown \/ Exited \/ Restart \/ UNCHANGED vars
  <2>1. UNCHANGED <<req, pc, idx>>
    BY <1>6 DEF CancelCheck, CancelWrite, Shutdown, Exited,
                Restart, vars
  <2> QED BY <1>k, <2>1
<1> QED
  BY <1>1, <1>2, <1>3, <1>4, <1>5, <1>6, <1>k DEF Next

LEMMA ProgressKeeps == Spec => []ProgressInv
<1>1. Init => ProgressInv
  BY DEF Init, ProgressInv, OnItsWay
<1> QED BY <1>1, ProgressStep, InductiveInvariant, EvidenceKeeps, PTL DEF Spec

(* A scan of n scanners comes to its end within 4n + 15 steps, whatever     *)
(* fails and whoever cancels: no step of anyone takes it further away, and  *)
(* every step it makes brings it nearer.  With ScansAreServed and           *)
(* EndsAreFinal this is the argument for EveryScanEnds, short of fairness.  *)
THEOREM ScansRunOut == Spec => [](\A s \in Scans : Rank(s) \in Nat) /\ [][RunsDown]_vars
<1>1. IInv /\ EvidenceInv /\ ProgressInv /\ [Next]_vars => [RunsDown]_vars
  BY RankStep
<1> QED BY <1>1, RankTypes, InductiveInvariant, EvidenceKeeps, ProgressKeeps, PTL DEF Spec

(* Nothing is forgotten: a scan that waits is in the queue of a backend     *)
(* that executes what is queued, and where no worker is free a scan is      *)
(* executed, with a way to go of its own.                                   *)
ScansServed ==
    /\ \A s \in Scans : pc[s] = "waiting" =>
          /\ Executes
          /\ \E i \in 1 .. Len(queue) : queue[i] = s
          /\ FreeWorker \/ \E t \in Executing : Rank(t) > 0
    /\ Executing # {} => Executes

(* Whatever fails, is cancelled or is shut down: no queued scan is forgotten *)
(* (submit_scan, and the executor's queue, scan_engine.py 158-159).          *)
THEOREM ScansAreServed == Spec => []ScansServed
<1>1. IInv /\ ProgressInv => ScansServed
  <2> SUFFICES ASSUME IInv, ProgressInv PROVE ScansServed
    OBVIOUS
  <2>1. TypeInv /\ up \in {"up", "draining", "stopped", "killed"}
    BY DEF IInv, TypeInv, TypeOK
  <2>2. Executing # {} => Executes
    BY <2>1 DEF IInv, Closing, Executes
  <2>3. Executing = {} => FreeWorker
    BY FS_EmptySet DEF FreeWorker
  <2>4. \A t \in Executing : Rank(t) > 0
    BY <2>1, RankType DEF ProgressInv, Executing, ExecutingPCs, TryPCs
  <2> QED BY <2>2, <2>3, <2>4 DEF ProgressInv, OnItsWay, ScansServed
<1> QED BY <1>1, InductiveInvariant, ProgressKeeps, PTL

(* An execution that is over has left a final status, unless the exception  *)
(* handler itself failed; only the end of the backend leaves rows behind    *)
(* that say "queued" or "running".                                          *)
EndFinal ==
    \A s \in Scans :
        /\ pc[s] = "done" => status[s] \in Final \/ s \in escaped
        /\ status[s] \in {"queued", "running"} =>
              Rank(s) > 0 \/ pc[s] = "lost" \/ s \in escaped

(* No execution that returns leaves its row unfinished, and a row that is   *)
(* unfinished has steps ahead of it, whatever failed on the way             *)
(* (_execute_scan's except and finally clauses, scan_engine.py 314-339).    *)
THEOREM EndsAreFinal == Spec => []EndFinal
<1>1. IInv /\ ProgressInv => EndFinal
  <2> SUFFICES ASSUME IInv, ProgressInv, NEW s \in Scans
               PROVE  /\ pc[s] = "done" => status[s] \in Final \/ s \in escaped
                      /\ status[s] \in {"queued", "running"} =>
                            Rank(s) > 0 \/ pc[s] = "lost" \/ s \in escaped
    BY DEF EndFinal
  <2>1. pc[s] = "done" => status[s] \in Final \/ s \in escaped
    BY DEF ProgressInv, OnItsWay
  <2>2. pc[s] \notin {"none", "done", "lost"} => Rank(s) > 0
    BY RankType DEF IInv, ProgressInv
  <2>3. pc[s] = "none" => status[s] = "none"
    BY DEF ProgressInv, OnItsWay
  <2> QED BY <2>1, <2>2, <2>3 DEF Final
<1> QED BY <1>1, InductiveInvariant, ProgressKeeps, PTL
=============================================================================
