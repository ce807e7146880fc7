-------------------------- MODULE AuthProfilesProofs --------------------------
(***************************************************************************)
(* TLAPS proofs about AuthProfiles, for every set of profiles, names,      *)
(* scans and handlers, and every bound.                                    *)
(***************************************************************************)
EXTENDS AuthProfiles, TLAPS

USE ConstantsAssumption, NullAssumption

-----------------------------------------------------------------------------
(* Types.                                                                  *)

LEMMA Blank ==
  /\ Idle \in JobType /\ Idle.pc = "idle" /\ Idle.profile = Null
  /\ NoScan \in ScanType /\ NoScan.state = "none" /\ NoScan.asked = Null /\ NoScan.profile = Null
BY DEF Idle, JobType, Labels, NoScan, ScanType, Ended

LEMMA InitType == Init => TypeOK
BY Blank DEF Init, TypeOK, historyVars, boundVars

(* A request goes on to another step.                                      *)
LEMMA Onward ==
  ASSUME NEW x \in JobType, NEW l \in Labels
  PROVE  LET y == [x EXCEPT !.pc = l]
         IN  /\ y \in JobType /\ y.pc = l /\ y.profile = x.profile /\ y.name = x.name
             /\ y.secret = x.secret /\ y.key = x.key
<1>1. [x EXCEPT !.pc = l] \in JobType
  BY Zenon DEF JobType
<1> QED BY <1>1 DEF JobType

LEMMA Keyed ==
  ASSUME NEW x \in JobType, NEW k \in Nat
  PROVE  LET y == [x EXCEPT !.pc = "save", !.key = k]
         IN  /\ y \in JobType /\ y.pc = "save" /\ y.profile = x.profile /\ y.name = x.name
             /\ y.key = k
<1>1. [x EXCEPT !.pc = "save", !.key = k] \in JobType
  BY DEF JobType, Labels
<1> QED BY <1>1 DEF JobType

LEMMA Loaded ==
  ASSUME NEW x \in JobType, NEW n \in Nat
  PROVE  LET y == [x EXCEPT !.pc = "request", !.secret = n]
         IN  y \in JobType /\ y.pc = "request" /\ y.profile = x.profile /\ y.secret = n
<1>1. [x EXCEPT !.pc = "request", !.secret = n] \in JobType
  BY DEF JobType, Labels
<1> QED BY <1>1 DEF JobType

LEMMA Answered ==
  ASSUME NEW x \in JobType, NEW ok \in BOOLEAN
  PROVE  LET y == [x EXCEPT !.pc = "verdict", !.ok = ok]
         IN  y \in JobType /\ y.pc = "verdict" /\ y.profile = x.profile /\ y.secret = x.secret
<1>1. [x EXCEPT !.pc = "verdict", !.ok = ok] \in JobType
  BY Zenon DEF JobType, Labels
<1> QED BY <1>1 DEF JobType

LEMMA Started ==
  ASSUME NEW l \in Labels, NEW p \in Profiles
  PROVE  LET y == [Idle EXCEPT !.pc = l, !.profile = p]
         IN  y \in JobType /\ y.pc = l /\ y.profile = p
BY DEF Idle, JobType, Labels

LEMMA Creating ==
  ASSUME NEW l \in {"makekey", "protect"}, NEW p \in Profiles, NEW n \in Names, NEW s \in Nat
  PROVE  LET y == [Idle EXCEPT !.pc = l, !.profile = p, !.name = n, !.secret = s]
         IN  y \in JobType /\ y.pc = l /\ y.profile = p /\ y.name = n
BY DEF Idle, JobType, Labels

LEMMA Marked ==
  ASSUME NEW x \in RowType, NEW ok \in BOOLEAN
  PROVE  [x EXCEPT !.verified = ok] \in RowType /\ [x EXCEPT !.verified = ok].verified = ok
BY Zenon DEF RowType

LEMMA Moved ==
  ASSUME NEW x \in ScanType, NEW st \in Ended \cup {"checked", "queued", "resolving", "loading"}
  PROVE  LET y == [x EXCEPT !.state = st]
         IN  y \in ScanType /\ y.state = st /\ y.asked = x.asked /\ y.profile = x.profile
<1>1. [x EXCEPT !.state = st] \in ScanType
  BY Zenon DEF ScanType
<1> QED BY <1>1 DEF ScanType

LEMMA Forgotten ==
  ASSUME NEW x \in ScanType
  PROVE  LET y == [x EXCEPT !.profile = Null]
         IN  y \in ScanType /\ y.state = x.state /\ y.asked = x.asked /\ y.profile = Null
<1>1. [x EXCEPT !.profile = Null] \in ScanType
  BY DEF ScanType
<1> QED BY <1>1 DEF ScanType

-----------------------------------------------------------------------------
(* The invariant.                                                          *)

(* Whatever is at work or listed has been given an identity.               *)
Known ==
    /\ \A p \in Profiles : rows[p] # Null => p \in used
    /\ \A h \in Handlers : IF job[h].pc = "idle" THEN job[h].profile = Null
                          ELSE job[h].profile \in Profiles /\ job[h].profile \in used
    /\ \A s \in Scans : IF scans[s].state = "none" THEN scans[s].asked = Null
                       ELSE scans[s].asked \in Profiles /\ scans[s].asked \in used

(* A profile in the making is known to its request only.                   *)
Making == {"makekey", "protect", "save", "insert"}

NewAlone ==
    \A h \in Handlers : job[h].pc \in Making =>
        /\ job[h].name \in Names
        /\ rows[job[h].profile] = Null
        /\ \A g \in Handlers : g # h => job[g].profile # job[h].profile
        /\ \A s \in Scans : scans[s].asked # job[h].profile

(* The key behind a secret is the one in the key file, or the file was     *)
(* written more than once.                                                 *)
RightKey(k) == key >= 1 /\ (k = key \/ key > 1)
Kept(p) == store[p] # Null /\ RightKey(store[p].key)

Keys ==
    /\ \A p \in Profiles : rows[p] # Null => Kept(p)
    /\ \A h \in Handlers :
         /\ job[h].pc = "protect" => key >= 1
         /\ job[h].pc = "save" => RightKey(job[h].key)
         /\ job[h].pc = "insert" => Kept(job[h].profile)

(* A secret is deleted only after its row, and replaced only with it.      *)
RowsAgree ==
    \A h \in Handlers :
        /\ job[h].pc = "delete" => rows[job[h].profile] = Null
        /\ job[h].pc = "commit" => rows[job[h].profile] # Null

(* A verification under way has the secret of the file, or lost the race.  *)
Trying ==
    \A h \in Handlers : job[h].pc \in {"request", "verdict"} /\ rows[job[h].profile] # Null =>
        job[h].profile \in raced \/ job[h].secret = store[job[h].profile].secret

(* A scan names the profile it was asked for, or that one was removed.     *)
Named ==
    \A s \in Scans :
        /\ scans[s].profile \in {scans[s].asked, Null}
        /\ scans[s].state \in {"checked", "resolving", "loading"} => scans[s].profile = scans[s].asked
        /\ scans[s].state \in {"queued", "anonymous"} /\ scans[s].profile = Null =>
             rows[scans[s].asked] = Null
        /\ scans[s].state = "anonymous" => scans[s].profile = Null

IInv == /\ TypeOK /\ Known /\ NewAlone /\ Keys /\ RowsAgree /\ Trying /\ Named
        /\ NoSecretLeftOver /\ VerifiedIsCurrent

LEMMA InitInvariant == Init => IInv
BY Blank, InitType DEF Init, IInv, Known, NewAlone, Keys, RowsAgree, Trying, Named, Making,
                       NoSecretLeftOver, VerifiedIsCurrent

-----------------------------------------------------------------------------
(* What a request does to the table of requests: its own entry changes.    *)
LEMMA JobsAfter ==
  ASSUME TypeOK, Known, NEW h \in Handlers, HandlerStep(h)
  PROVE  /\ job' \in [Handlers -> JobType]
         /\ \A g \in Handlers : g # h => job'[g] = job[g]
<1>a. job \in [Handlers -> JobType] /\ job[h] \in JobType /\ Idle \in JobType
  BY Blank DEF TypeOK
<1>b. ASSUME NEW x \in JobType, job' = [job EXCEPT ![h] = x]
      PROVE  job' \in [Handlers -> JobType] /\ \A g \in Handlers : g # h => job'[g] = job[g]
  BY <1>a, <1>b
<1>c. ASSUME NEW l \in Labels, Goto(h, l)
      PROVE  job' \in [Handlers -> JobType] /\ \A g \in Handlers : g # h => job'[g] = job[g]
  <2>1. job' = [job EXCEPT ![h] = [job[h] EXCEPT !.pc = l]]
    BY <1>c DEF Goto
  <2> QED BY <2>1, <1>a, <1>b, Onward
<1>d. ASSUME Finish(h)
      PROVE  job' \in [Handlers -> JobType] /\ \A g \in Handlers : g # h => job'[g] = job[g]
  BY <1>a, <1>b, <1>d DEF Finish
<1>1. ASSUME NEW p \in Profiles, NEW n \in Names, CreateProfile(h, p, n)
      PROVE  job' \in [Handlers -> JobType] /\ \A g \in Handlers : g # h => job'[g] = job[g]
  <2>1. secrets' \in Nat
    BY <1>1 DEF CreateProfile, TypeOK
  <2>2. PICK l \in {"makekey", "protect"} :
          job' = [job EXCEPT ![h] = [Idle EXCEPT !.pc = l, !.profile = p, !.name = n, !.secret = secrets']]
    BY <1>1 DEF CreateProfile
  <2>3. [Idle EXCEPT !.pc = l, !.profile = p, !.name = n, !.secret = secrets'] \in JobType
    BY <2>1, Zenon, Creating
  <2> QED BY <2>2, <2>3, <1>b
<1>2. ASSUME NEW p \in Profiles, RemoveProfile(h, p) \/ Replace(h, p) \/ Verify(h, p)
      PROVE  job' \in [Handlers -> JobType] /\ \A g \in Handlers : g # h => job'[g] = job[g]
  <2>1. "delete" \in Labels /\ "commit" \in Labels /\ "load" \in Labels
    BY DEF Labels
  <2> QED BY <1>2, <1>b, <2>1, Started DEF RemoveProfile, Replace, Verify
<1>3. CASE MakeKey(h) \/ Save(h) \/ Insert(h) \/ InsertFails(h)
  BY <1>3, <1>c, <1>d DEF MakeKey, Save, Insert, InsertFails, Labels
<1>4. CASE DeleteSecret(h) \/ Commit(h) \/ CommitFails(h) \/ Verdict(h)
  BY <1>4, <1>d DEF DeleteSecret, Commit, CommitFails, Verdict
<1>5. CASE Protect(h)
  <2>1. job' = [job EXCEPT ![h] = [job[h] EXCEPT !.pc = "save", !.key = key]] /\ key \in Nat
    BY <1>5 DEF Protect, TypeOK
  <2> QED BY <2>1, <1>a, <1>b, Keyed
<1>6. CASE Load(h)
  <2>1. CASE Readable(job[h].profile)
    <3>1. job' = [job EXCEPT ![h] = [job[h] EXCEPT !.pc = "request",
                                                   !.secret = store[job[h].profile].secret]]
      BY <1>6, <2>1 DEF Load
    <3>2. job[h].profile \in Profiles
      BY <1>6 DEF Load, At, Known
    <3>3. store[job[h].profile].secret \in Nat
      BY <2>1, <3>2 DEF Readable, TypeOK, SecretType
    <3> QED BY <3>1, <3>3, <1>a, <1>b, Loaded
  <2> QED BY <1>6, <2>1, <1>d DEF Load
<1>7. ASSUME NEW ok \in BOOLEAN, Answer(h, ok)
      PROVE  job' \in [Handlers -> JobType] /\ \A g \in Handlers : g # h => job'[g] = job[g]
  <2>1. job' = [job EXCEPT ![h] = [job[h] EXCEPT !.pc = "verdict", !.ok = ok]]
    BY <1>7 DEF Answer
  <2> QED BY <2>1, <1>a, <1>b, <1>7, Answered
<1> QED BY <1>1, <1>2, <1>3, <1>4, <1>5, <1>6, <1>7 DEF HandlerStep

-----------------------------------------------------------------------------
(* Scans.                                                                  *)
LEMMA ScanPreserves ==
  ASSUME IInv, NEW s \in Scans, ScanStep(s), UNCHANGED linked
  PROVE  IInv'
<1> USE DEF IInv
<1>a. scans \in [Scans -> ScanType] /\ scans[s] \in ScanType
  BY DEF TypeOK
<1>b. /\ UNCHANGED <<rows, store, key, job, used, secrets, tried, raced, cut, checks, faults, kills>>
  BY DEF ScanStep, CheckProfile, InsertScan, BeginScan, Resolve, LoadForScan, ScanFrame, historyVars, boundVars
<1>c. Keys' /\ RowsAgree' /\ Trying' /\ NoSecretLeftOver' /\ VerifiedIsCurrent'
  BY <1>b DEF Keys, RowsAgree, Trying, NoSecretLeftOver, VerifiedIsCurrent, RightKey, Kept, Readable, At
<1>1. ASSUME NEW p \in Profiles, CheckProfile(s, p) PROVE IInv'
  <2>1. /\ scans' = [scans EXCEPT ![s] = [state |-> "checked", asked |-> p, profile |-> p]]
        /\ rows[p] # Null
    BY <1>1 DEF CheckProfile
  <2>2. [state |-> "checked", asked |-> p, profile |-> p] \in ScanType
    BY DEF ScanType
  <2>3. TypeOK'
    BY <1>a, <1>b, <2>1, <2>2 DEF TypeOK
  <2>4. Known' /\ Named'
    BY <1>a, <1>b, <2>1 DEF Known, Named
  <2>5. NewAlone'
    BY <1>a, <1>b, <2>1 DEF NewAlone
  <2> QED BY <1>c, <2>3, <2>4, <2>5
<1>2. ASSUME NEW to \in Ended \cup {"queued", "resolving", "loading"},
             scans' = [scans EXCEPT ![s].state = to], scans[s].state # "none", to # "none",
             to \in {"resolving", "loading"} => scans[s].profile = scans[s].asked,
             to = "queued" => scans[s].profile # Null,
             to = "anonymous" => scans[s].profile = Null /\ scans[s].state = "queued"
      PROVE IInv'
  <2>1. /\ scans' \in [Scans -> ScanType]
        /\ scans'[s].state = to /\ scans'[s].asked = scans[s].asked
        /\ scans'[s].profile = scans[s].profile
        /\ \A r \in Scans : r # s => scans'[r] = scans[r]
    BY <1>a, <1>2, Moved
  <2>2. TypeOK'
    BY <1>b, <2>1 DEF TypeOK
  <2>5. \A r \in Scans :
          /\ scans'[r].asked = scans[r].asked
          /\ scans'[r].state = "none" <=> scans[r].state = "none"
    BY <1>2, <2>1
  <2>3. Known' /\ NewAlone'
    <3>1. Known'
      BY <1>b, <2>5 DEF Known
    <3>2. NewAlone'
      BY <1>b, <2>5 DEF NewAlone
    <3> QED BY <3>1, <3>2
  <2>4. Named'
    <3>1. ASSUME NEW r \in Scans, r # s PROVE scans'[r] = scans[r] /\ rows' = rows
      BY <1>b, <2>1, <3>1
    <3>2. /\ scans[s].profile \in {scans[s].asked, Null}
          /\ scans[s].state = "queued" /\ scans[s].profile = Null => rows[scans[s].asked] = Null
      BY DEF Named
    <3> QED BY <1>b, <1>2, <2>1, <3>1, <3>2 DEF Named, Ended
  <2> QED BY <1>c, <2>2, <2>3, <2>4
<1>3. CASE InsertScan(s)
  <2>1. scans[s].profile \in Profiles
    BY <1>3 DEF InsertScan, Moves, Known, Named
  <2>2. PICK to \in {"queued", "refused"} : scans' = [scans EXCEPT ![s].state = to]
    BY <1>3 DEF InsertScan, Moves
  <2>3. scans[s].state = "checked" /\ to \in Ended \cup {"queued", "resolving", "loading"}
    BY <1>3 DEF InsertScan, Moves, Ended
  <2> QED BY <1>2, <2>1, <2>2, <2>3
<1>4. CASE BeginScan(s)
  BY <1>2, <1>4 DEF BeginScan, Moves, Ended, Named
<1>5. CASE Resolve(s)
  BY <1>2, <1>5 DEF Resolve, Moves, Ended, Named
<1>6. CASE LoadForScan(s)
  <2>1. PICK to \in {"authenticated", "failed"} : scans' = [scans EXCEPT ![s].state = to]
    BY <1>6 DEF LoadForScan, Moves, Unauthenticated
  <2>2. scans[s].state = "loading" /\ to \in Ended \cup {"queued", "resolving", "loading"}
    BY <1>6 DEF LoadForScan, Moves, Ended
  <2> QED BY <1>2, <2>1, <2>2
<1> QED BY <1>1, <1>3, <1>4, <1>5, <1>6 DEF ScanStep

(* A kill.                                                                 *)
LEMMA KillPreserves ==
  ASSUME IInv, Kill, UNCHANGED linked
  PROVE  IInv'
<1> USE DEF IInv
<1>1. /\ job' = [h \in Handlers |-> Idle]
      /\ UNCHANGED <<rows, store, key, used, secrets, tried, checks, faults>>
      /\ raced \subseteq raced' /\ cut \subseteq cut'
      /\ raced' \subseteq Profiles /\ cut' \subseteq Profiles /\ kills' \in 0 .. MaxKills
      /\ \A p \in Profiles, h \in Handlers :
           /\ At(h, "commit") /\ job[h].profile = p => p \in raced'
           /\ job[h].pc \in {"insert", "delete"} /\ job[h].profile = p => p \in cut'
  BY DEF Kill, TypeOK
<1>2. \A s \in Scans : /\ scans'[s] \in ScanType
                        /\ scans'[s].asked = scans[s].asked /\ scans'[s].profile = scans[s].profile
                        /\ \/ scans'[s].state = scans[s].state
                           \/ scans'[s].state = "lost" /\ scans[s].state # "none"
  <2> TAKE s \in Scans
  <2>1. scans[s] \in ScanType /\ "lost" \in Ended
    BY DEF TypeOK, Ended
  <2>2. scans'[s] = IF scans[s].state \in Ended THEN scans[s] ELSE [scans[s] EXCEPT !.state = "lost"]
    BY DEF Kill
  <2>3. CASE scans[s].state \in Ended
    <3>1. scans'[s] = scans[s]
      BY <2>2, <2>3
    <3> QED BY <2>1, <3>1
  <2>4. CASE scans[s].state \notin Ended
    <3>1. scans'[s] = [scans[s] EXCEPT !.state = "lost"] /\ scans[s].state # "none"
      BY <2>2, <2>4 DEF Ended
    <3> QED BY <2>1, <3>1, Moved
  <2> QED BY <2>3, <2>4
<1>3. scans' \in [Scans -> ScanType]
  <2>1. scans' = [s \in Scans |-> scans'[s]]
    BY DEF Kill
  <2> QED BY <2>1, <1>2
<1>4. TypeOK'
  BY <1>1, <1>3, Blank DEF TypeOK
<1>j. \A h \in Handlers : job'[h].pc = "idle" /\ job'[h].profile = Null
  BY <1>1, Blank
<1>5. Known' /\ Keys'
  BY <1>1, <1>2, <1>j DEF Known, Keys, RightKey, Kept
<1>8. NewAlone' /\ RowsAgree' /\ Trying'
  BY <1>j DEF NewAlone, RowsAgree, Trying, Making
<1>6. Named'
  BY <1>1, <1>2 DEF Named
<1>7. NoSecretLeftOver' /\ VerifiedIsCurrent'
  BY <1>1 DEF NoSecretLeftOver, VerifiedIsCurrent
<1> QED BY <1>4, <1>5, <1>6, <1>7, <1>8

-----------------------------------------------------------------------------
(* Requests.                                                               *)
LEMMA RequestType ==
  ASSUME TypeOK, Known, NewAlone, RowsAgree, NEW h \in Handlers, HandlerStep(h), UNCHANGED linked
  PROVE  TypeOK'
<1> USE DEF TypeOK, historyVars, boundVars
<1>a. job' \in [Handlers -> JobType]
  BY JobsAfter
<1>b. job[h] \in JobType /\ job[h].key \in Nat /\ job[h].secret \in Nat /\ job[h].ok \in BOOLEAN
  BY DEF JobType
<1>c. \A p \in Profiles :
        /\ rows[p] \in RowType \cup {Null}
        /\ \A x \in RowType \cup {Null} :
             [rows EXCEPT ![p] = x] \in [Profiles -> RowType \cup {Null}]
        /\ \A x \in SecretType \cup {Null} :
             [store EXCEPT ![p] = x] \in [Profiles -> SecretType \cup {Null}]
  OBVIOUS
<1>d. \A s, k \in Nat : Secret(s, k) \in SecretType
  BY DEF Secret, SecretType
<1>1. ASSUME NEW p \in Profiles, NEW n \in Names, CreateProfile(h, p, n) PROVE TypeOK'
  BY <1>a, <1>1 DEF CreateProfile
<1>2. CASE MakeKey(h) \/ Protect(h)
  BY <1>a, <1>2 DEF MakeKey, Protect
<1>3. CASE Save(h)
  <2>1. job[h].profile \in Profiles
    BY <1>3 DEF Save, At, Known
  <2> QED BY <1>a, <1>b, <1>c, <1>d, <1>3, <2>1 DEF Save
<1>4. CASE Insert(h)
  <2>1. job[h].profile \in Profiles
    BY <1>4 DEF Insert, At, Known
  <2>2. job[h].name \in Names => [name |-> job[h].name, verified |-> FALSE] \in RowType
    BY DEF RowType
  <2>3. job[h].name \in Names
    BY <1>4 DEF Insert, At, NewAlone, Making
  <2> QED BY <1>a, <1>c, <1>4, <2>1, <2>2, <2>3 DEF Insert
<1>5. CASE InsertFails(h)
  BY <1>a, <1>5 DEF InsertFails, Fault
<1>6. ASSUME NEW p \in Profiles, RemoveProfile(h, p) PROVE TypeOK'
  <2>1. scans' \in [Scans -> ScanType]
    BY <1>6, Forgotten DEF RemoveProfile, Forgetting
  <2> QED BY <1>a, <1>c, <1>6, <2>1 DEF RemoveProfile
<1>7. CASE DeleteSecret(h)
  <2>1. job[h].profile \in Profiles
    BY <1>7 DEF DeleteSecret, At, Known
  <2> QED BY <1>a, <1>c, <1>7, <2>1 DEF DeleteSecret
<1>8. ASSUME NEW p \in Profiles, Replace(h, p) PROVE TypeOK'
  BY <1>a, <1>c, <1>d, <1>8 DEF Replace
<1>9. CASE Commit(h)
  <2>1. job[h].profile \in Profiles /\ rows[job[h].profile] \in RowType
    BY <1>9, <1>c DEF Commit, At, Known, RowsAgree
  <2>2. [rows[job[h].profile] EXCEPT !.verified = FALSE] \in RowType
    BY <2>1, Marked
  <2> QED BY <1>a, <1>c, <1>9, <2>1, <2>2 DEF Commit, Unverified
<1>10. CASE CommitFails(h)
  <2>1. job[h].profile \in Profiles
    BY <1>10 DEF CommitFails, At, Known
  <2> QED BY <1>a, <1>10, <2>1 DEF CommitFails, Fault
<1>11. ASSUME NEW p \in Profiles, Verify(h, p) PROVE TypeOK'
  BY <1>a, <1>11 DEF Verify
<1>12. CASE Load(h)
  BY <1>a, <1>12 DEF Load
<1>13. ASSUME NEW ok \in BOOLEAN, Answer(h, ok) PROVE TypeOK'
  BY <1>a, <1>13 DEF Answer
<1>14. CASE Verdict(h)
  <2>1. CASE rows[job[h].profile] # Null
    <3>1. job[h].profile \in Profiles
      BY <1>14 DEF Verdict, At, Known
    <3>2. [rows[job[h].profile] EXCEPT !.verified = job[h].ok] \in RowType
      BY <1>b, <1>c, <2>1, <3>1, Marked
    <3> QED BY <1>a, <1>b, <1>c, <1>14, <2>1, <3>1, <3>2 DEF Verdict
  <2> QED BY <1>a, <1>14, <2>1 DEF Verdict
<1> QED BY <1>1, <1>2, <1>3, <1>4, <1>5, <1>6, <1>7, <1>8, <1>9, <1>10, <1>11, <1>12, <1>13, <1>14
        DEF HandlerStep

Rest == /\ Known /\ NewAlone /\ Keys /\ RowsAgree /\ Trying /\ Named
        /\ NoSecretLeftOver /\ VerifiedIsCurrent

LEMMA StartedJob ==
  ASSUME TypeOK, NEW h \in Handlers, NEW l \in {"delete", "commit", "load"}, NEW p \in Profiles,
         job' = [job EXCEPT ![h] = [Idle EXCEPT !.pc = l, !.profile = p]]
  PROVE  job'[h].pc = l /\ job'[h].profile = p
<1>1. l \in Labels
  BY DEF Labels
<1>2. job'[h] = [Idle EXCEPT !.pc = l, !.profile = p]
  BY DEF TypeOK
<1>3. LET y == [Idle EXCEPT !.pc = l, !.profile = p] IN y.pc = l /\ y.profile = p
  BY <1>1, Started
<1> QED BY <1>2, <1>3

LEMMA CreatingJob ==
  ASSUME TypeOK, NEW h \in Handlers, NEW l \in {"makekey", "protect"}, NEW p \in Profiles,
         NEW n \in Names, secrets' \in Nat,
         job' = [job EXCEPT ![h] = [Idle EXCEPT !.pc = l, !.profile = p, !.name = n, !.secret = secrets']]
  PROVE  job'[h].pc = l /\ job'[h].profile = p /\ job'[h].name = n
<1>1. PICK s \in Nat : s = secrets'
  OBVIOUS
<1>2. job'[h] = [Idle EXCEPT !.pc = l, !.profile = p, !.name = n, !.secret = s]
  BY <1>1 DEF TypeOK
<1>3. LET y == [Idle EXCEPT !.pc = l, !.profile = p, !.name = n, !.secret = s]
      IN  y.pc = l /\ y.profile = p /\ y.name = n
  BY DEF Idle
<1> QED BY <1>2, <1>3

LEMMA LoadedJob ==
  ASSUME TypeOK, NEW h \in Handlers, store[job[h].profile].secret \in Nat,
         job' = [job EXCEPT ![h] = [job[h] EXCEPT !.pc = "request",
                                                  !.secret = store[job[h].profile].secret]]
  PROVE  /\ job'[h].pc = "request" /\ job'[h].profile = job[h].profile
         /\ job'[h].secret = store[job[h].profile].secret
<1>1. job'[h] = [job[h] EXCEPT !.pc = "request", !.secret = store[job[h].profile].secret]
  BY DEF TypeOK
<1>2. job[h] \in JobType
  BY DEF TypeOK
<1>3. LET y == [job[h] EXCEPT !.pc = "request", !.secret = store[job[h].profile].secret]
      IN  y.pc = "request" /\ y.profile = job[h].profile /\ y.secret = store[job[h].profile].secret
  BY <1>2, Loaded
<1> QED BY <1>1, <1>3

(* The profiles in the making stay alone when a request does nothing to    *)
(* them.                                                                   *)
LEMMA StaysAlone ==
  ASSUME NewAlone, NEW h \in Handlers,
         \A g \in Handlers : g # h => job'[g] = job[g],
         \A s \in Scans : scans'[s].asked = scans[s].asked,
         \A g \in Handlers : g # h /\ job[g].pc \in Making =>
             rows'[job[g].profile] = Null /\ job'[h].profile # job[g].profile,
         job'[h].pc \in Making =>
             /\ job[h].pc \in Making /\ rows'[job[h].profile] = Null
             /\ job'[h].profile = job[h].profile /\ job'[h].name = job[h].name
  PROVE  NewAlone'
<1> SUFFICES ASSUME NEW k \in Handlers, job'[k].pc \in Making
             PROVE  /\ job'[k].name \in Names /\ rows'[job'[k].profile] = Null
                    /\ \A g \in Handlers : g # k => job'[g].profile # job'[k].profile
                    /\ \A s \in Scans : scans'[s].asked # job'[k].profile
  BY DEF NewAlone, Making
<1>1. job[k].pc \in Making /\ job'[k].profile = job[k].profile /\ job'[k].name = job[k].name
  OBVIOUS
<1> QED BY <1>1 DEF NewAlone

LEMMA RequestPreserves ==
  ASSUME TypeOK, Rest, NEW h \in Handlers, HandlerStep(h)
  PROVE  Rest'
<1> USE DEF Rest, historyVars, boundVars
<1>a. job \in [Handlers -> JobType] /\ job[h] \in JobType /\ Idle.pc = "idle" /\ Idle.profile = Null
  BY Blank DEF TypeOK
<1>o. \A g \in Handlers : g # h => job'[g] = job[g]
  BY JobsAfter
<1>g. ASSUME NEW l \in Labels, Goto(h, l)
      PROVE  /\ job'[h].pc = l /\ job'[h].profile = job[h].profile /\ job'[h].name = job[h].name
             /\ job'[h].secret = job[h].secret /\ job'[h].key = job[h].key
  <2>1. job' = [job EXCEPT ![h] = [job[h] EXCEPT !.pc = l]]
    BY <1>g DEF Goto
  <2> QED BY <2>1, <1>a, Onward
<1>f. ASSUME Finish(h) PROVE job'[h].pc = "idle" /\ job'[h].profile = Null
  BY <1>a, <1>f DEF Finish
<1>n. \A g \in Handlers : job[g].pc \in Making =>
        /\ rows[job[g].profile] = Null /\ job[g].profile \in Profiles /\ job[g].profile # Null
        /\ \A k \in Handlers : k # g => job[k].profile # job[g].profile
  BY DEF NewAlone, Known, Making
<1>i. \A g \in Handlers : job[g].profile \in used \/ job[g].profile = Null
  BY DEF Known
<1>1. ASSUME NEW p \in Profiles, NEW n \in Names, CreateProfile(h, p, n) PROVE Rest'
  <2>1. /\ p \notin used /\ used' = used \cup {p} /\ job[h].pc = "idle"
        /\ UNCHANGED <<rows, store, scans, key, raced, tried, cut>>
    BY <1>1 DEF CreateProfile, At
  <2>2. PICK l \in {"makekey", "protect"} :
          /\ l = "protect" => key # 0
          /\ job' = [job EXCEPT ![h] = [Idle EXCEPT !.pc = l, !.profile = p, !.name = n, !.secret = secrets']]
    BY <1>1 DEF CreateProfile
  <2>3. secrets' \in Nat /\ key \in Nat
    BY <1>1 DEF CreateProfile, TypeOK
  <2>5. job'[h].pc = l /\ job'[h].profile = p /\ job'[h].name = n
    BY <2>2, <2>3, CreatingJob
  <2>6. rows[p] = Null /\ \A g \in Handlers : job[g].profile # p
    BY <2>1, <1>i DEF Known
  <2>i0. Known'
    BY <1>o, <2>1, <2>2, <2>3, <2>5, <2>6 DEF Known
  <2>i1. NewAlone'
    <3> SUFFICES ASSUME NEW k \in Handlers, job'[k].pc \in Making
                 PROVE  /\ job'[k].name \in Names /\ rows'[job'[k].profile] = Null
                        /\ \A g \in Handlers : g # k => job'[g].profile # job'[k].profile
                        /\ \A s \in Scans : scans'[s].asked # job'[k].profile
      BY DEF NewAlone, Making
    <3>1. CASE k = h
      <4>1. \A s \in Scans : scans[s].asked # p
        BY <2>1 DEF Known
      <4> QED BY <1>o, <2>1, <2>5, <2>6, <3>1, <4>1
    <3>2. CASE k # h
      <4>1. job'[k] = job[k] /\ job[k].pc \in Making /\ job[k].profile # p
        BY <1>o, <2>6, <3>2
      <4>2. \A g \in Handlers : g # h => job'[g] = job[g]
        BY <1>o
      <4> QED BY <2>1, <2>5, <4>1, <4>2 DEF NewAlone
    <3> QED BY <3>1, <3>2
  <2>i2. Keys'
    BY <1>o, <2>1, <2>2, <2>3, <2>5, <2>6 DEF Keys, RightKey, Kept
  <2>i3. RowsAgree'
    BY <1>o, <2>1, <2>2, <2>3, <2>5, <2>6 DEF RowsAgree
  <2>i4. Trying'
    BY <1>o, <2>1, <2>2, <2>3, <2>5, <2>6 DEF Trying
  <2>i5. Named'
    BY <1>o, <2>1, <2>2, <2>3, <2>5, <2>6 DEF Named
  <2>i6. NoSecretLeftOver'
    BY <1>o, <2>1, <2>2, <2>3, <2>5, <2>6 DEF NoSecretLeftOver
  <2>i7. VerifiedIsCurrent'
    BY <1>o, <2>1, <2>2, <2>3, <2>5, <2>6 DEF VerifiedIsCurrent, At
  <2> QED BY <2>i0, <2>i1, <2>i2, <2>i3, <2>i4, <2>i5, <2>i6, <2>i7
<1>2. CASE MakeKey(h)
  <2>1. /\ job[h].pc = "makekey" /\ key \in Nat /\ key' = key + 1
        /\ UNCHANGED <<rows, store, scans, used, raced, tried, cut>>
    BY <1>2 DEF MakeKey, At, TypeOK
  <2>2. job'[h].pc = "protect" /\ job'[h].profile = job[h].profile /\ job'[h].name = job[h].name
    BY <1>2, <1>g DEF MakeKey, Labels
  <2>i0. Known'
    BY <1>o, <2>1, <2>2 DEF Known
  <2>i1. NewAlone'
    BY <1>o, <2>1, <2>2 DEF NewAlone, Making
  <2>i2. Keys'
    BY <1>o, <2>1, <2>2 DEF Keys, RightKey, Kept
  <2>i3. RowsAgree'
    BY <1>o, <2>1, <2>2 DEF RowsAgree
  <2>i4. Trying'
    BY <1>o, <2>1, <2>2 DEF Trying
  <2>i5. Named'
    BY <1>o, <2>1, <2>2 DEF Named
  <2>i6. NoSecretLeftOver'
    BY <1>o, <2>1, <2>2 DEF NoSecretLeftOver
  <2>i7. VerifiedIsCurrent'
    BY <1>o, <2>1, <2>2 DEF VerifiedIsCurrent, At
  <2> QED BY <2>i0, <2>i1, <2>i2, <2>i3, <2>i4, <2>i5, <2>i6, <2>i7
<1>3. CASE Protect(h)
  <2>1. /\ job[h].pc = "protect" /\ key \in Nat
        /\ job' = [job EXCEPT ![h] = [job[h] EXCEPT !.pc = "save", !.key = key]]
        /\ UNCHANGED <<rows, store, key, scans, used, raced, tried, cut>>
    BY <1>3 DEF Protect, At, TypeOK
  <2>2. /\ job'[h].pc = "save" /\ job'[h].profile = job[h].profile /\ job'[h].name = job[h].name
        /\ job'[h].key = key
    BY <1>a, <2>1, Keyed
  <2>i0. Known'
    BY <1>o, <2>1, <2>2 DEF Known
  <2>i1. NewAlone'
    BY <1>o, <2>1, <2>2, <1>n, StaysAlone DEF Making
  <2>i2. Keys'
    BY <1>o, <2>1, <2>2 DEF Keys, RightKey, Kept
  <2>i3. RowsAgree'
    BY <1>o, <2>1, <2>2 DEF RowsAgree
  <2>i4. Trying'
    BY <1>o, <2>1, <2>2 DEF Trying
  <2>i5. Named'
    BY <1>o, <2>1, <2>2 DEF Named
  <2>i6. NoSecretLeftOver'
    BY <1>o, <2>1, <2>2 DEF NoSecretLeftOver
  <2>i7. VerifiedIsCurrent'
    BY <1>o, <2>1, <2>2 DEF VerifiedIsCurrent, At
  <2> QED BY <2>i0, <2>i1, <2>i2, <2>i3, <2>i4, <2>i5, <2>i6, <2>i7
<1>4. CASE Save(h)
  <2>1. /\ job[h].pc = "save" /\ job[h].profile \in Profiles /\ rows[job[h].profile] = Null
        /\ store' = [store EXCEPT ![job[h].profile] = Secret(job[h].secret, job[h].key)]
        /\ UNCHANGED <<rows, key, scans, used, raced, tried, cut>>
    BY <1>4 DEF Save, At, Known, NewAlone, Making
  <2>2. job'[h].pc = "insert" /\ job'[h].profile = job[h].profile /\ job'[h].name = job[h].name
    BY <1>4, <1>g DEF Save, Labels
  <2>3. /\ store'[job[h].profile] = Secret(job[h].secret, job[h].key)
        /\ \A p \in Profiles : p # job[h].profile => store'[p] = store[p]
        /\ Secret(job[h].secret, job[h].key) # Null
        /\ Secret(job[h].secret, job[h].key).key = job[h].key
    <3>1. job[h].secret \in Nat /\ job[h].key \in Nat
      BY <1>a DEF JobType
    <3>2. Secret(job[h].secret, job[h].key) \in SecretType
      BY <3>1 DEF Secret, SecretType
    <3>3. store \in [Profiles -> SecretType \cup {Null}]
      BY DEF TypeOK
    <3> QED BY <2>1, <3>2, <3>3 DEF Secret
  <2>4. \A g \in Handlers : g # h => job[g].profile # job[h].profile
    BY <2>1 DEF NewAlone, Making
  <2>i0. Known'
    BY <1>o, <2>1, <2>2, <2>3, <2>4 DEF Known
  <2>i1. NewAlone'
    BY <1>o, <2>1, <2>2, <2>3, <2>4, <1>n, StaysAlone DEF Making
  <2>i2. Keys'
    BY <1>o, <2>1, <2>2, <2>3, <2>4 DEF Keys, RightKey, Kept
  <2>i3. RowsAgree'
    BY <1>o, <2>1, <2>2, <2>3, <2>4 DEF RowsAgree
  <2>i4. Trying'
    BY <1>o, <2>1, <2>2, <2>3, <2>4 DEF Trying
  <2>i5. Named'
    BY <1>o, <2>1, <2>2, <2>3, <2>4 DEF Named
  <2>i6. NoSecretLeftOver'
    BY <1>o, <2>1, <2>2, <2>3, <2>4 DEF NoSecretLeftOver
  <2>i7. VerifiedIsCurrent'
    BY <1>o, <2>1, <2>2, <2>3, <2>4 DEF VerifiedIsCurrent, At
  <2> QED BY <2>i0, <2>i1, <2>i2, <2>i3, <2>i4, <2>i5, <2>i6, <2>i7
<1>5. CASE Insert(h) /\ ~Taken(job[h].name)
  <2>1. /\ job[h].pc = "insert" /\ job[h].profile \in Profiles /\ job[h].profile \in used
        /\ rows' = [rows EXCEPT ![job[h].profile] = [name |-> job[h].name, verified |-> FALSE]]
        /\ UNCHANGED <<store, key, scans, used, raced, tried, cut>>
    BY <1>5 DEF Insert, At, Known
  <2>2. job'[h].pc = "idle" /\ job'[h].profile = Null
    BY <1>5, <1>f DEF Insert
  <2>3. /\ rows'[job[h].profile] # Null /\ ~rows'[job[h].profile].verified
        /\ \A p \in Profiles : p # job[h].profile => rows'[p] = rows[p]
    <3>1. job[h].name \in Names
      BY <2>1 DEF NewAlone, Making
    <3>2. [name |-> job[h].name, verified |-> FALSE] \in RowType
      BY <3>1 DEF RowType
    <3>3. rows \in [Profiles -> RowType \cup {Null}]
      BY DEF TypeOK
    <3> QED BY <2>1, <3>2, <3>3
  <2>4. /\ \A g \in Handlers : g # h => job[g].profile # job[h].profile
        /\ \A s \in Scans : scans[s].asked # job[h].profile
        /\ Kept(job[h].profile)
    BY <2>1 DEF NewAlone, Making, Keys
  <2>i0. Known'
    BY <1>o, <2>1, <2>2, <2>3, <2>4 DEF Known
  <2>i1. NewAlone'
    BY <1>o, <2>1, <2>2, <2>3, <2>4, <1>n, StaysAlone DEF Making
  <2>i2. Keys'
    BY <1>o, <2>1, <2>2, <2>3, <2>4 DEF Keys, RightKey, Kept
  <2>i3. RowsAgree'
    BY <1>o, <2>1, <2>2, <2>3, <2>4 DEF RowsAgree
  <2>i4. Trying'
    BY <1>o, <2>1, <2>2, <2>3, <2>4 DEF Trying
  <2>i5. Named'
    BY <1>o, <2>1, <2>2, <2>3, <2>4 DEF Named
  <2>i6. NoSecretLeftOver'
    BY <1>o, <2>1, <2>2, <2>3, <2>4 DEF NoSecretLeftOver
  <2>i7. VerifiedIsCurrent'
    BY <1>o, <2>1, <2>2, <2>3, <2>4 DEF VerifiedIsCurrent, At
  <2> QED BY <2>i0, <2>i1, <2>i2, <2>i3, <2>i4, <2>i5, <2>i6, <2>i7
<1>6. CASE InsertFails(h) \/ (Insert(h) /\ Taken(job[h].name))
  <2>1. /\ job[h].pc = "insert" /\ rows[job[h].profile] = Null
        /\ UNCHANGED <<rows, store, key, scans, used, raced, tried, cut>>
    BY <1>6 DEF Insert, InsertFails, At, historyVars, NewAlone, Making
  <2>2. job'[h].pc = "delete" /\ job'[h].profile = job[h].profile
    BY <1>6, <1>g DEF Insert, InsertFails, Labels
  <2>i0. Known'
    BY <1>o, <2>1, <2>2 DEF Known
  <2>i1. NewAlone'
    BY <1>o, <2>1, <2>2 DEF NewAlone, Making
  <2>i2. Keys'
    BY <1>o, <2>1, <2>2 DEF Keys, RightKey, Kept
  <2>i3. RowsAgree'
    BY <1>o, <2>1, <2>2 DEF RowsAgree
  <2>i4. Trying'
    BY <1>o, <2>1, <2>2 DEF Trying
  <2>i5. Named'
    BY <1>o, <2>1, <2>2 DEF Named
  <2>i6. NoSecretLeftOver'
    BY <1>o, <2>1, <2>2 DEF NoSecretLeftOver
  <2>i7. VerifiedIsCurrent'
    BY <1>o, <2>1, <2>2 DEF VerifiedIsCurrent, At
  <2> QED BY <2>i0, <2>i1, <2>i2, <2>i3, <2>i4, <2>i5, <2>i6, <2>i7
<1>7. ASSUME NEW p \in Profiles, RemoveProfile(h, p) PROVE Rest'
  <2>1. /\ job[h].pc = "idle" /\ rows[p] # Null /\ p \in used
        /\ rows' = [rows EXCEPT ![p] = Null]
        /\ job' = [job EXCEPT ![h] = [Idle EXCEPT !.pc = "delete", !.profile = p]]
        /\ UNCHANGED <<store, key, used, raced, tried, cut>>
    BY <1>7 DEF RemoveProfile, At, historyVars, Known
  <2>2. job'[h].pc = "delete" /\ job'[h].profile = p
    BY <2>1, StartedJob
  <2>3. rows'[p] = Null /\ \A q \in Profiles : q # p => rows'[q] = rows[q]
    BY <2>1 DEF TypeOK
  <2>4. \A s \in Scans : /\ scans'[s].state = scans[s].state /\ scans'[s].asked = scans[s].asked
                          /\ \/ scans'[s].profile = scans[s].profile
                             \/ scans'[s].profile = Null /\ scans[s].profile = p /\ scans[s].state = "queued"
    <3> TAKE s \in Scans
    <3>1. scans[s] \in ScanType
      BY DEF TypeOK
    <3>2. scans'[s] = IF linked /\ scans[s].profile = p /\ scans[s].state = "queued"
                      THEN [scans[s] EXCEPT !.profile = Null] ELSE scans[s]
      BY <1>7 DEF RemoveProfile, Forgetting
    <3>3. CASE linked /\ scans[s].profile = p /\ scans[s].state = "queued"
      <4>1. scans'[s] = [scans[s] EXCEPT !.profile = Null]
        BY <3>2, <3>3
      <4> QED BY <3>1, <3>3, <4>1, Forgotten
    <3>4. CASE ~(linked /\ scans[s].profile = p /\ scans[s].state = "queued")
      <4>1. scans'[s] = scans[s]
        BY <3>2, <3>4
      <4> QED BY <4>1
    <3> QED BY <3>3, <3>4
  <2>5. /\ \A g \in Handlers : job[g].pc # "commit"
        /\ \A g \in Handlers : job[g].pc \in Making => job[g].profile # p
    BY <1>7, <2>1 DEF RemoveProfile, Free, At, NewAlone
  <2>i0. Known'
    BY <1>o, <2>1, <2>2, <2>3, <2>4, <2>5 DEF Known
  <2>i1. NewAlone'
    BY <1>o, <2>1, <2>2, <2>3, <2>4, <2>5, <1>n, StaysAlone DEF Making
  <2>i2. Keys'
    BY <1>o, <2>1, <2>2, <2>3, <2>4, <2>5 DEF Keys, RightKey, Kept
  <2>i3. RowsAgree'
    BY <1>o, <2>1, <2>2, <2>3, <2>4, <2>5 DEF RowsAgree
  <2>i4. Trying'
    BY <1>o, <2>1, <2>2, <2>3, <2>4, <2>5 DEF Trying
  <2>i5. Named'
    <3>1. ASSUME NEW s \in Scans, scans'[s].state \in {"queued", "anonymous"}, scans'[s].profile = Null
          PROVE rows'[scans'[s].asked] = Null
      <4>1. scans[s].asked \in Profiles /\ scans[s].profile \in {scans[s].asked, Null}
        BY <2>4, <3>1 DEF Known, Named
      <4> QED BY <2>3, <2>4, <3>1, <4>1 DEF Named
    <3> QED BY <2>4, <3>1 DEF Named
  <2>i6. NoSecretLeftOver'
    BY <1>o, <2>1, <2>2, <2>3, <2>4, <2>5 DEF NoSecretLeftOver
  <2>i7. VerifiedIsCurrent'
    BY <1>o, <2>1, <2>2, <2>3, <2>4, <2>5 DEF VerifiedIsCurrent, At
  <2> QED BY <2>i0, <2>i1, <2>i2, <2>i3, <2>i4, <2>i5, <2>i6, <2>i7
<1>8. CASE DeleteSecret(h)
  <2>1. /\ job[h].pc = "delete" /\ job[h].profile \in Profiles /\ rows[job[h].profile] = Null
        /\ store' = [store EXCEPT ![job[h].profile] = Null]
        /\ UNCHANGED <<rows, key, scans, used, raced, tried, cut>>
    BY <1>8 DEF DeleteSecret, At, historyVars, Known, RowsAgree
  <2>2. job'[h].pc = "idle" /\ job'[h].profile = Null
    BY <1>8, <1>f DEF DeleteSecret
  <2>3. store'[job[h].profile] = Null /\ \A p \in Profiles : p # job[h].profile => store'[p] = store[p]
    BY <2>1 DEF TypeOK
  <2>4. \A g \in Handlers : job[g].pc \in Making =>
          job[g].profile \in Profiles /\ (g = h \/ job[h].profile # job[g].profile)
    BY <1>n
  <2>i0. Known'
    BY <1>o, <2>1, <2>2, <2>3, <2>4 DEF Known
  <2>i1. NewAlone'
    BY <1>o, <2>1, <2>2, <2>3, <2>4, <1>n, StaysAlone DEF Making
  <2>i2. Keys'
    <3>1. \A p \in Profiles : rows[p] # Null => store'[p] = store[p]
      BY <2>1, <2>3
    <3>2. \A g \in Handlers : job'[g].pc \in Making =>
            job'[g] = job[g] /\ store'[job[g].profile] = store[job[g].profile]
      BY <1>o, <2>1, <2>2, <2>3, <2>4 DEF Making
    <3> QED BY <2>1, <3>1, <3>2 DEF Keys, RightKey, Kept, Making
  <2>i3. RowsAgree'
    BY <1>o, <2>1, <2>2, <2>3, <2>4 DEF RowsAgree
  <2>i4. Trying'
    BY <1>o, <2>1, <2>2, <2>3, <2>4 DEF Trying
  <2>i5. Named'
    BY <1>o, <2>1, <2>2, <2>3, <2>4 DEF Named
  <2>i6. NoSecretLeftOver'
    BY <1>o, <2>1, <2>2, <2>3, <2>4 DEF NoSecretLeftOver
  <2>i7. VerifiedIsCurrent'
    BY <1>o, <2>1, <2>2, <2>3, <2>4 DEF VerifiedIsCurrent, At
  <2> QED BY <2>i0, <2>i1, <2>i2, <2>i3, <2>i4, <2>i5, <2>i6, <2>i7
<1>9. ASSUME NEW p \in Profiles, Replace(h, p) PROVE Rest'
  <2>1. /\ job[h].pc = "idle" /\ rows[p] # Null /\ p \in used
        /\ store' = [store EXCEPT ![p] = Secret(secrets', key)]
        /\ job' = [job EXCEPT ![h] = [Idle EXCEPT !.pc = "commit", !.profile = p]]
        /\ raced \subseteq raced'
        /\ \A g \in Handlers : job[g].pc \in {"request", "verdict"} /\ job[g].profile = p => p \in raced'
        /\ UNCHANGED <<rows, key, scans, used, tried, cut>>
    BY <1>9 DEF Replace, At, Known, Checking
  <2>2. job'[h].pc = "commit" /\ job'[h].profile = p
    BY <2>1, StartedJob
  <2>3. /\ store'[p] # Null /\ store'[p].key = key
        /\ \A q \in Profiles : q # p => store'[q] = store[q]
    <3>1. secrets' \in Nat /\ key \in Nat /\ store \in [Profiles -> SecretType \cup {Null}]
      BY <1>9 DEF Replace, TypeOK
    <3>2. Secret(secrets', key) \in SecretType /\ Secret(secrets', key).key = key
      BY <3>1 DEF Secret, SecretType
    <3> QED BY <2>1, <3>1, <3>2
  <2>4. \A g \in Handlers : job[g].pc \in Making => job[g].profile # p
    BY <2>1 DEF NewAlone
  <2>5. key >= 1
    BY <2>1 DEF Keys, Kept, RightKey
  <2>i0. Known'
    BY <1>o, <2>1, <2>2, <2>3, <2>4, <2>5 DEF Known
  <2>i1. NewAlone'
    BY <1>o, <2>1, <2>2, <2>3, <2>4, <2>5, <1>n, StaysAlone DEF Making
  <2>i2. Keys'
    BY <1>o, <2>1, <2>2, <2>3, <2>4, <2>5 DEF Keys, RightKey, Kept
  <2>i3. RowsAgree'
    BY <1>o, <2>1, <2>2, <2>3, <2>4, <2>5 DEF RowsAgree
  <2>i4. Trying'
    BY <1>o, <2>1, <2>2, <2>3, <2>4, <2>5 DEF Trying
  <2>i5. Named'
    BY <1>o, <2>1, <2>2, <2>3, <2>4, <2>5 DEF Named
  <2>i6. NoSecretLeftOver'
    BY <1>o, <2>1, <2>2, <2>3, <2>4, <2>5 DEF NoSecretLeftOver
  <2>i7. VerifiedIsCurrent'
    BY <1>o, <2>1, <2>2, <2>3, <2>4, <2>5 DEF VerifiedIsCurrent, At
  <2> QED BY <2>i0, <2>i1, <2>i2, <2>i3, <2>i4, <2>i5, <2>i6, <2>i7
<1>10. CASE Commit(h)
  <2>w. rows' = [rows EXCEPT ![job[h].profile] = [rows[job[h].profile] EXCEPT !.verified = FALSE]]
    BY <1>10 DEF Commit, Unverified
  <2>1. /\ job[h].pc = "commit" /\ job[h].profile \in Profiles /\ rows[job[h].profile] # Null
        /\ UNCHANGED <<store, key, scans, used, raced, tried, cut>>
    BY <1>10 DEF Commit, Unverified, At, historyVars, Known, RowsAgree
  <2>2. job'[h].pc = "idle" /\ job'[h].profile = Null
    BY <1>10, <1>f DEF Commit
  <2>3. /\ rows'[job[h].profile] # Null /\ rows'[job[h].profile].verified = FALSE
        /\ \A p \in Profiles : p # job[h].profile => rows'[p] = rows[p]
    <3>1. rows[job[h].profile] \in RowType /\ rows \in [Profiles -> RowType \cup {Null}]
      BY <2>1 DEF TypeOK
    <3>2. rows'[job[h].profile] = [rows[job[h].profile] EXCEPT !.verified = FALSE]
      BY <2>w, <2>1, <3>1
    <3>3. rows'[job[h].profile] \in RowType /\ rows'[job[h].profile].verified = FALSE
      BY <3>1, <3>2, Marked, Zenon
    <3> QED BY <2>w, <2>1, <3>1, <3>3
  <2>4. /\ \A p \in Profiles : rows'[p] = Null <=> rows[p] = Null
        /\ \A g \in Handlers : job[g].pc # "idle" => job[g].profile \in Profiles
        /\ \A s \in Scans : scans[s].asked \in Profiles \/ scans[s].state = "none"
    BY <2>1, <2>3 DEF Known
  <2>i0. Known'
    BY <1>o, <2>1, <2>2, <2>3, <2>4 DEF Known
  <2>i1. NewAlone'
    BY <1>o, <2>1, <2>2, <2>3, <2>4, <1>n, StaysAlone DEF Making
  <2>i2. Keys'
    BY <1>o, <2>1, <2>2, <2>3, <2>4 DEF Keys, RightKey, Kept
  <2>i3. RowsAgree'
    BY <1>o, <2>1, <2>2, <2>3, <2>4 DEF RowsAgree
  <2>i4. Trying'
    BY <1>o, <2>1, <2>2, <2>3, <2>4 DEF Trying
  <2>i5. Named'
    BY <1>o, <2>1, <2>2, <2>3, <2>4 DEF Named
  <2>i6. NoSecretLeftOver'
    BY <1>o, <2>1, <2>2, <2>3, <2>4 DEF NoSecretLeftOver
  <2>i7. VerifiedIsCurrent'
    BY <1>o, <2>1, <2>2, <2>3, <2>4 DEF VerifiedIsCurrent, At
  <2> QED BY <2>i0, <2>i1, <2>i2, <2>i3, <2>i4, <2>i5, <2>i6, <2>i7
<1>11. CASE CommitFails(h)
  <2>1. /\ job[h].pc = "commit" /\ raced' = raced \cup {job[h].profile}
        /\ UNCHANGED <<rows, store, key, scans, used, tried, cut>>
    BY <1>11 DEF CommitFails, At
  <2>2. job'[h].pc = "idle" /\ job'[h].profile = Null
    BY <1>11, <1>f DEF CommitFails
  <2>i0. Known'
    BY <1>o, <2>1, <2>2 DEF Known
  <2>i1. NewAlone'
    BY <1>o, <2>1, <2>2, <1>n, StaysAlone DEF Making
  <2>i2. Keys'
    BY <1>o, <2>1, <2>2 DEF Keys, RightKey, Kept
  <2>i3. RowsAgree'
    BY <1>o, <2>1, <2>2 DEF RowsAgree
  <2>i4. Trying'
    BY <1>o, <2>1, <2>2 DEF Trying
  <2>i5. Named'
    BY <1>o, <2>1, <2>2 DEF Named
  <2>i6. NoSecretLeftOver'
    BY <1>o, <2>1, <2>2 DEF NoSecretLeftOver
  <2>i7. VerifiedIsCurrent'
    BY <1>o, <2>1, <2>2 DEF VerifiedIsCurrent, At
  <2> QED BY <2>i0, <2>i1, <2>i2, <2>i3, <2>i4, <2>i5, <2>i6, <2>i7
<1>12. ASSUME NEW p \in Profiles, Verify(h, p) PROVE Rest'
  <2>1. /\ job[h].pc = "idle" /\ rows[p] # Null /\ p \in used
        /\ job' = [job EXCEPT ![h] = [Idle EXCEPT !.pc = "load", !.profile = p]]
        /\ UNCHANGED <<rows, store, key, scans, used, raced, tried, cut>>
    BY <1>12 DEF Verify, At, historyVars, Known
  <2>2. job'[h].pc = "load" /\ job'[h].profile = p
    BY <2>1, StartedJob
  <2>3. \A g \in Handlers : job[g].pc \in Making => job[g].profile # p
    BY <2>1 DEF NewAlone
  <2>i0. Known'
    BY <1>o, <2>1, <2>2, <2>3 DEF Known
  <2>i1. NewAlone'
    BY <1>o, <2>1, <2>2, <2>3, <1>n, StaysAlone DEF Making
  <2>i2. Keys'
    BY <1>o, <2>1, <2>2, <2>3 DEF Keys, RightKey, Kept
  <2>i3. RowsAgree'
    BY <1>o, <2>1, <2>2, <2>3 DEF RowsAgree
  <2>i4. Trying'
    BY <1>o, <2>1, <2>2, <2>3 DEF Trying
  <2>i5. Named'
    BY <1>o, <2>1, <2>2, <2>3 DEF Named
  <2>i6. NoSecretLeftOver'
    BY <1>o, <2>1, <2>2, <2>3 DEF NoSecretLeftOver
  <2>i7. VerifiedIsCurrent'
    BY <1>o, <2>1, <2>2, <2>3 DEF VerifiedIsCurrent, At
  <2> QED BY <2>i0, <2>i1, <2>i2, <2>i3, <2>i4, <2>i5, <2>i6, <2>i7
<1>13. CASE Load(h)
  <2>1. /\ job[h].pc = "load" /\ job[h].profile \in Profiles
        /\ UNCHANGED <<rows, store, key, scans, used, raced, tried, cut>>
    BY <1>13 DEF Load, At, historyVars, Known
  <2>2. \/ job'[h].pc = "idle" /\ job'[h].profile = Null
        \/ /\ job'[h].pc = "request" /\ job'[h].profile = job[h].profile
           /\ job'[h].secret = store[job[h].profile].secret
    <3>1. CASE Readable(job[h].profile)
      <4>1. job' = [job EXCEPT ![h] = [job[h] EXCEPT !.pc = "request",
                                                     !.secret = store[job[h].profile].secret]]
        BY <1>13, <3>1 DEF Load
      <4>2. store[job[h].profile].secret \in Nat
        BY <2>1, <3>1 DEF Readable, TypeOK, SecretType
      <4> QED BY <4>1, <4>2, LoadedJob
    <3> QED BY <1>13, <1>f, <3>1 DEF Load
  <2>i0. Known'
    BY <1>o, <2>1, <2>2 DEF Known
  <2>i1. NewAlone'
    BY <1>o, <2>1, <2>2, <1>n, StaysAlone DEF Making
  <2>i2. Keys'
    BY <1>o, <2>1, <2>2 DEF Keys, RightKey, Kept
  <2>i3. RowsAgree'
    BY <1>o, <2>1, <2>2 DEF RowsAgree
  <2>i4. Trying'
    BY <1>o, <2>1, <2>2 DEF Trying
  <2>i5. Named'
    BY <1>o, <2>1, <2>2 DEF Named
  <2>i6. NoSecretLeftOver'
    BY <1>o, <2>1, <2>2 DEF NoSecretLeftOver
  <2>i7. VerifiedIsCurrent'
    BY <1>o, <2>1, <2>2 DEF VerifiedIsCurrent, At
  <2> QED BY <2>i0, <2>i1, <2>i2, <2>i3, <2>i4, <2>i5, <2>i6, <2>i7
<1>14. ASSUME NEW ok \in BOOLEAN, Answer(h, ok) PROVE Rest'
  <2>1. /\ job[h].pc = "request"
        /\ job' = [job EXCEPT ![h] = [job[h] EXCEPT !.pc = "verdict", !.ok = ok]]
        /\ UNCHANGED <<rows, store, key, scans, used, raced, tried, cut>>
    BY <1>14 DEF Answer, At, historyVars
  <2>2. job'[h].pc = "verdict" /\ job'[h].profile = job[h].profile /\ job'[h].secret = job[h].secret
    BY <1>a, <1>14, <2>1, Answered
  <2>i0. Known'
    BY <1>o, <2>1, <2>2 DEF Known
  <2>i1. NewAlone'
    BY <1>o, <2>1, <2>2 DEF NewAlone, Making
  <2>i2. Keys'
    BY <1>o, <2>1, <2>2 DEF Keys, RightKey, Kept
  <2>i3. RowsAgree'
    BY <1>o, <2>1, <2>2 DEF RowsAgree
  <2>i4. Trying'
    BY <1>o, <2>1, <2>2 DEF Trying
  <2>i5. Named'
    BY <1>o, <2>1, <2>2 DEF Named
  <2>i6. NoSecretLeftOver'
    BY <1>o, <2>1, <2>2 DEF NoSecretLeftOver
  <2>i7. VerifiedIsCurrent'
    BY <1>o, <2>1, <2>2 DEF VerifiedIsCurrent, At
  <2> QED BY <2>i0, <2>i1, <2>i2, <2>i3, <2>i4, <2>i5, <2>i6, <2>i7
<1>15. CASE Verdict(h)
  <2>1. /\ job[h].pc = "verdict" /\ job[h].profile \in Profiles
        /\ \A g \in Handlers : job[g].pc # "commit"
        /\ UNCHANGED <<store, key, scans, used, raced, cut>>
    BY <1>15 DEF Verdict, Free, At, Known
  <2>2. job'[h].pc = "idle" /\ job'[h].profile = Null
    BY <1>15, <1>f DEF Verdict
  <2>3. /\ \A p \in Profiles : p # job[h].profile => rows'[p] = rows[p] /\ tried'[p] = tried[p]
        /\ rows[job[h].profile] = Null => rows' = rows /\ tried' = tried
        /\ rows[job[h].profile] # Null => /\ rows'[job[h].profile] # Null
                                          /\ tried'[job[h].profile] = job[h].secret
    <3>1. CASE rows[job[h].profile] # Null
      <4>1. rows[job[h].profile] \in RowType /\ rows \in [Profiles -> RowType \cup {Null}]
            /\ tried \in [Profiles -> Nat] /\ job[h].ok \in BOOLEAN
        BY <1>a, <2>1, <3>1 DEF TypeOK, JobType
      <4>2. /\ rows' = [rows EXCEPT ![job[h].profile] = [rows[job[h].profile] EXCEPT !.verified = job[h].ok]]
            /\ tried' = [tried EXCEPT ![job[h].profile] = job[h].secret]
        BY <1>15, <3>1 DEF Verdict
      <4>3. [rows[job[h].profile] EXCEPT !.verified = job[h].ok] \in RowType
        BY <4>1, Marked
      <4> QED BY <2>1, <3>1, <4>1, <4>2, <4>3
    <3> QED BY <1>15, <3>1 DEF Verdict
  <2>4. /\ \A p \in Profiles : rows'[p] = Null <=> rows[p] = Null
        /\ \A g \in Handlers : job[g].pc # "idle" => job[g].profile \in Profiles
        /\ \A s \in Scans : scans[s].asked \in Profiles \/ scans[s].state = "none"
    BY <2>1, <2>3 DEF Known
  <2>i0. Known'
    BY <1>o, <2>1, <2>2, <2>3, <2>4 DEF Known
  <2>i1. NewAlone'
    BY <1>o, <2>1, <2>2, <2>3, <2>4, <1>n, StaysAlone DEF Making
  <2>i2. Keys'
    BY <1>o, <2>1, <2>2, <2>3, <2>4 DEF Keys, RightKey, Kept
  <2>i3. RowsAgree'
    BY <1>o, <2>1, <2>2, <2>3, <2>4 DEF RowsAgree
  <2>i4. Trying'
    BY <1>o, <2>1, <2>2, <2>3, <2>4 DEF Trying
  <2>i5. Named'
    BY <1>o, <2>1, <2>2, <2>3, <2>4 DEF Named
  <2>i6. NoSecretLeftOver'
    BY <1>o, <2>1, <2>2, <2>3, <2>4 DEF NoSecretLeftOver
  <2>i7. VerifiedIsCurrent'
    <3> SUFFICES ASSUME NEW p \in Profiles, rows'[p] # Null, rows'[p].verified
                 PROVE  tried'[p] = store[p].secret \/ p \in raced
      BY <2>1 DEF VerifiedIsCurrent
    <3>1. CASE p = job[h].profile
      BY <2>1, <2>3, <2>4, <3>1 DEF Trying
    <3>2. CASE p # job[h].profile
      BY <2>1, <2>3, <3>2 DEF VerifiedIsCurrent, At
    <3> QED BY <3>1, <3>2
  <2> QED BY <2>i0, <2>i1, <2>i2, <2>i3, <2>i4, <2>i5, <2>i6, <2>i7
<1> QED BY <1>1, <1>2, <1>3, <1>4, <1>5, <1>6, <1>7, <1>8, <1>9, <1>10, <1>11, <1>12, <1>13, <1>14, <1>15
        DEF HandlerStep

-----------------------------------------------------------------------------
LEMMA StepInvariant == IInv /\ [Next]_vars => IInv'
<1> SUFFICES ASSUME IInv, [Next]_vars PROVE IInv'
  OBVIOUS
<1>1. ASSUME NEW h \in Handlers, HandlerStep(h), UNCHANGED linked PROVE IInv'
  <2>1. TypeOK' /\ Rest'
    BY <1>1, RequestType, RequestPreserves DEF IInv, Rest
  <2> QED BY <2>1 DEF IInv, Rest
<1>2. ASSUME NEW s \in Scans, ScanStep(s), UNCHANGED linked PROVE IInv'
  BY <1>2, ScanPreserves
<1>3. CASE Kill /\ UNCHANGED linked
  BY <1>3, KillPreserves
<1>4. CASE UNCHANGED vars
  <2>1. /\ UNCHANGED <<rows, store, key, scans, job, used, secrets, tried, raced, cut>>
        /\ UNCHANGED <<checks, faults, kills, linked>>
    BY <1>4 DEF vars, historyVars, boundVars
  <2>2. TypeOK'
    BY <2>1 DEF IInv, TypeOK
  <2>3. Known' /\ NewAlone' /\ RowsAgree' /\ Trying' /\ Named'
    BY <2>1 DEF IInv, Known, NewAlone, RowsAgree, Trying, Named
  <2>4. Keys' /\ NoSecretLeftOver' /\ VerifiedIsCurrent'
    BY <2>1 DEF IInv, Keys, RightKey, Kept, NoSecretLeftOver, VerifiedIsCurrent, At
  <2> QED BY <2>2, <2>3, <2>4 DEF IInv
<1> QED BY <1>1, <1>2, <1>3, <1>4 DEF Next

(* The strengthened invariant, for any profiles, scans and handlers: who   *)
(* knows a profile in the making, which key a secret was encrypted with,   *)
(* what a verification under way has read, and what a scan names.          *)
THEOREM InductiveInvariant == Spec => []IInv
<1>1. Init => IInv
  BY InitInvariant
<1>2. IInv /\ [Next]_vars => IInv'
  BY StepInvariant
<1> QED BY <1>1, <1>2, PTL DEF Spec

(* Rows, secrets, scans and requests keep their types.                     *)
THEOREM TypeCorrect == Spec => []TypeOK
<1>1. IInv => TypeOK
  BY DEF IInv
<1> QED BY <1>1, InductiveInvariant, PTL

(* create_profile, remove_profile and update_profile_secret keep a secret  *)
(* that can be decrypted behind each row, through failures and kills.      *)
THEOREM SecretsKept == Spec => []SecretBehindRow
<1>1. IInv => SecretBehindRow
  BY DEF IInv, Keys, Kept, RightKey, SecretBehindRow, Readable
<1> QED BY <1>1, InductiveInvariant, PTL

(* They leave no secret without a row either, unless a kill cuts them      *)
(* short.                                                                  *)
THEOREM SecretsAndRows == Spec => []SecretsMatchRows
<1>1. IInv => NoSecretLeftOver
  BY DEF IInv
<1> QED BY <1>1, InductiveInvariant, SecretsKept, PTL DEF SecretsMatchRows

(* verify_profile marks a profile as verified for the secret it tried.     *)
THEOREM VerificationsCurrent == Spec => []VerifiedIsCurrent
<1>1. IInv => VerifiedIsCurrent
  BY DEF IInv
<1> QED BY <1>1, InductiveInvariant, PTL

(* A row whose column is no foreign key keeps the profile it was given.    *)
LEMMA UnlinkedKept ==
  Spec => [](linked \/ \A s \in Scans : scans[s].state # "none" => scans[s].profile # Null)
<1> DEFINE Tied == linked \/ \A s \in Scans : scans[s].state # "none" => scans[s].profile # Null
<1>1. Init => Tied
  BY Blank DEF Init
<1>2. TypeOK /\ Tied /\ [Next]_vars => Tied'
  <2> SUFFICES ASSUME TypeOK, Tied, ~linked, [Next]_vars,
                      NEW s \in Scans, scans'[s].state # "none"
               PROVE  scans'[s].profile # Null
    <3>1. [Next]_vars => linked' = linked
      BY DEF Next, vars
    <3> QED BY <3>1
  <2>a. scans \in [Scans -> ScanType]
    BY DEF TypeOK
  <2>b. ASSUME scans' = scans PROVE scans'[s].profile # Null
    BY <2>b
  <2>1. ASSUME NEW r \in Scans, ScanStep(r) PROVE scans'[s].profile # Null
    <3>1. ASSUME NEW p \in Profiles, CheckProfile(r, p) PROVE scans'[s].profile # Null
      BY <2>a, <3>1 DEF CheckProfile
    <3>2. ASSUME NEW from, NEW to, from # "none", Moves(r, from, to) PROVE scans'[s].profile # Null
      <4>1. r = s => scans'[s] = [scans[s] EXCEPT !.state = to]
        BY <2>a, <3>2 DEF Moves
      <4>2. scans'[s].profile = scans[s].profile
        BY <2>a, <3>2, <4>1 DEF Moves, ScanType
      <4> QED BY <3>2, <4>2 DEF Moves
    <3> QED BY <2>1, <3>1, <3>2 DEF ScanStep, InsertScan, BeginScan, Resolve, LoadForScan
  <2>2. ASSUME NEW h \in Handlers, HandlerStep(h) PROVE scans'[s].profile # Null
    <3>1. ASSUME NEW p \in Profiles, RemoveProfile(h, p) PROVE scans'[s].profile # Null
      BY <2>a, <3>1 DEF RemoveProfile, Forgetting
    <3>2. ASSUME NEW p \in Profiles, Replace(h, p) \/ Verify(h, p) \/ \E n \in Names : CreateProfile(h, p, n)
          PROVE  scans' = scans
      BY <3>2 DEF Replace, Verify, CreateProfile
    <3>3. CASE MakeKey(h) \/ Protect(h) \/ Save(h) \/ Insert(h) \/ InsertFails(h) \/ DeleteSecret(h)
      BY <2>b, <3>3 DEF MakeKey, Protect, Save, Insert, InsertFails, DeleteSecret
    <3>4. CASE Commit(h) \/ CommitFails(h) \/ Load(h) \/ Verdict(h) \/ \E ok \in BOOLEAN : Answer(h, ok)
      BY <2>b, <3>4 DEF Commit, CommitFails, Load, Verdict, Answer
    <3> QED BY <2>2, <2>b, <3>1, <3>2, <3>3, <3>4 DEF HandlerStep
  <2>3. CASE Kill
    <3>1. scans'[s] = scans[s] \/ scans'[s] = [scans[s] EXCEPT !.state = "lost"]
      BY <2>3 DEF Kill
    <3>2. scans'[s].profile = scans[s].profile /\ scans[s].state # "none"
      BY <2>a, <2>3, <3>1 DEF Kill, ScanType, Ended
    <3> QED BY <3>2
  <2>4. CASE UNCHANGED vars
    BY <2>b, <2>4 DEF vars
  <2> QED BY <2>1, <2>2, <2>3, <2>4 DEF Next
<1> QED BY <1>1, <1>2, TypeCorrect, PTL DEF Spec

(* _execute_scan runs without the profile it was asked for only if that    *)
(* profile was removed and a foreign key took it out of the queued scan's  *)
(* row, whichever kind of table the database has.                          *)
THEOREM ScansAuthenticated == Spec => []AnonymousOnlyByRemoval
<1>1. IInv /\ (linked \/ \A s \in Scans : scans[s].state # "none" => scans[s].profile # Null)
        => AnonymousOnlyByRemoval
  BY DEF IInv, Named, AnonymousOnlyByRemoval
<1> QED BY <1>1, InductiveInvariant, UnlinkedKept, PTL
=============================================================================
