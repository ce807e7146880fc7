--------------------------- MODULE SchedulesProofs ---------------------------
(***************************************************************************)
(* TLAPS proofs about Schedules, for every set of schedules and profiles,  *)
(* every timetable, length of the day and of the week, and every bound.    *)
(***************************************************************************)
EXTENDS Schedules, SequenceTheorems, FiniteSetTheorems, TLAPS

LEMMA Product ==
  ASSUME NEW a \in Nat, NEW b \in Nat
  PROVE  a * b \in Nat /\ (a > 0 => a * b >= b)
OBVIOUS

(* Whole days apart, whole days away. *)
LEMMA Apart ==
  ASSUME NEW D \in Nat \ {0}, NEW a \in Int, NEW b \in Int, a < b
  PROVE  D * a \in Int /\ D * b \in Int /\ D * a + D <= D * b
<1> DEFINE c == b - a
<1>1. c \in Nat /\ c > 0 /\ b = a + c
  OBVIOUS
<1>2. D * c >= D
  BY <1>1, Product
<1>3. D * (a + c) = D * a + D * c
  BY <1>1
<1> HIDE DEF c
<1> QED BY <1>1, <1>2, <1>3

LEMMA Division ==
  ASSUME NEW D \in Nat \ {0}, NEW x \in Int
  PROVE  /\ x \div D \in Int /\ x % D \in 0 .. D - 1
         /\ x = D * (x \div D) + (x % D)
<1>1. x \div D \in Int
  OBVIOUS
<1>2. x % D \in 0 .. D - 1
  OBVIOUS
<1>3. x = D * (x \div D) + (x % D)
  OBVIOUS
<1> QED BY <1>1, <1>2, <1>3

LEMMA SameQuotient ==
  ASSUME NEW D \in Nat \ {0}, NEW a \in Int, NEW b \in Int,
         NEW r \in 0 .. D - 1, NEW s \in 0 .. D - 1, D * a + r = D * b + s
  PROVE  a = b /\ r = s
<1>1. ~(a < b)
  BY Apart
<1>2. ~(b < a)
  BY Apart
<1> QED BY <1>1, <1>2

LEMMA Remainder ==
  ASSUME NEW D \in Nat \ {0}, NEW a \in Int, NEW r \in 0 .. D - 1
  PROVE  (D * a + r) % D = r /\ (D * a + r) \div D = a
<1> DEFINE x == D * a + r
<1>1. x \in Int
  OBVIOUS
<1> HIDE DEF x
<1>2. x \div D \in Int /\ x % D \in 0 .. D - 1 /\ x = D * (x \div D) + (x % D)
  BY <1>1, Division
<1>3. D * a + r = D * (x \div D) + (x % D)
  BY <1>2 DEF x
<1>4. a = x \div D /\ r = x % D
  BY <1>2, <1>3, SameQuotient
<1> QED BY <1>4 DEF x

(* The days less than a week after a day have other names than it. *)
LEMMA OtherWeekday ==
  ASSUME NEW W \in Nat \ {0}, NEW a \in Int, NEW b \in Int, a < b, b < a + W
  PROVE  a % W # b % W
<1> SUFFICES ASSUME a % W = b % W PROVE FALSE
  OBVIOUS
<1> DEFINE p == a \div W
<1> DEFINE q == b \div W
<1> DEFINE r == a % W
<1>1. p \in Int /\ q \in Int /\ r \in Int /\ a = W * p + r /\ b = W * q + r
  BY Division
<1> HIDE DEF p, q, r
<1>2. p < q \/ p = q \/ q < p
  BY <1>1
<1>3. CASE p < q
  BY <1>1, <1>3, Apart
<1>4. CASE q < p
  BY <1>1, <1>4, Apart
<1>5. CASE p = q
  BY <1>1, <1>5
<1> QED BY <1>2, <1>3, <1>4, <1>5

(* The wanted weekday comes after as many days as the code says. *)
LEMMA WeekdayReached ==
  ASSUME NEW W \in Nat \ {0}, NEW q \in Int, NEW w \in 0 .. W - 1
  PROVE  LET d == (w - (q % W)) % W IN d \in 0 .. W - 1 /\ (q + d) % W = w
<1> DEFINE r == q % W
<1> DEFINE a == q \div W
<1>1. a \in Int /\ r \in Int /\ q = W * a + r
  BY Division
<1> HIDE DEF a, r
<1> DEFINE d == (w - r) % W
<1> DEFINE e == (w - r) \div W
<1>2. e \in Int /\ d \in 0 .. W - 1 /\ w - r = W * e + d
  <2>1. w - r \in Int
    BY <1>1
  <2> QED BY <2>1, Division
<1> HIDE DEF d, e
<1>3. q + d = W * (a - e) + w
  BY <1>1, <1>2
<1>4. (W * (a - e) + w) % W = w
  BY <1>1, <1>2, Remainder
<1>5. d \in 0 .. W - 1 /\ (q + d) % W = w
  BY <1>2, <1>3, <1>4
<1> QED BY <1>5 DEF d, r

-----------------------------------------------------------------------------
(* compute_next_run answers with a time after the one it is given. *)
LEMMA NextRunLater ==
  ASSUME NEW s \in Schedules, NEW t \in Nat
  PROVE  NextRun(s, t) \in Int /\ NextRun(s, t) > t
<1> USE TimetableAssumption
<1>1. Day \in Nat /\ Day > 0 /\ Week \in Nat /\ Week > 0
  OBVIOUS
<1>2. Slot[s] \in Nat /\ DayOfWeek[s] \in Int
  <2>1. Slot[s] \in 0 .. Day - 1 /\ DayOfWeek[s] \in 0 .. Week - 1
    OBVIOUS
  <2> QED BY <2>1, <1>1
<1>3. t % Day \in 0 .. Day - 1
  BY <1>1
<1>4. Midnight(t) \in Int /\ Midnight(t) + Day > t
  BY <1>1, <1>3 DEF Midnight
<1>5. Weekday(t) \in Int
  <2>1. t \div Day \in Int
    BY <1>1
  <2> QED BY <2>1, <1>1 DEF Weekday
<1>6. CASE Cadence[s] = "daily"
  BY <1>1, <1>2, <1>4, <1>6 DEF NextRun, Candidate, Period
<1>7. CASE Cadence[s] # "daily"
  <2> DEFINE days == (DayOfWeek[s] - Weekday(t)) % Week
  <2>1. days \in Nat
    <3>1. DayOfWeek[s] - Weekday(t) \in Int
      BY <1>2, <1>5
    <3> HIDE DEF Weekday
    <3> QED BY <3>1, <1>1
  <2>2. days * Day \in Nat
    BY <2>1, <1>1, Product
  <2>3. Week * Day \in Nat /\ Week * Day >= Day
    BY <1>1, Product
  <2> DEFINE ahead == days * Day
  <2>4. Candidate(s, t) = Midnight(t) + Slot[s] + ahead
    BY <1>7 DEF Candidate
  <2>5. Period(s) = Week * Day
    BY <1>7 DEF Period
  <2> HIDE DEF ahead
  <2>6. ahead \in Nat
    BY <2>2 DEF ahead
  <2> QED BY <1>2, <1>4, <2>3, <2>4, <2>5, <2>6 DEF NextRun
<1> QED BY <1>6, <1>7

(* compute_next_run answers with the first time on the timetable that is   *)
(* after the time it is given.                                             *)
LEMMA NextRunOnTimetable ==
  ASSUME NEW s \in Schedules, NEW t \in Nat
  PROVE  /\ OnTimetable(s, NextRun(s, t))
         /\ \A u \in Nat : t < u /\ u < NextRun(s, t) => ~OnTimetable(s, u)
<1> DEFINE D == Day
<1> DEFINE W == Week
<1> DEFINE q == t \div D
<1> DEFINE r == t % D
<1> DEFINE v == Slot[s]
<1> DEFINE w == DayOfWeek[s]
<1>1. /\ D \in Nat \ {0} /\ W \in Nat \ {0} /\ v \in 0 .. D - 1 /\ w \in 0 .. W - 1
      /\ Cadence[s] \in {"daily", "weekly"}
  BY TimetableAssumption
<1>2. q \in Int /\ r \in 0 .. D - 1 /\ t = D * q + r
  BY <1>1, Division
<1>3. Midnight(t) = D * q
  <2> HIDE DEF q
  <2>1. D * q \in Int
    BY <1>1, <1>2
  <2> QED BY <1>1, <1>2, <2>1 DEF Midnight
<1>4. ASSUME NEW k \in Int
      PROVE  (D * k + v) % D = v /\ (D * k + v) \div D = k
  BY <1>1, Remainder
<1>5. ASSUME NEW u \in Nat, u % D = v
      PROVE  \E j \in Int : j = u \div D /\ u = D * j + v
  <2> DEFINE j == u \div D
  <2>1. j \in Int /\ u = D * j + (u % D)
    BY <1>1, Division
  <2> HIDE DEF j
  <2>2. j \in Int /\ u = D * j + v
    BY <1>5, <2>1
  <2> QED BY <2>2 DEF j
<1>6. CASE Cadence[s] = "daily"
  <2>1. PICK k \in Int : /\ NextRun(s, t) = D * k + v
                         /\ \/ k = q /\ v > r
                            \/ k = q + 1 /\ v <= r
    <3> HIDE DEF q, r, v, D
    <3>0. Candidate(s, t) = D * q + v
      BY <1>1, <1>2, <1>3, <1>6 DEF Candidate, v
    <3>1. CASE v > r
      <4>1. ~(D * q + v <= t)
        BY <1>1, <1>2, <3>1
      <4>2. NextRun(s, t) = D * q + v
        BY <3>0, <4>1 DEF NextRun
      <4>3. q \in Int
        BY <1>2
      <4> QED BY <3>1, <4>2, <4>3, Zenon
    <3>2. CASE v <= r
      <4>1. NextRun(s, t) = D * q + v + D
        BY <1>1, <1>2, <1>6, <3>0, <3>2 DEF NextRun, Period, D
      <4>2. D * (q + 1) + v = D * q + v + D
        BY <1>1, <1>2
      <4> QED BY <1>2, <3>2, <4>1, <4>2
    <3> QED BY <1>1, <1>2, <3>1, <3>2
  <2>2. OnTimetable(s, NextRun(s, t))
    BY <1>4, <1>6, <2>1 DEF OnTimetable
  <2>3. ASSUME NEW u \in Nat, t < u, u < NextRun(s, t), OnTimetable(s, u)
        PROVE  FALSE
    <3>1. PICK j \in Int : u = D * j + v
      BY <1>5, <2>3 DEF OnTimetable
    <3> HIDE DEF q, r, v, D
    <3>2. j < k
      <4>1. ~(k < j) /\ ~(k = j)
        BY <1>1, <2>1, <2>3, <3>1, Apart
      <4> QED BY <4>1
    <3>3. CASE j < q
      BY <1>1, <1>2, <2>3, <3>1, <3>3, Apart
    <3>4. CASE j = q /\ v <= r
      BY <1>1, <1>2, <2>3, <3>1, <3>4
    <3> QED BY <1>2, <2>1, <3>2, <3>3, <3>4
  <2> QED BY <2>2, <2>3
<1>7. CASE Cadence[s] = "weekly"
  <2> DEFINE d == (w - (q % W)) % W
  <2>0. d \in 0 .. W - 1 /\ (q + d) % W = w
    BY <1>1, <1>2, WeekdayReached
  <2>1. Candidate(s, t) = D * (q + d) + v
    <3>0. Weekday(t) = q % W
      BY DEF Weekday
    <3>1. Candidate(s, t) = D * q + v + d * D
      <4> HIDE DEF q
      <4> QED BY <1>3, <1>7, <3>0 DEF Candidate
    <3> HIDE DEF q, d, v, D
    <3>2. D * (q + d) = D * q + d * D
      BY <1>1, <1>2, <2>0
    <3> QED BY <1>1, <1>2, <2>0, <3>1, <3>2
  <2>2. PICK k \in Int : /\ NextRun(s, t) = D * k + v
                         /\ \/ k = q + d
                            \/ k = q + W /\ d = 0 /\ v <= r
    <3> HIDE DEF q, d, r, v, D, W
    <3>1. CASE D * (q + d) + v <= t
      <4>1. ~(q < q + d)
        BY <1>1, <1>2, <2>0, <3>1, Apart
      <4>2. d = 0
        BY <1>2, <2>0, <4>1
      <4>3. v <= r
        BY <1>1, <1>2, <3>1, <4>2
      <4>4. NextRun(s, t) = D * (q + d) + v + W * D
        BY <1>7, <2>1, <3>1 DEF NextRun, Period, D, W
      <4>5. D * (q + W) = D * q + W * D
        BY <1>1, <1>2
      <4> QED BY <1>1, <1>2, <4>2, <4>3, <4>4, <4>5
    <3>2. CASE ~(D * (q + d) + v <= t)
      BY <1>2, <2>0, <2>1, <3>2 DEF NextRun
    <3> QED BY <3>1, <3>2
  <2>3. k % W = w
    <3> HIDE DEF q, d, W
    <3>1. CASE k = q + d
      BY <2>0, <3>1
    <3>2. CASE k = q + W /\ d = 0
      <4> DEFINE a == q \div W
      <4>1. a \in Int /\ q = W * a + (q % W) /\ q % W \in 0 .. W - 1
        BY <1>1, <1>2, Division
      <4>2. q % W = w
        BY <1>2, <2>0, <3>2
      <4> HIDE DEF a, w
      <4>3. q = W * a + w
        BY <4>1, <4>2, Zenon
      <4>4. W * (a + 1) = W * a + W
        BY <1>1, <4>1
      <4>5. k = W * (a + 1) + w
        BY <1>1, <1>2, <3>2, <4>1, <4>3, <4>4
      <4>6. (W * (a + 1) + w) % W = w
        <5>1. a + 1 \in Int
          BY <4>1
        <5> QED BY <1>1, <5>1, Remainder, Zenon
      <4> QED BY <4>5, <4>6
    <3> QED BY <2>2, <3>1, <3>2
  <2>4. OnTimetable(s, NextRun(s, t))
    BY <1>4, <2>2, <2>3 DEF OnTimetable, Weekday
  <2>5. ASSUME NEW u \in Nat, t < u, u < NextRun(s, t), OnTimetable(s, u)
        PROVE  FALSE
    <3>1. PICK j \in Int : j = u \div D /\ u = D * j + v
      BY <1>5, <2>5 DEF OnTimetable
    <3>2. j % W = w
      BY <1>7, <2>5, <3>1 DEF OnTimetable, Weekday
    <3> HIDE DEF q, r, v, d, D, W
    <3>3. j < k
      <4>1. ~(k < j) /\ ~(k = j)
        BY <1>1, <2>2, <2>5, <3>1, Apart
      <4> QED BY <4>1
    <3>4. ~(j < q)
      BY <1>1, <1>2, <2>5, <3>1, Apart
    <3>5. k < j + W
      <4>1. CASE k = q + d
        BY <1>1, <1>2, <2>0, <3>4, <4>1
      <4>2. CASE k = q + W /\ v <= r
        <5>1. j # q
          BY <1>1, <1>2, <2>5, <3>1, <4>2
        <5> QED BY <1>1, <1>2, <3>4, <4>2, <5>1
      <4> QED BY <2>2, <4>1, <4>2
    <3> QED BY <1>1, <2>3, <3>2, <3>3, <3>5, OtherWeekday
  <2> QED BY <2>4, <2>5
<1> QED BY <1>1, <1>6, <1>7
-----------------------------------------------------------------------------
USE BoundsAssumption

(* The clock never stands before a scan that was made. *)
Timeline ==
    \A i \in 1 .. Len(scans) : scans[i].at <= now

(* What a schedule waits for, and what a copy of its row asks for, comes   *)
(* after every scan made for it.                                           *)
RowsAhead ==
    \A i \in 1 .. Len(scans) :
        Present(scans[i].schedule) => scans[i].at < rows[scans[i].schedule].next

BatchAhead ==
    \A b \in batch : \A i \in 1 .. Len(scans) :
        scans[i].schedule = b.schedule => scans[i].at < b.due

(* A stray scan is the last one: no copy of the row is left. *)
StraysSpent ==
    /\ \A b \in batch : rows[b.schedule].state # "absent"
    /\ \A s \in Schedules : strays[s] # 0 =>
         /\ strays[s] = 1
         /\ rows[s].state \in {"off", "deleted"}
         /\ \A b \in batch : b.schedule # s

(* Without foreign keys a copy names the profile of its row, and the row   *)
(* of a scan has been there.                                               *)
NamesKept ==
    ~linked =>
        /\ \A b \in batch : b.profile = rows[b.schedule].profile
        /\ \A i \in 1 .. Len(scans) : rows[scans[i].schedule].state # "absent"

IInv ==
    /\ TypeOK
    /\ Timeline /\ RowsAhead /\ BatchAhead /\ OneRunPerOutage
    /\ StraysSpent
    /\ ProfilesFollow /\ NamesKept

LEMMA IInvInit == Init => IInv
<1> SUFFICES ASSUME Init PROVE IInv
  OBVIOUS
<1> USE DEF Init
<1>1. TypeOK
  BY DEF TypeOK, RowType, Absent
<1>2. Len(scans) = 0
  OBVIOUS
<1>3. Timeline /\ RowsAhead /\ BatchAhead /\ OneRunPerOutage
  BY <1>2 DEF Timeline, RowsAhead, BatchAhead, OneRunPerOutage
<1>4. StraysSpent /\ ProfilesFollow /\ NamesKept
  BY <1>2 DEF StraysSpent, ProfilesFollow, NamesKept, Absent
<1> QED BY <1>1, <1>3, <1>4 DEF IInv

LEMMA ScanFacts ==
  ASSUME TypeOK
  PROVE  /\ Len(scans) \in Nat
         /\ \A i \in 1 .. Len(scans) :
              /\ scans[i] \in ScanType
              /\ scans[i].schedule \in Schedules
              /\ scans[i].at \in Int /\ scans[i].due \in Int
<1>1. scans \in Seq(ScanType)
  BY DEF TypeOK, RowType
<1>2. Len(scans) \in Nat /\ \A i \in 1 .. Len(scans) : scans[i] \in ScanType
  BY <1>1
<1> QED BY <1>2 DEF ScanType

(* What a step does to the scans, for the invariant and for the two below. *)
LEMMA ScansForget ==
  ASSUME TypeOK, NEW p \in profiles, RemoveProfile(p)
  PROVE  /\ Len(scans') = Len(scans) /\ scans' \in Seq(ScanType)
         /\ \A i \in 1 .. Len(scans) :
              /\ scans'[i].schedule = scans[i].schedule /\ scans'[i].at = scans[i].at
              /\ scans'[i].due = scans[i].due /\ scans'[i].handed = scans[i].handed
              /\ scans'[i].profile = Forgetting(p, scans[i].profile)
<1> USE DEF RemoveProfile
<1>1. Len(scans) \in Nat /\ DOMAIN scans = 1 .. Len(scans)
  <2>1. scans \in Seq(ScanType)
    BY DEF TypeOK
  <2> QED BY <2>1
<1>2. \A i \in 1 .. Len(scans) :
        scans'[i] = [scans[i] EXCEPT !.profile = Forgetting(p, scans[i].profile)]
  BY <1>1
<1>3. \A i \in 1 .. Len(scans) : scans[i] \in ScanType
  BY ScanFacts
<1>4. \A i \in 1 .. Len(scans) :
         /\ scans'[i].schedule = scans[i].schedule /\ scans'[i].at = scans[i].at
         /\ scans'[i].due = scans[i].due /\ scans'[i].handed = scans[i].handed
         /\ scans'[i].profile = Forgetting(p, scans[i].profile)
  BY <1>2, <1>3 DEF ScanType
<1>5. ASSUME NEW i \in 1 .. Len(scans)  PROVE scans'[i] \in ScanType
  <2>1. Forgetting(p, scans[i].profile) \in Profiles \cup {Null}
    BY <1>3 DEF ScanType, Forgetting
  <2> QED BY <1>2, <1>3, <2>1 DEF ScanType
<1>6. scans' \in [1 .. Len(scans) -> ScanType]
  BY <1>1, <1>5
<1>7. scans' \in Seq(ScanType)
  BY <1>1, <1>6, SeqDef
<1>8. Len(scans') = Len(scans)
  BY <1>1, <1>7, LenProperties
<1> QED BY <1>4, <1>7, <1>8

LEMMA ScansGrow ==
  ASSUME TypeOK, NEW b \in batch, CreateDue(b)
  PROVE  /\ scans' \in Seq(ScanType) /\ Len(scans') = Len(scans) + 1 /\ Len(scans) \in Nat
         /\ scans'[Len(scans) + 1] = ScanOf(b)
         /\ \A i \in 1 .. Len(scans) : scans'[i] = scans[i]
<1>1. b.schedule \in Schedules /\ b.due \in Int /\ now \in Nat /\ b.profile \in Profiles \cup {Null}
  BY DEF TypeOK
<1>2. ScanOf(b) \in ScanType
  BY <1>1 DEF ScanOf, ScanType
<1>3. scans \in Seq(ScanType)
  BY DEF TypeOK
<1> QED BY <1>2, <1>3 DEF CreateDue

LEMMA ScansHanded ==
  ASSUME TypeOK, Submit
  PROVE  /\ scans' \in Seq(ScanType) /\ Len(scans') = Len(scans) /\ Len(scans) \in 1 .. Len(scans)
         /\ \A i \in 1 .. Len(scans) :
              /\ scans'[i].schedule = scans[i].schedule /\ scans'[i].at = scans[i].at
              /\ scans'[i].due = scans[i].due /\ scans'[i].profile = scans[i].profile
              /\ scans'[i].handed <=> i = Len(scans) \/ scans[i].handed
<1>1. scans \in Seq(ScanType) /\ Len(scans) \in Nat /\ Len(scans) \in 1 .. Len(scans)
  <2>1. scans \in Seq(ScanType) /\ scans # <<>>
    BY DEF TypeOK, Submit
  <2> QED BY <2>1
<1>2. [scans[Len(scans)] EXCEPT !.handed = TRUE] \in ScanType
  BY <1>1, ScanFacts DEF ScanType
<1>3. scans' = [scans EXCEPT ![Len(scans)] = [scans[Len(scans)] EXCEPT !.handed = TRUE]]
  BY DEF Submit
<1>4. /\ scans' \in Seq(ScanType) /\ Len(scans') = Len(scans)
      /\ \A i \in 1 .. Len(scans) : scans'[i] = IF i = Len(scans)
            THEN [scans[Len(scans)] EXCEPT !.handed = TRUE] ELSE scans[i]
  BY <1>1, <1>2, <1>3, ExceptSeq
<1>5. \A i \in 1 .. Len(scans) : scans[i] \in ScanType
  BY ScanFacts
<1>6. ASSUME NEW i \in 1 .. Len(scans)
      PROVE  /\ scans'[i].schedule = scans[i].schedule /\ scans'[i].at = scans[i].at
             /\ scans'[i].due = scans[i].due /\ scans'[i].profile = scans[i].profile
             /\ scans'[i].handed <=> i = Len(scans) \/ scans[i].handed
  <2>1. CASE i = Len(scans)
    BY <1>4, <1>5, <2>1 DEF ScanType
  <2>2. CASE i # Len(scans)
    BY <1>4, <2>2
  <2> QED BY <2>1, <2>2
<1> QED BY <1>1, <1>4, <1>6

(* A step that leaves the tables and the thread alone, or only empties the *)
(* batch, keeps everything.                                                *)
LEMMA QuietStep ==
  ASSUME IInv, UNCHANGED <<linked, tableVars, strays>>, batch' \in {batch, {}}, TypeOK',
         now' \in {now, now + 1}
  PROVE  IInv'
<1> USE DEF tableVars
<1>1. Timeline'
  <2>1. now \in Nat /\ \A i \in 1 .. Len(scans) : scans[i].at \in Int
    BY ScanFacts DEF IInv, TypeOK, RowType
  <2> QED BY <2>1 DEF IInv, Timeline
<1>2. RowsAhead' /\ BatchAhead' /\ OneRunPerOutage'
  BY DEF IInv, RowsAhead, BatchAhead, OneRunPerOutage, Present
<1>3. StraysSpent' /\ ProfilesFollow' /\ NamesKept'
  BY DEF IInv, StraysSpent, ProfilesFollow, NamesKept
<1> QED BY <1>1, <1>2, <1>3 DEF IInv

(* The steps that touch neither the tables nor the history. *)
LEMMA QuietActions ==
  ASSUME IInv,
         \/ Advance \/ Audit \/ TransactionFails \/ Kill \/ Restart
         \/ \E b \in batch : ReferenceFails(b)
         \/ UNCHANGED vars
  PROVE  IInv'
<1> USE DEF IInv, TypeOK, RowType, tableVars, threadVars, boundVars
<1>1. CASE Advance
  BY <1>1, QuietStep DEF Advance
<1>2. CASE Audit
  BY <1>2, QuietStep DEF Audit
<1>3. CASE TransactionFails
  BY <1>3, QuietStep DEF TransactionFails, Abandon
<1>4. CASE Kill
  <2> USE <1>4 DEF Kill, Abandon
  <2>1. kills' \in 0 .. MaxKills
    OBVIOUS
  <2>2. TypeOK'
    BY <2>1
  <2> QED BY <2>2, QuietStep
<1>5. CASE Restart
  BY <1>5, QuietStep DEF Restart
<1>6. CASE \E b \in batch : ReferenceFails(b)
  BY <1>6, QuietStep DEF ReferenceFails, Abandon
<1>7. CASE UNCHANGED vars
  BY <1>7, QuietStep DEF vars
<1> QED BY <1>1, <1>2, <1>3, <1>4, <1>5, <1>6, <1>7

-----------------------------------------------------------------------------
(* The users' requests. *)

LEMMA RowsChange ==
  ASSUME IInv, NEW s \in Schedules,
         UNCHANGED <<now, linked, profiles, scans, batch>>, TypeOK',
         \A r \in Schedules \ {s} : rows'[r] = rows[r] /\ strays'[r] = strays[r],
         linked => rows'[s].profile \in profiles \cup {Null},
         rows[s].state = "absent" \/ rows'[s].profile = rows[s].profile,
         rows'[s].state # "absent",
         \/ rows'[s].next > now /\ strays'[s] = 0
         \/ /\ Present(s)
            /\ rows'[s].next = rows[s].next /\ strays'[s] = strays[s]
            /\ rows'[s].state \in {"off", "deleted"}
  PROVE  IInv'
<1>1. Timeline' /\ BatchAhead' /\ OneRunPerOutage'
  BY DEF IInv, Timeline, BatchAhead, OneRunPerOutage
<1>2. RowsAhead'
  <2>1. SUFFICES ASSUME NEW i \in 1 .. Len(scans), Present(scans[i].schedule)'
                 PROVE  scans[i].at < rows'[scans[i].schedule].next
    BY DEF RowsAhead, Present
  <2>2. scans[i].schedule \in Schedules /\ scans[i].at \in Int /\ now \in Nat
    BY ScanFacts DEF IInv, TypeOK, RowType
  <2>3. scans[i].at <= now
    BY DEF IInv, Timeline
  <2>4. CASE scans[i].schedule # s
    BY <2>1, <2>2, <2>4 DEF IInv, RowsAhead, Present
  <2>5. CASE scans[i].schedule = s
    <3>1. CASE rows'[s].next > now
      <4>1. rows'[s].next \in Int
        BY DEF TypeOK, RowType
      <4> QED BY <2>2, <2>3, <2>5, <3>1, <4>1
    <3>2. CASE Present(s) /\ rows'[s].next = rows[s].next
      BY <2>5, <3>2 DEF IInv, RowsAhead
    <3> QED BY <3>1, <3>2
  <2> QED BY <2>4, <2>5
<1>3. StraysSpent'
  BY DEF IInv, StraysSpent, TypeOK, RowType
<1>4. ProfilesFollow' /\ NamesKept'
  <2>1. \A i \in 1 .. Len(scans) : scans[i].schedule \in Schedules
    BY ScanFacts DEF IInv
  <2>2. \A b \in batch : b.schedule \in Schedules /\ rows[b.schedule].state # "absent"
    BY DEF IInv, TypeOK, StraysSpent
  <2> QED BY <2>1, <2>2 DEF IInv, ProfilesFollow, NamesKept
<1> QED BY <1>1, <1>2, <1>3, <1>4 DEF IInv

LEMMA UserActions ==
  ASSUME IInv, NEW s \in Schedules,
         \/ \E p \in Referring : CreateSchedule(s, p)
         \/ Enable(s) \/ Disable(s) \/ DeleteSchedule(s)
  PROVE  IInv'
<1> USE DEF threadVars, boundVars
<1>0. now \in Nat /\ NextRun(s, now) \in Int /\ NextRun(s, now) > now
  <2>1. now \in Nat
    BY DEF IInv, TypeOK, RowType
  <2> QED BY <2>1, NextRunLater
<1>1. ASSUME NEW p \in Referring, CreateSchedule(s, p)  PROVE IInv'
  <2> USE <1>1 DEF CreateSchedule
  <2>1. strays[s] = 0 /\ p \in Profiles \cup {Null} /\ rows[s].state = "absent"
        /\ (linked => p \in profiles \cup {Null})
    BY DEF IInv, StraysSpent, TypeOK, Referring
  <2>2. TypeOK'
    BY <1>0, <2>1 DEF IInv, TypeOK, RowType
  <2>3. rows'[s] = [state |-> "on", next |-> NextRun(s, now), profile |-> p]
    BY DEF IInv, TypeOK, RowType
  <2>4. \A r \in Schedules \ {s} : rows'[r] = rows[r] /\ strays'[r] = strays[r]
    BY DEF IInv, TypeOK, RowType
  <2> QED BY <1>0, <2>1, <2>2, <2>3, <2>4, RowsChange
<1>2. CASE Enable(s)
  <2> USE <1>2 DEF Enable
  <2>1. rows' \in [Schedules -> RowType]
    <3>1. [[rows[s] EXCEPT !.state = "on"] EXCEPT !.next = NextRun(s, now)] \in RowType
      BY <1>0 DEF IInv, TypeOK, RowType, RowType
    <3> QED BY <3>1 DEF IInv, TypeOK
  <2>2. TypeOK'
    BY <2>1 DEF IInv, TypeOK, RowType
  <2>3. /\ rows'[s].state = "on" /\ rows'[s].next = NextRun(s, now)
        /\ rows'[s].profile = rows[s].profile /\ strays'[s] = 0
    BY DEF IInv, TypeOK, RowType
  <2>4. \A r \in Schedules \ {s} : rows'[r] = rows[r] /\ strays'[r] = strays[r]
    BY DEF IInv, TypeOK, RowType
  <2>5. linked => rows[s].profile \in profiles \cup {Null}
    BY DEF IInv, ProfilesFollow
  <2> QED BY <1>0, <2>2, <2>3, <2>4, <2>5, RowsChange
<1>3. CASE Disable(s) \/ DeleteSchedule(s)
  <2> USE <1>3 DEF Disable, DeleteSchedule
  <2>2. TypeOK'
    BY DEF IInv, TypeOK, RowType
  <2>3. /\ rows'[s].state \in {"off", "deleted"} /\ rows'[s].next = rows[s].next
        /\ rows'[s].profile = rows[s].profile /\ strays'[s] = strays[s]
    BY DEF IInv, TypeOK, RowType
  <2>4. \A r \in Schedules \ {s} : rows'[r] = rows[r] /\ strays'[r] = strays[r]
    BY DEF IInv, TypeOK, RowType
  <2>5. linked => rows[s].profile \in profiles \cup {Null}
    BY DEF IInv, ProfilesFollow
  <2> QED BY <2>2, <2>3, <2>4, <2>5, RowsChange
<1> QED BY <1>1, <1>2, <1>3

LEMMA RemoveProfileAction ==
  ASSUME IInv, NEW p \in profiles, RemoveProfile(p)
  PROVE  IInv'
<1> USE DEF RemoveProfile, threadVars, boundVars
<1>1. /\ Len(scans') = Len(scans) /\ scans' \in Seq(ScanType)
      /\ \A i \in 1 .. Len(scans) :
           /\ scans'[i].schedule = scans[i].schedule /\ scans'[i].at = scans[i].at
           /\ scans'[i].due = scans[i].due /\ scans'[i].handed = scans[i].handed
           /\ scans'[i].profile = Forgetting(p, scans[i].profile)
  BY ScansForget DEF IInv
<1>2. \A s \in Schedules :
         /\ rows'[s].state = rows[s].state /\ rows'[s].next = rows[s].next
         /\ rows'[s].profile = Forgetting(p, rows[s].profile)
  BY DEF IInv, TypeOK, RowType
<1>3. TypeOK'
  <2>1. rows' \in [Schedules -> RowType]
    <3>1. ASSUME NEW s \in Schedules
          PROVE  [rows[s] EXCEPT !.profile = Forgetting(p, @)] \in RowType
      <4>1. rows[s] \in RowType
        BY DEF IInv, TypeOK
      <4>2. Forgetting(p, rows[s].profile) \in Profiles \cup {Null}
        BY <4>1 DEF RowType, Forgetting
      <4> QED BY <4>1, <4>2 DEF RowType
    <3> QED BY <3>1
  <2>2. pc \in {"audit", "submit"} => scans' # <<>> /\ ~scans'[Len(scans')].handed
    <3> SUFFICES ASSUME pc \in {"audit", "submit"}
                 PROVE  scans' # <<>> /\ ~scans'[Len(scans')].handed
      OBVIOUS
    <3>1. scans # <<>> /\ scans \in Seq(ScanType) /\ ~scans[Len(scans)].handed
      BY DEF IInv, TypeOK, RowType
    <3>2. Len(scans) \in 1 .. Len(scans)
      BY <3>1
    <3> QED BY <1>1, <3>1, <3>2
  <2> QED BY <1>1, <2>1, <2>2 DEF IInv, TypeOK, RowType
<1>4. Timeline' /\ BatchAhead' /\ OneRunPerOutage'
  <2>1. Timeline'
    BY <1>1 DEF IInv, Timeline
  <2>2. BatchAhead'
    BY <1>1 DEF IInv, BatchAhead
  <2>3. OneRunPerOutage'
    BY <1>1 DEF IInv, OneRunPerOutage
  <2> QED BY <2>1, <2>2, <2>3
<1>5. RowsAhead'
  BY <1>1, <1>2, ScanFacts DEF IInv, RowsAhead, Present
<1>6. StraysSpent'
  <2>1. \A b \in batch : b.schedule \in Schedules
    BY DEF IInv, TypeOK, RowType
  <2> QED BY <1>2, <2>1 DEF IInv, StraysSpent
<1>7. ProfilesFollow' /\ NamesKept'
  <2>1. \A i \in 1 .. Len(scans) : scans[i].schedule \in Schedules
    BY ScanFacts DEF IInv
  <2>2. \A b \in batch : b.schedule \in Schedules
    BY DEF IInv, TypeOK
  <2> QED BY <1>1, <1>2, <2>1, <2>2 DEF IInv, ProfilesFollow, NamesKept, Forgetting
<1> QED BY <1>3, <1>4, <1>5, <1>6, <1>7 DEF IInv

-----------------------------------------------------------------------------
(* The scheduler thread. *)

LEMMA TickAction ==
  ASSUME IInv, Tick
  PROVE  IInv'
<1> USE DEF Tick, tableVars, boundVars
<1>1. PICK B \in SUBSET {s \in Schedules : Due(s)} :
         B # {} /\ batch' = {Snapshot(s) : s \in B}
  BY Zenon
<1>2. \A s \in B : s \in Schedules /\ rows[s].state = "on"
  BY DEF Due
<1>3. \A b \in batch' : \E s \in B : b = [schedule |-> s, due |-> rows[s].next,
                                          profile |-> rows[s].profile]
  BY <1>1 DEF Snapshot
<1>4. \A b \in batch' : b.schedule \in B /\ b.due = rows[b.schedule].next
  BY <1>3
<1>5. TypeOK'
  <2>1. batch' \subseteq [schedule : Schedules, due : Int, profile : Profiles \cup {Null}]
    <3>1. \A s \in B : rows[s].next \in Int /\ rows[s].profile \in Profiles \cup {Null}
      BY <1>2 DEF IInv, TypeOK, RowType
    <3> QED BY <1>2, <1>3, <3>1
  <2>2. \A b, c \in batch' : b.schedule = c.schedule => b = c
    BY <1>3
  <2>3. batch' # {}
    BY <1>1
  <2> QED BY <2>1, <2>2, <2>3 DEF IInv, TypeOK
<1>6. Timeline' /\ RowsAhead' /\ OneRunPerOutage' /\ ProfilesFollow' /\ NamesKept'
  BY <1>3 DEF IInv, Timeline, RowsAhead, OneRunPerOutage, ProfilesFollow, NamesKept, Present
<1>7. BatchAhead'
  BY <1>2, <1>4 DEF IInv, RowsAhead, BatchAhead, Present
<1>8. StraysSpent'
  BY <1>2, <1>4 DEF IInv, StraysSpent
<1> QED BY <1>5, <1>6, <1>7, <1>8 DEF IInv

LEMMA CreateDueAction ==
  ASSUME IInv, NEW b \in batch, CreateDue(b)
  PROVE  IInv'
<1> DEFINE s == b.schedule
<1> DEFINE n == Len(scans) + 1
<1> USE DEF CreateDue, boundVars
<1>1. /\ s \in Schedules /\ b.due \in Int /\ (linked => b.profile \in profiles \cup {Null})
      /\ now \in Nat /\ b.profile \in Profiles \cup {Null}
  BY DEF IInv, TypeOK, ReferencesHold, Referring
<1>2. NextRun(s, now + 1) \in Int /\ NextRun(s, now + 1) > now + 1
  BY <1>1, NextRunLater
<1>4. /\ scans' \in Seq(ScanType) /\ Len(scans') = n /\ Len(scans) \in Nat
      /\ scans'[n] = ScanOf(b)
      /\ \A i \in 1 .. Len(scans) : scans'[i] = scans[i]
  BY ScansGrow DEF IInv
<1>5. \A i \in 1 .. n : i \in 1 .. Len(scans) \/ i = n
  BY <1>4
<1>6. /\ scans'[n].schedule = s /\ scans'[n].at = now /\ scans'[n].due = b.due
      /\ scans'[n].profile = b.profile /\ ~scans'[n].handed
  BY <1>4 DEF ScanOf
<1>7. /\ rows' \in [Schedules -> RowType]
      /\ \A r \in Schedules : /\ rows'[r].state = rows[r].state
                              /\ rows'[r].profile = rows[r].profile
                              /\ r # s => rows'[r] = rows[r]
      /\ Present(s) => rows'[s].next = NextRun(s, now + 1)
  <2>1. [rows[s] EXCEPT !.next = NextRun(s, now + 1)] \in RowType
    BY <1>1, <1>2 DEF IInv, TypeOK, RowType
  <2> QED BY <1>1, <2>1 DEF IInv, TypeOK, RowType
<1>8. \A i \in 1 .. Len(scans) : scans[i].at \in Int /\ scans[i].schedule \in Schedules
  BY ScanFacts DEF IInv
<1>9. \A c \in batch' : c \in batch /\ c.schedule # s
  BY DEF IInv, TypeOK
<1>10. TypeOK'
  <2>1. strays' \in [Schedules -> Nat]
    BY <1>1 DEF IInv, TypeOK
  <2>2. scans' # <<>> /\ ~scans'[Len(scans')].handed
    BY <1>4, <1>6
  <2> QED BY <1>4, <1>7, <1>9, <2>1, <2>2 DEF IInv, TypeOK
<1>11. Timeline'
  BY <1>1, <1>4, <1>5, <1>6 DEF IInv, Timeline
<1>12. RowsAhead'
  <2>1. SUFFICES ASSUME NEW i \in 1 .. n, rows'[scans'[i].schedule].state \in {"on", "off"}
                 PROVE  scans'[i].at < rows'[scans'[i].schedule].next
    BY <1>4 DEF RowsAhead, Present
  <2>2. CASE scans'[i].schedule = s
    <3>1. Present(s)
      BY <1>1, <1>7, <2>1, <2>2 DEF Present
    <3>2. scans'[i].at \in Int /\ scans'[i].at <= now
      BY <1>1, <1>4, <1>5, <1>6, <1>8 DEF IInv, Timeline
    <3> QED BY <1>1, <1>2, <1>7, <2>2, <3>1, <3>2
  <2>3. CASE scans'[i].schedule # s
    <3>1. i \in 1 .. Len(scans) /\ scans'[i] = scans[i]
      BY <1>4, <1>5, <1>6, <2>3
    <3> QED BY <1>7, <1>8, <2>1, <2>3, <3>1 DEF IInv, RowsAhead, Present
  <2> QED BY <2>2, <2>3
<1>13. BatchAhead'
  <2>1. SUFFICES ASSUME NEW c \in batch', NEW i \in 1 .. n, scans'[i].schedule = c.schedule
                 PROVE  scans'[i].at < c.due
    BY <1>4 DEF BatchAhead
  <2>2. i \in 1 .. Len(scans) /\ scans'[i] = scans[i]
    BY <1>4, <1>5, <1>6, <1>9, <2>1
  <2> QED BY <1>9, <2>1, <2>2 DEF IInv, BatchAhead
<1>14. OneRunPerOutage'
  <2>1. SUFFICES ASSUME NEW i \in 1 .. n, NEW j \in 1 .. n, i < j,
                        scans'[i].schedule = scans'[j].schedule
                 PROVE  scans'[i].at < scans'[j].due
    BY <1>4 DEF OneRunPerOutage
  <2>2. i \in 1 .. Len(scans) /\ scans'[i] = scans[i]
    BY <1>4, <2>1
  <2>3. CASE j = n
    BY <1>6, <2>1, <2>2, <2>3 DEF IInv, BatchAhead
  <2>4. CASE j \in 1 .. Len(scans)
    BY <1>4, <2>1, <2>2, <2>4 DEF IInv, OneRunPerOutage
  <2> QED BY <1>5, <2>3, <2>4
<1>15. StraysSpent'
  <2>1. \A c \in batch : c.schedule \in Schedules /\ rows[c.schedule].state # "absent"
    BY DEF IInv, StraysSpent, TypeOK
  <2>2. strays[s] = 0
    BY <1>1 DEF IInv, StraysSpent
  <2>3. rows[s].state \in {"on", "off", "deleted"}
    BY <1>1, <2>1 DEF IInv, TypeOK, RowType
  <2>4. /\ \A r \in Schedules : r # s => strays'[r] = strays[r]
        /\ rows[s].state = "on" => strays'[s] = 0
        /\ rows[s].state # "on" => strays'[s] = 1
    BY <1>1, <2>2 DEF IInv, TypeOK
  <2>5. \A c \in batch' : rows'[c.schedule].state # "absent"
    BY <1>7, <1>9, <2>1
  <2>6. ASSUME NEW r \in Schedules, strays'[r] # 0
        PROVE  /\ strays'[r] = 1
               /\ rows'[r].state \in {"off", "deleted"}
               /\ \A c \in batch' : c.schedule # r
    BY <1>7, <1>9, <2>3, <2>4, <2>6 DEF IInv, StraysSpent
  <2> QED BY <2>5, <2>6 DEF StraysSpent
<1>16. ProfilesFollow' /\ NamesKept'
  <2>1. rows[s].state # "absent" /\ (~linked => b.profile = rows[s].profile)
    BY DEF IInv, StraysSpent, NamesKept
  <2>2. ProfilesFollow'
    BY <1>1, <1>4, <1>5, <1>6, <1>7, <1>8, <2>1 DEF IInv, ProfilesFollow
  <2>3. \A c \in batch' : c \in batch /\ c.schedule \in Schedules
    BY <1>9 DEF IInv, TypeOK
  <2>4. NamesKept'
    BY <1>1, <1>4, <1>5, <1>6, <1>7, <1>8, <2>1, <2>3 DEF IInv, NamesKept
  <2> QED BY <2>2, <2>4
<1> QED BY <1>10, <1>11, <1>12, <1>13, <1>14, <1>15, <1>16 DEF IInv

LEMMA SubmitAction ==
  ASSUME IInv, Submit
  PROVE  IInv'
<1> USE DEF Submit, boundVars
<1>3. /\ scans' \in Seq(ScanType) /\ Len(scans') = Len(scans)
      /\ \A i \in 1 .. Len(scans) :
           /\ scans'[i].schedule = scans[i].schedule /\ scans'[i].at = scans[i].at
           /\ scans'[i].due = scans[i].due /\ scans'[i].profile = scans[i].profile
  BY ScansHanded DEF IInv
<1>4. TypeOK'
  BY <1>3 DEF IInv, TypeOK
<1>5. Timeline'
  BY <1>3 DEF IInv, Timeline
<1>6. RowsAhead'
  BY <1>3 DEF IInv, RowsAhead, Present
<1>7. BatchAhead'
  BY <1>3 DEF IInv, BatchAhead
<1>8. OneRunPerOutage'
  BY <1>3 DEF IInv, OneRunPerOutage
<1>9. StraysSpent'
  BY DEF IInv, StraysSpent
<1>10. ProfilesFollow' /\ NamesKept'
  BY <1>3 DEF IInv, ProfilesFollow, NamesKept
<1> QED BY <1>4, <1>5, <1>6, <1>7, <1>8, <1>9, <1>10 DEF IInv

-----------------------------------------------------------------------------
LEMMA IInvStep == IInv /\ [Next]_vars => IInv'
<1> SUFFICES ASSUME IInv, [Next]_vars PROVE IInv'
  OBVIOUS
<1>1. CASE UserStep
  <2>1. ASSUME NEW s \in Edited, Enable(s) \/ Disable(s) \/ DeleteSchedule(s)  PROVE IInv'
    BY <2>1, UserActions
  <2>2. ASSUME NEW s \in Schedules, NEW p \in Referring, CreateSchedule(s, p)
        PROVE  IInv'
    BY <2>2, UserActions
  <2>3. ASSUME NEW p \in profiles, RemoveProfile(p)  PROVE IInv'
    BY <2>3, RemoveProfileAction
  <2> QED BY <1>1, <2>1, <2>2, <2>3 DEF UserStep
<1>2. CASE SchedulerStep
  <2>1. ASSUME NEW b \in batch, CreateDue(b)  PROVE IInv'
    BY <2>1, CreateDueAction
  <2>2. CASE Tick
    BY <2>2, TickAction
  <2>3. CASE Submit
    BY <2>3, SubmitAction
  <2>4. CASE Audit \/ TransactionFails \/ \E b \in batch : ReferenceFails(b)
    BY <2>4, QuietActions
  <2> QED BY <1>2, <2>1, <2>2, <2>3, <2>4 DEF SchedulerStep
<1>3. CASE Advance \/ Kill \/ Restart \/ UNCHANGED vars
  BY <1>3, QuietActions
<1> QED BY <1>1, <1>2, <1>3 DEF Next

(* The strengthened invariant holds of every behaviour: no scan is made    *)
(* before what its schedule and the copies of its row still wait for, and  *)
(* no copy survives the one stray scan it may cause (scheduler.py 32-68).  *)
THEOREM InductiveInvariant == Spec => []IInv
<1> QED BY IInvInit, IInvStep, PTL DEF Spec

(* The scheduler's variables keep their types, a batch holds a row once,   *)
(* and a scan is in the thread's hands exactly between its transactions.   *)
THEOREM TypeCorrect == Spec => []TypeOK
<1>1. IInv => TypeOK
  BY DEF IInv
<1> QED BY <1>1, InductiveInvariant, PTL

(* Missed runs coalesce and no due time is served twice, whatever users do *)
(* between reading a row and using it, and wherever the backend is killed. *)
THEOREM RunsCoalesce == Spec => []OneRunPerOutage
<1>1. IInv => OneRunPerOutage
  BY DEF IInv
<1> QED BY <1>1, InductiveInvariant, PTL

(* Disabling or deleting a schedule is overtaken by one scan at most.      *)
THEOREM OneStray == Spec => []StraysAtMostOne
<1>1. IInv => StraysAtMostOne
  BY DEF IInv, StraysSpent, TypeOK, StraysAtMostOne
<1> QED BY <1>1, InductiveInvariant, PTL

(* A scan made from an old copy of its schedule never names a profile that *)
(* has been removed since, where the reference is a foreign key (db.py     *)
(* 117, 215); where it is none (265, 284), the scan names the profile its  *)
(* schedule was made with, and is refused as a whole if it is gone         *)
(* (auth_profiles.py 195): it never runs without one instead.          *)
THEOREM ProfilesFollowed == Spec => []ProfilesFollow
<1>1. IInv => ProfilesFollow
  BY DEF IInv
<1> QED BY <1>1, InductiveInvariant, PTL
-----------------------------------------------------------------------------
(* The first time to come. *)

LEMMA NoneSkippedStep ==
  ASSUME TypeOK, NoneSkipped, [Next]_vars
  PROVE  NoneSkipped'
<1> USE DEF threadVars, boundVars, tableVars
<1>0. now \in Nat
  BY DEF TypeOK
<1>1. SUFFICES ASSUME NEW s \in Schedules, rows'[s].state = "on"
               PROVE  /\ OnTimetable(s, rows'[s].next)
                      /\ \A u \in now' + 2 .. rows'[s].next - 1 : ~OnTimetable(s, u)
  BY DEF NoneSkipped, OnTimetable, Weekday
<1>2. ASSUME now' \in {now, now + 1}, rows[s].state = "on", rows'[s].next = rows[s].next
      PROVE  /\ OnTimetable(s, rows'[s].next)
             /\ \A u \in now' + 2 .. rows'[s].next - 1 : ~OnTimetable(s, u)
  <2>1. /\ OnTimetable(s, rows[s].next) /\ rows[s].next \in Int
        /\ \A u \in now + 2 .. rows[s].next - 1 : ~OnTimetable(s, u)
    BY <1>2 DEF NoneSkipped, TypeOK, RowType
  <2>2. ASSUME NEW u \in now' + 2 .. rows[s].next - 1
        PROVE  u \in now + 2 .. rows[s].next - 1
    <3>1. CASE now' = now
      BY <3>1
    <3>2. CASE now' = now + 1
      BY <1>0, <2>1, <3>2
    <3> QED BY <1>2, <3>1, <3>2
  <2> QED BY <1>2, <2>1, <2>2
<1>3. ASSUME NEW t \in Nat, t \in {now, now + 1}, now' = now, rows'[s].next = NextRun(s, t)
      PROVE  /\ OnTimetable(s, rows'[s].next)
             /\ \A u \in now' + 2 .. rows'[s].next - 1 : ~OnTimetable(s, u)
  <2>1. OnTimetable(s, NextRun(s, t)) /\ NextRun(s, t) \in Int
    BY NextRunOnTimetable, NextRunLater
  <2>2. ASSUME NEW u \in now + 2 .. NextRun(s, t) - 1
        PROVE  ~OnTimetable(s, u)
    <3>1. u \in Nat /\ t < u /\ u < NextRun(s, t)
      BY <1>0, <1>3, <2>1
    <3> QED BY <3>1, NextRunOnTimetable
  <2> QED BY <1>3, <2>1, <2>2
<1>4. CASE Advance \/ Kill \/ Restart \/ UNCHANGED vars
  BY <1>1, <1>2, <1>4 DEF Advance, Kill, Restart, vars
<1>5. CASE UserStep
  <2>1. ASSUME NEW r \in Schedules, NEW p \in Referring, CreateSchedule(r, p)
        PROVE  rows'[s].next = NextRun(s, now) \/ rows'[s] = rows[s]
    BY <2>1 DEF CreateSchedule, TypeOK
  <2>2. ASSUME NEW r \in Schedules, Enable(r)
        PROVE  rows'[s].next = NextRun(s, now) \/ rows'[s] = rows[s]
    BY <2>2 DEF Enable, TypeOK, RowType
  <2>3. ASSUME NEW r \in Schedules, Disable(r) \/ DeleteSchedule(r)
        PROVE  rows'[s] = rows[s]
    BY <1>1, <2>3 DEF Disable, DeleteSchedule, TypeOK, RowType
  <2>4. ASSUME NEW p \in profiles, RemoveProfile(p)
        PROVE  rows'[s].state = rows[s].state /\ rows'[s].next = rows[s].next
    BY <2>4 DEF RemoveProfile, TypeOK, RowType
  <2>5. now' = now
    BY <1>5 DEF UserStep, CreateSchedule, Enable, Disable, DeleteSchedule, RemoveProfile
  <2>6. CASE rows'[s].next = NextRun(s, now)
    BY <1>0, <1>3, <2>5, <2>6
  <2>7. CASE rows'[s].state = rows[s].state /\ rows'[s].next = rows[s].next
    BY <1>1, <1>2, <2>5, <2>7
  <2> QED BY <1>5, <2>1, <2>2, <2>3, <2>4, <2>6, <2>7 DEF UserStep
<1>6. CASE SchedulerStep
  <2>1. ASSUME NEW b \in batch, CreateDue(b)
        PROVE  \/ rows'[s].next = NextRun(s, now + 1)
               \/ rows'[s].state = rows[s].state /\ rows'[s].next = rows[s].next
    BY <2>1 DEF CreateDue, TypeOK, RowType
  <2>2. \/ rows' = rows
        \/ \E b \in batch : CreateDue(b)
    BY <1>6 DEF SchedulerStep, Tick, Audit, Submit, TransactionFails, ReferenceFails
  <2>3. now' = now
    BY <1>6 DEF SchedulerStep, Tick, Audit, Submit, TransactionFails, ReferenceFails, CreateDue
  <2>4. CASE rows'[s].next = NextRun(s, now + 1)
    BY <1>0, <1>3, <2>3, <2>4
  <2>5. CASE rows'[s].state = rows[s].state /\ rows'[s].next = rows[s].next
    BY <1>1, <1>2, <2>3, <2>5
  <2> QED BY <2>1, <2>2, <2>4, <2>5
<1> QED BY <1>4, <1>5, <1>6 DEF Next

(* No occurrence of an enabled schedule is passed over, for any length of  *)
(* the day and the week (compute_next_run, scheduler.py 11-24).            *)
THEOREM NoOccurrenceSkipped == Spec => []NoneSkipped
<1>1. Init => NoneSkipped
  BY DEF Init, Absent, NoneSkipped
<1>2. IInv /\ NoneSkipped /\ [Next]_vars => NoneSkipped'
  BY NoneSkippedStep DEF IInv
<1> QED BY <1>1, <1>2, InductiveInvariant, PTL DEF Spec

-----------------------------------------------------------------------------
(* Scans that nobody carries out. *)

InHand == IF pc \in {"audit", "submit"} THEN 1 ELSE 0

LEMMA UnhandedFinite ==
  ASSUME TypeOK
  PROVE  IsFiniteSet(Unhanded) /\ Cardinality(Unhanded) \in Nat
<1>1. Len(scans) \in Int
  BY ScanFacts
<1>2. IsFiniteSet(1 .. Len(scans)) /\ Unhanded \in SUBSET (1 .. Len(scans))
  BY <1>1, FS_Interval DEF Unhanded
<1>3. IsFiniteSet(Unhanded)
  BY <1>2, FS_Subset
<1> QED BY <1>3, FS_CardinalityType

LEMMA StrandedStep ==
  ASSUME TypeOK, StrandedOnlyByFailure, [Next]_vars
  PROVE  StrandedOnlyByFailure'
<1> USE DEF threadVars, boundVars, tableVars, InHand
<1>0. /\ faults \in Nat /\ kills \in Nat
      /\ Cardinality(Unhanded) \in Nat
      /\ Cardinality(Unhanded) <= faults + kills + InHand
  BY UnhandedFinite DEF TypeOK, StrandedOnlyByFailure
<1>1. SUFFICES Cardinality(Unhanded') <= faults' + kills' + InHand'
  BY DEF StrandedOnlyByFailure
<1>2. InHand \in Nat
  OBVIOUS
<1>3. scans' = scans => Cardinality(Unhanded') = Cardinality(Unhanded)
  <2>1. scans' = scans => Unhanded' = Unhanded
    BY DEF Unhanded
  <2> QED BY <2>1, Zenon
<1>4. CASE Advance \/ Restart \/ UNCHANGED vars \/ Audit \/ Tick
  <2>1. scans' = scans /\ faults' = faults /\ kills' = kills /\ InHand' = InHand
    BY <1>4 DEF Advance, Restart, vars, Audit, Tick
  <2> HIDE DEF InHand
  <2> QED BY <1>0, <1>2, <1>3, <2>1
<1>5. CASE TransactionFails \/ Kill \/ \E b \in batch : ReferenceFails(b)
  <2>1. scans' = scans /\ InHand' = 0 /\ InHand <= 1
    BY <1>5 DEF TransactionFails, Kill, ReferenceFails, Abandon
  <2>2. \/ faults' = faults + 1 /\ kills' = kills
        \/ faults' = faults /\ kills' = kills + 1
        \/ faults' = faults /\ kills' = kills /\ InHand = 0
    BY <1>5 DEF TransactionFails, Kill, ReferenceFails, Abandon
  <2> HIDE DEF InHand
  <2> QED BY <1>0, <1>2, <1>3, <2>1, <2>2
<1>6. CASE UserStep
  <2>1. ASSUME NEW p \in profiles, RemoveProfile(p)
        PROVE  Unhanded' = Unhanded
    BY <2>1, ScansForget DEF Unhanded
  <2>2. Cardinality(Unhanded') = Cardinality(Unhanded)
    <3>1. Unhanded' = Unhanded \/ scans' = scans
      BY <1>6, <2>1 DEF UserStep, CreateSchedule, Enable, Disable, DeleteSchedule
    <3> QED BY <1>3, <3>1, Zenon
  <2>3. faults' = faults /\ kills' = kills /\ InHand' = InHand
    BY <1>6 DEF UserStep, CreateSchedule, Enable, Disable, DeleteSchedule, RemoveProfile
  <2> HIDE DEF InHand
  <2> QED BY <1>0, <1>2, <2>2, <2>3
<1>7. ASSUME NEW b \in batch, CreateDue(b)
      PROVE  Cardinality(Unhanded') <= faults' + kills' + InHand'
  <2> DEFINE n == Len(scans) + 1
  <2>1. Unhanded' = Unhanded \cup {n}
    <3>1. /\ Len(scans') = n /\ Len(scans) \in Nat /\ ~scans'[n].handed
          /\ \A i \in 1 .. Len(scans) : scans'[i] = scans[i]
      <4>1. ~ScanOf(b).handed
        BY DEF ScanOf
      <4> QED BY <1>7, <4>1, ScansGrow
    <3>2. \A i : i \in 1 .. n <=> i \in 1 .. Len(scans) \/ i = n
      BY <3>1
    <3> HIDE DEF n
    <3> QED BY <3>1, <3>2 DEF Unhanded
  <2>2. Cardinality(Unhanded \cup {n}) <= Cardinality(Unhanded) + 1
    <3>1. \/ Cardinality(Unhanded \cup {n}) = Cardinality(Unhanded)
          \/ Cardinality(Unhanded \cup {n}) = Cardinality(Unhanded) + 1
      <4> HIDE DEF n
      <4> QED BY UnhandedFinite, FS_AddElement
    <3> QED BY <1>0, <3>1
  <2>3. InHand = 0 /\ InHand' = 1 /\ UNCHANGED <<faults, kills>>
    BY <1>7 DEF CreateDue
  <2>4. Cardinality(Unhanded \cup {n}) \in Nat
    BY UnhandedFinite, FS_AddElement, FS_CardinalityType
  <2> QED BY <1>0, <2>1, <2>2, <2>3, <2>4
<1>8. CASE Submit
  <2> DEFINE n == Len(scans)
  <2>1. Unhanded' = Unhanded \ {n}
    BY <1>8, ScansHanded DEF Unhanded
  <2>2. n \in Unhanded
    <3>1. n \in 1 .. Len(scans) /\ ~scans[n].handed
      BY <1>8, ScansHanded DEF TypeOK, Submit
    <3> QED BY <3>1 DEF Unhanded
  <2>3. Cardinality(Unhanded \ {n}) = Cardinality(Unhanded) - 1
    BY <2>2, UnhandedFinite, FS_RemoveElement
  <2>4. InHand = 1 /\ InHand' = 0 /\ UNCHANGED <<faults, kills>>
    BY <1>8 DEF Submit
  <2> QED BY <1>0, <2>1, <2>3, <2>4
<1> QED BY <1>4, <1>5, <1>6, <1>7, <1>8 DEF Next, SchedulerStep

(* A committed scan that is never handed to the pool was left by a failed  *)
(* transaction or a kill, and each leaves one at most (scheduler.py 45-68).*)
THEOREM StrandedByFailureOnly == Spec => []StrandedOnlyByFailure
<1>1. Init => StrandedOnlyByFailure
  <2> SUFFICES ASSUME Init PROVE StrandedOnlyByFailure
    OBVIOUS
  <2>1. Unhanded = {}
    BY DEF Init, Unhanded
  <2> QED BY <2>1, FS_EmptySet DEF Init, StrandedOnlyByFailure
<1>2. IInv /\ StrandedOnlyByFailure /\ [Next]_vars => StrandedOnlyByFailure'
  BY StrandedStep DEF IInv
<1> QED BY <1>1, <1>2, InductiveInvariant, PTL DEF Spec
-----------------------------------------------------------------------------
(* Every due schedule's turn comes: what a fair thread needs for           *)
(* DueIsServed, and all of it that can be said without fairness.           *)

Table == {s \in Schedules : rows[s].state # "absent"}

(* What has already gone wrong is bounded, and so is what still can: the   *)
(* transactions that may yet fail, the kills, the profiles that may be     *)
(* removed under a pass, and the one that has been.                        *)
Dangling == IF \A b \in batch : ReferencesHold(b) THEN 0 ELSE 1

Setbacks == (MaxFaults - faults) + (MaxKills - kills) + Cardinality(profiles) + Dangling

(* The rows that come no later than s and that no pass has read. *)
Waiting(s) ==
    {r \in Schedules : /\ rows[r].state = "on" /\ rows[r].next <= rows[s].next
                       /\ \A b \in batch : b.schedule # r}

(* The steps left of the pass. *)
Phase == IF pc = "audit" THEN 2 ELSE IF pc = "submit" THEN 1 ELSE 0

PassLeft == 3 * Cardinality(batch) + Phase

(* Lexicographically, <<Setbacks, rows before s, PassLeft>> never grows,   *)
(* and every step of the thread lowers it.                                 *)
Nearer(s) ==
    /\ Setbacks' <= Setbacks
    /\ Setbacks' = Setbacks =>
         /\ Cardinality(Waiting(s)') <= Cardinality(Waiting(s))
         /\ Cardinality(Waiting(s)') = Cardinality(Waiting(s)) => PassLeft' <= PassLeft
    /\ SchedulerStep => \/ Setbacks' < Setbacks
                        \/ Cardinality(Waiting(s)') < Cardinality(Waiting(s))
                        \/ PassLeft' < PassLeft

(* All three are natural numbers, so a turn is not put off for ever. *)
TurnsFinite ==
    /\ Setbacks \in Nat /\ PassLeft \in Nat
    /\ \A s \in Schedules : IsFiniteSet(Waiting(s)) /\ Cardinality(Waiting(s)) \in Nat

TurnComes == \A s \in Schedules : Due(s) /\ Due(s)' => Nearer(s)

(* The rows that Tick may read. *)
Batchable(B) ==
    /\ B \in SUBSET {s \in Schedules : Due(s)} /\ B # {}
    /\ Cardinality(B) <= BatchLimit
    /\ \A s \in Schedules \ B :
         Due(s) => /\ Cardinality(B) = BatchLimit
                   /\ \A b \in B : rows[b].next <= rows[s].next

(* A living thread finds a row to read while one is due, and the row to    *)
(* serve next while it has some; audit and submit wait for nothing.        *)
NeverStuck ==
    /\ pc = "idle" /\ (\E s \in Schedules : Due(s)) => \E B : Batchable(B)
    /\ pc = "row" => \E b \in batch : First(b)

TurnInv ==
    /\ IsFiniteSet(Table) /\ IsFiniteSet(batch) /\ IsFiniteSet(profiles)
    /\ \A s \in Schedules : rows[s].next \in Nat
    /\ \A b \in batch : b.due \in Nat

(* The rows a pass reads are finitely many copies, no more than rows. *)
LEMMA CopiesFinite ==
  ASSUME NEW B, IsFiniteSet(B)
  PROVE  IsFiniteSet({Snapshot(s) : s \in B})
<1> DEFINE T == {Snapshot(s) : s \in B}
<1> DEFINE f == [s \in B |-> Snapshot(s)]
<1>1. f \in Surjection(B, T)
  <2>1. f \in [B -> T]
    OBVIOUS
  <2>2. ASSUME NEW t \in T PROVE \E s \in B : f[s] = t
    OBVIOUS
  <2> QED BY <2>1, <2>2 DEF Surjection
<1>2. IsFiniteSet(T)
  <2> HIDE DEF f, T
  <2> QED BY <1>1, FS_Surjection
<1> QED BY <1>2

LEMMA TurnInvStep ==
  ASSUME IInv, TurnInv, [Next]_vars
  PROVE  TurnInv'
<1> USE DEF TurnInv, tableVars, threadVars, boundVars
<1>0. TypeOK /\ now \in Nat
  BY DEF IInv, TypeOK
<1>1. ASSUME NEW s \in Schedules, NEW t \in Nat
      PROVE  NextRun(s, t) \in Nat
  BY NextRunLater
<1>2. now + 1 \in Nat
  BY <1>0
<1>3. IsFiniteSet(profiles')
  <2>1. profiles' = profiles \/ \E p \in profiles : profiles' = profiles \ {p}
    BY DEF Next, Advance, UserStep, SchedulerStep, Enable, Disable, DeleteSchedule,
           CreateSchedule, RemoveProfile, Tick, Audit, Submit, TransactionFails, CreateDue,
           ReferenceFails, Kill, Restart, vars
  <2> QED BY <2>1, FS_RemoveElement
<1>4. \A s \in Schedules : rows'[s].next \in Nat
  <2>1. ASSUME NEW s \in Schedules, Enable(s) \/ Disable(s) \/ DeleteSchedule(s)
        PROVE  \A r \in Schedules : rows'[r].next \in Nat
    <3>1. CASE Enable(s)
      <4>1. NextRun(s, now) \in Nat
        BY <1>0, <1>1
      <4>2. \A r \in Schedules : rows'[r].next \in {rows[r].next, NextRun(s, now)}
        BY <1>0, <3>1 DEF Enable, TypeOK, RowType
      <4> QED BY <4>1, <4>2
    <3>2. CASE Disable(s) \/ DeleteSchedule(s)
      <4>1. \A r \in Schedules : rows'[r].next = rows[r].next
        <5>1. CASE Disable(s)
          BY <1>0, <5>1 DEF Disable, TypeOK, RowType
        <5>2. CASE DeleteSchedule(s)
          BY <1>0, <5>2 DEF DeleteSchedule, TypeOK, RowType
        <5> QED BY <3>2, <5>1, <5>2
      <4> QED BY <4>1
    <3> QED BY <2>1, <3>1, <3>2
  <2>2. ASSUME NEW s \in Schedules, NEW p \in Referring, CreateSchedule(s, p)
        PROVE  \A r \in Schedules : rows'[r].next \in Nat
    BY <1>0, <1>1, <2>2 DEF CreateSchedule, TypeOK, RowType
  <2>3. ASSUME NEW p \in profiles, RemoveProfile(p)
        PROVE  \A r \in Schedules : rows'[r].next \in Nat
    BY <1>0, <2>3 DEF RemoveProfile, TypeOK, RowType
  <2>4. ASSUME NEW b \in batch, CreateDue(b)
        PROVE  \A r \in Schedules : rows'[r].next \in Nat
    <3>1. b.schedule \in Schedules
      BY <1>0 DEF TypeOK
    <3>2. NextRun(b.schedule, now + 1) \in Nat
      BY <1>1, <1>2, <3>1
    <3> QED BY <1>0, <2>4, <3>1, <3>2 DEF CreateDue, TypeOK, RowType
  <2>5. CASE rows' = rows
    BY <2>5
  <2> QED BY <2>1, <2>2, <2>3, <2>4, <2>5
          DEF Next, Advance, UserStep, SchedulerStep, Tick, Audit, Submit, TransactionFails,
              ReferenceFails, Kill, Restart, vars
<1>5. IsFiniteSet(Table')
  <2>1. ASSUME NEW s \in Schedules, Enable(s) \/ Disable(s) \/ DeleteSchedule(s)
        PROVE  Table' \subseteq Table
    BY <1>0, <2>1 DEF Enable, Disable, DeleteSchedule, Table, Present, TypeOK, RowType
  <2>2. ASSUME NEW s \in Schedules, NEW p \in Referring, CreateSchedule(s, p)
        PROVE  Table' \subseteq Table \cup {s}
    BY <1>0, <2>2 DEF CreateSchedule, Table, TypeOK, RowType
  <2>3. ASSUME NEW p \in profiles, RemoveProfile(p)
        PROVE  Table' \subseteq Table
    BY <1>0, <2>3 DEF RemoveProfile, Table, TypeOK, RowType
  <2>4. ASSUME NEW b \in batch, CreateDue(b)
        PROVE  Table' \subseteq Table
    BY <1>0, <2>4 DEF CreateDue, Table, TypeOK, RowType
  <2>6. Table' \subseteq Table \/ \E s \in Schedules : Table' \subseteq Table \cup {s}
    <3>1. CASE UserStep
      BY <2>1, <2>2, <2>3, <3>1, Zenon DEF UserStep
    <3>2. CASE \E b \in batch : CreateDue(b)
      BY <2>4, <3>2
    <3>3. UNCHANGED rows \/ UserStep \/ \E b \in batch : CreateDue(b)
      BY DEF Next, Advance, SchedulerStep, Tick, Audit, Submit, TransactionFails,
             ReferenceFails, Kill, Restart, vars
    <3>4. CASE UNCHANGED rows
      BY <3>4 DEF Table
    <3> QED BY <3>1, <3>2, <3>3, <3>4, Zenon
  <2>7. \A s : IsFiniteSet(Table \cup {s})
    BY FS_AddElement
  <2> QED BY <2>6, <2>7, FS_Subset
<1>6. IsFiniteSet(batch') /\ \A b \in batch' : b.due \in Nat
  <2>1. CASE Tick
    <3>1. PICK B \in SUBSET {s \in Schedules : Due(s)} : batch' = {Snapshot(s) : s \in B}
      BY <2>1 DEF Tick
    <3>2. B \subseteq Table
      BY <3>1 DEF Due, Table
    <3>3. IsFiniteSet(B)
      BY <3>2, FS_Subset
    <3> QED BY <3>1, <3>3, CopiesFinite DEF Snapshot
  <2>2. batch' \subseteq batch \/ Tick
    BY DEF Next, Advance, UserStep, SchedulerStep, Enable, Disable, DeleteSchedule,
           CreateSchedule, RemoveProfile, Audit, Submit, TransactionFails, CreateDue,
           ReferenceFails, Kill, Restart, Abandon, vars
  <2> QED BY <2>1, <2>2, FS_Subset
<1> QED BY <1>3, <1>4, <1>5, <1>6

LEMMA TurnInvariant ==
  ASSUME IsFiniteSet(Profiles)
  PROVE  Spec => [](IInv /\ TurnInv)
<1>1. Init => TurnInv
  <2> SUFFICES ASSUME Init PROVE TurnInv
    OBVIOUS
  <2>1. Table = {} /\ batch = {} /\ profiles = Profiles
    BY DEF Init, Table, Absent
  <2>2. \A s \in Schedules : rows[s].next \in Nat
    BY DEF Init, Absent
  <2> QED BY <2>1, <2>2, FS_EmptySet DEF TurnInv
<1>2. IInv /\ TurnInv /\ [Next]_vars => TurnInv'
  BY TurnInvStep
<1> QED BY <1>1, <1>2, InductiveInvariant, PTL DEF Spec

-----------------------------------------------------------------------------
LEMMA LeastNatural ==
  ASSUME NEW T \in SUBSET Nat, T # {}
  PROVE  \E x \in T : \A y \in T : x <= y
<1> DEFINE R == OpToRel(<, Nat)
<1>1. IsWellFoundedOn(R, Nat)
  BY NatLessThanWellFounded
<1>2. \A x, y \in Nat : y < x => <<y, x>> \in R
  BY DEF OpToRel
<1> HIDE DEF R
<1>3. PICK x \in T : \A y \in T : ~(<<y, x>> \in R)
  BY <1>1, WFMin
<1>4. ASSUME NEW y \in T PROVE x <= y
  <2>1. ~(<<y, x>> \in R) /\ x \in Nat /\ y \in Nat
    BY <1>3
  <2>2. ~(y < x)
    BY <1>2, <2>1
  <2> QED BY <2>1, <2>2
<1> QED BY <1>4

(* Of any finite set there are k members, or all of them, that come first. *)
LEMMA FirstFew ==
  ASSUME NEW D, IsFiniteSet(D), D # {}, NEW f \in [D -> Nat], NEW k \in Nat \ {0}
  PROVE  \E B \in SUBSET D :
           /\ B # {} /\ Cardinality(B) <= k
           /\ \A s \in D \ B : Cardinality(B) = k /\ \A b \in B : f[b] <= f[s]
<1> DEFINE L == {B \in SUBSET D : /\ Cardinality(B) <= k
                                  /\ \A b \in B, s \in D \ B : f[b] <= f[s]}
<1> DEFINE T == {k - Cardinality(B) : B \in L}
<1>1. \A B \in SUBSET D : IsFiniteSet(B) /\ Cardinality(B) \in Nat
  BY FS_Subset, FS_CardinalityType
<1>2. {} \in L
  BY FS_EmptySet
<1>3. T \in SUBSET Nat /\ T # {}
  BY <1>1, <1>2
<1>4. PICK B \in L : \A C \in L : k - Cardinality(B) <= k - Cardinality(C)
  <2> HIDE DEF L
  <2>1. PICK x \in T : \A y \in T : x <= y
    <3> HIDE DEF T
    <3> QED BY <1>3, LeastNatural
  <2> QED BY <2>1
<1>5. B # D => Cardinality(B) = k
  <2> SUFFICES ASSUME B # D, Cardinality(B) # k PROVE FALSE
    OBVIOUS
  <2> DEFINE U == {f[s] : s \in D \ B}
  <2>1. U \in SUBSET Nat /\ U # {}
    OBVIOUS
  <2>2. PICK s \in D \ B : \A r \in D \ B : f[s] <= f[r]
    <3>1. PICK x \in U : \A y \in U : x <= y
      <4> HIDE DEF U
      <4> QED BY <2>1, LeastNatural
    <3> QED BY <3>1
  <2> DEFINE C == B \cup {s}
  <2>3. Cardinality(C) = Cardinality(B) + 1 /\ Cardinality(B) \in Nat /\ Cardinality(B) <= k
    BY <1>1, <2>2, FS_AddElement
  <2>4. Cardinality(C) <= k
    BY <2>3
  <2>5. \A c \in C, r \in D \ C : f[c] <= f[r]
    BY <2>2
  <2>6. C \in L
    <3>1. C \in SUBSET D
      BY <2>2
    <3> HIDE DEF C
    <3> QED BY <2>4, <2>5, <3>1
  <2> HIDE DEF C, L
  <2> QED BY <1>4, <2>3, <2>6
<1>6. B # {}
  BY <1>5, FS_EmptySet
<1> QED BY <1>5, <1>6

(* The guards of the thread are complete: some of the due rows come first, *)
(* and so does one of the copies.                                          *)
LEMMA GuardsHold ==
  ASSUME IInv, TurnInv
  PROVE  NeverStuck
<1>1. ASSUME pc = "idle", NEW t \in Schedules, Due(t)
      PROVE  \E B : Batchable(B)
  <2> DEFINE D == {s \in Schedules : Due(s)}
  <2> DEFINE f == [s \in D |-> rows[s].next]
  <2>1. D # {} /\ IsFiniteSet(D)
    <3>1. D \subseteq Table
      BY DEF Due, Table
    <3> QED BY <1>1, <3>1, FS_Subset DEF TurnInv
  <2>2. f \in [D -> Nat]
    BY DEF TurnInv
  <2>3. PICK B \in SUBSET D :
           /\ B # {} /\ Cardinality(B) <= BatchLimit
           /\ \A s \in D \ B : Cardinality(B) = BatchLimit /\ \A b \in B : f[b] <= f[s]
    <3> HIDE DEF D, f
    <3> QED BY <2>1, <2>2, FirstFew
  <2>4. ASSUME NEW s \in Schedules \ B, Due(s)
        PROVE  Cardinality(B) = BatchLimit /\ \A b \in B : rows[b].next <= rows[s].next
    BY <2>3, <2>4
  <2>5. Batchable(B)
    BY <2>3, <2>4 DEF Batchable
  <2> QED BY <2>5
<1>2. ASSUME pc = "row"
      PROVE  \E b \in batch : First(b)
  <2> DEFINE T == {b.due : b \in batch}
  <2>1. T \in SUBSET Nat /\ T # {}
    BY <1>2 DEF IInv, TypeOK, TurnInv
  <2>2. PICK x \in T : \A y \in T : x <= y
    <3> HIDE DEF T
    <3> QED BY <2>1, LeastNatural
  <2> QED BY <2>2 DEF First
<1> QED BY <1>1, <1>2 DEF NeverStuck

-----------------------------------------------------------------------------
(* Nobody pushes in: a row that a step changes and leaves enabled waits    *)
(* for a time to come.                                                     *)
LEMMA OnlyForward ==
  ASSUME IInv, [Next]_vars
  PROVE  \A r \in Schedules : rows'[r].state = "on" =>
           \/ rows[r].state = "on" /\ rows'[r].next = rows[r].next
           \/ rows'[r].next > now'
<1> USE DEF tableVars, threadVars, boundVars
<1>0. TypeOK /\ now \in Nat
  BY DEF IInv, TypeOK
<1> SUFFICES ASSUME NEW r \in Schedules, rows'[r].state = "on"
             PROVE  \/ rows[r].state = "on" /\ rows'[r].next = rows[r].next
                    \/ rows'[r].next > now'
  OBVIOUS
<1>1. ASSUME NEW s \in Schedules, NEW p \in Referring, CreateSchedule(s, p)
      PROVE  \/ rows[r].state = "on" /\ rows'[r].next = rows[r].next
             \/ rows'[r].next > now'
  BY <1>0, <1>1, NextRunLater DEF CreateSchedule, TypeOK, RowType
<1>2. ASSUME NEW s \in Schedules, Enable(s)
      PROVE  \/ rows[r].state = "on" /\ rows'[r].next = rows[r].next
             \/ rows'[r].next > now'
  BY <1>0, <1>2, NextRunLater DEF Enable, TypeOK, RowType
<1>3. ASSUME NEW s \in Schedules, Disable(s) \/ DeleteSchedule(s)
      PROVE  rows[r].state = "on" /\ rows'[r].next = rows[r].next
  BY <1>0, <1>3 DEF Disable, DeleteSchedule, TypeOK, RowType
<1>4. ASSUME NEW p \in profiles, RemoveProfile(p)
      PROVE  rows[r].state = "on" /\ rows'[r].next = rows[r].next
  BY <1>0, <1>4 DEF RemoveProfile, TypeOK, RowType
<1>5. ASSUME NEW b \in batch, CreateDue(b)
      PROVE  \/ rows[r].state = "on" /\ rows'[r].next = rows[r].next
             \/ rows'[r].next > now'
  <2>1. b.schedule \in Schedules /\ now + 1 \in Nat
    BY <1>0 DEF TypeOK
  <2>2. NextRun(b.schedule, now + 1) > now /\ now' = now
    <3>1. NextRun(b.schedule, now + 1) \in Int /\ NextRun(b.schedule, now + 1) > now + 1
      BY <2>1, NextRunLater
    <3>2. now' = now
      BY <1>5 DEF CreateDue
    <3> QED BY <1>0, <3>1, <3>2
  <2> QED BY <1>0, <1>5, <2>1, <2>2 DEF CreateDue, TypeOK, RowType
<1>6. CASE rows' = rows
  BY <1>6
<1>7. CASE UserStep
  BY <1>1, <1>2, <1>3, <1>4, <1>7, <1>0 DEF UserStep
<1>8. rows' = rows \/ UserStep \/ \E b \in batch : CreateDue(b)
  BY DEF Next, Advance, SchedulerStep, Tick, Audit, Submit, TransactionFails,
         ReferenceFails, Kill, Restart, vars
<1> QED BY <1>5, <1>6, <1>7, <1>8

(* So the rows before a due schedule only get fewer while a pass keeps its *)
(* copies or serves them.                                                  *)
LEMMA QueueShrinks ==
  ASSUME IInv, TurnInv, [Next]_vars, NEW s \in Schedules, Due(s), Due(s)',
         \A b \in batch : b \in batch' \/ rows'[b.schedule].state # "on"
                                       \/ rows'[b.schedule].next > now'
  PROVE  /\ IsFiniteSet(Waiting(s)) /\ Waiting(s)' \subseteq Waiting(s)
         /\ Cardinality(Waiting(s)') \in Nat /\ Cardinality(Waiting(s)) \in Nat
         /\ Cardinality(Waiting(s)') <= Cardinality(Waiting(s))
<1>0. /\ TypeOK /\ now' \in Nat
      /\ \A r \in Schedules : rows[r].next \in Nat /\ rows'[r].next \in Nat
  <2>1. IInv' /\ TurnInv'
    BY IInvStep, TurnInvStep
  <2> QED BY <2>1 DEF IInv, TypeOK, TurnInv
<1>1. rows'[s].next = rows[s].next /\ rows'[s].next <= now'
  <2>1. rows'[s].state = "on" /\ rows'[s].next <= now'
    BY DEF Due
  <2> QED BY <1>0, <2>1, OnlyForward
<1>2. Waiting(s)' \subseteq Waiting(s)
  <2> SUFFICES ASSUME NEW r \in Schedules,
                      rows'[r].state = "on", rows'[r].next <= rows'[s].next,
                      \A b \in batch' : b.schedule # r
               PROVE  r \in Waiting(s)
    BY DEF Waiting
  <2>1. rows[r].state = "on" /\ rows'[r].next = rows[r].next
    BY <1>0, <1>1, OnlyForward
  <2>2. \A b \in batch : b.schedule # r
    BY <1>0, <1>1
  <2> QED BY <1>1, <2>1, <2>2 DEF Waiting
<1>3. IsFiniteSet(Waiting(s))
  <2>1. Waiting(s) \subseteq Table
    BY DEF Waiting, Table
  <2> QED BY <2>1, FS_Subset DEF TurnInv
<1>4. IsFiniteSet(Waiting(s)') /\ Cardinality(Waiting(s)') <= Cardinality(Waiting(s))
  <2> DEFINE U == Waiting(s)'
  <2>1. U \in SUBSET Waiting(s)
    BY <1>2
  <2> HIDE DEF U
  <2>2. IsFiniteSet(U) /\ Cardinality(U) <= Cardinality(Waiting(s))
    BY <1>3, <2>1, FS_Subset
  <2> QED BY <2>2 DEF U
<1>5. Cardinality(Waiting(s)) \in Nat /\ Cardinality(Waiting(s)') \in Nat
  BY <1>3, <1>4, FS_CardinalityType
<1> QED BY <1>2, <1>3, <1>4, <1>5

LEMMA Counts ==
  ASSUME IInv, TurnInv
  PROVE  /\ Setbacks \in Int /\ PassLeft \in Int /\ Cardinality(profiles) \in Nat
         /\ faults \in Int /\ kills \in Int /\ Cardinality(batch) \in Nat
         /\ Dangling \in {0, 1} /\ MaxFaults \in Int /\ MaxKills \in Int
<1>1. Cardinality(profiles) \in Nat /\ Cardinality(batch) \in Nat
  BY FS_CardinalityType DEF TurnInv
<1>2. faults \in Int /\ kills \in Int
  BY DEF IInv, TypeOK
<1>3. Dangling \in {0, 1} /\ Phase \in {0, 1, 2}
  BY DEF Dangling, Phase
<1>4. Setbacks \in Int
  BY <1>1, <1>2, <1>3 DEF Setbacks
<1>5. PassLeft \in Int
  BY <1>1, <1>3 DEF PassLeft
<1> QED BY <1>1, <1>2, <1>3, <1>4, <1>5

(* A pass that ends early has been paid for. *)
LEMMA SetbackStep ==
  ASSUME IInv, TurnInv, [Next]_vars,
         TransactionFails \/ Kill \/ \E b \in batch : ReferenceFails(b)
  PROVE  Setbacks' < Setbacks
<1> USE DEF tableVars, threadVars, boundVars, Abandon
<1>1. Dangling' = 0
  <2>1. batch' = {}
    BY DEF TransactionFails, Kill, ReferenceFails
  <2> QED BY <2>1 DEF Dangling
<1>2. \/ faults' = faults + 1 /\ UNCHANGED <<kills, profiles>>
      \/ kills' = kills + 1 /\ UNCHANGED <<faults, profiles>>
      \/ UNCHANGED <<faults, kills, profiles>> /\ Dangling = 1
  BY DEF TransactionFails, Kill, ReferenceFails, Dangling
<1>3. profiles' = profiles
  BY <1>2
<1>4. Cardinality(profiles') = Cardinality(profiles)
  BY <1>3
<1> QED BY <1>1, <1>2, <1>4, Counts DEF Setbacks

(* Nothing else makes a setback more likely than it was. *)
LEMMA SetbacksFall ==
  ASSUME IInv, TurnInv, [Next]_vars
  PROVE  Setbacks' <= Setbacks
<1> USE DEF tableVars, threadVars, boundVars
<1>1. CASE TransactionFails \/ Kill \/ \E b \in batch : ReferenceFails(b)
  <2>1. IInv' /\ TurnInv'
    BY IInvStep, TurnInvStep
  <2>2. Setbacks \in Int /\ Setbacks' \in Int
    <3>1. (IInv /\ TurnInv => Setbacks \in Int)'
      BY Counts, PTL
    <3> QED BY <2>1, <3>1, Counts
  <2> QED BY <1>1, <2>2, SetbackStep
<1>2. ASSUME NEW p \in profiles, RemoveProfile(p)
      PROVE  Setbacks' <= Setbacks
  <2>1. Cardinality(profiles') = Cardinality(profiles) - 1
    BY <1>2, FS_RemoveElement DEF RemoveProfile, TurnInv
  <2>2. UNCHANGED <<faults, kills>> /\ Dangling' \in {0, 1}
    BY <1>2 DEF RemoveProfile, Dangling
  <2> QED BY <2>1, <2>2, Counts DEF Setbacks
<1>3. ASSUME UNCHANGED <<linked, faults, kills, profiles>>, Dangling' = 0 \/ batch' \subseteq batch
      PROVE  Setbacks' <= Setbacks
  <2>1. Dangling' <= Dangling
    BY <1>3 DEF Dangling, ReferencesHold, Referring
  <2>2. Cardinality(profiles') = Cardinality(profiles) /\ Dangling' \in {0, 1}
    BY <1>3 DEF Dangling
  <2> QED BY <1>3, <2>1, <2>2, Counts DEF Setbacks
<1>4. CASE Tick
  <2>1. Dangling' = 0
    BY <1>4 DEF Tick, Dangling, ReferencesHold, Referring, Snapshot, IInv, ProfilesFollow, TypeOK, RowType
  <2> QED BY <1>3, <1>4, <2>1 DEF Tick
<1>5. CASE \/ Advance \/ Audit \/ Submit \/ Restart \/ UNCHANGED vars
           \/ \E b \in batch : CreateDue(b)
  BY <1>3, <1>5 DEF Advance, Audit, Submit, Restart, vars, CreateDue
<1>6. CASE UserStep
  BY <1>2, <1>3, <1>6 DEF UserStep, Enable, Disable, DeleteSchedule, CreateSchedule
<1> QED BY <1>1, <1>4, <1>5, <1>6 DEF Next, SchedulerStep

LEMMA CountsFinite ==
  ASSUME IInv, TurnInv
  PROVE  TurnsFinite
<1>1. faults \in 0 .. MaxFaults /\ kills \in 0 .. MaxKills
  BY DEF IInv, TypeOK
<1>2. Setbacks \in Nat
  BY <1>1, Counts DEF Setbacks
<1>3. PassLeft \in Nat
  <2>1. Phase \in {0, 1, 2}
    BY DEF Phase
  <2> QED BY <2>1, Counts DEF PassLeft
<1>4. ASSUME NEW s \in Schedules
      PROVE  IsFiniteSet(Waiting(s)) /\ Cardinality(Waiting(s)) \in Nat
  <2>1. Waiting(s) \subseteq Table
    BY DEF Waiting, Table
  <2> QED BY <2>1, FS_Subset, FS_CardinalityType DEF TurnInv
<1> QED BY <1>2, <1>3, <1>4 DEF TurnsFinite

LEMMA NearerStep ==
  ASSUME IInv, TurnInv, [Next]_vars, NEW s \in Schedules, Due(s), Due(s)'
  PROVE  Nearer(s)
<1> USE DEF tableVars, threadVars, boundVars
<1> DEFINE Lower == \/ Setbacks' < Setbacks
                    \/ Cardinality(Waiting(s)') < Cardinality(Waiting(s))
                    \/ PassLeft' < PassLeft
<1>0. /\ Setbacks \in Int /\ Setbacks' \in Int /\ Setbacks' <= Setbacks
      /\ Cardinality(batch) \in Nat /\ IsFiniteSet(batch)
  <2>1. IInv' /\ TurnInv'
    BY IInvStep, TurnInvStep
  <2>2. (IInv /\ TurnInv => Setbacks \in Int)'
    BY Counts, PTL
  <2> QED BY <2>1, <2>2, Counts, SetbacksFall DEF TurnInv
<1>1. ASSUME Setbacks' < Setbacks
      PROVE  Nearer(s)
  BY <1>0, <1>1 DEF Nearer
<1>2. CASE TransactionFails \/ Kill \/ \E b \in batch : ReferenceFails(b)
  BY <1>1, <1>2, SetbackStep
<1>3. CASE Tick
  <2>1. PICK B \in SUBSET {r \in Schedules : Due(r)} :
          /\ B # {}
          /\ \A r \in Schedules \ B :
               Due(r) => /\ Cardinality(B) = BatchLimit
                         /\ \A b \in B : rows[b].next <= rows[r].next
          /\ batch' = {Snapshot(r) : r \in B}
    BY <1>3 DEF Tick
  <2>2. batch = {} /\ rows' = rows /\ now' = now
    BY <1>3 DEF Tick, IInv, TypeOK
  <2>3. /\ IsFiniteSet(Waiting(s)) /\ Waiting(s)' \subseteq Waiting(s)
        /\ Cardinality(Waiting(s)') \in Nat /\ Cardinality(Waiting(s)) \in Nat
        /\ Cardinality(Waiting(s)') <= Cardinality(Waiting(s))
    BY <2>2, QueueShrinks
  <2>4. PICK r \in B : r \in Waiting(s)
    <3>1. s \in Waiting(s)
      BY <2>2 DEF Waiting, Due, TurnInv
    <3>2. CASE s \in B
      BY <3>1, <3>2
    <3>3. CASE s \notin B
      BY <2>1, <2>2, <3>3 DEF Waiting, Due
    <3> QED BY <3>2, <3>3
  <2>5. r \notin Waiting(s)'
    <3>1. Snapshot(r) \in batch' /\ Snapshot(r).schedule = r
      BY <2>1 DEF Snapshot
    <3> QED BY <3>1 DEF Waiting
  <2>6. Cardinality(Waiting(s)') # Cardinality(Waiting(s))
    <3> DEFINE U == Waiting(s)'
    <3>1. U \in SUBSET Waiting(s) /\ U # Waiting(s)
      BY <2>3, <2>4, <2>5
    <3> HIDE DEF U
    <3>2. Cardinality(Waiting(s)) # Cardinality(U)
      BY <2>3, <3>1, FS_Subset
    <3> QED BY <3>2 DEF U
  <2> QED BY <1>0, <2>3, <2>6 DEF Nearer
<1>4. ASSUME NEW b \in batch, CreateDue(b)
      PROVE  Nearer(s)
  <2>1. /\ \A c \in batch : c \in batch' \/ rows'[c.schedule].state # "on"
                                       \/ rows'[c.schedule].next > now'
    <3>1. TypeOK /\ b.schedule \in Schedules /\ now \in Nat /\ now + 1 \in Nat
      BY DEF IInv, TypeOK
    <3>2. /\ NextRun(b.schedule, now + 1) \in Int
          /\ NextRun(b.schedule, now + 1) > now + 1 /\ now' = now
      BY <1>4, <3>1, NextRunLater DEF CreateDue
    <3>3. NextRun(b.schedule, now + 1) > now'
      BY <3>1, <3>2
    <3>4. rows'[b.schedule].state # "on" \/ rows'[b.schedule].next > now'
      BY <1>4, <3>1, <3>3 DEF CreateDue, Present, TypeOK, RowType
    <3> QED BY <1>4, <3>4 DEF CreateDue
  <2>2. /\ Cardinality(Waiting(s)') \in Nat /\ Cardinality(Waiting(s)) \in Nat
        /\ Cardinality(Waiting(s)') <= Cardinality(Waiting(s))
    BY <2>1, QueueShrinks
  <2>3. PassLeft' < PassLeft
    <3>1. Cardinality(batch') = Cardinality(batch) - 1 /\ Phase = 0 /\ Phase' = 2
      BY <1>0, <1>4, FS_RemoveElement DEF CreateDue, Phase
    <3> QED BY <1>0, <3>1 DEF PassLeft
  <2>4. PassLeft \in Int /\ PassLeft' \in Int
    <3>1. Cardinality(batch') \in Nat /\ Phase' = 2
      BY <1>0, <1>4, FS_RemoveElement, FS_CardinalityType DEF CreateDue, Phase
    <3>2. PassLeft' \in Int
      BY <3>1 DEF PassLeft
    <3> QED BY <3>2, Counts
  <2> QED BY <1>0, <2>2, <2>3, <2>4 DEF Nearer
<1>5. ASSUME UNCHANGED batch, SchedulerStep => Phase' < Phase, Phase' <= Phase
      PROVE  Nearer(s)
  <2>1. /\ Cardinality(Waiting(s)') \in Nat /\ Cardinality(Waiting(s)) \in Nat
        /\ Cardinality(Waiting(s)') <= Cardinality(Waiting(s))
    BY <1>5, QueueShrinks
  <2>2. Cardinality(batch') = Cardinality(batch) /\ Phase \in Int /\ Phase' \in Int
    <3>1. Phase \in Int /\ Phase' \in Int
      BY DEF Phase
    <3> QED BY <1>5, <3>1
  <2>3. PassLeft' <= PassLeft /\ (SchedulerStep => PassLeft' < PassLeft)
    BY <1>0, <1>5, <2>2 DEF PassLeft
  <2> QED BY <1>0, <2>1, <2>3 DEF Nearer
<1>6. CASE Audit \/ Submit
  BY <1>5, <1>6 DEF Audit, Submit, Phase
<1>7. CASE ~SchedulerStep /\ (UserStep \/ Advance \/ Restart \/ UNCHANGED vars)
  <2>1. UNCHANGED <<batch, pc>>
    BY <1>7 DEF UserStep, Enable, Disable, DeleteSchedule, CreateSchedule, RemoveProfile,
                Advance, Restart, vars
  <2> QED BY <1>5, <1>7, <2>1 DEF Phase
<1> QED BY <1>2, <1>3, <1>4, <1>6, <1>7 DEF Next, SchedulerStep

(* A living thread can always take its next step: when a row is due there  *)
(* are rows that tick may read, whatever their number, and a pass always   *)
(* has a copy that is the next to serve (scheduler.py 58-68).              *)
THEOREM SchedulerNeverStuck ==
  ASSUME IsFiniteSet(Profiles)
  PROVE  Spec => []NeverStuck
<1>1. IInv /\ TurnInv => NeverStuck
  BY GuardsHold
<1> QED BY <1>1, TurnInvariant, PTL

(* No schedule is starved: while a row stays due, every step of the thread *)
(* brings its turn nearer, and no request, however frequent, nor any       *)
(* passing of time puts it off.  Nobody enters the queue before it, a pass *)
(* that fails for a removed profile is paid for by that profile, and so    *)
(* one bad row cannot hold up the rows behind it (scheduler.py 27-68).     *)
THEOREM NobodyStarves ==
  ASSUME IsFiniteSet(Profiles)
  PROVE  Spec => []TurnsFinite /\ [][TurnComes]_vars
<1>0. IInv /\ TurnInv => TurnsFinite
  BY CountsFinite
<1>1. IInv /\ TurnInv /\ [Next]_vars => TurnComes
  BY NearerStep DEF TurnComes
<1>2. IInv /\ TurnInv /\ [Next]_vars => [TurnComes]_vars
  BY <1>1
<1> QED BY <1>0, <1>2, TurnInvariant, PTL DEF Spec
=============================================================================
