---------------------------- MODULE BackupsProofs ----------------------------
(***************************************************************************)
(* Proofs about Backups, for any handlers, any retention and any bounds:   *)
(* types, the trail of audit events in every database file, what a restore *)
(* puts in place, the copy that precedes a migration, and that tables and  *)
(* files agree.                                                            *)
(***************************************************************************)
EXTENDS Backups, SequenceTheorems, FiniteSetTheorems, TLAPS

(* What is hashed, verifies.                                               *)
Sound(d) == d # None /\ d.schema # "old" => Verifies(d.log)

Trails ==
    ~crossed =>
        /\ live.schema # "old" => Verifies(live.log)
        /\ Sound(tmp)
        /\ \A f \in Files : Sound(disk[f])

(* Restores run on handlers.  Until its copy the file that one restores,   *)
(* if it still exists, is the one it validated; then the temporary file    *)
(* is, unless it met another: then it may be the other's, gone, or empty.  *)
RestoreHandled == \A t \in Threads : job[t].restoring => t \in Handlers /\ pc[t] # "idle"

RestoreSteps == \A t \in Threads : pc[t] \in {"validate", "copy", "check", "replace"} => job[t].restoring

Choosing == {"save", "insert", "retain", "copy"}

Source(t) == job[t].source <= stamp /\ disk[job[t].source] \in {None, job[t].picked}

SourceKept == \A t \in Threads : job[t].restoring /\ pc[t] \in Choosing => Source(t)

CopyKept == \A t \in Window \ met : Window = {t} /\ tmp = job[t].picked /\ tmp # None

CopyOfOne == Window # {} => tmp \in {None, Blank} \/ \E t \in Window : tmp = job[t].picked

Restoring == RestoreHandled /\ RestoreSteps /\ SourceKept /\ CopyKept /\ CopyOfOne

(* Who migrates an old database that no restore put there meanwhile, has   *)
(* found it old and has a copy of it; while startup does, no handler runs. *)
Initialising == {"version", "secure", "upgrade"}

Secured(t) ==
    pc[t] \in {"secure", "upgrade"} /\ t \notin met /\ live.schema = "old" =>
        /\ job[t].version = "old"
        /\ pc[t] = "upgrade" => job[t].new \in 1 .. stamp /\ disk[job[t].new] = live

Migrating ==
    /\ pc[Main] \in {"idle"} \cup Initialising
    /\ \A t \in Handlers : pc[t] \in Initialising => job[t].restoring
    /\ pc[Main] # "idle" => \A t \in Handlers : pc[t] = "idle"
    /\ ~alive => \A t \in Threads : pc[t] = "idle"
    /\ \A t \in Threads : pc[t] = "insert" => job[t].new \in 1 .. stamp
    /\ \A t \in Threads : Secured(t)

IInv == TypeOK /\ Trails /\ Restoring /\ Migrating

-----------------------------------------------------------------------------
(* The chain of audit events.                                              *)
TrailType == Seq(EventType(Events))

LEMMA LastHashType ==
    ASSUME NEW log \in TrailType
    PROVE  LastHash(log) \in HashType(Events)
<1>1. CASE log = <<>> \/ log[Len(log)].event_hash = NotHashed
  <2>1. Genesis \in HashType(Events)
    BY DEF Genesis, HashType
  <2> QED
    BY <1>1, <2>1 DEF LastHash
<1>2. CASE log # <<>> /\ log[Len(log)].event_hash # NotHashed
  <2>1. Len(log) \in 1 .. Len(log)
    BY <1>2 DEF TrailType
  <2>2. log[Len(log)] \in EventType(Events)
    BY <2>1 DEF TrailType
  <2> QED
    BY <1>2, <2>2 DEF LastHash, EventType
<1> QED
  BY <1>1, <1>2

LEMMA HashedType ==
    ASSUME NEW e \in Events, NEW p \in HashType(Events)
    PROVE  Hashed(e, p) \in EventType(Events)
<1>1. Append(p, e) \in HashType(Events)
  <2>1. e \in Events \cup {"no hash"}
    OBVIOUS
  <2> QED
    BY <2>1, AppendProperties DEF HashType
<1> QED
  BY <1>1 DEF Hashed, EventHash, EventType

LEMMA AppendedType ==
    ASSUME NEW log \in TrailType, NEW e \in Events
    PROVE  Appended(log, e) \in TrailType
BY LastHashType, HashedType DEF Appended, TrailType

(* A trail and one more event.                                             *)
LEMMA AppendedElements ==
    ASSUME NEW S, NEW log \in Seq(S), NEW e
    PROVE  /\ Len(log) \in Nat /\ DOMAIN log = 1 .. Len(log)
           /\ DOMAIN Appended(log, e) = 1 .. Len(log) + 1
           /\ \A i \in 1 .. Len(log) : Appended(log, e)[i] = log[i]
           /\ Appended(log, e)[Len(log) + 1] = Hashed(e, LastHash(log))
<1> DEFINE h == Hashed(e, LastHash(log))
           T == S \cup {h}
<1>1. log \in Seq(T) /\ h \in T
  BY SeqMonotonic
<1> HIDE DEF h, T
<1>2. /\ Append(log, h) \in Seq(T) /\ Len(Append(log, h)) = Len(log) + 1
      /\ \A i \in 1 .. Len(log) : Append(log, h)[i] = log[i]
      /\ Append(log, h)[Len(log) + 1] = h
  BY <1>1, AppendProperties
<1> QED
  BY <1>2 DEF Appended, h

(* An appended event does not hide a broken chain.                         *)
LEMMA AppendedShows ==
    ASSUME NEW S, NEW log \in Seq(S), NEW e, Verifies(Appended(log, e))
    PROVE  Verifies(log)
<1> DEFINE n == Len(log)
           new == Appended(log, e)
<1>1. /\ n \in Nat /\ DOMAIN log = 1 .. n
      /\ DOMAIN new = 1 .. n + 1
      /\ \A i \in 1 .. n : new[i] = log[i]
  BY AppendedElements
<1> HIDE DEF new
<1>2. Verifies(new)
  BY DEF new
<1> SUFFICES ASSUME NEW i \in 1 .. n
             PROVE  LET previous == IF i = 1 THEN Genesis ELSE log[i - 1].event_hash
                    IN  /\ log[i].previous_hash = previous
                        /\ log[i].event_hash = EventHash(log[i].event, previous)
  BY <1>1 DEF Verifies
<1>3. i \in 1 .. n + 1 /\ (i # 1 => i - 1 \in 1 .. n)
  BY <1>1
<1> QED
  BY <1>1, <1>2, <1>3 DEF Verifies

LEMMA HashesAreNot ==
    ASSUME NEW p \in HashType(Events), NEW x \in Events
    PROVE  Append(p, x) # NotHashed
<1> DEFINE H == Events \cup {"no hash"}
<1>1. p \in Seq(H) /\ x \in H
  BY DEF HashType
<1>2. x # "no hash"
  BY DEF Events
<1> HIDE DEF H
<1>3. Len(Append(p, x)) = Len(p) + 1 /\ Append(p, x)[Len(p) + 1] = x /\ Len(p) \in Nat
  BY <1>1, AppendProperties, LenProperties
<1>4. Len(NotHashed) = 1 /\ NotHashed[1] = "no hash"
  BY DEF NotHashed
<1> QED
  BY <1>2, <1>3, <1>4

(* An appended event keeps a chain.                                        *)
LEMMA AppendedVerifies ==
    ASSUME NEW log \in TrailType, NEW e, Verifies(log)
    PROVE  Verifies(Appended(log, e))
<1> DEFINE n == Len(log)
           new == Appended(log, e)
<1>1. /\ n \in Nat /\ DOMAIN log = 1 .. n
      /\ DOMAIN new = 1 .. n + 1
      /\ \A i \in 1 .. n : new[i] = log[i]
      /\ new[n + 1] = Hashed(e, LastHash(log))
  BY AppendedElements DEF TrailType
<1> HIDE DEF new
<1>2. LastHash(log) = IF n = 0 THEN Genesis ELSE log[n].event_hash
  <2>1. CASE n = 0
    BY <1>1, <2>1 DEF LastHash, TrailType
  <2>2. CASE n # 0
    <3> DEFINE p == IF n = 1 THEN Genesis ELSE log[n - 1].event_hash
    <3>1. n \in DOMAIN log /\ (n # 1 => n - 1 \in DOMAIN log)
      BY <1>1, <2>2
    <3>2. log[n].event \in Events /\ p \in HashType(Events)
      <4>1. \A i \in DOMAIN log : log[i] \in EventType(Events)
        BY <1>1 DEF TrailType
      <4>2. Genesis \in HashType(Events)
        BY DEF Genesis, HashType
      <4> QED
        BY <3>1, <4>1, <4>2 DEF EventType
    <3>3. log[n].event_hash = Append(p, log[n].event)
      BY <3>1 DEF Verifies, EventHash
    <3> HIDE DEF p
    <3>4. log[n].event_hash # NotHashed
      BY <3>2, <3>3, HashesAreNot
    <3>5. log # <<>>
      BY <2>2
    <3> QED
      BY <2>2, <3>4, <3>5 DEF LastHash
  <2> QED
    BY <2>1, <2>2
<1> SUFFICES ASSUME NEW i \in 1 .. n + 1
             PROVE  LET previous == IF i = 1 THEN Genesis ELSE new[i - 1].event_hash
                    IN  /\ new[i].previous_hash = previous
                        /\ new[i].event_hash = EventHash(new[i].event, previous)
  BY <1>1 DEF Verifies, new
<1>3. CASE i = n + 1
  <2>1. (IF i = 1 THEN Genesis ELSE new[i - 1].event_hash) = LastHash(log)
    <3>1. n # 0 => n \in 1 .. n /\ i # 1 /\ i - 1 = n
      BY <1>1, <1>3
    <3> QED
      BY <3>1, <1>1, <1>2, <1>3
  <2> QED
    BY <2>1, <1>1, <1>3 DEF Hashed
<1>4. CASE i # n + 1
  <2>1. i \in 1 .. n /\ (i # 1 => i - 1 \in 1 .. n)
    BY <1>1, <1>4
  <2> QED
    BY <2>1, <1>1 DEF Verifies
<1> QED
  BY <1>3, <1>4

LEMMA RebuiltProperties ==
    ASSUME NEW log \in TrailType
    PROVE  Rebuilt(log) \in TrailType /\ Verifies(Rebuilt(log))
<1> DEFINE n == Len(log)
           Earlier(i) == [j \in 1 .. i - 1 |-> log[j].event]
           new == Rebuilt(log)
<1>1. n \in Nat /\ DOMAIN log = 1 .. n /\ \A i \in 1 .. n : log[i].event \in Events
  <2>1. n \in Nat /\ DOMAIN log = 1 .. n /\ \A i \in 1 .. n : log[i] \in EventType(Events)
    BY DEF TrailType
  <2> QED
    BY <2>1 DEF EventType
<1>2. \A i \in 1 .. n : Earlier(i) \in HashType(Events)
  <2> SUFFICES ASSUME NEW i \in 1 .. n
               PROVE  Earlier(i) \in HashType(Events)
    OBVIOUS
  <2>1. i - 1 \in Nat /\ \A j \in 1 .. i - 1 : log[j].event \in Events \cup {"no hash"}
    <3>1. i - 1 \in Nat /\ \A j \in 1 .. i - 1 : j \in 1 .. n
      BY <1>1
    <3> QED
      BY <1>1, <3>1
  <2> QED
    <3>1. Earlier(i) \in [1 .. i - 1 -> Events \cup {"no hash"}]
      BY <2>1
    <3> QED
      BY <2>1, <3>1, SeqDef DEF HashType
<1>3. DOMAIN new = 1 .. n /\ \A i \in 1 .. n : new[i] = Hashed(log[i].event, Earlier(i))
  BY <1>1 DEF Rebuilt
<1> HIDE DEF Earlier
<1>4. \A i \in 1 .. n : Hashed(log[i].event, Earlier(i)) \in EventType(Events)
  BY <1>1, <1>2, HashedType
<1>5. new \in TrailType
  <2>1. new \in [1 .. n -> EventType(Events)]
    BY <1>3, <1>4, <1>1 DEF Rebuilt
  <2> QED
    BY <2>1, <1>1 DEF TrailType
<1> HIDE DEF new
<1>6. ASSUME NEW i \in 1 .. n
      PROVE  LET previous == IF i = 1 THEN Genesis ELSE new[i - 1].event_hash
             IN  /\ new[i].previous_hash = previous
                 /\ new[i].event_hash = EventHash(new[i].event, previous)
  <2>1. new[i].previous_hash = Earlier(i) /\ new[i].event_hash = EventHash(new[i].event, Earlier(i))
    BY <1>3 DEF Hashed
  <2>2. CASE i = 1
    <3>1. Earlier(1) = <<>>
      BY DEF Earlier
    <3> QED
      BY <2>1, <2>2, <3>1 DEF Genesis
  <2>3. CASE i # 1
    <3>1. i - 1 \in 1 .. n /\ i - 1 \in Nat /\ i \in Nat
      BY <2>3, <1>1
    <3>2. new[i - 1].event_hash = Append(Earlier(i - 1), log[i - 1].event)
      BY <3>1, <1>3 DEF Hashed, EventHash
    <3>3. Earlier(i) = Append(Earlier(i - 1), log[i - 1].event)
      <4> DEFINE k == i - 1
      <4>1. k \in Nat /\ k >= 1 /\ i = k + 1
        BY <3>1
      <4>2. Earlier(i) = [j \in 1 .. k |-> log[j].event]
        BY <4>1 DEF Earlier
      <4>3. Earlier(k) = [j \in 1 .. k - 1 |-> log[j].event] /\ Earlier(k) \in HashType(Events)
        BY <3>1, <1>2 DEF Earlier
      <4>4. Len(Earlier(k)) = k - 1
        <5>1. DOMAIN Earlier(k) = 1 .. Len(Earlier(k)) /\ Len(Earlier(k)) \in Nat
          BY <4>3, LenProperties DEF HashType
        <5>2. DOMAIN Earlier(k) = 1 .. k - 1 /\ k - 1 \in Nat
          BY <4>1, <4>3
        <5> QED
          BY <5>1, <5>2
      <4>5. /\ Append(Earlier(k), log[k].event) \in HashType(Events)
            /\ Len(Append(Earlier(k), log[k].event)) = k
            /\ \A j \in 1 .. k - 1 : Append(Earlier(k), log[k].event)[j] = log[j].event
            /\ Append(Earlier(k), log[k].event)[k] = log[k].event
        <5>1. log[k].event \in Events \cup {"no hash"}
          BY <1>1, <3>1
        <5> DEFINE H == Events \cup {"no hash"}
                   e == log[k].event
        <5>3. e \in H /\ Earlier(k) \in Seq(H)
          BY <5>1, <4>3 DEF HashType
        <5> HIDE DEF H, e, k
        <5>4. /\ Append(Earlier(k), e) \in Seq(H)
              /\ Len(Append(Earlier(k), e)) = Len(Earlier(k)) + 1
              /\ \A j \in 1 .. Len(Earlier(k)) : Append(Earlier(k), e)[j] = Earlier(k)[j]
              /\ Append(Earlier(k), e)[Len(Earlier(k)) + 1] = e
          BY <5>3, AppendProperties
        <5>2. /\ Append(Earlier(k), log[k].event) \in HashType(Events)
              /\ Len(Append(Earlier(k), log[k].event)) = Len(Earlier(k)) + 1
              /\ \A j \in 1 .. Len(Earlier(k)) : Append(Earlier(k), log[k].event)[j] = Earlier(k)[j]
              /\ Append(Earlier(k), log[k].event)[Len(Earlier(k)) + 1] = log[k].event
          BY <5>4 DEF HashType, H, e
        <5> QED
          BY <5>2, <4>1, <4>3, <4>4
      <4>6. Earlier(i) \in HashType(Events) /\ Len(Earlier(i)) = k
        <5>1. Earlier(i) \in HashType(Events) /\ DOMAIN Earlier(i) = 1 .. k
          BY <4>2, <1>2
        <5>2. DOMAIN Earlier(i) = 1 .. Len(Earlier(i)) /\ Len(Earlier(i)) \in Nat
          BY <5>1, LenProperties DEF HashType
        <5> QED
          BY <5>1, <5>2, <4>1
      <4>7. \A j \in 1 .. k : Earlier(i)[j] = Append(Earlier(k), log[k].event)[j]
        BY <4>1, <4>2, <4>5
      <4>8. Earlier(i) = Append(Earlier(k), log[k].event)
        BY <4>5, <4>6, <4>7, SeqEqual DEF HashType
      <4> QED
        BY <4>8
    <3> QED
      BY <2>1, <2>3, <3>2, <3>3
  <2> QED
    BY <2>2, <2>3
<1>7. Verifies(new)
  BY <1>3, <1>6 DEF Verifies
<1> QED
  BY <1>5, <1>7 DEF new

(* One edit of a chain that verifies breaks it.                            *)
LEMMA EditShows ==
    ASSUME NEW log \in TrailType, Verifies(log), NEW edited \in Edits(log)
    PROVE  ~Verifies(edited) /\ \E S : edited \in Seq(S)
<1>1. Len(log) \in Nat /\ DOMAIN log = 1 .. Len(log)
  BY DEF TrailType
<1>2. ASSUME NEW i \in DOMAIN log
      PROVE  ~Verifies(Altered(log, i))
  <2> DEFINE new == Altered(log, i)
             previous == IF i = 1 THEN Genesis ELSE log[i - 1].event_hash
  <2>1. i \in 1 .. Len(log) /\ log[i] \in EventType(Events)
    BY <1>1, <1>2 DEF TrailType
  <2>2. log[i].event # "altered" /\ log[i].previous_hash \in HashType(Events)
    BY <2>1 DEF EventType, Events
  <2>3. log[i].previous_hash = previous /\ log[i].event_hash = Append(log[i].previous_hash, log[i].event)
    BY <1>2 DEF Verifies, EventHash
  <2>4. /\ DOMAIN new = DOMAIN log
        /\ new[i].event = "altered" /\ new[i].previous_hash = log[i].previous_hash
        /\ new[i].event_hash = log[i].event_hash
    BY <1>2, <2>1 DEF Altered, EventType
  <2> HIDE DEF new
  <2>5. Append(log[i].previous_hash, "altered") # Append(log[i].previous_hash, log[i].event)
    <3> DEFINE p == log[i].previous_hash
           S == (Events \cup {"no hash"}) \cup {"altered"}
    <3>1. p \in Seq(S) /\ "altered" \in S /\ log[i].event \in S
      <4>1. p \in Seq(Events \cup {"no hash"})
        BY <2>2 DEF HashType
      <4>2. log[i].event \in S
        BY <2>1 DEF EventType
      <4>3. "altered" \in S /\ Events \cup {"no hash"} \subseteq S
        OBVIOUS
      <4> HIDE DEF S
      <4> QED
        BY <4>1, <4>2, <4>3, SeqMonotonic
    <3> HIDE DEF S, p
    <3>2. Append(p, "altered") = Append(p, log[i].event) => "altered" = log[i].event
      BY <3>1, AppendInjective
    <3> QED
      BY <3>2, <2>2 DEF p
  <2>6. ASSUME Verifies(new)
        PROVE  FALSE
    <3>1. new[i].event_hash = Append(new[i].previous_hash, new[i].event)
      BY <1>2, <2>4, <2>6 DEF Verifies, EventHash
    <3> QED
      BY <3>1, <2>3, <2>4, <2>5
  <2> QED
    BY <2>6 DEF new
<1>3. ASSUME NEW i \in 1 .. Len(log) - 1
      PROVE  ~Verifies(Removed(log, i))
  <2> DEFINE new == Removed(log, i)
             previous == IF i = 1 THEN Genesis ELSE log[i - 1].event_hash
  <2>1. i \in DOMAIN log /\ i + 1 \in DOMAIN log /\ i \in Nat /\ i + 1 # 1
    BY <1>1
  <2>2. log[i].previous_hash \in HashType(Events)
    <3>1. log[i] \in EventType(Events)
      BY <2>1, <1>1 DEF TrailType
    <3> QED
      BY <3>1 DEF EventType
  <2>3. log[i].previous_hash = previous /\ log[i].event_hash = Append(log[i].previous_hash, log[i].event)
    BY <2>1 DEF Verifies, EventHash
  <2>4. log[i + 1].previous_hash = log[i].event_hash
    <3>1. i + 1 - 1 = i
      BY <2>1
    <3> QED
      BY <2>1, <3>1 DEF Verifies
  <2>5. i \in DOMAIN new /\ new[i] = log[i + 1] /\ (i # 1 => new[i - 1] = log[i - 1])
    BY <1>1, <1>3 DEF Removed
  <2> HIDE DEF new
  <2>6. Append(log[i].previous_hash, log[i].event) # log[i].previous_hash
    <3> DEFINE p == log[i].previous_hash
    <3>1. log[i].event \in Events \cup {"no hash"}
      <4>1. log[i] \in EventType(Events)
        BY <2>1, <1>1 DEF TrailType
      <4> QED
        BY <4>1 DEF EventType
    <3> DEFINE H == Events \cup {"no hash"}
               e == log[i].event
    <3>3. p \in Seq(H) /\ e \in H
      BY <2>2, <3>1 DEF HashType
    <3> HIDE DEF H, e, p
    <3>2. Len(Append(p, e)) = Len(p) + 1 /\ Len(p) \in Nat
      BY <3>3, AppendProperties, LenProperties
    <3>4. Append(p, e) # p
      BY <3>2
    <3> QED
      BY <3>4 DEF p, e
  <2>7. ASSUME Verifies(new)
        PROVE  FALSE
    <3>1. new[i].previous_hash = IF i = 1 THEN Genesis ELSE new[i - 1].event_hash
      BY <2>5, <2>7 DEF Verifies
    <3>2. new[i].previous_hash = previous
      BY <3>1, <2>5
    <3> QED
      BY <3>2, <2>3, <2>4, <2>5, <2>6
  <2> QED
    BY <2>7 DEF new
<1>4. ASSUME NEW i \in DOMAIN log
      PROVE  \E S : Altered(log, i) \in Seq(S)
  <2> DEFINE row == [log[i] EXCEPT !.event = "altered"]
             S == EventType(Events) \cup {row}
  <2>1. Altered(log, i) = [log EXCEPT ![i] = row]
    BY DEF Altered
  <2>2. log \in Seq(S) /\ row \in S
    BY SeqMonotonic DEF TrailType
  <2> HIDE DEF S, row
  <2> QED
    BY <1>1, <2>1, <2>2, ExceptSeq
<1>5. ASSUME NEW i \in 1 .. Len(log) - 1
      PROVE  \E S : Removed(log, i) \in Seq(S)
  <2>1. \A j \in 1 .. Len(log) : log[j] \in EventType(Events)
    BY DEF TrailType
  <2>2. Removed(log, i) \in [1 .. Len(log) - 1 -> EventType(Events)] /\ Len(log) - 1 \in Nat
    BY <1>1, <2>1 DEF Removed
  <2> QED
    BY <2>2, SeqDef
<1> QED
  BY <1>2, <1>3, <1>4, <1>5 DEF Edits

-----------------------------------------------------------------------------
(* What the steps do to one database.                                      *)
LEMMA RecordedProperties ==
    ASSUME TypeOK, NEW e \in Events
    PROVE  /\ Recorded(e) \in DatabaseType /\ Recorded(e).schema = live.schema
           /\ Verifies(live.log) => Verifies(Recorded(e).log)
<1>1. live.log \in TrailType
  BY DEF TypeOK, DatabaseType, TrailType
<1>2. Appended(live.log, e) \in TrailType
  BY <1>1, AppendedType
<1>3. /\ Recorded(e) \in DatabaseType /\ Recorded(e).schema = live.schema
      /\ Recorded(e).log = Appended(live.log, e)
  BY <1>2 DEF TypeOK, DatabaseType, TrailType, Recorded
<1> QED
  BY <1>1, <1>3, AppendedVerifies

LEMMA RelistedProperties ==
    ASSUME NEW d \in DatabaseType, NEW rows \in Seq(RowType)
    PROVE  LET new == [d EXCEPT !.rows = rows]
           IN  new \in DatabaseType /\ new.schema = d.schema /\ new.log = d.log
BY DEF DatabaseType

LEMMA ListedType ==
    ASSUME NEW rows \in Seq(RowType), NEW f \in Files, NEW a \in BOOLEAN
    PROVE  Append(rows, Row(f, a)) \in Seq(RowType)
<1>1. Row(f, a) \in RowType
  BY DEF Row, RowType
<1> HIDE DEF Row
<1> QED
  BY <1>1, AppendProperties

LEMMA ExpiringType ==
    ASSUME TypeOK, NEW S
    PROVE  Expiring(S) \in Seq(RowType)
<1>1. live.rows \in Seq(RowType)
  BY DEF TypeOK, DatabaseType
<1>2. /\ Len(live.rows) \in Nat /\ DOMAIN live.rows = 1 .. Len(live.rows)
      /\ \A i \in 1 .. Len(live.rows) : live.rows[i] \in RowType
  BY <1>1
<1>3. \A row \in RowType : [row EXCEPT !.status = "expired"] \in RowType
  BY DEF RowType
<1>4. Expiring(S) \in [1 .. Len(live.rows) -> RowType]
  BY <1>2, <1>3 DEF Expiring
<1> QED
  BY <1>2, <1>4, SeqDef

LEMMA ExpandedProperties ==
    ASSUME TypeOK, NEW t \in Threads
    PROVE  /\ Expanded(t) \in DatabaseType /\ Expanded(t).schema = "current"
           /\ job[t].version # "current" \/ Verifies(live.log) => Verifies(Expanded(t).log)
<1>1. live.log \in TrailType
  BY DEF TypeOK, DatabaseType, TrailType
<1>2. Rebuilt(live.log) \in TrailType /\ Verifies(Rebuilt(live.log))
  BY <1>1, RebuiltProperties
<1>3. /\ Expanded(t) \in DatabaseType /\ Expanded(t).schema = "current"
      /\ Expanded(t).log = IF job[t].version = "current" THEN live.log ELSE Rebuilt(live.log)
  BY <1>1, <1>2 DEF TypeOK, DatabaseType, TrailType, Expanded
<1> QED
  BY <1>2, <1>3

LEMMA NoJobType == NoJob \in JobType
BY DEF NoJob, JobType

-----------------------------------------------------------------------------
LEMMA InitIInv ==
    ASSUME Init
    PROVE  IInv
<1>1. Database(<<>>, "current") \in DatabaseType
  BY DEF Database, DatabaseType
<1>2. Database(<<Unhashed("legacy")>>, "old") \in DatabaseType
  <2>1. Unhashed("legacy") \in EventType(Events)
    BY DEF Unhashed, NotHashed, EventType, Events, HashType
  <2> HIDE DEF Unhashed
  <2>2. <<Unhashed("legacy")>> \in Seq(EventType(Events))
    BY <2>1
  <2> QED
    BY <2>2 DEF Database, DatabaseType
<1>3. live \in DatabaseType /\ (live.schema # "old" => Verifies(live.log))
  <2>1. CASE live = Database(<<>>, "current")
    BY <1>1, <2>1 DEF Database, Verifies
  <2>2. CASE live = Database(<<Unhashed("legacy")>>, "old")
    BY <1>2, <2>2 DEF Database
  <2> QED
    BY <2>1, <2>2 DEF Init
<1>4. TypeOK
  <2>1. /\ Main \in Threads /\ pc \in [Threads -> Steps] /\ job \in [Threads -> JobType]
        /\ \A t \in Threads : ~job[t].restoring
    BY NoJobType, ConstantsAssumption DEF Init, Threads, NoJob, Steps
  <2>2. stamp \in 0 .. MaxFiles /\ faults \in 0 .. MaxFaults
    BY ConstantsAssumption DEF Init
  <2>3. disk \in [Files -> DatabaseType \cup {None}] /\ \A f \in Files : disk[f] = None
    BY DEF Init
  <2> QED
    BY <1>3, <2>1, <2>2, <2>3 DEF Init, TypeOK
<1>5. Trails
  BY <1>3 DEF Init, Trails, Sound
<1>6. Restoring
  <2>1. Window = {} /\ \A t \in Threads : ~job[t].restoring /\ pc[t] \in {"idle", "version"}
    BY ConstantsAssumption DEF Init, Window, Threads, NoJob
  <2> QED
    BY <2>1 DEF Restoring, RestoreHandled, RestoreSteps, SourceKept, CopyKept, CopyOfOne
<1>7. Migrating
  BY ConstantsAssumption DEF Init, Migrating, Initialising, Secured, Threads
<1> QED
  BY <1>4, <1>5, <1>6, <1>7 DEF IInv

-----------------------------------------------------------------------------
(* A step of thread t.                                                     *)
Apart(t) == \A u \in Threads \ {t} : pc'[u] = pc[u] /\ job'[u] = job[u]

(* No file of a backup is written again, some are deleted.                 *)
Older == stamp' \in Nat /\ stamp <= stamp' /\ \A f \in Files : f <= stamp => disk'[f] \in {None, disk[f]}

(* What is left for thread t itself, if its step is not about the          *)
(* temporary file.                                                         *)
RestoresOn(t) ==
    /\ job'[t].restoring => t \in Handlers /\ pc'[t] # "idle"
    /\ pc'[t] \in {"validate", "copy"} => job'[t].restoring
    /\ job'[t].restoring /\ pc'[t] \in Choosing => Source(t)'

LEMMA OthersRestore ==
    ASSUME IInv, NEW t \in Threads, Apart(t), Older, RestoresOn(t),
           pc'[t] \in {"check", "replace"} => job'[t].restoring
    PROVE  RestoreHandled' /\ RestoreSteps' /\ SourceKept'
<1>1. RestoreHandled' /\ RestoreSteps'
  BY DEF IInv, Apart, RestoresOn, Restoring, RestoreHandled, RestoreSteps
<1>2. ASSUME NEW u \in Threads, job'[u].restoring, pc'[u] \in Choosing
      PROVE  Source(u)'
  <2>1. CASE u = t
    BY <1>2, <2>1 DEF RestoresOn
  <2>2. CASE u # t
    <3>1. /\ pc'[u] = pc[u] /\ job'[u] = job[u] /\ Source(u)
          /\ job[u].source \in Files /\ stamp \in Nat /\ stamp' \in Nat /\ stamp' >= stamp
      BY <1>2, <2>2 DEF IInv, Apart, Restoring, SourceKept, TypeOK, Choosing, Older
    <3>2. job[u].source <= stamp /\ disk[job[u].source] \in {None, job[u].picked}
      BY <3>1 DEF Source
    <3>3. disk'[job[u].source] \in {None, job[u].picked}
      BY <3>1, <3>2 DEF Older
    <3>4. job[u].source <= stamp'
      <4>1. job[u].source \in Nat
        BY <3>1 DEF Files
      <4> QED
        BY <3>1, <3>2, <4>1
    <3> QED
      BY <3>1, <3>3, <3>4 DEF Source
  <2> QED
    BY <2>1, <2>2
<1> QED
  BY <1>1, <1>2 DEF SourceKept

LEMMA RestoringKept ==
    ASSUME IInv, NEW t \in Threads, Apart(t), Older, RestoresOn(t), tmp' = tmp, met' \ {t} = met \ {t},
           pc[t] \notin {"check", "replace"}, pc'[t] \notin {"check", "replace"}
    PROVE  Restoring'
<1>1. RestoreHandled' /\ RestoreSteps' /\ SourceKept'
  BY OthersRestore
<1>2. Window' = Window /\ t \notin Window /\ \A u \in Window : job'[u] = job[u] /\ (u \in met' <=> u \in met)
  BY DEF Window, Apart, Threads
<1>3. CopyKept' /\ CopyOfOne'
  BY <1>2 DEF IInv, Restoring, CopyKept, CopyOfOne
<1> QED
  BY <1>1, <1>3 DEF Restoring

(* Nothing but a restore changes a database of an older schema, except its *)
(* expansion.                                                              *)
LEMMA OthersSecured ==
    ASSUME IInv, NEW t \in Threads, Apart(t), met \ {t} \subseteq met', stamp <= stamp', stamp' \in Nat,
           live'.schema = "old" => live' = live,
           live.schema = "old" => \A f \in Files : f <= stamp => disk'[f] = disk[f]
    PROVE  \A u \in Threads \ {t} : Secured(u)'
<1> SUFFICES ASSUME NEW u \in Threads \ {t},
                    pc'[u] \in {"secure", "upgrade"}, u \notin met', live'.schema = "old"
             PROVE  /\ job'[u].version = "old"
                    /\ pc'[u] = "upgrade" => job'[u].new \in 1 .. stamp' /\ disk'[job'[u].new] = live'
  BY DEF Secured
<1>1. /\ pc'[u] = pc[u] /\ job'[u] = job[u] /\ u \notin met /\ live' = live /\ stamp \in 0 .. MaxFiles
      /\ live.schema = "old" /\ Secured(u)
  BY DEF Apart, IInv, Migrating, TypeOK
<1>2. job[u].version = "old" /\ (pc[u] = "upgrade" => job[u].new \in 1 .. stamp /\ disk[job[u].new] = live)
  BY <1>1 DEF Secured
<1>3. ASSUME pc[u] = "upgrade"
      PROVE  job[u].new \in 1 .. stamp' /\ disk'[job[u].new] = live
  <2>1. job[u].new \in Files /\ job[u].new <= stamp /\ job[u].new \in 1 .. stamp'
    BY <1>1, <1>2, <1>3, ConstantsAssumption DEF Files
  <2> QED
    BY <1>1, <1>2, <1>3, <2>1
<1> QED
  BY <1>1, <1>2, <1>3

LEMMA MigratingKept ==
    ASSUME IInv, NEW t \in Threads, Apart(t), alive', stamp <= stamp', stamp' \in Nat,
           t = Main => pc[Main] # "idle" /\ pc'[Main] \in {"idle"} \cup Initialising,
           t # Main => pc[Main] = "idle" /\ (pc'[t] \in Initialising => job'[t].restoring),
           pc'[t] = "insert" => job'[t].new \in 1 .. stamp',
           \A u \in Threads \ {t} : Secured(u)',
           Secured(t)'
    PROVE  Migrating'
<1>1. Main \in Threads /\ Handlers \subseteq Threads /\ Main \notin Handlers /\ stamp \in Nat
  BY ConstantsAssumption DEF Threads, IInv, TypeOK
<1>2. pc'[Main] \in {"idle"} \cup Initialising /\ (pc'[Main] # "idle" => \A u \in Handlers : pc'[u] = "idle")
  BY <1>1 DEF IInv, Migrating, Apart
<1>3. \A u \in Handlers : pc'[u] \in Initialising => job'[u].restoring
  BY <1>1 DEF IInv, Migrating, Apart
<1>4. \A u \in Threads : pc'[u] = "insert" => job'[u].new \in 1 .. stamp'
  <2> SUFFICES ASSUME NEW u \in Threads, u # t, pc'[u] = "insert"
               PROVE  job'[u].new \in 1 .. stamp'
    OBVIOUS
  <2>1. job'[u].new \in 1 .. stamp
    BY DEF IInv, Migrating, Apart
  <2> QED
    BY <1>1, <2>1
<1> QED
  BY <1>2, <1>3, <1>4 DEF Migrating

(* A thread that starts, leaves or goes on, while the databases stay.      *)
Quiet == UNCHANGED <<live, disk, stamp, tmp, alive, crossed>>

LEMMA QuietStep ==
    ASSUME IInv, NEW t \in Threads, Quiet, Apart(t), RestoresOn(t), alive,
           pc' \in [Threads -> Steps], job' \in [Threads -> JobType], faults' \in 0 .. MaxFaults,
           met' \subseteq Handlers, met' \ {t} = met \ {t},
           job'[t].restoring /\ pc'[t] \in {"validate"} \cup Choosing => job'[t].source \in Files,
           pc[t] \notin {"check", "replace"}, pc'[t] \notin {"check", "replace"},
           t = Main => pc[Main] # "idle" /\ pc'[Main] \in {"idle"} \cup Initialising,
           t # Main => pc[Main] = "idle" /\ (pc'[t] \in Initialising => job'[t].restoring),
           pc'[t] = "insert" => job'[t].new \in 1 .. stamp,
           Secured(t)'
    PROVE  IInv'
<1> USE DEF IInv
<1>1. TypeOK'
  BY DEF TypeOK, Quiet, Apart, Choosing
<1>2. Trails'
  BY DEF Trails, Quiet, Sound
<1>3. Older /\ stamp' \in Nat /\ stamp <= stamp'
  <2>1. stamp \in Nat
    BY ConstantsAssumption DEF TypeOK
  <2> QED
    BY <2>1 DEF Older, Quiet
<1>4. Restoring'
  BY <1>3, RestoringKept DEF Quiet
<1>5. \A u \in Threads \ {t} : Secured(u)'
  BY <1>3, OthersSecured DEF Quiet
<1>6. Migrating'
  BY <1>3, <1>5, MigratingKept DEF Quiet
<1> QED
  BY <1>1, <1>2, <1>4, <1>6

LEMMA WriteStep ==
    ASSUME IInv, Write
    PROVE  IInv'
<1> USE DEF IInv
<1>1. "request" \in Events
  BY DEF Events
<1>2. live' \in DatabaseType /\ live'.schema = live.schema /\ live.schema = "current"
      /\ (Verifies(live.log) => Verifies(live'.log))
  BY <1>1, RecordedProperties DEF Write
<1>3. UNCHANGED <<disk, stamp, tmp, alive, pc, job, met, crossed, faults>>
  BY DEF Write, threadVars
<1>4. TypeOK'
  BY <1>2, <1>3 DEF TypeOK
<1>5. Trails'
  BY <1>2, <1>3 DEF Trails, Sound
<1>6. Restoring'
  BY <1>3 DEF Restoring, RestoreHandled, RestoreSteps, SourceKept, Source, CopyKept, CopyOfOne, Window
<1>7. Migrating'
  BY <1>2, <1>3 DEF Migrating, Secured
<1> QED
  BY <1>4, <1>5, <1>6, <1>7

LEMMA StartBackupStep ==
    ASSUME IInv, NEW t \in Handlers, NEW a \in BOOLEAN, StartBackup(t, a)
    PROVE  IInv'
<1>1. /\ Quiet /\ UNCHANGED <<faults, met>> /\ alive /\ pc[Main] = "idle" /\ pc[t] = "idle"
      /\ pc' = [pc EXCEPT ![t] = "save"] /\ job' = [job EXCEPT ![t].auto = a]
  BY DEF StartBackup, Serving, Goto, Quiet, databaseVars
<1>2. t \in Threads /\ t # Main /\ TypeOK
  BY ConstantsAssumption DEF Threads, IInv
<1>3. /\ Apart(t) /\ pc'[t] = "save" /\ ~job'[t].restoring
      /\ pc' \in [Threads -> Steps] /\ job' \in [Threads -> JobType]
  <2>1. ~job[t].restoring
    BY <1>1, <1>2 DEF IInv, Restoring, RestoreHandled
  <2> QED
    BY <1>1, <1>2, <2>1 DEF Apart, TypeOK, JobType, Steps
<1>4. RestoresOn(t) /\ Secured(t)'
  BY <1>3 DEF RestoresOn, Secured
<1> QED
  BY <1>1, <1>2, <1>3, <1>4, QuietStep DEF TypeOK, Initialising

LEMMA StartRestoreStep ==
    ASSUME IInv, NEW t \in Handlers, NEW id \in DOMAIN live.rows, StartRestore(t, id)
    PROVE  IInv'
<1> DEFINE f == live.rows[id].file
           j == [job[t] EXCEPT !.restoring = TRUE, !.source = f]
<1>1. /\ Quiet /\ UNCHANGED <<faults, met>> /\ alive /\ pc[Main] = "idle" /\ pc[t] = "idle"
      /\ pc' = [pc EXCEPT ![t] = "validate"]
      /\ job' = [job EXCEPT ![t].restoring = TRUE, ![t].source = f]
  BY DEF StartRestore, Serving, Goto, Quiet, databaseVars
<1>2. t \in Threads /\ t # Main /\ TypeOK
  BY ConstantsAssumption DEF Threads, IInv
<1>3. f \in Files
  <2>1. live.rows \in Seq(RowType)
    BY <1>2 DEF TypeOK, DatabaseType
  <2>2. live.rows[id] \in RowType
    BY <2>1
  <2> QED
    BY <2>2 DEF RowType
<1>4. j \in JobType /\ j.restoring /\ j.source = f
  <2>1. job[t] \in JobType
    BY <1>2 DEF TypeOK
  <2> HIDE DEF f
  <2> QED
    BY <1>3, <2>1 DEF JobType
<1>5. job' = [job EXCEPT ![t] = j]
  BY <1>1, <1>2 DEF TypeOK
<1> HIDE DEF f, j
<1>6. /\ Apart(t) /\ pc'[t] = "validate" /\ job'[t] = j
      /\ pc' \in [Threads -> Steps] /\ job' \in [Threads -> JobType]
  BY <1>1, <1>2, <1>4, <1>5 DEF Apart, TypeOK, Steps
<1>7. RestoresOn(t) /\ Secured(t)'
  BY <1>4, <1>6 DEF RestoresOn, Secured, Choosing
<1> QED
  BY <1>1, <1>2, <1>3, <1>4, <1>6, <1>7, QuietStep DEF TypeOK, Initialising

LEMMA ValidateStep ==
    ASSUME IInv, NEW t \in Handlers, Validate(t)
    PROVE  IInv'
<1>1. /\ Quiet /\ UNCHANGED <<faults, met>> /\ alive
      /\ pc' = [pc EXCEPT ![t] = "save"]
      /\ job' = [job EXCEPT ![t].picked = disk[job[t].source], ![t].auto = TRUE]
      /\ pc[t] = "validate" /\ disk[job[t].source] # None
  BY DEF Validate, Goto, Quiet, databaseVars
<1>2. t \in Threads /\ t # Main /\ TypeOK /\ job[t].restoring /\ pc[Main] = "idle"
  BY <1>1, ConstantsAssumption DEF Threads, IInv, Restoring, RestoreSteps, Migrating
<1>3. job[t].source \in Files /\ job[t].source <= stamp /\ disk[job[t].source] \in DatabaseType
  BY <1>1, <1>2 DEF TypeOK
<1>4. /\ Apart(t) /\ pc'[t] = "save" /\ job'[t].restoring /\ job'[t].source = job[t].source
      /\ job'[t].picked = disk[job[t].source]
      /\ pc' \in [Threads -> Steps] /\ job' \in [Threads -> JobType]
  BY <1>1, <1>2, <1>3 DEF Apart, TypeOK, JobType, Steps
<1>5. RestoresOn(t) /\ Secured(t)'
  BY <1>1, <1>3, <1>4 DEF RestoresOn, Secured, Source, Quiet
<1> QED
  BY <1>1, <1>2, <1>3, <1>4, <1>5, QuietStep DEF TypeOK, Initialising

(* A thread outside the window leaves, and only what it held is lost.      *)
LEMMA LeaveStep ==
    ASSUME IInv, NEW t \in Threads, Leave(t), UNCHANGED <<live, disk, stamp, tmp, alive>>,
           alive, pc[t] \notin {"idle", "check", "replace"}, faults' \in 0 .. MaxFaults
    PROVE  IInv'
<1>1. /\ Quiet /\ met' = met \ {t}
      /\ pc' = [pc EXCEPT ![t] = "idle"] /\ job' = [job EXCEPT ![t] = NoJob]
  BY DEF Leave, Goto, Quiet
<1>2. /\ Apart(t) /\ pc'[t] = "idle" /\ ~job'[t].restoring /\ TypeOK
      /\ pc' \in [Threads -> Steps] /\ job' \in [Threads -> JobType]
  BY <1>1, NoJobType DEF IInv, Apart, TypeOK, NoJob, Steps
<1>3. RestoresOn(t) /\ Secured(t)'
  BY <1>2 DEF RestoresOn, Secured
<1>4. (t = Main => pc[Main] # "idle") /\ (t # Main => pc[Main] = "idle")
  BY DEF IInv, Migrating, Threads
<1> QED
  BY <1>1, <1>2, <1>3, <1>4, QuietStep DEF TypeOK, Initialising

(* A copy of the database into the next file.                              *)
LEMMA WriteFileStep ==
    ASSUME IInv, NEW t \in Threads, WriteFile(t), UNCHANGED <<live, tmp, alive, met, crossed, faults>>, alive,
           \/ pc[t] = "save" /\ Goto(t, "insert")
           \/ pc[t] = "secure" /\ job[t].version # "current" /\ Goto(t, "upgrade")
    PROVE  IInv'
<1> USE DEF IInv
<1>1. /\ stamp' = stamp + 1 /\ stamp + 1 \in Files /\ stamp \in Nat /\ stamp' \in 0 .. MaxFiles
      /\ disk' = [disk EXCEPT ![stamp + 1] = live]
      /\ job' = [job EXCEPT ![t].new = stamp + 1]
  BY ConstantsAssumption DEF WriteFile, TypeOK, Files
<1>2. /\ \A f \in Files : f # stamp + 1 => disk'[f] = disk[f]
      /\ disk'[stamp + 1] = live
  BY <1>1 DEF TypeOK
<1>3. /\ Apart(t)
      /\ job'[t].restoring = job[t].restoring /\ job'[t].source = job[t].source
      /\ job'[t].picked = job[t].picked /\ job'[t].new = stamp + 1 /\ job'[t].version = job[t].version
      /\ pc'[t] \in {"insert", "upgrade"}
      /\ pc'[t] = "insert" => pc[t] = "save"
      /\ pc'[t] = "upgrade" => pc[t] = "secure"
      /\ pc[t] \in {"save", "secure"}
  BY <1>1 DEF TypeOK, JobType, Goto, Apart
<1>4. TypeOK'
  <2>1. job' \in [Threads -> JobType] /\ disk' \in [Files -> DatabaseType \cup {None}]
    BY <1>1 DEF TypeOK, JobType
  <2>2. pc' \in [Threads -> Steps]
    BY DEF TypeOK, Goto, Steps
  <2>3. \A f \in Files : disk'[f] # None => f <= stamp'
    BY <1>1, <1>2 DEF TypeOK, Files
  <2>4. \A u \in Threads : job'[u].restoring /\ pc'[u] \in {"validate", "save", "insert", "retain", "copy"} =>
           job'[u].source \in Files
    BY <1>3 DEF TypeOK, Apart
  <2> QED
    BY <1>1, <2>1, <2>2, <2>3, <2>4 DEF TypeOK
<1>5. Trails'
  BY <1>2 DEF Trails, Sound
<1>6. Older
  <2> SUFFICES ASSUME NEW f \in Files, f <= stamp
               PROVE  disk'[f] = disk[f]
    BY <1>1 DEF Older
  <2> QED
    BY <1>1, <1>2 DEF Files
<1>7. (t = Main => pc[Main] # "idle") /\ (t # Main => pc[Main] = "idle") /\ (t = Main => pc[t] = "secure")
  BY <1>3 DEF Migrating, Threads, Initialising
<1>8. Restoring'
  <2>1. ASSUME job[t].restoring, pc'[t] \in Choosing
        PROVE  Source(t)'
    <3>1. pc[t] = "save" /\ Source(t) /\ job[t].source \in Files
      BY <2>1, <1>3 DEF Restoring, SourceKept, TypeOK, Choosing
    <3>2. job[t].source <= stamp /\ job[t].source # stamp + 1 /\ job[t].source <= stamp'
      BY <3>1, <1>1 DEF Source, Files
    <3> QED
      BY <3>1, <3>2, <1>2, <1>3 DEF Source
  <2>2. RestoresOn(t)
    BY <2>1, <1>3 DEF RestoresOn, Restoring, RestoreHandled
  <2> QED
    BY <2>2, <1>3, <1>6, RestoringKept
<1>9. Migrating'
  <2>1. \A u \in Threads \ {t} : Secured(u)'
    <3>1. stamp <= stamp' /\ stamp' \in Nat /\ \A f \in Files : f <= stamp => disk'[f] = disk[f]
      BY <1>1, <1>2 DEF Files
    <3> QED
      BY <3>1, <1>3, OthersSecured
  <2>2. Secured(t)'
    <3>1. pc'[t] = "upgrade" /\ t \notin met /\ live.schema = "old" => job[t].version = "old"
      BY <1>3 DEF Migrating, Secured
    <3> QED
      BY <3>1, <1>1, <1>2, <1>3 DEF Secured
  <2>3. stamp <= stamp' /\ stamp' \in Nat /\ stamp + 1 \in 1 .. stamp'
    BY <1>1
  <2>4. t # Main /\ pc'[t] = "upgrade" => job'[t].restoring
    BY <1>3 DEF Migrating, Threads, Initialising
  <2>5. pc'[t] # "version" /\ pc'[t] # "secure"
    BY <1>3
  <2> QED
    BY <1>3, <1>7, <2>1, <2>2, <2>3, <2>4, <2>5, MigratingKept DEF Initialising
<1> QED
  BY <1>4, <1>5, <1>8, <1>9

LEMMA InsertStep ==
    ASSUME IInv, NEW t \in Handlers, Insert(t)
    PROVE  IInv'
<1> USE DEF IInv
<1>1. /\ pc[t] = "insert" /\ pc' = [pc EXCEPT ![t] = "retain"] /\ live.schema = "current"
      /\ live' = [live EXCEPT !.rows = Append(@, Row(job[t].new, job[t].auto))]
      /\ UNCHANGED <<disk, stamp, tmp, alive, job, met, crossed, faults>> /\ alive
  BY DEF Insert, Goto
<1>2. t \in Threads /\ t # Main /\ Main \in Threads
  BY ConstantsAssumption DEF Threads
<1>3. live' \in DatabaseType /\ live'.schema = live.schema /\ live'.log = live.log
  <2>1. job[t].new \in Files /\ job[t].auto \in BOOLEAN
    <3>1. job[t].new \in 1 .. stamp /\ stamp \in 0 .. MaxFiles /\ job[t] \in JobType
      BY <1>1, <1>2 DEF TypeOK, Migrating
    <3> QED
      BY <3>1, ConstantsAssumption DEF JobType, Files
  <2>2. live \in DatabaseType /\ live.rows \in Seq(RowType)
    BY DEF TypeOK, DatabaseType
  <2>3. Append(live.rows, Row(job[t].new, job[t].auto)) \in Seq(RowType)
    BY <2>1, <2>2, ListedType
  <2> QED
    BY <1>1, <2>2, <2>3, RelistedProperties
<1>4. Apart(t) /\ pc'[t] = "retain" /\ pc' \in [Threads -> Steps] /\ Older /\ stamp \in Nat
  BY <1>1, <1>2, ConstantsAssumption DEF TypeOK, Apart, Steps, Older
<1>5. TypeOK'
  BY <1>1, <1>2, <1>3, <1>4 DEF TypeOK, Apart
<1>6. Trails'
  BY <1>1, <1>3 DEF Trails, Sound
<1>7. Restoring'
  <2>1. RestoresOn(t)
    BY <1>1, <1>2, <1>4 DEF RestoresOn, Restoring, RestoreHandled, SourceKept, Source, Choosing
  <2> QED
    BY <2>1, <1>1, <1>2, <1>4, RestoringKept
<1>8. Migrating'
  <2>1. \A u \in Threads \ {t} : Secured(u)'
    BY <1>1, <1>2, <1>3, <1>4, OthersSecured
  <2>2. Secured(t)' /\ pc[Main] = "idle"
    BY <1>1, <1>4 DEF Secured, Migrating
  <2> QED
    BY <1>1, <1>2, <1>4, <2>1, <2>2, MigratingKept DEF Initialising
<1> QED
  BY <1>5, <1>6, <1>7, <1>8

LEMMA RetainStep ==
    ASSUME IInv, NEW t \in Handlers, Retain(t)
    PROVE  IInv'
<1> USE DEF IInv
<1>1. PICK S \in SUBSET Excess :
        /\ faults' = IF S = Excess THEN faults ELSE faults + 1
        /\ S # Excess => faults < MaxFaults
        /\ disk' = Without(S)
        /\ live' = [live EXCEPT !.rows = Expiring(S)]
  BY DEF Retain
<1>2. /\ pc[t] = "retain" /\ live.schema = "current" /\ alive
      /\ UNCHANGED <<stamp, tmp, alive, met, crossed>>
      /\ pc' = [pc EXCEPT ![t] = IF job[t].restoring THEN "copy" ELSE "record"]
      /\ job' = [job EXCEPT ![t].new = None, ![t].auto = FALSE]
  BY DEF Retain, AfterRetention, Goto
<1>3. t \in Threads /\ t # Main /\ Main \in Threads /\ stamp \in Nat
  BY ConstantsAssumption DEF Threads, TypeOK
<1>4. /\ Apart(t) /\ pc'[t] = IF job[t].restoring THEN "copy" ELSE "record"
      /\ job'[t].restoring = job[t].restoring /\ job'[t].source = job[t].source
      /\ job'[t].picked = job[t].picked
      /\ pc' \in [Threads -> Steps] /\ job' \in [Threads -> JobType]
  <2> DEFINE j == [job[t] EXCEPT !.new = None, !.auto = FALSE]
  <2>1. job[t] \in JobType /\ job \in [Threads -> JobType] /\ pc \in [Threads -> Steps]
    BY <1>3 DEF TypeOK
  <2>2. /\ j \in JobType /\ j.restoring = job[t].restoring /\ j.source = job[t].source
        /\ j.picked = job[t].picked
    BY <2>1 DEF JobType
  <2>3. job' = [job EXCEPT ![t] = j]
    BY <1>2, <1>3, <2>1
  <2> HIDE DEF j
  <2> QED
    BY <1>2, <1>3, <2>1, <2>2, <2>3 DEF Apart, Steps
<1>5. live' \in DatabaseType /\ live'.schema = live.schema /\ live'.log = live.log
  <2>1. live \in DatabaseType /\ Expiring(S) \in Seq(RowType)
    BY ExpiringType DEF TypeOK
  <2> QED
    BY <1>1, <2>1, RelistedProperties
<1>6. disk' \in [Files -> DatabaseType \cup {None}] /\ \A f \in Files : disk'[f] \in {None, disk[f]}
  BY <1>1 DEF Without, TypeOK
<1>7. TypeOK'
  <2>1. faults' \in 0 .. MaxFaults
    BY <1>1, ConstantsAssumption DEF TypeOK
  <2>2. \A u \in Threads : job'[u].restoring /\ pc'[u] \in {"validate", "save", "insert", "retain", "copy"} =>
           job'[u].source \in Files
    BY <1>2, <1>3, <1>4 DEF TypeOK, Apart
  <2> QED
    BY <1>2, <1>4, <1>5, <1>6, <2>1, <2>2 DEF TypeOK
<1>8. Trails'
  BY <1>2, <1>5, <1>6 DEF Trails, Sound
<1>9. Older
  BY <1>2, <1>3, <1>6 DEF Older
<1>10. Restoring'
  <2>1. job[t].restoring => Source(t) /\ job[t].source \in Files
    BY <1>2, <1>3 DEF Restoring, SourceKept, Choosing, TypeOK
  <2>2. RestoresOn(t)
    BY <1>2, <1>4, <1>6, <2>1 DEF RestoresOn, Source, Restoring, RestoreHandled
  <2> QED
    BY <1>2, <1>3, <1>4, <1>9, <2>2, RestoringKept
<1>11. Migrating'
  <2>1. \A u \in Threads \ {t} : Secured(u)'
    BY <1>2, <1>3, <1>4, <1>5, OthersSecured
  <2>2. Secured(t)' /\ pc[Main] = "idle"
    BY <1>2, <1>4 DEF Secured, Migrating
  <2> QED
    BY <1>2, <1>3, <1>4, <2>1, <2>2, MigratingKept DEF Initialising
<1> QED
  BY <1>7, <1>8, <1>10, <1>11

(* Its transaction fails after files were deleted.                         *)
LEMMA DeletionsStayStep ==
    ASSUME IInv, NEW t \in Handlers, DeletionsStay(t), Leave(t), alive,
           UNCHANGED <<live, stamp, tmp, alive>>, faults' \in 0 .. MaxFaults
    PROVE  IInv'
<1> USE DEF IInv
<1>1. PICK S \in SUBSET Excess : disk' = Without(S)
  BY DEF DeletionsStay
<1>2. /\ pc[t] = "retain" /\ live.schema = "current" /\ met' = met \ {t} /\ UNCHANGED crossed
      /\ pc' = [pc EXCEPT ![t] = "idle"] /\ job' = [job EXCEPT ![t] = NoJob]
  BY DEF DeletionsStay, Leave, Goto
<1>3. t \in Threads /\ t # Main /\ Main \in Threads /\ stamp \in Nat
  BY ConstantsAssumption DEF Threads, TypeOK
<1>4. /\ Apart(t) /\ pc'[t] = "idle" /\ ~job'[t].restoring
      /\ pc' \in [Threads -> Steps] /\ job' \in [Threads -> JobType]
  BY <1>2, <1>3, NoJobType DEF Apart, TypeOK, NoJob, Steps
<1>6. disk' \in [Files -> DatabaseType \cup {None}] /\ \A f \in Files : disk'[f] \in {None, disk[f]}
  BY <1>1 DEF Without, TypeOK
<1>7. TypeOK'
  <2>2. \A u \in Threads : job'[u].restoring /\ pc'[u] \in {"validate", "save", "insert", "retain", "copy"} =>
           job'[u].source \in Files
    BY <1>2, <1>3, <1>4 DEF TypeOK, Apart
  <2> QED
    BY <1>2, <1>4, <1>6, <2>2 DEF TypeOK
<1>8. Trails'
  BY <1>2, <1>6 DEF Trails, Sound
<1>9. Older
  BY <1>2, <1>3, <1>6 DEF Older
<1>10. Restoring'
  <2>2. RestoresOn(t)
    BY <1>2, <1>4 DEF RestoresOn
  <2> QED
    BY <1>2, <1>3, <1>4, <1>9, <2>2, RestoringKept
<1>11. Migrating'
  <2>1. \A u \in Threads \ {t} : Secured(u)'
    BY <1>2, <1>3, <1>4, OthersSecured
  <2>2. Secured(t)'
    BY <1>4 DEF Secured
  <2>3. pc[Main] = "idle"
    BY <1>2 DEF Migrating
  <2> QED
    BY <1>2, <1>3, <1>4, <2>1, <2>2, <2>3, MigratingKept DEF Initialising
<1> QED
  BY <1>7, <1>8, <1>10, <1>11

LEMMA RecordEventStep ==
    ASSUME IInv, NEW t \in Handlers, RecordEvent(t)
    PROVE  IInv'
<1> USE DEF IInv
<1>1. "request" \in Events
  BY DEF Events
<1>2. /\ live.schema = "current" /\ alive /\ pc[t] = "record" /\ live' = Recorded("request")
      /\ pc' = [pc EXCEPT ![t] = "idle"] /\ job' = [job EXCEPT ![t] = NoJob] /\ met' = met \ {t}
      /\ UNCHANGED <<disk, stamp, tmp, alive, crossed, faults>>
  BY DEF RecordEvent, Leave, Goto
<1>3. t \in Threads /\ t # Main /\ Main \in Threads /\ stamp \in Nat
  BY ConstantsAssumption DEF Threads, TypeOK
<1>4. live' \in DatabaseType /\ live'.schema = live.schema /\ (Verifies(live.log) => Verifies(live'.log))
  BY <1>1, <1>2, RecordedProperties
<1>5. /\ Apart(t) /\ pc'[t] = "idle" /\ ~job'[t].restoring /\ Older
      /\ pc' \in [Threads -> Steps] /\ job' \in [Threads -> JobType]
  BY <1>2, <1>3, NoJobType DEF TypeOK, NoJob, Apart, Steps, Older
<1>6. TypeOK'
  BY <1>2, <1>3, <1>4, <1>5 DEF TypeOK, Apart
<1>7. Trails'
  BY <1>2, <1>4 DEF Trails, Sound
<1>8. Restoring'
  <2>1. RestoresOn(t)
    BY <1>5 DEF RestoresOn
  <2> QED
    BY <2>1, <1>2, <1>3, <1>5, RestoringKept
<1>9. Migrating'
  <2>1. \A u \in Threads \ {t} : Secured(u)'
    BY <1>2, <1>3, <1>4, <1>5, OthersSecured
  <2>2. Secured(t)' /\ pc[Main] = "idle"
    BY <1>2, <1>5 DEF Secured, Migrating
  <2> QED
    BY <1>2, <1>3, <1>5, <2>1, <2>2, MigratingKept DEF Initialising
<1> QED
  BY <1>6, <1>7, <1>8, <1>9


(* The source is the file that was validated, or is gone.                  *)
LEMMA CopyStep ==
    ASSUME IInv, NEW t \in Handlers, Copy(t)
    PROVE  IInv'
<1> USE DEF IInv
<1> DEFINE j == [job[t] EXCEPT !.source = None]
<1>1. /\ pc[t] = "copy" /\ disk[job[t].source] # None /\ alive
      /\ tmp' = disk[job[t].source]
      /\ met' = IF Window = {} THEN met ELSE met \cup Window \cup {t}
      /\ pc' = [pc EXCEPT ![t] = "check"] /\ job' = [job EXCEPT ![t].source = None]
      /\ UNCHANGED <<live, disk, stamp, alive, crossed, faults>>
  BY DEF Copy, Goto
<1>2. t \in Threads /\ t # Main /\ Main \in Threads /\ stamp \in Nat
  BY ConstantsAssumption DEF Threads, TypeOK
<1>3. job[t].restoring /\ job[t].source \in Files /\ Source(t)
  BY <1>1, <1>2 DEF Restoring, RestoreSteps, SourceKept, Choosing, TypeOK
<1>4. tmp' = job[t].picked /\ tmp' \in DatabaseType /\ tmp' # None
  <2>1. disk[job[t].source] \in DatabaseType \cup {None} /\ disk[job[t].source] = job[t].picked
    BY <1>1, <1>3 DEF TypeOK, Source
  <2> QED
    BY <1>1, <2>1
<1>5. /\ Apart(t) /\ pc'[t] = "check" /\ job'[t] = j
      /\ j \in JobType /\ j.restoring /\ j.picked = job[t].picked
      /\ pc' \in [Threads -> Steps] /\ job' \in [Threads -> JobType]
  <2>1. job[t] \in JobType /\ job \in [Threads -> JobType] /\ pc \in [Threads -> Steps]
    BY <1>2 DEF TypeOK
  <2>2. j \in JobType /\ j.restoring /\ j.picked = job[t].picked
    BY <1>3, <2>1 DEF JobType
  <2>3. job' = [job EXCEPT ![t] = j]
    BY <1>1, <1>2, <2>1
  <2> HIDE DEF j
  <2> QED
    BY <1>1, <1>2, <2>1, <2>2, <2>3 DEF Apart, Steps
<1> HIDE DEF j
<1>6. Window \subseteq Handlers /\ Window' = Window \cup {t} /\ t \notin Window
  BY <1>1, <1>2, <1>5 DEF Window, Apart, Threads
<1>7. TypeOK'
  BY <1>1, <1>2, <1>4, <1>5, <1>6 DEF TypeOK, Apart
<1>8. Trails'
  BY <1>1, <1>3 DEF Trails, Sound
<1>9. Restoring'
  <2>1. RestoreHandled' /\ RestoreSteps' /\ SourceKept'
    <3>1. Older /\ RestoresOn(t)
      BY <1>1, <1>2, <1>5 DEF Older, RestoresOn, Choosing
    <3> QED
      BY <1>2, <1>5, <3>1, OthersRestore
  <2>2. CopyKept'
    <3>1. CASE Window = {}
      BY <3>1, <1>4, <1>5, <1>6 DEF CopyKept
    <3>2. CASE Window # {}
      BY <3>2, <1>1, <1>6 DEF CopyKept
    <3> QED
      BY <3>1, <3>2
  <2>3. CopyOfOne'
    BY <1>4, <1>5, <1>6 DEF CopyOfOne
  <2> QED
    BY <2>1, <2>2, <2>3 DEF Restoring
<1>10. Migrating'
  <2>1. met \ {t} \subseteq met'
    BY <1>1
  <2>2. \A u \in Threads \ {t} : Secured(u)'
    BY <1>1, <1>2, <1>5, <2>1, OthersSecured
  <2>3. Secured(t)' /\ pc[Main] = "idle"
    BY <1>1, <1>5 DEF Secured, Migrating
  <2> QED
    BY <1>1, <1>2, <1>5, <2>2, <2>3, MigratingKept DEF Initialising
<1> QED
  BY <1>7, <1>8, <1>9, <1>10

LEMMA CheckStep ==
    ASSUME IInv, NEW t \in Handlers, Check(t)
    PROVE  IInv'
<1> USE DEF IInv
<1>1. /\ pc[t] = "check" /\ alive
      /\ tmp' = IF tmp = None THEN Blank ELSE tmp
      /\ pc' = [pc EXCEPT ![t] = "replace"]
      /\ UNCHANGED <<live, disk, stamp, alive, job, met, crossed, faults>>
  BY DEF Check, Goto
<1>2. t \in Threads /\ t # Main /\ Main \in Threads /\ stamp \in Nat
  BY ConstantsAssumption DEF Threads, TypeOK
<1>3. Blank \in DatabaseType /\ Blank.schema = "none" /\ Blank.log = <<>>
  BY DEF Blank, Database, DatabaseType
<1>4. /\ Apart(t) /\ pc'[t] = "replace" /\ job'[t].restoring
      /\ pc' \in [Threads -> Steps]
  BY <1>1, <1>2 DEF Apart, TypeOK, Steps, Restoring, RestoreSteps
<1>5. Window' = Window
  BY <1>1, <1>4 DEF Window, Apart, Threads
<1>6. TypeOK'
  BY <1>1, <1>2, <1>3, <1>4 DEF TypeOK, Apart
<1>7. Trails'
  BY <1>1, <1>3 DEF Trails, Sound, Verifies
<1>8. Restoring'
  <2>1. RestoreHandled' /\ RestoreSteps' /\ SourceKept'
    <3>1. Older /\ RestoresOn(t)
      BY <1>1, <1>2, <1>4 DEF Older, RestoresOn, Choosing
    <3> QED
      BY <1>2, <1>4, <3>1, OthersRestore
  <2>2. CopyKept'
    BY <1>1, <1>5 DEF Restoring, CopyKept
  <2>3. CopyOfOne'
    BY <1>1, <1>5 DEF Restoring, CopyOfOne
  <2> QED
    BY <2>1, <2>2, <2>3 DEF Restoring
<1>9. Migrating'
  <2>1. \A u \in Threads \ {t} : Secured(u)'
    BY <1>1, <1>2, <1>4, OthersSecured
  <2>2. Secured(t)' /\ pc[Main] = "idle"
    BY <1>1, <1>4 DEF Secured, Migrating
  <2> QED
    BY <1>1, <1>2, <1>4, <2>1, <2>2, MigratingKept DEF Initialising
<1> QED
  BY <1>6, <1>7, <1>8, <1>9

(* Another restore has taken the file: this one has met it.                *)
LEMMA ReplaceFailsStep ==
    ASSUME IInv, NEW t \in Handlers, ReplaceFails(t)
    PROVE  IInv'
<1> USE DEF IInv
<1>1. /\ pc[t] = "replace" /\ tmp = None /\ alive
      /\ pc' = [pc EXCEPT ![t] = "idle"] /\ job' = [job EXCEPT ![t] = NoJob] /\ met' = met \ {t}
      /\ UNCHANGED <<live, disk, stamp, tmp, alive, crossed, faults>>
  BY DEF ReplaceFails, Leave, Goto, databaseVars
<1>2. t \in Threads /\ t # Main /\ Main \in Threads /\ stamp \in Nat
  BY ConstantsAssumption DEF Threads, TypeOK
<1>3. /\ Apart(t) /\ pc'[t] = "idle" /\ ~job'[t].restoring
      /\ pc' \in [Threads -> Steps] /\ job' \in [Threads -> JobType]
  BY <1>1, <1>2, NoJobType DEF TypeOK, NoJob, Apart, Steps
<1>4. Window' = Window \ {t}
  BY <1>1, <1>3 DEF Window, Apart, Threads
<1>5. TypeOK'
  BY <1>1, <1>2, <1>3 DEF TypeOK, Apart
<1>6. Trails'
  BY <1>1 DEF Trails, Sound
<1>7. Restoring'
  <2>1. RestoreHandled' /\ RestoreSteps' /\ SourceKept'
    <3>1. Older /\ RestoresOn(t)
      BY <1>1, <1>2, <1>3 DEF Older, RestoresOn, Choosing
    <3> QED
      BY <1>2, <1>3, <3>1, OthersRestore
  <2>2. CopyKept'
    BY <1>1, <1>4 DEF Restoring, CopyKept
  <2>3. CopyOfOne'
    BY <1>1 DEF CopyOfOne
  <2> QED
    BY <2>1, <2>2, <2>3 DEF Restoring
<1>8. Migrating'
  <2>1. \A u \in Threads \ {t} : Secured(u)'
    BY <1>1, <1>2, <1>3, OthersSecured
  <2>2. Secured(t)' /\ pc[Main] = "idle"
    BY <1>1, <1>3 DEF Secured, Migrating
  <2> QED
    BY <1>1, <1>2, <1>3, <2>1, <2>2, MigratingKept DEF Initialising
<1> QED
  BY <1>5, <1>6, <1>7, <1>8

LEMMA ReplaceStep ==
    ASSUME IInv, NEW t \in Handlers, Replace(t)
    PROVE  /\ IInv'
           /\ \/ live' = job[t].picked
              \/ t \in met /\ (live' = Blank \/ \E u \in Window : live' = job[u].picked)
<1> USE DEF IInv
<1> DEFINE j == [job[t] EXCEPT !.picked = None]
<1>1. /\ pc[t] = "replace" /\ tmp # None /\ live' = tmp /\ tmp' = None /\ alive
      /\ met' = (met \ {t}) \cup {u \in Handlers : pc[u] \in {"secure", "upgrade"}}
      /\ pc' = [pc EXCEPT ![t] = "version"] /\ job' = [job EXCEPT ![t].picked = None]
      /\ UNCHANGED <<disk, stamp, alive, crossed, faults>>
  BY DEF Replace, Goto
<1>2. t \in Threads /\ t # Main /\ Main \in Threads /\ stamp \in Nat /\ t \in Window
  BY <1>1, ConstantsAssumption DEF Threads, TypeOK, Window
<1>3. /\ Apart(t) /\ pc'[t] = "version" /\ job'[t] = j /\ j.restoring
      /\ pc' \in [Threads -> Steps] /\ job' \in [Threads -> JobType]
  <2>1. job[t] \in JobType /\ job \in [Threads -> JobType] /\ pc \in [Threads -> Steps]
    BY <1>2 DEF TypeOK
  <2>2. job[t].restoring
    BY <1>1, <1>2 DEF Restoring, RestoreSteps
  <2>3. j \in JobType /\ j.restoring
    BY <2>1, <2>2 DEF JobType
  <2>4. job' = [job EXCEPT ![t] = j]
    BY <1>1, <1>2, <2>1
  <2> HIDE DEF j
  <2> QED
    BY <1>1, <1>2, <2>1, <2>3, <2>4 DEF Apart, Steps
<1> HIDE DEF j
<1>4. Window' = Window \ {t}
  BY <1>1, <1>3 DEF Window, Apart, Threads
<1>5. TypeOK'
  BY <1>1, <1>2, <1>3 DEF TypeOK, Apart
<1>6. Trails'
  BY <1>1 DEF Trails, Sound
<1>7. Restoring'
  <2>1. RestoreHandled' /\ RestoreSteps' /\ SourceKept'
    <3>1. Older /\ RestoresOn(t)
      BY <1>1, <1>2, <1>3 DEF Older, RestoresOn, Choosing
    <3> QED
      BY <1>2, <1>3, <3>1, OthersRestore
  <2>2. CopyKept'
    BY <1>1, <1>2, <1>4 DEF Restoring, CopyKept
  <2>3. CopyOfOne'
    BY <1>1 DEF CopyOfOne
  <2> QED
    BY <2>1, <2>2, <2>3 DEF Restoring
<1>8. Migrating'
  <2>1. pc[Main] = "idle"
    BY <1>1 DEF Migrating
  <2>2. \A u \in Threads : Secured(u)'
    <3> SUFFICES ASSUME NEW u \in Threads, pc'[u] \in {"secure", "upgrade"}, u \notin met'
                 PROVE  FALSE
      BY DEF Secured
    <3>1. u # t /\ pc[u] \in {"secure", "upgrade"}
      BY <1>3 DEF Apart
    <3>2. u \in Handlers
      BY <2>1, <3>1 DEF Threads
    <3> QED
      BY <1>1, <3>1, <3>2
  <2>3. Secured(t)' /\ (\A u \in Threads \ {t} : Secured(u)') /\ stamp <= stamp' /\ stamp' \in Nat /\ alive'
    BY <1>1, <1>2, <2>2
  <2>4. job'[t].restoring /\ pc'[t] # "insert"
    BY <1>3
  <2> QED
    BY <1>2, <1>3, <2>1, <2>3, <2>4, MigratingKept
<1>9. \/ live' = job[t].picked
      \/ t \in met /\ (live' = Blank \/ \E u \in Window : live' = job[u].picked)
  BY <1>1, <1>2 DEF Restoring, CopyKept, CopyOfOne
<1> QED
  BY <1>5, <1>6, <1>7, <1>8, <1>9

(* Who initialises is startup alone, or a handler that restores.           *)
LEMMA Initialiser ==
    ASSUME IInv, NEW t \in Threads, pc[t] \in Initialising
    PROVE  /\ t = Main => pc[Main] # "idle" /\ ~job[t].restoring
           /\ t # Main => pc[Main] = "idle" /\ t \in Handlers /\ job[t].restoring
BY ConstantsAssumption DEF IInv, Migrating, Restoring, RestoreHandled, Threads, Initialising

LEMMA ReadVersionStep ==
    ASSUME IInv, NEW t \in Threads, ReadVersion(t)
    PROVE  IInv'
<1> DEFINE j == [job[t] EXCEPT !.version = live.schema]
<1>1. /\ Quiet /\ UNCHANGED <<faults, met>> /\ alive /\ pc[t] = "version" /\ pc[t] \in Initialising
      /\ pc' = [pc EXCEPT ![t] = "secure"] /\ job' = [job EXCEPT ![t].version = live.schema]
  BY DEF ReadVersion, Goto, Quiet, databaseVars, Initialising
<1>2. TypeOK /\ live' = live
  BY <1>1 DEF IInv, Quiet
<1>3. /\ Apart(t) /\ pc'[t] = "secure" /\ job'[t] = j /\ j \in JobType
      /\ j.restoring = job[t].restoring /\ j.version = live.schema
      /\ pc' \in [Threads -> Steps] /\ job' \in [Threads -> JobType]
  <2>1. job[t] \in JobType /\ job \in [Threads -> JobType] /\ pc \in [Threads -> Steps]
        /\ live.schema \in {"none", "old", "current"}
    BY <1>2 DEF TypeOK, DatabaseType
  <2>2. j \in JobType /\ j.restoring = job[t].restoring /\ j.version = live.schema
    BY <2>1 DEF JobType
  <2>3. job' = [job EXCEPT ![t] = j]
    BY <1>1, <2>1
  <2> HIDE DEF j
  <2> QED
    BY <1>1, <2>1, <2>2, <2>3 DEF Apart, Steps
<1> HIDE DEF j
<1>4. RestoresOn(t) /\ Secured(t)'
  BY <1>1, <1>2, <1>3, Initialiser DEF RestoresOn, Secured, Choosing
<1> QED
  BY <1>1, <1>2, <1>3, <1>4, Initialiser, QuietStep DEF TypeOK, Initialising, Choosing

LEMMA NoCopyNeededStep ==
    ASSUME IInv, NEW t \in Threads, NoCopyNeeded(t)
    PROVE  IInv'
<1>1. /\ Quiet /\ UNCHANGED <<faults, met, job>> /\ alive /\ pc[t] = "secure" /\ pc[t] \in Initialising
      /\ pc' = [pc EXCEPT ![t] = "upgrade"]
      /\ job[t].version = "current" \/ live = Blank
  BY DEF NoCopyNeeded, Goto, Quiet, databaseVars, Initialising
<1>2. TypeOK /\ live' = live
  BY <1>1 DEF IInv, Quiet
<1>3. /\ Apart(t) /\ pc'[t] = "upgrade" /\ job'[t] = job[t]
      /\ pc' \in [Threads -> Steps] /\ job' \in [Threads -> JobType]
  BY <1>1, <1>2 DEF TypeOK, Apart, Steps
<1>4. Secured(t)'
  <2>1. Blank.schema = "none"
    BY DEF Blank, Database
  <2> QED
    BY <1>1, <1>2, <1>3, <2>1 DEF IInv, Migrating, Secured
<1>5. RestoresOn(t)
  BY <1>1, <1>3, Initialiser DEF RestoresOn, Choosing
<1> QED
  BY <1>1, <1>2, <1>3, <1>4, <1>5, Initialiser, QuietStep DEF TypeOK, Initialising, Choosing

LEMMA UpgradeStep ==
    ASSUME IInv, NEW t \in Threads, Upgrade(t)
    PROVE  IInv'
<1> USE DEF IInv
<1> DEFINE rows == IF job[t].new = None THEN live.rows ELSE Append(live.rows, Row(job[t].new, TRUE))
           j == [job[t] EXCEPT !.version = None, !.new = None]
<1>1. /\ pc[t] = "upgrade" /\ pc[t] \in Initialising /\ alive
      /\ UNCHANGED <<disk, stamp, tmp, alive, faults>>
  BY DEF Upgrade, Initialising
<1>2. live \in DatabaseType /\ live.rows \in Seq(RowType) /\ stamp \in Nat
  BY ConstantsAssumption DEF TypeOK, DatabaseType
<1>3. rows \in Seq(RowType)
  <2>1. job[t].new \in Files \cup {None}
    BY DEF TypeOK, JobType
  <2> QED
    BY <1>2, <2>1, ListedType
<1>4. /\ live' \in DatabaseType /\ live'.schema = "current" /\ live'.log = Expanded(t).log
  <2>1. Expanded(t) \in DatabaseType /\ Expanded(t).schema = "current" /\ Expanded(t).rows = live.rows
    BY <1>2, ExpandedProperties DEF DatabaseType, Expanded
  <2>2. live' = [Expanded(t) EXCEPT !.rows = rows] \/ live' = Expanded(t)
    BY <2>1 DEF Upgrade, DatabaseType
  <2> HIDE DEF rows
  <2> QED
    BY <1>3, <2>1, <2>2, RelistedProperties
<1>5. /\ pc' \in [Threads -> Steps] /\ job' \in [Threads -> JobType] /\ Apart(t)
      /\ pc'[t] = IF job[t].restoring THEN "record" ELSE "idle"
      /\ job'[t].restoring = job[t].restoring
      /\ met' = met \ {t} /\ crossed' \in BOOLEAN
      /\ job[t].restoring => crossed' = (crossed \/ (job[t].version = "current" /\ live.schema = "old"))
      /\ ~job[t].restoring => crossed' = crossed
  <2>1. job[t] \in JobType /\ job \in [Threads -> JobType] /\ pc \in [Threads -> Steps] /\ crossed \in BOOLEAN
    BY DEF TypeOK
  <2>2. j \in JobType /\ j.restoring = job[t].restoring
    BY <2>1 DEF JobType
  <2>3. CASE job[t].restoring
    <3>1. /\ pc' = [pc EXCEPT ![t] = "record"] /\ met' = met \ {t}
          /\ job' = [job EXCEPT ![t].version = None, ![t].new = None]
          /\ crossed' = (crossed \/ (job[t].version = "current" /\ live.schema = "old"))
      BY <2>3 DEF Upgrade, Goto
    <3>2. job' = [job EXCEPT ![t] = j]
      BY <2>1, <3>1
    <3> HIDE DEF j
    <3> QED
      BY <2>1, <2>2, <2>3, <3>1, <3>2 DEF Apart, Steps
  <2>4. CASE ~job[t].restoring
    <3>1. /\ pc' = [pc EXCEPT ![t] = "idle"] /\ met' = met \ {t} /\ crossed' = crossed
          /\ job' = [job EXCEPT ![t] = NoJob]
      BY <2>4 DEF Upgrade, Leave, Goto
    <3>2. NoJob \in JobType /\ NoJob.restoring = FALSE /\ job[t].restoring = FALSE
      BY <2>1, <2>4, NoJobType DEF NoJob, JobType
    <3> QED
      BY <2>1, <2>4, <3>1, <3>2 DEF Apart, Steps
  <2> QED
    BY <2>3, <2>4
<1> HIDE DEF rows, j
<1>6. TypeOK'
  BY <1>1, <1>4, <1>5 DEF TypeOK, Apart
<1>7. Trails'
  <2> SUFFICES ASSUME ~crossed'
               PROVE  Verifies(live'.log)
    BY <1>1, <1>4, <1>5 DEF Trails, Sound
  <2>1. job[t].version = "current" => live.schema # "old"
    <3>1. CASE job[t].restoring
      BY <1>5, <3>1
    <3>2. CASE ~job[t].restoring
      <4>1. t = Main
        BY <1>1, <3>2, Initialiser
      <4>2. t \notin met
        BY <4>1, ConstantsAssumption DEF TypeOK
      <4> QED
        BY <1>1, <4>2 DEF Migrating, Secured
    <3> QED
      BY <3>1, <3>2
  <2>2. ~crossed
    BY <1>5 DEF TypeOK
  <2> QED
    BY <1>4, <2>1, <2>2, ExpandedProperties DEF Trails
<1>8. Older
  BY <1>1, <1>2 DEF Older
<1>9. Restoring'
  <2>1. RestoresOn(t)
    BY <1>1, <1>5, Initialiser DEF RestoresOn, Choosing
  <2> QED
    BY <1>1, <1>5, <1>8, <2>1, RestoringKept
<1>10. Migrating'
  <2>1. \A u \in Threads \ {t} : Secured(u)'
    BY <1>1, <1>2, <1>4, <1>5, OthersSecured
  <2>2. Secured(t)'
    BY <1>5 DEF Secured
  <2> QED
    BY <1>1, <1>2, <1>5, <2>1, <2>2, Initialiser, MigratingKept DEF Initialising
<1> QED
  BY <1>6, <1>7, <1>9, <1>10

LEMMA KillStep ==
    ASSUME IInv, Kill
    PROVE  IInv'
<1> USE DEF IInv
<1>1. /\ alive' = FALSE /\ faults < MaxFaults /\ faults' = faults + 1 /\ met' = {}
      /\ pc' = [t \in Threads |-> "idle"] /\ job' = [t \in Threads |-> NoJob]
      /\ UNCHANGED <<live, stamp, tmp, crossed>>
  BY DEF Kill
<1>2. disk' = disk \/ \E S \in SUBSET Excess : disk' = Without(S)
  BY DEF Kill, DeletionsStay
<1>3. disk' \in [Files -> DatabaseType \cup {None}] /\ \A f \in Files : disk'[f] \in {None, disk[f]}
  BY <1>2 DEF Without, TypeOK
<1>4. faults' \in 0 .. MaxFaults
  BY <1>1, ConstantsAssumption DEF TypeOK
<1>5. \A t \in Threads : pc'[t] = "idle" /\ ~job'[t].restoring
  BY <1>1 DEF NoJob
<1>6. TypeOK'
  BY <1>1, <1>3, <1>4, <1>5, NoJobType DEF TypeOK, Steps
<1>7. Trails'
  BY <1>1, <1>3 DEF Trails, Sound
<1>8. Restoring'
  <2>1. Window' = {}
    BY <1>5 DEF Window, Threads
  <2> QED
    BY <1>5, <2>1 DEF Restoring, RestoreHandled, RestoreSteps, SourceKept, CopyKept, CopyOfOne
<1>9. Migrating'
  BY <1>5, ConstantsAssumption DEF Migrating, Initialising, Secured, Threads
<1> QED
  BY <1>6, <1>7, <1>8, <1>9

LEMMA RestartStep ==
    ASSUME IInv, Restart
    PROVE  IInv'
<1> USE DEF IInv
<1>1. /\ ~alive /\ alive' = TRUE /\ pc' = [pc EXCEPT ![Main] = "version"]
      /\ UNCHANGED <<live, disk, stamp, tmp, job, met, crossed, faults>>
  BY DEF Restart, Goto, databaseVars
<1>2. /\ Main \in Threads /\ Main \notin Handlers
      /\ \A t \in Threads : pc[t] = "idle" /\ ~job[t].restoring
  BY <1>1, ConstantsAssumption DEF Migrating, Restoring, RestoreHandled, Threads
<1>3. pc'[Main] = "version" /\ \A t \in Threads : t # Main => pc'[t] = "idle"
  BY <1>1, <1>2 DEF TypeOK
<1>4. TypeOK'
  <2>1. pc' \in [Threads -> Steps]
    BY <1>1 DEF TypeOK, Steps
  <2> QED
    BY <1>1, <1>2, <1>3, <2>1 DEF TypeOK
<1>5. Trails'
  BY <1>1 DEF Trails, Sound
<1>6. Restoring'
  <2>1. Window' = {}
    BY <1>2, <1>3 DEF Window, Threads
  <2> QED
    BY <1>1, <1>2, <1>3, <2>1 DEF Restoring, RestoreHandled, RestoreSteps, SourceKept, CopyKept, CopyOfOne
<1>7. Migrating'
  BY <1>1, <1>2, <1>3 DEF Migrating, Initialising, Secured, Threads
<1> QED
  BY <1>4, <1>5, <1>6, <1>7

LEMMA HandleStep ==
    ASSUME IInv, NEW t \in Handlers, Handle(t)
    PROVE  IInv'
<1>1. t \in Threads
  BY DEF Threads
<1>2. CASE \E a \in BOOLEAN : StartBackup(t, a)
  BY <1>2, StartBackupStep
<1>3. CASE \E id \in DOMAIN live.rows : StartRestore(t, id)
  BY <1>3, StartRestoreStep
<1>4. CASE Validate(t)
  BY <1>4, ValidateStep
<1>5. CASE NotAvailable(t) \/ SourceGone(t)
  <2>1. /\ Leave(t) /\ UNCHANGED <<live, disk, stamp, tmp, alive>> /\ alive
        /\ pc[t] \notin {"idle", "check", "replace"} /\ faults' \in 0 .. MaxFaults
    BY <1>5 DEF NotAvailable, SourceGone, databaseVars, IInv, TypeOK
  <2> QED
    BY <1>1, <2>1, LeaveStep
<1>6. CASE TransactionFails(t)
  <2>1. /\ Leave(t) /\ UNCHANGED <<live, stamp, tmp, alive>> /\ alive
        /\ pc[t] \notin {"idle", "check", "replace"}
        /\ disk' = disk \/ DeletionsStay(t)
    BY <1>6 DEF TransactionFails
  <2>2. faults' \in 0 .. MaxFaults
    BY <1>6, ConstantsAssumption DEF TransactionFails, IInv, TypeOK
  <2> QED
    BY <1>1, <2>1, <2>2, LeaveStep, DeletionsStayStep
<1>7. CASE Save(t)
  <2>1. /\ WriteFile(t) /\ UNCHANGED <<live, tmp, alive, met, crossed, faults>> /\ alive
        /\ pc[t] = "save" /\ Goto(t, "insert")
    BY <1>7 DEF Save
  <2> QED
    BY <1>1, <2>1, WriteFileStep
<1>8. CASE Insert(t)
  BY <1>8, InsertStep
<1>9. CASE Retain(t)
  BY <1>9, RetainStep
<1>10. CASE RecordEvent(t)
  BY <1>10, RecordEventStep
<1>11. CASE Copy(t)
  BY <1>11, CopyStep
<1>12. CASE Check(t)
  BY <1>12, CheckStep
<1>13. CASE ReplaceFails(t)
  BY <1>13, ReplaceFailsStep
<1>14. CASE Replace(t)
  BY <1>14, ReplaceStep
<1> QED
  BY <1>2, <1>3, <1>4, <1>5, <1>6, <1>7, <1>8, <1>9, <1>10, <1>11, <1>12, <1>13, <1>14 DEF Handle

LEMMA InitDbStep ==
    ASSUME IInv, NEW t \in Threads, InitDb(t)
    PROVE  IInv'
<1>1. CASE ReadVersion(t)
  BY <1>1, ReadVersionStep
<1>2. CASE NoCopyNeeded(t)
  BY <1>2, NoCopyNeededStep
<1>3. CASE PreMigrationBackup(t)
  <2>1. /\ WriteFile(t) /\ UNCHANGED <<live, tmp, alive, met, crossed, faults>> /\ alive
        /\ pc[t] = "secure" /\ job[t].version # "current" /\ Goto(t, "upgrade")
    BY <1>3 DEF PreMigrationBackup
  <2> QED
    BY <2>1, WriteFileStep
<1>4. CASE Upgrade(t)
  BY <1>4, UpgradeStep
<1> QED
  BY <1>1, <1>2, <1>3, <1>4 DEF InitDb

LEMMA StutterStep ==
    ASSUME IInv, UNCHANGED vars
    PROVE  IInv'
<1>1. UNCHANGED <<live, disk, stamp, tmp, alive, pc, job, met, crossed, faults>>
  BY DEF vars, databaseVars, threadVars
<1>2. TypeOK'
  BY <1>1 DEF IInv, TypeOK
<1>3. Trails'
  BY <1>1 DEF IInv, Trails, Sound
<1>4. Restoring'
  BY <1>1 DEF IInv, Restoring, RestoreHandled, RestoreSteps, SourceKept, Source, CopyKept, CopyOfOne, Window
<1>5. Migrating'
  BY <1>1 DEF IInv, Migrating, Secured
<1> QED
  BY <1>2, <1>3, <1>4, <1>5 DEF IInv

LEMMA NextStep ==
    ASSUME IInv, [Next]_vars
    PROVE  IInv'
<1>1. CASE Write
  BY <1>1, WriteStep
<1>2. CASE Kill
  BY <1>2, KillStep
<1>3. CASE Restart
  BY <1>3, RestartStep
<1>4. CASE \E t \in Handlers : Handle(t)
  BY <1>4, HandleStep
<1>5. CASE \E t \in Threads : InitDb(t)
  BY <1>5, InitDbStep
<1>6. CASE UNCHANGED vars
  BY <1>6, StutterStep
<1> QED
  BY <1>1, <1>2, <1>3, <1>4, <1>5, <1>6 DEF Next

-----------------------------------------------------------------------------
(* The inductive invariant: sound trails, the file that each restore is    *)
(* about, and the copy that a migration has made.                          *)
THEOREM InductiveInvariant == Spec => []IInv
<1>1. IInv /\ [Next]_vars => IInv'
  BY NextStep
<1> QED
  BY <1>1, InitIInv, PTL DEF Spec

(* Variables keep their types, there is always a database to open, and a   *)
(* restore knows its file until it has copied it (restore_backup,          *)
(* create_backup, init_db).                                                *)
THEOREM TypeCorrect == Spec => []TypeOK
<1>1. IInv => TypeOK
  BY DEF IInv
<1> QED
  BY <1>1, InductiveInvariant, PTL

(* Unless two restores cross, in every database file of the present schema *)
(* the chain of audit events verifies, and one edit by another hand makes  *)
(* it fail, at once and after the next event, whatever was backed up,      *)
(* restored, migrated or killed before (verify_audit_chain, audit,         *)
(* _rebuild_audit_chain).                                                  *)
THEOREM TrailsTellEdits == Spec => []TrailTellsEdits
<1>1. IInv => TrailTellsEdits
  <2> SUFFICES ASSUME IInv, ~crossed, NEW d \in {live, tmp} \cup {disk[f] : f \in Files},
                      d # None, d.schema = "current"
               PROVE  /\ Verifies(d.log)
                      /\ \A edited \in Edits(d.log) :
                            ~Verifies(edited) /\ ~Verifies(Appended(edited, "request"))
    BY DEF TrailTellsEdits, TellsEdits
  <2>1. d \in DatabaseType /\ Verifies(d.log)
    BY DEF IInv, TypeOK, Trails, Sound
  <2>2. d.log \in TrailType
    BY <2>1 DEF DatabaseType, TrailType
  <2>3. ASSUME NEW edited \in Edits(d.log)
        PROVE  ~Verifies(edited) /\ ~Verifies(Appended(edited, "request"))
    <3>1. ~Verifies(edited) /\ \E S : edited \in Seq(S)
      BY <2>1, <2>2, <2>3, EditShows
    <3>2. PICK S : edited \in Seq(S)
      BY <3>1
    <3>3. Verifies(Appended(edited, "request")) => Verifies(edited)
      BY <3>2, AppendedShows
    <3> QED
      BY <3>1, <3>3
  <2> QED
    BY <2>1, <2>3
<1> QED
  BY <1>1, InductiveInvariant, PTL

(* Only the replacement itself takes a handler past it.                    *)
LEMMA OnlyReplace ==
    ASSUME IInv, [Next]_vars, NEW t \in Handlers, pc[t] = "replace", pc'[t] = "version"
    PROVE  Replace(t)
<1>1. t \in Threads /\ t # Main /\ pc = [u \in Threads |-> pc[u]]
  BY ConstantsAssumption DEF Threads, IInv, TypeOK
<1>2. ~Write /\ ~Kill /\ ~UNCHANGED vars
  BY <1>1 DEF Write, Kill, threadVars, vars
<1>3. ~Restart
  BY <1>1 DEF Restart, Goto
<1>4. ASSUME NEW u \in Threads, NEW step, Goto(u, step)
      PROVE  u = t /\ step = "version"
  BY <1>1, <1>4 DEF Goto
<1>5. ASSUME NEW u \in Threads
      PROVE  ~Leave(u) /\ ~AfterRetention(u)
  BY <1>4 DEF Leave, AfterRetention
<1>6. ASSUME NEW u \in Threads
      PROVE  ~InitDb(u)
  BY <1>4, <1>5 DEF InitDb, ReadVersion, NoCopyNeeded, PreMigrationBackup, Upgrade
<1>7. ASSUME NEW u \in Handlers, Handle(u)
      PROVE  u = t /\ Replace(u)
  <2>1. u \in Threads
    BY DEF Threads
  <2>2. Replace(u)
    BY <1>4, <1>5, <1>7, <2>1
       DEF Handle, StartBackup, StartRestore, Validate, NotAvailable, Save, Insert, Retain,
           RecordEvent, TransactionFails, Copy, SourceGone, Check, ReplaceFails
  <2> QED
    BY <1>4, <2>1, <2>2 DEF Replace
<1> QED
  BY <1>2, <1>3, <1>6, <1>7 DEF Next

(* What a restore puts in place is the database that was chosen, although  *)
(* the backup of the present one, its retention, other handlers and what a *)
(* killed restore left come in between; and where two restores have met    *)
(* over the temporary file, what the other chose or an empty database      *)
(* (restore_backup).                                                       *)
THEOREM RestoredAsChosen == Spec => RestoredIsChosen
<1>1. IInv /\ [Next]_vars =>
        [\A t \in Handlers : pc[t] = "replace" /\ pc'[t] = "version" =>
             \/ live' = job[t].picked
             \/ t \in met /\ (live' = Blank \/ \E u \in Window : live' = job[u].picked)]_vars
  BY OnlyReplace, ReplaceStep
<1> QED
  BY <1>1, InductiveInvariant, PTL DEF Spec, RestoredIsChosen

(* A migration, at startup or after a restore, first or once more after a  *)
(* kill, has a copy of exactly the database it is about to change, unless  *)
(* another restore has put that database under it (_pre_migration_backup,  *)
(* init_db).                                                               *)
THEOREM CopyBeforeMigration == Spec => NoMigrationWithoutCopy
<1>1. IInv /\ [Next]_vars =>
        [\A t \in Threads : pc[t] = "upgrade" /\ pc'[t] # "upgrade" /\ alive' /\ live.schema = "old" =>
             t \in met \/ \E f \in Files : disk[f] = live]_vars
  <2> SUFFICES ASSUME IInv, NEW t \in Threads, pc[t] = "upgrade", live.schema = "old", t \notin met
               PROVE  \E f \in Files : disk[f] = live
    OBVIOUS
  <2>1. disk[job[t].new] = live /\ job[t].new \in 1 .. stamp /\ stamp \in 0 .. MaxFiles
    BY DEF IInv, Migrating, Secured, TypeOK
  <2>2. job[t].new \in Files
    BY <2>1, ConstantsAssumption DEF Files
  <2> QED
    BY <2>1, <2>2
<1> QED
  BY <1>1, InductiveInvariant, PTL DEF Spec, NoMigrationWithoutCopy

-----------------------------------------------------------------------------
(* The table and the directory of backups.  A table that was restored is   *)
(* older than the directory, so every table that might be restored has to  *)
(* agree with it, and with the others on which files are automatic.        *)
Held == ({live, tmp} \cup {disk[f] : f \in Files}) \ {None}

Listings == {d.rows : d \in Held}

RowsAgree(rows) ==
    \A i \in DOMAIN rows :
        /\ rows[i].file <= stamp
        /\ ~rows[i].auto => rows[i].status = "completed" /\ disk[rows[i].file] # None
        /\ rows[i].status = "expired" => disk[rows[i].file] = None

Once(rows) == \A i, j \in DOMAIN rows : rows[i].file = rows[j].file => i = j

SameKinds(rows, others) ==
    \A i \in DOMAIN rows, j \in DOMAIN others :
        rows[i].file = others[j].file => rows[i].auto = others[j].auto

Listed ==
    \A rows \in Listings :
        RowsAgree(rows) /\ Once(rows) /\ \A others \in Listings : SameKinds(rows, others)

(* A file that its thread has yet to list is there, and in no table.       *)
Pending == {t \in Threads : pc[t] \in {"insert", "upgrade"} /\ job[t].new # None}

Unlisted(f) == \A rows \in Listings : \A i \in DOMAIN rows : rows[i].file # f

NewFiles ==
    /\ \A t \in Pending : job[t].new <= stamp /\ disk[job[t].new] # None /\ Unlisted(job[t].new)
    /\ \A t, u \in Pending : job[t].new = job[u].new => t = u
    /\ \A t \in Threads : pc[t] \notin {"insert", "retain", "upgrade"} => job[t].new = None

Listing == Listed /\ NewFiles

LEMMA HeldTypes ==
    ASSUME TypeOK
    PROVE  /\ live \in Held /\ live.rows \in Listings
           /\ \A f \in Files : disk[f] # None => disk[f] \in Held
           /\ tmp # None => tmp \in Held
           /\ \A rows \in Listings : rows \in Seq(RowType)
           /\ stamp \in Nat
<1>1. live \in Held
  BY NoneAssumption DEF Held, TypeOK
<1>2. \A d \in Held : d \in DatabaseType
  BY DEF Held, TypeOK
<1>3. \A rows \in Listings : rows \in Seq(RowType)
  BY <1>2 DEF Listings, DatabaseType
<1>4. stamp \in Nat
  BY ConstantsAssumption DEF TypeOK
<1> QED
  BY <1>1, <1>3, <1>4 DEF Listings, Held

LEMMA RowTypes ==
    ASSUME NEW rows \in Seq(RowType), NEW i \in DOMAIN rows
    PROVE  /\ rows[i].file \in Files /\ rows[i].file \in Nat
           /\ rows[i].auto \in BOOLEAN /\ rows[i].status \in {"completed", "expired"}
<1>1. rows[i] \in RowType
  OBVIOUS
<1> QED
  BY <1>1 DEF RowType, Files

LEMMA InitListing ==
    ASSUME Init
    PROVE  Listing
<1>1. live.rows = <<>>
  BY DEF Init, Database
<1>2. Held \subseteq {live}
  BY DEF Init, Held
<1>3. Listings \subseteq {<<>>}
  BY <1>1, <1>2 DEF Listings
<1>4. Listed
  BY <1>3 DEF Listed, RowsAgree, Once, SameKinds
<1>5. Pending = {} /\ \A t \in Threads : job[t].new = None
  BY DEF Init, Pending, NoJob
<1> QED
  BY <1>4, <1>5 DEF Listing, NewFiles

(* One more table.                                                         *)
LEMMA ListedKept ==
    ASSUME Listed, NEW added, Listings' \subseteq Listings \cup {added},
           RowsAgree(added)', Once(added),
           \A rows \in Listings : RowsAgree(rows)' /\ SameKinds(rows, added) /\ SameKinds(added, rows)
    PROVE  Listed'
<1>1. SameKinds(added, added)
  BY DEF Once, SameKinds
<1> SUFFICES ASSUME NEW rows \in Listings'
             PROVE  RowsAgree(rows)' /\ Once(rows) /\ \A others \in Listings' : SameKinds(rows, others)
  BY DEF Listed, RowsAgree, Once, SameKinds
<1>2. RowsAgree(rows)' /\ Once(rows)
  BY DEF Listed
<1>3. ASSUME NEW others \in Listings'
      PROVE  SameKinds(rows, others)
  BY <1>1 DEF Listed
<1> QED
  BY <1>2, <1>3

(* A step that makes no table and no file.                                 *)
LEMMA ListingKept ==
    ASSUME IInv, Listing, NEW t \in Threads, Apart(t),
           Listings' \subseteq Listings \cup {<<>>}, stamp' \in Nat, stamp <= stamp',
           \A f \in Files : f <= stamp => (disk'[f] = None <=> disk[f] = None),
           t \in Pending' => t \in Pending /\ job'[t].new = job[t].new,
           pc'[t] \notin {"insert", "retain", "upgrade"} => job'[t].new = None
    PROVE  Listing'
<1> USE DEF IInv, Listing
<1>1. \A rows \in Listings : RowsAgree(rows)'
  <2> SUFFICES ASSUME NEW rows \in Listings, NEW i \in DOMAIN rows
               PROVE  /\ rows[i].file <= stamp'
                      /\ ~rows[i].auto => rows[i].status = "completed" /\ disk'[rows[i].file] # None
                      /\ rows[i].status = "expired" => disk'[rows[i].file] = None
    BY DEF RowsAgree
  <2>1. rows[i].file \in Files /\ rows[i].file \in Nat /\ stamp \in Nat
    BY HeldTypes, RowTypes
  <2>2. RowsAgree(rows)
    BY DEF Listed
  <2> QED
    BY <2>1, <2>2 DEF RowsAgree
<1>2. Listed'
  BY <1>1, ListedKept DEF RowsAgree, Once, SameKinds
<1>3. \A u \in Pending' : u \in Pending /\ job'[u].new = job[u].new
  BY DEF Pending, Apart
<1>4. ASSUME NEW u \in Pending'
      PROVE  job'[u].new <= stamp' /\ disk'[job'[u].new] # None /\ Unlisted(job[u].new)'
  <2>1. u \in Pending /\ job'[u].new = job[u].new
    BY <1>3
  <2>2. job[u].new \in Files /\ job[u].new \in Nat /\ stamp \in Nat
    BY <2>1, HeldTypes DEF Pending, TypeOK, JobType, Files
  <2>3. job[u].new <= stamp /\ disk[job[u].new] # None /\ Unlisted(job[u].new)
    BY <2>1 DEF NewFiles
  <2>4. Unlisted(job[u].new)'
    <3> SUFFICES ASSUME NEW rows \in Listings', NEW i \in DOMAIN rows
                 PROVE  rows[i].file # job'[u].new
      BY DEF Unlisted
    <3> QED
      BY <2>1, <2>3 DEF Unlisted
  <2> QED
    BY <2>1, <2>2, <2>3, <2>4
<1>5. \A u, v \in Pending' : job'[u].new = job'[v].new => u = v
  BY <1>3 DEF NewFiles
<1>6. \A u \in Threads : pc'[u] \notin {"insert", "retain", "upgrade"} => job'[u].new = None
  BY DEF NewFiles, Apart
<1> QED
  BY <1>2, <1>4, <1>5, <1>6 DEF NewFiles

(* What a step holds, from what it does to the databases.                  *)
LEMMA HeldKept ==
    ASSUME TypeOK, NEW d, live' = d, tmp' \in {tmp, None}, \A f \in Files : disk'[f] \in {disk[f], None}
    PROVE  Listings' \subseteq Listings \cup {d.rows}
BY DEF Listings, Held

LEMMA WriteFileListing ==
    ASSUME IInv, Listing, NEW t \in Threads, WriteFile(t), UNCHANGED <<live, tmp>>,
           \/ pc[t] = "save" /\ Goto(t, "insert")
           \/ pc[t] = "secure" /\ Goto(t, "upgrade")
    PROVE  Listing'
<1> USE DEF IInv, Listing
<1> DEFINE f == stamp + 1
<1>1. /\ stamp' = f /\ f \in Files /\ stamp \in Nat /\ f \in Nat
      /\ disk' = [disk EXCEPT ![f] = live]
      /\ job' = [job EXCEPT ![t].new = f]
  BY ConstantsAssumption DEF WriteFile, TypeOK, Files
<1>2. disk'[f] = live /\ \A g \in Files : g # f => disk'[g] = disk[g]
  BY <1>1 DEF TypeOK
<1>3. Listings' \subseteq Listings
  BY <1>2 DEF Listings, Held
<1>4. \A rows \in Listings : \A i \in DOMAIN rows :
         rows[i].file # f /\ rows[i].file \in Files /\ rows[i].file \in Nat /\ rows[i].file <= stamp
  <2> SUFFICES ASSUME NEW rows \in Listings, NEW i \in DOMAIN rows
               PROVE  rows[i].file # f /\ rows[i].file \in Files /\ rows[i].file \in Nat /\ rows[i].file <= stamp
    OBVIOUS
  <2>1. rows[i].file \in Files /\ rows[i].file \in Nat
    BY HeldTypes, RowTypes
  <2>2. rows[i].file <= stamp
    BY DEF Listed, RowsAgree
  <2> QED
    BY <1>1, <2>1, <2>2
<1>5. Apart(t) /\ job'[t].new = f
      /\ (pc'[t] = "insert" \/ pc'[t] = "upgrade") /\ f # None
  BY <1>1, NoneAssumption DEF TypeOK, JobType, Goto, Apart
<1> HIDE DEF f
<1>6. live # None
  BY NoneAssumption DEF TypeOK
<1>7. \A rows \in Listings : RowsAgree(rows)'
  <2> SUFFICES ASSUME NEW rows \in Listings, NEW i \in DOMAIN rows
               PROVE  /\ rows[i].file <= stamp'
                      /\ ~rows[i].auto => rows[i].status = "completed" /\ disk'[rows[i].file] # None
                      /\ rows[i].status = "expired" => disk'[rows[i].file] = None
    BY DEF RowsAgree
  <2>1. rows[i].file # f /\ rows[i].file \in Files /\ rows[i].file \in Nat /\ rows[i].file <= stamp
    BY <1>4
  <2>2. rows[i].file <= stamp'
    BY <1>1, <2>1 DEF f
  <2>3. RowsAgree(rows)
    BY DEF Listed
  <2> QED
    BY <1>2, <2>1, <2>2, <2>3 DEF RowsAgree
<1>8. Listed'
  <2>1. live.rows \in Listings
    BY HeldTypes
  <2> QED
    BY <1>3, <1>7, <2>1, ListedKept DEF Listed
<1>9. \A u \in Pending' : u # t => u \in Pending /\ job'[u].new = job[u].new
  BY <1>5 DEF Pending, Apart
<1>10. ASSUME NEW u \in Pending
       PROVE  /\ job[u].new \in Files /\ job[u].new \in Nat /\ job[u].new # f /\ job[u].new <= stamp'
              /\ disk'[job[u].new] # None /\ Unlisted(job[u].new)
  <2>1. job[u].new \in Files /\ job[u].new \in Nat
    BY DEF Pending, TypeOK, JobType, Files
  <2>2. job[u].new <= stamp /\ disk[job[u].new] # None /\ Unlisted(job[u].new)
    BY DEF NewFiles
  <2>3. job[u].new # f /\ job[u].new <= stamp'
    BY <1>1, <2>1, <2>2 DEF f
  <2> QED
    BY <1>2, <2>1, <2>2, <2>3
<1>11. ASSUME NEW u \in Pending'
       PROVE  job'[u].new <= stamp' /\ disk'[job'[u].new] # None /\ Unlisted(job[u].new)'
  <2>1. CASE u = t
    <3>1. Unlisted(job[u].new)'
      BY <1>3, <1>4, <1>5, <2>1 DEF Unlisted
    <3>2. f <= stamp'
      BY <1>1
    <3> QED
      BY <1>2, <1>5, <1>6, <2>1, <3>1, <3>2
  <2>2. CASE u # t
    <3>1. u \in Pending /\ job'[u].new = job[u].new
      BY <1>9, <2>2
    <3>2. Unlisted(job[u].new)'
      BY <1>3, <1>10, <3>1 DEF Unlisted
    <3> QED
      BY <1>10, <3>1, <3>2
  <2> QED
    BY <2>1, <2>2
<1>12. \A u, v \in Pending' : job'[u].new = job'[v].new => u = v
  BY <1>5, <1>9, <1>10 DEF NewFiles
<1>13. \A u \in Threads : pc'[u] \notin {"insert", "retain", "upgrade"} => job'[u].new = None
  BY <1>5 DEF NewFiles, Apart
<1> QED
  BY <1>8, <1>11, <1>12, <1>13 DEF NewFiles

(* The new file is listed.                                                 *)
LEMMA ListingGrown ==
    ASSUME IInv, Listing, NEW t \in Pending, Apart(t), NEW a \in BOOLEAN, UNCHANGED <<disk, stamp, tmp>>,
           live'.rows = Append(live.rows, Row(job[t].new, a)),
           t \notin Pending', pc'[t] \notin {"insert", "retain", "upgrade"} => job'[t].new = None
    PROVE  Listing'
<1> USE DEF IInv, Listing
<1> DEFINE n == Len(live.rows)
           rows == live.rows
           f == job[t].new
<1>0. PICK added : added = Append(rows, Row(f, a))
  OBVIOUS
<1>1. /\ rows \in Seq(RowType) /\ n \in Nat /\ DOMAIN rows = 1 .. n /\ rows \in Listings
      /\ stamp \in Nat
  BY HeldTypes
<1>2. f \in Files /\ f <= stamp /\ disk[f] # None /\ Unlisted(f) /\ t \in Threads /\ f \in Nat
  BY DEF NewFiles, Pending, TypeOK, JobType, Files
<1>3. Row(f, a) \in RowType
  BY <1>2 DEF Row, RowType
<1>4. Row(f, a).file = f /\ Row(f, a).auto = a /\ Row(f, a).status = "completed"
  BY DEF Row
<1>5. /\ DOMAIN added = 1 .. n + 1 /\ added[n + 1] = Row(f, a)
      /\ \A i \in 1 .. n : added[i] = rows[i]
  <2> DEFINE r == Row(f, a)
  <2>1. r \in RowType
    BY <1>3
  <2> HIDE DEF r, rows
  <2>2. /\ Append(rows, r) \in Seq(RowType) /\ Len(Append(rows, r)) = Len(rows) + 1
        /\ \A i \in 1 .. Len(rows) : Append(rows, r)[i] = rows[i]
        /\ Append(rows, r)[Len(rows) + 1] = r
    BY <1>1, <2>1, AppendProperties
  <2> QED
    BY <1>0, <2>2 DEF r, rows
<1>6. live'.rows = added
  BY <1>0
<1>7. Listings' \subseteq Listings \cup {added}
  BY <1>6 DEF Listings, Held
<1>8. \A i \in 1 .. n : rows[i].file # f
  BY <1>1, <1>2 DEF Unlisted
<1> HIDE DEF n, rows, f
<1>9. \A s \in Listings : RowsAgree(s)'
  BY DEF Listed, RowsAgree
<1>10. RowsAgree(added)'
  <2> SUFFICES ASSUME NEW i \in 1 .. n + 1
               PROVE  /\ added[i].file <= stamp
                      /\ ~added[i].auto => added[i].status = "completed" /\ disk[added[i].file] # None
                      /\ added[i].status = "expired" => disk[added[i].file] = None
    BY <1>5 DEF RowsAgree
  <2>1. CASE i = n + 1
    BY <1>2, <1>4, <1>5, <2>1
  <2>2. CASE i # n + 1
    <3>1. i \in 1 .. n /\ added[i] = rows[i]
      BY <1>1, <1>5, <2>2
    <3> QED
      BY <1>1, <3>1 DEF Listed, RowsAgree
  <2> QED
    BY <2>1, <2>2
<1>11. \A i \in 1 .. n + 1 : added[i].file = f <=> i = n + 1
  BY <1>1, <1>4, <1>5, <1>8
<1>12. Once(added)
  <2> SUFFICES ASSUME NEW i \in 1 .. n + 1, NEW j \in 1 .. n + 1, added[i].file = added[j].file
               PROVE  i = j
    BY <1>5 DEF Once
  <2>1. CASE i = n + 1 \/ j = n + 1
    BY <1>11, <2>1
  <2>2. CASE i # n + 1 /\ j # n + 1
    <3>1. i \in 1 .. n /\ j \in 1 .. n /\ added[i] = rows[i] /\ added[j] = rows[j]
      BY <1>1, <1>5, <2>2
    <3> QED
      BY <1>1, <3>1 DEF Listed, Once
  <2> QED
    BY <2>1, <2>2
<1>13. ASSUME NEW s \in Listings
       PROVE  SameKinds(s, added) /\ SameKinds(added, s)
  <2> SUFFICES ASSUME NEW i \in 1 .. n + 1, NEW j \in DOMAIN s, added[i].file = s[j].file
               PROVE  added[i].auto = s[j].auto
    BY <1>5 DEF SameKinds
  <2>1. i # n + 1
    BY <1>2, <1>11 DEF Unlisted
  <2>2. i \in 1 .. n /\ added[i] = rows[i]
    BY <1>1, <1>5, <2>1
  <2> QED
    BY <1>1, <2>2 DEF Listed, SameKinds
<1>14. Listed'
  BY <1>7, <1>9, <1>10, <1>12, <1>13, ListedKept
<1>15. \A u \in Pending' : u # t /\ u \in Pending /\ job'[u].new = job[u].new
  BY DEF Pending, Apart
<1>16. ASSUME NEW u \in Pending'
       PROVE  job'[u].new <= stamp' /\ disk'[job'[u].new] # None /\ Unlisted(job[u].new)'
  <2>1. /\ u \in Pending /\ job'[u].new = job[u].new /\ job[u].new # f
        /\ job[u].new <= stamp /\ disk[job[u].new] # None /\ Unlisted(job[u].new)
    BY <1>15 DEF NewFiles, f
  <2>2. ASSUME NEW s \in Listings', NEW i \in DOMAIN s
        PROVE  s[i].file # job[u].new
    <3>1. CASE s \in Listings
      BY <2>1, <3>1 DEF Unlisted
    <3>2. CASE s = added
      <4>1. i \in 1 .. n + 1
        BY <1>5, <3>2
      <4>2. CASE i = n + 1
        BY <1>11, <2>1, <3>2, <4>1, <4>2
      <4>3. CASE i # n + 1
        <5>1. i \in 1 .. n
          BY <1>1, <4>1, <4>3
        <5>2. rows[i].file # job[u].new
          BY <1>1, <2>1, <5>1 DEF Unlisted
        <5> QED
          BY <1>5, <3>2, <5>1, <5>2
      <4> QED
        BY <4>2, <4>3
    <3> QED
      BY <1>7, <3>1, <3>2
  <2> QED
    BY <2>1, <2>2 DEF Unlisted
<1>17. \A u, v \in Pending' : job'[u].new = job'[v].new => u = v
  BY <1>15 DEF NewFiles
<1>18. \A u \in Threads : pc'[u] \notin {"insert", "retain", "upgrade"} => job'[u].new = None
  <2>1. t \in Threads
    BY <1>2
  <2> QED
    BY <2>1 DEF NewFiles, Apart
<1> QED
  BY <1>14, <1>16, <1>17, <1>18 DEF NewFiles

(* Retention, also halfway through: what it deletes is listed as automatic *)
(* in the present table, and hence in every other that lists it.           *)
LEMMA WithoutListing ==
    ASSUME IInv, Listing, NEW S \in SUBSET Excess, disk' = Without(S), UNCHANGED <<stamp, tmp>>,
           live'.rows \in {live.rows, Expiring(S)},
           \A u \in Pending' : u \in Pending /\ job'[u].new = job[u].new,
           \A u \in Threads : pc'[u] \notin {"insert", "retain", "upgrade"} => job'[u].new = None
    PROVE  Listing'
<1> USE DEF IInv, Listing
<1> DEFINE rows == live.rows
           Gone(f) == \E i \in S : rows[i].file = f
<1>0. PICK added : added = live'.rows
  OBVIOUS
<1>1. /\ rows \in Seq(RowType) /\ rows \in Listings /\ stamp \in Nat
      /\ \A i \in DOMAIN rows : rows[i] \in RowType
  BY HeldTypes
<1>2. \A f \in Files : disk'[f] = IF Gone(f) THEN None ELSE disk[f]
  BY DEF Without
<1>3. \A i \in S : i \in DOMAIN rows /\ rows[i].auto
  BY DEF Excess, Automatic
<1>4. /\ DOMAIN added = DOMAIN rows
      /\ \A i \in DOMAIN rows : /\ added[i].file = rows[i].file /\ added[i].auto = rows[i].auto
                                /\ i \notin S \/ added = rows => added[i].status = rows[i].status
  <2>1. CASE added = rows
    BY <2>1
  <2>2. CASE added = Expiring(S)
    BY <1>1, <2>2 DEF Expiring, RowType
  <2> QED
    BY <1>0, <2>1, <2>2
<1>5. Listings' \subseteq Listings \cup {added}
  BY <1>0, <1>2 DEF Listings, Held
<1>6. ASSUME NEW s \in Listings, NEW j \in DOMAIN s
      PROVE  /\ s[j].file \in Files
             /\ Gone(s[j].file) => s[j].auto
  <2>1. s[j].file \in Files
    BY HeldTypes, RowTypes
  <2>2. ASSUME NEW i \in S, rows[i].file = s[j].file
        PROVE  s[j].auto
    <3>1. SameKinds(rows, s) /\ i \in DOMAIN rows /\ rows[i].auto
      BY <1>1, <1>3, <2>2 DEF Listed
    <3> QED
      BY <2>2, <3>1 DEF SameKinds
  <2> QED
    BY <2>1, <2>2
<1>7. ASSUME NEW s \in Listings
      PROVE  RowsAgree(s)'
  <2> SUFFICES ASSUME NEW j \in DOMAIN s
               PROVE  /\ s[j].file <= stamp
                      /\ ~s[j].auto => s[j].status = "completed" /\ disk'[s[j].file] # None
                      /\ s[j].status = "expired" => disk'[s[j].file] = None
    BY DEF RowsAgree
  <2>1. /\ s[j].file <= stamp
        /\ ~s[j].auto => s[j].status = "completed" /\ disk[s[j].file] # None
        /\ s[j].status = "expired" => disk[s[j].file] = None
    BY DEF Listed, RowsAgree
  <2> QED
    BY <1>2, <1>6, <2>1
<1>8. RowsAgree(added)'
  <2> SUFFICES ASSUME NEW j \in DOMAIN rows
               PROVE  /\ rows[j].file <= stamp
                      /\ ~rows[j].auto => added[j].status = "completed" /\ disk'[rows[j].file] # None
                      /\ added[j].status = "expired" => disk'[rows[j].file] = None
    BY <1>4 DEF RowsAgree
  <2>1. /\ rows[j].file <= stamp
        /\ ~rows[j].auto => rows[j].status = "completed" /\ disk'[rows[j].file] # None
        /\ rows[j].status = "expired" => disk'[rows[j].file] = None
    BY <1>1, <1>7 DEF RowsAgree
  <2>2. CASE j \in S
    <3>1. rows[j].auto /\ rows[j].file \in Files /\ Gone(rows[j].file)
      BY <1>1, <1>3, <1>6, <2>2
    <3> QED
      BY <1>2, <2>1, <3>1
  <2>3. CASE j \notin S
    BY <1>4, <2>1, <2>3
  <2> QED
    BY <2>2, <2>3
<1>9. Once(added) /\ \A s \in Listings : SameKinds(s, added) /\ SameKinds(added, s)
  BY <1>1, <1>4 DEF Listed, Once, SameKinds
<1> HIDE DEF rows, Gone
<1>10. Listed'
  BY <1>5, <1>7, <1>8, <1>9, ListedKept
<1>11. ASSUME NEW u \in Pending'
       PROVE  job'[u].new <= stamp' /\ disk'[job'[u].new] # None /\ Unlisted(job[u].new)'
  <2>1. /\ u \in Pending /\ job'[u].new = job[u].new /\ job[u].new \in Files
        /\ job[u].new <= stamp /\ disk[job[u].new] # None /\ Unlisted(job[u].new)
    BY DEF NewFiles, Pending, TypeOK, JobType
  <2>2. \A i \in DOMAIN rows : rows[i].file # job[u].new
    BY <1>1, <2>1 DEF Unlisted
  <2>3. ~Gone(job[u].new)
    BY <1>3, <2>2 DEF Gone
  <2>4. Unlisted(job[u].new)'
    BY <1>4, <1>5, <2>1, <2>2 DEF Unlisted
  <2> QED
    BY <1>2, <2>1, <2>3, <2>4
<1>12. \A u, v \in Pending' : job'[u].new = job'[v].new => u = v
  BY DEF NewFiles
<1> QED
  BY <1>10, <1>11, <1>12 DEF NewFiles

LEMMA WriteListing ==
    ASSUME IInv, Listing, Write
    PROVE  Listing'
<1>1. UNCHANGED <<disk, stamp, tmp, pc, job>> /\ live'.rows = live.rows /\ TypeOK
  BY DEF Write, threadVars, Recorded, IInv, TypeOK, DatabaseType
<1>2. Listings' \subseteq Listings
  BY <1>1, HeldTypes DEF Listings, Held
<1>3. Main \in Threads /\ Apart(Main) /\ stamp \in Nat
  BY <1>1, HeldTypes DEF Threads, Apart
<1>4. pc'[Main] \notin {"insert", "retain", "upgrade"} => job'[Main].new = None
  BY <1>1, <1>3 DEF Listing, NewFiles
<1> QED
  BY <1>1, <1>2, <1>3, <1>4, ListingKept DEF Pending

(* A handler's steps that make no file and list none.                      *)
LEMMA QuietListing ==
    ASSUME IInv, Listing, NEW t \in Handlers,
           \/ \E a \in BOOLEAN : StartBackup(t, a)
           \/ \E id \in DOMAIN live.rows : StartRestore(t, id)
           \/ Validate(t) \/ NotAvailable(t) \/ RecordEvent(t)
           \/ Copy(t) \/ SourceGone(t) \/ Check(t) \/ ReplaceFails(t) \/ Replace(t)
    PROVE  Listing'
<1> USE DEF IInv
<1>1. t \in Threads /\ stamp \in Nat /\ stamp <= stamp
  BY HeldTypes DEF Threads
<1>2. ASSUME Leave(t)
      PROVE  Apart(t) /\ pc'[t] = "idle" /\ job'[t].new = None
  BY <1>1, <1>2 DEF Leave, Goto, NoJob, TypeOK, Apart
<1>3. ASSUME NEW s, Goto(t, s), pc[t] \notin {"insert", "retain", "upgrade"},
             \A u \in Threads \ {t} : job'[u] = job[u], job'[t].new = job[t].new
      PROVE  Apart(t) /\ pc'[t] = s /\ job'[t].new = None
  BY <1>1, <1>3 DEF Goto, TypeOK, Apart, Listing, NewFiles
<1>4. CASE \E a \in BOOLEAN : StartBackup(t, a)
  <2>1. /\ UNCHANGED <<live, disk, stamp, tmp>> /\ pc[t] = "idle" /\ Goto(t, "save")
        /\ (\A u \in Threads \ {t} : job'[u] = job[u]) /\ job'[t].new = job[t].new
    BY <1>1, <1>4 DEF StartBackup, databaseVars, TypeOK, JobType
  <2>2. Apart(t) /\ pc'[t] = "save" /\ job'[t].new = None
    BY <1>3, <2>1
  <2> QED
    BY <1>1, <2>1, <2>2, ListingKept DEF Pending, Listings, Held
<1>5. CASE \E id \in DOMAIN live.rows : StartRestore(t, id)
  <2>1. /\ UNCHANGED <<live, disk, stamp, tmp>> /\ pc[t] = "idle" /\ Goto(t, "validate")
        /\ (\A u \in Threads \ {t} : job'[u] = job[u]) /\ job'[t].new = job[t].new
    BY <1>1, <1>5 DEF StartRestore, databaseVars, TypeOK, JobType
  <2>2. Apart(t) /\ pc'[t] = "validate" /\ job'[t].new = None
    BY <1>3, <2>1
  <2> QED
    BY <1>1, <2>1, <2>2, ListingKept DEF Pending, Listings, Held
<1>6. CASE Validate(t)
  <2>1. /\ UNCHANGED <<live, disk, stamp, tmp>> /\ pc[t] = "validate" /\ Goto(t, "save")
        /\ (\A u \in Threads \ {t} : job'[u] = job[u]) /\ job'[t].new = job[t].new
    BY <1>1, <1>6 DEF Validate, databaseVars, TypeOK, JobType
  <2>2. Apart(t) /\ pc'[t] = "save" /\ job'[t].new = None
    BY <1>3, <2>1
  <2> QED
    BY <1>1, <2>1, <2>2, ListingKept DEF Pending, Listings, Held
<1>7. CASE NotAvailable(t) \/ SourceGone(t) \/ ReplaceFails(t)
  <2>1. UNCHANGED <<live, disk, stamp, tmp>> /\ Leave(t)
    BY <1>7 DEF NotAvailable, SourceGone, ReplaceFails, databaseVars
  <2>2. Apart(t) /\ pc'[t] = "idle" /\ job'[t].new = None
    BY <1>2, <2>1
  <2> QED
    BY <1>1, <2>1, <2>2, ListingKept DEF Pending, Listings, Held
<1>8. CASE RecordEvent(t)
  <2>1. UNCHANGED <<disk, stamp, tmp>> /\ Leave(t) /\ live'.rows = live.rows
    BY <1>8 DEF RecordEvent, Recorded, TypeOK, DatabaseType
  <2>2. Apart(t) /\ pc'[t] = "idle" /\ job'[t].new = None
    BY <1>2, <2>1
  <2>3. Listings' \subseteq Listings
    BY <2>1, HeldTypes DEF Listings, Held
  <2> QED
    BY <1>1, <2>1, <2>2, <2>3, ListingKept DEF Pending
<1>9. CASE Copy(t)
  <2>1. /\ UNCHANGED <<live, disk, stamp>> /\ pc[t] = "copy" /\ Goto(t, "check")
        /\ tmp' = disk[job[t].source] /\ disk[job[t].source] # None
        /\ (\A u \in Threads \ {t} : job'[u] = job[u]) /\ job'[t].new = job[t].new
    BY <1>1, <1>9 DEF Copy, TypeOK, JobType
  <2>2. Apart(t) /\ pc'[t] = "check" /\ job'[t].new = None
    BY <1>3, <2>1
  <2>3. job[t].source \in Files
    BY <1>1, <2>1 DEF Restoring, RestoreSteps, TypeOK
  <2>4. Listings' \subseteq Listings
    BY <2>1, <2>3 DEF Listings, Held
  <2> QED
    BY <1>1, <2>1, <2>2, <2>4, ListingKept DEF Pending
<1>10. CASE Check(t)
  <2>1. UNCHANGED <<live, disk, stamp, job>> /\ pc[t] = "check" /\ Goto(t, "replace") /\ tmp' \in {tmp, Blank}
    BY <1>10 DEF Check
  <2>2. Apart(t) /\ pc'[t] = "replace" /\ job'[t].new = None
    BY <1>3, <2>1
  <2>3. Blank.rows = <<>>
    BY DEF Blank, Database
  <2>4. Listings' \subseteq Listings \cup {<<>>}
    BY <2>1, <2>3 DEF Listings, Held
  <2> QED
    BY <1>1, <2>1, <2>2, <2>4, ListingKept DEF Pending
<1>11. CASE Replace(t)
  <2>1. /\ UNCHANGED <<disk, stamp>> /\ pc[t] = "replace" /\ Goto(t, "version")
        /\ live' = tmp /\ tmp # None /\ tmp' = None
        /\ (\A u \in Threads \ {t} : job'[u] = job[u]) /\ job'[t].new = job[t].new
    BY <1>1, <1>11 DEF Replace, TypeOK, JobType
  <2>2. Apart(t) /\ pc'[t] = "version" /\ job'[t].new = None
    BY <1>3, <2>1
  <2>3. Listings' \subseteq Listings
    BY <2>1 DEF Listings, Held
  <2> QED
    BY <1>1, <2>1, <2>2, <2>3, ListingKept DEF Pending
<1> QED
  BY <1>4, <1>5, <1>6, <1>7, <1>8, <1>9, <1>10, <1>11

LEMMA InsertListing ==
    ASSUME IInv, Listing, NEW t \in Handlers, Insert(t)
    PROVE  Listing'
<1>1. t \in Threads /\ TypeOK
  BY DEF Threads, IInv
<1>2. /\ UNCHANGED <<disk, stamp, tmp, job>> /\ pc[t] = "insert" /\ pc' = [pc EXCEPT ![t] = "retain"]
      /\ live' = [live EXCEPT !.rows = Append(@, Row(job[t].new, job[t].auto))]
  BY DEF Insert, Goto
<1>3. job[t].new \in Files /\ job[t].auto \in BOOLEAN
  <2>1. job[t].new \in 1 .. stamp /\ stamp \in 0 .. MaxFiles /\ job[t] \in JobType
    BY <1>1, <1>2 DEF TypeOK, Migrating, IInv
  <2> QED
    BY <2>1, ConstantsAssumption DEF JobType, Files
<1>4. t \in Pending /\ t \notin Pending' /\ Apart(t) /\ pc'[t] = "retain"
  BY <1>1, <1>2, <1>3, NoneAssumption DEF Pending, Apart, TypeOK
<1>5. live'.rows = Append(live.rows, Row(job[t].new, job[t].auto))
  BY <1>1, <1>2 DEF TypeOK, DatabaseType
<1> QED
  BY <1>2, <1>3, <1>4, <1>5, ListingGrown

LEMMA RetainListing ==
    ASSUME IInv, Listing, NEW t \in Handlers, Retain(t)
    PROVE  Listing'
<1>1. t \in Threads /\ TypeOK
  BY DEF Threads, IInv
<1>2. PICK S \in SUBSET Excess : disk' = Without(S) /\ live' = [live EXCEPT !.rows = Expiring(S)]
  BY DEF Retain
<1>3. /\ UNCHANGED <<stamp, tmp>> /\ pc' = [pc EXCEPT ![t] = IF job[t].restoring THEN "copy" ELSE "record"]
      /\ job' = [job EXCEPT ![t].new = None, ![t].auto = FALSE]
  BY DEF Retain, AfterRetention, Goto
<1>4. /\ Apart(t) /\ job'[t].new = None
      /\ pc'[t] = "copy" \/ pc'[t] = "record"
  BY <1>1, <1>3 DEF Apart, TypeOK, JobType
<1>5. live'.rows = Expiring(S)
  BY <1>1, <1>2 DEF TypeOK, DatabaseType
<1>6. /\ \A u \in Pending' : u \in Pending /\ job'[u].new = job[u].new
      /\ \A u \in Threads : pc'[u] \notin {"insert", "retain", "upgrade"} => job'[u].new = None
  BY <1>1, <1>4 DEF Pending, Apart, Listing, NewFiles
<1> QED
  BY <1>2, <1>3, <1>5, <1>6, WithoutListing

LEMMA FailureListing ==
    ASSUME IInv, Listing, NEW t \in Handlers, TransactionFails(t)
    PROVE  Listing'
<1>1. t \in Threads /\ TypeOK
  BY DEF Threads, IInv
<1>2. PICK S \in SUBSET Excess : disk' = Without(S)
  <2>1. CASE disk' = disk
    <3>1. Without({}) = disk
      BY DEF Without, IInv, TypeOK
    <3> QED
      BY <2>1, <3>1
  <2>2. CASE disk' # disk
    BY <2>2 DEF TransactionFails, DeletionsStay
  <2> QED
    BY <2>1, <2>2
<1>3. UNCHANGED <<live, stamp, tmp>> /\ Leave(t)
  BY DEF TransactionFails
<1>4. Apart(t) /\ pc'[t] = "idle" /\ job'[t].new = None
  BY <1>1, <1>3 DEF Leave, Goto, NoJob, TypeOK, Apart
<1>5. /\ \A u \in Pending' : u \in Pending /\ job'[u].new = job[u].new
      /\ \A u \in Threads : pc'[u] \notin {"insert", "retain", "upgrade"} => job'[u].new = None
  BY <1>1, <1>4 DEF Pending, Apart, Listing, NewFiles
<1> QED
  BY <1>2, <1>3, <1>5, WithoutListing

LEMMA KillListing ==
    ASSUME IInv, Listing, Kill
    PROVE  Listing'
<1>1. /\ UNCHANGED <<live, stamp, tmp>>
      /\ \A t \in Threads : pc'[t] = "idle" /\ job'[t].new = None
  BY DEF Kill, NoJob
<1>2. PICK S \in SUBSET Excess : disk' = Without(S)
  <2>1. CASE disk' = disk
    <3>1. Without({}) = disk
      BY DEF Without, IInv, TypeOK
    <3> QED
      BY <2>1, <3>1
  <2>2. CASE disk' # disk
    BY <2>2 DEF Kill, DeletionsStay
  <2> QED
    BY <2>1, <2>2
<1>3. Pending' = {}
  BY <1>1 DEF Pending
<1> QED
  BY <1>1, <1>2, <1>3, WithoutListing

LEMMA InitDbListing ==
    ASSUME IInv, Listing, NEW t \in Threads, InitDb(t)
    PROVE  Listing'
<1> USE DEF IInv
<1>1. stamp \in Nat /\ stamp <= stamp
  BY HeldTypes
<1>2. CASE ReadVersion(t)
  <2>1. /\ UNCHANGED <<live, disk, stamp, tmp>> /\ pc[t] = "version" /\ pc' = [pc EXCEPT ![t] = "secure"]
        /\ job' = [job EXCEPT ![t].version = live.schema]
    BY <1>2 DEF ReadVersion, Goto, databaseVars
  <2>2. Apart(t) /\ pc'[t] = "secure" /\ job'[t].new = None
    BY <2>1 DEF Apart, TypeOK, JobType, Listing, NewFiles
  <2> QED
    BY <1>1, <2>1, <2>2, ListingKept DEF Pending, Listings, Held
<1>3. CASE NoCopyNeeded(t)
  <2>1. /\ UNCHANGED <<live, disk, stamp, tmp, job>> /\ pc[t] = "secure" /\ pc' = [pc EXCEPT ![t] = "upgrade"]
    BY <1>3 DEF NoCopyNeeded, Goto, databaseVars
  <2>2. Apart(t) /\ pc'[t] = "upgrade" /\ job'[t].new = None
    BY <2>1 DEF Apart, TypeOK, Listing, NewFiles
  <2> QED
    BY <1>1, <2>1, <2>2, ListingKept DEF Pending, Listings, Held
<1>4. CASE PreMigrationBackup(t)
  BY <1>4, WriteFileListing DEF PreMigrationBackup
<1>5. CASE Upgrade(t)
  <2>1. /\ UNCHANGED <<disk, stamp, tmp>> /\ pc[t] = "upgrade"
        /\ live' = IF job[t].new = None THEN Expanded(t)
                   ELSE [Expanded(t) EXCEPT !.rows = Append(@, Row(job[t].new, TRUE))]
    BY <1>5 DEF Upgrade
  <2>2. Apart(t) /\ job'[t].new = None /\ (pc'[t] = "record" \/ pc'[t] = "idle")
    <3>1. job[t] \in JobType /\ job \in [Threads -> JobType] /\ pc \in [Threads -> Steps]
      BY DEF TypeOK
    <3>2. CASE job[t].restoring
      <4>1. pc' = [pc EXCEPT ![t] = "record"] /\ job' = [job EXCEPT ![t].version = None, ![t].new = None]
        BY <1>5, <3>2 DEF Upgrade, Goto
      <4> QED
        BY <3>1, <4>1 DEF Apart, JobType
    <3>3. CASE ~job[t].restoring
      BY <1>5, <3>1, <3>3 DEF Upgrade, Leave, Goto, NoJob, Apart
    <3> QED
      BY <3>2, <3>3
  <2>3. Expanded(t).rows = live.rows /\ Expanded(t) \in DatabaseType
    BY ExpandedProperties DEF TypeOK, DatabaseType, Expanded
  <2>4. CASE job[t].new = None
    <3>1. Listings' \subseteq Listings
      BY <2>1, <2>3, <2>4, HeldTypes DEF Listings, Held
    <3> QED
      BY <1>1, <2>1, <2>2, <3>1, ListingKept DEF Pending
  <2>5. CASE job[t].new # None
    <3>1. t \in Pending /\ t \notin Pending'
      BY <2>1, <2>2, <2>5 DEF Pending
    <3>2. live'.rows = Append(live.rows, Row(job[t].new, TRUE))
      BY <2>1, <2>3, <2>5 DEF DatabaseType
    <3> QED
      BY <2>1, <2>2, <3>1, <3>2, ListingGrown
  <2> QED
    BY <2>4, <2>5
<1> QED
  BY <1>2, <1>3, <1>4, <1>5 DEF InitDb

LEMMA NextListing ==
    ASSUME IInv, Listing, [Next]_vars
    PROVE  Listing'
<1>1. CASE Write
  BY <1>1, WriteListing
<1>2. CASE Kill
  BY <1>2, KillListing
<1>3. CASE Restart
  <2>1. /\ UNCHANGED <<live, disk, stamp, tmp, job>> /\ pc[Main] = "idle" /\ Main \in Threads
        /\ pc' = [pc EXCEPT ![Main] = "version"]
    BY <1>3 DEF Restart, Goto, databaseVars, IInv, Migrating, Threads
  <2>2. Apart(Main) /\ pc'[Main] = "version" /\ job'[Main].new = None /\ stamp \in Nat /\ stamp <= stamp
    BY <2>1, HeldTypes DEF Apart, IInv, TypeOK, Listing, NewFiles
  <2> QED
    BY <2>1, <2>2, ListingKept DEF Pending, Listings, Held
<1>4. ASSUME NEW t \in Handlers, Handle(t)
      PROVE  Listing'
  <2>1. CASE Save(t)
    <3>1. t \in Threads
      BY DEF Threads
    <3> QED
      BY <2>1, <3>1, WriteFileListing DEF Save
  <2> QED
    BY <1>4, <2>1, InsertListing, RetainListing, FailureListing, QuietListing DEF Handle
<1>5. CASE \E t \in Threads : InitDb(t)
  BY <1>5, InitDbListing
<1>6. CASE UNCHANGED vars
  <2>1. UNCHANGED <<live, disk, stamp, tmp, pc, job>>
    BY <1>6 DEF vars, databaseVars, threadVars
  <2> QED
    BY <2>1 DEF Listing, Listed, NewFiles, RowsAgree, Unlisted, Pending, Listings, Held
<1> QED
  BY <1>1, <1>2, <1>3, <1>4, <1>5, <1>6 DEF Next

(* A listed backup that the user made keeps its file, an expired one has   *)
(* none, and no file is listed twice, whatever older tables were restored  *)
(* and wherever retention was cut off: every table that might come back    *)
(* agrees with the directory, and all agree on which files are automatic   *)
(* (_apply_retention, create_backup, restore_backup).                      *)
THEOREM FilesAndRows == Spec => []FilesMatchRows
<1>1. Init => Listing
  BY InitListing
<1>2. IInv /\ Listing /\ [Next]_vars => Listing'
  BY NextListing
<1>3. IInv /\ Listing => FilesMatchRows
  BY HeldTypes DEF IInv, Listing, Listed, RowsAgree, Once,
     FilesMatchRows, ManualKept, ExpiredMeansGone, ListedOnce
<1> QED
  BY <1>1, <1>2, <1>3, InductiveInvariant, PTL DEF Spec
-----------------------------------------------------------------------------
(* Induction over the natural numbers: a least one of any set of them.     *)
LEMMA LeastNatural ==
    ASSUME NEW T \in SUBSET Nat, T # {}
    PROVE  \E x \in T : \A y \in T : x <= y
<1> DEFINE R == OpToRel(<, Nat)
<1>1. IsWellFoundedOn(R, Nat)
  BY NatLessThanWellFounded
<1>2. \A x, y \in Nat : y < x => <<y, x>> \in R
  BY DEF OpToRel
<1> HIDE DEF R
<1>3. PICK x \in T : \A y \in T : ~(<<y, x>> \in R)
  BY <1>1, WFMin
<1>4. ASSUME NEW y \in T
      PROVE  x <= y
  <2>1. ~(<<y, x>> \in R) /\ x \in Nat /\ y \in Nat
    BY <1>3
  <2>2. ~(y < x)
    BY <1>2, <2>1
  <2> QED
    BY <2>1, <2>2
<1> QED
  BY <1>4

NoHash == "no hash"

(* In a trail that verifies, each hash is the events up to it.             *)
LEMMA HashIsHistory ==
    ASSUME NEW S, NEW log \in Seq(EventType(S)), Verifies(log), NEW i \in 1 .. Len(log)
    PROVE  /\ log[i].event_hash \in Seq(S \cup {NoHash})
           /\ Len(log[i].event_hash) = i
           /\ \A j \in 1 .. i : log[i].event_hash[j] = log[j].event
<1> DEFINE H == Seq(S \cup {NoHash})
           Tells(k) == /\ log[k].event_hash \in H
                       /\ Len(log[k].event_hash) = k
                       /\ \A j \in 1 .. k : log[k].event_hash[j] = log[j].event
           n == Len(log)
           Bad == {k \in 1 .. n : ~Tells(k)}
<1>1. n \in Nat /\ DOMAIN log = 1 .. n /\ \A k \in 1 .. n : log[k].event \in S
  <2>1. n \in Nat /\ DOMAIN log = 1 .. n /\ \A k \in 1 .. n : log[k] \in EventType(S)
    OBVIOUS
  <2> QED
    BY <2>1 DEF EventType
<1>2. ASSUME NEW p \in H, NEW e \in S
      PROVE  /\ Append(p, e) \in H /\ Len(Append(p, e)) = Len(p) + 1
             /\ \A j \in 1 .. Len(p) : Append(p, e)[j] = p[j]
             /\ Append(p, e)[Len(p) + 1] = e
  <2> DEFINE T == S \cup {NoHash}
  <2>1. p \in Seq(T) /\ e \in T
    BY <1>2
  <2> HIDE DEF T
  <2>2. /\ Append(p, e) \in Seq(T) /\ Len(Append(p, e)) = Len(p) + 1
        /\ \A j \in 1 .. Len(p) : Append(p, e)[j] = p[j]
        /\ Append(p, e)[Len(p) + 1] = e
    BY <2>1, AppendProperties
  <2> QED
    BY <2>2 DEF T
<1>3. ASSUME NEW k \in 1 .. n, k # 1 => Tells(k - 1)
      PROVE  Tells(k)
  <2> DEFINE p == IF k = 1 THEN Genesis ELSE log[k - 1].event_hash
             e == log[k].event
  <2>1. log[k].event_hash = Append(p, e)
    BY <1>1 DEF Verifies, EventHash
  <2>2. p \in H /\ Len(p) = k - 1 /\ \A j \in 1 .. k - 1 : p[j] = log[j].event
    <3>1. CASE k = 1
      <4>1. p = <<>>
        BY <3>1 DEF Genesis
      <4> QED
        BY <3>1, <4>1
    <3>2. CASE k # 1
      BY <1>3, <3>2
    <3> QED
      BY <3>1, <3>2
  <2>3. e \in S
    BY <1>1
  <2> HIDE DEF p, H
  <2>4. /\ Append(p, e) \in H /\ Len(Append(p, e)) = k
        /\ \A j \in 1 .. k - 1 : Append(p, e)[j] = log[j].event
        /\ Append(p, e)[k] = e
    BY <1>1, <1>2, <2>2, <2>3
  <2>5. \A j \in 1 .. k : j \in 1 .. k - 1 \/ j = k
    BY <1>1
  <2> QED
    BY <2>1, <2>4, <2>5
<1>4. Bad = {}
  <2> SUFFICES ASSUME Bad # {} PROVE FALSE
    OBVIOUS
  <2> HIDE DEF Tells
  <2>1. Bad \in SUBSET Nat
    BY <1>1
  <2>2. PICK k \in Bad : \A m \in Bad : k <= m
    <3> HIDE DEF Bad
    <3> QED
      BY <2>1, LeastNatural
  <2>3. k \in 1 .. n /\ ~Tells(k) /\ k \in Nat
    BY <1>1, <2>2
  <2>4. k # 1 => Tells(k - 1)
    <3> SUFFICES ASSUME k # 1, ~Tells(k - 1) PROVE FALSE
      OBVIOUS
    <3>1. k - 1 \in 1 .. n /\ ~(k <= k - 1)
      BY <1>1, <2>3
    <3> QED
      BY <2>2, <3>1
  <2> QED
    BY <1>3, <2>3, <2>4
<1> QED
  BY <1>4

(* So the last hash is the events of the trail. *)
LEMMA LastHashIsHistory ==
    ASSUME NEW S, \A x \in S : x # NoHash,
           NEW log \in Seq(EventType(S)), Verifies(log)
    PROVE  /\ Len(LastHash(log)) = Len(log) /\ Len(log) \in Nat
           /\ \A j \in 1 .. Len(log) : LastHash(log)[j] = log[j].event
<1> DEFINE n == Len(log)
<1>1. n \in Nat /\ (n = 0 <=> log = <<>>)
  OBVIOUS
<1>2. CASE n = 0
  BY <1>1, <1>2 DEF LastHash, Genesis
<1>3. CASE n # 0
  <2>1. n \in 1 .. n
    BY <1>1, <1>3
  <2>2. /\ Len(log[n].event_hash) = n
        /\ \A j \in 1 .. n : log[n].event_hash[j] = log[j].event
    BY <2>1, HashIsHistory
  <2>3. log[n].event_hash # NotHashed
    <3>1. log[n].event_hash[n] = log[n].event /\ log[n] \in EventType(S)
      BY <2>1, <2>2
    <3>2. log[n].event # NoHash
      BY <3>1 DEF EventType
    <3>3. Len(NotHashed) = 1 /\ NotHashed[1] = NoHash
      BY DEF NotHashed, NoHash
    <3> QED
      BY <2>2, <3>1, <3>2, <3>3
  <2>4. LastHash(log) = log[n].event_hash
    BY <1>1, <1>3, <2>3 DEF LastHash
  <2> QED
    BY <1>1, <2>2, <2>4
<1> QED
  BY <1>2, <1>3

(* The last hash commits to the whole trail: of all trails that verify, no *)
(* two end with the same hash.                                             *)
LEMMA LastHashCommits ==
    ASSUME NEW S, \A x \in S : x # NoHash,
           NEW a \in Seq(EventType(S)), Verifies(a),
           NEW b \in Seq(EventType(S)), Verifies(b),
           LastHash(a) = LastHash(b)
    PROVE  a = b
<1> DEFINE n == Len(a)
<1>2. Len(b) = n /\ n \in Nat
  BY LastHashIsHistory
<1>3. \A j \in 1 .. n : a[j].event = b[j].event
  BY <1>2, LastHashIsHistory
<1>4. \A j \in 1 .. n : a[j] \in EventType(S) /\ b[j] \in EventType(S)
  BY <1>2
<1>5. ASSUME NEW j \in 1 .. n
      PROVE  a[j].event_hash = b[j].event_hash
  <2> DEFINE H == Seq(S \cup {NoHash})
             g == a[j].event_hash
             h == b[j].event_hash
  <2>1. g \in H /\ Len(g) = j /\ \A i \in 1 .. j : g[i] = a[i].event
    BY HashIsHistory
  <2>2. h \in H /\ Len(h) = j /\ \A i \in 1 .. j : h[i] = b[i].event
    <3>1. j \in 1 .. Len(b)
      BY <1>2
    <3> QED
      BY <3>1, HashIsHistory
  <2>3. \A i \in 1 .. j : g[i] = h[i]
    <3>1. \A i \in 1 .. j : i \in 1 .. n
      BY <1>2
    <3> HIDE DEF g, h
    <3> QED
      BY <1>3, <2>1, <2>2, <3>1
  <2> HIDE DEF g, h
  <2>4. g = h
    BY <2>1, <2>2, <2>3, SeqEqual
  <2> QED
    BY <2>4 DEF g, h
<1>6. ASSUME NEW j \in 1 .. n
      PROVE  a[j].previous_hash = b[j].previous_hash
  <2>1. DOMAIN a = 1 .. n /\ DOMAIN b = 1 .. n
    BY <1>2
  <2>2. j # 1 => j - 1 \in 1 .. n
    BY <1>2
  <2> QED
    BY <1>5, <2>1, <2>2 DEF Verifies
<1>7. ASSUME NEW j \in 1 .. n
      PROVE  a[j] = b[j]
  BY <1>3, <1>4, <1>5, <1>6 DEF EventType
<1> QED
  BY <1>2, <1>7, SeqEqual

(* What another hand may write on the place of an event. *)
Forged == Events \cup {"altered"}

TrailCommitted(d) ==
    d # None /\ d.schema = "current" =>
        \A other \in Seq(EventType(Forged)) :
            Verifies(other) /\ LastHash(other) = LastHash(d.log) => other = d.log

TrailsCommitted ==
    ~crossed => TrailCommitted(live) /\ TrailCommitted(tmp) /\ \A f \in Files : TrailCommitted(disk[f])

LEMMA SoundCommits ==
    ASSUME NEW d \in DatabaseType, d.schema = "current" => Verifies(d.log)
    PROVE  TrailCommitted(d)
<1> SUFFICES ASSUME d.schema = "current", NEW other \in Seq(EventType(Forged)),
                    Verifies(other), LastHash(other) = LastHash(d.log)
             PROVE  other = d.log
  BY DEF TrailCommitted
<1>1. d.log \in Seq(EventType(Forged))
  <2>1. d.log \in Seq(EventType(Events))
    BY DEF DatabaseType
  <2>2. EventType(Events) \subseteq EventType(Forged)
    <3>1. HashType(Events) \subseteq HashType(Forged)
      <4>1. Events \cup {"no hash"} \subseteq Forged \cup {"no hash"}
        BY DEF Forged
      <4> QED
        BY <4>1, SeqMonotonic DEF HashType
    <3> QED
      BY <3>1 DEF EventType, Forged
  <2> HIDE DEF Forged
  <2> QED
    BY <2>1, <2>2, SeqMonotonic
<1>2. \A x \in Forged : x # NoHash
  BY DEF Forged, Events, NoHash
<1> QED
  BY <1>1, <1>2, LastHashCommits

(* Whoever has kept the last hash of a database's trail - of the live one, *)
(* or of any backup - can tell it from every other trail that verifies:    *)
(* however many events another hand changes, drops, moves or adds, and     *)
(* even if it computes all hashes anew, the last one differs (event_hash   *)
(* and verify_audit_chain; crossed restores excepted as above).            *)
THEOREM LastHashTellsAll == Spec => []TrailsCommitted
<1>1. IInv => TrailsCommitted
  <2> SUFFICES ASSUME IInv, ~crossed
               PROVE  TrailCommitted(live) /\ TrailCommitted(tmp)
                      /\ \A f \in Files : TrailCommitted(disk[f])
    BY DEF TrailsCommitted
  <2> USE DEF IInv, TypeOK, Trails, Sound
  <2>1. TrailCommitted(live)
    BY SoundCommits
  <2>2. TrailCommitted(tmp)
    <3>1. CASE tmp = None
      BY <3>1 DEF TrailCommitted
    <3>2. CASE tmp # None
      BY <3>2, SoundCommits
    <3> QED
      BY <3>1, <3>2
  <2>3. ASSUME NEW f \in Files
        PROVE  TrailCommitted(disk[f])
    <3>1. CASE disk[f] = None
      BY <3>1 DEF TrailCommitted
    <3>2. CASE disk[f] # None
      BY <3>2, SoundCommits
    <3> QED
      BY <3>1, <3>2
  <2> QED
    BY <2>1, <2>2, <2>3
<1> QED
  BY <1>1, InductiveInvariant, PTL

-----------------------------------------------------------------------------
(* Retention.                                                              *)

(* Unless a file resists, retention leaves the automatic backups alone     *)
(* while they are no more than Keep; else it leaves the newest Keep of     *)
(* them, and deletes the files of the others and no other file.            *)
RetentionExact ==
    \A t \in Handlers : Retain(t) /\ faults' = faults =>
        IF Cardinality(Automatic) <= Keep THEN UNCHANGED <<live, disk>>
        ELSE /\ Cardinality(Automatic') = Keep
             /\ Automatic' \subseteq Automatic
             /\ \A i \in Automatic', j \in Automatic \ Automatic' : j < i
             /\ \A f \in Files : disk'[f] # disk[f] =>
                    \E j \in Automatic \ Automatic' : live.rows[j].file = f

LEMMA GreatestNatural ==
    ASSUME NEW T \in SUBSET Nat, T # {}, NEW n \in Nat, \A x \in T : x <= n
    PROVE  \E x \in T : \A y \in T : y <= x
<1> DEFINE U == {n - x : x \in T}
<1>1. U \in SUBSET Nat /\ U # {}
  <2>1. \A x \in T : n - x \in Nat
    OBVIOUS
  <2> QED
    BY <2>1
<1>2. PICK u \in U : \A v \in U : u <= v
  <2> HIDE DEF U
  <2> QED
    BY <1>1, LeastNatural
<1>3. PICK x \in T : u = n - x
  OBVIOUS
<1>4. ASSUME NEW y \in T
      PROVE  y <= x
  <2>1. n - x <= n - y /\ x \in Nat /\ y \in Nat
    BY <1>2, <1>3
  <2> QED
    BY <2>1
<1> QED
  BY <1>4

Newer(A, i) == {j \in A : j > i}

(* The members that have fewer than k above them are the k greatest.       *)
LEMMA NewestFew ==
    ASSUME NEW A, IsFiniteSet(A), A \subseteq Nat, NEW n \in Nat, \A x \in A : x <= n,
           NEW k \in Nat \ {0}, NEW D \in SUBSET A,
           \A i \in A : i \in D <=> Cardinality(Newer(A, i)) >= k
    PROVE  /\ Cardinality(A) <= k => D = {}
           /\ Cardinality(A) > k => Cardinality(A \ D) = k
           /\ \A i \in A \ D, j \in D : j < i
<1> DEFINE Above(i) == Newer(A, i)
           K == A \ D
<1>0. /\ \A i \in A : i \in Nat
      /\ \A i, j : j \in Above(i) <=> j \in A /\ j > i
      /\ D \subseteq A
  BY DEF Newer
<1>1. ASSUME NEW B \in SUBSET A
      PROVE  IsFiniteSet(B) /\ Cardinality(B) \in Nat /\ Cardinality(B) <= Cardinality(A)
  BY FS_Subset, FS_CardinalityType
<1>2. \A i \in A : IsFiniteSet(Above(i)) /\ Cardinality(Above(i)) \in Nat
  <2>1. \A i \in A : Above(i) \in SUBSET A
    BY <1>0
  <2> HIDE DEF Above
  <2> QED
    BY <1>1, <2>1
<1>3. \A i \in A : i \in D <=> Cardinality(Above(i)) >= k
  OBVIOUS
<1>4. \A i \in K, j \in D : j < i
  <2> SUFFICES ASSUME NEW i \in K, NEW j \in D, ~(j < i) PROVE FALSE
    OBVIOUS
  <2>1. Above(j) \in SUBSET Above(i)
    <3>1. i \in Nat /\ j \in Nat /\ \A x \in A : x \in Nat /\ (x > j => x > i)
      BY <1>0
    <3> HIDE DEF Above
    <3> QED
      BY <1>0, <3>1
  <2>2. Cardinality(Above(j)) <= Cardinality(Above(i))
    <3> HIDE DEF Above
    <3> QED
      BY <1>2, <2>1, FS_Subset
  <2> HIDE DEF Above
  <2> QED
    BY <1>2, <1>3, <2>2
<1>5. Cardinality(K) <= k
  <2>1. CASE K = {}
    <3> HIDE DEF K
    <3> QED
      BY <2>1, FS_EmptySet
  <2>2. CASE K # {}
    <3>1. PICK m \in K : \A y \in K : m <= y
      BY <2>2, LeastNatural
    <3>2. K \in SUBSET (Above(m) \cup {m})
      <4>1. \A y \in K : y \in A /\ (y > m \/ y = m)
        BY <1>0, <3>1
      <4> HIDE DEF Above
      <4> QED
        BY <1>0, <4>1
    <3>3. m \in A /\ Cardinality(Above(m)) < k /\ m \notin Above(m)
      <4>1. m \in A /\ m \notin D
        OBVIOUS
      <4> QED
        BY <1>0, <1>2, <1>3, <4>1
    <3>4. IsFiniteSet(Above(m) \cup {m}) /\ Cardinality(Above(m) \cup {m}) = Cardinality(Above(m)) + 1
      BY <1>2, <3>3, FS_AddElement
    <3>5. Cardinality(K) <= Cardinality(Above(m) \cup {m})
      BY <3>2, <3>4, FS_Subset
    <3>6. Cardinality(K) \in Nat
      BY <1>1
    <3> HIDE DEF Above, K
    <3> QED
      BY <1>2, <3>3, <3>4, <3>5, <3>6
  <2> QED
    BY <2>1, <2>2
<1>6. D # {} => Cardinality(K) >= k /\ Cardinality(A) > k
  <2> SUFFICES ASSUME D # {} PROVE Cardinality(K) >= k /\ Cardinality(A) > k
    OBVIOUS
  <2>1. PICK m \in D : \A y \in D : y <= m
    BY GreatestNatural
  <2>2. Above(m) \in SUBSET K
    <3>1. \A y \in A : y > m => y \notin D
      BY <1>0, <2>1
    <3> HIDE DEF Above
    <3> QED
      BY <1>0, <3>1
  <2>3. Cardinality(Above(m)) <= Cardinality(K) /\ Cardinality(K) \in Nat
    <3>1. IsFiniteSet(K) /\ Cardinality(K) \in Nat
      BY <1>1
    <3> HIDE DEF Above, K
    <3> QED
      BY <2>2, <3>1, FS_Subset
  <2>4. Cardinality(Above(m) \cup {m}) = Cardinality(Above(m)) + 1
    <3>1. m \notin Above(m) /\ m \in A
      BY <1>0
    <3> HIDE DEF Above
    <3> QED
      BY <1>2, <3>1, FS_AddElement
  <2>5. Above(m) \cup {m} \in SUBSET A
    BY <1>0
  <2>6. Cardinality(Above(m) \cup {m}) <= Cardinality(A) /\ Cardinality(A) \in Nat
    <3> HIDE DEF Above
    <3> QED
      BY <1>1, <2>5, FS_CardinalityType
  <2>7. Cardinality(Above(m)) >= k /\ Cardinality(Above(m)) \in Nat
    BY <1>2, <1>3
  <2> HIDE DEF Above, K
  <2> QED
    BY <2>3, <2>4, <2>6, <2>7
<1>7. D = {} => Cardinality(A) <= k
  BY <1>5
<1>8. Cardinality(K) \in Nat /\ Cardinality(A) \in Nat
  BY <1>1
<1> HIDE DEF Above
<1> QED
  BY <1>4, <1>5, <1>6, <1>7, <1>8

LEMMA RetainExact ==
    ASSUME IInv, NEW t \in Handlers, Retain(t), faults' = faults
    PROVE  IF Cardinality(Automatic) <= Keep THEN UNCHANGED <<live, disk>>
           ELSE /\ Cardinality(Automatic') = Keep
                /\ Automatic' \subseteq Automatic
                /\ \A i \in Automatic', j \in Automatic \ Automatic' : j < i
                /\ \A f \in Files : disk'[f] # disk[f] =>
                       \E j \in Automatic \ Automatic' : live.rows[j].file = f
<1> DEFINE n == Len(live.rows)
<1>1. /\ live.rows \in Seq(RowType) /\ n \in Nat /\ DOMAIN live.rows = 1 .. n
      /\ live \in DatabaseType /\ \A i \in 1 .. n : live.rows[i] \in RowType
  <2>1. live \in DatabaseType /\ live.rows \in Seq(RowType)
    BY DEF IInv, TypeOK, DatabaseType
  <2> QED
    BY <2>1
<1>2. disk' = Without(Excess) /\ live' = [live EXCEPT !.rows = Expiring(Excess)]
  <2>1. PICK S \in SUBSET Excess : /\ faults' = IF S = Excess THEN faults ELSE faults + 1
                                   /\ disk' = Without(S)
                                   /\ live' = [live EXCEPT !.rows = Expiring(S)]
    BY DEF Retain
  <2>2. faults \in Int
    BY DEF IInv, TypeOK
  <2>3. S = Excess
    BY <2>1, <2>2
  <2> QED
    BY <2>1, <2>3
<1>3. /\ IsFiniteSet(Automatic) /\ Automatic \subseteq Nat
      /\ \A x \in Automatic : x <= n /\ x \in 1 .. n
  <2>1. Automatic \subseteq 1 .. n
    BY <1>1 DEF Automatic
  <2>2. IsFiniteSet(1 .. n)
    BY <1>1, FS_Interval
  <2>3. IsFiniteSet(Automatic)
    BY <2>1, <2>2, FS_Subset
  <2> HIDE DEF n
  <2>4. \A x \in 1 .. n : x \in Nat /\ x <= n
    BY <1>1
  <2> QED
    BY <2>1, <2>3, <2>4
<1>4. Keep \in Nat \ {0}
  BY ConstantsAssumption
<1>5. /\ Cardinality(Automatic) <= Keep => Excess = {}
      /\ Cardinality(Automatic) > Keep => Cardinality(Automatic \ Excess) = Keep
      /\ \A i \in Automatic \ Excess, j \in Excess : j < i
  <2>1. Excess = {i \in Automatic : Cardinality({j \in Automatic : j > i}) >= Keep}
    BY DEF Excess
  <2> DEFINE A == Automatic
             D == Excess
  <2>2. D \in SUBSET A /\ \A i \in A : i \in D <=> Cardinality(Newer(A, i)) >= Keep
    BY <2>1 DEF Newer
  <2>3. IsFiniteSet(A) /\ A \subseteq Nat /\ n \in Nat /\ \A x \in A : x <= n
    BY <1>1, <1>3
  <2> HIDE DEF n, A, D
  <2>4. /\ Cardinality(A) <= Keep => D = {}
        /\ Cardinality(A) > Keep => Cardinality(A \ D) = Keep
        /\ \A i \in A \ D, j \in D : j < i
    BY <1>4, <2>2, <2>3, NewestFew
  <2> QED
    BY <2>4 DEF A, D
<1>6. /\ DOMAIN live'.rows = 1 .. n
      /\ \A i \in 1 .. n : live'.rows[i] = IF i \in Excess THEN [live.rows[i] EXCEPT !.status = "expired"]
                                           ELSE live.rows[i]
  <2>1. live'.rows = Expiring(Excess)
    BY <1>1, <1>2 DEF DatabaseType
  <2> QED
    BY <1>1, <2>1 DEF Expiring
<1>7. Excess \subseteq Automatic
  BY DEF Excess
<1>8. Automatic' = Automatic \ Excess
  <2>1. \A i \in 1 .. n : /\ i \in Excess => live'.rows[i].status = "expired"
                          /\ i \notin Excess => live'.rows[i] = live.rows[i]
    BY <1>1, <1>6 DEF RowType
  <2> HIDE DEF n
  <2> QED
    BY <1>1, <1>6, <1>7, <2>1 DEF Automatic
<1>9. CASE Cardinality(Automatic) <= Keep
  <2>1. Excess = {}
    BY <1>5, <1>9
  <2>2. disk' = disk
    BY <1>2, <2>1 DEF Without, IInv, TypeOK
  <2>3. live' = live
    <3>1. Expiring(Excess) = live.rows
      BY <1>1, <2>1 DEF Expiring
    <3> QED
      BY <1>1, <1>2, <3>1 DEF DatabaseType
  <2> QED
    BY <1>9, <2>2, <2>3
<1>10. CASE ~(Cardinality(Automatic) <= Keep)
  <2>1. Cardinality(Automatic) > Keep
    <3>1. Cardinality(Automatic) \in Nat
      BY <1>3, FS_CardinalityType
    <3> QED
      BY <1>4, <1>10, <3>1
  <2>2. Automatic \ Automatic' = Excess
    BY <1>7, <1>8
  <2>3. \A f \in Files : disk'[f] # disk[f] => \E j \in Excess : live.rows[j].file = f
    BY <1>2 DEF Without, IInv, TypeOK
  <2> QED
    BY <1>5, <1>8, <1>10, <2>1, <2>2, <2>3
<1> QED
  BY <1>9, <1>10

(* Retention keeps the newest Keep automatic backups, no more and no       *)
(* fewer, whatever was restored, listed or deleted before: an older table  *)
(* that a restore brought back, rows whose file once resisted, backups of  *)
(* other handlers (_apply_retention, backup_service.py 52-65).             *)
THEOREM RetentionKeepsNewest == Spec => [][RetentionExact]_vars
<1>1. IInv => RetentionExact
  BY RetainExact DEF RetentionExact
<1> QED
  BY <1>1, InductiveInvariant, PTL
=============================================================================
