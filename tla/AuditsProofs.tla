---------------------------- MODULE AuditsProofs ----------------------------
(***************************************************************************)
(* For every content of the tables: a report "Low" has no serious finding, *)
(* exposed rows are reported, more findings never make a better score, and *)
(* an environment that only gets worse is never given a better one.        *)
(***************************************************************************)
EXTENDS Audits, FiniteSetTheorems, FunctionTheorems, SequenceTheorems, TLAPS

-----------------------------------------------------------------------------
(* Findings are finite in number, so that they can be counted.             *)

LEMMA ImageFinite ==
    ASSUME NEW S, IsFiniteSet(S), NEW g
    PROVE  IsFiniteSet({g[x] : x \in S})
<1> DEFINE T == {g[x] : x \in S}
           h == [x \in S |-> g[x]]
<1>1. h \in [S -> T]
  OBVIOUS
<1>2. \A t \in T : \E x \in S : h[x] = t
  OBVIOUS
<1>3. h \in Surjection(S, T)
  BY <1>1, <1>2 DEF Surjection
<1> QED
  BY <1>3, FS_Surjection

LEMMA UnionFinite ==
    ASSUME NEW S, IsFiniteSet(S), NEW g, \A x \in S : IsFiniteSet(g[x])
    PROVE  IsFiniteSet(UNION {g[x] : x \in S})
<1>1. IsFiniteSet({g[x] : x \in S})
  BY ImageFinite
<1>2. \A T \in {g[x] : x \in S} : IsFiniteSet(T)
  OBVIOUS
<1> QED
  BY <1>1, <1>2, FS_UNION

LEMMA RowFindingsFinite ==
    ASSUME NEW found, IsFiniteSet(DOMAIN found), \A i \in DOMAIN found : IsFiniteSet(found[i])
    PROVE  IsFiniteSet(RowFindings(found))
<1> DEFINE Of(i) == {Finding(i, f[1], f[2]) : f \in found[i]}
           g == [i \in DOMAIN found |-> Of(i)]
<1>1. ASSUME NEW i \in DOMAIN found
      PROVE  IsFiniteSet(Of(i))
  <2> DEFINE h == [f \in found[i] |-> Finding(i, f[1], f[2])]
  <2>1. IsFiniteSet({h[f] : f \in found[i]})
    BY ImageFinite
  <2>2. {h[f] : f \in found[i]} = Of(i)
    OBVIOUS
  <2> QED
    BY <2>1, <2>2
<1>2. \A i \in DOMAIN found : IsFiniteSet(g[i])
  BY <1>1
<1>3. IsFiniteSet(UNION {g[i] : i \in DOMAIN found})
  BY <1>2, UnionFinite
<1>4. {g[i] : i \in DOMAIN found} = {Of(i) : i \in DOMAIN found}
  OBVIOUS
<1> QED
  BY <1>3, <1>4 DEF RowFindings

LEMMA WhenFinite ==
    ASSUME NEW c, NEW t, NEW s
    PROVE  IsFiniteSet(When(c, t, s))
BY FS_EmptySet, FS_Singleton DEF When

LEMMA RowsFinite ==
    ASSUME NEW R, NEW table \in Seq(R)
    PROVE  IsFiniteSet(DOMAIN table)
<1>1. DOMAIN table = 1 .. Len(table) /\ Len(table) \in Nat
  OBVIOUS
<1> QED
  BY <1>1, FS_Interval

LEMMA UsersFinite ==
    ASSUME NEW R, NEW table \in Seq(R)
    PROVE  IsFiniteSet(AnalyzeUsers(table))
<1> DEFINE found == [i \in DOMAIN table |-> UserFindings(table[i])]
<1>1. \A i \in DOMAIN table : IsFiniteSet(UserFindings(table[i]))
  BY WhenFinite, FS_Union DEF UserFindings
<1>2. IsFiniteSet(DOMAIN found)
  BY RowsFinite
<1>3. \A i \in DOMAIN found : IsFiniteSet(found[i])
  BY <1>1
<1> HIDE DEF found
<1>4. IsFiniteSet(RowFindings(found))
  BY <1>2, <1>3, RowFindingsFinite
<1> QED
  BY <1>4 DEF AnalyzeUsers, found

LEMMA CloudFinite ==
    ASSUME NEW R, NEW table \in Seq(R)
    PROVE  IsFiniteSet(AnalyzeCloudRules(table))
<1> DEFINE found == [i \in DOMAIN table |-> CloudFindings(table[i], NormalisePort(table, i))]
<1>1. \A i \in DOMAIN table : IsFiniteSet(CloudFindings(table[i], NormalisePort(table, i)))
  BY WhenFinite, FS_Union DEF CloudFindings
<1>2. IsFiniteSet(DOMAIN found)
  BY RowsFinite
<1>3. \A i \in DOMAIN found : IsFiniteSet(found[i])
  BY <1>1
<1> HIDE DEF found
<1>4. IsFiniteSet(RowFindings(found))
  BY <1>2, <1>3, RowFindingsFinite
<1> QED
  BY <1>4 DEF AnalyzeCloudRules, found

LEMMA FirewallFinite ==
    ASSUME NEW R, NEW table \in Seq(R)
    PROVE  IsFiniteSet(AnalyzeFirewallRules(table))
<1> DEFINE found == [i \in DOMAIN table |-> FirewallFindings(table[i], NormalisePort(table, i))]
<1>1. ASSUME NEW r, NEW port
      PROVE  IsFiniteSet(FirewallFindings(r, port))
  <2> DEFINE open == r.action = "allow" /\ r.source \in FirewallPublicSources
             admin == open /\ port \in AdminPorts
             severity == IF port = 3389 THEN "Critical" ELSE "High"
             A == When(open /\ r.destination \in AnyDestination, "Overly broad allow rule", "Critical")
             B == When(admin, "Public administrative access", severity)
             C == When(open /\ port \in DatabasePorts, "Database port exposed", "Critical")
             D == When(~r.described, "Rule without description", "Low")
  <2>1. IsFiniteSet(A) /\ IsFiniteSet(C) /\ IsFiniteSet(D)
    BY WhenFinite
  <2>2. IsFiniteSet(B)
    <3> HIDE DEF admin, severity
    <3> QED
      BY WhenFinite
  <2>3. FirewallFindings(r, port) = A \cup B \cup C \cup D
    BY DEF FirewallFindings
  <2> HIDE DEF A, B, C, D
  <2> QED
    BY <2>1, <2>2, <2>3, FS_Union
<1>2. IsFiniteSet(DOMAIN found)
  BY RowsFinite
<1>3. \A i \in DOMAIN found : IsFiniteSet(found[i])
  BY <1>1
<1> HIDE DEF found
<1>4. IsFiniteSet(RowFindings(found))
  BY <1>2, <1>3, RowFindingsFinite
<1> QED
  BY <1>4 DEF AnalyzeFirewallRules, found

LEMMA BackupsFinite ==
    ASSUME NEW R, NEW table \in Seq(R)
    PROVE  IsFiniteSet(AnalyzeBackups(table))
<1> DEFINE found == [i \in DOMAIN table |-> BackupFindings(table[i])]
<1>1. \A i \in DOMAIN table : IsFiniteSet(BackupFindings(table[i]))
  BY WhenFinite, FS_Union DEF BackupFindings
<1>2. IsFiniteSet(DOMAIN found)
  BY RowsFinite
<1>3. \A i \in DOMAIN found : IsFiniteSet(found[i])
  BY <1>1
<1> HIDE DEF found
<1>4. IsFiniteSet(RowFindings(found))
  BY <1>2, <1>3, RowFindingsFinite
<1> QED
  BY <1>4 DEF AnalyzeBackups, found

LEMMA DevicesFinite ==
    ASSUME NEW R, NEW table \in Seq(R)
    PROVE  IsFiniteSet(AnalyzeDevices(table))
<1> DEFINE found == [i \in DOMAIN table |-> DeviceFindings(table[i])]
           ips == [i \in DOMAIN table |-> table[i].ip]
           reported == [ip \in Duplicates(table) |-> Finding(ip, "Duplicate IP address", "High")]
<1>1. \A i \in DOMAIN table : IsFiniteSet(DeviceFindings(table[i]))
  BY WhenFinite, FS_Union DEF DeviceFindings
<1>2. IsFiniteSet(DOMAIN found) /\ IsFiniteSet(DOMAIN table)
  BY RowsFinite
<1>3. \A i \in DOMAIN found : IsFiniteSet(found[i])
  BY <1>1
<1>4. IsFiniteSet({ips[i] : i \in DOMAIN table})
  BY <1>2, ImageFinite
<1>5. Duplicates(table) \in SUBSET {ips[i] : i \in DOMAIN table}
  BY DEF Duplicates
<1>6. IsFiniteSet(Duplicates(table))
  BY <1>4, <1>5, FS_Subset
<1>7. IsFiniteSet({reported[ip] : ip \in Duplicates(table)})
  BY <1>6, ImageFinite
<1>8. {reported[ip] : ip \in Duplicates(table)}
        = {Finding(ip, "Duplicate IP address", "High") : ip \in Duplicates(table)}
  OBVIOUS
<1> HIDE DEF found
<1>9. IsFiniteSet(RowFindings(found))
  BY <1>2, <1>3, RowFindingsFinite
<1> QED
  BY <1>7, <1>8, <1>9, FS_Union DEF AnalyzeDevices, found

LEMMA HostFindingsFinite ==
    ASSUME NEW host, IsFiniteSet(host.services)
    PROVE  IsFiniteSet(HostFindings(host))
<1> DEFINE open == OpenServices(host)
           risky == {t \in open : t.number \in RiskyPorts}
           about == [s \in risky |-> <<<<"Service exposed", s.number, s.protocol>>, SeverityOf(s.number)>>]
           many == When(ManyServices(Cardinality(open)), <<"Many exposed services">>, "Medium")
<1>1. risky \in SUBSET host.services
  BY DEF OpenServices
<1>2. IsFiniteSet(risky)
  BY <1>1, FS_Subset
<1>3. IsFiniteSet({about[s] : s \in risky})
  BY <1>2, ImageFinite
<1>4. {about[s] : s \in risky}
        = {<<<<"Service exposed", s.number, s.protocol>>, SeverityOf(s.number)>> : s \in risky}
  OBVIOUS
<1>5. IsFiniteSet(many)
  BY WhenFinite
<1> HIDE DEF many, about, risky
<1>6. IsFiniteSet({about[s] : s \in risky} \cup many)
  BY <1>3, <1>5, FS_Union
<1>7. IsFiniteSet({<<<<"No open services">>, "Low">>})
  BY FS_Singleton
<1>8. HostFindings(host) = IF open = {} THEN {<<<<"No open services">>, "Low">>}
                           ELSE {about[s] : s \in risky} \cup many
  BY <1>4 DEF HostFindings, many, risky
<1> QED
  BY <1>6, <1>7, <1>8

LEMMA HostsFinite ==
    ASSUME NEW R, \A node \in R : IsFiniteSet(node.ports), NEW table \in Seq(R)
    PROVE  IsFiniteSet(AnalyzeHosts(table))
<1> DEFINE found == [i \in DOMAIN table |-> NodeFindings(table[i])]
<1>1. ASSUME NEW i \in DOMAIN table
      PROVE  IsFiniteSet(NodeFindings(table[i]))
  <2> DEFINE kept == {p \in table[i].ports : p.number # 0}
             parsed == [s \in kept |-> [s EXCEPT !.state = Known(s.state)]]
  <2>1. IsFiniteSet(table[i].ports)
    OBVIOUS
  <2>2. IsFiniteSet(kept)
    BY <2>1, FS_Subset
  <2>3. ParseHost(table[i]).services = {parsed[s] : s \in kept}
    BY DEF ParseHost
  <2> HIDE DEF parsed, kept
  <2>4. IsFiniteSet({parsed[s] : s \in kept})
    BY <2>2, ImageFinite
  <2>5. IsFiniteSet(HostFindings(ParseHost(table[i])))
    BY <2>3, <2>4, HostFindingsFinite
  <2> QED
    BY <2>5, FS_EmptySet DEF NodeFindings
<1>2. IsFiniteSet(DOMAIN found)
  BY RowsFinite
<1>3. \A i \in DOMAIN found : IsFiniteSet(found[i])
  BY <1>1
<1> HIDE DEF found
<1>4. IsFiniteSet(RowFindings(found))
  BY <1>2, <1>3, RowFindingsFinite
<1> QED
  BY <1>4 DEF AnalyzeHosts, found

LEMMA FindingsFinite ==
    ASSUME NEW k \in Kinds, NEW table \in Seq(Rows[k])
    PROVE  IsFiniteSet(FindingsOf(k, table))
<1>1. CASE k = "users"
  BY <1>1, UsersFinite DEF FindingsOf
<1>2. CASE k = "cloud"
  BY <1>2, CloudFinite DEF FindingsOf
<1>3. CASE k = "firewall"
  BY <1>3, FirewallFinite DEF FindingsOf
<1>4. CASE k = "backups"
  BY <1>4, BackupsFinite DEF FindingsOf
<1>5. CASE k = "devices"
  BY <1>5, DevicesFinite DEF FindingsOf
<1>6. CASE k = "hosts"
  BY <1>6, HostsFinite, RowsAssumption DEF FindingsOf
<1> QED
  BY <1>1, <1>2, <1>3, <1>4, <1>5, <1>6 DEF Kinds

-----------------------------------------------------------------------------
(* What findings cost.                                                     *)

LEMMA CountType ==
    ASSUME NEW F, IsFiniteSet(F), NEW severity
    PROVE  /\ Count(F, severity) \in Nat
           /\ (\E f \in F : f.severity = severity) => Count(F, severity) >= 1
<1> DEFINE S == {f \in F : f.severity = severity}
<1>1. IsFiniteSet(S)
  BY FS_Subset
<1>2. Cardinality(S) \in Nat /\ (Cardinality(S) = 0 <=> S = {})
  BY <1>1, FS_CardinalityType, FS_EmptySet
<1> QED
  BY <1>2 DEF Count

LEMMA PenaltyType ==
    ASSUME NEW F, IsFiniteSet(F)
    PROVE  Penalty(F) \in Nat /\ Score(F) \in 0 .. 100
<1>1. /\ Count(F, "Critical") \in Nat /\ Count(F, "High") \in Nat
      /\ Count(F, "Medium") \in Nat /\ Count(F, "Low") \in Nat
  BY CountType
<1> HIDE DEF Count
<1>2. Penalty(F) \in Nat
  BY <1>1 DEF Penalty
<1> QED
  BY <1>2 DEF Score

(* A High or Critical finding costs at least 15 points.                    *)
LEMMA SeriousCost ==
    ASSUME NEW F, IsFiniteSet(F), NEW f \in F, f.severity \in {"High", "Critical"}
    PROVE  Score(F) <= 85
<1>1. /\ Count(F, "Critical") \in Nat /\ Count(F, "High") \in Nat
      /\ Count(F, "Medium") \in Nat /\ Count(F, "Low") \in Nat
  BY CountType
<1>2. Count(F, "Critical") >= 1 \/ Count(F, "High") >= 1
  BY CountType
<1> HIDE DEF Count
<1>3. Penalty(F) \in Nat /\ Penalty(F) >= 15
  BY <1>1, <1>2 DEF Penalty
<1> QED
  BY <1>3 DEF Score

(* More findings never make a better score (calculate_score of both        *)
(* programs): so a table that only grows, with an analyzer that looks at   *)
(* one row at a time, is never rewarded.                                   *)
THEOREM MoreIsNeverBetter ==
    ASSUME NEW G, IsFiniteSet(G), NEW F \in SUBSET G
    PROVE  Score(G) <= Score(F)
<1>1. ASSUME NEW severity
      PROVE  /\ Count(F, severity) \in Nat /\ Count(G, severity) \in Nat
             /\ Count(F, severity) <= Count(G, severity)
  <2>1. {f \in F : f.severity = severity} \in SUBSET {f \in G : f.severity = severity}
    OBVIOUS
  <2>2. IsFiniteSet({f \in G : f.severity = severity}) /\ IsFiniteSet(F)
    BY FS_Subset
  <2> QED
    BY <2>1, <2>2, FS_Subset, CountType DEF Count
<1> HIDE DEF Count
<1>2. Penalty(F) \in Nat /\ Penalty(G) \in Nat /\ Penalty(F) <= Penalty(G)
  BY <1>1 DEF Penalty
<1> QED
  BY <1>2 DEF Score

(* A label "Low" is given from 86 points upwards only.                     *)
LEMMA LowFrom86 ==
    ASSUME NEW score \in 0 .. 100, Label(score) = "Low"
    PROVE  score > 85
BY DEF Label

-----------------------------------------------------------------------------
(* A report is always what its rows give.                                  *)
IInv ==
    /\ kind \in Kinds
    /\ rows \in Seq(Rows[kind])
    /\ report.rows \in Seq(Rows[kind])
    /\ report = Report(kind, report.rows)

LEMMA ReportRows ==
    ASSUME NEW k, NEW table
    PROVE  Report(k, table).rows = table
BY DEF Report

LEMMA Initially == Init => IInv
<1> SUFFICES ASSUME Init PROVE IInv
  OBVIOUS
<1>1. <<>> \in Seq(Rows[kind])
  OBVIOUS
<1>2. report.rows = <<>>
  BY ReportRows DEF Init
<1> QED
  BY <1>1, <1>2 DEF Init, IInv

LEMMA Preserved == IInv /\ [Next]_vars => IInv'
<1> SUFFICES ASSUME IInv, [Next]_vars PROVE IInv'
  OBVIOUS
<1> USE DEF IInv
<1>1. ASSUME NEW r \in Rows[kind], AddRow(r) PROVE IInv'
  <2>1. Append(rows, r) \in Seq(Rows[kind])
    BY AppendProperties
  <2> QED
    BY <1>1, <2>1 DEF AddRow, Unchanged
<1>2. ASSUME NEW r \in Rows[kind], NEW i \in DOMAIN rows, ChangeRow(i, r) PROVE IInv'
  <2>1. [rows EXCEPT ![i] = r] \in Seq(Rows[kind])
    OBVIOUS
  <2> QED
    BY <1>2, <2>1 DEF ChangeRow, Unchanged
<1>3. ASSUME RemoveLast PROVE IInv'
  <2>1. SubSeq(rows, 1, Len(rows) - 1) \in Seq(Rows[kind])
    <3> DEFINE n == Len(rows) - 1
    <3>1. 1 \in Int /\ n \in Int /\ \A i \in 1 .. n : rows[i] \in Rows[kind]
      OBVIOUS
    <3> HIDE DEF n
    <3>2. SubSeq(rows, 1, n) \in Seq(Rows[kind])
      BY <3>1, SubSeqProperties, Zenon
    <3> QED
      BY <3>2 DEF n
  <2> QED
    BY <1>3, <2>1 DEF RemoveLast, Unchanged
<1>4. ASSUME RunAudit PROVE IInv'
  BY <1>4, ReportRows DEF RunAudit
<1>5. ASSUME UNCHANGED vars PROVE IInv'
  BY <1>5 DEF vars
<1> QED
  BY <1>1, <1>2, <1>3, <1>4, <1>5 DEF Next

THEOREM InductiveInvariant == Spec => []IInv
BY Initially, Preserved, PTL DEF Spec

LEMMA LowIsHonest == IInv => LowMeansLow
<1> SUFFICES ASSUME IInv, report.label = "Low", NEW f \in report.findings,
                    f.severity \in {"High", "Critical"}
             PROVE  FALSE
  BY DEF LowMeansLow
<1> DEFINE F == FindingsOf(kind, report.rows)
<1>1. /\ report.findings = F
      /\ report.label = Label(Score(F))
  BY DEF IInv, Report
<1>2. IsFiniteSet(F)
  BY FindingsFinite DEF IInv
<1> HIDE DEF F
<1>3. Score(F) \in 0 .. 100 /\ Score(F) <= 85
  BY <1>1, <1>2, PenaltyType, SeriousCost
<1> QED
  BY <1>1, <1>3, LowFrom86

(* LowMeansLow: what a severity costs and where the label "Low" begins fit *)
(* together, whatever the tables hold.                                     *)
THEOREM LowIsLow == Spec => []LowMeansLow
BY InductiveInvariant, LowIsHonest, PTL

-----------------------------------------------------------------------------
(* Exposed rows are reported.                                              *)

LEMMA RowReported ==
    ASSUME NEW found, NEW i \in DOMAIN found, NEW f \in found[i], f[2] \in {"Critical", "High"}
    PROVE  \E g \in RowFindings(found) : g.subject = i /\ g.severity \in {"Critical", "High"}
<1>1. Finding(i, f[1], f[2]) \in RowFindings(found)
  BY DEF RowFindings
<1> QED
  BY <1>1 DEF Finding

LEMMA CloudReported ==
    ASSUME NEW table \in Seq(Rows["cloud"]), NEW i \in DOMAIN table, Exposed("cloud", table, i)
    PROVE  \E g \in AnalyzeCloudRules(table) : g.subject = i /\ g.severity \in {"Critical", "High"}
<1> DEFINE r == table[i]
           port == NormalisePort(table, i)
<1>1. /\ r.direction = "inbound" /\ r.access = "allow" /\ r.source \in CloudPublicSources
      /\ \E n \in CriticalPorts \cup HighPorts : Covers(r.port, n)
  BY DEF Exposed, Everyone, CloudPublicSources
<1>2. port = NoPort \/ port \in CriticalPorts \cup HighPorts
  <2>1. CASE port # NoPort
    <3>1. r.port.form = "number" /\ port = r.port.first
      BY <2>1 DEF NormalisePort
    <3>2. r \in Rows["cloud"]
      OBVIOUS
    <3>3. r.port.first \in Int /\ r.port.last = r.port.first
      BY <3>1, <3>2, RowsAssumption
    <3> QED
      BY <1>1, <3>1, <3>3 DEF Covers, CriticalPorts, HighPorts
  <2> QED
    BY <2>1
<1>3. \E f \in CloudFindings(r, port) : f[2] \in {"Critical", "High"}
  <2>1. CASE port = NoPort
    <3>1. <<"Allows all public inbound traffic", "Critical">> \in CloudFindings(r, port)
      BY <1>1, <2>1 DEF CloudFindings, When
    <3> QED
      BY <3>1
  <2>2. CASE port \in CriticalPorts
    <3>1. <<"Public critical service", "Critical">> \in CloudFindings(r, port)
      BY <1>1, <2>2 DEF CloudFindings, When
    <3> QED
      BY <3>1
  <2>3. CASE port \in HighPorts
    <3>1. <<"Public administrative service", "High">> \in CloudFindings(r, port)
      BY <1>1, <2>3 DEF CloudFindings, When
    <3> QED
      BY <3>1
  <2> QED
    BY <1>2, <2>1, <2>2, <2>3
<1> DEFINE found == [j \in DOMAIN table |-> CloudFindings(table[j], NormalisePort(table, j))]
<1>4. i \in DOMAIN found /\ found[i] = CloudFindings(r, port)
  OBVIOUS
<1> HIDE DEF found
<1> QED
  BY <1>3, <1>4, RowReported DEF AnalyzeCloudRules, found

LEMMA FirewallReported ==
    ASSUME NEW table \in Seq(Rows["firewall"]), NEW i \in DOMAIN table,
           Exposed("firewall", table, i), ~Missed("firewall", table, i)
    PROVE  \E g \in AnalyzeFirewallRules(table) : g.subject = i /\ g.severity \in {"Critical", "High"}
<1> DEFINE r == table[i]
           port == NormalisePort(table, i)
<1>1. /\ r.action = "allow" /\ r.source \in FirewallPublicSources
      /\ r.destination \in AnyDestination \/ (r.port.form = "number" /\ ~ReadAsFloats(table))
  BY DEF Exposed, Missed, Everyone, FirewallPublicSources
<1>2. r.port.form = "number" /\ ~ReadAsFloats(table) => port \in AdminPorts \cup DatabasePorts
  <2>1. r \in Rows["firewall"] /\ \E n \in AdminPorts \cup DatabasePorts : Covers(r.port, n)
    BY DEF Exposed
  <2>2. r.port.form = "number" => r.port.first \in Int /\ r.port.last = r.port.first
    BY <2>1, RowsAssumption
  <2> QED
    BY <2>1, <2>2 DEF NormalisePort, Covers, AdminPorts, DatabasePorts
<1>3. \E f \in FirewallFindings(r, port) : f[2] \in {"Critical", "High"}
  <2>1. CASE port \in AdminPorts
    <3> DEFINE severity == IF port = 3389 THEN "Critical" ELSE "High"
    <3>1. <<"Public administrative access", severity>> \in FirewallFindings(r, port)
      BY <1>1, <2>1 DEF FirewallFindings, When
    <3>2. severity \in {"Critical", "High"}
      OBVIOUS
    <3> HIDE DEF severity
    <3> QED
      BY <3>1, <3>2
  <2>2. CASE port \in DatabasePorts
    <3>1. <<"Database port exposed", "Critical">> \in FirewallFindings(r, port)
      BY <1>1, <2>2 DEF FirewallFindings, When
    <3> QED
      BY <3>1
  <2>3. CASE r.destination \in AnyDestination
    <3>1. <<"Overly broad allow rule", "Critical">> \in FirewallFindings(r, port)
      BY <1>1, <2>3 DEF FirewallFindings, When
    <3> QED
      BY <3>1
  <2> QED
    BY <1>1, <1>2, <2>1, <2>2, <2>3
<1> DEFINE found == [j \in DOMAIN table |-> FirewallFindings(table[j], NormalisePort(table, j))]
<1>4. i \in DOMAIN found /\ found[i] = FirewallFindings(r, port)
  OBVIOUS
<1> HIDE DEF found
<1> QED
  BY <1>3, <1>4, RowReported DEF AnalyzeFirewallRules, found

(* A rule that is missed has at most the finding that it is not described. *)
LEMMA FirewallMissed ==
    ASSUME NEW table \in Seq(Rows["firewall"]), NEW i \in DOMAIN table, Missed("firewall", table, i)
    PROVE  \A g \in AnalyzeFirewallRules(table) : g.subject = i => g.severity = "Low"
<1> DEFINE r == table[i]
           port == NormalisePort(table, i)
<1>1. \/ r.source \notin FirewallPublicSources
      \/ r.destination \notin AnyDestination /\ port \notin AdminPorts \cup DatabasePorts
  <2>1. CASE r.source = "::/0"
    BY <2>1 DEF FirewallPublicSources
  <2>2. CASE r.destination \notin AnyDestination /\ (r.port.form # "number" \/ ReadAsFloats(table))
    BY <2>2 DEF NormalisePort, NoPort, AdminPorts, DatabasePorts
  <2> QED
    BY <2>1, <2>2 DEF Missed
<1>2. \A f \in FirewallFindings(r, port) : f[2] = "Low"
  <2>1. FirewallFindings(r, port) = When(~r.described, "Rule without description", "Low")
    BY <1>1 DEF FirewallFindings, When
  <2>2. \A f \in FirewallFindings(r, port) : f = <<"Rule without description", "Low">>
    BY <2>1 DEF When
  <2>3. <<"Rule without description", "Low">>[2] = "Low"
    OBVIOUS
  <2> QED
    BY <2>2, <2>3, Zenon
<1> DEFINE found == [j \in DOMAIN table |-> FirewallFindings(table[j], NormalisePort(table, j))]
<1>3. i \in DOMAIN found /\ found[i] = FirewallFindings(r, port)
  OBVIOUS
<1> HIDE DEF found
<1>4. ASSUME NEW g \in RowFindings(found), g.subject = i
      PROVE  g.severity = "Low"
  <2>1. PICK j \in DOMAIN found : \E f \in found[j] : g = Finding(j, f[1], f[2])
    BY DEF RowFindings
  <2>2. PICK f \in found[j] : g = Finding(j, f[1], f[2])
    BY <2>1
  <2>3. j = i /\ g.severity = f[2]
    BY <1>4, <2>2 DEF Finding
  <2> QED
    BY <1>2, <1>3, <2>2, <2>3
<1> QED
  BY <1>4 DEF AnalyzeFirewallRules, found

LEMMA SeriousPorts ==
    ASSUME NEW port \in PortsOf("Critical") \cup PortsOf("High")
    PROVE  port \in RiskyPorts /\ port # 0 /\ SeverityOf(port) \in {"Critical", "High"}
<1>1. /\ port \in {23, 1433, 3306, 3389, 21, 445, 5900}
      /\ PortsOf("Medium") = {139, 8080} /\ PortsOf("Low") = {80}
  BY DEF PortsOf
<1>2. \E severity \in Severities : port \in PortsOf(severity)
  BY DEF Severities
<1>3. SeverityOf(port) \in Severities /\ port \in PortsOf(SeverityOf(port))
  BY <1>2 DEF SeverityOf
<1>4. SeverityOf(port) \notin {"Medium", "Low"}
  BY <1>1, <1>3
<1> QED
  BY <1>1, <1>2, <1>3, <1>4 DEF RiskyPorts, Severities

LEMMA HostReported ==
    ASSUME NEW table \in Seq(Rows["hosts"]), NEW i \in DOMAIN table, Exposed("hosts", table, i)
    PROVE  \E g \in AnalyzeHosts(table) : g.subject = i /\ g.severity \in {"Critical", "High"}
<1> DEFINE node == table[i]
           host == ParseHost(node)
<1>1. /\ node.addressed /\ node.status = "up"
      /\ \E s \in node.ports : s.state = "open" /\ s.number \in PortsOf("Critical") \cup PortsOf("High")
  BY DEF Exposed
<1>2. PICK s \in node.ports : s.state = "open" /\ s.number \in PortsOf("Critical") \cup PortsOf("High")
  BY <1>1
<1>3. s.number \in RiskyPorts /\ s.number # 0 /\ SeverityOf(s.number) \in {"Critical", "High"}
  BY <1>2, SeriousPorts
<1>4. s \in [number : Nat, protocol : STRING, state : STRING]
  BY RowsAssumption
<1> DEFINE t == [s EXCEPT !.state = Known(s.state)]
<1>5. t.state = "open" /\ t.number = s.number
  BY <1>2, <1>4 DEF Known
<1>6. t \in host.services
  BY <1>3 DEF ParseHost
<1>7. host.status = "up"
  BY <1>1 DEF ParseHost, Known
<1> HIDE DEF t, host
<1> DEFINE f == <<<<"Service exposed", t.number, t.protocol>>, SeverityOf(t.number)>>
<1>8. t \in OpenServices(host) /\ t.number \in RiskyPorts
  BY <1>3, <1>5, <1>6 DEF OpenServices
<1>9. f \in HostFindings(host)
  BY <1>8 DEF HostFindings
<1>10. f[2] \in {"Critical", "High"}
  BY <1>3, <1>5
<1> DEFINE found == [j \in DOMAIN table |-> NodeFindings(table[j])]
<1>11. i \in DOMAIN found /\ found[i] = HostFindings(host)
  BY <1>1, <1>7 DEF NodeFindings, host
<1> HIDE DEF found, f
<1> QED
  BY <1>9, <1>10, <1>11, RowReported DEF AnalyzeHosts, found

LEMMA ReportsAreComplete == IInv => ExposureReported
<1> SUFFICES ASSUME IInv, NEW i \in DOMAIN report.rows, Exposed(kind, report.rows, i)
             PROVE  Serious(report, i) <=> ~Missed(kind, report.rows, i)
  BY DEF ExposureReported
<1>1. report.findings = FindingsOf(kind, report.rows)
  BY DEF IInv, Report
<1>2. report.rows \in Seq(Rows[kind])
  BY DEF IInv
<1>3. kind \in {"cloud", "firewall", "hosts"}
  BY DEF Exposed
<1>4. CASE kind = "cloud"
  <2>1. ~Missed(kind, report.rows, i)
    BY <1>4 DEF Missed
  <2> QED
    BY <1>1, <1>2, <1>4, <2>1, CloudReported DEF FindingsOf, Serious
<1>5. CASE kind = "firewall"
  <2>1. report.findings = AnalyzeFirewallRules(report.rows)
    BY <1>1, <1>5 DEF FindingsOf
  <2>2. CASE Missed(kind, report.rows, i)
    <3>1. \A g \in report.findings : g.subject = i => g.severity = "Low"
      BY <1>2, <1>5, <2>1, <2>2, FirewallMissed
    <3> QED
      BY <2>2, <3>1 DEF Serious
  <2>3. CASE ~Missed(kind, report.rows, i)
    BY <1>2, <1>5, <2>1, <2>3, FirewallReported DEF Serious
  <2> QED
    BY <2>2, <2>3
<1>6. CASE kind = "hosts"
  <2>1. ~Missed(kind, report.rows, i)
    BY <1>6 DEF Missed
  <2> QED
    BY <1>1, <1>2, <1>6, <2>1, HostReported DEF FindingsOf, Serious
<1> QED
  BY <1>3, <1>4, <1>5, <1>6

(* ExposureReported: a row that lets everyone reach an administrative or   *)
(* database port has a serious finding of its own, whatever stands in the  *)
(* other rows, except the firewall rules in Missed; and these never have.  *)
THEOREM ExposuresReported == Spec => []ExposureReported
BY InductiveInvariant, ReportsAreComplete, PTL
-----------------------------------------------------------------------------
(* A worse environment never scores better.                                *)

AtLeast(severity) ==
    CASE severity = "Critical" -> {"Critical"}
      [] severity = "High" -> {"Critical", "High"}
      [] severity = "Medium" -> {"Critical", "High", "Medium"}
      [] OTHER -> Severities

(* The findings of one of some severities.                                 *)
Graded(F, S) == {f \in F : f.severity \in S}

(* The penalty, by how many findings are at least so severe.               *)
LEMMA PenaltyBySteps ==
    ASSUME NEW F, IsFiniteSet(F)
    PROVE  /\ \A S : IsFiniteSet(Graded(F, S)) /\ Cardinality(Graded(F, S)) \in Nat
           /\ Penalty(F) = 10 * Cardinality(Graded(F, AtLeast("Critical")))
                              + 7 * Cardinality(Graded(F, AtLeast("High")))
                              + 5 * Cardinality(Graded(F, AtLeast("Medium")))
                              + 3 * Cardinality(Graded(F, AtLeast("Low")))
<1>1. ASSUME NEW S PROVE IsFiniteSet(Graded(F, S)) /\ Cardinality(Graded(F, S)) \in Nat
  <2>1. Graded(F, S) \in SUBSET F
    BY DEF Graded
  <2> QED BY <2>1, FS_Subset, FS_CardinalityType
<1>2. ASSUME NEW S, NEW T, S \cap T = {}
      PROVE  Cardinality(Graded(F, S \cup T)) = Cardinality(Graded(F, S)) + Cardinality(Graded(F, T))
  <2>1. Graded(F, S \cup T) = Graded(F, S) \cup Graded(F, T)
    BY DEF Graded
  <2>2. Graded(F, S) \cap Graded(F, T) = {}
    BY <1>2 DEF Graded
  <2> DEFINE x == Cardinality(Graded(F, S))
             y == Cardinality(Graded(F, T))
             z == Cardinality(Graded(F, S) \cap Graded(F, T))
  <2>3. x \in Nat /\ y \in Nat /\ z = 0
    BY <1>1, <2>2, FS_EmptySet
  <2>4. Cardinality(Graded(F, S \cup T)) = x + y - z
    BY <1>1, <2>1, FS_Union
  <2> HIDE DEF x, y, z
  <2>5. Cardinality(Graded(F, S \cup T)) = x + y
    BY <2>3, <2>4
  <2> QED BY <2>5 DEF x, y
<1>3. ASSUME NEW severity PROVE Count(F, severity) = Cardinality(Graded(F, {severity}))
  <2>1. {f \in F : f.severity = severity} = Graded(F, {severity})
    BY DEF Graded
  <2> QED BY <2>1 DEF Count
<1> DEFINE c == Cardinality(Graded(F, {"Critical"}))
           h == Cardinality(Graded(F, {"High"}))
           m == Cardinality(Graded(F, {"Medium"}))
           l == Cardinality(Graded(F, {"Low"}))
<1>4. c \in Nat /\ h \in Nat /\ m \in Nat /\ l \in Nat
  BY <1>1
<1>5. Cardinality(Graded(F, {"Critical"} \cup {"High"})) = c + h
  BY <1>2
<1>6. Cardinality(Graded(F, ({"Critical"} \cup {"High"}) \cup {"Medium"})) = (c + h) + m
  BY <1>2, <1>5
<1>7. Cardinality(Graded(F, (({"Critical"} \cup {"High"}) \cup {"Medium"}) \cup {"Low"}))
        = ((c + h) + m) + l
  BY <1>2, <1>6
<1>8. /\ AtLeast("Critical") = {"Critical"}
      /\ AtLeast("High") = {"Critical"} \cup {"High"}
      /\ AtLeast("Medium") = ({"Critical"} \cup {"High"}) \cup {"Medium"}
      /\ AtLeast("Low") = (({"Critical"} \cup {"High"}) \cup {"Medium"}) \cup {"Low"}
  BY DEF AtLeast, Severities
<1>9. Penalty(F) = ((25 * c + 15 * h) + 8 * m) + 3 * l
  BY <1>3 DEF Penalty
<1> HIDE DEF c, h, m, l
<1>10. ((25 * c + 15 * h) + 8 * m) + 3 * l
         = ((10 * c + 7 * (c + h)) + 5 * ((c + h) + m)) + 3 * (((c + h) + m) + l)
  BY <1>4
<1>11. /\ Cardinality(Graded(F, AtLeast("Critical"))) = c
       /\ Cardinality(Graded(F, AtLeast("High"))) = c + h
       /\ Cardinality(Graded(F, AtLeast("Medium"))) = (c + h) + m
       /\ Cardinality(Graded(F, AtLeast("Low"))) = ((c + h) + m) + l
  BY <1>5, <1>6, <1>7, <1>8 DEF c
<1> QED BY <1>1, <1>9, <1>10, <1>11

(* If every finding has a counterpart of its own that is at least as       *)
(* severe, the score is no better.                                         *)
LEMMA Dominated ==
    ASSUME NEW F, NEW G, IsFiniteSet(F), IsFiniteSet(G), NEW h \in [F -> G],
           \A f, g \in F : h[f] = h[g] => f = g,
           \A f \in F : h[f].severity \in AtLeast(f.severity)
    PROVE  Score(G) <= Score(F)
<1>1. ASSUME NEW severity \in Severities
      PROVE  Cardinality(Graded(F, AtLeast(severity))) <= Cardinality(Graded(G, AtLeast(severity)))
  <2> DEFINE S == Graded(F, AtLeast(severity))
             T == Graded(G, AtLeast(severity))
             e == [f \in S |-> h[f]]
  <2>1. \A a \in AtLeast(severity) : AtLeast(a) \subseteq AtLeast(severity)
    BY DEF AtLeast, Severities
  <2>2. \A f \in S : f \in F /\ h[f] \in T
    BY <2>1 DEF Graded
  <2>3. e \in Injection(S, T)
    BY <2>2 DEF Injection, IsInjective
  <2>4. IsFiniteSet(T)
    BY PenaltyBySteps
  <2> HIDE DEF S, T, e
  <2>5. Cardinality(S) <= Cardinality(T)
    BY <2>3, <2>4, FS_Injection
  <2> QED BY <2>5 DEF S, T
<1> DEFINE c(X) == Cardinality(Graded(X, AtLeast("Critical")))
           d(X) == Cardinality(Graded(X, AtLeast("High")))
           m(X) == Cardinality(Graded(X, AtLeast("Medium")))
           l(X) == Cardinality(Graded(X, AtLeast("Low")))
<1>2. c(F) <= c(G) /\ d(F) <= d(G) /\ m(F) <= m(G) /\ l(F) <= l(G)
  BY <1>1 DEF Severities
<1>3. /\ c(F) \in Nat /\ d(F) \in Nat /\ m(F) \in Nat /\ l(F) \in Nat
      /\ c(G) \in Nat /\ d(G) \in Nat /\ m(G) \in Nat /\ l(G) \in Nat
  BY PenaltyBySteps
<1>4. /\ Penalty(F) = 10 * c(F) + 7 * d(F) + 5 * m(F) + 3 * l(F)
      /\ Penalty(G) = 10 * c(G) + 7 * d(G) + 5 * m(G) + 3 * l(G)
  BY PenaltyBySteps
<1> HIDE DEF c, d, m, l
<1>5. Penalty(F) \in Nat /\ Penalty(G) \in Nat /\ Penalty(F) <= Penalty(G)
  BY <1>2, <1>3, <1>4
<1> QED BY <1>5 DEF Score

LEMMA HeavierKinds ==
    /\ "Critical" \in AtLeast("High") /\ "Critical" \in AtLeast("Medium")
    /\ \A severity \in Severities : severity \in AtLeast(severity)
BY DEF AtLeast, Severities

(* The findings of the rows, by row.                                       *)
LEMMA InRow ==
    ASSUME NEW found
    PROVE  \A f : f \in RowFindings(found) <=>
                  \E i \in DOMAIN found : \E p \in found[i] : f = Finding(i, p[1], p[2])
BY DEF RowFindings

(* If no row loses a finding, no finding is lost.                          *)
LEMMA RowsGrow ==
    ASSUME NEW found, NEW after, DOMAIN found \subseteq DOMAIN after,
           \A i \in DOMAIN found : found[i] \subseteq after[i]
    PROVE  RowFindings(found) \subseteq RowFindings(after)
BY DEF RowFindings

LEMMA LongerTable ==
    ASSUME NEW R, NEW t \in Seq(R), NEW u \in Seq(R), Len(u) >= Len(t)
    PROVE  /\ DOMAIN t \subseteq DOMAIN u
           /\ \A i \in DOMAIN t : t[i] \in R /\ u[i] \in R
OBVIOUS

LEMMA CloudWorse ==
    ASSUME NEW t \in Seq(Rows["cloud"]), NEW u \in Seq(Rows["cloud"]),
           Worsened("cloud", t, u), ~GapsIn("cloud", t), ~GapsIn("cloud", u)
    PROVE  AnalyzeCloudRules(t) \subseteq AnalyzeCloudRules(u)
<1>1. DOMAIN t \subseteq DOMAIN u
  BY LongerTable DEF Worsened
<1>2. ASSUME NEW i \in DOMAIN t
      PROVE  CloudFindings(t[i], NormalisePort(t, i)) \subseteq CloudFindings(u[i], NormalisePort(u, i))
  <2>1. Worse("cloud", t[i], u[i])
    BY DEF Worsened
  <2>2. NormalisePort(t, i) = NormalisePort(u, i)
    BY <2>1 DEF Worse, NormalisePort, ReadAsFloats, GapsIn, Rules
  <2> DEFINE p == NormalisePort(t, i)
  <2> HIDE DEF p
  <2>3. CloudFindings(t[i], p) \subseteq CloudFindings(u[i], p)
    BY <2>1 DEF Worse, Opened, CloudFindings, CloudPublicSources, When
  <2> QED BY <2>2, <2>3 DEF p
<1> DEFINE a == [i \in DOMAIN t |-> CloudFindings(t[i], NormalisePort(t, i))]
           b == [i \in DOMAIN u |-> CloudFindings(u[i], NormalisePort(u, i))]
<1>3. DOMAIN a \subseteq DOMAIN b /\ \A i \in DOMAIN a : a[i] \subseteq b[i]
  BY <1>1, <1>2
<1> HIDE DEF a, b
<1> QED BY <1>3, RowsGrow DEF AnalyzeCloudRules, a, b

LEMMA FirewallWorse ==
    ASSUME NEW t \in Seq(Rows["firewall"]), NEW u \in Seq(Rows["firewall"]),
           Worsened("firewall", t, u), ~GapsIn("firewall", t), ~GapsIn("firewall", u)
    PROVE  AnalyzeFirewallRules(t) \subseteq AnalyzeFirewallRules(u)
<1>1. DOMAIN t \subseteq DOMAIN u
  BY LongerTable DEF Worsened
<1>2. ASSUME NEW i \in DOMAIN t
      PROVE  FirewallFindings(t[i], NormalisePort(t, i))
               \subseteq FirewallFindings(u[i], NormalisePort(u, i))
  <2>1. Worse("firewall", t[i], u[i])
    BY DEF Worsened
  <2>2. NormalisePort(t, i) = NormalisePort(u, i)
    BY <2>1 DEF Worse, NormalisePort, ReadAsFloats, GapsIn, Rules
  <2> DEFINE p == NormalisePort(t, i)
             severity == IF p = 3389 THEN "Critical" ELSE "High"
             A(r) == When(r.action = "allow" /\ r.source \in FirewallPublicSources
                            /\ r.destination \in AnyDestination, "Overly broad allow rule", "Critical")
             B(r) == When(r.action = "allow" /\ r.source \in FirewallPublicSources
                            /\ p \in AdminPorts, "Public administrative access", severity)
             C(r) == When(r.action = "allow" /\ r.source \in FirewallPublicSources
                            /\ p \in DatabasePorts, "Database port exposed", "Critical")
             D(r) == When(~r.described, "Rule without description", "Low")
  <2>3. \A r : FirewallFindings(r, p) = A(r) \cup B(r) \cup C(r) \cup D(r)
    BY DEF FirewallFindings
  <2> HIDE DEF p, severity
  <2>4. A(t[i]) \subseteq A(u[i])
    BY <2>1 DEF Worse, Opened, FirewallPublicSources, AnyDestination, When
  <2>5. B(t[i]) \subseteq B(u[i])
    BY <2>1 DEF Worse, Opened, FirewallPublicSources, When
  <2>6. C(t[i]) \subseteq C(u[i])
    BY <2>1 DEF Worse, Opened, FirewallPublicSources, When
  <2>7. D(t[i]) \subseteq D(u[i])
    BY <2>1 DEF Worse, When
  <2> HIDE DEF A, B, C, D
  <2>8. FirewallFindings(t[i], p) \subseteq FirewallFindings(u[i], p)
    BY <2>3, <2>4, <2>5, <2>6, <2>7
  <2> QED BY <2>2, <2>8 DEF p
<1> DEFINE a == [i \in DOMAIN t |-> FirewallFindings(t[i], NormalisePort(t, i))]
           b == [i \in DOMAIN u |-> FirewallFindings(u[i], NormalisePort(u, i))]
<1>3. DOMAIN a \subseteq DOMAIN b /\ \A i \in DOMAIN a : a[i] \subseteq b[i]
  BY <1>1, <1>2
<1> HIDE DEF a, b
<1> QED BY <1>3, RowsGrow DEF AnalyzeFirewallRules, a, b

LEMMA DevicesWorse ==
    ASSUME NEW t \in Seq(Rows["devices"]), NEW u \in Seq(Rows["devices"]),
           Worsened("devices", t, u)
    PROVE  AnalyzeDevices(t) \subseteq AnalyzeDevices(u)
<1>1. DOMAIN t \subseteq DOMAIN u
  BY LongerTable DEF Worsened
<1>2. \A i \in DOMAIN t : u[i].ip = t[i].ip /\ u[i].subnet = t[i].subnet /\ (u[i].owned => t[i].owned)
  BY DEF Worsened, Worse
<1>3. Duplicates(t) \subseteq Duplicates(u)
  BY <1>1, <1>2 DEF Duplicates
<1>4. \A i \in DOMAIN t : DeviceFindings(t[i]) \subseteq DeviceFindings(u[i])
  BY <1>2 DEF DeviceFindings, When
<1> DEFINE a == [i \in DOMAIN t |-> DeviceFindings(t[i])]
           b == [i \in DOMAIN u |-> DeviceFindings(u[i])]
<1>5. DOMAIN a \subseteq DOMAIN b /\ \A i \in DOMAIN a : a[i] \subseteq b[i]
  BY <1>1, <1>4
<1> HIDE DEF a, b
<1>6. RowFindings(a) \subseteq RowFindings(b)
  BY <1>5, RowsGrow
<1> QED BY <1>3, <1>6 DEF AnalyzeDevices, a, b

LEMMA HostsWorse ==
    ASSUME NEW t \in Seq(Rows["hosts"]), NEW u \in Seq(Rows["hosts"]), Worsened("hosts", t, u)
    PROVE  AnalyzeHosts(t) \subseteq AnalyzeHosts(u)
<1>1. DOMAIN t \subseteq DOMAIN u
  BY LongerTable DEF Worsened
<1>2. ASSUME NEW i \in DOMAIN t
      PROVE  NodeFindings(t[i]) \subseteq NodeFindings(u[i])
  <2> DEFINE r == t[i]
             s == u[i]
             p == ParseHost(r)
             q == ParseHost(s)
  <2>1. /\ r.status # "up" \/ s.status = "up"
        /\ r.ports \subseteq s.ports /\ (r.addressed => s.addressed)
        /\ ~(OpenServices(p) = {} /\ OpenServices(q) # {})
    BY DEF Worsened, Worse, FirstService
  <2>2. s \in Rows["hosts"]
    BY LongerTable DEF Worsened
  <2>3. IsFiniteSet(s.ports)
    BY <2>2, RowsAssumption
  <2>4. (p.status = "up" <=> r.status = "up") /\ (q.status = "up" <=> s.status = "up")
    BY DEF ParseHost, Known
  <2>5. p.services \subseteq q.services
    BY <2>1 DEF ParseHost
  <2>6. OpenServices(p) \subseteq OpenServices(q)
    BY <2>5 DEF OpenServices
  <2>7. IsFiniteSet(OpenServices(q))
    <3> DEFINE kept == {x \in s.ports : x.number # 0}
               parsed == [x \in kept |-> [x EXCEPT !.state = Known(x.state)]]
    <3>1. IsFiniteSet(kept)
      BY <2>3, FS_Subset
    <3>2. q.services = {parsed[x] : x \in kept}
      BY DEF ParseHost
    <3> HIDE DEF parsed, kept
    <3>3. IsFiniteSet(q.services)
      BY <3>1, <3>2, ImageFinite
    <3> QED BY <3>3, FS_Subset DEF OpenServices
  <2> DEFINE A == OpenServices(p)
             B == OpenServices(q)
  <2>8. Cardinality(A) \in Nat /\ Cardinality(B) \in Nat /\ Cardinality(A) <= Cardinality(B)
    BY <2>6, <2>7, FS_Subset, FS_CardinalityType
  <2>9. HostFindings(p) \subseteq HostFindings(q)
    <3>1. CASE A = {}
      BY <2>1, <3>1 DEF HostFindings
    <3>2. CASE A # {}
      <4>1. B # {}
        BY <2>6, <3>2
      <4>2. When(ManyServices(Cardinality(A)), <<"Many exposed services">>, "Medium")
              \subseteq When(ManyServices(Cardinality(B)), <<"Many exposed services">>, "Medium")
        <5>1. ManyServices(Cardinality(A)) => ManyServices(Cardinality(B))
          <6> HIDE DEF A, B
          <6> QED BY <2>8 DEF ManyServices
        <5> HIDE DEF A, B
        <5> QED BY <5>1 DEF When
      <4>3. {<<<<"Service exposed", x.number, x.protocol>>, SeverityOf(x.number)>> :
                x \in {y \in A : y.number \in RiskyPorts}}
              \subseteq {<<<<"Service exposed", x.number, x.protocol>>, SeverityOf(x.number)>> :
                           x \in {y \in B : y.number \in RiskyPorts}}
        BY <2>6
      <4> QED BY <3>2, <4>1, <4>2, <4>3 DEF HostFindings
    <3> QED BY <3>1, <3>2
  <2> HIDE DEF p, q
  <2>10. NodeFindings(r) \subseteq NodeFindings(s)
    BY <2>1, <2>4, <2>9 DEF NodeFindings, p, q
  <2> QED BY <2>10
<1> DEFINE a == [i \in DOMAIN t |-> NodeFindings(t[i])]
           b == [i \in DOMAIN u |-> NodeFindings(u[i])]
<1>3. DOMAIN a \subseteq DOMAIN b /\ \A i \in DOMAIN a : a[i] \subseteq b[i]
  BY <1>1, <1>2
<1> HIDE DEF a, b
<1> QED BY <1>3, RowsGrow DEF AnalyzeHosts, a, b

(* Findings that a worse row replaces by a more severe one: a title, and   *)
(* what it becomes.                                                        *)
LEMMA Replaced ==
    ASSUME NEW found, NEW after, IsFiniteSet(RowFindings(found)), IsFiniteSet(RowFindings(after)),
           DOMAIN found \subseteq DOMAIN after, NEW old, NEW new, NEW sev \in {"High", "Medium"},
           \A i \in DOMAIN found : \A p \in found[i] :
              /\ p[2] \in Severities
              /\ \/ p \in after[i]
                 \/ /\ p[1] = old /\ p[2] = sev
                    /\ <<new, "Critical">> \in after[i]
                    /\ \A x \in found[i] : x[1] # new
    PROVE  Score(RowFindings(after)) <= Score(RowFindings(found))
<1> DEFINE F == RowFindings(found)
           G == RowFindings(after)
           h == [f \in F |-> IF f \in G THEN f ELSE Finding(f.subject, new, "Critical")]
<1>1. ASSUME NEW f \in F, f \notin G
      PROVE  /\ Finding(f.subject, new, "Critical") \in G
             /\ \A g \in F : g.subject = f.subject => g.title # new
             /\ f.severity = sev /\ f.title = old
             /\ f.subject \in DOMAIN found
  <2>1. PICK i \in DOMAIN found : \E p \in found[i] : f = Finding(i, p[1], p[2])
    BY InRow
  <2>2. PICK p \in found[i] : f = Finding(i, p[1], p[2])
    BY <2>1
  <2>3. f.subject = i /\ f.title = p[1] /\ f.severity = p[2]
    BY <2>2 DEF Finding
  <2>4. p \notin after[i]
    BY <1>1, <2>2, InRow
  <2>5. /\ p[1] = old /\ p[2] = sev
        /\ <<new, "Critical">> \in after[i]
        /\ \A x \in found[i] : x[1] # new
    BY <2>4
  <2>6. Finding(i, new, "Critical") \in G
    <3>1. Finding(i, new, "Critical") = Finding(i, <<new, "Critical">>[1], <<new, "Critical">>[2])
      OBVIOUS
    <3> QED BY <2>5, <3>1, InRow
  <2>7. ASSUME NEW g \in F, g.subject = i PROVE g.title # new
    <3>1. PICK j \in DOMAIN found : \E x \in found[j] : g = Finding(j, x[1], x[2])
      BY InRow
    <3>2. PICK x \in found[j] : g = Finding(j, x[1], x[2])
      BY <3>1
    <3>3. g.subject = j /\ g.title = x[1]
      BY <3>2 DEF Finding
    <3> QED BY <2>5, <2>7, <3>3
  <2> QED BY <2>3, <2>5, <2>6, <2>7
<1>2. ASSUME NEW f \in F
      PROVE  f.severity \in Severities
             /\ f = Finding(f.subject, f.title, f.severity)
  <2>1. PICK i \in DOMAIN found : \E p \in found[i] : f = Finding(i, p[1], p[2])
    BY InRow
  <2> QED BY <2>1 DEF Finding
<1>3. \A x : Finding(x, new, "Critical").severity = "Critical"
             /\ Finding(x, new, "Critical").title = new /\ Finding(x, new, "Critical").subject = x
  BY DEF Finding
<1> HIDE DEF F, G
<1>4. h \in [F -> G]
  BY <1>1
<1>5. ASSUME NEW f \in F, NEW g \in F, h[f] = h[g] PROVE f = g
  <2>1. CASE f \in G /\ g \in G
    BY <1>5, <2>1
  <2>2. CASE f \in G /\ g \notin G
    <3>1. f = Finding(g.subject, new, "Critical")
      BY <1>5, <2>2
    <3> QED BY <1>1, <1>3, <2>2, <3>1
  <2>3. CASE f \notin G /\ g \in G
    <3>1. g = Finding(f.subject, new, "Critical")
      BY <1>5, <2>3
    <3> QED BY <1>1, <1>3, <2>3, <3>1
  <2>4. CASE f \notin G /\ g \notin G
    <3>1. f.subject = g.subject
      BY <1>3, <1>5, <2>4
    <3> QED BY <1>1, <1>2, <2>4, <3>1
  <2> QED BY <2>1, <2>2, <2>3, <2>4
<1>6. ASSUME NEW f \in F PROVE h[f].severity \in AtLeast(f.severity)
  <2>1. CASE f \in G
    BY <1>2, <2>1, HeavierKinds
  <2>2. CASE f \notin G
    BY <1>1, <1>3, <2>2, HeavierKinds
  <2> QED BY <2>1, <2>2
<1> HIDE DEF h
<1>7. IsFiniteSet(F) /\ IsFiniteSet(G)
  BY DEF F, G
<1>8. Score(G) <= Score(F)
  BY <1>4, <1>5, <1>6, <1>7, Dominated
<1> QED BY <1>8 DEF F, G

LEMMA Pairs == \A a, b : <<a, b>>[1] = a /\ <<a, b>>[2] = b
OBVIOUS

LEMMA UsersWorse ==
    ASSUME NEW t \in Seq(Rows["users"]), NEW u \in Seq(Rows["users"]), Worsened("users", t, u)
    PROVE  Score(AnalyzeUsers(u)) <= Score(AnalyzeUsers(t))
<1> DEFINE a == [i \in DOMAIN t |-> UserFindings(t[i])]
           b == [i \in DOMAIN u |-> UserFindings(u[i])]
           old == "User account without MFA"
           new == "Administrator account without MFA"
<1>1. DOMAIN a \subseteq DOMAIN b
  BY LongerTable DEF Worsened
<1>2. ASSUME NEW i \in DOMAIN t, NEW p \in UserFindings(t[i])
      PROVE  /\ p[2] \in Severities
             /\ \/ p \in UserFindings(u[i])
                \/ /\ p[1] = old /\ p[2] = "High"
                   /\ <<new, "Critical">> \in UserFindings(u[i])
                   /\ \A x \in UserFindings(t[i]) : x[1] # new
  <2> DEFINE r == t[i]
             s == u[i]
  <2>1. /\ s.mfa => r.mfa
        /\ r.admin => s.admin
        /\ s.idle >= r.idle
        /\ r.licensed => s.licensed
        /\ r.temporary => s.temporary
    BY DEF Worsened, Worse
  <2>2. r.idle \in Int /\ s.idle \in Int /\ StaleDays \in Int
    BY LongerTable, RowsAssumption DEF Worsened
  <2>3. r.idle >= StaleDays => s.idle >= StaleDays
    BY <2>1, <2>2
  <2> HIDE DEF r, s
  <2>4. \/ p = <<new, "Critical">> /\ ~r.mfa /\ r.admin
        \/ p = <<old, "High">> /\ ~r.mfa /\ ~r.admin
        \/ p = <<"Stale licensed account", "Medium">> /\ r.idle >= StaleDays /\ r.licensed
        \/ p = <<"Temporary or test account", "Low">> /\ r.temporary
    BY DEF UserFindings, When, r
  <2>5. p[2] \in Severities
    <3>1. CASE p = <<new, "Critical">>
      BY <3>1 DEF Severities
    <3>2. CASE p = <<old, "High">>
      BY <3>2 DEF Severities
    <3>3. CASE p = <<"Stale licensed account", "Medium">>
      BY <3>3 DEF Severities
    <3>4. CASE p = <<"Temporary or test account", "Low">>
      BY <3>4 DEF Severities
    <3> QED BY <2>4, <3>1, <3>2, <3>3, <3>4
  <2>6. CASE p = <<new, "Critical">> /\ ~r.mfa /\ r.admin
    BY <2>1, <2>5, <2>6 DEF UserFindings, When, s
  <2>7. CASE p = <<old, "High">> /\ ~r.mfa /\ ~r.admin
    <3>1. ASSUME NEW x \in UserFindings(t[i]) PROVE x[1] # new
      <4>1. \/ x = <<old, "High">>
            \/ x = <<"Stale licensed account", "Medium">>
            \/ x = <<"Temporary or test account", "Low">>
        BY <2>7 DEF UserFindings, When, r
      <4>2. x[1] = old \/ x[1] = "Stale licensed account" \/ x[1] = "Temporary or test account"
        BY <4>1, Pairs, Zenon
      <4> QED BY <4>2
    <3>2. CASE s.admin
      <4>1. <<new, "Critical">> \in UserFindings(u[i])
        BY <2>1, <2>7, <3>2 DEF UserFindings, When, s
      <4> QED BY <2>5, <2>7, <3>1, <4>1
    <3>3. CASE ~s.admin
      <4>1. p \in UserFindings(u[i])
        BY <2>1, <2>7, <3>3 DEF UserFindings, When, s
      <4> QED BY <2>5, <4>1
    <3> QED BY <3>2, <3>3
  <2>8. CASE p = <<"Stale licensed account", "Medium">> /\ r.idle >= StaleDays /\ r.licensed
    BY <2>1, <2>3, <2>5, <2>8 DEF UserFindings, When, s
  <2>9. CASE p = <<"Temporary or test account", "Low">> /\ r.temporary
    BY <2>1, <2>5, <2>9 DEF UserFindings, When, s
  <2> QED BY <2>4, <2>6, <2>7, <2>8, <2>9
<1>3. \A i \in DOMAIN a : \A p \in a[i] :
         /\ p[2] \in Severities
         /\ \/ p \in b[i]
            \/ /\ p[1] = old /\ p[2] = "High"
               /\ <<new, "Critical">> \in b[i]
               /\ \A x \in a[i] : x[1] # new
  BY <1>1, <1>2
<1>4. AnalyzeUsers(t) = RowFindings(a) /\ AnalyzeUsers(u) = RowFindings(b)
  BY DEF AnalyzeUsers
<1>5. IsFiniteSet(RowFindings(a)) /\ IsFiniteSet(RowFindings(b))
  BY <1>4, UsersFinite
<1> HIDE DEF a, b, old, new
<1>6. Score(RowFindings(b)) <= Score(RowFindings(a))
  BY <1>1, <1>3, <1>5, Replaced
<1> QED BY <1>4, <1>6

LEMMA BackupsWorse ==
    ASSUME NEW t \in Seq(Rows["backups"]), NEW u \in Seq(Rows["backups"]), Worsened("backups", t, u)
    PROVE  Score(AnalyzeBackups(u)) <= Score(AnalyzeBackups(t))
<1> DEFINE a == [i \in DOMAIN t |-> BackupFindings(t[i])]
           b == [i \in DOMAIN u |-> BackupFindings(u[i])]
           old == "Backup older than expected"
           new == "Backup is stale"
<1>1. DOMAIN a \subseteq DOMAIN b
  BY LongerTable DEF Worsened
<1>2. ASSUME NEW i \in DOMAIN t, NEW p \in BackupFindings(t[i])
      PROVE  /\ p[2] \in Severities
             /\ \/ p \in BackupFindings(u[i])
                \/ /\ p[1] = old /\ p[2] = "Medium"
                   /\ <<new, "Critical">> \in BackupFindings(u[i])
                   /\ \A x \in BackupFindings(t[i]) : x[1] # new
  <2> DEFINE r == t[i]
             s == u[i]
  <2>1. /\ s.success => r.success
        /\ s.age >= r.age
        /\ s.retention <= r.retention
        /\ s.tested => r.tested
    BY DEF Worsened, Worse
  <2>2. /\ r.age \in Int /\ s.age \in Int /\ r.retention \in Int /\ s.retention \in Int
        /\ WarningHours \in Int /\ CriticalHours \in Int
    BY LongerTable, RowsAssumption DEF Worsened
  <2> DEFINE stale(x) == x.age >= CriticalHours
             aged(x) == x.age < CriticalHours /\ x.age >= WarningHours
             short(x) == x.retention < 14
  <2>3. /\ stale(r) => stale(s) /\ ~aged(r)
        /\ aged(r) => aged(s) \/ stale(s)
        /\ short(r) => short(s)
    BY <2>1, <2>2
  <2>4. \A x : BackupFindings(x) = When(~x.success, "Backup job failed", "High")
          \cup When(stale(x), new, "Critical") \cup When(aged(x), old, "Medium")
          \cup When(short(x), "Retention below baseline", "Medium")
          \cup When(~x.tested, "Recovery test not recorded", "Medium")
    BY DEF BackupFindings
  <2> HIDE DEF r, s, stale, aged, short
  <2>5. \/ p = <<"Backup job failed", "High">> /\ ~r.success
        \/ p = <<new, "Critical">> /\ stale(r)
        \/ p = <<old, "Medium">> /\ aged(r)
        \/ p = <<"Retention below baseline", "Medium">> /\ short(r)
        \/ p = <<"Recovery test not recorded", "Medium">> /\ ~r.tested
    BY <2>4 DEF When, r
  <2>6. p[2] \in Severities
    <3>1. CASE p = <<"Backup job failed", "High">>
      BY <3>1 DEF Severities
    <3>2. CASE p = <<new, "Critical">>
      BY <3>2 DEF Severities
    <3>3. CASE p = <<old, "Medium">>
      BY <3>3 DEF Severities
    <3>4. CASE p = <<"Retention below baseline", "Medium">>
      BY <3>4 DEF Severities
    <3>5. CASE p = <<"Recovery test not recorded", "Medium">>
      BY <3>5 DEF Severities
    <3> QED BY <2>5, <3>1, <3>2, <3>3, <3>4, <3>5
  <2>7. CASE p = <<"Backup job failed", "High">> /\ ~r.success
    BY <2>1, <2>4, <2>6, <2>7 DEF When, s
  <2>8. CASE p = <<new, "Critical">> /\ stale(r)
    BY <2>3, <2>4, <2>6, <2>8 DEF When, s
  <2>9. CASE p = <<old, "Medium">> /\ aged(r)
    <3>1. ASSUME NEW x \in BackupFindings(t[i]) PROVE x[1] # new
      <4>1. \/ x = <<"Backup job failed", "High">>
            \/ x = <<old, "Medium">>
            \/ x = <<"Retention below baseline", "Medium">>
            \/ x = <<"Recovery test not recorded", "Medium">>
        BY <2>3, <2>4, <2>9 DEF When, r
      <4>2. \/ x[1] = "Backup job failed" \/ x[1] = old
            \/ x[1] = "Retention below baseline" \/ x[1] = "Recovery test not recorded"
        BY <4>1, Pairs, Zenon
      <4> QED BY <4>2
    <3>2. CASE stale(s)
      <4>1. <<new, "Critical">> \in BackupFindings(u[i])
        BY <2>4, <3>2 DEF When, s
      <4> QED BY <2>6, <2>9, <3>1, <4>1
    <3>3. CASE aged(s)
      <4>1. p \in BackupFindings(u[i])
        BY <2>4, <2>9, <3>3 DEF When, s
      <4> QED BY <2>6, <4>1
    <3> QED BY <2>3, <2>9, <3>2, <3>3
  <2>10. CASE p = <<"Retention below baseline", "Medium">> /\ short(r)
    BY <2>3, <2>4, <2>6, <2>10 DEF When, s
  <2>11. CASE p = <<"Recovery test not recorded", "Medium">> /\ ~r.tested
    BY <2>1, <2>4, <2>6, <2>11 DEF When, s
  <2> QED BY <2>5, <2>7, <2>8, <2>9, <2>10, <2>11
<1>3. \A i \in DOMAIN a : \A p \in a[i] :
         /\ p[2] \in Severities
         /\ \/ p \in b[i]
            \/ /\ p[1] = old /\ p[2] = "Medium"
               /\ <<new, "Critical">> \in b[i]
               /\ \A x \in a[i] : x[1] # new
  BY <1>1, <1>2
<1>4. AnalyzeBackups(t) = RowFindings(a) /\ AnalyzeBackups(u) = RowFindings(b)
  BY DEF AnalyzeBackups
<1>5. IsFiniteSet(RowFindings(a)) /\ IsFiniteSet(RowFindings(b))
  BY <1>4, BackupsFinite
<1> HIDE DEF a, b, old, new
<1>6. Score(RowFindings(b)) <= Score(RowFindings(a))
  BY <1>1, <1>3, <1>5, Replaced
<1> QED BY <1>4, <1>6

(* A worse table never scores better, whatever its kind.                   *)
LEMMA WorseNeverScoresBetter ==
    ASSUME NEW k \in Kinds, NEW t \in Seq(Rows[k]), NEW u \in Seq(Rows[k]),
           Worsened(k, t, u), ~GapsIn(k, t), ~GapsIn(k, u)
    PROVE  Score(FindingsOf(k, u)) <= Score(FindingsOf(k, t))
<1>1. IsFiniteSet(FindingsOf(k, u))
  BY FindingsFinite
<1>2. CASE k = "users"
  BY <1>2, UsersWorse DEF FindingsOf
<1>3. CASE k = "cloud"
  <2>1. FindingsOf(k, t) \in SUBSET FindingsOf(k, u)
    BY <1>3, CloudWorse DEF FindingsOf
  <2> QED BY <1>1, <2>1, MoreIsNeverBetter
<1>4. CASE k = "firewall"
  <2>1. FindingsOf(k, t) \in SUBSET FindingsOf(k, u)
    BY <1>4, FirewallWorse DEF FindingsOf
  <2> QED BY <1>1, <2>1, MoreIsNeverBetter
<1>5. CASE k = "backups"
  BY <1>5, BackupsWorse DEF FindingsOf
<1>6. CASE k = "devices"
  <2>1. FindingsOf(k, t) \in SUBSET FindingsOf(k, u)
    BY <1>6, DevicesWorse DEF FindingsOf
  <2> QED BY <1>1, <2>1, MoreIsNeverBetter
<1>7. CASE k = "hosts"
  <2>1. FindingsOf(k, t) \in SUBSET FindingsOf(k, u)
    BY <1>7, HostsWorse DEF FindingsOf
  <2> QED BY <1>1, <2>1, MoreIsNeverBetter
<1> QED BY <1>2, <1>3, <1>4, <1>5, <1>6, <1>7 DEF Kinds

(* The score of a report, for the invariant.                               *)
LEMMA ScoreOfReport ==
    ASSUME NEW k, NEW table
    PROVE  Report(k, table).score = Score(FindingsOf(k, table))
BY DEF Report

LEMMA StepNeverRewards ==
    ASSUME IInv, [Next]_vars,
           Worsened(kind, report.rows, rows), ~GapsIn(kind, report.rows), ~GapsIn(kind, rows)
    PROVE  report'.score <= report.score
<1>1. /\ kind \in Kinds /\ rows \in Seq(Rows[kind]) /\ report.rows \in Seq(Rows[kind])
      /\ report.score = Score(FindingsOf(kind, report.rows))
  BY ScoreOfReport DEF IInv
<1>2. report.score \in 0 .. 100
  BY <1>1, FindingsFinite, PenaltyType
<1>3. CASE report' = report
  BY <1>2, <1>3
<1>4. CASE RunAudit
  <2>1. report'.score = Score(FindingsOf(kind, rows))
    BY <1>4, ScoreOfReport DEF RunAudit
  <2> QED BY <1>1, <2>1, WorseNeverScoresBetter
<1> QED
  BY <1>3, <1>4 DEF Next, AddRow, ChangeRow, RemoveLast, Unchanged, vars

(* RiskNeverRewarded: a client whose environment only got worse between    *)
(* two audits is not given a better score, whatever the tables hold.       *)
THEOREM RiskIsNeverRewarded == Spec => RiskNeverRewarded
<1>1. IInv /\ [Next]_vars
        => [Worsened(kind, report.rows, rows) /\ ~GapsIn(kind, report.rows) /\ ~GapsIn(kind, rows)
              => report'.score <= report.score]_vars
  BY StepNeverRewards
<1> QED
  BY <1>1, InductiveInvariant, PTL DEF Spec, RiskNeverRewarded
=============================================================================
