------------------------------- MODULE Audits -------------------------------
(***************************************************************************)
(* The audits of CLIENT360 (client360/audit.py) and of InfraScope          *)
(* (scripts/run_audit.py), run again and again while the client's          *)
(* environment changes between them.                                       *)
(*                                                                         *)
(* An audit reads its tables from files and keeps nothing, so the state is *)
(* the table as it was exported, and the last report.  run_audit adds up   *)
(* the findings of six tables; here one table holds rows, and the other    *)
(* five only their headers.                                                *)
(***************************************************************************)
EXTENDS Client360, InfraScope

CONSTANTS
    Rows,     \* Rows[kind]: the rows that a table of that kind may hold
    MaxRows   \* bound: MaxRows[kind] rows in a table

Kinds == {"users", "cloud", "firewall", "backups", "devices", "hosts"}

(* A host has finitely many ports; a port that is a number is that number; *)
(* days and hours are integers.                                            *)
ASSUME RowsAssumption ==
    /\ StaleDays \in Int /\ WarningHours \in Int /\ CriticalHours \in Int
    /\ \A u \in Rows["users"] : u.idle \in Int
    /\ \A b \in Rows["backups"] : b.age \in Int /\ b.retention \in Int
    /\ DOMAIN Rows = Kinds
    /\ \A node \in Rows["hosts"] :
          IsFiniteSet(node.ports) /\ node.ports \subseteq [number : Nat, protocol : STRING, state : STRING]
    /\ \A r \in Rows["cloud"] \cup Rows["firewall"] :
          r.port.form = "number" => r.port.first \in Int /\ r.port.last = r.port.first

VARIABLES
    kind,    \* the table that holds rows
    rows,    \* these rows, as they are exported now
    report   \* the last report, with the rows it was made from

vars == <<kind, rows, report>>

FindingsOf(k, table) ==
    CASE k = "users" -> AnalyzeUsers(table)
      [] k = "cloud" -> AnalyzeCloudRules(table)
      [] k = "firewall" -> AnalyzeFirewallRules(table)
      [] k = "backups" -> AnalyzeBackups(table)
      [] k = "devices" -> AnalyzeDevices(table)
      [] k = "hosts" -> AnalyzeHosts(table)

(* run_audit and audit_summary, or calculate_score.                        *)
Report(k, table) ==
    LET findings == FindingsOf(k, table)
    IN  [rows |-> table, findings |-> findings,
         score |-> Score(findings), label |-> Label(Score(findings))]

Init ==
    /\ kind \in Kinds
    /\ rows = <<>>
    /\ report = Report(kind, <<>>)

(* The environment changes; at most once between two audits.               *)
Unchanged == rows = report.rows /\ UNCHANGED <<kind, report>>

AddRow(r) == Unchanged /\ Len(rows) < MaxRows[kind] /\ rows' = Append(rows, r)
ChangeRow(i, r) == Unchanged /\ rows[i] # r /\ rows' = [rows EXCEPT ![i] = r]
RemoveLast == Unchanged /\ rows # <<>> /\ rows' = SubSeq(rows, 1, Len(rows) - 1)

RunAudit ==
    /\ rows # report.rows
    /\ report' = Report(kind, rows)
    /\ UNCHANGED <<kind, rows>>

Next ==
    \/ \E r \in Rows[kind] : AddRow(r) \/ \E i \in DOMAIN rows : ChangeRow(i, r)
    \/ RemoveLast
    \/ RunAudit

Spec == Init /\ [][Next]_vars

-----------------------------------------------------------------------------
(* What it means that row s is worse than row r.  A rule is worse if it    *)
(* allows what was denied or opens to everyone; ports are not compared.    *)
Opened(r, s) == s.source = r.source \/ s.source = "0.0.0.0/0"

Worse(k, r, s) ==
    CASE k = "users" ->
           (s.mfa => r.mfa) /\ (r.admin => s.admin) /\ s.idle >= r.idle
             /\ (r.licensed => s.licensed) /\ (r.temporary => s.temporary)
      [] k = "cloud" ->
           s.port = r.port /\ Opened(r, s) /\ s.direction \in {r.direction, "inbound"}
             /\ s.access \in {r.access, "allow"}
      [] k = "firewall" ->
           s.port = r.port /\ Opened(r, s) /\ s.action \in {r.action, "allow"}
             /\ s.destination \in {r.destination, "Any"} /\ (s.described => r.described)
      [] k = "backups" ->
           (s.success => r.success) /\ s.age >= r.age /\ s.retention <= r.retention
             /\ (s.tested => r.tested)
      [] k = "devices" -> s.ip = r.ip /\ s.subnet = r.subnet /\ (s.owned => r.owned)
      [] k = "hosts" ->
           (r.status # "up" \/ s.status = "up") /\ r.ports \subseteq s.ports
             /\ (r.addressed => s.addressed)

(* Opening the first service on a host replaces "no open services", which  *)
(* costs 3 points, by whatever the service costs, which may be nothing.    *)
FirstService(r, s) ==
    OpenServices(ParseHost(r)) = {} /\ OpenServices(ParseHost(s)) # {}

Worsened(k, before, after) ==
    /\ Len(after) >= Len(before)
    /\ \A i \in DOMAIN before :
          Worse(k, before[i], after[i]) /\ (k = "hosts" => ~FirstService(before[i], after[i]))

(* A gap in a column of ports changes what the other rows are read as.     *)
Rules == {"cloud", "firewall"}
GapsIn(k, table) == k \in Rules /\ \E i \in DOMAIN table : table[i].port.form = "gap"

(* A client whose environment has only got worse since the last audit is   *)
(* never given a better score: no rule of an analyzer hides another, no    *)
(* threshold is crossed in the wrong direction.  The exceptions the code   *)
(* makes are FirstService and GapsIn.                                      *)
RiskNeverRewarded ==
    [][/\ Worsened(kind, report.rows, rows) /\ ~GapsIn(kind, report.rows) /\ ~GapsIn(kind, rows)
       => report'.score <= report.score]_vars

-----------------------------------------------------------------------------
Everyone == {"0.0.0.0/0", "::/0", "Internet"}
Covers(port, n) == n \in port.first .. port.last
Serious(r, i) == \E f \in r.findings : f.subject = i /\ f.severity \in {"Critical", "High"}

(* Row i lets everyone reach an administrative or database port, however   *)
(* its port and its source are written.                                    *)
Exposed(k, table, i) ==
    LET r == table[i] IN
    CASE k = "cloud" ->
           /\ r.direction = "inbound" /\ r.access = "allow" /\ r.source \in Everyone
           /\ \E n \in CriticalPorts \cup HighPorts : Covers(r.port, n)
      [] k = "firewall" ->
           /\ r.action = "allow" /\ r.source \in Everyone
           /\ \E n \in AdminPorts \cup DatabasePorts : Covers(r.port, n)
      [] k = "hosts" ->
           /\ r.addressed /\ r.status = "up"
           /\ \E s \in r.ports : s.state = "open" /\ s.number \in PortsOf("Critical") \cup PortsOf("High")
      [] OTHER -> FALSE

(* What the analyzer of firewall rules does not see (firewall_analyzer.py  *)
(* 7 and 10-14): IPv6's everyone; and, unless the destination is open too, *)
(* a rule for several ports and every port of a column that a gap in some  *)
(* other row has turned into floats.                                       *)
Missed(k, table, i) ==
    LET r == table[i] IN
    /\ k = "firewall"
    /\ \/ r.source = "::/0"
       \/ /\ r.destination \notin AnyDestination
          /\ r.port.form # "number" \/ ReadAsFloats(table)

(* README.md of CLIENT360, "Cloud Exposure Review" and "Firewall Rule      *)
(* Review", and the rules of InfraScope: a row that exposes such a port    *)
(* has a High or Critical finding of its own.  This fails for the rules in *)
(* Missed, and for no other row of any table.                              *)
ExposureReported ==
    \A i \in DOMAIN report.rows :
        Exposed(kind, report.rows, i) => (Serious(report, i) <=> ~Missed(kind, report.rows, i))

(* A report that says "Low" has no High and no Critical finding: what a    *)
(* severity costs and where the labels begin fit together, at 85 too.      *)
LowMeansLow ==
    report.label = "Low" => \A f \in report.findings : f.severity \notin {"High", "Critical"}
=============================================================================
