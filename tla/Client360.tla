------------------------------ MODULE Client360 ------------------------------
(***************************************************************************)
(* The analyzers of CLIENT360 (client360/analyzers/*.py): what they find   *)
(* in the tables a client exports, as operators over sequences of rows.    *)
(* A cell is what the analyzer tells apart in it.                          *)
(*                                                                         *)
(* Tables are read by pandas.read_csv, which gives a COLUMN one type: a    *)
(* column of numbers with an empty cell is a column of floats, and then    *)
(* every port in it reads "3389.0".                                        *)
(***************************************************************************)
EXTENDS RiskScore, Integers, Sequences

CONSTANTS
    StaleDays,      \* stale_account_days
    WarningHours,   \* backup_warning_hours
    CriticalHours   \* backup_critical_hours

-----------------------------------------------------------------------------
(* analyze_microsoft365_users                                              *)
UserFindings(u) ==
    When(~u.mfa /\ u.admin, "Administrator account without MFA", "Critical")
    \cup When(~u.mfa /\ ~u.admin, "User account without MFA", "High")
    \cup When(u.idle >= StaleDays /\ u.licensed, "Stale licensed account", "Medium")
    \cup When(u.temporary, "Temporary or test account", "Low")

AnalyzeUsers(rows) == RowFindings([i \in DOMAIN rows |-> UserFindings(rows[i])])

-----------------------------------------------------------------------------
(* What stands in the port cell of a rule.                                 *)
Number(n) == [form |-> "number", first |-> n, last |-> n]
PortRange(a, b) == [form |-> "range", first |-> a, last |-> b]
AnyPort == [form |-> "any", first |-> 0, last |-> 65535]
Gap == [form |-> "gap", first |-> 1, last |-> 0]

(* read_csv turns numbers with a gap between them into floats.             *)
ReadAsFloats(rows) ==
    /\ \E i \in DOMAIN rows : rows[i].port.form = "gap"
    /\ \A i \in DOMAIN rows : rows[i].port.form \in {"number", "gap"}

NoPort == -1

NormalisePort_RangeStart(rows, i) ==
    IF rows[i].port.form \in {"number", "range"} /\ ~ReadAsFloats(rows) THEN rows[i].port.first ELSE NoPort

(* _normalise_port and _port_to_int: a number, or None.                    *)
NormalisePort(rows, i) ==
    IF rows[i].port.form = "number" /\ ~ReadAsFloats(rows) THEN rows[i].port.first ELSE NoPort

-----------------------------------------------------------------------------
(* analyze_cloud_rules                                                     *)
CriticalPorts == {3389, 3306, 1433, 5432}
HighPorts == {22, 5900}
CloudPublicSources == {"0.0.0.0/0", "::/0", "*", "Any", "any", "Internet"}

CloudFindings(r, port) ==
    LET open == r.direction = "inbound" /\ r.access = "allow" /\ r.source \in CloudPublicSources
    IN  When(open /\ port = NoPort, "Allows all public inbound traffic", "Critical")
        \cup When(open /\ port \in CriticalPorts, "Public critical service", "Critical")
        \cup When(open /\ port \in HighPorts, "Public administrative service", "High")
        \cup When(open /\ port = 80, "Public HTTP service", "Medium")

AnalyzeCloudRules(rows) ==
    RowFindings([i \in DOMAIN rows |-> CloudFindings(rows[i], NormalisePort(rows, i))])

-----------------------------------------------------------------------------
(* analyze_firewall_rules                                                  *)
DatabasePorts == {1433, 1521, 3306, 5432, 6379, 27017}
AdminPorts == {22, 3389, 5900}
FirewallPublicSources == {"0.0.0.0/0", "Any", "any", "*", "Internet"}
AnyDestination == {"Any", "any", "*"}

FirewallFindings(r, port) ==
    LET open == r.action = "allow" /\ r.source \in FirewallPublicSources
    IN  When(open /\ r.destination \in AnyDestination, "Overly broad allow rule", "Critical")
        \cup When(open /\ port \in AdminPorts, "Public administrative access",
                  IF port = 3389 THEN "Critical" ELSE "High")
        \cup When(open /\ port \in DatabasePorts, "Database port exposed", "Critical")
        \cup When(~r.described, "Rule without description", "Low")

AnalyzeFirewallRules(rows) ==
    RowFindings([i \in DOMAIN rows |-> FirewallFindings(rows[i], NormalisePort(rows, i))])

-----------------------------------------------------------------------------
(* analyze_backups; a row holds the age of the last backup at the audit.   *)
BackupFindings(b) ==
    When(~b.success, "Backup job failed", "High")
    \cup When(b.age >= CriticalHours, "Backup is stale", "Critical")
    \cup When(b.age < CriticalHours /\ b.age >= WarningHours, "Backup older than expected", "Medium")
    \cup When(b.retention < 14, "Retention below baseline", "Medium")
    \cup When(~b.tested, "Recovery test not recorded", "Medium")

AnalyzeBackups(rows) == RowFindings([i \in DOMAIN rows |-> BackupFindings(rows[i])])

-----------------------------------------------------------------------------
(* analyze_network_devices.  An address is a number, 0 if it cannot be     *)
(* parsed; of a subnet it matters whether it is the right one, or "bad".   *)
Duplicates(rows) ==
    {rows[i].ip : i \in {j \in DOMAIN rows : \E k \in DOMAIN rows : k # j /\ rows[k].ip = rows[j].ip}}

DeviceFindings(d) ==
    LET parsed == d.ip # 0 /\ d.subnet # "bad"
    IN  When(parsed /\ d.subnet # "documented", "IP outside documented subnet", "Medium")
        \cup When(~parsed, "Invalid inventory value", "Low")
        \cup When(~d.owned, "Device without owner", "Low")

AnalyzeDevices(rows) ==
    {Finding(ip, "Duplicate IP address", "High") : ip \in Duplicates(rows)}
    \cup RowFindings([i \in DOMAIN rows |-> DeviceFindings(rows[i])])
=============================================================================
