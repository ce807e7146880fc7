------------------------------ MODULE RiskScore ------------------------------
(***************************************************************************)
(* Findings and what they cost: the risk engine that CLIENT360             *)
(* (analyzers/risk_engine.py) and InfraScope share in substance.  A        *)
(* finding is known by the row or the address it is about, its title and   *)
(* its severity; the texts of a report are left out.                       *)
(***************************************************************************)
EXTENDS Naturals, FiniteSets

Severities == {"Critical", "High", "Medium", "Low"}

Finding(subject, title, severity) == [subject |-> subject, title |-> title, severity |-> severity]

(* The findings of one row: at most one of each title.                     *)
When(condition, title, severity) == IF condition THEN {<<title, severity>>} ELSE {}

(* The findings of a table, from those of each row.                        *)
RowFindings(found) == UNION {{Finding(i, f[1], f[2]) : f \in found[i]} : i \in DOMAIN found}

Count(findings, severity) == Cardinality({f \in findings : f.severity = severity})

Penalty(findings) ==
    25 * Count(findings, "Critical") + 15 * Count(findings, "High")
        + 8 * Count(findings, "Medium") + 3 * Count(findings, "Low")

Score(findings) == IF Penalty(findings) > 100 THEN 0 ELSE 100 - Penalty(findings)

Label_Exclusive(score) ==
    CASE score <= 40 -> "Critical"
      [] score > 40 /\ score <= 70 -> "High"
      [] score > 70 /\ score < 85 -> "Medium"
      [] OTHER -> "Low"

Label(score) ==
    CASE score <= 40 -> "Critical"
      [] score > 40 /\ score <= 70 -> "High"
      [] score > 70 /\ score <= 85 -> "Medium"
      [] OTHER -> "Low"
=============================================================================
