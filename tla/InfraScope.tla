------------------------------ MODULE InfraScope ------------------------------
(***************************************************************************)
(* InfraScope (Risk-Audit): from the host elements of an nmap report to    *)
(* findings.  A row is a host element: whether it has an address, its      *)
(* status (or "absent"), and its port elements, each with its number (0 if *)
(* the attribute is absent), protocol and state (or "absent").             *)
(***************************************************************************)
EXTENDS RiskScore, Sequences

(* RISKY_PORTS                                                             *)
PortsOf(severity) ==
    CASE severity = "Critical" -> {23, 1433, 3306, 3389}
      [] severity = "High" -> {21, 445, 5900}
      [] severity = "Medium" -> {139, 8080}
      [] OTHER -> {80}

RiskyPorts == UNION {PortsOf(severity) : severity \in Severities}
SeverityOf(port) == CHOOSE severity \in Severities : port \in PortsOf(severity)

(* _parse_host and _parse_service: a host without an address and a port    *)
(* without a number are dropped; what is absent is "unknown".              *)
Known(state) == IF state = "absent" THEN "unknown" ELSE state

ParseHost(node) ==
    [status |-> Known(node.status),
     services |-> {[s EXCEPT !.state = Known(s.state)] : s \in {p \in node.ports : p.number # 0}}]

OpenServices(host) == {s \in host.services : s.state = "open"}

ManyServices_Exactly(count) == count = 8
ManyServices(count) == count >= 8

(* _analyze_host: a host without open services is only to be documented.   *)
HostFindings(host) ==
    LET open == OpenServices(host)
    IN  IF open = {}
        THEN {<<<<"No open services">>, "Low">>}
        ELSE {<<<<"Service exposed", s.number, s.protocol>>, SeverityOf(s.number)>> :
                 s \in {t \in open : t.number \in RiskyPorts}}
             \cup When(ManyServices(Cardinality(open)), <<"Many exposed services">>, "Medium")

(* analyze_hosts over parse_file                                           *)
NodeFindings(node) ==
    IF node.addressed /\ ParseHost(node).status = "up" THEN HostFindings(ParseHost(node)) ELSE {}

AnalyzeHosts(rows) == RowFindings([i \in DOMAIN rows |-> NodeFindings(rows[i])])
=============================================================================
