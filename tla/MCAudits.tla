------------------------------ MODULE MCAudits ------------------------------
(***************************************************************************)
(* Rows on both sides of every boundary the analyzers draw.                *)
(***************************************************************************)
EXTENDS Audits

MCUsers ==
    [mfa : BOOLEAN, admin : BOOLEAN, idle : {StaleDays - 1, StaleDays}, licensed : BOOLEAN, temporary : BOOLEAN]

MCPorts == {Number(22), Number(3389), Number(80), Number(443), PortRange(20, 25), AnyPort, Gap}

MCCloud ==
    {r \in [direction : {"inbound", "outbound"}, access : {"allow", "deny"},
            source : {"0.0.0.0/0", "::/0", "10.0.0.0/8"}, port : MCPorts] :
        r.direction = "outbound" => r.access = "allow"}

MCFirewall ==
    {r \in [action : {"allow", "deny"}, source : {"0.0.0.0/0", "::/0", "10.0.0.0/8"},
            destination : {"Any", "10.0.0.5"},
            port : {Number(22), Number(3389), Number(1433), PortRange(20, 25), AnyPort, Gap}, described : BOOLEAN] :
        r.action = "deny" \/ r.destination = "Any" => r.described}

MCBackups ==
    [success : BOOLEAN, age : {WarningHours - 1, WarningHours, CriticalHours},
     retention : {13, 14}, tested : BOOLEAN]

MCDevices == [ip : 0 .. 2, subnet : {"documented", "other", "bad"}, owned : BOOLEAN]

Open(n) == [number |-> n, protocol |-> "tcp", state |-> "open"]
Fillers == {Open(n) : n \in {53, 110, 143, 993, 995}}

(* Up to nine open services on a host, so that eight are passed.           *)
MCPortSets ==
    {s \cup t : s \in SUBSET {Open(443), Open(80), Open(445), Open(3389)},
                t \in {{}, Fillers \ {Open(995)}, Fillers}}
    \cup {{[Open(3389) EXCEPT !.state = "absent"]}, {[Open(3389) EXCEPT !.number = 0]},
          {Open(139), [Open(139) EXCEPT !.protocol = "udp"]}}

MCHosts ==
    [addressed : {TRUE}, status : {"up"}, ports : MCPortSets]
    \cup [addressed : {TRUE}, status : {"down", "absent"}, ports : {{Open(3389)}}]
    \cup [addressed : {FALSE}, status : {"up"}, ports : {{Open(3389)}}]

MCRows == [k \in Kinds |->
    CASE k = "users" -> MCUsers
      [] k = "cloud" -> MCCloud
      [] k = "firewall" -> MCFirewall
      [] k = "backups" -> MCBackups
      [] k = "devices" -> MCDevices
      [] k = "hosts" -> MCHosts]

MCMaxRows == [k \in Kinds |-> IF k = "devices" THEN 3 ELSE 2]
=============================================================================
