------------------------------ MODULE AuditTrail ------------------------------
(***************************************************************************)
(* The chain of audit events: app/core/audit_chain.py, audit and           *)
(* verify_audit_chain in app/core/security.py and _rebuild_audit_chain in  *)
(* app/db.py, as operators on the rows of `audit_logs` in order of id.     *)
(*                                                                         *)
(* SHA-256 is taken to be injective: a hash is the sequence of the events  *)
(* that went into it, first the earlier ones by way of the previous hash.  *)
(* The twelve columns that are hashed are one event; that details come     *)
(* back from their JSON as they were hashed is part of this abstraction.   *)
(***************************************************************************)
EXTENDS Naturals, Sequences

Genesis == <<>>
NotHashed == <<"no hash">>            \* a row of version 0.1.1

EventHash(event, previous) == Append(previous, event)

Hashed(event, previous) ==
    [event |-> event, previous_hash |-> previous, event_hash |-> EventHash(event, previous)]

Unhashed(event) == [event |-> event, previous_hash |-> NotHashed, event_hash |-> NotHashed]

(* What the next event is hashed over; a row without a hash counts as none. *)
LastHash_First(log) ==
    IF log = <<>> \/ log[1].event_hash = NotHashed THEN Genesis ELSE log[1].event_hash
LastHash(log) ==
    IF log = <<>> \/ log[Len(log)].event_hash = NotHashed THEN Genesis ELSE log[Len(log)].event_hash

Appended(log, event) == Append(log, Hashed(event, LastHash(log)))

(* Every row anew from the first, whatever hashes it holds.                *)
Rebuilt(log) ==
    [i \in DOMAIN log |-> Hashed(log[i].event, [j \in 1 .. i - 1 |-> log[j].event])]

Verifies(log) ==
    \A i \in DOMAIN log :
        LET previous == IF i = 1 THEN Genesis ELSE log[i - 1].event_hash
        IN  /\ log[i].previous_hash = previous
            /\ log[i].event_hash = EventHash(log[i].event, previous)

(* Another hand than the program's, on the database file: one event is     *)
(* changed, or one that is not the last is taken out.                      *)
Altered(log, i) == [log EXCEPT ![i].event = "altered"]
Removed(log, i) == [j \in 1 .. Len(log) - 1 |-> IF j < i THEN log[j] ELSE log[j + 1]]
Edits(log) == { Altered(log, i) : i \in DOMAIN log } \cup { Removed(log, i) : i \in 1 .. Len(log) - 1 }

HashType(Events) == Seq(Events \cup {"no hash"})
EventType(Events) ==
    [event : Events, previous_hash : HashType(Events), event_hash : HashType(Events)]
=============================================================================
