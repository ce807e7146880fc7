---------------------------- MODULE MCScanEngine ----------------------------
(***************************************************************************)
(* Instances of ScanEngine: two scans of one repository, a scan that       *)
(* starts the application it tests, a static scan, and one with a scanner  *)
(* that needs a URL nobody gave.                                           *)
(***************************************************************************)
EXTENDS ScanEngine

CONSTANTS s1, s2, r1, f1

MCOneScan == {s1}
MCScans == {s1, s2}
MCOneRepo == {r1}
MCTools == {"builtin", "semgrep", "dynamic", "schemathesis"}
MCUrlTools == {"dynamic"}
MCSchemaTools == {"schemathesis"}
MCOutcomes == {"completed", "completed_with_warnings", "missing", "error"}
MCCompletes == {"completed"}
MCFindings == {f1}

Request(r, t, u, st, sc) == [repo |-> r, tools |-> t, url |-> u, startup |-> st, schema |-> sc]

MCRequests ==
    { Request(r1, <<"builtin", "dynamic">>, FALSE, TRUE, FALSE),
      Request(r1, <<"semgrep">>, FALSE, FALSE, FALSE),
      Request(r1, <<"dynamic">>, FALSE, FALSE, FALSE),
      Request(r1, <<"builtin", "schemathesis">>, TRUE, FALSE, TRUE) }

MCStaticRequest == { Request(r1, <<"builtin">>, FALSE, FALSE, FALSE) }
MCStartingRequest == { Request(r1, <<"builtin">>, FALSE, TRUE, FALSE) }
=============================================================================
