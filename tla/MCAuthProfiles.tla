---------------------------- MODULE MCAuthProfiles ----------------------------
(***************************************************************************)
(* Two profiles of one name or of two, two handlers, one scan.             *)
(***************************************************************************)
EXTENDS AuthProfiles, TLC

CONSTANTS p1, p2, n1, n2, s1, h1, h2

MCProfiles == {p1, p2}
MCNames == {n1, n2}
MCScans == {s1}
MCHandlers == {h1, h2}
MCSymmetry == Permutations(MCProfiles) \cup Permutations(MCNames) \cup Permutations(MCHandlers)
=============================================================================
