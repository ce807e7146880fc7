------------------------------ MODULE MCAccounts ------------------------------
(***************************************************************************)
(* Two users and two handlers, with roles that differ in what they may do: *)
(* an owner manages users, an engineer accepts risks, a viewer only reads. *)
(***************************************************************************)
EXTENDS Accounts, TLC

CONSTANTS u1, u2, t1, t2, g1, h1, h2

MCUsers == {u1, u2}
MCTokens == {t1, t2}
MCGrants == {g1}
MCHandlers == {h1, h2}
MCGuessed == {u2}
MCRoles == {"owner", "reviewer", "viewer"}
MCTwoRoles == {"owner", "reviewer"}
MCDemotion == {{"reviewer"}}
MCRoleSets == {{"viewer"}}
MCSymmetry == Permutations(MCTokens) \cup Permutations(MCHandlers)
=============================================================================
