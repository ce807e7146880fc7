------------------------------ MODULE MCBackups ------------------------------
(***************************************************************************)
(* Two handlers that make and restore backups.                             *)
(***************************************************************************)
EXTENDS Backups, TLC

CONSTANTS h1, h2

MCHandlers == {h1, h2}
MCSymmetry == Permutations(MCHandlers)
=============================================================================
