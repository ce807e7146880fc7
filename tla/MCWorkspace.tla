----------------------------- MODULE MCWorkspace -----------------------------
(***************************************************************************)
(* One name with three directories and its "-flat" neighbour, which a      *)
(* project may also be called; a user and the demo's account.              *)
(***************************************************************************)
EXTENDS Workspace, TLC

CONSTANTS h1, h2, v1, v2, u1, demo, address, api, flat, apiDir, api2Dir, flatDir, Sample

MCUsers == {u1, demo}
MCCandidates == (api :> <<apiDir, api2Dir>>) @@ (flat :> <<flatDir>>)
MCFlatOf == (apiDir :> flatDir) @@ (api2Dir :> Null) @@ (flatDir :> Null)
MCSymmetry == Permutations({h1, h2}) \cup Permutations({v1, v2})
=============================================================================
