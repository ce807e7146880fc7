----------------------------- MODULE MCSchedules -----------------------------
(***************************************************************************)
(* Two daily schedules and a weekly one, days of two seconds and weeks of  *)
(* two days, one authentication profile, and passes of two rows, so that a *)
(* due row may have to wait for the next pass.                             *)
(***************************************************************************)
EXTENDS Schedules, TLC

CONSTANTS daily, daily2, weekly, p1

MCSchedules == {daily, daily2, weekly}
MCEdited == {daily}
MCProfiles == {p1}
MCCadence == daily :> "daily" @@ daily2 :> "daily" @@ weekly :> "weekly"
MCSlot == daily :> 1 @@ daily2 :> 0 @@ weekly :> 1
MCDayOfWeek == daily :> 0 @@ daily2 :> 0 @@ weekly :> 1
=============================================================================
