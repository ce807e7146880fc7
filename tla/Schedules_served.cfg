SPECIFICATION FairSpec
CONSTANTS
    daily = daily
    daily2 = daily2
    weekly = weekly
    p1 = p1
    Null = Null
    Schedules <- MCSchedules
    Profiles <- MCProfiles
    Cadence <- MCCadence
    Slot <- MCSlot
    DayOfWeek <- MCDayOfWeek
    Edited <- MCEdited
    Day = 2
    Week = 2
    BatchLimit = 2
    MaxTime = 3
    MaxFaults = 1
    MaxKills = 1
INVARIANTS
    OneRunPerOutage
    NoneSkipped
    StraysAtMostOne
    StrandedOnlyByFailure
    ProfilesFollow
PROPERTIES
    DueIsServed
CHECK_DEADLOCK FALSE
