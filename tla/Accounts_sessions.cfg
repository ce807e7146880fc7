SPECIFICATION Spec
CONSTANTS
    u1 = u1
    u2 = u2
    t1 = t1
    t2 = t2
    g1 = g1
    h1 = h1
    h2 = h2
    Null = Null
    Users <- MCUsers
    Tokens <- MCTokens
    Grants <- MCGrants
    Handlers <- MCHandlers
    Roles <- MCTwoRoles
    RoleSets <- MCDemotion
    Guessed <- MCGuessed
    Window = 1
    MaxFailures = 2
    Lockout = 1
    IdleFor = 1
    AbsoluteFor = 2
    GrantFor = 1
    MaxTime = 2
    MaxEvents = 4
SYMMETRY MCSymmetry
INVARIANTS
    LockEarned
    GuessesBounded
    DriftBounded
    ConfirmedOnce
PROPERTIES
    SessionsExpire
    RevocationLasts
    OwnerAtStartup
CHECK_DEADLOCK FALSE
