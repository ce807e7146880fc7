SPECIFICATION Spec
CONSTANTS
    p1 = p1
    p2 = p2
    n1 = n1
    n2 = n2
    s1 = s1
    h1 = h1
    h2 = h2
    Null = Null
    Profiles <- MCProfiles
    Names <- MCNames
    Scans <- MCScans
    Handlers <- MCHandlers
    MaxSecrets = 3
    MaxChecks = 2
    MaxFaults = 1
    MaxKills = 1
SYMMETRY MCSymmetry
INVARIANTS
    SecretsMatchRows
    VerifiedIsCurrent
    AnonymousOnlyByRemoval
CHECK_DEADLOCK FALSE
