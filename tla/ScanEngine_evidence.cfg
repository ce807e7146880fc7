SPECIFICATION Spec
CONSTANTS
    s1 = s1
    s2 = s2
    r1 = r1
    f1 = f1
    None = None
    Given = Given
    Found = Found
    Builtin = "builtin"
    Scans <- MCOneScan
    Repos <- MCOneRepo
    Requests <- MCRequests
    Tools <- MCTools
    UrlTools <- MCUrlTools
    SchemaTools <- MCSchemaTools
    Outcomes <- MCOutcomes
    Findings <- MCFindings
    Cancellable <- MCOneScan
    MaxWorkers = 1
    MaxFaults = 2
    MaxStops = 2
INVARIANTS
    StatusMatchesEvidence
    ConclusionHonest
    CancelBounded
CHECK_DEADLOCK FALSE
