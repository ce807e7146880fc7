SPECIFICATION Spec
CONSTANTS
    s1 = s1
    s2 = s2
    r1 = r1
    f1 = f1
    None = None
    Given = Given
    Found = Found
    Builtin = "builtin"
    Scans <- MCOneScan
    Repos <- MCOneRepo
    Requests <- MCStartingRequest
    Tools <- MCTools
    UrlTools <- MCUrlTools
    SchemaTools <- MCSchemaTools
    Outcomes <- MCCompletes
    Findings <- MCFindings
    Cancellable <- MCOneScan
    MaxWorkers = 1
    MaxFaults = 0
    MaxStops = 0
INVARIANTS
    QueuedCancelHonoured
