SPECIFICATION FairSpec
CONSTANTS
    s1 = s1
    s2 = s2
    r1 = r1
    f1 = f1
    None = None
    Given = Given
    Found = Found
    Builtin = "builtin"
    Scans <- MCScans
    Repos <- MCOneRepo
    Requests <- MCStaticRequest
    Tools <- MCTools
    UrlTools <- MCUrlTools
    SchemaTools <- MCSchemaTools
    Outcomes <- MCCompletes
    Findings <- MCFindings
    Cancellable <- MCScans
    MaxWorkers = 1
    MaxFaults = 1
    MaxStops = 1
PROPERTIES
    ImplementsLifecycle
    EveryScanEnds
CHECK_DEADLOCK FALSE
