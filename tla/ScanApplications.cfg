SPECIFICATION AppSpec
CONSTANTS
    s1 = s1
    t1 = t1
    main = main
    r1 = r1
    r2 = r2
    p1 = p1
    p2 = p2
    NoProc = NoProc
    NoRepo = NoRepo
    None = None
    Given = Given
    Found = Found
    Builtin = "builtin"
    Threads <- MCThreads
    Workers <- MCWorkers
    Main = main
    Repos <- MCRepos
    Procs <- MCProcs
    Requests <- MCRequests
    Tools <- MCTools
    UrlTools <- MCNone
    SchemaTools <- MCNone
    Outcomes <- MCCompletes
    Findings <- MCNone
    Cancellable <- MCNone
    MaxWorkers = 1
    MaxFaults = 1
    MaxStops = 1
INVARIANTS
    OneInstance
    NoOrphan
    HandlesMatch
    ShutdownStopsRegistered
    NoProcessLeftBehind
    OrderlyShutdown
PROPERTIES
    ImplementsRuntime
SYMMETRY MCSymmetry
