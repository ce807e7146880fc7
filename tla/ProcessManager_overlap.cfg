SPECIFICATION Spec
CONSTANTS
    t1 = t1
    t2 = t2
    main = main
    r1 = r1
    r2 = r2
    p1 = p1
    p2 = p2
    p3 = p3
    NoProc = NoProc
    NoRepo = NoRepo
    Threads <- MCThreads
    Workers <- MCWorkers
    Main = main
    Repos <- MCRepos
    Procs <- MCProcs
INVARIANTS
    TerminatedByShutdown
SYMMETRY MCSymmetry
CHECK_DEADLOCK FALSE
