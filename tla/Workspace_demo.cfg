CONSTANTS
    h1 = h1
    h2 = h2
    v1 = v1
    v2 = v2
    u1 = u1
    demo = demo
    address = address
    api = api
    flat = flat
    apiDir = apiDir
    api2Dir = api2Dir
    flatDir = flatDir
    Sample = Sample
    Null = Null
    Outside = Outside
    Handlers = {h1, h2}
    Users <- MCUsers
    Names = {api, flat}
    Dirs = {apiDir, api2Dir, flatDir}
    Candidates <- MCCandidates
    FlatOf <- MCFlatOf
    MaxImports = 3
    MaxFaults = 1
    DemoViewer = demo
    Bundled = Sample
    Visitors = {v1, v2}
    Addresses = {address}
    Roles = {"owner", "security_engineer", "reviewer", "viewer"}
    Window = 1
    Limit = 2
    Keep = 1
    SessionFor = 1
    MaxTime = 2
    MaxEvents = 5
SPECIFICATION Spec
INVARIANTS
    FilesIntact
    NothingHalfDone
    DemoOnlyViews
    RateHolds
    OwnerOrSetup
CHECK_DEADLOCK FALSE
SYMMETRY MCSymmetry
