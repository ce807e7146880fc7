SPECIFICATION Spec
CONSTANTS
    h1 = h1
    h2 = h2
    Main = Main
    None = None
    Handlers <- MCHandlers
    Keep = 1
    MaxFiles = 4
    MaxWrites = 1
    MaxFaults = 1
SYMMETRY MCSymmetry
INVARIANTS
    FilesMatchRows
    TrailTellsEdits
PROPERTIES
    RestoredIsChosen
    NoMigrationWithoutCopy
CHECK_DEADLOCK FALSE
