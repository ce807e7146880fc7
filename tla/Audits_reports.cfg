SPECIFICATION Spec
CONSTANTS
    StaleDays = 90
    WarningHours = 24
    CriticalHours = 72
    Rows <- MCRows
    MaxRows <- MCMaxRows
INVARIANTS
    ExposureReported
    LowMeansLow

    
