SPECIFICATION Spec
CONSTANTS
    Instances = {i1, i2}
    Consumers = {"a"}
    Allowance = 1
    MaxKeys = 1
    MaxEntries = 1
    LastWindow = 1
    MaxAdmitted = 5
    MaxMishaps = 1
    Series = {"s", "t"}
    Overflow = "overflow"
    Settings <- MCSettings
    MaxRunsPerWindow = 1
    RunMemory = 0
    Retention = 0
    LastMinute = 1
    LastRun = 1
    MaxRecorded = 2
    MaxTrouble = 1
SYMMETRY MCSymmetry
CHECK_DEADLOCK FALSE
INVARIANTS
    QuotaHonoured
    FiguresHold
