SPECIFICATION Spec
CONSTANTS
    Stages <- MCStages
    Publisher = "pub"
    Consumers = {"pub", "con"}
    Principals <- MCPrincipals
    Subjects <- MCSubjects
    Schemas <- MCSchemas
    PartitionCounts = {1, 2}
    Keys <- MCKeys
    KeepRecords = 3
    MaxAccess = 3
    MaxRecords = 6
    MaxPatches = 1
    Boot = {"g1"}
    Late = {"g2"}
    MaxFlips = 2
    Lengths = {1, 3}
    MaxWindows = 2
    MaxMinute = 4
    RatePerMin = 2
    HistoryPerResource = 2
    Calls <- MCCalls
    Answers = {"200", "502"}
    MaxCalls = 4
    Kids = {"k1", "k2"}
    Presented <- MCPresented
    Cooldown = 2
    Opaque = {"o1", "o2"}
    Units = {0, 1}
    Timeout = 1
    MaxAnswers = 1
    ExpiresIn = {2, 4, 6}
    Skew = 2
    Documents = {"d1", "d2"}
    Needs <- MCNeeds
    Ceilings = {2, 4}
    LogMax = 2
    Keeps = {1, 2, 3}
    HighWater = 2
    MaxLines = 8
CHECK_DEADLOCK FALSE
INVARIANTS
    KeptIsGood
    LogIsWhole
PROPERTIES
    ConsumersGet
    KeptAsSaid
    OutageIsShown
    RotationHeals
