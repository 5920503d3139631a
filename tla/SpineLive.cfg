SPECIFICATION FairPromotionSpec
CONSTANTS
    Envs <- MCDevOnly
    Predecessor <- MCDevAlone
    NoEnv = "noenv"
    Revs = {"r1"}
    NoRev = "norev"
    Gateways = {"d1"}
    EnvOf <- MCDevEnvOf
    Removable = {"d1"}
    Obstructible = {"dev"}
    Processes = {"cp1"}
    MaxReleases = 3
    MaxJobs = 1
    MaxOps = 2
    MaxRequests = 1
    Listable = {}
    MaxAttempts = 1
PROPERTIES
    OperationsComplete
    JobsFinish
