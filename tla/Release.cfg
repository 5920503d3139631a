SPECIFICATION Spec
CONSTANTS
    Envs <- MCEnvs
    Predecessor <- MCPredecessor
    NoEnv = "noenv"
    Revs = {"r1"}
    NoRev = "norev"
    Gateways = {"d1", "t1", "t2"}
    EnvOf <- MCEnvOf
    Removable = {"t2"}
    Obstructible = {"test"}
    Processes = {"cp1"}
    MaxReleases = 2
    MaxJobs = 2
INVARIANTS
    NothingComesBack
    AppliedIsLive
    GateHolds
PROPERTIES
    JobsKeepToTheirs
