SPECIFICATION PromotionSpec
CONSTANTS
    Envs <- MCEnvs
    Predecessor <- MCPredecessor
    NoEnv = "noenv"
    Revs = {r1, r2}
    NoRev = "norev"
    Gateways = {"d1", "t1"}
    EnvOf <- MCEnvOf
    Removable = {}
    Obstructible = {}
    Processes = {"cp1"}
    MaxReleases = 2
    MaxJobs = 0
    MaxOps = 3
    MaxRequests = 2
    Listable = {}
    MaxAttempts = 1
SYMMETRY MCSymmetry
INVARIANTS
    PromotionsFollow
PROPERTIES
    SnapshotsInOrder
    ImplementsRelease
