SPECIFICATION Spec
CONSTANTS
    Apis = {"a1", "a2"}
    First = "a1"
    Applications = {"shop"}
    Versions = {"v1", "v2"}
    Domains = {"none", "x"}
    Texts = {"t"}
    Definitions = {"d1", "d2", "d3"}
    BundleOf <- MCBundleOf
    Drafters = {q1, q2}
    KeepCount = 1
    MaxRevisions = 2
    MaxReleases = 2
    MaxDrafts = 3
    PolicyApis = {"orders", "billing"}
    KindOf <- MCKindOf
    PolicyEnvs = {"dev", "prod"}
    Offers <- MCOffers
    HeaderNames = {"X-Key", "X-Api-Key"}
    Refs = {"idp"}
    CredentialRefs = {"app:team:login"}
    MaxUnits = 2
    MaxAttention = 4
    TrustApis = {"orders"}
    Home = "dev"
    Away = "prod"
    Backends <- MCBackends
    PublicHost <- MCPublicHost
    Rules <- MCRules
    Pems <- MCPems
    Leaves <- MCLeaves
    CertIds = {"c1"}
    AppRefs = {"app:a:x"}
    Registered <- MCRegistered
    Uses <- MCUses
    Modes = {"insecure"}
    MaxAnchors = 2
    MaxRules = 2
    MaxDays = 2
    BundleTtl = 3
    LastDay = 3
    MaxRows = 3
    MaxExceptions = 2
SYMMETRY MCDraftSymmetry
CHECK_DEADLOCK FALSE
INVARIANTS
    
    TrustEnds
    BlockedIsLeftOut
PROPERTIES
    RevisionsStand
    OwnersLeaveGlobals
    WritesKeepServing
    UnresolvedIsReported
