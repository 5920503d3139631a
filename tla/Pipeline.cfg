SPECIFICATION PipelineSpec
CONSTANTS
    Requests = {q1, q2}
    Routes = {"r1"}
    Subs = {"s1", "s2"}
    NoSub = "anonymous"
    Digests = {"d1", "d2"}
    ActiveIn <- MCActiveIn
    Limits <- MCLimits
    Deployments <- MCDeployments
    Backends = {"b1", "b2"}
    Weight <- MCWeight
    Failures = 2
    HalfOpenProbes = 1
    QueueDepth = 1
SYMMETRY RequestSymmetry
INVARIANTS
    AdmissionSound
    EachOnce
    AnswersAreOwn
