SPECIFICATION Spec
CONSTANTS
    Users = {"a", "b"}
    Deployments <- MCDeployments
    Founder = "a"
    Passwords = {"p", "q"}
    SessionIds = {s1, s2}
    Requests = {r1, r2}
    Threshold = 2
    RatePerMinute = 2
    MaxBegun = 4
    Subjects = {"u"}
    Flows = {"f1", "f2"}
    WebSessions = {w1, w2}
    Tasks = {t1, t2}
    Groups = {"orders", "x/orders", "y/orders"}
    Leaf <- MCLeaf
    IdOf <- MCIdOf
    AppIds = {"orders", "other"}
    NoId = "no id"
    NoGroup = "no group"
    Claims <- MCClaims
    MaxTurns = 3
    Questions = {x1, x2}
    Texts = {d1, d2}
    MaxVersion = 1
    MaxFlights = 2
SYMMETRY MCSymmetry
CHECK_DEADLOCK FALSE
INVARIANTS
    AccountsHold
    SessionsHold
    ScreenIsCurrent
PROPERTIES
    GrantsStand
    
