SPECIFICATION Spec
CONSTANTS
    Apps = {"pub", "con"}
    Platform = "platform"
    Products = {"p"}
    Proxy = "proxy"
    NoApp = "noapp"
    Gateways = {"g1"}
    Instances = {"i1"}
    GatewayOf <- MCLoneGatewayOf
    Default = "default"
    Values = {"v"}
    NoValue = "novalue"
    Overridable = {}
    NoDoc = NoDoc
    NoAnswer = NoAnswer
    MaxSubs = 1
    MaxGen <- MCMaxGen
    Aging = {"primary", "secondary"}
    Changes = {"errors", "owner", "product"}
    MaxChanges = 1
    MaxRequests = 2
INVARIANTS
    OnlyLiveAccess
PROPERTIES
    TerminalForGood
