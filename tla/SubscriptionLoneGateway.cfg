SPECIFICATION FairSpec
CONSTANTS
    Apps = {"pub"}
    Platform = "platform"
    Products = {"p"}
    Proxy = "proxy"
    NoApp = "noapp"
    Gateways = {"g1"}
    Instances = {"i1"}
    GatewayOf <- MCLoneGatewayOf
    Default = "default"
    Values = {"v"}
    NoValue = "novalue"
    Overridable = {"g1"}
    NoDoc = NoDoc
    NoAnswer = NoAnswer
    MaxSubs = 1
    MaxGen <- MCOneGen
    Aging = {}
    Changes = {"setting"}
    MaxChanges = 1
    MaxRequests = 0
PROPERTIES
    Settles
