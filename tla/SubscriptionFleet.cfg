SPECIFICATION FairSpec
CONSTANTS
    Apps = {"pub"}
    Platform = "platform"
    Products = {"p"}
    Proxy = "proxy"
    NoApp = "noapp"
    Gateways = {"g1", "g2"}
    Instances = {"i1", "i2"}
    GatewayOf <- MCGatewayOf
    Default = "default"
    Values = {"v"}
    NoValue = "novalue"
    Overridable = {"g1"}
    NoDoc = NoDoc
    NoAnswer = NoAnswer
    MaxSubs = 1
    MaxGen <- MCOneGen
    Aging = {}
    Changes = {"setting"}
    MaxChanges = 1
    MaxRequests = 0
PROPERTIES
    
    Settles
