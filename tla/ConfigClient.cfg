SPECIFICATION FairSpec
CONSTANTS
    Docs <- MCDocs
    NoDoc = "nodoc"
    Subs <- MCSubs
    SubsOf <- MCSubsOf
    Demanding <- MCDemanding
    NeedsCert <- MCNeedsCert
    TrustedProxyConfigured = FALSE
    MaxWire = 2
    MaxHist = 3
INVARIANTS
    InstanceSound
PROPERTIES
    AnswersStand
    
    Converges
