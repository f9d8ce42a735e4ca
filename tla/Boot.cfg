\* OpenRC start and stop on two VLANs of one device, with operators in between.
SPECIFICATION ServiceSpec
CONSTANTS
    p1 = p1
    none = none
    NoIface = none
    NoProc = noproc
    Proc <- OneShell
    Key <- HostNames
    Iface <- VlanHost
    Requires <- VlanRequires
    CollectionOrder <- VlanOrder
    IsAuto <- Vlans
    Matched <- VlanHost
    Template <- NoStanza
    ConfigError <- NoStanza
    Flaky <- VlanUpFlaky
    Commands <- ServiceCommands
    WriteOutcomes <- Writable
    DownAfter <- NoDiscipline
    MaxRuns = 12
    MaxCrashes = 0
    Killable <- OnlyUps
    NoRepeatedDown = FALSE
    Services <- SomeServices
    Operator <- OperatorCommands
    MaxVerbs = 2
    MaxMeddled = 3
INVARIANTS
    ServiceTypeOK
    PendingIsActive
    ServiceKeepsCounts
    RequiredUpAfterRetry
PROPERTIES
    
    VerbsEnd
