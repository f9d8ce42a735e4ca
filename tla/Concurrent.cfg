\* Two processes at once with all kinds of commands, failing phases and a kill.
SPECIFICATION FairSpec
CONSTANTS
    p1 = p1
    p2 = p2
    none = none
    NoIface = none
    NoProc = noproc
    Proc <- TwoProcs
    Key <- MixedKeys
    Iface <- Mixed
    Requires <- MixedRequires
    CollectionOrder <- MixedOrder
    IsAuto <- MixedAuto
    Matched <- Mixed
    Template <- TplStanza
    ConfigError <- BadStanza
    Flaky <- MixedFlaky
    Commands <- MixedCommands
    WriteOutcomes <- MaybeWritable
    DownAfter <- NoDiscipline
    MaxRuns = 3
    MaxCrashes = 1
    Killable <- AnyCommand
    NoRepeatedDown = FALSE
INVARIANTS
    TypeOK
    OnlyConfigurable
    LockOwnership
    DictionaryOK
PROPERTIES
    Termination
    MockIsInert
