\* Two ifup of unrelated interfaces at once.
SPECIFICATION Spec
CONSTANTS
    p1 = p1
    p2 = p2
    none = none
    NoIface = none
    NoProc = noproc
    Proc <- TwoProcs
    Key <- Pair
    Iface <- Pair
    Requires <- PairRequires
    CollectionOrder <- PairOrder
    IsAuto <- NoStanza
    Matched <- Pair
    Template <- NoStanza
    ConfigError <- NoStanza
    Flaky <- NoFlaky
    Commands <- PairCommands
    WriteOutcomes <- AlwaysWritable
    DownAfter <- RequirersFirst
    MaxRuns = 2
    MaxCrashes = 0
    Killable <- AnyCommand
    NoRepeatedDown = TRUE
INVARIANTS
    UpIsRecorded
