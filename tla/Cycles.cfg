\* Dependency cycles; an interface may go down while it is required.
SPECIFICATION AnsweredSpec
CONSTANTS
    p1 = p1
    p2 = p2
    none = none
    NoIface = none
    NoProc = noproc
    Proc <- OneProc
    Key <- Cycle4
    Iface <- Cycle4
    Requires <- Cycle4Requires
    CollectionOrder <- Cycle4Order
    IsAuto <- NoStanza
    Matched <- Cycle4
    Template <- NoStanza
    ConfigError <- NoStanza
    Flaky <- NoFlaky
    Commands <- Cycle4Commands
    WriteOutcomes <- AlwaysWritable
    DownAfter <- Cycle4Discipline
    MaxRuns = 6
    MaxCrashes = 0
    Killable <- AnyCommand
    NoRepeatedDown = TRUE
INVARIANTS
    RefcountExact
    NoReentry
PROPERTIES
    KeepsPromise
