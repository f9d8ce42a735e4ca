\* ifup fails, and is run again.
SPECIFICATION Spec
CONSTANTS
    p1 = p1
    p2 = p2
    none = none
    NoIface = none
    NoProc = noproc
    Proc <- OneProc
    Key <- Fork3
    Iface <- Fork3
    Requires <- Fork3Requires
    CollectionOrder <- Fork3Order
    IsAuto <- NoStanza
    Matched <- Fork3
    Template <- NoStanza
    ConfigError <- NoStanza
    Flaky <- Fork3UpFlaky
    Commands <- Fork3Ups
    WriteOutcomes <- AlwaysWritable
    DownAfter <- RequirersFirst
    MaxRuns = 3
    MaxCrashes = 0
    Killable <- AnyCommand
    NoRepeatedDown = TRUE
INVARIANTS
    RequiredUpFirst
