\* One command after the other, -a among them; requirers go down first; the uplink fails.
SPECIFICATION Spec
CONSTANTS
    p1 = p1
    p2 = p2
    none = none
    NoIface = none
    NoProc = noproc
    Proc <- OneProc
    Key <- Host5Keys
    Iface <- Host5
    Requires <- Host5Requires
    CollectionOrder <- Host5Order
    IsAuto <- Host5Auto
    Matched <- Host5
    Template <- NoStanza
    ConfigError <- BadStanza
    Flaky <- Host5Flaky
    Commands <- Host5Commands
    WriteOutcomes <- AlwaysWritable
    DownAfter <- RequirersFirst
    MaxRuns = 7
    MaxCrashes = 1
    Killable <- OnlyUps
    NoRepeatedDown = TRUE
INVARIANTS
    CopiesAgree
    RefcountNeverOver
    NoTeardownWhileRequired
PROPERTIES
    SuccessIsRecorded
