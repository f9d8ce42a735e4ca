SPECIFICATION FairSpec
CONSTANTS
    Name <- Names
    DefaultPrefix = 24
    File <- Files
    Main = "interfaces"
    Inputs <- AllInputs
    Rank <- Ranks
    Addon <- Addons
    Members <- Ports
INVARIANTS
    TypeOK
    NestedOnce
    AllSourced
    NetmaskOfBlock
    TemplatesApart
    FlaggedBridgesPass
PROPERTY
    Terminates
