SPECIFICATION Spec
CONSTANTS
    Name <- Names
    DefaultPrefix = 24
    File <- Files
    Main = "interfaces"
    Inputs <- EachToken
    Rank <- Ranks
    Addon <- Addons
    Members <- Ports
INVARIANT
    AllRewritten
