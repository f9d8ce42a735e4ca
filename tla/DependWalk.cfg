\* Every interfaces file of three names, with an executor that is asked.
SPECIFICATION FairSpec
CONSTANTS
    Iface <- Three
    Collections <- ThreeCollections
    Graphs <- ThreeGraphs
    Asked <- Talkative
    Learned <- Repeats
    Within <- Parts
INVARIANTS
    TypeOK
    CountsReverseDependency
    NothingLost
    ForestInOrder
    LearnedIsRequired
PROPERTIES
    Terminates
