\* An executor prints eth10 and then eth1: strstr takes the second for known.
SPECIFICATION Spec
CONSTANTS
    Iface <- Three
    Collections <- ThreeCollections
    Graphs <- ThreeGraphs
    Asked <- Talkative
    Learned <- Repeats
    Within <- Parts
INVARIANT PrintedIsRequired
