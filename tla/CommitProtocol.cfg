SPECIFICATION FairSpec
CONSTANTS
    g = g b1 = b1 b2 = b2 k1 = k1 v1 = v1 v2 = v2 n1 = n1 n2 = n2
    Genesis = g
    Block <- MCBlock
    Key <- MCKey
    Value <- MCValue
    Node <- MCNode
INVARIANTS
    NoPendingJournalWhenReady
PROPERTIES
    Atomicity
    StartupEnds
