SPECIFICATION SpokeSpec
CONSTANTS
    n1 = n1
    n2 = n2
    a1 = a1
    a2 = a2
    f1 = f1
    ID = {n1, n2}
    Addr = {a1, a2}
    Foreign = {f1}
    Contacts <- Three
    Bootstrap = {}
    Candidates = {a1}
    NumBuckets = 2
    Layouts <- ThreeLayouts
    KBucketSize = 1
    MaxNodes = 2
    MinNodes = 2
    PruneAge = 1
    ProbeAge = 2
    MaxListed = 1
    MaxRestarts = 1
INVARIANT OnlyResponders
