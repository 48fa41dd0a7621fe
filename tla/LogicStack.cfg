SPECIFICATION FairSpec
CONSTANTS
    Node <- MCNode
    Root = 1
    None = None
    Trees <- MCTrees
    Inner <- MCKinds
    MaxRequires = 2
INVARIANTS TypeOK OnlyTopWaits StackIsPath ResultAgrees
PROPERTY RunEnds
CHECK_DEADLOCK FALSE
