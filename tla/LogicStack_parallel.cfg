SPECIFICATION FairSpec
CONSTANTS
    Node <- MCNode
    Root = 1
    None = None
    Trees <- MCTrees
    Inner = {"parallel_all", "parallel_one"}
    MaxRequires = 0
INVARIANT ParallelAsDocumented
CHECK_DEADLOCK FALSE
