SPECIFICATION Spec
CONSTANTS
    Nodes <- MCNodes
    MaxStack = 4
    MaxPending = 2
    MaxAbsent = 1
    MaxInner = 1
INVARIANTS
    TypeOK
    ListsReadBackwards
    PlainNodesCounted
    PipesInTextOrder
PROPERTIES
    ImplementsForest
CHECK_DEADLOCK FALSE
