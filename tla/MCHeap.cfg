SPECIFICATION HeapSpec
CONSTANTS
    Nodes = {n1, n2, n3, n4, n5, n6}
    Keys = {1, 2, 3}
    NULL = NULL
    Out = Out
INVARIANTS
    Shape
PROPERTIES
    QueueSpec
