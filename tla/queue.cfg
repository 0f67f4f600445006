SPECIFICATION FairQueueSpec
CONSTANTS
    B = 3
    MapSize = 8
    Nodes = {n1, n2, n3}
    NoNode = NoNode
    MaxEvents = 17
    MaxBacklog = 4
INVARIANT QueueTypeOK
INVARIANT FifoUnlessRaced
INVARIANT FifoWhileShort
PROPERTY EveryEventHandled
CHECK_DEADLOCK FALSE
