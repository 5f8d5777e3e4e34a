SPECIFICATION ProcessSpec
CONSTANTS
    p1 = p1
    p2 = p2
    p3 = p3
    p4 = p4
    Unclassified = Unclassified
    Orders <- MCOrders
    Lines <- MCLines
    MaxLines = 3
    Keys = {p1, p2}
    EventBytes <- MCEventBytes
    Streams = 2
    MaxEvents = 3
    ParsedEventBufferSize = 1
    MaxS3BufferSizeBytes = 3
    MaxBufferedMemBytes = 4
INVARIANTS
    ProcessTypeOK
    StoredOnce
    MemoryBounded
    QueueIsHeap
    AcceptedLinesStored
PROPERTY ProcessReturns
CHECK_DEADLOCK FALSE
