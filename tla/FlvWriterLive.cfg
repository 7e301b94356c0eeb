SPECIFICATION FairSpec
CONSTANTS
    x1 = x1  x2 = x2
    Closers <- TwoClosers
    Sweeper = x1
    MaxPackets = 4
    QueueCap = 4
    VideoSlack = 1
    WriteSlack = 1
    DropSlack = 1
PROPERTIES TransportResumes HandlerReturns
CHECK_DEADLOCK FALSE
