SPECIFICATION FairSpec
CONSTANTS
    p1 = p1  p2 = p2  x1 = x1  x2 = x2
    Producers <- OneProducer
    Closers <- TwoClosers
    Kinds = {"seq", "meta"}
    MaxPackets = 4
    QueueCap = 5
    AudioSlack = 1
    VideoSlack = 2
    WriteSlack = 3
    DropSlack = 3
PROPERTIES SenderEnds CloseReleasesWriters
CHECK_DEADLOCK FALSE
