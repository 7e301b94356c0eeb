SPECIFICATION Spec
CONSTANTS
    p1 = p1  p2 = p2  x1 = x1  x2 = x2
    Producers <- TwoProducers
    Closers <- TwoClosers
    Kinds = {"audio", "inter"}
    MaxPackets = 4
    QueueCap = 3
    AudioSlack = 0
    VideoSlack = 0
    WriteSlack = 1
    DropSlack = 1
SYMMETRY PairSymmetry
INVARIANTS TypeOK Accounted QueueBound SendNeverBlocks  SenderNotStranded SerialCloseSafe
CHECK_DEADLOCK FALSE
