SPECIFICATION Spec
CONSTANTS
    p1 = p1  p2 = p2  q1 = q1  k1 = k1
    NoPub = NoPub
    Publishers <- TwoPublishers
    Players <- OnePlayer
    HttpPlayers <- NoPlayer
    Keys <- OneKey
    KeyOf <- SameKey
    HasHls = FALSE
    MaxStreams = 3
SYMMETRY PublisherSymmetry
CONSTRAINT OneRace
INVARIANTS TransportRegistered OneHome PlayerServed
CHECK_DEADLOCK FALSE
