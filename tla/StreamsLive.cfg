SPECIFICATION FairSpec
CONSTANTS
    p1 = p1  p2 = p2  q1 = q1  k1 = k1
    NoPub = NoPub
    Publishers <- OnePublisher
    Players <- OnePlayer
    HttpPlayers <- OnePlayer
    Keys <- OneKey
    KeyOf <- SameKey
    HasHls = TRUE
    MaxStreams = 3
PROPERTIES DeadDetached IdleForgotten
CHECK_DEADLOCK FALSE
