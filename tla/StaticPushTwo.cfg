SPECIFICATION FairSpec
CONSTANTS
    t1 = t1  t2 = t2  u1 = u1  u2 = u2
    Transports = {t1, t2}
    Urls = {u1}
    ChanCap = 1
    MaxPackets = 2
INVARIANTS PushServed 
 
CHECK_DEADLOCK FALSE
