SPECIFICATION FairSpec
CONSTANTS
    a = a  b = b  c = c  r1 = r1  r2 = r2  k1 = k1  k2 = k2  k3 = k3
    None = None
    Requests <- ThreeRequests
    Rooms <- TwoRooms
    KeyPool <- ThreeKeys
INVARIANTS TypeOK RoomKeyResolves NoCrossRoom DeletedRoomShut
PROPERTIES AnswerUsable
CHECK_DEADLOCK FALSE
