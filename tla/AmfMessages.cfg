SPECIFICATION Spec
CONSTANTS
    StringMax = 2
    MaxMessages = 2
    Messages <- MCMessages
    PeerMessages <- MCPeerMessages
INVARIANTS  CutIsPrefix RefsResolve MetaDataOnce
CHECK_DEADLOCK FALSE
