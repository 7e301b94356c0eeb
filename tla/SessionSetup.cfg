SPECIFICATION FairSpec
CONSTANTS
    Apps = {"live", "nope"}
    Configured = {"live"}
    Names = {"key", "room"}
    ChannelOf <- MCChannelOf
    MaxOther = 5
INVARIANTS RolesAgree
PROPERTIES StartReturns HandlerDecides
CHECK_DEADLOCK FALSE
