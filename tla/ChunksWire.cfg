SPECIFICATION FairSpec
CONSTANTS
    Csids = {3, 64, 65}
    Lengths = {1, 3}
    Stamps = {1, 5}
    ExtMark = 5
    FirstSize = 2
    NewSize = 3
    MaxMessages = 3
    MaxWire = 3
PROPERTIES Implements Delivered
CHECK_DEADLOCK FALSE
