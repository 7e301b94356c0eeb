SPECIFICATION Spec
CONSTANTS
    w1 = w1  w2 = w2
    Writers <- TwoWriters
    Kinds = {"vseq", "aseq", "key", "audio", "short", "shortAudio"}
    GopNum = 1
    MaxPackets = 4
SYMMETRY WriterSymmetry
INVARIANTS  NoGap CrashOnlyAtStart
CHECK_DEADLOCK FALSE
