\* Each port has one user; the map is smaller than the number of ports.
SPECIFICATION FairSpec
CONSTANTS
    t1 = t1  t2 = t2  a = a  b = b  c = c
    Threads = {t1, t2}
    Ports = {a, b, c}
    Psets = {s1, s2, s3}
    MapSize = 2
    Kind <- LoopKind
    User <- LoopUser
    None = None
    Again = TRUE
    Scarce = TRUE
INVARIANTS Wrapped ReplyStillQueued NoBurnedSlot
PROPERTY WakeupTaken
