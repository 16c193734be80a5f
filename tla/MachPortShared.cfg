\* Two threads register one wakeup port.
SPECIFICATION Spec
CONSTANTS
    t1 = t1  t2 = t2  a = a  b = b  c = c
    Threads = {t1, t2}
    Ports = {a}
    Psets = {s1, s2, s3}
    MapSize = 2
    Kind <- WakeKind
    User <- RaceUser
    None = None
    Again = TRUE
    Scarce = FALSE
INVARIANTS MapSound NoPsetLeak CanFire
