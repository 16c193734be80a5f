\* One event loop: registrations, deletions, closes and waits of one thread.
SPECIFICATION FairSpec
CONSTANTS
    t1 = t1  t2 = t2  q1 = q1  f1 = f1  tm = tm
    NoKq = NoKq  Nobody = Nobody
    Threads = {t1}
    Kqs = {q1}
    Fds = {f1}
    Timers = {tm}
    FdFilters = {"read", "write"}
    Modes = {"oneshot", "level"}
    Loop <- OneLoop
    Home <- SharedHome
    Calls <- OneCalls
    TableSize = 2
    MaxPending = 3
    MaxGen = 2
    EarlyReuse = FALSE
INVARIANTS NoDanglingUdata NoParkOverStash
PROPERTY StashDelivered
