\* Two threads share one kqueue: a socket and a timer are registered,
\* deleted, disabled and waited for from both.
SPECIFICATION Spec
CONSTANTS
    t1 = t1  t2 = t2  q1 = q1  f1 = f1  tm = tm
    NoKq = NoKq  Nobody = Nobody
    Threads = {t1, t2}
    Kqs = {q1}
    Fds = {f1}
    Timers = {tm}
    FdFilters = {"read"}
    Modes = {"oneshot", "dispatch", "level"}
    Loop <- SharedLoop
    Home <- SharedHome
    Calls <- SharedCalls
    TableSize = 2
    MaxPending = 2
    MaxGen = 1
    EarlyReuse = FALSE
INVARIANTS StashSound OneReportPerFilter
PROPERTY FiresSurvive
