\* Three threads wait on, change and wake one word.
SPECIFICATION FairSpec
CONSTANTS
    t1 = t1  t2 = t2  t3 = t3  a = a
    Threads = {t1, t2, t3}
    Addrs = {a}
    Half = {0, 1}
    NoWait = NoWait
    Nobody = Nobody
    Calls <- SomeCalls
    Values <- SomeValues
INVARIANT NoMissedWake
PROPERTIES WaitReturns TimedWaitEnds ImplementsFutex
