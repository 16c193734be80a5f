\* A program that changes dispositions through sigaction(), and SIGILL also through signal().
SPECIFICATION FairSpec
CONSTANTS
    t1 = t1  t2 = t2  h1 = h1
    Threads = {t1, t2}
    Handlers = {h1}
    None = None
    Early <- NoHandlers
    Actions <- SomeActions
    Setters = {t1}
    Layouts <- SomeLayouts
    LastPage = 1
    MaxFixed = 0
    Uses = {}
INVARIANT Frontline
PROPERTIES FaultEnds NoClobber ImplementsSignals
CHECK_DEADLOCK FALSE
