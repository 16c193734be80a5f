\* One part at a time: two threads among two directories, with two spawns' actions;
\* a stream over a buffer of up to three bytes, a growing one of up to five;
\* vectors of up to three buffers and texts of up to six bytes; clocks in six-bit
\* words; and two threads asking for continuous time.
SPECIFICATION MCSpec
CONSTANTS
    Threads = {t1, t2}
    Dirs = {d1, d2}
    Acts = {a1, a2}
    CHDIR_TABLE_SIZE = 2
    None = None
    MaxSize = 3
    MaxLen = 5
    Lengths <- Vectors
    Written <- ShortTexts
    Half = 8
    Values = {0, 1, 2, 3, 5, 7, 8, 9, 12, 15, 16, 17, 23, 31, 32, 33, 47, 62, 63}
    Boots = {0, 22, 40}
    TRIES = 2
    MaxNow = 6
    Uses = {}
    Allowed = {}
SYMMETRY Symmetric
INVARIANTS WhereAsked DirectoryRestored ClocksSound
PROPERTIES CallerUnchanged ImplementsStreams
