\* Two threads form the first weak references to one object at once.
SPECIFICATION MCSpec
CONSTANTS
    Parts = {"weak"}
    Threads = {t1, t2}
    Slots = {x1, x2}
    Objects = {view, plain}
    Custom = {view}
    Nil = Nil
    Layers = {l1, l2}
    Owners = {d1, d2}
    MaxCalls = 1
    MaxDepth = 1
    Controllers = {c1, c2}
    MaxTodo = 5
    Views = {v1, v2, v3}
    Gravities = 2
    Places = {0, 1, 2}
    Sizes = {0, 1, 2}
    Uses = {"attach"}
    Allowed = {}
SYMMETRY Symmetric
INVARIANT NoDangling
CHECK_DEADLOCK FALSE
