\* One part at a time: two threads on two weak variables and three objects, two of
\* a class with its own retain; two layers and two delegates; two controllers,
\* with calls nested in what they are told; three views in two gravities; a frame.
SPECIFICATION MCSpec
CONSTANTS
    Parts = {"weak", "layers", "controllers", "stacks", "frames"}
    Threads = {t1, t2}
    Slots = {x1, x2}
    Objects = {view, text, plain}
    Custom = {view, text}
    Nil = Nil
    Layers = {l1, l2}
    Owners = {d1, d2}
    MaxCalls = 1
    MaxDepth = 1
    Controllers = {c1, c2}
    MaxTodo = 5
    Views = {v1, v2, v3}
    Gravities = 2
    Places = {0, 1, 2}
    Sizes = {0, 1, 2}
    Uses = {}
    Allowed = {}
SYMMETRY Symmetric
INVARIANTS NoDangling ObjcOnlyItsOwn NothingLeftBehind DelegatesSafe LayoutKept
PROPERTIES LiveStays CallbacksInOrder
CHECK_DEADLOCK FALSE
