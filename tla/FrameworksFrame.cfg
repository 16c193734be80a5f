\* Constraints determine a part of the view's frame.
SPECIFICATION MCSpec
CONSTANTS
    Parts = {"frames"}
    Threads = {t1, t2}
    Slots = {x1, x2}
    Objects = {view, text, plain}
    Custom = {view, text}
    Nil = Nil
    Layers = {l1, l2}
    Owners = {d1, d2}
    MaxCalls = 1
    MaxDepth = 1
    Controllers = {c1, c2}
    MaxTodo = 5
    Views = {v1, v2, v3}
    Gravities = 2
    Places = {0, 1, 2}
    Sizes = {0, 1, 2}
    Uses = {}
    Allowed = {"half"}
SYMMETRY Symmetric
INVARIANT FrameKept
CHECK_DEADLOCK FALSE
