SPECIFICATION Spec
CONSTANTS
    t1 = t1  t2 = t2  o1 = o1  o2 = o2  c1 = c1  c2 = c2
    NULL = NULL
    Tables = {t1, t2}
    Options = {o1}
    Columns = {c1}
    MaxLevel = 2
    ErrStackSize = 5
    MaxRefs = 2
    Raising = {}
    Events = {"savepoint", "prepare"}
INVARIANT IdleClean
