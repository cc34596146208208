SPECIFICATION Spec
CONSTANTS
    t1 = t1  t2 = t2  o1 = o1  o2 = o2  c1 = c1  c2 = c2
    NULL = NULL
    Tables = {t1}
    Options = {o1, o2}
    Columns = {c1}
    MaxLevel = 2
    ErrStackSize = 5
    MaxRefs = 2
    Raising = {"get_class"}
    Events = {"alter"}
INVARIANT NoFreedInstance
