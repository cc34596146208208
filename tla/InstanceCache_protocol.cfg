SPECIFICATION Spec
CONSTANTS
    t1 = t1  t2 = t2  o1 = o1  o2 = o2  c1 = c1  c2 = c2
    NULL = NULL
    Tables = {t1, t2}
    Options = {o1, o2}
    Columns = {c1, c2}
    MaxLevel = 3
    ErrStackSize = 5
    MaxRefs = 2
    Raising = {"get_class", "__init__", "begin", "sub_begin", "sub_commit", "sub_rollback", "pre_commit", "rollback"}
    Events = {"savepoint", "internal", "error", "write", "alter"}
SYMMETRY MCSymmetry
INVARIANTS TypeOK IdleClean OneVerdict
PROPERTY HooksFollowProtocol
