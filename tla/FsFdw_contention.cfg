SPECIFICATION Spec
CONSTANTS
    b1 = b1  b2 = b2  f = f  g = g  x = x  empty = empty  i1 = i1  i2 = i2  i3 = i3  i4 = i4
    NULL = NULL
    Empty = empty
    Backends = {b1, b2}
    Names = {f, g}
    Contents = {empty}
    Inodes = {i1, i2, i3}
    MaxOps = 2
    Statements = {"insert", "rename", "clobber"}
SYMMETRY MCSymmetry
INVARIANTS PopsCached
CHECK_DEADLOCK FALSE
