SPECIFICATION Spec
CONSTANTS
    b1 = b1  b2 = b2  f = f  g = g  x = x  empty = empty  i1 = i1  i2 = i2  i3 = i3  i4 = i4
    NULL = NULL
    Empty = empty
    Backends = {b1, b2}
    Names = {f}
    Contents = {x, empty}
    Inodes = {i1, i2, i3, i4}
    MaxOps = 1
    Statements = {"insert", "delete", "update", "abort", "recreate", "clobber"}
SYMMETRY MCSymmetry
INVARIANTS NoDeadlock
PROPERTY ReadsStable
