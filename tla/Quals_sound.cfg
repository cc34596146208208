SPECIFICATION Spec
CONSTANTS
    Vals = {0, 1}
    Null = 2
    True = 1
    False = 0
    Ops <- MCOps
    Holds <- MCHolds
    Commutator <- MCCommutator
    Clauses <- MCClauses
    Converted <- MCConverted
    Atts = {1}
INVARIANTS NothingLost QualsOnColumns
