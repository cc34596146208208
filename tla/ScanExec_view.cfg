SPECIFICATION Spec
CONSTANTS
    Attributes <- MCAttributes
    Queries <- MCViewQueries
    GroupKeys <- MCGroupKeys
    Int32Bits = 3
    Table <- MCTable
    Outer <- MCOuter
    AnalyzeToo = FALSE
INVARIANT NoLimitUnderWhere
