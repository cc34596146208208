SPECIFICATION Spec
CONSTANTS
    Attributes <- MCAttributes
    Queries <- MCQueries
    GroupKeys <- MCGroupKeys
    Int32Bits = 3
    Table <- MCTable
    Outer <- MCOuter
    AnalyzeToo = FALSE
INVARIANTS TypeOK RightAnswer ClaimsKept LimitOnlyWhole RefsSettled
