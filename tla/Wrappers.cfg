SPECIFICATION Spec
CONSTANTS
    \* SqlAlchemyFdw
    Tables = {t1, t2}
    Rows = {r1}
    Failing = {"connect", "statement", "commit", "acknowledge", "rollback", "late", "savepoint", "crash"}
    Doomed = FALSE
    \* MetaCache
    Callers = {"c1", "c2"}
    Files = {"f1", "f2", "f3"}
    MaxSize = 2
    MaxWrites = 1
    SameTick = FALSE
    \* ImapFdw
    LoginRefused = FALSE
    \* RssFdw
    CacheDuration = 2
    FetchTime = 1
    MaxClock = 5
    MaxVersions = 2
    NoRows = NoRows
    \* XmlFdw
    ElemTag = "row"
    Columns = {"a", "b"}
    OtherTags = {"x"}
    MaxEvents = 9
    MaxDepth = 4
    Nested = FALSE
INVARIANTS
    TypeOK
    NoLostWrite Released
    CacheSound NotStale
    NotTooOld
    RowsOfDocument
     SortsAndCutsAsAsked ImportsFaithfully
    NamesAreRows FixedAsListed GoesWhereAsked
PROPERTIES
    AppliedBeforeVerdict ImapRecovers
CHECK_DEADLOCK FALSE
