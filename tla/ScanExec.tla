------------------------------ MODULE ScanExec ------------------------------
(***************************************************************************)
(* Executing the plan that Pushdown makes: the life of one ForeignScan     *)
(* node, from multicornBeginForeignScan through rescans to                 *)
(* multicornEndForeignScan, with the Python iterator it owns, and the      *)
(* answer of the query that PostgreSQL makes of its rows.                  *)
(***************************************************************************)
EXTENDS Pushdown

CONSTANTS
    Table,        \* the remote rows: a set of functions of the columns
    Outer,        \* the values of the outer row at each (re)scan
    AnalyzeToo    \* EXPLAIN ANALYZE, which explains after it has run

ASSUME OuterAssumption == Len(Outer) \in Nat \ {0}
ASSUME TableAssumption == IsFiniteSet(Table) /\ Table \subseteq [Attributes -> Int]

VARIABLES
    es,           \* MulticornExecState: p_iterator and what is left in it,
                  \* and the pushed down sort keys, limit and offset
    scan,         \* the number of the current scan of the node
    out,          \* the rows of this scan that passed the filter
    eof,          \* this scan has returned an empty slot
    refs,         \* references taken on iterators, minus those dropped
    nones         \* the same for None, returned instead of an iterable

exec == <<es, scan, out, eof, refs, nones>>
vars == <<q, pc, planner, exec>>

NoExec == [p_iterator |-> "NULL", rows |-> <<>>, sortkeys |-> <<>>,
           limit |-> Unset, offset |-> Unset]

ExecInit ==
    /\ es = NoExec
    /\ scan = 1
    /\ out = <<>>
    /\ eof = FALSE
    /\ refs = 0
    /\ nones = 0

-----------------------------------------------------------------------------
(* Rows and orders.                                                        *)

Rank(row, key) == IF key.how = "asc" THEN row[key.att] ELSE -row[key.att]

\* s is sorted by keys, lexicographically.
InOrder(s, keys) ==
    \A i, j \in DOMAIN s : i < j =>
      \A n \in DOMAIN keys :
        (\A m \in 1..(n - 1) : Rank(s[i], keys[m]) = Rank(s[j], keys[m]))
          => Rank(s[i], keys[n]) <= Rank(s[j], keys[n])

Arrangements(S, keys) == {s \in SetToSeqs(S) : InOrder(s, keys)}

\* The rows of s in any order that satisfies keys.
Resorted(s, keys) ==
    {t \in {[i \in DOMAIN s |-> s[f[i]]] : f \in SetToSeqs(DOMAIN s)} :
       InOrder(t, keys)}

\* A row with only the given columns; the others are null.
Restricted(row, columns) ==
    [c \in DOMAIN row |-> IF c \in columns THEN row[c] ELSE -1]

Columns(s, columns) == [i \in DOMAIN s |-> Restricted(s[i], columns)]

\* PostgreSQL's filter: the WHERE clause, and for a parameterized scan the
\* join clause with the value that the outer row has now.
Passes(row) ==
    /\ q.where # "none" => row["b"] = 0
    /\ plan.param => row["a"] = Outer[scan]

\* PostgreSQL's Limit node.
Cut(s) ==
    LET given == {"const", "expr"}
        first == IF q.offset.kind \in given THEN q.offset.v ELSE 0
        count == IF q.limit.kind \in given THEN q.limit.v ELSE Len(s)
        last  == first + count
        Peer(i) == /\ q.ties /\ count > 0 /\ last <= Len(s)
                   /\ \A n \in DOMAIN q.order :
                        Rank(s[i], q.order[n]) = Rank(s[last], q.order[n])
    IN  SubSeq(s, first + 1, first + Cardinality({i \in DOMAIN s :
                                i > first /\ (i <= last \/ Peer(i))}))

-----------------------------------------------------------------------------
(* The wrapper: it may apply the qualifiers it was given or ignore them,   *)
(* it sorts as far as it promised to, and applies a limit it accepted.     *)

Honoured == LongestCommonPrefix({es.sortkeys, promised})

Slice(s) ==
    LET first == IF es.offset >= 0 THEN es.offset ELSE 0
    IN  SubSeq(s, first + 1, IF es.limit >= 0 /\ first + es.limit < Len(s)
                               THEN first + es.limit ELSE Len(s))

Results ==
    LET needed == {r \in Table : Passes(r)}
    IN  {Slice(s) : s \in UNION {Arrangements(S, Honoured) :
                                   S \in {X \in SUBSET Table : needed \subseteq X}}}

-----------------------------------------------------------------------------
(* The executor's callbacks.                                               *)

\* Sort keys, limit and offset as the plan carries them.
initializeExecState ==
    [NoExec EXCEPT !.sortkeys = deserializeDeparsedSortGroup(plan.sortkeys),
                   !.limit = plan.limit, !.offset = plan.offset]

BeginForeignScan ==
    /\ pc = "begin"
    /\ es' = initializeExecState
    /\ scan' = 1 /\ out' = <<>> /\ eof' = FALSE /\ refs' = 0 /\ nones' = 0
    /\ pc' = "run"
    /\ UNCHANGED <<q, planner>>

\* execute, if there is no iterator yet, and then one row of it.  The values
\* of parameters are those at the time of execute.
IterateForeignScan ==
    /\ pc = "run" /\ ~eof
    /\ \E rows \in IF es.p_iterator = "NULL" THEN Results ELSE {es.rows} :
         /\ refs' = IF es.p_iterator = "NULL" THEN refs + 1 ELSE refs
         /\ es' = [es EXCEPT !.p_iterator = "iterator",
                             !.rows = IF rows = <<>> THEN rows ELSE Tail(rows)]
         /\ eof' = (rows = <<>>)
         /\ out' = IF rows # <<>> /\ Passes(Restricted(Head(rows), plan.columns))
                     THEN Append(out, Restricted(Head(rows), plan.columns))
                     ELSE out
    /\ UNCHANGED <<q, pc, planner, scan, nones>>

\* execute returns None: its only reference is dropped there, and once more
\* here.
IterateNone ==
    /\ pc = "run" /\ ~eof /\ es.p_iterator = "NULL" /\ <<>> \in Results
    /\ es' = [es EXCEPT !.p_iterator = "None"]
    /\ nones' = nones - 1
    /\ eof' = TRUE
    /\ UNCHANGED <<q, pc, planner, scan, out, refs>>

\* Py_DECREF(p_iterator), which a scan that found None does not own.
DropIterator ==
    /\ refs' = IF es.p_iterator = "iterator" THEN refs - 1 ELSE refs
    /\ nones' = IF es.p_iterator = "None" THEN nones - 1 ELSE nones

\* Mutant: the iterator of the previous scan is kept.
ReScanKeepsIterator ==
    /\ pc = "run" /\ scan < Len(Outer)
    /\ scan' = scan + 1 /\ out' = <<>> /\ eof' = FALSE
    /\ UNCHANGED <<q, pc, planner, es, refs, nones>>

\* Mutant: the reference is dropped and the pointer kept.
ReScanKeepsPointer ==
    /\ pc = "run" /\ scan < Len(Outer)
    /\ scan' = scan + 1 /\ out' = <<>> /\ eof' = FALSE
    /\ DropIterator
    /\ UNCHANGED <<q, pc, planner, es>>

\* At any time: the next outer row, or a subplan evaluated again.
ReScanForeignScan ==
    /\ pc = "run" /\ scan < Len(Outer)
    /\ scan' = scan + 1 /\ out' = <<>> /\ eof' = FALSE
    /\ es' = [es EXCEPT !.p_iterator = "NULL", !.rows = <<>>]
    /\ DropIterator
    /\ UNCHANGED <<q, pc, planner>>

\* EXPLAIN: execute calls the explain method, and all lines are fetched.  The
\* iterator stays in the state until the end of the scan.
ExplainForeignScan ==
    /\ pc = "run" /\ (es.p_iterator = "NULL" \/ AnalyzeToo)
    /\ es' = [es EXCEPT !.p_iterator = "iterator", !.rows = <<>>]
    /\ refs' = refs + 1
    /\ pc' = "explained"
    /\ UNCHANGED <<q, planner, scan, out, eof, nones>>

\* Mutant: end_scan is called, and the iterator forgotten.
EndKeepsReference ==
    /\ pc \in {"run", "explained"}
    /\ es' = [es EXCEPT !.p_iterator = "NULL", !.rows = <<>>]
    /\ pc' = "done"
    /\ UNCHANGED <<q, planner, scan, out, eof, refs, nones>>

\* At any time: the node above may have had enough rows.
EndForeignScan ==
    /\ pc \in {"run", "explained"}
    /\ DropIterator
    /\ es' = [es EXCEPT !.p_iterator = "NULL", !.rows = <<>>]
    /\ pc' = "done"
    /\ UNCHANGED <<q, planner, scan, out, eof>>

\* execute, the iterator, explain or end_scan raises: nothing is cleaned up.
ExecutionRaises ==
    /\ pc \in {"run", "explained"}
    /\ pc' = "failed"
    /\ UNCHANGED <<q, planner, exec>>

\* The statement again: a prepared one with the plan it has, or planned anew.
NextStatement ==
    \/ /\ pc = "done"
       /\ pc' = "begin"
       /\ UNCHANGED <<q, planner, exec>>
    \/ /\ pc \in {"done", "failed"}
       /\ q' = q
       /\ pc' = "size"
       /\ promised' = <<>> /\ planstate' = FreshState /\ plan' = NoPlan
       /\ private' = (q.shape = "plain")
       /\ paths' = {} /\ finals' = {} /\ told' = {}
       /\ es' = NoExec /\ scan' = 1 /\ out' = <<>> /\ eof' = FALSE
       /\ refs' = 0 /\ nones' = 0

QueryInit == Init /\ ExecInit

Next ==
    \/ PlannerNext /\ UNCHANGED exec
    \/ BeginForeignScan
    \/ IterateForeignScan
    \/ IterateNone
    \/ ReScanForeignScan
    \/ ExplainForeignScan
    \/ EndForeignScan
    \/ ExecutionRaises
    \/ NextStatement

Spec == QueryInit /\ [][Next]_vars

-----------------------------------------------------------------------------

\* Types of the state of planning and execution.
TypeOK ==
    /\ q \in Queries
    /\ pc \in {"size", "paths", "ordered", "final", "plan", "begin", "run",
               "explained", "done", "failed"}
    /\ private \in BOOLEAN
    /\ es.p_iterator \in {"NULL", "iterator", "None"}
    /\ scan \in 1..Len(Outer)
    /\ eof \in BOOLEAN
    /\ refs \in Nat
    /\ nones \in Int

\* What the query may answer, on the columns that are used of it.
LegalAnswers ==
    IF q.shape = "plain"
      THEN {Columns(Cut(s), reltarget) :
              s \in Arrangements({r \in Table : Passes(r)}, q.order)}
      ELSE {Columns(s, reltarget) :
              s \in Arrangements({r \in Table : Passes(r)}, <<>>)}

\* What PostgreSQL makes of the rows of the finished scan: for a plain query
\* the nodes above sort and limit them, other queries go on from the rows.
Answers ==
    IF q.shape # "plain" THEN {Columns(out, reltarget)}
    ELSE {Columns(IF plan.limits THEN Cut(s) ELSE s, reltarget) :
            s \in IF plan.sorts THEN Resorted(out, q.order) ELSE {out}}

\* However sort, limit and filter are shared between the wrapper and
\* PostgreSQL, a scan that was read to its end gives an answer the query may
\* have: every (re)scan, for the outer row of that scan, with all columns.
RightAnswer == eof => Answers \subseteq LegalAnswers

\* The path keys that a path was added with hold for the rows it returns:
\* merge joins, grouping and incremental sorts rely on them.
ClaimsKept == eof => InOrder(out, plan.claims)

\* Each reference taken on a Python iterator is dropped exactly once by the
\* end of the scan, and none is used after its last reference was dropped.
RefsSettled ==
    /\ pc = "done" => refs = 0
    /\ es.p_iterator = "iterator" /\ pc # "failed" => refs = 1

\* The same for None, if execute returned that instead of an iterable.
NoneSettled == pc = "done" => nones = 0
=============================================================================
