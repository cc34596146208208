----------------------------- MODULE SortedScans -----------------------------
(***************************************************************************)
(* Two wrappers that sort: multicorn.sqlalchemyfdw leaves it to ORDER BY   *)
(* in the remote database, whose default place for NULL depends on the     *)
(* dialect; multicorn.testfdw sorts in Python and cuts out LIMIT rows.     *)
(* What can_sort has claimed, PostgreSQL does not sort again.              *)
(*                                                                         *)
(* A value is a number, a row a function from columns to values.           *)
(***************************************************************************)
EXTENDS Integers, Sequences, SequencesExt, FiniteSets

NULL == 0

\* A SortKey; the collation is left out.
SortKey(attname, is_reversed, nulls_first) ==
    [attname |-> attname, is_reversed |-> is_reversed, nulls_first |-> nulls_first]

\* x is before y by one key, and by a sequence of them.
KeyBefore(key, x, y) ==
    \/ x = NULL /\ y # NULL /\ key.nulls_first
    \/ x # NULL /\ y = NULL /\ ~key.nulls_first
    \/ x # NULL /\ y # NULL /\ IF key.is_reversed THEN x > y ELSE x < y

Before(keys, r, s) ==
    \E i \in DOMAIN keys :
        /\ KeyBefore(keys[i], r[keys[i].attname], s[keys[i].attname])
        /\ \A j \in 1 .. i - 1 : r[keys[j].attname] = s[keys[j].attname]

-----------------------------------------------------------------------------
(* SqlAlchemyFdw.                                                          *)

Dialects == {"mssql", "postgresql", "mysql", "oracle", "sqlite", "other"}

\* How the databases sort NULL, and whether they know NULLS FIRST.  External.
NullsAre(dialect) == IF dialect \in {"postgresql", "oracle"} THEN "higher" ELSE "lower"

SORT_SUPPORT ==
    [d \in Dialects \ {"other"} |->
        IF d \in {"postgresql", "oracle"} THEN [default |-> "higher", support |-> TRUE]
                                          ELSE [default |-> "lower", support |-> FALSE]]

\* "None", or the clause that puts the NULLs where the key wants them.
need_explicit_null_ordering(dialect, key) ==
    LET higher == SORT_SUPPORT[dialect].default = "higher"
        no == IF key.is_reversed = higher THEN "nullsfirst" ELSE "nullslast"
        wanted == IF key.nulls_first THEN "nullsfirst" ELSE "nullslast"
    IN  IF no # wanted THEN wanted ELSE "None"

\* Mutant: only the first key is looked at.
can_sort_first(dialect, sortkeys) ==
    IF \/ dialect \notin DOMAIN SORT_SUPPORT
       \/ /\ sortkeys # << >> /\ need_explicit_null_ordering(dialect, sortkeys[1]) # "None"
          /\ ~SORT_SUPPORT[dialect].support
    THEN << >> ELSE sortkeys

can_sort(dialect, sortkeys) ==
    IF \/ dialect \notin DOMAIN SORT_SUPPORT
       \/ /\ \E i \in DOMAIN sortkeys : need_explicit_null_ordering(dialect, sortkeys[i]) # "None"
          /\ ~SORT_SUPPORT[dialect].support
    THEN << >> ELSE sortkeys

\* The ORDER BY of _build_statement.
OrderBy(dialect, sortkeys) ==
    [i \in DOMAIN sortkeys |-> [column |-> sortkeys[i].attname,
                                desc   |-> sortkeys[i].is_reversed,
                                nulls  |-> need_explicit_null_ordering(dialect, sortkeys[i])]]

\* The remote database's reading of one term of it; a database that does not
\* know NULLS FIRST raises.  External.
RemoteKey(dialect, term) ==
    SortKey(term.column, term.desc,
            CASE term.nulls = "nullsfirst" -> TRUE
              [] term.nulls = "nullslast"  -> FALSE
              [] term.nulls = "None"       -> term.desc = (NullsAre(dialect) = "higher"))

Refused(dialect, terms) ==
    NullsAre(dialect) = "lower" /\ \E i \in DOMAIN terms : terms[i].nulls # "None"

-----------------------------------------------------------------------------
(* TestForeignDataWrapper.                                                 *)

None == -1   \* no LIMIT, no OFFSET

\* sorted(res, key, reverse): stable, also in reverse.
TestSorted(rows, key) ==
    LET Comes(i, j) == \/ Before(<<key>>, rows[i], rows[j])
                       \/ ~Before(<<key>>, rows[j], rows[i]) /\ i < j
        Place(i) == Cardinality({j \in DOMAIN rows : Comes(j, i)}) + 1
    IN  [k \in DOMAIN rows |-> rows[CHOOSE i \in DOMAIN rows : Place(i) = k]]

\* s[from:to] and islice(s, from, to), from counted from 0.
Cut(s, from, to) == SubSeq(s, from + 1, IF to < Len(s) THEN to ELSE Len(s))
Or0(offset) == IF offset = None THEN 0 ELSE offset

TypeError == <<"TypeError">>

\* execute, after the rows are made.  LIMIT 0 is taken for no LIMIT unless the
\* rows are sorted; sorted rows have no OFFSET without LIMIT.
TestExecute(rows, sortkeys, limit, offset) ==
    IF sortkeys # << >>
    THEN LET res == TestSorted(rows, sortkeys[1])
         IN  IF limit = None THEN IF Or0(offset) > 0 THEN TypeError ELSE res
             ELSE Cut(res, Or0(offset), Or0(offset) + limit)
    ELSE Cut(rows, Or0(offset), IF limit \in {None, 0} THEN Len(rows) ELSE Or0(offset) + limit)

-----------------------------------------------------------------------------

\* The rows that SqlAlchemyFdw returns are in the order that can_sort has
\* claimed, with the NULLs in their place, whatever the remote database.
SqlSortsAsClaimed(dialect, sortkeys, Rows) ==
    LET claimed == can_sort(dialect, sortkeys)
        terms == OrderBy(dialect, claimed)
        remote == [i \in DOMAIN terms |-> RemoteKey(dialect, terms[i])]
    IN  /\ ~Refused(dialect, terms)
        /\ \A r, s \in Rows : Before(remote, r, s) <=> Before(claimed, r, s)

\* The test wrapper returns the rows number OFFSET + 1 to OFFSET + LIMIT of
\* the rows in the order asked for.  LIMIT 0 only of sorted rows, and OFFSET
\* of sorted rows only with LIMIT; no NULLs.
TestCutsAsAsked(rows, sortkeys, limit, offset) ==
    (limit # 0 \/ sortkeys # << >>) /\ (Or0(offset) > 0 /\ sortkeys # << >> => limit # None) =>
        LET answer == TestExecute(rows, sortkeys, limit, offset)
            all == TestExecute(rows, sortkeys, None, None)
            rest == IF Len(all) > Or0(offset) THEN Len(all) - Or0(offset) ELSE 0
        IN  /\ Len(answer) = IF limit = None \/ limit > rest THEN rest ELSE limit
            /\ \A i \in DOMAIN answer : answer[i] = all[i + Or0(offset)]
            /\ \A i, j \in DOMAIN all : Before(sortkeys, all[i], all[j]) => i < j
            /\ \A r \in ToSet(rows) : \E i \in DOMAIN all : all[i] = r
=============================================================================
