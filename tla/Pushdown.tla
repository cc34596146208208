------------------------------ MODULE Pushdown ------------------------------
(***************************************************************************)
(* Planning a query over one foreign table: which columns are asked for,   *)
(* which sorts and which LIMIT/OFFSET are left to the Python wrapper, and  *)
(* what the plan tells the executor.  One action per planner callback.     *)
(*                                                                         *)
(* A query is a record                                                     *)
(*   shape   "plain", "group" (GROUP BY, DISTINCT, a window) or "join"     *)
(*   where   "none", "top" (in the query's own jointree->quals) or "view"  *)
(*           (in a FromExpr below it, as a flattened view leaves it)       *)
(*   order   the canonical path keys of ORDER BY                           *)
(*   limit, offset   [kind, v]: "none" (absent), "null", "const", "expr"   *)
(*   ties    FETCH FIRST ... WITH TIES                                     *)
(* and a path key is [att, how, var]: how stands for direction, position   *)
(* of nulls and collation, var says that it sorts on a bare column.        *)
(***************************************************************************)
EXTENDS Integers, Sequences, SequencesExt, FiniteSets

CONSTANTS
    Attributes,   \* the columns of the foreign table
    Queries,      \* the queries that are planned
    GroupKeys,    \* the path keys of GROUP BY in queries of shape "group"
    Int32Bits     \* the width of a C int

\* Canonical path keys do not repeat themselves: PostgreSQL drops a key on an
\* expression that an earlier key sorts on. (The same column under two
\* collations is two expressions, and is left out.)
Keys == [att : Attributes, how : {"asc", "desc"}, var : BOOLEAN]
Canonical(keys) ==
    /\ keys \in Seq(Keys)
    /\ \A i, j \in DOMAIN keys :
          keys[i].var /\ keys[j].var /\ keys[i].att = keys[j].att => i = j

Counts == [kind : {"none", "null", "const", "expr"}, v : Nat]

ASSUME BitsAssumption == Int32Bits \in Nat \ {0}

ASSUME QueriesAssumption ==
    /\ {"a", "b"} \subseteq Attributes
    /\ Queries \subseteq [shape : {"plain", "group", "join"}, where : {"none", "top", "view"},
                         order : Seq(Keys), limit : Counts, offset : Counts, ties : BOOLEAN]
    /\ Canonical(GroupKeys) /\ \A x \in Queries : Canonical(x.order)

VARIABLES
    q,            \* the query
    pc,           \* the callback that comes next
    promised,     \* what can_sort answered
    planstate,    \* MulticornPlanState
    private,      \* fdw_private of the current upper relation is set
    paths,        \* the paths added to the base relation
    finals,       \* the paths added to the final relation
    told,         \* the calls of can_limit: pairs of limit and offset
    plan          \* the ForeignScan and the nodes PostgreSQL puts above it

planner == <<promised, planstate, private, paths, finals, told, plan>>

Unset == -1       \* a limit or offset that is not passed on

FreshState == [pathkeys |-> <<>>, sort_pushed_down |-> FALSE,
               input_rel |-> FALSE, target_list |-> {}]

NoPlan == [claims |-> <<>>, sortkeys |-> <<>>, limit |-> Unset, offset |-> Unset,
           param |-> FALSE, sorts |-> FALSE, limits |-> FALSE, columns |-> {}]

Init ==
    /\ q \in Queries
    /\ pc = "size"
    /\ promised = <<>>
    /\ planstate = FreshState
    /\ private = (q.shape = "plain")    \* join and grouped relations have none
    /\ paths = {}
    /\ finals = {}
    /\ told = {}
    /\ plan = NoPlan

-----------------------------------------------------------------------------
(* PostgreSQL.                                                             *)

Atts(keys) == {keys[i].att : i \in DOMAIN keys}

\* The columns that the nodes above the scan use.
reltarget == {"a"} \union Atts(q.order)
                   \union (IF q.shape = "group" THEN Atts(GroupKeys) ELSE {})

\* root->query_pathkeys: grouping comes before sorting.
query_pathkeys == IF q.shape = "group" THEN GroupKeys ELSE q.order

\* limit_needed: a NULL limit or offset, and OFFSET 0, mean nothing.
limit_needed ==
    \/ q.limit.kind \in {"const", "expr"}
    \/ q.offset.kind = "expr"
    \/ q.offset.kind = "const" /\ q.offset.v # 0

-----------------------------------------------------------------------------
(* Columns and sorts.                                                      *)

\* The columns of the target list and those of the restrictions.
extractColumns == reltarget \union (IF q.where # "none" THEN {"b"} ELSE {})

\* A table with an after-insert row trigger is asked for whole rows.
GetForeignRelSize ==
    /\ pc = "size"
    /\ \E needWholeRow \in BOOLEAN :
         planstate' = [FreshState EXCEPT !.target_list =
                         IF needWholeRow THEN Attributes ELSE extractColumns]
    /\ pc' = "paths"
    /\ UNCHANGED <<q, promised, private, paths, finals, told, plan>>

\* All keys or none: one that is not a column of this table ends the list.
deparse_sortgroup ==
    IF \A i \in DOMAIN query_pathkeys : query_pathkeys[i].var
      THEN query_pathkeys
      ELSE <<>>

\* Mutant: the answer of can_sort is only asked for being empty or not.
SortGroupAsWanted(sortable, deparsed) ==
    IF sortable = <<>> THEN <<>> ELSE deparsed

\* For every key the wrapper answered, the wanted keys on the same column: the
\* n-th is of the n-th pair in the order of the two loops.
computeDeparsedSortGroup(sortable, deparsed) ==
    LET pairs == {p \in (DOMAIN sortable) \X (DOMAIN deparsed) :
                    sortable[p[1]].att = deparsed[p[2]].att}
        upTo(p) == {o \in pairs : o[1] < p[1] \/ (o[1] = p[1] /\ o[2] <= p[2])}
    IN  [n \in 1 .. Cardinality(pairs) |->
           deparsed[(CHOOSE p \in pairs : Cardinality(upTo(p)) = n)[2]]]

\* An equivalence class or the clause of an outer join equates the column with
\* one of another relation.
clausesInvolvingAttr == q.shape = "join"

\* One parameterized path, if the wrapper declared the joined column as a
\* path key: its clauses make every other relation of the join required.
findPaths(keyed) ==
    IF keyed /\ clausesInvolvingAttr
      THEN {[claims |-> <<>>, private |-> FALSE, pathkeys |-> <<>>,
             limit |-> Unset, offset |-> Unset, param |-> TRUE]}
      ELSE {}

DefaultPath == [claims |-> <<>>, private |-> FALSE, pathkeys |-> <<>>,
                limit |-> Unset, offset |-> Unset, param |-> FALSE]

\* A key as the wrapper sees it, a multicorn.SortKey, and back: what remains is
\* the column, the direction, the position of nulls and the collation.
getSortKey(key) == <<key.att, key.how>>
getDeparsedSortGroup(sortKey) ==
    [att |-> sortKey[1], how |-> sortKey[2], var |-> TRUE]

\* can_sort answers with a prefix of the keys it was given: they are
\* cumulative.
canSort(keys) ==
    {[i \in DOMAIN answer |-> getDeparsedSortGroup(answer[i])] :
       answer \in Prefixes([i \in DOMAIN keys |-> getSortKey(keys[i])])}

\* get_path_keys declares the joined column, or nothing.
pathKeys == BOOLEAN

GetForeignPaths ==
    /\ pc = "paths"
    /\ \E sortable \in canSort(deparse_sortgroup), keyed \in pathKeys :
         LET apply == computeDeparsedSortGroup(sortable, deparse_sortgroup)
             found == findPaths(keyed) \union {DefaultPath}
         IN  /\ promised' = sortable
             /\ paths' = found \union
                  (IF apply = <<>> THEN {}
                   ELSE {[p EXCEPT !.claims = apply, !.pathkeys = apply,
                                   !.private = TRUE] : p \in found})
             /\ planstate' = [planstate EXCEPT
                  !.pathkeys = apply,
                  !.sort_pushed_down = IsPrefix(q.order, apply)]
    /\ pc' = IF q.order # <<>> THEN "ordered" ELSE "final"
    /\ UNCHANGED <<q, private, finals, told, plan>>

-----------------------------------------------------------------------------
(* Upper relations.                                                        *)

\* Mutant: the sort relation inherits the plan state whatever is pushed down.
OrderedPathsAnyway ==
    /\ pc = "ordered"
    /\ private' = private
    /\ planstate' = [planstate EXCEPT !.input_rel = private']
    /\ pc' = "final"
    /\ UNCHANGED <<q, promised, paths, finals, told, plan>>

\* The relation for the sort inherits the plan state only if the wrapper
\* does the whole sort.
add_foreign_ordered_paths ==
    /\ pc = "ordered"
    /\ private' = (private /\ planstate.sort_pushed_down)
    /\ planstate' = [planstate EXCEPT !.input_rel = private']
    /\ pc' = "final"
    /\ UNCHANGED <<q, promised, paths, finals, told, plan>>

\* DatumGetInt32 of an int8: the low bits, signed.
DatumGetInt32(v) ==
    LET low == v % 2^Int32Bits
    IN  IF low >= 2^(Int32Bits - 1) THEN low - 2^Int32Bits ELSE low

Extracted(n) == IF n.kind = "none" THEN Unset ELSE DatumGetInt32(n.v)

\* The early returns of add_foreign_final_paths (and, first, of
\* multicornGetForeignUpperPaths).  UPDATE and DELETE have no LIMIT.
LimitCanBePushed ==
    /\ private
    /\ limit_needed
    /\ ~q.ties
    /\ q.where # "top"
    /\ q.limit.kind \in {"none", "const"}
    /\ q.offset.kind \in {"none", "const"}

\* can_limit accepts the path or does not.
canLimit(path) == {{}, {path}}

add_foreign_final_paths ==
    /\ pc = "final"
    /\ LET limit == Extracted(q.limit)
           offset == Extracted(q.offset)
           final == [DefaultPath EXCEPT !.private = TRUE,
                       !.pathkeys = planstate.pathkeys,
                       !.limit = limit, !.offset = offset]
       IN  IF LimitCanBePushed
             THEN /\ told' = told \union {<<limit, offset>>}
                  /\ finals' \in canLimit(final)
             ELSE UNCHANGED <<told, finals>>
    /\ pc' = "plan"
    /\ UNCHANGED <<q, promised, planstate, private, paths, plan>>

-----------------------------------------------------------------------------

\* The sort keys in a plan, which is copied and cached, are plain lists.
serializeDeparsedSortGroup(pathkeys) ==
    [i \in DOMAIN pathkeys |-> <<pathkeys[i].att, pathkeys[i].how>>]

deserializeDeparsedSortGroup(items) ==
    [i \in DOMAIN items |-> [att |-> items[i][1], how |-> items[i][2], var |-> TRUE]]

\* What the plan carries of a path.  Without fdw_private of its own a path is
\* executed without sort, limit and offset.
serializePlanState(p) ==
    [claims   |-> p.claims,
     sortkeys |-> serializeDeparsedSortGroup(IF p.private THEN p.pathkeys ELSE <<>>),
     limit    |-> IF p.private THEN p.limit ELSE Unset,
     offset   |-> IF p.private THEN p.offset ELSE Unset,
     param    |-> p.param,
     sorts    |-> p \notin finals /\ ~IsPrefix(q.order, p.claims),
     limits   |-> p \notin finals /\ limit_needed,
     columns  |-> planstate.target_list]

\* The planner takes any path; above one of the base relation it sorts and
\* limits itself as far as the path's claims leave that to do.
GetForeignPlan ==
    /\ pc = "plan"
    /\ \E p \in paths \union finals : plan' = serializePlanState(p)
    /\ pc' = "begin"
    /\ UNCHANGED <<q, promised, planstate, private, paths, finals, told>>

\* Any callback may find that Python raised: errorCheck throws.
PlanningRaises ==
    /\ pc \in {"size", "paths", "final"}
    /\ pc = "final" => LimitCanBePushed
    /\ pc' = "failed"
    /\ UNCHANGED <<q, planner>>

PlannerNext ==
    \/ GetForeignRelSize
    \/ GetForeignPaths
    \/ add_foreign_ordered_paths
    \/ add_foreign_final_paths
    \/ GetForeignPlan
    \/ PlanningRaises

-----------------------------------------------------------------------------

\* can_limit "is only called if the entire query can be pushed down": never
\* for a grouped or joined relation, and never when PostgreSQL itself has to
\* sort some of it (can_limit in multicorn/__init__.py).
LimitOnlyWhole ==
    told # {} => /\ q.shape = "plain"
                 /\ q.order # <<>> => IsPrefix(q.order, planstate.pathkeys)

\* "We do not support pushing down limit/offset if the query includes a WHERE
\* clause": can_limit is not even asked then (multicorn/__init__.py).
NoLimitUnderWhere == q.where # "none" => told = {}
=============================================================================
