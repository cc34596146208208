--------------------------- MODULE ScanExecProofs ---------------------------
(***************************************************************************)
(* Proofs about Pushdown and ScanExec, for every set of queries, every     *)
(* table and every number of rescans.  Three invariants, one on the other: *)
(*   IInv        types, what is known of a limit, references on iterators; *)
(*   PlanningOK  what a path or a plan claims is what the wrapper promised *)
(*               to sort by, and a limit is pushed down with the whole     *)
(*               sort of a plain query;                                    *)
(*   ExecOK      what a scan has returned are the rows wanted among those  *)
(*               it has read, in the order the wrapper gave them.          *)
(* A scan read to its end then gives an answer that the query may have.    *)
(***************************************************************************)
EXTENDS ScanExec, SequenceTheorems, FiniteSetTheorems, WellFoundedInduction, TLAPS

\* The callbacks of the planner, and the first of the executor.
Planning == {"size", "paths", "ordered", "final", "plan", "begin"}

\* The fields of MulticornPlanState and of MulticornExecState.
StateFields == {"pathkeys", "sort_pushed_down", "input_rel", "target_list"}
ExecFields == {"p_iterator", "rows", "sortkeys", "limit", "offset"}

\* Why can_limit is only asked about whole queries: a relation keeps the plan
\* state only if it is that of a plain query, and past the sort only if the
\* keys that execute would be given cover ORDER BY.
WholeSoFar ==
    /\ private => q.shape = "plain"
    /\ pc \in {"size", "paths", "ordered", "final"} => told = {}
    /\ pc = "ordered" =>
         planstate.sort_pushed_down = IsPrefix(q.order, planstate.pathkeys)
    /\ pc = "final" /\ private /\ q.order # <<>> => IsPrefix(q.order, planstate.pathkeys)
    /\ LimitOnlyWhole

\* Until something raises, the node owns a reference while it has an iterator,
\* and no other unless EXPLAIN ANALYZE replaced an iterator; it has one only
\* between begin and end, and None ends a scan.
OneReference ==
    /\ pc # "failed" /\ es.p_iterator = "iterator" => refs > 0
    /\ pc # "failed" /\ ~AnalyzeToo =>
         refs = IF es.p_iterator = "iterator" THEN 1 ELSE 0
    /\ pc \in Planning \union {"done"} => es.p_iterator = "NULL"
    /\ es.p_iterator = "None" => eof

\* Types, what is known of a limit, and references.
IInv ==
    /\ TypeOK
    /\ DOMAIN planstate = StateFields
    /\ DOMAIN es = ExecFields
    /\ WholeSoFar
    /\ OneReference

-----------------------------------------------------------------------------

\* The first scan is one of the scans.
LEMMA FirstScan == 1 \in 1..Len(Outer)
  BY OuterAssumption

\* The invariant holds before the first statement is planned.
LEMMA InitIInv == QueryInit => IInv
  <1> SUFFICES ASSUME QueryInit PROVE IInv
    OBVIOUS
  <1> USE DEF QueryInit, Init, ExecInit
  <1>1. TypeOK
    <2>1. private \in BOOLEAN /\ eof \in BOOLEAN
      BY Zenon
    <2> QED  BY <2>1, FirstScan DEF TypeOK, NoExec
  <1>2. DOMAIN planstate = StateFields /\ DOMAIN es = ExecFields
    BY DEF FreshState, NoExec, StateFields, ExecFields
  <1>3. WholeSoFar
    BY DEF WholeSoFar, LimitOnlyWhole
  <1>4. OneReference
    BY DEF OneReference, NoExec
  <1> QED  BY <1>1, <1>2, <1>3, <1>4 DEF IInv

\* The planner's callbacks touch no iterator.
LEMMA PlannerStep ==
    ASSUME IInv, PlannerNext, UNCHANGED exec
    PROVE  IInv'
  <1> USE DEF IInv, TypeOK, WholeSoFar, OneReference, Planning, LimitOnlyWhole,
              StateFields, ExecFields, exec
  <1>1. CASE GetForeignRelSize
    BY <1>1 DEF GetForeignRelSize, FreshState
  <1>2. CASE GetForeignPaths
    BY <1>2 DEF GetForeignPaths
  <1>3. CASE add_foreign_ordered_paths
    BY <1>3 DEF add_foreign_ordered_paths
  <1>4. CASE add_foreign_final_paths
    BY <1>4 DEF add_foreign_final_paths, LimitCanBePushed
  <1>5. CASE GetForeignPlan
    BY <1>5 DEF GetForeignPlan
  <1>6. CASE PlanningRaises
    BY <1>6 DEF PlanningRaises, planner
  <1> QED  BY <1>1, <1>2, <1>3, <1>4, <1>5, <1>6 DEF PlannerNext

\* One case per executor callback; the planner's are above.
LEMMA StepIInv ==
    ASSUME IInv, [Next]_vars
    PROVE  IInv'
  <1> USE DEF IInv, TypeOK, WholeSoFar, OneReference, Planning, LimitOnlyWhole,
              StateFields, ExecFields, planner
  <1>1. CASE PlannerNext /\ UNCHANGED exec
    BY <1>1, PlannerStep
  <1>2. CASE BeginForeignScan
    <2>1. es'.p_iterator = "NULL" /\ DOMAIN es' = ExecFields
      BY <1>2 DEF BeginForeignScan, initializeExecState, NoExec
    <2>2. eof' \in BOOLEAN
      BY <1>2, Zenon DEF BeginForeignScan
    <2> QED  BY <1>2, <2>1, <2>2, FirstScan DEF BeginForeignScan
  <1>3. CASE IterateForeignScan
    <2> PICK rows \in IF es.p_iterator = "NULL" THEN Results ELSE {es.rows} :
               /\ refs' = IF es.p_iterator = "NULL" THEN refs + 1 ELSE refs
               /\ es' = [es EXCEPT !.p_iterator = "iterator",
                                   !.rows = IF rows = <<>> THEN rows ELSE Tail(rows)]
               /\ eof' = (rows = <<>>)
      BY <1>3, Zenon DEF IterateForeignScan
    <2>1. eof' \in BOOLEAN
      BY Zenon
    <2>2. es'.p_iterator = "iterator" /\ DOMAIN es' = ExecFields
      OBVIOUS
    <2>3. es.p_iterator # "None"
      BY <1>3 DEF IterateForeignScan
    <2> QED  BY <1>3, <2>1, <2>2, <2>3 DEF IterateForeignScan
  <1>4. CASE IterateNone
    BY <1>4 DEF IterateNone
  <1>5. CASE ReScanForeignScan
    <2>1. scan' \in 1..Len(Outer)
      BY <1>5, OuterAssumption DEF ReScanForeignScan
    <2>2. eof' \in BOOLEAN
      BY <1>5, Zenon DEF ReScanForeignScan
    <2> QED  BY <1>5, <2>1, <2>2 DEF ReScanForeignScan, DropIterator
  <1>6. CASE ExplainForeignScan
    BY <1>6 DEF ExplainForeignScan
  <1>7. CASE EndForeignScan
    BY <1>7 DEF EndForeignScan, DropIterator
  <1>8. CASE ExecutionRaises
    BY <1>8 DEF ExecutionRaises, exec
  <1>9. CASE NextStatement
    <2>1. CASE UNCHANGED <<q, planner, exec>> /\ pc = "done" /\ pc' = "begin"
      BY <2>1 DEF exec
    <2>2. CASE ~(UNCHANGED <<q, planner, exec>> /\ pc = "done" /\ pc' = "begin")
      <3>1. es' = NoExec /\ planstate' = FreshState /\ private' = (q.shape = "plain")
        BY <1>9, <2>2 DEF NextStatement
      <3>2. private' \in BOOLEAN /\ eof' \in BOOLEAN
        BY <1>9, <2>2, <3>1, Zenon DEF NextStatement, exec
      <3>3. /\ es'.p_iterator = "NULL" /\ DOMAIN es' = ExecFields
            /\ DOMAIN planstate' = StateFields
        BY <3>1 DEF NoExec, FreshState
      <3> QED  BY <1>9, <2>2, <3>1, <3>2, <3>3, FirstScan DEF NextStatement
    <2> QED  BY <2>1, <2>2
  <1>10. CASE UNCHANGED vars
    BY <1>10 DEF vars, exec
  <1> QED  BY <1>1, <1>2, <1>3, <1>4, <1>5, <1>6, <1>7, <1>8, <1>9, <1>10 DEF Next

\* The inductive invariant.
THEOREM Invariance == Spec => []IInv
  BY InitIInv, StepIInv, PTL DEF Spec

\* Type correctness of planning and execution.
THEOREM TypeCorrect == Spec => []TypeOK
  <1>1. IInv => TypeOK
    BY DEF IInv
  <1> QED  BY <1>1, Invariance, PTL

\* can_limit is asked only about plain queries whose whole ORDER BY the wrapper
\* was given, whatever can_sort answered (add_foreign_ordered_paths).
THEOREM LimitAskedForWhole == Spec => []LimitOnlyWhole
  <1>1. IInv => LimitOnlyWhole
    BY DEF IInv, WholeSoFar
  <1> QED  BY <1>1, Invariance, PTL

\* A scan that ends has given back every reference it took on iterators, and
\* one under way owns exactly the iterator it reads, over any number of
\* rescans, unless EXPLAIN comes after the scan has run.
THEOREM ReferencesSettle ==
    ASSUME ~AnalyzeToo
    PROVE  Spec => []RefsSettled
  <1>1. IInv => RefsSettled
    BY DEF IInv, OneReference, RefsSettled
  <1> QED  BY <1>1, Invariance, PTL

\* The first n of these keys.
First(keys, n) == [i \in 1 .. n |-> keys[i]]

\* The keys that computeDeparsedSortGroup finds for the first n of canonical
\* keys are those n, each once and in the same order.
LEMMA SameColumn ==
    ASSUME NEW keys, Canonical(keys), \A i \in DOMAIN keys : keys[i].var,
           NEW n \in 0 .. Len(keys)
    PROVE  computeDeparsedSortGroup(First(keys, n), keys) = First(keys, n)
<1> DEFINE s == First(keys, n)
           pairs == {p \in (DOMAIN s) \X (DOMAIN keys) : s[p[1]].att = keys[p[2]].att}
           upTo(p) == {o \in pairs : o[1] < p[1] \/ (o[1] = p[1] /\ o[2] <= p[2])}
           pair(i) == <<i, i>>
<1>1. n \in Nat /\ Len(keys) \in Nat /\ DOMAIN keys = 1 .. Len(keys) /\ DOMAIN s = 1 .. n
  BY DEF Canonical, First
<1>2. \A p : p \in pairs <=> \E i \in 1 .. n : p = pair(i)
  <2>1. ASSUME NEW p \in pairs PROVE \E i \in 1 .. n : p = pair(i)
    <3>1. PICK i \in 1 .. n, j \in 1 .. Len(keys) : p = <<i, j>> /\ keys[i].att = keys[j].att
      BY <1>1 DEF First
    <3>2. i = j
      BY <1>1, <3>1 DEF Canonical
    <3> QED  BY <3>1, <3>2
  <2>2. ASSUME NEW i \in 1 .. n PROVE pair(i) \in pairs
    BY <1>1 DEF First
  <2> QED  BY <2>1, <2>2
<1> HIDE DEF pairs
<1>3. \A m \in 0 .. n : Cardinality({pair(i) : i \in 1 .. m}) = m
  <2> SUFFICES ASSUME NEW m \in 0 .. n PROVE Cardinality({pair(i) : i \in 1 .. m}) = m
    OBVIOUS
  <2> DEFINE f == [i \in 1 .. m |-> pair(i)]
             T == {pair(i) : i \in 1 .. m}
  <2>1. m \in Nat /\ IsFiniteSet(1 .. m) /\ Cardinality(1 .. m) = m
    BY FS_Interval
  <2>2. f \in Bijection(1 .. m, T)
    BY DEF Bijection, Injection, Surjection, IsInjective
  <2> HIDE DEF f, T
  <2>3. Cardinality(T) = Cardinality(1 .. m)
    BY <2>1, <2>2, FS_CountingElements DEF ExistsBijection
  <2> QED  BY <2>1, <2>3 DEF T
<1>4. Cardinality(pairs) = n
  <2>1. pairs = {pair(i) : i \in 1 .. n}
    BY <1>2
  <2>2. n \in 0 .. n
    BY <1>1
  <2> HIDE DEF pair
  <2> QED  BY <1>3, <2>1, <2>2
<1>5. \A m \in 1 .. n : Cardinality(upTo(pair(m))) = m
  <2> SUFFICES ASSUME NEW m \in 1 .. n PROVE Cardinality(upTo(pair(m))) = m
    OBVIOUS
  <2>1. upTo(pair(m)) = {pair(i) : i \in 1 .. m}
    BY <1>1, <1>2
  <2> QED  BY <1>1, <1>3, <2>1
<1> DEFINE nth(m) == CHOOSE p \in pairs : Cardinality(upTo(p)) = m
<1>6. \A m \in 1 .. n : nth(m) = pair(m)
  <2> SUFFICES ASSUME NEW m \in 1 .. n PROVE nth(m) = pair(m)
    OBVIOUS
  <2>1. \A p \in pairs : Cardinality(upTo(p)) = m => p = pair(m)
    BY <1>2, <1>5
  <2>2. pair(m) \in pairs /\ Cardinality(upTo(pair(m))) = m
    BY <1>2, <1>5
  <2> HIDE DEF upTo, pair
  <2> QED  BY <2>1, <2>2
<1>7. computeDeparsedSortGroup(s, keys)
        = [m \in 1 .. Cardinality(pairs) |-> keys[nth(m)[2]]]
  BY Zenon DEF computeDeparsedSortGroup, pairs
<1> HIDE DEF nth
<1>8. \A m \in 1 .. n : nth(m)[2] = m
  BY <1>6
<1> QED  BY <1>4, <1>7, <1>8 DEF First

-----------------------------------------------------------------------------
(* What the planner leaves for the executor.                               *)

\* A sort, handed from the planner to the executor.
Sorted(n) == deserializeDeparsedSortGroup(serializeDeparsedSortGroup(n))

\* The keys that the wrapper has promised to sort by are the first of those
\* that the query wants.
Promise ==
    /\ promised \in Seq(Keys)
    /\ Atts(promised) \subseteq reltarget
    /\ Sorted(promised) = promised

\* A path of the base relation, with the whole promised sort or without any.
BasePath(p) ==
    \E claims \in {<<>>, promised}, param \in BOOLEAN :
        /\ p = [claims |-> claims, private |-> claims # <<>>, pathkeys |-> claims,
                limit |-> Unset, offset |-> Unset, param |-> param]
        /\ param => q.shape = "join"

\* A path of the final relation, with the promised sort and the limit.
FinalPath(p) ==
    p = [claims |-> <<>>, private |-> TRUE, pathkeys |-> promised,
         limit |-> Extracted(q.limit), offset |-> Extracted(q.offset), param |-> FALSE]

\* A limit is pushed down with the whole sort of a plain query.
WholePushed ==
    /\ q.shape = "plain" /\ q.where # "top" /\ ~q.ties /\ limit_needed
    /\ q.limit.kind \in {"none", "const"} /\ q.offset.kind \in {"none", "const"}
    /\ q.order # <<>> => IsPrefix(q.order, promised)

\* The columns of the answer and of the WHERE clause are asked for.
ColumnsAsked(columns) ==
    /\ reltarget \subseteq columns
    /\ q.where # "none" => "b" \in columns

\* Paths while they are made, and the plan made of one.
PathsOK ==
    /\ pc = "paths" => planstate = [FreshState EXCEPT !.target_list = planstate.target_list]
    /\ pc \in {"paths", "ordered", "final", "plan"} => ColumnsAsked(planstate.target_list)
    /\ pc \in {"ordered", "final", "plan"} =>
          /\ Promise /\ planstate.pathkeys = promised
          /\ \A p \in paths : BasePath(p)
    /\ pc \in {"size", "paths", "ordered", "final"} => finals = {}
    /\ pc = "plan" => \A p \in finals : FinalPath(p) /\ WholePushed

\* What PostgreSQL does itself above a path of the base relation.
BasePlan ==
    /\ deserializeDeparsedSortGroup(plan.sortkeys) = plan.claims
    /\ plan.claims \in {<<>>, promised}
    /\ plan.limit = Unset /\ plan.offset = Unset
    /\ plan.param => q.shape = "join"
    /\ plan.sorts = ~IsPrefix(q.order, plan.claims)
    /\ plan.limits = limit_needed

\* With the limit pushed down, PostgreSQL does nothing above the scan.
FinalPlan ==
    /\ deserializeDeparsedSortGroup(plan.sortkeys) = promised
    /\ plan.claims = <<>>
    /\ plan.limit = Extracted(q.limit) /\ plan.offset = Extracted(q.offset)
    /\ ~plan.param /\ ~plan.sorts /\ ~plan.limits
    /\ WholePushed

\* What a plan says.
PlanOK ==
    /\ Promise
    /\ ColumnsAsked(plan.columns)
    /\ BasePlan \/ FinalPlan

\* The invariant of planning.
PlanningOK ==
    /\ PathsOK
    /\ pc \in {"size", "paths", "ordered", "final", "plan"} => ~eof
    /\ pc \in {"begin", "run", "explained", "done"} \/ eof => PlanOK

\* A key on a bare column is what is left of it.
LEMMA BareKey ==
    ASSUME NEW k \in Keys, k.var
    PROVE  k = [att |-> k.att, how |-> k.how, var |-> TRUE]
<1>1. k.var \in BOOLEAN
  BY DEF Keys
<1>2. k.var = TRUE
  BY <1>1, Zenon
<1> QED  BY <1>2 DEF Keys

\* serializeDeparsedSortGroup loses nothing of keys on bare columns.
LEMMA KeysBack ==
    ASSUME NEW keys \in Seq(Keys), \A i \in DOMAIN keys : keys[i].var
    PROVE  Sorted(keys) = keys
<1> DEFINE items == [i \in DOMAIN keys |-> <<keys[i].att, keys[i].how>>]
<1>1. DOMAIN items = DOMAIN keys
  OBVIOUS
<1>2. \A i \in DOMAIN keys : items[i][1] = keys[i].att /\ items[i][2] = keys[i].how
  OBVIOUS
<1>3. \A i \in DOMAIN keys : [att |-> items[i][1], how |-> items[i][2], var |-> TRUE] = keys[i]
  BY <1>2, BareKey
<1>4. Sorted(keys) = [i \in DOMAIN items |-> [att |-> items[i][1], how |-> items[i][2], var |-> TRUE]]
  BY Zenon DEF Sorted, serializeDeparsedSortGroup, deserializeDeparsedSortGroup
<1> HIDE DEF items
<1> QED  BY <1>1, <1>3, <1>4

\* can_sort answers with some of the first keys.
LEMMA AnswerIsFirst ==
    ASSUME NEW keys \in Seq(Keys), \A i \in DOMAIN keys : keys[i].var,
           NEW answer \in canSort(keys)
    PROVE  \E n \in 0 .. Len(keys) : answer = First(keys, n)
<1> DEFINE asked == [i \in DOMAIN keys |-> getSortKey(keys[i])]
<1>0. \A i \in DOMAIN keys : keys[i] = [att |-> keys[i].att, how |-> keys[i].how, var |-> TRUE]
  BY BareKey
<1>1. PICK a \in Prefixes(asked) : answer = [i \in DOMAIN a |-> getDeparsedSortGroup(a[i])]
  BY Zenon DEF canSort
<1>2. Len(keys) \in Nat /\ DOMAIN keys = 1 .. Len(keys) /\ Len(asked) = Len(keys)
  OBVIOUS
<1>3. PICK n \in 0 .. Len(keys) : a = SubSeq(asked, 1, n)
  BY <1>2 DEF Prefixes
<1>4. DOMAIN a = 1 .. n /\ \A i \in 1 .. n : a[i] = getSortKey(keys[i])
  BY <1>2, <1>3
<1>5. \A i \in 1 .. n : getDeparsedSortGroup(a[i]) = keys[i]
  <2> SUFFICES ASSUME NEW i \in 1 .. n PROVE getDeparsedSortGroup(a[i]) = keys[i]
    OBVIOUS
  <2>1. i \in DOMAIN keys
    BY <1>2
  <2>2. keys[i] = [att |-> keys[i].att, how |-> keys[i].how, var |-> TRUE]
    BY <1>0, <2>1
  <2>3. a[i] = <<keys[i].att, keys[i].how>>
    BY <1>4 DEF getSortKey
  <2>4. a[i][1] = keys[i].att /\ a[i][2] = keys[i].how
    BY <2>3
  <2> QED  BY <2>2, <2>4 DEF getDeparsedSortGroup
<1> QED  BY <1>1, <1>3, <1>4, <1>5 DEF First

\* The keys that the query wants sorted are canonical keys on columns in use.
LEMMA WantedKeys ==
    ASSUME q \in Queries
    PROVE  /\ q.order \in Seq(Keys)
           /\ reltarget \subseteq Attributes
           /\ Canonical(deparse_sortgroup)
           /\ \A i \in DOMAIN deparse_sortgroup : deparse_sortgroup[i].var
           /\ Atts(deparse_sortgroup) \subseteq reltarget
<1>1. Canonical(q.order) /\ Canonical(GroupKeys) /\ {"a", "b"} \subseteq Attributes
  BY QueriesAssumption
<1>2. Canonical(query_pathkeys) /\ Atts(query_pathkeys) \subseteq reltarget
  BY <1>1 DEF query_pathkeys, reltarget
<1>3. ASSUME NEW keys, Canonical(keys) PROVE Atts(keys) \subseteq Attributes
  <2>1. \A i \in DOMAIN keys : keys[i] \in Keys
    BY <1>3 DEF Canonical
  <2>2. \A k \in Keys : k.att \in Attributes
    BY DEF Keys
  <2> QED  BY <2>1, <2>2 DEF Atts
<1>4. reltarget \subseteq Attributes
  BY <1>1, <1>3 DEF reltarget
<1>5. CASE \A i \in DOMAIN query_pathkeys : query_pathkeys[i].var
  <2>1. deparse_sortgroup = query_pathkeys
    BY <1>5, Zenon DEF deparse_sortgroup
  <2> QED  BY <1>1, <1>2, <1>4, <1>5, <2>1 DEF Canonical
<1>6. CASE ~ \A i \in DOMAIN query_pathkeys : query_pathkeys[i].var
  <2>1. deparse_sortgroup = <<>>
    BY <1>6, Zenon DEF deparse_sortgroup
  <2> QED  BY <1>1, <1>4, <2>1 DEF Canonical, Atts
<1> QED  BY <1>5, <1>6

\* GetForeignPaths: the paths claim exactly what was promised.
LEMMA PathsStep ==
    ASSUME q \in Queries, PathsOK, GetForeignPaths
    PROVE  /\ Promise' /\ planstate'.pathkeys = promised'
           /\ planstate'.target_list = planstate.target_list
           /\ \A p \in paths' : BasePath(p)'
<1> DEFINE keys == deparse_sortgroup
<1>1. PICK sortable \in canSort(keys), keyed \in pathKeys :
         /\ promised' = sortable
         /\ paths' = (findPaths(keyed) \union {DefaultPath}) \union
              (IF computeDeparsedSortGroup(sortable, keys) = <<>> THEN {}
               ELSE {[p EXCEPT !.claims = computeDeparsedSortGroup(sortable, keys),
                               !.pathkeys = computeDeparsedSortGroup(sortable, keys),
                               !.private = TRUE] : p \in findPaths(keyed) \union {DefaultPath}})
         /\ planstate' = [planstate EXCEPT
              !.pathkeys = computeDeparsedSortGroup(sortable, keys),
              !.sort_pushed_down = IsPrefix(q.order, computeDeparsedSortGroup(sortable, keys))]
  BY Zenon DEF GetForeignPaths
<1>2. /\ Canonical(keys) /\ \A i \in DOMAIN keys : keys[i].var
      /\ Atts(keys) \subseteq reltarget
  BY WantedKeys
<1> HIDE DEF keys
<1>3. keys \in Seq(Keys)
  BY <1>2 DEF Canonical
<1>4. PICK n \in 0 .. Len(keys) : sortable = First(keys, n)
  BY <1>2, <1>3, AnswerIsFirst
<1>5. computeDeparsedSortGroup(sortable, keys) = sortable
  BY <1>2, <1>4, SameColumn
<1>6. Len(keys) \in Nat /\ DOMAIN keys = 1 .. Len(keys) /\ DOMAIN sortable = 1 .. n
  BY <1>3, <1>4 DEF First
<1>7. sortable \in Seq(Keys) /\ \A i \in 1 .. n : sortable[i] = keys[i]
  BY <1>3, <1>4, <1>6 DEF First
<1>8. UNCHANGED q
  BY DEF GetForeignPaths
<1>9. Promise'
  <2>1. \A i \in DOMAIN sortable : sortable[i].var
    <3>1. \A i \in 1 .. n : i \in DOMAIN keys
      BY <1>6
    <3> QED  BY <1>2, <1>6, <1>7, <3>1, Zenon
  <2>2. Sorted(sortable) = sortable
    BY <1>7, <2>1, KeysBack
  <2>3. Atts(sortable) \subseteq Atts(keys)
    BY <1>6, <1>7 DEF Atts
  <2>4. reltarget' = reltarget
    BY <1>8 DEF reltarget
  <2>5. promised' = sortable /\ Atts(sortable) \subseteq reltarget'
    BY <1>1, <1>2, <2>3, <2>4
  <2> QED  BY <1>7, <2>2, <2>5 DEF Promise
<1>10. /\ planstate'.pathkeys = promised'
       /\ planstate'.target_list = planstate.target_list
  <2>1. pc = "paths"
    BY DEF GetForeignPaths
  <2>2. DOMAIN planstate = {"pathkeys", "sort_pushed_down", "input_rel", "target_list"}
    BY <2>1 DEF PathsOK, FreshState
  <2> QED  BY <1>1, <1>5, <2>2
<1>11. ASSUME NEW p \in paths' PROVE BasePath(p)'
  <2> DEFINE Found(c) ==
         \E param \in BOOLEAN :
            /\ c = [claims |-> <<>>, private |-> FALSE, pathkeys |-> <<>>,
                    limit |-> Unset, offset |-> Unset, param |-> param]
            /\ param => q.shape = "join"
  <2>1. \A c \in findPaths(keyed) \union {DefaultPath} : Found(c)
    BY DEF findPaths, DefaultPath, clausesInvolvingAttr
  <2>2. CASE p \in findPaths(keyed) \union {DefaultPath}
    BY <1>8, <2>1, <2>2 DEF BasePath
  <2>3. CASE sortable # <<>> /\ \E c \in findPaths(keyed) \union {DefaultPath} :
                p = [c EXCEPT !.claims = sortable, !.pathkeys = sortable, !.private = TRUE]
    <3>1. PICK c \in findPaths(keyed) \union {DefaultPath} :
                p = [c EXCEPT !.claims = sortable, !.pathkeys = sortable, !.private = TRUE]
      BY <2>3
    <3>2. PICK param \in BOOLEAN :
            /\ c = [claims |-> <<>>, private |-> FALSE, pathkeys |-> <<>>,
                    limit |-> Unset, offset |-> Unset, param |-> param]
            /\ param => q.shape = "join"
      BY <2>1
    <3>3. p = [claims |-> sortable, private |-> TRUE, pathkeys |-> sortable,
               limit |-> Unset, offset |-> Unset, param |-> param]
      BY <3>1, <3>2
    <3> QED  BY <1>1, <1>8, <2>3, <3>2, <3>3 DEF BasePath
  <2> QED  BY <1>1, <1>5, <2>2, <2>3
<1> QED  BY <1>9, <1>10, <1>11

\* add_foreign_final_paths: a limit is pushed down with the whole sort.
LEMMA FinalStep ==
    ASSUME WholeSoFar, PathsOK, add_foreign_final_paths
    PROVE  \A p \in finals' : FinalPath(p)' /\ WholePushed'
<1> DEFINE limit == Extracted(q.limit)
           offset == Extracted(q.offset)
           final == [DefaultPath EXCEPT !.private = TRUE, !.pathkeys = planstate.pathkeys,
                                        !.limit = limit, !.offset = offset]
<1> SUFFICES ASSUME NEW p \in finals' PROVE FinalPath(p)' /\ WholePushed'
  OBVIOUS
<1>1. pc = "final" /\ UNCHANGED <<q, promised>>
  BY DEF add_foreign_final_paths
<1>2. finals = {} /\ planstate.pathkeys = promised
  BY <1>1 DEF PathsOK
<1>3. LimitCanBePushed /\ finals' \in canLimit(final)
  BY <1>2 DEF add_foreign_final_paths
<1>4. p = final
  BY <1>3 DEF canLimit
<1> HIDE DEF limit, offset
<1>5. final = [[claims |-> <<>>, private |-> FALSE, pathkeys |-> <<>>, limit |-> Unset, offset |-> Unset,
                param |-> FALSE] EXCEPT !.private = TRUE, !.pathkeys = planstate.pathkeys,
                                        !.limit = limit, !.offset = offset]
  BY Zenon DEF DefaultPath
<1> HIDE DEF final
<1>6. final = [claims |-> <<>>, private |-> TRUE, pathkeys |-> promised,
               limit |-> limit, offset |-> offset, param |-> FALSE]
  BY <1>2, <1>5
<1>7. FinalPath(p)'
  BY <1>1, <1>4, <1>6 DEF FinalPath, limit, offset
<1>8. WholePushed
  BY <1>1, <1>2, <1>3 DEF LimitCanBePushed, WholeSoFar, WholePushed
<1>9. WholePushed'
  BY <1>1, <1>8 DEF WholePushed, limit_needed
<1> QED  BY <1>7, <1>9

\* GetForeignPlan: the plan says what the path says.
LEMMA PlanStep ==
    ASSUME PathsOK, GetForeignPlan
    PROVE  PlanOK'
<1>1. PICK p \in paths \union finals : plan' = serializePlanState(p)
  BY DEF GetForeignPlan
<1>2. pc = "plan" /\ UNCHANGED <<q, promised>>
  BY DEF GetForeignPlan
<1>3. Promise /\ ColumnsAsked(planstate.target_list)
  BY <1>2 DEF PathsOK
<1>4. Promise'
  BY <1>2, <1>3 DEF Promise, reltarget
<1>5. ColumnsAsked(plan.columns)'
  BY <1>1, <1>2, <1>3 DEF ColumnsAsked, serializePlanState, reltarget
<1>6. Sorted(<<>>) = <<>>
  BY DEF Sorted, serializeDeparsedSortGroup, deserializeDeparsedSortGroup
<1>7. CASE p \notin finals
  <2>1. PICK claims \in {<<>>, promised}, param \in BOOLEAN :
        /\ p = [claims |-> claims, private |-> claims # <<>>, pathkeys |-> claims,
                limit |-> Unset, offset |-> Unset, param |-> param]
        /\ param => q.shape = "join"
    BY <1>1, <1>2, <1>7 DEF PathsOK, BasePath
  <2>2. /\ p.claims = claims /\ p.private = (claims # <<>>) /\ p.pathkeys = claims
        /\ p.limit = Unset /\ p.offset = Unset /\ p.param = param
    BY <2>1
  <2>3. Sorted(claims) = claims
    BY <1>3, <1>6 DEF Promise
  <2>4. /\ plan'.claims = claims /\ plan'.limit = Unset /\ plan'.offset = Unset
        /\ plan'.param = param
        /\ plan'.sortkeys = serializeDeparsedSortGroup(claims)
    BY <1>1, <2>2 DEF serializePlanState
  <2>5. plan'.sorts = ~IsPrefix(q.order, claims) /\ plan'.limits = limit_needed
    <3>1. /\ plan'.sorts = (p \notin finals /\ ~IsPrefix(q.order, p.claims))
          /\ plan'.limits = (p \notin finals /\ limit_needed)
      BY <1>1 DEF serializePlanState
    <3>2. (p \notin finals /\ limit_needed) = limit_needed
      BY <1>7 DEF limit_needed
    <3> QED  BY <1>7, <2>2, <3>1, <3>2, Zenon
  <2>6. deserializeDeparsedSortGroup(plan'.sortkeys) = claims
    BY <2>3, <2>4 DEF Sorted
  <2>7. limit_needed' = limit_needed
    BY <1>2 DEF limit_needed
  <2>8. BasePlan'
    BY <1>2, <2>1, <2>4, <2>5, <2>6, <2>7 DEF BasePlan
  <2> QED  BY <1>4, <1>5, <2>8 DEF PlanOK
<1>8. CASE p \in finals
  <2>1. FinalPath(p) /\ WholePushed
    BY <1>2, <1>8 DEF PathsOK
  <2>2. /\ p.claims = <<>> /\ p.private /\ p.pathkeys = promised /\ ~p.param
        /\ p.limit = Extracted(q.limit) /\ p.offset = Extracted(q.offset)
    BY <2>1 DEF FinalPath
  <2>3. /\ plan'.claims = <<>> /\ plan'.limit = Extracted(q.limit)
        /\ plan'.offset = Extracted(q.offset) /\ ~plan'.param
        /\ plan'.sortkeys = serializeDeparsedSortGroup(promised)
        /\ ~plan'.sorts /\ ~plan'.limits
    BY <1>1, <1>8, <2>2 DEF serializePlanState
  <2>4. deserializeDeparsedSortGroup(plan'.sortkeys) = promised
    BY <1>3, <2>3 DEF Promise, Sorted
  <2>5. WholePushed'
    BY <1>2, <2>1 DEF WholePushed, limit_needed
  <2>6. FinalPlan'
    BY <1>2, <2>3, <2>4, <2>5 DEF FinalPlan
  <2> QED  BY <1>4, <1>5, <2>6 DEF PlanOK
<1> QED  BY <1>7, <1>8

\* No path is left over when the first statement is planned.
LEMMA PlanningInit == QueryInit => PlanningOK
  BY DEF QueryInit, Init, ExecInit, PlanningOK, PathsOK

\* Promises, paths and plans keep their meaning as long as the query and the
\* promise stay what they are.
LEMMA PlanKept ==
    ASSUME PlanOK, UNCHANGED <<q, promised, plan>>
    PROVE  PlanOK'
<1>1. reltarget' = reltarget /\ limit_needed' = limit_needed
  BY DEF reltarget, limit_needed
<1>2. Promise' /\ ColumnsAsked(plan.columns)'
  BY <1>1 DEF PlanOK, Promise, ColumnsAsked
<1>3. BasePlan => BasePlan'
  BY <1>1 DEF BasePlan
<1>4. FinalPlan => FinalPlan'
  BY <1>1 DEF FinalPlan, WholePushed
<1> QED  BY <1>2, <1>3, <1>4 DEF PlanOK

\* Every step keeps the invariant of planning.
LEMMA PlanningStep ==
    ASSUME IInv, PlanningOK, [Next]_vars
    PROVE  PlanningOK'
<1>0. PathsOK /\ q \in Queries /\ WholeSoFar /\ DOMAIN planstate = StateFields
  BY DEF PlanningOK, IInv, TypeOK
<1>1. CASE GetForeignRelSize /\ UNCHANGED exec
  <2>1. /\ pc = "size" /\ pc' = "paths" /\ finals' = finals /\ ~eof'
        /\ UNCHANGED q
    BY <1>1 DEF GetForeignRelSize, exec, PlanningOK
  <2>2. PICK whole \in BOOLEAN : planstate' = [FreshState EXCEPT !.target_list =
                         IF whole THEN Attributes ELSE extractColumns]
    BY <1>1 DEF GetForeignRelSize
  <2>3. /\ planstate'.target_list = IF whole THEN Attributes ELSE extractColumns
        /\ planstate' = [FreshState EXCEPT !.target_list = planstate'.target_list]
    BY <2>2 DEF FreshState
  <2>4. reltarget \subseteq Attributes /\ "b" \in Attributes
    BY <1>0, WantedKeys, QueriesAssumption
  <2>5. ColumnsAsked(planstate'.target_list)
    BY <2>3, <2>4 DEF ColumnsAsked, extractColumns
  <2>6. ColumnsAsked(planstate.target_list)'
    BY <2>1, <2>5 DEF ColumnsAsked, reltarget
  <2>7. finals' = {}
    BY <1>0, <2>1 DEF PathsOK
  <2> QED  BY <2>1, <2>3, <2>6, <2>7 DEF PlanningOK, PathsOK
<1>2. CASE GetForeignPaths /\ UNCHANGED exec
  <2>1. /\ Promise' /\ planstate'.pathkeys = promised'
        /\ planstate'.target_list = planstate.target_list
        /\ \A p \in paths' : BasePath(p)'
    BY <1>0, <1>2, PathsStep
  <2>2. /\ pc = "paths" /\ pc' \in {"ordered", "final"} /\ finals' = finals /\ ~eof'
        /\ UNCHANGED q
    BY <1>2 DEF GetForeignPaths, exec, PlanningOK
  <2>3. finals' = {} /\ ColumnsAsked(planstate.target_list)
    BY <1>0, <2>2 DEF PathsOK
  <2>4. ColumnsAsked(planstate.target_list)'
    BY <2>1, <2>2, <2>3 DEF ColumnsAsked, reltarget
  <2> QED  BY <2>1, <2>2, <2>3, <2>4 DEF PlanningOK, PathsOK
<1>3. ASSUME pc \in {"ordered", "final"}, pc' \in {"final", "plan"}, ~eof', UNCHANGED <<q, promised, paths>>,
             planstate'.pathkeys = planstate.pathkeys, planstate'.target_list = planstate.target_list,
             pc' = "final" => finals' = {},
             pc' = "plan" => \A p \in finals' : FinalPath(p)' /\ WholePushed'
      PROVE  PlanningOK'
  <2>1. reltarget' = reltarget
    BY <1>3 DEF reltarget
  <2>2. Promise /\ planstate.pathkeys = promised /\ ColumnsAsked(planstate.target_list)
    BY <1>0, <1>3 DEF PathsOK
  <2>3. Promise' /\ planstate'.pathkeys = promised' /\ ColumnsAsked(planstate.target_list)'
    BY <1>3, <2>1, <2>2 DEF Promise, ColumnsAsked
  <2>4. \A p \in paths : BasePath(p) => BasePath(p)'
    BY <1>3 DEF BasePath
  <2>5. \A p \in paths' : BasePath(p)'
    BY <1>0, <1>3, <2>4 DEF PathsOK
  <2> QED  BY <1>3, <2>3, <2>5 DEF PlanningOK, PathsOK
<1>4. CASE add_foreign_ordered_paths /\ UNCHANGED exec
  <2>1. /\ planstate'.pathkeys = planstate.pathkeys
        /\ planstate'.target_list = planstate.target_list
    BY <1>0, <1>4 DEF add_foreign_ordered_paths, StateFields
  <2>2. pc = "ordered" /\ pc' = "final" /\ ~eof' /\ UNCHANGED <<q, promised, paths, finals>>
    BY <1>4 DEF add_foreign_ordered_paths, exec, PlanningOK
  <2>3. finals' = {}
    BY <1>0, <2>2 DEF PathsOK
  <2> QED  BY <1>3, <2>1, <2>2, <2>3
<1>5. CASE add_foreign_final_paths /\ UNCHANGED exec
  <2>1. \A p \in finals' : FinalPath(p)' /\ WholePushed'
    BY <1>0, <1>5, FinalStep
  <2>2. pc = "final" /\ pc' = "plan" /\ ~eof' /\ UNCHANGED <<q, promised, paths, planstate>>
    BY <1>5 DEF add_foreign_final_paths, exec, PlanningOK
  <2> QED  BY <1>3, <2>1, <2>2
<1>6. CASE GetForeignPlan /\ UNCHANGED exec
  <2>1. PlanOK'
    BY <1>0, <1>6, PlanStep
  <2>2. pc' = "begin"
    BY <1>6 DEF GetForeignPlan
  <2> QED  BY <2>1, <2>2 DEF PlanningOK, PathsOK
<1>7. ASSUME PlanOK, UNCHANGED <<q, planner>>, pc' \in {"begin", "run", "explained", "done", "failed"}
      PROVE  PlanningOK'
  <2>1. PlanOK'
    BY <1>7, PlanKept DEF planner
  <2> QED  BY <1>7, <2>1 DEF PlanningOK, PathsOK
<1>8. CASE PlanningRaises /\ UNCHANGED exec
  <2>1. pc' = "failed" /\ ~eof'
    BY <1>8 DEF PlanningRaises, exec, PlanningOK
  <2> QED  BY <2>1 DEF PlanningOK, PathsOK
<1>9. CASE BeginForeignScan \/ IterateForeignScan \/ IterateNone \/ ReScanForeignScan
           \/ ExplainForeignScan \/ EndForeignScan \/ ExecutionRaises
  <2>1. /\ UNCHANGED <<q, planner>> /\ pc \in {"begin", "run", "explained"}
        /\ pc' \in {"begin", "run", "explained", "done", "failed"}
    BY <1>9 DEF BeginForeignScan, IterateForeignScan, IterateNone, ReScanForeignScan,
                ExplainForeignScan, EndForeignScan, ExecutionRaises
  <2> QED  BY <1>7, <2>1 DEF PlanningOK
<1>10. CASE NextStatement
  <2>1. CASE pc = "done" /\ pc' = "begin" /\ UNCHANGED <<q, planner>>
    BY <1>7, <2>1 DEF PlanningOK
  <2>2. CASE pc' = "size" /\ finals' = {} /\ eof' = FALSE
    BY <2>2 DEF PlanningOK, PathsOK
  <2> QED  BY <1>10, <2>1, <2>2 DEF NextStatement
<1>11. CASE UNCHANGED vars
  <2>1. PathsOK'
    <3>1. reltarget' = reltarget /\ limit_needed' = limit_needed
      BY <1>11 DEF vars, reltarget, limit_needed
    <3>2. Promise => Promise'
      BY <1>11, <3>1 DEF vars, planner, Promise
    <3>3. ColumnsAsked(planstate.target_list) => ColumnsAsked(planstate.target_list)'
      BY <1>11, <3>1 DEF vars, planner, ColumnsAsked
    <3>4. /\ \A p : BasePath(p) => BasePath(p)'
          /\ \A p : FinalPath(p) => FinalPath(p)'
          /\ WholePushed => WholePushed'
      BY <1>11, <3>1 DEF vars, planner, BasePath, FinalPath, WholePushed
    <3> QED  BY <1>0, <1>11, <3>2, <3>3, <3>4 DEF vars, planner, PathsOK
  <2>2. PlanOK => PlanOK'
    BY <1>11, PlanKept DEF vars, planner
  <2> QED  BY <1>11, <2>1, <2>2 DEF vars, exec, PlanningOK
<1> QED  BY <1>1, <1>2, <1>4, <1>5, <1>6, <1>8, <1>9, <1>10, <1>11 DEF Next, PlannerNext

-----------------------------------------------------------------------------
(* What execute returns, and what the filter leaves of it.                 *)

\* The keys that a plan passes to execute.
SortKeys(pl) == deserializeDeparsedSortGroup(pl.sortkeys)

\* The rows that pass the filter of query x above plan pl in scan n.
Wants(row, x, pl, n) ==
    /\ x.where # "none" => row["b"] = 0
    /\ pl.param => row["a"] = Outer[n]

\* What is left of s when OFFSET and LIMIT of the plan have been applied.
Window(s, pl) ==
    LET first == IF pl.offset >= 0 THEN pl.offset ELSE 0
    IN  SubSeq(s, first + 1, IF pl.limit >= 0 /\ first + pl.limit < Len(s)
                               THEN first + pl.limit ELSE Len(s))

\* r is what execute may return: at least the rows wanted, sorted and cut as
\* the plan says.
Fetched(r, x, pl, n) ==
    \E S \in SUBSET Table : \E s \in SetToSeqs(S) :
        /\ \A row \in Table : Wants(row, x, pl, n) => row \in S
        /\ InOrder(s, SortKeys(pl))
        /\ r = Window(s, pl)

\* o are the rows wanted among the first k of r, with the columns asked for:
\* those at the places g.
Filtered(o, r, k, x, pl, n) ==
    \E g \in Seq(1 .. k) :
        /\ Len(o) = Len(g) /\ o \in Seq([Attributes -> Int])
        /\ \A i, j \in 1 .. Len(g) : i < j => g[i] < g[j]
        /\ \A i \in 1 .. k : Wants(r[i], x, pl, n) <=> \E j \in 1 .. Len(g) : g[j] = i
        /\ \A j \in 1 .. Len(g) : o[j] = Restricted(r[g[j]], pl.columns)

\* The state of the node follows from its plan; what it has returned are the
\* rows wanted of those that it has read.
ExecOK ==
    /\ pc \in {"run", "explained", "done"} \/ eof =>
          es.sortkeys = SortKeys(plan) /\ es.limit = plan.limit /\ es.offset = plan.offset
    /\ pc = "run" /\ ~eof /\ es.p_iterator = "NULL" => out = <<>>
    /\ pc = "run" /\ ~eof /\ es.p_iterator = "iterator" =>
          \E r \in Seq(Table), k \in Nat :
              /\ k <= Len(r) /\ Fetched(r, q, plan, scan)
              /\ es.rows = SubSeq(r, k + 1, Len(r))
              /\ Filtered(out, r, k, q, plan, scan)
    /\ eof => \E r \in Seq(Table) :
                 Fetched(r, q, plan, scan) /\ Filtered(out, r, Len(r), q, plan, scan)

\* What two lists of keys have in common if one begins the other.
LEMMA CommonKeys ==
    ASSUME NEW S, NEW x \in Seq(S), NEW y \in Seq(S), IsPrefix(x, y)
    PROVE  LongestCommonPrefix({x, y}) = x
<1> DEFINE CP == CommonPrefixes({x, y})
           longest(l) == \A other \in CP : Len(other) <= Len(l)
<1>1. CP = {p \in Prefixes(x) \union Prefixes(y) : IsPrefix(p, x) /\ IsPrefix(p, y)}
  <2>1. UNION {Prefixes(seq) : seq \in {x, y}} = Prefixes(x) \union Prefixes(y)
    OBVIOUS
  <2> QED  BY <2>1 DEF CommonPrefixes
<1>2. x \in CP
  <2>1. SubSeq(x, 1, Len(x)) = x /\ Len(x) \in 0 .. Len(x)
    OBVIOUS
  <2>2. x \in Prefixes(x)
    BY <2>1 DEF Prefixes
  <2>3. IsPrefix(x, x)
    BY DEF IsPrefix
  <2> QED  BY <1>1, <2>2, <2>3
<1>3. \A p \in CP : Len(p) <= Len(x)
  BY <1>1 DEF IsPrefix
<1>4. \A l \in CP : longest(l) => l = x
  <2> SUFFICES ASSUME NEW l \in CP, longest(l) PROVE l = x
    OBVIOUS
  <2>1. Len(l) >= Len(x) /\ Len(l) <= Len(x)
    <3>1. PICK z \in {x, y} : \E m \in 0 .. Len(z) : l = SubSeq(z, 1, m)
      BY <1>1 DEF Prefixes
    <3>2. Len(l) \in Nat /\ Len(x) \in Nat
      BY <3>1
    <3> QED  BY <1>2, <1>3, <3>2
  <2>2. IsPrefix(l, x)
    BY <1>1
  <2>3. l \in Seq(S)
    <3>1. PICK z \in {x, y} : \E m \in 0 .. Len(z) : l = SubSeq(z, 1, m)
      BY <1>1 DEF Prefixes
    <3> QED  BY <3>1
  <2>4. Len(l) = Len(x)
    BY <2>1, <2>3
  <2>5. SubSeq(l, 1, Len(l)) = l /\ SubSeq(x, 1, Len(l)) = x
    BY <2>3, <2>4
  <2> QED  BY <2>2, <2>5 DEF IsPrefix
<1>5. longest(x)
  BY <1>3
<1>6. LongestCommonPrefix({x, y}) = CHOOSE l \in CP : longest(l)
  BY Zenon DEF LongestCommonPrefix
<1> HIDE DEF CP, longest
<1> QED  BY <1>2, <1>4, <1>5, <1>6

\* A sequence of all members of a set, each once.
Lists(s, S) ==
    /\ s \in Seq(S)
    /\ \A i, j \in 1 .. Len(s) : i # j => s[i] # s[j]
    /\ \A x \in S : \E i \in 1 .. Len(s) : s[i] = x

\* SetToSeqs lists each row once.
LEMMA SeqsList ==
    ASSUME NEW S, IsFiniteSet(S), NEW s
    PROVE  s \in SetToSeqs(S) <=> Lists(s, S)
<1> DEFINE n == Cardinality(S)
<1>0. n \in Nat
  BY FS_CardinalityType
<1>1. ASSUME s \in SetToSeqs(S) PROVE Lists(s, S)
  <2>1. s \in [1 .. n -> S] /\ \A i, j \in 1 .. n : i # j => s[i] # s[j]
    BY <1>1 DEF SetToSeqs
  <2>2. s \in Seq(S) /\ Len(s) = n
    BY <1>0, <2>1
  <2>3. IsFiniteSet(1 .. n) /\ Cardinality(1 .. n) = n
    BY <1>0, FS_Interval
  <2>4. s \in Injection(1 .. n, S)
    BY <2>1 DEF Injection, IsInjective
  <2>5. s \in Surjection(1 .. n, S)
    BY <2>3, <2>4, FS_Injection
  <2>6. \A x \in S : \E i \in 1 .. n : s[i] = x
    BY <2>5 DEF Surjection
  <2> QED  BY <2>1, <2>2, <2>6 DEF Lists
<1>2. ASSUME Lists(s, S) PROVE s \in SetToSeqs(S)
  <2>0. Len(s) \in Nat
    BY <1>2 DEF Lists
  <2>1. s \in [1 .. Len(s) -> S]
    BY <1>2 DEF Lists
  <2>2. s \in Bijection(1 .. Len(s), S)
    BY <1>2, <2>1 DEF Lists, Bijection, Injection, Surjection, IsInjective
  <2>3. n = Len(s)
    BY <2>0, <2>2, FS_CountingElements DEF ExistsBijection
  <2> QED  BY <1>2, <2>1, <2>3 DEF SetToSeqs, Lists
<1> QED  BY <1>1, <1>2

\* A row with the columns asked for has those that the filter looks at.
LEMMA RowsTyped ==
    ASSUME NEW row \in Table, NEW columns
    PROVE  /\ row \in [Attributes -> Int]
           /\ Restricted(row, columns) \in [Attributes -> Int]
           /\ \A c \in Attributes : c \in columns => Restricted(row, columns)[c] = row[c]
  BY TableAssumption DEF Restricted

\* The filter decides on the columns asked for as on the whole row.
LEMMA FilterSees ==
    ASSUME PlanOK, NEW row \in Table
    PROVE  Passes(Restricted(row, plan.columns)) <=> Wants(row, q, plan, scan)
<1>1. "a" \in plan.columns /\ (q.where # "none" => "b" \in plan.columns)
  BY DEF PlanOK, ColumnsAsked, reltarget
<1>2. {"a", "b"} \subseteq Attributes
  BY QueriesAssumption
<1>3. /\ Restricted(row, plan.columns)["a"] = row["a"]
      /\ q.where # "none" => Restricted(row, plan.columns)["b"] = row["b"]
  BY <1>1, <1>2, RowsTyped
<1> QED  BY <1>3 DEF Passes, Wants

\* A window is a sequence of the same rows.
LEMMA WindowTyped ==
    ASSUME NEW S, NEW s \in Seq(S), NEW pl, pl.limit \in Int, pl.offset \in Int
    PROVE  Window(s, pl) \in Seq(S)
  BY DEF Window

\* The power of two that DatumGetInt32 computes with is positive: it is the
\* number of sets of bits.
LEMMA PowerPositive == 2^Int32Bits \in Nat \ {0}
<1> DEFINE bits == 1 .. Int32Bits
<1>1. Int32Bits \in Nat
  BY BitsAssumption
<1>2. IsFiniteSet(bits) /\ Cardinality(bits) = Int32Bits
  BY <1>1, FS_Interval
<1> HIDE DEF bits
<1>3. IsFiniteSet(SUBSET bits) /\ Cardinality(SUBSET bits) = 2^Int32Bits
  BY <1>2, FS_SUBSET
<1>4. Cardinality(SUBSET bits) \in Nat
  BY <1>3, FS_CardinalityType
<1>5. Cardinality(SUBSET bits) # 0
  BY <1>3, FS_EmptySet
<1> QED  BY <1>3, <1>4, <1>5

\* The plan's limits are integers, and its sort keys are sorted by.
LEMMA PlanTypes ==
    ASSUME PlanOK, q \in Queries
    PROVE  /\ plan.limit \in Int /\ plan.offset \in Int
           /\ SortKeys(plan) \in {<<>>, promised} /\ promised \in Seq(Keys)
           /\ LongestCommonPrefix({SortKeys(plan), promised}) = SortKeys(plan)
<1>1. 2^Int32Bits \in Nat \ {0}
  BY PowerPositive
<1>2. \A v \in Nat : DatumGetInt32(v) \in Int
  BY <1>1 DEF DatumGetInt32
<1>3. q.limit.v \in Nat /\ q.offset.v \in Nat
  BY QueriesAssumption DEF Counts
<1>4. Extracted(q.limit) \in Int /\ Extracted(q.offset) \in Int
  BY <1>2, <1>3 DEF Extracted, Unset
<1>5. plan.limit \in Int /\ plan.offset \in Int
  BY <1>4 DEF PlanOK, BasePlan, FinalPlan, Unset
<1>6. SortKeys(plan) \in {<<>>, promised} /\ promised \in Seq(Keys)
  BY DEF PlanOK, BasePlan, FinalPlan, SortKeys, Promise
<1>7. IsPrefix(<<>>, promised) /\ IsPrefix(promised, promised)
  BY <1>6 DEF IsPrefix
<1>8. /\ LongestCommonPrefix({<<>>, promised}) = <<>>
      /\ LongestCommonPrefix({promised, promised}) = promised
  <2>1. <<>> \in Seq(Keys)
    OBVIOUS
  <2> QED  BY <1>6, <1>7, <2>1, CommonKeys
<1> QED  BY <1>5, <1>6, <1>8

\* What the wrapper returns.
LEMMA ResultFetched ==
    ASSUME PlanOK, q \in Queries,
           es.sortkeys = SortKeys(plan), es.limit = plan.limit, es.offset = plan.offset,
           NEW r \in Results
    PROVE  r \in Seq(Table) /\ Fetched(r, q, plan, scan)
<1>1. Honoured = SortKeys(plan)
  BY PlanTypes DEF Honoured
<1>2. PICK S \in SUBSET Table : \E s \in Arrangements(S, Honoured) :
         {x \in Table : Passes(x)} \subseteq S /\ r = Slice(s)
  BY DEF Results
<1>3. PICK s \in SetToSeqs(S) : InOrder(s, SortKeys(plan)) /\ r = Slice(s)
  BY <1>1, <1>2 DEF Arrangements
<1>4. \A row \in Table : Wants(row, q, plan, scan) => row \in S
  BY <1>2 DEF Passes, Wants
<1>5. r = Window(s, plan)
  BY <1>3 DEF Slice, Window
<1>6. s \in Seq(Table)
  <2>1. IsFiniteSet(S)
    BY TableAssumption, FS_Subset
  <2>2. s \in Seq(S)
    BY <2>1, SeqsList DEF Lists
  <2> QED  BY <2>2
<1>7. r \in Seq(Table)
  BY <1>5, <1>6, PlanTypes, WindowTyped
<1> QED  BY <1>3, <1>4, <1>5, <1>7 DEF Fetched

\* Nothing has been read.
LEMMA FilterEmpty ==
    ASSUME NEW r, NEW x, NEW pl, NEW n
    PROVE  Filtered(<<>>, r, 0, x, pl, n)
<1>1. <<>> \in Seq(1 .. 0) /\ <<>> \in Seq([Attributes -> Int]) /\ Len(<<>>) = 0
  OBVIOUS
<1>2. \A i : i \notin 1 .. 0
  OBVIOUS
<1> QED  BY <1>1, <1>2, Zenon DEF Filtered

\* One more row is read, and is returned if it is wanted.
LEMMA FilterReads ==
    ASSUME NEW r \in Seq(Table), NEW k \in Nat, k < Len(r), NEW x, NEW pl, NEW n, NEW o,
           Filtered(o, r, k, x, pl, n)
    PROVE  /\ Wants(r[k + 1], x, pl, n) =>
                 Filtered(Append(o, Restricted(r[k + 1], pl.columns)), r, k + 1, x, pl, n)
           /\ ~Wants(r[k + 1], x, pl, n) => Filtered(o, r, k + 1, x, pl, n)
<1>1. PICK g \in Seq(1 .. k) :
        /\ Len(o) = Len(g) /\ o \in Seq([Attributes -> Int])
        /\ \A i, j \in 1 .. Len(g) : i < j => g[i] < g[j]
        /\ \A i \in 1 .. k : Wants(r[i], x, pl, n) <=> \E j \in 1 .. Len(g) : g[j] = i
        /\ \A j \in 1 .. Len(g) : o[j] = Restricted(r[g[j]], pl.columns)
  BY DEF Filtered
<1>2. g \in Seq(1 .. (k + 1)) /\ Len(g) \in Nat /\ \A j \in 1 .. Len(g) : g[j] \in 1 .. k
  BY <1>1
<1>3. k + 1 \in 1 .. (k + 1) /\ \A i \in 1 .. (k + 1) : i \in 1 .. k \/ i = k + 1
  OBVIOUS
<1>4. ASSUME ~Wants(r[k + 1], x, pl, n) PROVE Filtered(o, r, k + 1, x, pl, n)
  <2>1. \A i \in 1 .. (k + 1) : Wants(r[i], x, pl, n) <=> \E j \in 1 .. Len(g) : g[j] = i
    <3> HIDE DEF Wants
    <3> QED  BY <1>1, <1>2, <1>3, <1>4
  <2> QED  BY <1>1, <1>2, <2>1 DEF Filtered
<1>5. ASSUME Wants(r[k + 1], x, pl, n)
      PROVE  Filtered(Append(o, Restricted(r[k + 1], pl.columns)), r, k + 1, x, pl, n)
  <2> DEFINE h == Append(g, k + 1)
             row == Restricted(r[k + 1], pl.columns)
             o2 == Append(o, row)
  <2>1. row \in [Attributes -> Int]
    BY RowsTyped
  <2> HIDE DEF row
  <2>2. /\ h \in Seq(1 .. (k + 1)) /\ Len(h) = Len(g) + 1
        /\ \A j \in 1 .. Len(g) : h[j] = g[j]
        /\ h[Len(g) + 1] = k + 1
    BY <1>2, <1>3
  <2>3. /\ o2 \in Seq([Attributes -> Int]) /\ Len(o2) = Len(g) + 1
        /\ \A j \in 1 .. Len(g) : o2[j] = o[j]
        /\ o2[Len(g) + 1] = row
    BY <1>1, <1>2, <2>1
  <2> HIDE DEF h, o2
  <2>4. \A j \in 1 .. Len(h) : j \in 1 .. Len(g) \/ j = Len(g) + 1
    BY <1>2, <2>2
  <2>5. ASSUME NEW i \in 1 .. Len(h), NEW j \in 1 .. Len(h), i < j PROVE h[i] < h[j]
    <3>1. i \in 1 .. Len(g) /\ h[i] = g[i] /\ g[i] \in 1 .. k
      <4>1. i \in 1 .. Len(g)
        <5>1. i # Len(g) + 1
          BY <1>2, <2>2, <2>5
        <5> QED  BY <2>4, <5>1
      <4> QED  BY <1>2, <2>2, <4>1
    <3>2. CASE j \in 1 .. Len(g)
      BY <1>1, <2>2, <2>5, <3>1, <3>2
    <3>3. CASE j = Len(g) + 1
      BY <2>2, <3>1, <3>3
    <3> QED  BY <2>4, <3>2, <3>3
  <2>6. \A i \in 1 .. (k + 1) : Wants(r[i], x, pl, n) <=> \E j \in 1 .. Len(h) : h[j] = i
    <3>1. ASSUME NEW i \in 1 .. k PROVE Wants(r[i], x, pl, n) <=> \E j \in 1 .. Len(h) : h[j] = i
      <4>1. (\E j \in 1 .. Len(h) : h[j] = i) <=> \E j \in 1 .. Len(g) : g[j] = i
        <5>1. ASSUME NEW j \in 1 .. Len(h), h[j] = i PROVE j \in 1 .. Len(g) /\ g[j] = i
          BY <2>2, <2>4, <5>1
        <5>2. ASSUME NEW j \in 1 .. Len(g), g[j] = i PROVE j \in 1 .. Len(h) /\ h[j] = i
          <6>1. j \in 1 .. (Len(g) + 1)
            BY <1>2
          <6> QED  BY <2>2, <5>2, <6>1
        <5> QED  BY <5>1, <5>2
      <4> QED  BY <1>1, <4>1
    <3>2. \E j \in 1 .. Len(h) : h[j] = k + 1
      BY <1>2, <2>2
    <3> QED  BY <1>3, <1>5, <3>1, <3>2
  <2>7. \A j \in 1 .. Len(h) : o2[j] = Restricted(r[h[j]], pl.columns)
    BY <1>1, <2>2, <2>3, <2>4 DEF row
  <2>8. Len(o2) = Len(h)
    BY <2>2, <2>3
  <2>9. Filtered(o2, r, k + 1, x, pl, n)
    <3> HIDE DEF Wants
    <3> QED  BY <2>2, <2>3, <2>5, <2>6, <2>7, <2>8 DEF Filtered
  <2> QED  BY <2>9 DEF o2, row
<1> QED  BY <1>4, <1>5

\* The invariant before and after each step.
LEMMA ExecInitOK == QueryInit => ExecOK
  BY DEF QueryInit, Init, ExecInit, ExecOK

\* The execution state is that of the plan, or of a scan read to its end.
Running == pc \in {"run", "explained", "done"} \/ eof

\* execute yields one row, or its end.
LEMMA IterateStep ==
    ASSUME IInv, PlanOK, ExecOK, IterateForeignScan
    PROVE  ExecOK'
<1>1. PICK rows \in IF es.p_iterator = "NULL" THEN Results ELSE {es.rows} :
         /\ es' = [es EXCEPT !.p_iterator = "iterator",
                             !.rows = IF rows = <<>> THEN rows ELSE Tail(rows)]
         /\ eof' = (rows = <<>>)
         /\ out' = IF rows # <<>> /\ Passes(Restricted(Head(rows), plan.columns))
                     THEN Append(out, Restricted(Head(rows), plan.columns))
                     ELSE out
  BY Zenon DEF IterateForeignScan
<1>2. /\ pc = "run" /\ ~eof /\ UNCHANGED <<q, pc, planner, scan>>
      /\ q \in Queries /\ DOMAIN es = ExecFields
      /\ es.p_iterator \in {"NULL", "iterator"}
  BY DEF IterateForeignScan, IInv, TypeOK, OneReference
<1>3. es.sortkeys = SortKeys(plan) /\ es.limit = plan.limit /\ es.offset = plan.offset
  BY <1>2 DEF ExecOK
<1>4. /\ es'.p_iterator = "iterator" /\ es'.sortkeys = es.sortkeys /\ es'.limit = es.limit
      /\ es'.offset = es.offset /\ es'.rows = IF rows = <<>> THEN rows ELSE Tail(rows)
  BY <1>1, <1>2 DEF ExecFields
<1>5. \E r \in Seq(Table), k \in Nat :
              /\ k <= Len(r) /\ Fetched(r, q, plan, scan)
              /\ rows = SubSeq(r, k + 1, Len(r))
              /\ Filtered(out, r, k, q, plan, scan)
  <2>1. CASE es.p_iterator = "NULL"
    <3>1. rows \in Results /\ out = <<>>
      BY <1>1, <1>2, <2>1 DEF ExecOK
    <3>2. rows \in Seq(Table) /\ Fetched(rows, q, plan, scan)
      BY <1>2, <1>3, <3>1, ResultFetched
    <3>3. Filtered(out, rows, 0, q, plan, scan)
      BY <3>1, FilterEmpty
    <3>4. rows = SubSeq(rows, 0 + 1, Len(rows)) /\ 0 <= Len(rows) /\ 0 \in Nat
      BY <3>2
    <3> QED  BY <3>2, <3>3, <3>4
  <2>2. CASE es.p_iterator = "iterator"
    BY <1>1, <1>2, <2>2 DEF ExecOK
  <2> QED  BY <1>2, <2>1, <2>2
<1>6. PICK r \in Seq(Table), k \in Nat :
              /\ k <= Len(r) /\ Fetched(r, q, plan, scan)
              /\ rows = SubSeq(r, k + 1, Len(r))
              /\ Filtered(out, r, k, q, plan, scan)
  BY <1>5
<1>7. Fetched(r, q, plan, scan)'
  BY <1>2, <1>6 DEF planner
<1>8. es'.sortkeys = SortKeys(plan') /\ es'.limit = plan'.limit /\ es'.offset = plan'.offset
  BY <1>2, <1>3, <1>4 DEF planner
<1>9. CASE rows = <<>>
  <2>1. k = Len(r) /\ out' = out /\ eof'
    <3>1. eof' /\ out' = out
      BY <1>1, <1>9, Zenon
    <3>2. Len(SubSeq(r, k + 1, Len(r))) = Len(r) - k
      BY <1>6
    <3>3. k = Len(r)
      <4>1. SubSeq(r, k + 1, Len(r)) = <<>>
        BY <1>6, <1>9
      <4>2. Len(SubSeq(r, k + 1, Len(r))) = 0
        <5>1. Len(<<>>) = 0
          OBVIOUS
        <5> QED  BY <4>1, <5>1, Zenon
      <4>3. Len(r) \in Nat
        OBVIOUS
      <4> QED  BY <3>2, <4>2, <4>3
    <3> QED  BY <3>1, <3>3
  <2>2. Filtered(out, r, Len(r), q, plan, scan)'
    BY <1>2, <1>6, <2>1 DEF planner
  <2> QED  BY <1>7, <1>8, <2>1, <2>2 DEF ExecOK
<1>10. CASE rows # <<>>
  <2>1. /\ k < Len(r) /\ Len(r) \in Nat /\ Head(rows) = r[k + 1]
        /\ Tail(rows) = SubSeq(r, (k + 1) + 1, Len(r))
    BY <1>6, <1>10
  <2>2. r[k + 1] \in Table
    BY <2>1
  <2>3. out' = IF Wants(r[k + 1], q, plan, scan)
                 THEN Append(out, Restricted(r[k + 1], plan.columns)) ELSE out
    BY <1>1, <1>10, <2>1, <2>2, FilterSees
  <2>4. Filtered(out', r, k + 1, q, plan, scan)
    BY <1>6, <2>1, <2>3, FilterReads
  <2>5. Filtered(out, r, k + 1, q, plan, scan)'
    BY <1>2, <2>4 DEF planner
  <2>6. ~eof' /\ es'.rows = SubSeq(r, (k + 1) + 1, Len(r)) /\ k + 1 <= Len(r) /\ k + 1 \in Nat
    <3>1. ~eof'
      BY <1>1, <1>10
    <3>2. es'.rows = Tail(rows)
      BY <1>4, <1>10
    <3> QED  BY <2>1, <3>1, <3>2
  <2>7. es'.p_iterator = "iterator" /\ ~(es'.p_iterator = "NULL")
    BY <1>4
  <2> QED  BY <1>7, <1>8, <2>5, <2>6, <2>7 DEF ExecOK
<1> QED  BY <1>9, <1>10

\* Every step keeps the invariant of execution.
LEMMA ExecStep ==
    ASSUME IInv, PlanningOK, ExecOK, [Next]_vars
    PROVE  ExecOK'
<1>0. DOMAIN es = ExecFields /\ (pc = "begin" => PlanOK) /\ (pc = "run" => PlanOK) /\ q \in Queries
  BY DEF IInv, TypeOK, PlanningOK
<1>1. CASE PlannerNext /\ UNCHANGED exec
  <2>1. ~eof' /\ pc' \in {"paths", "ordered", "final", "plan", "begin", "failed"}
    BY <1>1 DEF PlannerNext, GetForeignRelSize, GetForeignPaths, add_foreign_ordered_paths,
                add_foreign_final_paths, GetForeignPlan, PlanningRaises, exec, PlanningOK
  <2> QED  BY <2>1 DEF ExecOK
<1>2. CASE BeginForeignScan
  <2>1. /\ es' = initializeExecState /\ out' = <<>> /\ ~eof' /\ pc' = "run" /\ UNCHANGED plan
    BY <1>2 DEF BeginForeignScan, planner
  <2>2. /\ es'.p_iterator = "NULL" /\ es'.sortkeys = SortKeys(plan)
        /\ es'.limit = plan.limit /\ es'.offset = plan.offset
    BY <2>1 DEF initializeExecState, NoExec, SortKeys
  <2>3. ~(es'.p_iterator = "iterator")
    BY <2>2
  <2> QED  BY <2>1, <2>2, <2>3 DEF ExecOK
<1>3. CASE IterateForeignScan
  <2>1. PlanOK
    BY <1>0, <1>3 DEF IterateForeignScan
  <2> QED  BY <1>3, <2>1, IterateStep
<1>4. CASE IterateNone
  <2>1. /\ pc = "run" /\ ~eof /\ es.p_iterator = "NULL" /\ <<>> \in Results
        /\ es' = [es EXCEPT !.p_iterator = "None"] /\ eof'
        /\ UNCHANGED <<q, plan, scan, out, pc>>
    BY <1>4 DEF IterateNone, planner
  <2>2. /\ es.sortkeys = SortKeys(plan) /\ es.limit = plan.limit /\ es.offset = plan.offset
        /\ out = <<>>
    BY <2>1 DEF ExecOK
  <2>3. <<>> \in Seq(Table) /\ Fetched(<<>>, q, plan, scan)
    BY <1>0, <2>1, <2>2, ResultFetched
  <2>4. Filtered(out, <<>>, Len(<<>>), q, plan, scan)
    BY <2>2, FilterEmpty
  <2>5. /\ es'.sortkeys = SortKeys(plan') /\ es'.limit = plan'.limit /\ es'.offset = plan'.offset
    BY <1>0, <2>1, <2>2 DEF ExecFields
  <2>6. Fetched(<<>>, q, plan, scan)' /\ Filtered(out, <<>>, Len(<<>>), q, plan, scan)'
    BY <2>1, <2>3, <2>4
  <2> QED  BY <2>1, <2>3, <2>5, <2>6 DEF ExecOK
<1>5. CASE ReScanForeignScan
  <2>1. /\ pc = "run" /\ pc' = "run" /\ out' = <<>> /\ ~eof' /\ UNCHANGED plan
        /\ es' = [es EXCEPT !.p_iterator = "NULL", !.rows = <<>>]
    BY <1>5 DEF ReScanForeignScan, planner
  <2>2. /\ es'.p_iterator = "NULL" /\ es'.sortkeys = es.sortkeys
        /\ es'.limit = es.limit /\ es'.offset = es.offset
    BY <1>0, <2>1 DEF ExecFields
  <2>3. es.sortkeys = SortKeys(plan) /\ es.limit = plan.limit /\ es.offset = plan.offset
    BY <2>1 DEF ExecOK
  <2>4. ~(es'.p_iterator = "iterator")
    BY <2>2
  <2> QED  BY <2>1, <2>2, <2>3, <2>4 DEF ExecOK
\* The steps that end a scan leave what it has returned.
<1>6. ASSUME UNCHANGED <<q, plan, scan, out, eof>>, pc' # "run", Running' => Running,
             es'.sortkeys = es.sortkeys, es'.limit = es.limit, es'.offset = es.offset
      PROVE  ExecOK'
  <2>1. \A r : Fetched(r, q, plan, scan) => Fetched(r, q, plan, scan)'
    BY <1>6
  <2>2. \A r : Filtered(out, r, Len(r), q, plan, scan) => Filtered(out, r, Len(r), q, plan, scan)'
    BY <1>6
  <2>3. eof' => \E r \in Seq(Table) :
                 Fetched(r, q, plan, scan)' /\ Filtered(out, r, Len(r), q, plan, scan)'
    BY <1>6, <2>1, <2>2 DEF ExecOK
  <2>4. Running' =>
          es'.sortkeys = SortKeys(plan') /\ es'.limit = plan'.limit /\ es'.offset = plan'.offset
    BY <1>6 DEF ExecOK, Running
  <2> QED  BY <1>6, <2>3, <2>4 DEF ExecOK, Running
<1>7. CASE ExplainForeignScan \/ EndForeignScan
  <2>1. /\ pc \in {"run", "explained"} /\ pc' \in {"explained", "done"}
        /\ UNCHANGED <<q, plan, scan, out, eof>>
        /\ \E it \in {"NULL", "iterator"} : es' = [es EXCEPT !.p_iterator = it, !.rows = <<>>]
    BY <1>7 DEF ExplainForeignScan, EndForeignScan, planner
  <2>2. es'.sortkeys = es.sortkeys /\ es'.limit = es.limit /\ es'.offset = es.offset
    BY <1>0, <2>1 DEF ExecFields
  <2> QED  BY <1>6, <2>1, <2>2 DEF Running
<1>8. CASE ExecutionRaises
  BY <1>6, <1>8 DEF ExecutionRaises, planner, exec, Running
<1>9. CASE NextStatement
  <2>1. CASE pc = "done" /\ pc' = "begin" /\ UNCHANGED <<q, planner, exec>>
    BY <1>6, <2>1 DEF planner, exec, Running
  <2>2. CASE pc' = "size" /\ ~eof'
    BY <2>2 DEF ExecOK
  <2> QED  BY <1>9, <2>1, <2>2 DEF NextStatement
<1>10. CASE UNCHANGED vars
  BY <1>10 DEF vars, planner, exec, ExecOK
<1> QED  BY <1>1, <1>2, <1>3, <1>4, <1>5, <1>7, <1>8, <1>9, <1>10 DEF Next

-----------------------------------------------------------------------------
(* Orders.                                                                 *)

\* Row a may come before row b.
Before(a, b, keys) ==
    \A n \in DOMAIN keys :
      (\A m \in 1..(n - 1) : Rank(a, keys[m]) = Rank(b, keys[m]))
        => Rank(a, keys[n]) <= Rank(b, keys[n])

\* A sequence is in order when each row may come before the later ones.
LEMMA OrderBefore ==
    ASSUME NEW s, NEW keys
    PROVE  InOrder(s, keys) <=> \A i, j \in DOMAIN s : i < j => Before(s[i], s[j], keys)
  BY DEF InOrder, Before

\* Some of the rows, in the same order.
LEMMA SomeInOrder ==
    ASSUME NEW s, NEW keys, InOrder(s, keys), NEW t, NEW g,
           \A i \in DOMAIN t : g[i] \in DOMAIN s /\ t[i] = s[g[i]],
           \A i, j \in DOMAIN t : i < j => g[i] < g[j]
    PROVE  InOrder(t, keys)
<1>1. \A i, j \in DOMAIN s : i < j => Before(s[i], s[j], keys)
  BY OrderBefore
<1>2. \A i, j \in DOMAIN t : i < j => Before(t[i], t[j], keys)
  BY <1>1
<1> QED  BY <1>2, OrderBefore

\* A window of a sorted sequence is sorted.
LEMMA WindowInOrder ==
    ASSUME NEW S, NEW s \in Seq(S), NEW pl, pl.limit \in Int, pl.offset \in Int, NEW keys, InOrder(s, keys)
    PROVE  InOrder(Window(s, pl), keys)
<1> DEFINE first == IF pl.offset >= 0 THEN pl.offset ELSE 0
           last == IF pl.limit >= 0 /\ first + pl.limit < Len(s) THEN first + pl.limit ELSE Len(s)
           t == SubSeq(s, first + 1, last)
           g == [i \in DOMAIN t |-> first + i]
<1>1. first \in Nat /\ last \in Nat /\ last <= Len(s)
  OBVIOUS
<1>2. Window(s, pl) = t
  BY DEF Window
<1> HIDE DEF first, last
<1>3. \A i \in DOMAIN t : i \in Nat /\ first + i \in DOMAIN s /\ t[i] = s[first + i]
  BY <1>1
<1> HIDE DEF t
<1>4. /\ \A i \in DOMAIN t : g[i] \in DOMAIN s /\ t[i] = s[g[i]]
      /\ \A i, j \in DOMAIN t : i < j => g[i] < g[j]
  BY <1>1, <1>3
<1> HIDE DEF g
<1>5. InOrder(t, keys)
  BY <1>4, SomeInOrder
<1> QED  BY <1>2, <1>5

\* An order looks only at its columns.
LEMMA RankRestricted ==
    ASSUME NEW row \in Table, NEW columns, NEW key \in Keys, key.att \in columns
    PROVE  Rank(Restricted(row, columns), key) = Rank(row, key) /\ Rank(row, key) \in Int
<1>1. key.att \in Attributes
  BY DEF Keys
<1> QED  BY <1>1, RowsTyped DEF Rank

\* So two rows compare the same with the columns of the sort only ...
LEMMA BeforeRestricted ==
    ASSUME NEW a \in Table, NEW b \in Table, NEW columns, NEW keys \in Seq(Keys), Atts(keys) \subseteq columns
    PROVE  Before(Restricted(a, columns), Restricted(b, columns), keys) <=> Before(a, b, keys)
<1>1. \A n \in DOMAIN keys : keys[n] \in Keys /\ keys[n].att \in columns
  BY DEF Atts
<1>2. \A n \in DOMAIN keys : /\ Rank(Restricted(a, columns), keys[n]) = Rank(a, keys[n])
                             /\ Rank(Restricted(b, columns), keys[n]) = Rank(b, keys[n])
  BY <1>1, RankRestricted
<1>3. \A n \in DOMAIN keys : \A m \in 1 .. (n - 1) : m \in DOMAIN keys
  OBVIOUS
<1> QED  BY <1>2, <1>3 DEF Before

\* ... and a sequence of rows is in order with them if it was without.
LEMMA ColumnsInOrder ==
    ASSUME NEW s \in Seq(Table), NEW columns, NEW keys \in Seq(Keys), Atts(keys) \subseteq columns
    PROVE  InOrder(Columns(s, columns), keys) <=> InOrder(s, keys)
<1> DEFINE t == Columns(s, columns)
<1>1. DOMAIN t = DOMAIN s /\ \A i \in DOMAIN s : t[i] = Restricted(s[i], columns)
  BY DEF Columns
<1> HIDE DEF t
<1>2. \A i, j \in DOMAIN s : Before(t[i], t[j], keys) <=> Before(s[i], s[j], keys)
  BY <1>1, BeforeRestricted
<1> QED  BY <1>1, <1>2, OrderBefore DEF t

\* What is sorted by some keys is sorted by the first of them.
LEMMA PrefixInOrder ==
    ASSUME NEW s, NEW keys \in Seq(Keys), NEW more \in Seq(Keys), IsPrefix(keys, more), InOrder(s, more)
    PROVE  InOrder(s, keys)
<1>1. Len(keys) \in Nat /\ Len(more) \in Nat /\ Len(keys) <= Len(more)
  BY DEF IsPrefix
<1>2. \A n \in DOMAIN keys : n \in DOMAIN more /\ more[n] = keys[n]
  <2> SUFFICES ASSUME NEW n \in DOMAIN keys PROVE n \in DOMAIN more /\ more[n] = keys[n]
    OBVIOUS
  <2>1. n \in 1 .. Len(keys) /\ n \in 1 .. Len(more)
    BY <1>1
  <2>2. SubSeq(keys, 1, Len(keys))[n] = keys[n] /\ SubSeq(more, 1, Len(keys))[n] = more[n]
    BY <1>1, <2>1
  <2> QED  BY <2>1, <2>2 DEF IsPrefix
<1>3. \A n \in DOMAIN keys : \A m \in 1 .. (n - 1) : m \in DOMAIN keys
  OBVIOUS
<1>4. \A a, b : Before(a, b, more) => Before(a, b, keys)
  <2> SUFFICES ASSUME NEW a, NEW b, Before(a, b, more), NEW n \in DOMAIN keys,
                      \A m \in 1..(n - 1) : Rank(a, keys[m]) = Rank(b, keys[m])
               PROVE  Rank(a, keys[n]) <= Rank(b, keys[n])
    BY DEF Before
  <2>1. \A m \in 1..(n - 1) : Rank(a, more[m]) = Rank(b, more[m])
    BY <1>2, <1>3
  <2>2. Rank(a, more[n]) <= Rank(b, more[n])
    BY <1>2, <2>1 DEF Before
  <2> QED  BY <1>2, <2>2
<1> QED  BY <1>4, OrderBefore

\* A set of natural numbers has a least one.
LEMMA LeastOf ==
    ASSUME NEW T \in SUBSET Nat, T # {}
    PROVE  \E m \in T : \A j \in T : m <= j
<1>1. PICK m \in T : \A j \in T : ~ (<<j, m>> \in OpToRel(<, Nat))
  BY NatLessThanWellFounded, WFMin, Zenon
<1>2. \A j \in T : ~ (j < m)
  BY <1>1 DEF OpToRel
<1> QED  BY <1>2

-----------------------------------------------------------------------------
(* LIMIT and OFFSET.                                                       *)

\* What LIMIT and OFFSET skip and let through.
Given == {"const", "expr"}
Skipped == IF q.offset.kind \in Given THEN q.offset.v ELSE 0
Count(s) == IF q.limit.kind \in Given THEN q.limit.v ELSE Len(s)

\* The places that PostgreSQL's Limit node lets through.
Places(s) ==
    {i \in DOMAIN s :
       /\ i > Skipped
       /\ \/ i <= Skipped + Count(s)
          \/ /\ q.ties /\ Count(s) > 0 /\ Skipped + Count(s) <= Len(s)
             /\ \A n \in DOMAIN q.order :
                  Rank(s[i], q.order[n]) = Rank(s[Skipped + Count(s)], q.order[n])}

\* Cut, said with the number of places let through.
LEMMA CutPlaces ==
    ASSUME NEW s
    PROVE  Cut(s) = SubSeq(s, Skipped + 1, Skipped + Cardinality(Places(s)))
  BY Zenon DEF Cut, Places, Skipped, Count, Given

\* LIMIT and OFFSET are natural numbers.
LEMMA CountsTyped ==
    ASSUME q \in Queries
    PROVE  /\ q.limit \in Counts /\ q.offset \in Counts /\ Skipped \in Nat
           /\ \A S : \A s \in Seq(S) : Count(s) \in Nat
<1>1. q.limit \in Counts /\ q.offset \in Counts
  BY QueriesAssumption
<1>2. q.limit.v \in Nat /\ q.offset.v \in Nat
  BY <1>1 DEF Counts
<1>3. \A S : \A s \in Seq(S) : Len(s) \in Nat
  OBVIOUS
<1> QED  BY <1>1, <1>2, <1>3 DEF Skipped, Count

\* What is let through is a part of the sequence.
LEMMA PlacesBound ==
    ASSUME q \in Queries, NEW S, NEW s \in Seq(S)
    PROVE  /\ Cardinality(Places(s)) \in Nat
           /\ Skipped + Cardinality(Places(s)) <= Len(s) \/ Cardinality(Places(s)) = 0
<1>1. Skipped \in Nat /\ Len(s) \in Nat /\ DOMAIN s = 1 .. Len(s)
  BY CountsTyped
<1> DEFINE rest == (Skipped + 1) .. Len(s)
<1>2. Places(s) \subseteq rest
  BY <1>1 DEF Places
<1>3. IsFiniteSet(rest) /\ Cardinality(rest) = IF Skipped + 1 > Len(s) THEN 0 ELSE Len(s) - (Skipped + 1) + 1
  <2>1. Skipped + 1 \in Int /\ Len(s) \in Int
    BY <1>1
  <2> QED  BY <2>1, FS_Interval
<1> HIDE DEF rest
<1>4. IsFiniteSet(Places(s)) /\ Cardinality(Places(s)) <= Cardinality(rest)
  BY <1>2, <1>3, FS_Subset
<1>5. Cardinality(Places(s)) \in Nat
  BY <1>4, FS_CardinalityType
<1> QED  BY <1>1, <1>3, <1>4, <1>5

\* It does not matter whether columns are dropped before or after.
LEMMA ColumnsCut ==
    ASSUME q \in Queries, NEW s \in Seq(Table), NEW columns, Atts(q.order) \subseteq columns
    PROVE  Cut(Columns(s, columns)) = Columns(Cut(s), columns)
<1> DEFINE t == Columns(s, columns)
           n == Cardinality(Places(s))
<1>1. /\ t \in Seq([Attributes -> Int]) /\ Len(t) = Len(s) /\ DOMAIN t = DOMAIN s
      /\ \A i \in DOMAIN s : t[i] = Restricted(s[i], columns)
  <2>1. \A i \in 1 .. Len(s) : s[i] \in Table
    OBVIOUS
  <2>2. \A i \in 1 .. Len(s) : Restricted(s[i], columns) \in [Attributes -> Int]
    BY <2>1, RowsTyped
  <2>3. t = [i \in 1 .. Len(s) |-> Restricted(s[i], columns)] /\ Len(s) \in Nat
    BY DEF Columns
  <2> HIDE DEF t
  <2> QED  BY <2>2, <2>3
<1>2. Skipped \in Nat /\ Count(s) \in Nat /\ Len(s) \in Nat /\ DOMAIN s = 1 .. Len(s) /\ q.order \in Seq(Keys)
  BY CountsTyped, WantedKeys
<1>3. Count(t) = Count(s)
  BY <1>1 DEF Count
<1>4. \A i \in DOMAIN s, m \in DOMAIN q.order : Rank(t[i], q.order[m]) = Rank(s[i], q.order[m])
  <2> SUFFICES ASSUME NEW i \in DOMAIN s, NEW m \in DOMAIN q.order
               PROVE  Rank(t[i], q.order[m]) = Rank(s[i], q.order[m])
    OBVIOUS
  <2>1. s[i] \in Table /\ q.order[m] \in Keys /\ q.order[m].att \in columns
    BY <1>2 DEF Atts
  <2> QED  BY <1>1, <2>1, RankRestricted
<1> HIDE DEF t
<1>5. Places(t) = Places(s)
  <2>1. ASSUME Count(s) > 0, Skipped + Count(s) <= Len(s) PROVE Skipped + Count(s) \in DOMAIN s
    BY <1>2, <2>1
  <2>2. ASSUME NEW i \in DOMAIN s PROVE i \in Places(t) <=> i \in Places(s)
    <3>1. CASE Count(s) > 0 /\ Skipped + Count(s) <= Len(s)
      <4>1. (\A m \in DOMAIN q.order :
                  Rank(t[i], q.order[m]) = Rank(t[Skipped + Count(s)], q.order[m]))
            <=> \A m \in DOMAIN q.order :
                  Rank(s[i], q.order[m]) = Rank(s[Skipped + Count(s)], q.order[m])
        BY <1>4, <2>1, <2>2, <3>1
      <4> QED  BY <1>1, <1>3, <3>1, <4>1 DEF Places
    <3>2. CASE ~(Count(s) > 0 /\ Skipped + Count(s) <= Len(s))
      BY <1>1, <1>3, <3>2 DEF Places
    <3> QED  BY <3>1, <3>2
  <2>3. Places(t) \subseteq DOMAIN s /\ Places(s) \subseteq DOMAIN s
    BY <1>1 DEF Places
  <2> QED  BY <2>2, <2>3
<1>6. Cut(t) = SubSeq(t, Skipped + 1, Skipped + n) /\ Cut(s) = SubSeq(s, Skipped + 1, Skipped + n)
  BY <1>5, CutPlaces
<1>7. n \in Nat /\ (Skipped + n <= Len(s) \/ n = 0)
  BY PlacesBound
<1> HIDE DEF n
<1>8. /\ Cut(s) \in Seq(Table) /\ Len(Cut(s)) = n
      /\ \A i \in 1 .. n : Cut(s)[i] = s[Skipped + i] /\ Skipped + i \in DOMAIN s
  <2>1. \A i \in 1 .. n : Skipped + i \in 1 .. Len(s)
    BY <1>2, <1>7
  <2>2. Len(SubSeq(s, Skipped + 1, Skipped + n)) = n
    BY <1>2, <1>7
  <2>3. SubSeq(s, Skipped + 1, Skipped + n) \in Seq(Table)
    BY <1>2, <1>7, <2>1
  <2>4. \A i \in 1 .. n : SubSeq(s, Skipped + 1, Skipped + n)[i] = s[Skipped + i]
    BY <1>2, <1>7, <2>1
  <2> QED  BY <1>2, <1>6, <2>1, <2>2, <2>3, <2>4
<1>9. Cut(t) = [i \in 1 .. n |-> t[Skipped + i]]
  BY <1>1, <1>2, <1>6, <1>7
<1>10. Columns(Cut(s), columns) = [i \in 1 .. n |-> Restricted(Cut(s)[i], columns)]
  BY <1>7, <1>8 DEF Columns
<1> QED  BY <1>1, <1>8, <1>9, <1>10 DEF t

\* No LIMIT and no OFFSET let everything through.
LEMMA NothingToCut ==
    ASSUME q \in Queries, ~limit_needed, NEW S, NEW s \in Seq(S)
    PROVE  Cut(s) = s
<1>1. Skipped = 0 /\ Count(s) = Len(s) /\ Len(s) \in Nat /\ DOMAIN s = 1 .. Len(s)
  BY CountsTyped DEF limit_needed, Skipped, Count, Given
<1>2. Places(s) = 1 .. Len(s)
  BY <1>1 DEF Places
<1>3. Cardinality(Places(s)) = Len(s)
  <2>1. 1 \in Int /\ Len(s) \in Int
    BY <1>1
  <2>2. Cardinality(1 .. Len(s)) = IF 1 > Len(s) THEN 0 ELSE Len(s) - 1 + 1
    BY <2>1, FS_Interval
  <2> QED  BY <1>1, <1>2, <2>2
<1> QED  BY <1>1, <1>3, CutPlaces

\* A limit that was pushed down cuts as PostgreSQL does.
LEMMA WindowCuts ==
    ASSUME q \in Queries, FinalPlan,
           Extracted(q.limit) \in {Unset, q.limit.v}, Extracted(q.offset) \in {Unset, q.offset.v},
           q.limit.kind = "const" => Extracted(q.limit) = q.limit.v,
           q.offset.kind = "const" => Extracted(q.offset) = q.offset.v,
           NEW S, NEW s \in Seq(S)
    PROVE  Window(s, plan) = Cut(s)
<1>1. /\ Skipped \in Nat /\ Count(s) \in Nat /\ Len(s) \in Nat /\ DOMAIN s = 1 .. Len(s)
      /\ q.limit.v \in Nat /\ q.offset.v \in Nat
  BY CountsTyped DEF Counts
<1>2. /\ ~q.ties /\ q.limit.kind \in {"none", "const"} /\ q.offset.kind \in {"none", "const"}
      /\ plan.limit = Extracted(q.limit) /\ plan.offset = Extracted(q.offset)
  BY DEF FinalPlan, WholePushed
<1>3. Skipped = IF plan.offset >= 0 THEN plan.offset ELSE 0
  BY <1>1, <1>2 DEF Skipped, Given, Extracted, Unset
<1>4. /\ q.limit.kind = "none" => plan.limit = -1 /\ Count(s) = Len(s)
      /\ q.limit.kind = "const" => plan.limit = Count(s)
  BY <1>2 DEF Count, Given, Extracted, Unset
<1>5. Places(s) = (Skipped + 1) .. (IF Skipped + Count(s) < Len(s) THEN Skipped + Count(s) ELSE Len(s))
  BY <1>1, <1>2 DEF Places
<1>6. Cardinality(Places(s)) = IF Skipped >= Len(s) THEN 0
                                ELSE IF Skipped + Count(s) < Len(s) THEN Count(s) ELSE Len(s) - Skipped
  <2> DEFINE last == IF Skipped + Count(s) < Len(s) THEN Skipped + Count(s) ELSE Len(s)
  <2>1. last \in Nat /\ Skipped + 1 \in Nat
    BY <1>1
  <2>2. Places(s) = (Skipped + 1) .. last
    BY <1>5
  <2> HIDE DEF last
  <2>3. Cardinality(Places(s)) = IF Skipped + 1 > last THEN 0 ELSE last - (Skipped + 1) + 1
    BY <2>1, <2>2, FS_Interval
  <2> QED  BY <1>1, <2>3 DEF last
<1>7. Cut(s) = SubSeq(s, Skipped + 1, Skipped + Cardinality(Places(s)))
  BY CutPlaces
<1>8. Window(s, plan) = SubSeq(s, Skipped + 1, IF plan.limit >= 0 /\ Skipped + plan.limit < Len(s)
                                                 THEN Skipped + plan.limit ELSE Len(s))
  BY <1>3 DEF Window
<1>9. CASE Skipped >= Len(s)
  <2>1. Cut(s) = SubSeq(s, Skipped + 1, Skipped) 
    BY <1>1, <1>6, <1>7, <1>9
  <2>2. \A e \in Nat : e <= Skipped => SubSeq(s, Skipped + 1, e) = <<>>
    BY <1>1
  <2>3. Cut(s) = <<>>
    BY <1>1, <2>1, <2>2
  <2>4. Window(s, plan) = SubSeq(s, Skipped + 1, Len(s))
    BY <1>1, <1>2, <1>4, <1>8, <1>9
  <2> QED  BY <1>1, <1>9, <2>2, <2>3, <2>4
<1>10. CASE Skipped < Len(s)
  <2> DEFINE last == IF Skipped + Count(s) < Len(s) THEN Skipped + Count(s) ELSE Len(s)
  <2>1. Skipped + Cardinality(Places(s)) = last
    BY <1>1, <1>6, <1>10
  <2>2. (IF plan.limit >= 0 /\ Skipped + plan.limit < Len(s)
           THEN Skipped + plan.limit ELSE Len(s)) = last
    BY <1>1, <1>2, <1>4
  <2> QED  BY <1>7, <1>8, <2>1, <2>2
<1> QED  BY <1>1, <1>9, <1>10

-----------------------------------------------------------------------------
(* The answer.                                                             *)

\* The invariants together.
ScanInv == IInv /\ PlanningOK /\ ExecOK

\* The invariant of planning and execution together.
THEOREM ScanInvariance == Spec => []ScanInv
<1>1. QueryInit => ScanInv
  BY InitIInv, PlanningInit, ExecInitOK DEF ScanInv
<1>2. ScanInv /\ [Next]_vars => ScanInv'
  BY StepIInv, PlanningStep, ExecStep DEF ScanInv
<1> QED  BY <1>1, <1>2, PTL DEF Spec

\* What a finished scan has read and returned.
LEMMA Finished ==
    ASSUME ScanInv, eof
    PROVE  /\ PlanOK /\ q \in Queries
           /\ \E r \in Seq(Table) :
                 Fetched(r, q, plan, scan) /\ Filtered(out, r, Len(r), q, plan, scan)
  BY DEF ScanInv, IInv, TypeOK, PlanningOK, ExecOK

\* The filter keeps the order.
LEMMA FilteredInOrder ==
    ASSUME NEW r \in Seq(Table), NEW k \in Nat, k <= Len(r), NEW o, NEW x, NEW pl, NEW n,
           Filtered(o, r, k, x, pl, n),
           NEW keys \in Seq(Keys), Atts(keys) \subseteq pl.columns, InOrder(r, keys)
    PROVE  InOrder(o, keys)
<1>1. PICK g \in Seq(1 .. k) :
        /\ Len(o) = Len(g) /\ o \in Seq([Attributes -> Int])
        /\ \A i, j \in 1 .. Len(g) : i < j => g[i] < g[j]
        /\ \A j \in 1 .. Len(g) : o[j] = Restricted(r[g[j]], pl.columns)
  BY DEF Filtered
<1> DEFINE t == Columns(r, pl.columns)
<1>2. DOMAIN t = 1 .. Len(r) /\ \A i \in 1 .. Len(r) : t[i] = Restricted(r[i], pl.columns)
  BY DEF Columns
<1>3. InOrder(t, keys)
  BY ColumnsInOrder
<1> HIDE DEF t
<1>4. DOMAIN o = 1 .. Len(g) /\ \A j \in 1 .. Len(g) : g[j] \in 1 .. Len(r)
  BY <1>1
<1>5. \A j \in DOMAIN o : g[j] \in DOMAIN t /\ o[j] = t[g[j]]
  BY <1>1, <1>2, <1>4
<1>6. \A i, j \in DOMAIN o : i < j => g[i] < g[j]
  BY <1>1, <1>4
<1> QED  BY <1>3, <1>5, <1>6, SomeInOrder

\* What execute returns is sorted by the keys of the plan.
LEMMA FetchedInOrder ==
    ASSUME PlanOK, q \in Queries, NEW r \in Seq(Table), Fetched(r, q, plan, scan)
    PROVE  InOrder(r, SortKeys(plan))
<1>1. PICK S \in SUBSET Table : \E s \in SetToSeqs(S) :
        InOrder(s, SortKeys(plan)) /\ r = Window(s, plan)
  BY DEF Fetched
<1>2. PICK s \in SetToSeqs(S) : InOrder(s, SortKeys(plan)) /\ r = Window(s, plan)
  BY <1>1
<1>3. IsFiniteSet(S)
  BY TableAssumption, FS_Subset
<1>4. s \in Seq(S)
  BY <1>3, SeqsList DEF Lists
<1> QED  BY <1>2, <1>4, PlanTypes, WindowInOrder

\* The rows of a scan are sorted as its path has claimed, in every rescan and
\* for every query: multicornGetForeignPaths claims no more than the wrapper
\* promised, execute is passed all of it, and neither the filter nor the
\* columns left out disturb it.
THEOREM ClaimsHold == Spec => []ClaimsKept
<1>1. ScanInv => ClaimsKept
  <2> SUFFICES ASSUME ScanInv, eof PROVE InOrder(out, plan.claims)
    BY DEF ClaimsKept
  <2>1. PICK r \in Seq(Table) :
            Fetched(r, q, plan, scan) /\ Filtered(out, r, Len(r), q, plan, scan)
    BY Finished
  <2>2. InOrder(r, SortKeys(plan))
    BY <2>1, Finished, FetchedInOrder
  <2>3. CASE BasePlan
    <3>1. plan.claims = SortKeys(plan) /\ plan.claims \in {<<>>, promised}
      BY <2>3 DEF BasePlan, SortKeys
    <3>2. plan.claims \in Seq(Keys) /\ Atts(plan.claims) \subseteq plan.columns
      <4>1. promised \in Seq(Keys) /\ Atts(promised) \subseteq plan.columns
        BY Finished DEF PlanOK, Promise, ColumnsAsked
      <4>2. <<>> \in Seq(Keys) /\ Atts(<<>>) = {}
        BY DEF Atts
      <4> QED  BY <3>1, <4>1, <4>2
    <3> QED  BY <2>1, <2>2, <3>1, <3>2, FilteredInOrder
  <2>4. CASE FinalPlan
    BY <2>4 DEF FinalPlan, InOrder
  <2> QED  BY <2>3, <2>4, Finished DEF PlanOK
<1> QED  BY <1>1, ScanInvariance, PTL

-----------------------------------------------------------------------------

\* The rows that the query wants.
Needed == {row \in Table : Passes(row)}

\* They are finitely many rows of the table.
LEMMA NeededRows ==
    /\ Needed \subseteq Table /\ IsFiniteSet(Needed)
    /\ \A row \in Table : row \in Needed <=> Wants(row, q, plan, scan)
<1>1. Needed \subseteq Table
  BY DEF Needed
<1> QED  BY <1>1, TableAssumption, FS_Subset DEF Needed, Passes, Wants

\* Columns may be dropped in two steps.
LEMMA ColumnsTwice ==
    ASSUME NEW s \in Seq(Table), NEW more, NEW columns, columns \subseteq more
    PROVE  Columns(Columns(s, more), columns) = Columns(s, columns)
<1>1. \A row \in Table : Restricted(Restricted(row, more), columns) = Restricted(row, columns)
  BY TableAssumption DEF Restricted
<1>2. \A i \in DOMAIN s : s[i] \in Table
  OBVIOUS
<1> DEFINE t == Columns(s, more)
<1>3. DOMAIN t = DOMAIN s /\ \A i \in DOMAIN s : t[i] = Restricted(s[i], more)
  BY DEF Columns
<1> HIDE DEF t
<1>4. Columns(t, columns) = [i \in DOMAIN s |-> Restricted(s[i], columns)]
  BY <1>1, <1>2, <1>3 DEF Columns
<1> QED  BY <1>4 DEF t, Columns

\* Without a pushed down limit the scan returns all rows wanted, each once.
LEMMA AllReturned ==
    ASSUME ScanInv, BasePlan,
           NEW r \in Seq(Table), Fetched(r, q, plan, scan), Filtered(out, r, Len(r), q, plan, scan)
    PROVE  \E p : Lists(p, Needed) /\ out = Columns(p, plan.columns)
<1>1. plan.limit = Unset /\ plan.offset = Unset
  BY DEF BasePlan
<1>2. PICK S \in SUBSET Table : \E s \in SetToSeqs(S) :
        /\ \A row \in Table : Wants(row, q, plan, scan) => row \in S
        /\ r = Window(s, plan)
  BY DEF Fetched
<1>3. IsFiniteSet(S)
  BY TableAssumption, FS_Subset
<1>4. PICK s : Lists(s, S) /\ r = Window(s, plan)
  BY <1>2, <1>3, SeqsList
<1>5. r = s
  <2>1. s \in Seq(S)
    BY <1>4 DEF Lists
  <2>2. Window(s, plan) = SubSeq(s, 1, Len(s))
    BY <1>1 DEF Window, Unset
  <2> QED  BY <1>4, <2>1, <2>2
<1>6. PICK g \in Seq(1 .. Len(r)) :
        /\ Len(out) = Len(g) /\ out \in Seq([Attributes -> Int])
        /\ \A i, j \in 1 .. Len(g) : i < j => g[i] < g[j]
        /\ \A i \in 1 .. Len(r) : Wants(r[i], q, plan, scan) <=> \E j \in 1 .. Len(g) : g[j] = i
        /\ \A j \in 1 .. Len(g) : out[j] = Restricted(r[g[j]], plan.columns)
  BY DEF Filtered
<1> DEFINE p == [j \in 1 .. Len(g) |-> r[g[j]]]
<1>7. Len(g) \in Nat /\ Len(r) \in Nat /\ \A j \in 1 .. Len(g) : g[j] \in 1 .. Len(r)
  BY <1>6
<1>8. \A i \in 1 .. Len(r) : r[i] \in Table /\ (r[i] \in Needed <=> Wants(r[i], q, plan, scan))
  BY NeededRows
<1>9. \A j \in 1 .. Len(g) : r[g[j]] \in Needed
  BY <1>6, <1>7, <1>8
<1>10. p \in Seq(Needed) /\ Len(p) = Len(g) /\ \A j \in 1 .. Len(g) : p[j] = r[g[j]]
  BY <1>7, <1>9
<1> HIDE DEF p
<1>11. \A i, j \in 1 .. Len(p) : i # j => p[i] # p[j]
  <2> SUFFICES ASSUME NEW i \in 1 .. Len(g), NEW j \in 1 .. Len(g), i # j PROVE p[i] # p[j]
    BY <1>10
  <2>1. g[i] # g[j]
    BY <1>6, <1>7
  <2>2. \A k, l \in 1 .. Len(r) : k # l => r[k] # r[l]
    BY <1>4, <1>5 DEF Lists
  <2> QED  BY <1>7, <1>10, <2>1, <2>2
<1>12. \A row \in Needed : \E j \in 1 .. Len(p) : p[j] = row
  <2> SUFFICES ASSUME NEW row \in Needed PROVE \E j \in 1 .. Len(g) : p[j] = row
    BY <1>10
  <2>1. row \in S /\ row \in Table /\ Wants(row, q, plan, scan)
    BY <1>2, NeededRows
  <2>2. PICK i \in 1 .. Len(r) : r[i] = row
    BY <1>4, <1>5, <2>1 DEF Lists
  <2>3. PICK j \in 1 .. Len(g) : g[j] = i
    BY <1>6, <2>1, <2>2
  <2> QED  BY <1>10, <2>2, <2>3
<1>13. Lists(p, Needed)
  BY <1>10, <1>11, <1>12 DEF Lists
<1>14. out = Columns(p, plan.columns)
  <2>1. out = [j \in 1 .. Len(g) |-> out[j]]
    BY <1>6
  <2>2. Columns(p, plan.columns) = [j \in 1 .. Len(g) |-> Restricted(p[j], plan.columns)]
    BY <1>7, <1>10 DEF Columns
  <2> QED  BY <1>6, <1>10, <2>1, <2>2
<1> QED  BY <1>13, <1>14

\* LIMIT and OFFSET give a sequence of the same rows.
LEMMA CutTyped ==
    ASSUME q \in Queries, NEW S, NEW s \in Seq(S)
    PROVE  Cut(s) \in Seq(S)
<1>1. Skipped \in Nat
  BY CountsTyped
<1>2. /\ Cardinality(Places(s)) \in Nat
      /\ Skipped + Cardinality(Places(s)) <= Len(s) \/ Cardinality(Places(s)) = 0
  BY PlacesBound
<1> DEFINE n == Cardinality(Places(s))
<1>3. Cut(s) = SubSeq(s, Skipped + 1, Skipped + n)
  BY CutPlaces
<1>4. n \in Nat /\ (Skipped + n <= Len(s) \/ n = 0)
  BY <1>2
<1> HIDE DEF n
<1>5. CASE n = 0
  BY <1>1, <1>3, <1>5
<1>6. CASE n # 0
  BY <1>1, <1>3, <1>4, <1>6
<1> QED  BY <1>5, <1>6

\* A sequence sorted again has the same rows.
LEMMA ListsAgain ==
    ASSUME NEW S, IsFiniteSet(S), NEW p, Lists(p, S), NEW f \in SetToSeqs(DOMAIN p)
    PROVE  Lists([i \in DOMAIN p |-> p[f[i]]], S)
<1> DEFINE t == [i \in DOMAIN p |-> p[f[i]]]
           n == Len(p)
<1>1. n \in Nat /\ DOMAIN p = 1 .. n /\ p \in Seq(S)
  BY DEF Lists
<1>2. IsFiniteSet(1 .. n) /\ Cardinality(1 .. n) = n
  <2> HIDE DEF n
  <2>1. 1 \in Int /\ n \in Int
    BY <1>1
  <2>2. Cardinality(1 .. n) = IF 1 > n THEN 0 ELSE n - 1 + 1
    BY <2>1, FS_Interval
  <2> QED  BY <1>1, <2>1, <2>2, FS_Interval
<1> HIDE DEF n
<1>3. /\ f \in [1 .. n -> 1 .. n] /\ \A i, j \in 1 .. n : i # j => f[i] # f[j]
      /\ \A x \in 1 .. n : \E i \in 1 .. n : f[i] = x
  <2>1. f \in SetToSeqs(1 .. n)
    BY <1>1
  <2>2. f \in [1 .. n -> 1 .. n]
    BY <1>2, <2>1 DEF SetToSeqs
  <2>3. Lists(f, 1 .. n)
    BY <1>2, <2>1, SeqsList
  <2>4. Len(f) = n
    BY <1>1, <2>2
  <2> QED  BY <2>2, <2>3, <2>4 DEF Lists
<1>4. \A i \in 1 .. n : p[i] \in S
  BY <1>1 DEF n
<1>5. t = [i \in 1 .. n |-> p[f[i]]]
  BY <1>1
<1> HIDE DEF t
<1>6. t \in Seq(S) /\ Len(t) = n /\ \A i \in 1 .. n : t[i] = p[f[i]]
  BY <1>1, <1>3, <1>4, <1>5
<1>7. \A i, j \in 1 .. n : i # j => p[i] # p[j]
  BY DEF Lists, n
<1>8. \A i, j \in 1 .. n : i # j => t[i] # t[j]
  <2> SUFFICES ASSUME NEW i \in 1 .. n, NEW j \in 1 .. n, i # j PROVE t[i] # t[j]
    OBVIOUS
  <2>1. f[i] \in 1 .. n /\ f[j] \in 1 .. n /\ f[i] # f[j]
    BY <1>3
  <2> QED  BY <1>6, <1>7, <2>1
<1>9. \A x \in S : \E i \in 1 .. n : p[i] = x
  BY DEF Lists, n
<1>10. \A x \in S : \E i \in 1 .. n : t[i] = x
  <2> SUFFICES ASSUME NEW x \in S PROVE \E i \in 1 .. n : t[i] = x
    OBVIOUS
  <2>1. PICK k \in 1 .. n : p[k] = x
    BY <1>9
  <2>2. PICK i \in 1 .. n : f[i] = k
    BY <1>3
  <2> QED  BY <1>6, <2>1, <2>2
<1>11. Lists(t, S)
  BY <1>6, <1>8, <1>10 DEF Lists
<1> QED  BY <1>11 DEF t

\* All rows wanted, sorted and limited, are an answer to a plain query.
LEMMA LegalPlain ==
    ASSUME q.shape = "plain", NEW s, Lists(s, Needed), InOrder(s, q.order)
    PROVE  Columns(Cut(s), reltarget) \in LegalAnswers
<1>1. s \in Arrangements(Needed, q.order)
  BY NeededRows, SeqsList DEF Arrangements
<1> QED  BY <1>1 DEF LegalAnswers, Needed

\* The wrapper returned all rows: PostgreSQL sorts and limits them as far as
\* the claims leave that to do.
LEMMA RightBase ==
    ASSUME ScanInv, eof, BasePlan,
           NEW r \in Seq(Table), Fetched(r, q, plan, scan), Filtered(out, r, Len(r), q, plan, scan)
    PROVE  Answers \subseteq LegalAnswers
<1>0. /\ PlanOK /\ q \in Queries /\ reltarget \subseteq plan.columns
      /\ Atts(q.order) \subseteq reltarget /\ q.order \in Seq(Keys)
  BY Finished, WantedKeys DEF PlanOK, ColumnsAsked, reltarget
<1>1. PICK p : Lists(p, Needed) /\ out = Columns(p, plan.columns)
  BY AllReturned
<1>2. \A s : Lists(s, Needed) => s \in Seq(Table)
  <2>1. \A s \in Seq(Needed) : s \in Seq(Table)
    BY NeededRows
  <2> QED  BY <2>1 DEF Lists
<1>3. CASE q.shape # "plain"
  <2>1. Answers = {Columns(out, reltarget)}
    BY <1>3, Zenon DEF Answers
  <2>2. Columns(out, reltarget) = Columns(p, reltarget)
    BY <1>0, <1>1, <1>2, ColumnsTwice
  <2>3. InOrder(p, <<>>)
    BY DEF InOrder
  <2>4. p \in Arrangements(Needed, <<>>)
    BY <1>1, <2>3, NeededRows, SeqsList DEF Arrangements
  <2>5. LegalAnswers = {Columns(s, reltarget) : s \in Arrangements(Needed, <<>>)}
    BY <1>3, Zenon DEF LegalAnswers, Needed
  <2> QED  BY <2>1, <2>2, <2>4, <2>5
<1>4. CASE q.shape = "plain"
  <2> SUFFICES ASSUME NEW a \in Answers PROVE a \in LegalAnswers
    OBVIOUS
  <2>1. PICK s \in IF plan.sorts THEN Resorted(out, q.order) ELSE {out} :
            a = Columns(IF plan.limits THEN Cut(s) ELSE s, reltarget)
    BY <1>4, Zenon DEF Answers
  <2>2. PICK t : Lists(t, Needed) /\ s = Columns(t, plan.columns) /\ InOrder(s, q.order)
    <3>1. CASE plan.sorts
      <4>1. s \in Resorted(out, q.order)
        BY <2>1, <3>1
      <4>2. PICK f \in SetToSeqs(DOMAIN out) :
                s = [i \in DOMAIN out |-> out[f[i]]] /\ InOrder(s, q.order)
        BY <4>1 DEF Resorted
      <4> DEFINE t == [i \in DOMAIN p |-> p[f[i]]]
      <4>3. DOMAIN out = DOMAIN p /\ \A i \in DOMAIN p : out[i] = Restricted(p[i], plan.columns)
        BY <1>1 DEF Columns
      <4>4. Lists(t, Needed)
        BY <1>1, <4>2, <4>3, NeededRows, ListsAgain
      <4>5. \A i \in DOMAIN p : f[i] \in DOMAIN p
        <5>1. DOMAIN p = 1 .. Len(p) /\ Len(p) \in Nat
          BY <1>1 DEF Lists
        <5>2. IsFiniteSet(DOMAIN p) /\ Cardinality(DOMAIN p) = Len(p)
          <6>1. 1 \in Int /\ Len(p) \in Int
            BY <5>1
          <6>2. IsFiniteSet(1 .. Len(p)) /\ Cardinality(1 .. Len(p)) = IF 1 > Len(p) THEN 0 ELSE Len(p) - 1 + 1
            BY <6>1, FS_Interval
          <6> QED  BY <5>1, <6>2
        <5> QED  BY <4>2, <4>3, <5>1, <5>2 DEF SetToSeqs
      <4>6. DOMAIN t = DOMAIN p /\ \A i \in DOMAIN p : t[i] = p[f[i]]
        OBVIOUS
      <4> HIDE DEF t
      <4>7. Columns(t, plan.columns) = [i \in DOMAIN p |-> out[f[i]]]
        BY <4>3, <4>5, <4>6 DEF Columns
      <4> QED  BY <4>2, <4>3, <4>4, <4>7
    <3>2. CASE ~plan.sorts
      <4>1. s = out
        BY <2>1, <3>2
      <4>2. IsPrefix(q.order, plan.claims) /\ plan.claims = SortKeys(plan)
        BY <3>2 DEF BasePlan, SortKeys
      <4>3. plan.claims \in Seq(Keys) /\ Atts(plan.claims) \subseteq plan.columns
        <5>1. promised \in Seq(Keys) /\ Atts(promised) \subseteq plan.columns
          BY <1>0 DEF PlanOK, Promise
        <5>2. <<>> \in Seq(Keys) /\ Atts(<<>>) = {}
          BY DEF Atts
        <5>3. plan.claims \in {<<>>, promised}
          BY DEF BasePlan
        <5> QED  BY <5>1, <5>2, <5>3
      <4>4. InOrder(out, plan.claims)
        <5>1. Len(r) \in Nat /\ Len(r) <= Len(r)
          OBVIOUS
        <5> QED  BY <1>0, <4>2, <4>3, <5>1, FetchedInOrder, FilteredInOrder
      <4> QED  BY <1>0, <1>1, <4>1, <4>2, <4>3, <4>4, PrefixInOrder
    <3> QED  BY <3>1, <3>2
  <2>3. t \in Seq(Table) /\ Atts(q.order) \subseteq plan.columns
    BY <1>0, <1>2, <2>2
  <2>4. InOrder(t, q.order)
    BY <1>0, <2>2, <2>3, ColumnsInOrder
  <2>5. Cut(t) \in Seq(Table)
    BY <1>0, <2>3, CutTyped
  <2>6. a = Columns(Cut(t), reltarget)
    <3>1. CASE plan.limits
      <4>1. a = Columns(Cut(s), reltarget)
        BY <2>1, <3>1
      <4>2. Cut(s) = Columns(Cut(t), plan.columns)
        BY <1>0, <2>2, <2>3, ColumnsCut
      <4> QED  BY <1>0, <2>5, <4>1, <4>2, ColumnsTwice
    <3>2. CASE ~plan.limits
      <4>1. a = Columns(s, reltarget) /\ ~limit_needed
        BY <2>1, <3>2 DEF BasePlan
      <4>2. Cut(t) = t
        BY <1>0, <2>3, <4>1, NothingToCut
      <4> QED  BY <1>0, <2>2, <2>3, <4>1, <4>2, ColumnsTwice
    <3> QED  BY <3>1, <3>2
  <2> QED  BY <1>4, <2>2, <2>4, <2>6, LegalPlain
<1> QED  BY <1>3, <1>4

\* A filter that every row passes leaves all of them.
LEMMA NothingFiltered ==
    ASSUME NEW r \in Seq(Table), NEW o, NEW x, NEW pl, NEW n, Filtered(o, r, Len(r), x, pl, n),
           \A row \in Table : Wants(row, x, pl, n)
    PROVE  o = Columns(r, pl.columns)
<1>1. PICK g \in Seq(1 .. Len(r)) :
        /\ Len(o) = Len(g) /\ o \in Seq([Attributes -> Int])
        /\ \A i, j \in 1 .. Len(g) : i < j => g[i] < g[j]
        /\ \A i \in 1 .. Len(r) : Wants(r[i], x, pl, n) <=> \E j \in 1 .. Len(g) : g[j] = i
        /\ \A j \in 1 .. Len(g) : o[j] = Restricted(r[g[j]], pl.columns)
  BY DEF Filtered
<1>2. Len(g) \in Nat /\ Len(r) \in Nat /\ \A j \in 1 .. Len(g) : g[j] \in 1 .. Len(r)
  BY <1>1
<1>3. \A i \in 1 .. Len(r) : \E j \in 1 .. Len(g) : g[j] = i
  BY <1>1
\* The places increase and leave none out: the first that is not its own
\* number would have left that out.
<1>4. \A j \in 1 .. Len(g) : g[j] = j
  <2> DEFINE T == {j \in 1 .. Len(g) : g[j] # j}
  <2> SUFFICES ASSUME T # {} PROVE FALSE
    OBVIOUS
  <2>1. T \in SUBSET Nat
    BY <1>2
  <2>2. PICK m \in T : \A j \in T : m <= j
    BY <2>1, LeastOf
  <2>3. m \in 1 .. Len(g) /\ g[m] # m /\ g[m] \in 1 .. Len(r)
    BY <1>2, <2>2
  <2>4. \A j \in 1 .. Len(g) : j < m => g[j] = j
    BY <1>2, <2>2, <2>3
  <2>5. g[m] > m
    <3>1. CASE g[m] < m
      <4>1. g[m] \in 1 .. Len(g)
        BY <1>2, <2>3, <3>1
      <4>2. g[g[m]] = g[m] /\ g[g[m]] < g[m]
        BY <1>1, <2>3, <2>4, <3>1, <4>1
      <4> QED  BY <1>2, <2>3, <4>2
    <3> QED  BY <1>2, <2>3, <3>1
  <2>6. m \in 1 .. Len(r)
    BY <1>2, <2>3, <2>5
  <2>7. PICK j \in 1 .. Len(g) : g[j] = m
    BY <1>3, <2>6
  <2>8. j < m \/ j = m \/ m < j
    BY <1>2, <2>3
  <2>9. ~(m < j)
    BY <1>1, <1>2, <2>3, <2>5, <2>7
  <2> QED  BY <1>2, <2>3, <2>4, <2>7, <2>8, <2>9
<1>5. Len(g) = Len(r)
  <2>1. Len(g) <= Len(r)
    <3>1. CASE Len(g) = 0
      BY <1>2, <3>1
    <3>2. CASE Len(g) # 0
      <4>1. Len(g) \in 1 .. Len(g)
        BY <1>2, <3>2
      <4> QED  BY <1>2, <1>4, <4>1
    <3> QED  BY <3>1, <3>2
  <2>2. Len(r) <= Len(g)
    <3>1. CASE Len(r) = 0
      BY <1>2, <3>1
    <3>2. CASE Len(r) # 0
      <4>0. Len(r) \in 1 .. Len(r)
        BY <1>2, <3>2
      <4>1. PICK j \in 1 .. Len(g) : g[j] = Len(r)
        BY <1>3, <4>0
      <4> QED  BY <1>2, <1>4, <4>1
    <3> QED  BY <3>1, <3>2
  <2> QED  BY <1>2, <2>1, <2>2
<1>6. o = [j \in 1 .. Len(r) |-> o[j]] /\ Columns(r, pl.columns) = [j \in 1 .. Len(r) |-> Restricted(r[j], pl.columns)]
  <2>1. o = [j \in 1 .. Len(o) |-> o[j]]
    BY <1>1
  <2> QED  BY <1>1, <1>5, <2>1 DEF Columns
<1>7. \A j \in 1 .. Len(r) : o[j] = Restricted(r[j], pl.columns)
  BY <1>1, <1>4, <1>5
<1> QED  BY <1>6, <1>7

\* The wrapper sorted and limited: there is nothing to filter, and what it
\* returned is the answer.
LEMMA RightFinal ==
    ASSUME ScanInv, eof, FinalPlan, q.where # "view",
           q.limit.kind = "const" => Extracted(q.limit) = q.limit.v,
           q.offset.kind = "const" => Extracted(q.offset) = q.offset.v,
           NEW r \in Seq(Table), Fetched(r, q, plan, scan), Filtered(out, r, Len(r), q, plan, scan)
    PROVE  Answers \subseteq LegalAnswers
<1>0. /\ PlanOK /\ q \in Queries /\ reltarget \subseteq plan.columns /\ q.order \in Seq(Keys)
      /\ promised \in Seq(Keys)
  BY Finished, WantedKeys DEF PlanOK, ColumnsAsked, Promise
<1>1. q.shape = "plain" /\ ~plan.param /\ ~plan.sorts /\ ~plan.limits /\ q.where = "none"
  <2>1. q.where \in {"none", "top", "view"}
    BY <1>0, QueriesAssumption
  <2> QED  BY <2>1 DEF FinalPlan, WholePushed
<1>2. \A row \in Table : Wants(row, q, plan, scan)
  BY <1>1 DEF Wants
<1>3. Needed = Table
  BY <1>2, NeededRows
<1>4. PICK S \in SUBSET Table : \E s \in SetToSeqs(S) :
        /\ \A row \in Table : Wants(row, q, plan, scan) => row \in S
        /\ InOrder(s, SortKeys(plan))
        /\ r = Window(s, plan)
  BY DEF Fetched
<1>5. S = Needed
  BY <1>2, <1>3, <1>4
<1>6. PICK s : Lists(s, Needed) /\ InOrder(s, SortKeys(plan)) /\ r = Window(s, plan)
  BY <1>4, <1>5, NeededRows, SeqsList
<1>7. SortKeys(plan) = promised
  BY DEF FinalPlan, SortKeys
<1>8. InOrder(s, q.order)
  <2>1. IsPrefix(q.order, promised) \/ q.order = <<>>
    BY DEF FinalPlan, WholePushed
  <2>2. InOrder(s, <<>>)
    BY DEF InOrder
  <2> QED  BY <1>0, <1>6, <1>7, <2>1, <2>2, PrefixInOrder
<1>9. s \in Seq(Needed)
  BY <1>6 DEF Lists
<1>10. r = Cut(s)
  <2>1. q.limit.kind \in {"none", "const"} /\ q.offset.kind \in {"none", "const"}
    BY DEF FinalPlan, WholePushed
  <2>2. Extracted(q.limit) \in {Unset, q.limit.v} /\ Extracted(q.offset) \in {Unset, q.offset.v}
    BY <2>1 DEF Extracted
  <2> QED  BY <1>0, <1>6, <1>9, <2>2, WindowCuts
<1>11. out = Columns(r, plan.columns)
  BY <1>2, NothingFiltered
<1>12. Answers = {Columns(out, reltarget)}
  <2>1. Answers = {Columns(IF plan.limits THEN Cut(t) ELSE t, reltarget) :
                     t \in IF plan.sorts THEN Resorted(out, q.order) ELSE {out}}
    BY <1>1, Zenon DEF Answers
  <2> QED  BY <1>1, <2>1
<1>13. Columns(out, reltarget) = Columns(Cut(s), reltarget)
  BY <1>0, <1>10, <1>11, ColumnsTwice
<1> QED  BY <1>1, <1>6, <1>8, <1>12, <1>13, LegalPlain

\* No WHERE clause of a view, and no limit that DatumGetInt32 changes.
Covered == \A x \in Queries :
    /\ x.where # "view"
    /\ DatumGetInt32(x.limit.v) = x.limit.v /\ DatumGetInt32(x.offset.v) = x.offset.v

\* However the filter, the sort and the limit of a query are divided between
\* the wrapper and PostgreSQL by get_path_keys, can_sort and can_limit, and
\* whatever else the wrapper returns, a scan that was read to its end gives an
\* answer that the query may have.
THEOREM AnswersRight ==
    ASSUME Covered
    PROVE  Spec => []RightAnswer
<1>1. ScanInv => RightAnswer
  <2> SUFFICES ASSUME ScanInv, eof PROVE Answers \subseteq LegalAnswers
    BY DEF RightAnswer
  <2>1. PICK r \in Seq(Table) :
            Fetched(r, q, plan, scan) /\ Filtered(out, r, Len(r), q, plan, scan)
    BY Finished
  <2>2. /\ q.where # "view"
        /\ q.limit.kind = "const" => Extracted(q.limit) = q.limit.v
        /\ q.offset.kind = "const" => Extracted(q.offset) = q.offset.v
    BY Finished DEF Covered, Extracted
  <2>3. BasePlan \/ FinalPlan
    BY Finished DEF PlanOK
  <2> QED  BY <2>1, <2>2, <2>3, RightBase, RightFinal
<1> QED  BY <1>1, ScanInvariance, PTL
=============================================================================
