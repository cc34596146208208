----------------------------- MODULE MCScanExec -----------------------------
(* Queries, path keys and rows for the runs of ScanExec.                     *)
EXTENDS ScanExec

A == [att |-> "a", how |-> "asc", var |-> TRUE]
B == [att |-> "b", how |-> "desc", var |-> TRUE]
E == [att |-> "a", how |-> "desc", var |-> FALSE]     \* an expression

MCAttributes == {"a", "b"}
MCTable == {[a |-> 0, b |-> 0], [a |-> 0, b |-> 1], [a |-> 1, b |-> 0]}
MCOuter == <<0, 1>>
MCGroupKeys == <<B>>

No == [kind |-> "none", v |-> 0]
Const(n) == [kind |-> "const", v |-> n]
Null == [kind |-> "null", v |-> 0]
Expr(n) == [kind |-> "expr", v |-> n]

QuerySet(wheres, limits, offsets) ==
    {x \in [shape : {"plain", "group", "join"}, where : wheres,
            order : {<<>>, <<A>>, <<A, B>>, <<B, A>>, <<A, E>>},
            limit : limits, offset : offsets, ties : BOOLEAN] :
       x.ties => x.order # <<>> /\ x.limit.kind # "none"}

MCQueries == QuerySet({"none", "top"}, {No, Null, Const(0), Const(1), Const(2), Expr(1)},
                      {No, Null, Const(0), Const(1), Expr(1)})
MCViewQueries == QuerySet({"view"}, {Const(1)}, {No})
=============================================================================
