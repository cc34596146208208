------------------------------ MODULE MCQuals -------------------------------
(* Values, operators and clauses for the run of Quals.                       *)
EXTENDS Quals

MCOps == {"=", "<>", "<", ">", "~"}
MCHolds == [op \in MCOps |-> {p \in {0, 1} \X {0, 1} :
              CASE op = "="  -> p[1] = p[2]
                [] op = "<>" -> p[1] # p[2]
                [] op = "<"  -> p[1] < p[2]
                [] op = ">"  -> p[1] > p[2]
                [] op = "~"  -> p[1] <= p[2]}]
MCCommutator == [op \in MCOps |-> CASE op = "<" -> ">" [] op = ">" -> "<"
                                    [] op = "~" -> "" [] OTHER -> op]
MCConverted(v) == CASE v = 0 -> 1 [] v = 1 -> 0 [] OTHER -> v

\* A whole row has number 0.  A column of another table is a parameter by the
\* time the scan begins.
Columns == {[tag |-> "Var", base |-> TRUE, att |-> n, val |-> 0, volatile |-> FALSE,
             cast |-> c] : n \in Atts \union {0}, c \in {"no", "relabel"}}
Booleans == {e \in Columns : e.att # 0}
Rests == {[tag |-> t, base |-> s, att |-> 0, val |-> v, volatile |-> u, cast |-> c] :
             t \in {"Param", "Func"}, s \in BOOLEAN, v \in {2}, u \in BOOLEAN, c \in {"no", "relabel"}}
Constants == {Constant(v) : v \in MaybeNull}
Others == {[tag |-> "Var", base |-> FALSE, att |-> 1, val |-> 2, volatile |-> FALSE, cast |-> "no"]}
Operands == Columns \union Constants \union Others \union
    {e \in Rests : e.tag = "Param" => ~e.base /\ ~e.volatile}

MCClauses ==
    [tag : {"OpExpr"}, kind : {""}, op : MCOps, l : Operands, r : Operands]
    \union [tag : {"ScalarArrayOpExpr"}, kind : {"ANY", "ALL"}, op : {"=", "<>", "~"},
            l : Columns, r : {e \in Operands : e.tag # "Var" /\ e.val = 2}]
    \union [tag : {"NullTest"}, kind : {"IS_NULL", "IS_NOT_NULL"}, op : {""},
            l : Columns, r : {Constant(2)}]
    \union [tag : {"BooleanTest"}, kind : {"IS_TRUE", "IS_FALSE", "IS_NOT_TRUE",
              "IS_NOT_FALSE", "IS_UNKNOWN", "IS_NOT_UNKNOWN"}, op : {""},
            l : Columns, r : {Constant(2)}]
    \union [tag : {"Var"}, kind : {""}, op : {""},
            l : {e \in Booleans : e.cast = "no"}, r : {Constant(2)}]
    \union [tag : {"BoolExpr"}, kind : {"NOT", "AND", "OR"}, op : {""},
            l : Booleans, r : {Constant(2)}]
=============================================================================
