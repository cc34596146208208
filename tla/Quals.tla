------------------------------- MODULE Quals --------------------------------
(***************************************************************************)
(* From a restriction clause to the qualifiers that the Python wrapper is  *)
(* given: extractRestrictions when the scan begins, and in execute the     *)
(* evaluation of what is not a constant, again at every rescan.            *)
(*                                                                         *)
(* An expression is a record                                               *)
(*   tag      "Var", "Const", "Param" (also SQLValueFunction) or "Func",   *)
(*            any other expression                                         *)
(*   base     it is, or contains, a column of the scanned table            *)
(*   att      the number of a Var; less than 1 is not a column             *)
(*   val      the value of a Const                                         *)
(*   volatile it contains a volatile function                              *)
(*   cast     "no", "relabel" (binary compatible) or "convert" (an         *)
(*            ArrayCoerceExpr that changes the elements)                   *)
(* and a clause is [tag, kind, op, l, r]; clauses of one operand use l.    *)
(***************************************************************************)
EXTENDS Integers

CONSTANTS
    Atts,         \* the columns: positive numbers
    Vals,         \* values of columns and expressions
    Null,         \* the null value
    True, False,  \* the Boolean values
    Ops,          \* names of binary operators
    Holds,        \* Holds[op]: the pairs of values for which op is true
    Commutator,   \* Commutator[op], or "" if there is none
    Converted(_), \* what a converting cast makes of a value
    Clauses       \* the restriction clauses

ASSUME ValsAssumption ==
    /\ Null \notin Vals
    /\ True \in Vals /\ False \in Vals /\ True # False

ASSUME OpsAssumption ==
    /\ {"=", "<>"} \subseteq Ops
    /\ {"", "IS", "IS NOT"} \intersect Ops = {}
    /\ Commutator \in [Ops -> Ops \union {""}]
    /\ \A x, y \in Vals : (<<x, y>> \in Holds["="]) <=> (x = y)
    /\ \A x, y \in Vals : (<<x, y>> \in Holds["<>"]) <=> (x # y)
    /\ \A op \in Ops : Commutator[op] # "" =>
         \A x, y \in Vals :
           (<<x, y>> \in Holds[op]) <=> (<<y, x>> \in Holds[Commutator[op]])

MaybeNull == Vals \union {Null}

Exprs == [tag : {"Var", "Const", "Param", "Func"}, base : BOOLEAN, att : Int,
          val : MaybeNull, volatile : BOOLEAN, cast : {"no", "relabel", "convert"}]

BooleanTests == {"IS_TRUE", "IS_FALSE", "IS_NOT_TRUE", "IS_NOT_FALSE",
                 "IS_UNKNOWN", "IS_NOT_UNKNOWN"}

\* The clauses PostgreSQL gives a scan: a positive number of a column of the
\* scanned table is one of Atts, constants contain no column, a clause on a
\* single column is about this table, and what is used as a Boolean is a
\* column and not a whole row.
WellFormed(c) ==
    /\ c.l \in Exprs /\ c.r \in Exprs
    /\ \A e \in {c.l, c.r} :
         /\ e.tag = "Var" /\ e.base /\ e.att >= 1 => e.att \in Atts
         /\ e.tag = "Var" => ~e.volatile
         /\ e.tag \in {"Const", "Param"} => ~e.base /\ ~e.volatile
    /\ \/ c.tag = "OpExpr" /\ c.op \in Ops
       \/ c.tag = "ScalarArrayOpExpr" /\ c.op \in Ops /\ c.kind \in {"ANY", "ALL"}
       \/ c.tag = "NullTest" /\ c.kind \in {"IS_NULL", "IS_NOT_NULL"} /\ c.l.base
       \/ c.tag = "BooleanTest" /\ c.kind \in BooleanTests /\ c.l.base
       \/ c.tag = "Var" /\ c.l.tag = "Var" /\ c.l.base /\ c.l.att \in Atts
       \/ c.tag = "BoolExpr" /\ (c.kind = "NOT" /\ c.l.tag = "Var" => c.l.att \in Atts)

ASSUME ClausesAssumption == Atts \subseteq Int /\ \A c \in Clauses : WellFormed(c)

VARIABLES
    clause,       \* the clause of this scan
    quals,        \* the qualifiers extracted from it (at most one)
    env,          \* values that do not depend on the row: of a parameter, of
                  \* a stable expression and of an array
    sent,         \* the qualifiers execute was called with
    pc

vars == <<clause, quals, env, sent, pc>>

Rows == [Atts -> MaybeNull]
Envs == [param : MaybeNull, func : MaybeNull, array : SUBSET MaybeNull]

-----------------------------------------------------------------------------
(* PostgreSQL: when is a clause true?  now gives the value that a volatile *)
(* expression, or one that depends on the row, has when it is evaluated.   *)

Value(e, row, now) ==
    LET plain == CASE e.tag = "Var"   -> IF e.base /\ e.att \in Atts THEN row[e.att] ELSE now
                   [] e.tag = "Const" -> e.val
                   [] e.tag = "Param" -> env.param
                   [] OTHER           -> IF e.volatile \/ e.base THEN now ELSE env.func
    IN  IF e.cast = "convert" THEN Converted(plain) ELSE plain

Related(op, x, y) == x # Null /\ y # Null /\ <<x, y>> \in Holds[op]

IsTrue(c, row, now) ==
    CASE c.tag = "OpExpr" ->
           Related(c.op, Value(c.l, row, now), Value(c.r, row, now))
      [] c.tag = "ScalarArrayOpExpr" /\ c.kind = "ANY" ->
           \E y \in env.array : Related(c.op, Value(c.l, row, now),
                                        IF c.r.cast = "convert" THEN Converted(y) ELSE y)
      [] c.tag = "ScalarArrayOpExpr" /\ c.kind = "ALL" ->
           \A y \in env.array : Related(c.op, Value(c.l, row, now),
                                        IF c.r.cast = "convert" THEN Converted(y) ELSE y)
      [] c.tag = "NullTest" ->
           (Value(c.l, row, now) = Null) <=> (c.kind = "IS_NULL")
      [] c.tag = "BooleanTest" ->
           LET x == Value(c.l, row, now)
           IN (CASE c.kind = "IS_TRUE"        -> x = True
                 [] c.kind = "IS_FALSE"       -> x = False
                 [] c.kind = "IS_NOT_TRUE"    -> x # True
                 [] c.kind = "IS_NOT_FALSE"   -> x # False
                 [] c.kind = "IS_UNKNOWN"     -> x = Null
                 [] c.kind = "IS_NOT_UNKNOWN" -> x # Null)
      [] c.tag = "Var" -> Value(c.l, row, now) = True
      [] c.tag = "BoolExpr" /\ c.kind = "NOT" -> Value(c.l, row, now) = False
      [] OTHER -> TRUE

-----------------------------------------------------------------------------
(* query.c                                                                 *)

unnestClause(e) == [e EXCEPT !.cast = "no"]

IsVar(e) == e.tag = "Var" /\ e.cast = "no"

\* Mutant: the operands are swapped and the operator is not.
SwapKeepsOperator(op, l, r) ==
    IF /\ IsVar(r) /\ (~IsVar(l) \/ (~l.base /\ r.base))
       /\ Commutator[op] # ""
      THEN [op |-> op, l |-> r, r |-> l]
      ELSE [op |-> op, l |-> l, r |-> r]

\* A column on the right comes to the left, if the operator commutes.
swapOperandsAsNeeded(op, l, r) ==
    IF /\ IsVar(r) /\ (~IsVar(l) \/ (~l.base /\ r.base))
       /\ Commutator[op] # ""
      THEN [op |-> Commutator[op], l |-> r, r |-> l]
      ELSE [op |-> op, l |-> l, r |-> r]

\* The two canonical forms; array operators are not commuted.
canonical(c) ==
    IF c.tag = "OpExpr"
      THEN swapOperandsAsNeeded(c.op, unnestClause(c.l), unnestClause(c.r))
      ELSE [op |-> c.op, l |-> unnestClause(c.l), r |-> unnestClause(c.r)]

makeQual(att, opname, right, kind) ==
    [att |-> att, op |-> opname, right |-> right, kind |-> kind]

Constant(v) == [tag |-> "Const", base |-> FALSE, att |-> 0, val |-> v,
                volatile |-> FALSE, cast |-> "no"]

\* A column of this table compared with what is neither volatile nor
\* depends on the same table.
FromOperator(c) ==
    LET k == canonical(c)
    IN  IF IsVar(k.l) /\ k.l.base /\ k.l.att >= 1 /\ ~k.r.volatile /\ ~k.r.base
          THEN {makeQual(k.l.att, k.op, k.r,
                         IF c.tag = "OpExpr" THEN "scalar" ELSE c.kind)}
          ELSE {}

\* Mutant: the test of a whole row is taken for that of a column.
NullTestOfAnything(c) ==
    IF IsVar(c.l)
      THEN {makeQual(c.l.att, IF c.kind = "IS_NULL" THEN "=" ELSE "<>",
                     Constant(Null), "scalar")}
      ELSE {}

extractClauseFromNullTest(c) ==
    IF IsVar(c.l) /\ c.l.att >= 1
      THEN {makeQual(c.l.att, IF c.kind = "IS_NULL" THEN "=" ELSE "<>",
                     Constant(Null), "scalar")}
      ELSE {}

extractClauseFromBooleanTest(c) ==
    IF IsVar(c.l) /\ c.l.att >= 1
      THEN {makeQual(c.l.att,
              IF c.kind \in {"IS_TRUE", "IS_FALSE", "IS_UNKNOWN"} THEN "IS" ELSE "IS NOT",
              Constant(CASE c.kind \in {"IS_TRUE", "IS_NOT_TRUE"}   -> True
                         [] c.kind \in {"IS_FALSE", "IS_NOT_FALSE"} -> False
                         [] OTHER                                   -> Null),
              "scalar")}
      ELSE {}

extractClauseFromVar(c) ==
    IF c.l.base THEN {makeQual(c.l.att, "=", Constant(True), "scalar")} ELSE {}

\* NOT of a column; AND, OR and NOT of anything else are left out.
extractClauseFromBoolExpr(c) ==
    IF c.l.base /\ c.kind = "NOT" /\ IsVar(c.l)
      THEN {makeQual(c.l.att, "<>", Constant(True), "scalar")}
      ELSE {}

extractRestrictions(c) ==
    CASE c.tag \in {"OpExpr", "ScalarArrayOpExpr"} -> FromOperator(c)
      [] c.tag = "NullTest"    -> extractClauseFromNullTest(c)
      [] c.tag = "BooleanTest" -> extractClauseFromBooleanTest(c)
      [] c.tag = "Var"         -> extractClauseFromVar(c)
      [] c.tag = "BoolExpr"    -> extractClauseFromBoolExpr(c)
      [] OTHER                 -> {}

\* execute: a qualifier whose right side is a column is not passed on, any
\* other expression is evaluated now.  Null becomes None.
qualdefToPython(S) ==
    {[att |-> k.att, op |-> k.op, kind |-> k.kind,
      value |-> CASE k.right.tag = "Const" -> k.right.val
                  [] k.right.tag = "Param" -> env.param
                  [] OTHER                 -> env.func,
      array |-> IF k.kind = "scalar" THEN {} ELSE env.array] :
       k \in {j \in S : j.right.tag # "Var"}}

-----------------------------------------------------------------------------

Init ==
    /\ clause \in Clauses
    /\ env \in Envs
    /\ quals = {}
    /\ sent = {}
    /\ pc = "begin"

BeginForeignScan ==
    /\ pc = "begin"
    /\ quals' = extractRestrictions(clause)
    /\ pc' = "scan"
    /\ UNCHANGED <<clause, env, sent>>

execute ==
    /\ pc = "scan"
    /\ sent' = qualdefToPython(quals)
    /\ pc' = "rows"
    /\ UNCHANGED <<clause, quals, env>>

\* The next outer row brings new values; the iterator is dropped.
ReScanForeignScan ==
    /\ pc = "rows"
    /\ env' \in Envs
    /\ pc' = "scan"
    /\ UNCHANGED <<clause, quals, sent>>

Next == BeginForeignScan \/ execute \/ ReScanForeignScan

Spec == Init /\ [][Next]_vars

-----------------------------------------------------------------------------
(* A wrapper that takes its qualifiers at their word, and strictly: it     *)
(* keeps a row only if every one of them is true, and knows null only as   *)
(* "= None", "<> None", "IS" and "IS NOT".                                 *)

Keeps(p, row) ==
    LET x == row[p.att]
    IN  /\ p.kind = "ANY" => \E y \in p.array : Related(p.op, x, y)
        /\ p.kind = "ALL" => \A y \in p.array : Related(p.op, x, y)
        /\ p.kind = "scalar" =>
             IF p.op = "IS" \/ (p.op = "=" /\ p.value = Null) THEN x = p.value
             ELSE IF p.op = "IS NOT" \/ (p.op = "<>" /\ p.value = Null) THEN x # p.value
             ELSE Related(p.op, x, p.value)

\* The wrapper may drop the rows that its qualifiers exclude: PostgreSQL would
\* have dropped each of them too, with the values of this (re)scan.
NothingLost ==
    pc = "rows" =>
      \A row \in Rows, now \in MaybeNull :
        IsTrue(clause, row, now) => \A p \in sent : Keeps(p, row)

\* Each qualifier is about a column of the table: qualdefToPython takes the
\* column's number, less one, for an index.
QualsOnColumns == \A k \in quals : k.att \in Atts
=============================================================================
