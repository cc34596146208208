---------------------------- MODULE QualsProofs -----------------------------
(***************************************************************************)
(* Proofs about Quals: for any set of values, any operators with the       *)
(* commutators they claim and any clauses without a converting cast, a     *)
(* wrapper that applies its qualifiers loses no row of the answer.         *)
(***************************************************************************)
EXTENDS Quals, TLAPS

NoConversion == \A c \in Clauses : c.l.cast # "convert" /\ c.r.cast # "convert"

\* The qualifiers are those of the clause, and the ones sent were evaluated
\* with the values of this scan.
InStep ==
    /\ clause \in Clauses
    /\ env \in Envs
    /\ pc \in {"begin", "scan", "rows"}
    /\ quals = IF pc = "begin" THEN {} ELSE extractRestrictions(clause)
    /\ pc = "rows" => sent = qualdefToPython(quals)

-----------------------------------------------------------------------------

\* Casts apart, extraction and evaluation look at the same expression: the
\* value of an operand does not change when unnestClause strips a relabelling.
LEMMA UnnestValue ==
    ASSUME NEW e \in Exprs, e.cast # "convert", NEW row, NEW now
    PROVE  /\ Value(unnestClause(e), row, now) = Value(e, row, now)
           /\ unnestClause(e) \in Exprs
           /\ unnestClause(e).tag = e.tag /\ unnestClause(e).base = e.base
           /\ unnestClause(e).att = e.att /\ unnestClause(e).val = e.val
           /\ unnestClause(e).volatile = e.volatile
           /\ unnestClause(e).cast = "no"
  <1>1. /\ unnestClause(e) \in Exprs
        /\ unnestClause(e).tag = e.tag /\ unnestClause(e).base = e.base
        /\ unnestClause(e).att = e.att /\ unnestClause(e).val = e.val
        /\ unnestClause(e).volatile = e.volatile
        /\ unnestClause(e).cast = "no"
    BY DEF unnestClause, Exprs
  <1> QED  BY <1>1 DEF Value

\* The values that occur are values.
LEMMA ValueType ==
    ASSUME NEW e \in Exprs, e.cast # "convert", env \in Envs,
           NEW row \in Rows, NEW now \in MaybeNull
    PROVE  Value(e, row, now) \in MaybeNull
  BY DEF Value, Exprs, Envs, Rows

\* swapOperandsAsNeeded keeps the meaning of the comparison: the operator it
\* returns relates the operands in their new places (query.c).
LEMMA SwapMeaning ==
    ASSUME NEW op \in Ops, NEW l \in Exprs, NEW r \in Exprs,
           l.cast = "no", r.cast = "no", env \in Envs,
           NEW row \in Rows, NEW now \in MaybeNull,
           Related(op, Value(l, row, now), Value(r, row, now))
    PROVE  LET k == swapOperandsAsNeeded(op, l, r)
           IN  /\ Related(k.op, Value(k.l, row, now), Value(k.r, row, now))
               /\ k.op \in Ops
               /\ k.l \in {l, r} /\ k.r \in {l, r}
  <1> DEFINE x == Value(l, row, now)
             y == Value(r, row, now)
  <1>1. x \in Vals /\ y \in Vals
    BY ValueType DEF Related, MaybeNull
  <1>2. Commutator[op] # "" =>
          Commutator[op] \in Ops /\ <<y, x>> \in Holds[Commutator[op]]
    BY <1>1, OpsAssumption DEF Related
  <1> HIDE DEF x, y
  <1>3. Related(op, x, y)
    BY DEF x, y
  <1>4. Commutator[op] # "" => Related(Commutator[op], y, x)
    BY <1>2, <1>3 DEF Related
  <1>5. CASE IsVar(r) /\ (~IsVar(l) \/ (~l.base /\ r.base)) /\ Commutator[op] # ""
    <2>1. swapOperandsAsNeeded(op, l, r) = [op |-> Commutator[op], l |-> r, r |-> l]
      BY <1>5 DEF swapOperandsAsNeeded
    <2>2. Related(Commutator[op], Value(r, row, now), Value(l, row, now))
      BY <1>4, <1>5 DEF x, y
    <2>3. Commutator[op] \in Ops
      BY <1>2, <1>5
    <2> QED  BY <2>1, <2>2, <2>3
  <1>6. CASE ~(IsVar(r) /\ (~IsVar(l) \/ (~l.base /\ r.base)) /\ Commutator[op] # "")
    <2>1. swapOperandsAsNeeded(op, l, r) = [op |-> op, l |-> l, r |-> r]
      BY <1>6 DEF swapOperandsAsNeeded
    <2> QED  BY <2>1, <1>3 DEF x, y
  <1> QED  BY <1>5, <1>6

-----------------------------------------------------------------------------

\* What execute makes of one extracted qualifier.
Sent(k) ==
    [att |-> k.att, op |-> k.op, kind |-> k.kind,
     value |-> CASE k.right.tag = "Const" -> k.right.val
                 [] k.right.tag = "Param" -> env.param
                 [] OTHER                 -> env.func,
     array |-> IF k.kind = "scalar" THEN {} ELSE env.array]

\* A comparison that is true makes its qualifier true (extractClauseFromOpExpr).
LEMMA OpExprKept ==
    ASSUME NEW c, WellFormed(c), c.tag = "OpExpr",
           c.l.cast # "convert", c.r.cast # "convert",
           env \in Envs, NEW row \in Rows, NEW now \in MaybeNull,
           IsTrue(c, row, now),
           NEW k \in extractRestrictions(c), k.right.tag # "Var"
    PROVE  Keeps(Sent(k), row)
  <1> DEFINE l == unnestClause(c.l)
             r == unnestClause(c.r)
             s == swapOperandsAsNeeded(c.op, l, r)
  <1>1. c.l \in Exprs /\ c.r \in Exprs /\ c.op \in Ops
    BY DEF WellFormed
  <1>2. Related(c.op, Value(l, row, now), Value(r, row, now))
    BY <1>1, UnnestValue DEF IsTrue
  <1>3. /\ l \in Exprs /\ l.cast = "no" /\ l.att = c.l.att /\ l.tag = c.l.tag
        /\ l.base = c.l.base
        /\ r \in Exprs /\ r.cast = "no" /\ r.att = c.r.att /\ r.tag = c.r.tag
        /\ r.base = c.r.base
    BY <1>1, UnnestValue
  <1> HIDE DEF l, r
  <1>4. /\ Related(s.op, Value(s.l, row, now), Value(s.r, row, now))
        /\ s.op \in Ops /\ s.l \in {l, r} /\ s.r \in {l, r}
    BY <1>1, <1>2, <1>3, SwapMeaning
  <1>5. extractRestrictions(c) = FromOperator(c) /\ canonical(c) = s
    BY DEF extractRestrictions, canonical, l, r
  <1> HIDE DEF s
  <1>6. /\ IsVar(s.l) /\ s.l.base /\ s.l.att >= 1 /\ ~s.r.volatile /\ ~s.r.base
        /\ k = makeQual(s.l.att, s.op, s.r, "scalar")
    BY <1>5 DEF FromOperator
  <1>7. s.l.att \in Atts
    BY <1>3, <1>4, <1>6 DEF WellFormed, IsVar
  <1>8. Value(s.l, row, now) = row[s.l.att]
    BY <1>3, <1>4, <1>6, <1>7 DEF Value, IsVar
  <1>9. k.kind = "scalar" /\ k.op = s.op /\ k.att = s.l.att /\ k.right = s.r
    BY <1>6 DEF makeQual
  <1>10. Sent(k).value = Value(s.r, row, now)
    BY <1>3, <1>4, <1>6, <1>9 DEF Sent, Value, Exprs
  <1>11. /\ Sent(k).att = s.l.att /\ Sent(k).op = s.op /\ Sent(k).kind = "scalar"
    BY <1>9 DEF Sent
  <1>12. Related(Sent(k).op, row[Sent(k).att], Sent(k).value)
    BY <1>4, <1>8, <1>10, <1>11
  <1>13. Sent(k).op \notin {"IS", "IS NOT"} /\ Sent(k).value # Null
    BY <1>4, <1>11, <1>12, OpsAssumption DEF Related
  <1> QED  BY <1>11, <1>12, <1>13 DEF Keeps

\* The same for = ANY and <> ALL of an array.
LEMMA ArrayKept ==
    ASSUME NEW c, WellFormed(c), c.tag = "ScalarArrayOpExpr",
           c.l.cast # "convert", c.r.cast # "convert",
           env \in Envs, NEW row \in Rows, NEW now \in MaybeNull,
           IsTrue(c, row, now),
           NEW k \in extractRestrictions(c), k.right.tag # "Var"
    PROVE  Keeps(Sent(k), row)
  <1> DEFINE l == unnestClause(c.l)
             r == unnestClause(c.r)
  <1>1. c.l \in Exprs /\ c.r \in Exprs /\ c.op \in Ops /\ c.kind \in {"ANY", "ALL"}
    BY DEF WellFormed
  <1>2. /\ l.att = c.l.att /\ l.tag = c.l.tag /\ l.base = c.l.base
        /\ Value(l, row, now) = Value(c.l, row, now) /\ l.cast = "no"
    BY <1>1, UnnestValue
  <1> HIDE DEF l, r
  <1>3. extractRestrictions(c) = FromOperator(c)
        /\ canonical(c) = [op |-> c.op, l |-> l, r |-> r]
    BY DEF extractRestrictions, canonical, l, r
  <1>4. /\ IsVar(l) /\ l.base /\ l.att >= 1
        /\ k = makeQual(l.att, c.op, r, c.kind)
    BY <1>3 DEF FromOperator
  <1>5. l.att \in Atts
    BY <1>2, <1>4 DEF WellFormed, IsVar
  <1>6. Value(c.l, row, now) = row[l.att]
    BY <1>2, <1>4, <1>5 DEF Value, IsVar
  <1>7. Sent(k).att = l.att /\ Sent(k).op = c.op /\ Sent(k).kind = c.kind
        /\ Sent(k).array = env.array
    BY <1>1, <1>4 DEF Sent, makeQual
  <1>8. CASE c.kind = "ANY"
    <2>1. \E y \in env.array : Related(c.op, row[l.att], y)
      BY <1>6, <1>8 DEF IsTrue
    <2>2. Keeps(Sent(k), row) <=>
            \E y \in Sent(k).array : Related(Sent(k).op, row[Sent(k).att], y)
      BY <1>7, <1>8 DEF Keeps
    <2> QED  BY <1>7, <2>1, <2>2
  <1>9. CASE c.kind = "ALL"
    <2>1. \A y \in env.array : Related(c.op, row[l.att], y)
      BY <1>6, <1>9 DEF IsTrue
    <2>2. Keeps(Sent(k), row) <=>
            \A y \in Sent(k).array : Related(Sent(k).op, row[Sent(k).att], y)
      BY <1>7, <1>9 DEF Keeps
    <2> QED  BY <1>7, <2>1, <2>2
  <1> QED  BY <1>1, <1>8, <1>9

\* Tests for null and truth, bare Boolean columns and their negation.
LEMMA TestKept ==
    ASSUME NEW c, WellFormed(c),
           c.tag \in {"NullTest", "BooleanTest", "Var", "BoolExpr"},
           c.l.cast # "convert",
           env \in Envs, NEW row \in Rows, NEW now \in MaybeNull,
           IsTrue(c, row, now),
           NEW k \in extractRestrictions(c)
    PROVE  Keeps(Sent(k), row)
  <1> DEFINE x == Value(c.l, row, now)
  <1>1. c.l \in Exprs
    BY DEF WellFormed
  <1>2. ASSUME c.l.tag = "Var", c.l.base, c.l.att \in Atts
        PROVE  x = row[c.l.att]
    BY <1>2 DEF Value
  <1>3. ASSUME NEW op, NEW v, k = makeQual(c.l.att, op, Constant(v), "scalar")
        PROVE  /\ Sent(k).kind = "scalar" /\ Sent(k).op = op
               /\ Sent(k).att = c.l.att /\ Sent(k).value = v
    BY <1>3 DEF Sent, makeQual, Constant
  <1>4. CASE c.tag = "NullTest"
    <2>1. extractRestrictions(c) = extractClauseFromNullTest(c)
      BY <1>4 DEF extractRestrictions
    <2>2. IsVar(c.l) /\ c.l.att >= 1
          /\ k = makeQual(c.l.att, IF c.kind = "IS_NULL" THEN "=" ELSE "<>",
                          Constant(Null), "scalar")
      BY <2>1 DEF extractClauseFromNullTest
    <2>3. x = row[c.l.att]
      BY <1>2, <1>4, <2>2 DEF WellFormed, IsVar
    <2>4. (x = Null) <=> (c.kind = "IS_NULL")
      BY <1>4 DEF IsTrue
    <2>5. /\ Sent(k).kind = "scalar" /\ Sent(k).att = c.l.att /\ Sent(k).value = Null
          /\ Sent(k).op = IF c.kind = "IS_NULL" THEN "=" ELSE "<>"
      BY <1>3, <2>2
    <2> HIDE DEF x
    <2> QED  BY <2>3, <2>4, <2>5 DEF Keeps
  <1>5. CASE c.tag = "BooleanTest"
    <2> DEFINE op == IF c.kind \in {"IS_TRUE", "IS_FALSE", "IS_UNKNOWN"} THEN "IS" ELSE "IS NOT"
               v == CASE c.kind \in {"IS_TRUE", "IS_NOT_TRUE"}   -> True
                      [] c.kind \in {"IS_FALSE", "IS_NOT_FALSE"} -> False
                      [] OTHER                                   -> Null
    <2>1. extractRestrictions(c) = extractClauseFromBooleanTest(c)
      BY <1>5 DEF extractRestrictions
    <2>2. IsVar(c.l) /\ c.l.att >= 1 /\ k = makeQual(c.l.att, op, Constant(v), "scalar")
      BY <2>1 DEF extractClauseFromBooleanTest
    <2>3. x = row[c.l.att]
      BY <1>2, <1>5, <2>2 DEF WellFormed, IsVar
    <2>4. c.kind \in BooleanTests
      BY <1>5 DEF WellFormed
    <2> HIDE DEF x
    <2>5. /\ c.kind = "IS_TRUE" => x = True
          /\ c.kind = "IS_FALSE" => x = False
          /\ c.kind = "IS_NOT_TRUE" => x # True
          /\ c.kind = "IS_NOT_FALSE" => x # False
          /\ c.kind = "IS_UNKNOWN" => x = Null
          /\ c.kind = "IS_NOT_UNKNOWN" => x # Null
      BY <1>5 DEF IsTrue, x
    <2>6. IF op = "IS" THEN x = v ELSE x # v
      BY <2>4, <2>5 DEF BooleanTests
    <2>7. op \in {"IS", "IS NOT"}
      OBVIOUS
    <2> HIDE DEF op, v
    <2>8. /\ Sent(k).kind = "scalar" /\ Sent(k).att = c.l.att
          /\ Sent(k).value = v /\ Sent(k).op = op
      BY <1>3, <2>2
    <2> QED  BY <2>3, <2>6, <2>7, <2>8 DEF Keeps
  <1>6. CASE c.tag = "Var"
    <2>1. extractRestrictions(c) = extractClauseFromVar(c)
      BY <1>6 DEF extractRestrictions
    <2>2. k = makeQual(c.l.att, "=", Constant(True), "scalar")
      BY <2>1 DEF extractClauseFromVar
    <2>3. x = row[c.l.att]
      BY <1>2, <1>6 DEF WellFormed
    <2>4. x = True
      BY <1>6 DEF IsTrue
    <2>5. /\ Sent(k).kind = "scalar" /\ Sent(k).att = c.l.att
          /\ Sent(k).value = True /\ Sent(k).op = "="
      BY <1>3, <2>2
    <2>6. Related("=", True, True)
      BY ValsAssumption, OpsAssumption DEF Related
    <2> HIDE DEF x
    <2> QED  BY <2>3, <2>4, <2>5, <2>6, ValsAssumption DEF Keeps
  <1>7. CASE c.tag = "BoolExpr"
    <2>1. extractRestrictions(c) = extractClauseFromBoolExpr(c)
      BY <1>7 DEF extractRestrictions
    <2>2. /\ IsVar(c.l) /\ c.l.base /\ c.kind = "NOT"
          /\ k = makeQual(c.l.att, "<>", Constant(True), "scalar")
      BY <2>1 DEF extractClauseFromBoolExpr
    <2>3. x = row[c.l.att]
      BY <1>2, <1>7, <2>2 DEF WellFormed, IsVar
    <2>4. x = False
      BY <1>7, <2>2 DEF IsTrue
    <2>5. /\ Sent(k).kind = "scalar" /\ Sent(k).att = c.l.att
          /\ Sent(k).value = True /\ Sent(k).op = "<>"
      BY <1>3, <2>2
    <2>6. Related("<>", False, True)
      BY ValsAssumption, OpsAssumption DEF Related
    <2> HIDE DEF x
    <2> QED  BY <2>3, <2>4, <2>5, <2>6, ValsAssumption DEF Keeps
  <1> QED  BY <1>4, <1>5, <1>6, <1>7

-----------------------------------------------------------------------------

\* The clause, its qualifiers and the values of this scan stay in step.
THEOREM StaysInStep == Spec => []InStep
  <1>1. Init => InStep
    BY DEF Init, InStep
  <1>2. InStep /\ [Next]_vars => InStep'
    <2> SUFFICES ASSUME InStep, [Next]_vars PROVE InStep'
      OBVIOUS
    <2> USE DEF InStep
    <2>1. CASE BeginForeignScan
      BY <2>1 DEF BeginForeignScan
    <2>2. CASE execute
      BY <2>2 DEF execute, qualdefToPython
    <2>3. CASE ReScanForeignScan
      BY <2>3 DEF ReScanForeignScan
    <2>4. CASE UNCHANGED vars
      BY <2>4 DEF vars, qualdefToPython
    <2> QED  BY <2>1, <2>2, <2>3, <2>4 DEF Next
  <1> QED  BY <1>1, <1>2, PTL DEF Spec

\* A wrapper that drops all rows which its qualifiers exclude drops no row of
\* the answer, whatever the operators, values and clauses are, as long as no
\* operand is an array whose elements a cast converts.
THEOREM WrapperMayFilter ==
    ASSUME NoConversion
    PROVE  Spec => []NothingLost
  <1>1. InStep => NothingLost
    <2> SUFFICES ASSUME InStep, pc = "rows",
                        NEW row \in Rows, NEW now \in MaybeNull,
                        IsTrue(clause, row, now),
                        NEW p \in sent
                 PROVE  Keeps(p, row)
      BY DEF NothingLost
    <2>1. WellFormed(clause) /\ clause.l.cast # "convert" /\ clause.r.cast # "convert"
      BY ClausesAssumption, NoConversion DEF InStep, NoConversion
    <2>2. PICK k \in extractRestrictions(clause) : k.right.tag # "Var" /\ p = Sent(k)
      BY DEF InStep, qualdefToPython, Sent
    <2>3. env \in Envs
      BY DEF InStep
    <2>4. CASE clause.tag = "OpExpr"
      BY <2>1, <2>2, <2>3, <2>4, OpExprKept
    <2>5. CASE clause.tag = "ScalarArrayOpExpr"
      BY <2>1, <2>2, <2>3, <2>5, ArrayKept
    <2>6. CASE clause.tag \in {"NullTest", "BooleanTest", "Var", "BoolExpr"}
      BY <2>1, <2>2, <2>3, <2>6, TestKept
    <2> QED  BY <2>1, <2>4, <2>5, <2>6 DEF WellFormed
  <1> QED  BY <1>1, StaysInStep, PTL

\* Every qualifier that is extracted, sent or not, indexes a column.
THEOREM ColumnsOnly ==
    ASSUME NoConversion
    PROVE  Spec => []QualsOnColumns
  <1>1. InStep => QualsOnColumns
    <2> SUFFICES ASSUME InStep, NEW k \in extractRestrictions(clause)
                 PROVE  k.att \in Atts
      BY DEF InStep, QualsOnColumns
    <2>1. WellFormed(clause) /\ clause.l.cast # "convert" /\ clause.r.cast # "convert"
      BY ClausesAssumption, NoConversion DEF InStep, NoConversion
    <2> DEFINE l == unnestClause(clause.l)
               r == unnestClause(clause.r)
    <2>2. /\ l.att = clause.l.att /\ l.tag = clause.l.tag /\ l.base = clause.l.base
          /\ r.att = clause.r.att /\ r.tag = clause.r.tag /\ r.base = clause.r.base
      BY <2>1, UnnestValue DEF WellFormed
    <2> HIDE DEF l, r
    <2>3. CASE clause.tag \in {"OpExpr", "ScalarArrayOpExpr"}
      <3>1. k \in FromOperator(clause)
        BY <2>3 DEF extractRestrictions
      <3>2. canonical(clause).l \in {l, r}
        BY <2>3 DEF canonical, swapOperandsAsNeeded, l, r
      <3>3. LET e == canonical(clause).l
            IN  IsVar(e) /\ e.base /\ e.att >= 1 /\ k.att = e.att
        BY <3>1 DEF FromOperator, makeQual
      <3> QED  BY <2>1, <2>2, <3>2, <3>3 DEF WellFormed, IsVar
    <2>4. CASE clause.tag \in {"NullTest", "BooleanTest"}
      <3>1. k \in extractClauseFromNullTest(clause) \union extractClauseFromBooleanTest(clause)
        BY <2>4 DEF extractRestrictions
      <3>2. IsVar(clause.l) /\ clause.l.att >= 1 /\ k.att = clause.l.att
        <4>1. CASE k \in extractClauseFromNullTest(clause)
          BY <4>1 DEF extractClauseFromNullTest, makeQual
        <4>2. CASE k \in extractClauseFromBooleanTest(clause)
          <5>1. IsVar(clause.l) /\ clause.l.att >= 1
            BY <4>2 DEF extractClauseFromBooleanTest
          <5>2. \E op, v : k = makeQual(clause.l.att, op, Constant(v), "scalar")
            BY <4>2, <5>1, Zenon DEF extractClauseFromBooleanTest
          <5> QED  BY <5>1, <5>2 DEF makeQual
        <4> QED  BY <3>1, <4>1, <4>2
      <3> QED  BY <2>1, <2>4, <3>2 DEF WellFormed, IsVar
    <2>5. CASE clause.tag \in {"Var", "BoolExpr"}
      <3>1. /\ k.att = clause.l.att
            /\ clause.tag = "BoolExpr" => IsVar(clause.l) /\ clause.kind = "NOT"
        BY <2>5 DEF extractRestrictions, extractClauseFromVar,
                    extractClauseFromBoolExpr, makeQual
      <3> QED  BY <2>1, <2>5, <3>1 DEF WellFormed, IsVar
    <2> QED  BY <2>1, <2>3, <2>4, <2>5 DEF WellFormed
  <1> QED  BY <1>1, StaysInStep, PTL
=============================================================================
