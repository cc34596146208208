----------------------------- MODULE NameProofs ------------------------------
(***************************************************************************)
(* What becomes of names and definitions: the statements, keys and types   *)
(* of IMPORT FOREIGN SCHEMA, for any database and any names, and the files *)
(* of FilesystemFdw, for patterns and values of any length.                *)
(***************************************************************************)
EXTENDS TranslationProofs

(* IMPORT FOREIGN SCHEMA.                                                  *)

\* A remote database: foreign keys refer to tables of it, primary keys are
\* columns of their table.
IsDatabase(db) ==
    \A k \in DOMAIN db :
        /\ k = <<k[1], k[2]>> /\ db[k].references \subseteq DOMAIN db
        /\ Len(db[k].columns) \in Nat /\ DOMAIN db[k].columns = 1 .. Len(db[k].columns)
        /\ db[k].keys \subseteq {db[k].columns[i] : i \in DOMAIN db[k].columns}

Restrictions == {"limit", "except", "None"}

LEMMA PrimaryKeyOf ==
    ASSUME NEW db, IsDatabase(db), NEW schema, NEW k \in DOMAIN db
    PROVE  I!Definition(db, schema, k).options.primary_key \in
               db[k].keys \union (IF db[k].keys = {} THEN {"None"} ELSE {})
<1> DEFINE t == db[k]
           keys == {i \in DOMAIN t.columns : t.columns[i] \in t.keys}
<1>1. Len(t.columns) \in Nat /\ DOMAIN t.columns = 1 .. Len(t.columns)
  BY DEF IsDatabase
<1>2. t.keys \subseteq {t.columns[i] : i \in DOMAIN t.columns}
  BY DEF IsDatabase
<1>3. keys = {} <=> t.keys = {}
  BY <1>2
<1>4. I!Definition(db, schema, k).options.primary_key = IF keys = {} THEN "None" ELSE t.columns[I!Max(keys)]
  BY DEF I!Definition
<1>5. keys # {} => t.columns[I!Max(keys)] \in t.keys
  <2>1. keys \in SUBSET (1 .. Len(t.columns))
    BY <1>1
  <2>2. \A i \in keys : t.columns[i] \in t.keys
    OBVIOUS
  <2> HIDE DEF keys
  <2>3. keys # {} => \E z \in keys : \A y \in keys : z >= y
    BY <1>1, <2>1, Greatest
  <2>4. keys # {} => I!Max(keys) \in keys
    BY <2>3 DEF I!Max
  <2> QED  BY <2>2, <2>4
<1> HIDE DEF keys
<1> QED  BY <1>3, <1>4, <1>5

\* Reflection of tables of a schema that no foreign key leads out of stays in
\* the schema.
LEMMA StaysInSchema ==
    ASSUME NEW db, IsDatabase(db), NEW schema,
           \A k \in DOMAIN db : k[1] = schema => \A l \in db[k].references : l[1] = schema,
           NEW found, found \subseteq {k \in DOMAIN db : k[1] = schema}
    PROVE  found \subseteq I!WithReferences(db, found) /\ \A k \in I!WithReferences(db, found) : k \in DOMAIN db /\ k[1] = schema
<1> DEFINE S == {k \in DOMAIN db : k[1] = schema}
<1>1. S \in SUBSET DOMAIN db /\ \A k \in S : db[k].references \subseteq S
  BY DEF IsDatabase
<1>2. found \subseteq S
  OBVIOUS
<1> HIDE DEF S
<1>3. \A k \in I!WithReferences(db, found) : k \in S
  BY <1>1, <1>2 DEF I!WithReferences
<1>4. found \subseteq I!WithReferences(db, found)
  BY DEF I!WithReferences
<1> QED  BY <1>3, <1>4 DEF S

\* import_schema creates the foreign tables that IMPORT FOREIGN SCHEMA asks for,
\* each once, with the columns and a key of its remote table
\* (SchemaImport.ImportsWhatIsAsked), for every database and restriction.
THEOREM ImportedAsAsked ==
    ASSUME NEW db, IsDatabase(db), NEW schema, NEW restriction \in Restrictions, NEW restricts
    PROVE  I!ImportsWhatIsAsked(db, schema, restriction, restricts)
<1> DEFINE keysof == {k \in DOMAIN db : k[1] = schema}
           names == {k[2] : k \in keysof}
           found == {k \in DOMAIN db : k[1] = schema /\ I!Only(restriction, restricts, k[2])}
           created == {d \in I!import_schema(db, schema, restriction, restricts) :
                           I!Importable(d, restriction, restricts)}
           Def(k) == I!Definition(db, schema, k)
<1> SUFFICES ASSUME restriction = "limit" => restricts \subseteq names,
                    \A k \in DOMAIN db : k[1] = schema => \A l \in db[k].references : l[1] = schema
             PROVE  /\ {d.table_name : d \in created} =
                          {t \in names : restriction = "limit" => t \in restricts}
                          \ (IF restriction = "except" THEN restricts ELSE {})
                    /\ \A d, e \in created : d.table_name = e.table_name => d = e
                    /\ \A d \in created : \E k \in DOMAIN db :
                          /\ k = <<d.options.schema, d.options.tablename>> /\ d.columns = db[k].columns
                          /\ d.options.primary_key \in db[k].keys \union (IF db[k].keys = {} THEN {"None"} ELSE {})
  BY DEF I!ImportsWhatIsAsked
<1>1. \A k : Def(k).table_name = k[2] /\ Def(k).options.schema = schema /\ Def(k).options.tablename = k[2]
             /\ Def(k).columns = db[k].columns
  BY DEF I!Definition
<1>2. PICK loaded : loaded = I!WithReferences(db, found)
  OBVIOUS
<1>3. found \subseteq loaded /\ \A k \in loaded : k \in DOMAIN db /\ k[1] = schema
  <2>1. found \subseteq {k \in DOMAIN db : k[1] = schema}
    OBVIOUS
  <2> HIDE DEF found
  <2> QED  BY <1>2, <2>1, StaysInSchema
<1>4. I!import_schema(db, schema, restriction, restricts) = {Def(k) : k \in loaded}
  BY <1>2 DEF I!import_schema
<1> HIDE DEF Def
<1>5. \A d : I!Importable(d, restriction, restricts) <=> I!Only(restriction, restricts, d.table_name)
  BY DEF I!Importable, I!Only
<1>6. created = {Def(k) : k \in {k \in loaded : I!Only(restriction, restricts, k[2])}}
  BY <1>1, <1>4, <1>5
<1>7. \A k \in DOMAIN db : k = <<k[1], k[2]>>
  BY DEF IsDatabase
<1>8. ASSUME NEW k \in loaded, NEW l \in loaded, k[2] = l[2] PROVE k = l
  BY <1>3, <1>7, <1>8
<1>9. {k \in loaded : I!Only(restriction, restricts, k[2])} = found
  BY <1>3
<1>10. created = {Def(k) : k \in found}
  BY <1>6, <1>9
<1>11. \A t : t \in names /\ I!Only(restriction, restricts, t) <=>
           t \in {u \in names : restriction = "limit" => u \in restricts} \ (IF restriction = "except" THEN restricts ELSE {})
  BY DEF I!Only, Restrictions
<1> HIDE DEF created
<1>12. {d.table_name : d \in created} = {k[2] : k \in found}
  <2> HIDE DEF found
  <2>1. ASSUME NEW d \in created PROVE d.table_name \in {k[2] : k \in found}
    <3>1. PICK k \in found : d = Def(k)
      BY <1>10
    <3> QED  BY <1>1, <3>1
  <2>2. ASSUME NEW k \in found PROVE k[2] \in {d.table_name : d \in created}
    <3>1. Def(k) \in created /\ Def(k).table_name = k[2]
      BY <1>1, <1>10
    <3> QED  BY <3>1
  <2> QED  BY <2>1, <2>2
<1>13. {k[2] : k \in found} = {t \in names : I!Only(restriction, restricts, t)}
  OBVIOUS
<1>14. \A d, e \in created : d.table_name = e.table_name => d = e
  BY <1>1, <1>3, <1>8, <1>10
<1>15. ASSUME NEW d \in created
       PROVE  \E k \in DOMAIN db :
                  /\ k = <<d.options.schema, d.options.tablename>> /\ d.columns = db[k].columns
                  /\ d.options.primary_key \in db[k].keys \union (IF db[k].keys = {} THEN {"None"} ELSE {})
  <2>1. PICK k \in found : d = Def(k)
    BY <1>10
  <2>2. k \in DOMAIN db /\ k = <<schema, k[2]>>
    BY <1>7
  <2>3. d.options.primary_key \in db[k].keys \union (IF db[k].keys = {} THEN {"None"} ELSE {})
    BY <2>1, <2>2, PrimaryKeyOf DEF Def
  <2> QED  BY <1>1, <2>1, <2>2, <2>3
<1> QED  BY <1>11, <1>12, <1>13, <1>14, <1>15

TypeNames == {"NUMBER", "TINYINT", "NVARCHAR", "DATETIME", "VARBINARY", "IMAGE", "BIT", "TEXT", "SMALLINT", "BOOLEAN"}

\* A list of arguments: nothing after it, and what is after it.
LEMMA Arguments ==
    ASSUME NEW S, NEW a \in Seq(S), NEW x
    PROVE  /\ a \o << >> = a /\ << >> \o << >> = << >> /\ SubSeq(a, 1, Len(a)) = a
           /\ Append(a, x) \o << >> = Append(a, x) /\ SubSeq(Append(a, x), 1, Len(a)) = a
<1>1. a \o << >> = a
  BY ConcatEmptySeq
<1>2. << >> \o << >> = << >>
  OBVIOUS
<1>3. SubSeq(a, 1, Len(a)) = a
  <2>1. Len(a) \in Nat /\ DOMAIN a = 1 .. Len(a)
    OBVIOUS
  <2> QED  BY <2>1
<1>4. a \in Seq(S \union {x}) /\ Append(a, x) \in Seq(S \union {x})
  OBVIOUS
<1>5. Append(a, x) \o << >> = Append(a, x)
  BY <1>4, ConcatEmptySeq
<1>6. SubSeq(Append(a, x), 1, Len(a)) = a
  <2>1. Len(a) \in Nat /\ DOMAIN a = 1 .. Len(a)
    OBVIOUS
  <2>2. \A i \in 1 .. Len(a) : Append(a, x)[i] = a[i]
    OBVIOUS
  <2>3. Len(Append(a, x)) = Len(a) + 1
    OBVIOUS
  <2> QED  BY <2>1, <2>2, <2>3
<1> QED  BY <1>1, <1>2, <1>3, <1>5, <1>6

\* A column of a remote type can be created, and _get_column_type reads the
\* length, precision and scale of the remote type back from it
\* (SchemaImport.TypeSurvives), whatever they are.
THEOREM TypesSurvive ==
    ASSUME NEW t, t.name \in TypeNames, t.args \in Seq(Nat)
    PROVE  I!TypeSurvives(t)
<1> PICK a : a = t.args
  OBVIOUS
<1> PICK a0 : a0 = Append(a, 0)
  OBVIOUS
<1> PICK c : c = I!Convert(t)
  OBVIOUS
<1> PICK f : f = I!FormatType(c)
  OBVIOUS
<1> PICK type : type = I!get_column_type(f)
  OBVIOUS
<1>0. /\ a \o << >> = a /\ << >> \o << >> = << >> /\ SubSeq(a, 1, Len(a)) = a
      /\ a0 \o << >> = a0 /\ SubSeq(a0, 1, Len(a)) = a
  BY Arguments
<1>1. c.name = I!Generic(t.name) /\ c.args = IF t.name = "TEXT" THEN << >> ELSE a
  BY DEF I!Convert
<1>2. SUFFICES /\ ~I!Refuses(c)
               /\ type.args \o type.precision = (IF c.name \in {"NUMERIC", "VARCHAR"} THEN f.mods ELSE << >>)
               /\ c.name \in {"NUMERIC", "VARCHAR"} => SubSeq(type.args, 1, Len(a)) = a
  BY DEF I!TypeSurvives
<1>3. ASSUME NEW s PROVE
        /\ s = "numeric" \/ s = "character varying" \/ s = "smallint" \/ s = "bytea" \/ s = "boolean" \/ s = "text" =>
             \A g : g.attype = s => I!get_column_type(g).args = g.mods /\ I!get_column_type(g).precision = << >>
        /\ s = "timestamp without time zone" =>
             \A g : g.attype = s => I!get_column_type(g).args = << >> /\ I!get_column_type(g).precision = g.mods
  BY DEF I!get_column_type, I!WithZone, I!WithoutZone, I!Intervals
<1>4. CASE t.name = "NUMBER"
  <2>1. c.name = "NUMERIC" /\ c.args = a
    BY <1>1, <1>4 DEF I!Generic
  <2>2. f.attype = "numeric" /\ f.mods = IF Len(a) = 1 THEN a0 ELSE a
    BY <2>1 DEF I!FormatType
  <2>3. type.args = f.mods /\ type.precision = << >>
    BY <1>3, <2>2
  <2> QED  BY <1>0, <2>1, <2>2, <2>3 DEF I!Refuses
<1>5. CASE t.name = "NVARCHAR"
  <2>1. c.name = "VARCHAR" /\ c.args = a
    BY <1>1, <1>5 DEF I!Generic
  <2>2. f.attype = "character varying" /\ f.mods = a
    BY <2>1 DEF I!FormatType
  <2>3. type.args = f.mods /\ type.precision = << >>
    BY <1>3, <2>2
  <2> QED  BY <1>0, <2>1, <2>2, <2>3 DEF I!Refuses
<1>6. CASE t.name = "DATETIME"
  <2>1. c.name = "TIMESTAMP"
    BY <1>1, <1>6 DEF I!Generic
  <2>2. f.attype = "timestamp without time zone" /\ f.mods = << >>
    BY <2>1 DEF I!FormatType
  <2>3. type.args = << >> /\ type.precision = << >>
    BY <1>3, <2>2
  <2> QED  BY <1>0, <2>1, <2>3 DEF I!Refuses
<1>7. CASE t.name \in {"TINYINT", "SMALLINT", "VARBINARY", "IMAGE", "BIT", "BOOLEAN", "TEXT"}
  <2>1. \/ c.name = "SMALLINT" \/ c.name = "BYTEA" \/ c.name = "BOOLEAN" \/ (c.name = "TEXT" /\ c.args = << >>)
    BY <1>1, <1>7 DEF I!Generic
  <2>2. f.attype \in {"smallint", "bytea", "boolean", "text"} /\ f.mods = << >>
    BY <2>1 DEF I!FormatType
  <2>3. type.args = << >> /\ type.precision = << >>
    BY <1>3, <2>2
  <2>4. c.name \notin {"NUMERIC", "VARCHAR"} /\ ~I!Refuses(c)
    BY <2>1 DEF I!Refuses
  <2> QED  BY <1>0, <2>3, <2>4
<1> QED  BY <1>4, <1>5, <1>6, <1>7 DEF TypeNames

-----------------------------------------------------------------------------
(* What PostgreSQL reads from a statement.                                 *)

\* The lexer reads text from state s1 and is in state s2.
Reads(s1, text, s2) ==
    \E b : /\ b[1] = s1 /\ b[Len(text) + 1] = s2
           /\ \A i \in 1 .. Len(text) : b[i + 1] = I!LexStep(b[i], text[i])

LEMMA ReadsNothing == \A s : Reads(s, << >>, s)
<1> TAKE s
<1> DEFINE b == [i \in 1 .. 1 |-> s]
<1>1. b[1] = s /\ Len(<< >>) + 1 = 1
  OBVIOUS
<1> HIDE DEF b
<1>2. b[1] = s /\ b[Len(<< >>) + 1] = s /\ \A i \in 1 .. Len(<< >>) : b[i + 1] = I!LexStep(b[i], << >>[i])
  BY <1>1
<1> QED  BY <1>2 DEF Reads

LEMMA ReadsOne == \A s, c : Reads(s, <<c>>, I!LexStep(s, c))
<1> TAKE s, c
<1> PICK t : t = I!LexStep(s, c)
  OBVIOUS
<1> PICK x : x = <<c>>
  OBVIOUS
<1> DEFINE b == [i \in 1 .. 2 |-> IF i = 1 THEN s ELSE t]
<1>1. Len(x) = 1 /\ x[1] = c /\ 1 + 1 = 2 /\ 1 .. 1 = {1}
  OBVIOUS
<1>2. b[1] = s /\ b[2] = t
  OBVIOUS
<1> HIDE DEF b
<1>3. b[1] = s /\ b[Len(x) + 1] = t /\ \A i \in 1 .. Len(x) : b[i + 1] = I!LexStep(b[i], x[i])
  BY <1>1, <1>2
<1>4. Reads(s, x, t)
  BY <1>3 DEF Reads
<1> QED  BY <1>4

LEMMA ReadsOn ==
    ASSUME NEW C, NEW x \in Seq(C), NEW y \in Seq(C), NEW s1, NEW s2, NEW s3, Reads(s1, x, s2), Reads(s2, y, s3)
    PROVE  Reads(s1, x \o y, s3)
<1> PICK m \in Nat : m = Len(x)
  OBVIOUS
<1> PICK n \in Nat : n = Len(y)
  OBVIOUS
<1> PICK z : z = x \o y
  OBVIOUS
<1>1. Len(z) = m + n /\ (\A i \in 1 .. m : z[i] = x[i]) /\ \A i \in 1 .. n : z[m + i] = y[i]
  <2>1. \A i \in 1 .. m + n : z[i] = IF i <= m THEN x[i] ELSE y[i - m]
    BY ConcatProperties
  <2>2. \A i \in 1 .. n : m + i \in 1 .. m + n /\ ~(m + i <= m) /\ (m + i) - m = i
    OBVIOUS
  <2>3. Len(z) = m + n
    BY ConcatProperties
  <2> QED  BY <2>1, <2>2, <2>3
<1>2. PICK a : a[1] = s1 /\ a[m + 1] = s2 /\ \A i \in 1 .. m : a[i + 1] = I!LexStep(a[i], x[i])
  BY DEF Reads
<1>3. PICK b : b[1] = s2 /\ b[n + 1] = s3 /\ \A i \in 1 .. n : b[i + 1] = I!LexStep(b[i], y[i])
  BY DEF Reads
<1> DEFINE d == [i \in 1 .. m + n + 1 |-> IF i <= m THEN a[i] ELSE b[i - m]]
<1>4. (\A i \in 1 .. m : d[i] = a[i]) /\ \A i \in 1 .. n + 1 : d[m + i] = b[i]
  <2>1. \A i \in 1 .. m : i \in 1 .. m + n + 1 /\ i <= m
    OBVIOUS
  <2>2. \A i \in 1 .. n + 1 : m + i \in 1 .. m + n + 1 /\ ~(m + i <= m) /\ (m + i) - m = i
    OBVIOUS
  <2> QED  BY <2>1, <2>2
<1> HIDE DEF d
<1>5. d[1] = s1
  <2>1. CASE m = 0
    <3>1. d[m + 1] = b[1]
      BY <1>4
    <3> QED  BY <1>2, <1>3, <2>1, <3>1
  <2>2. CASE m # 0
    <3>1. 1 \in 1 .. m
      BY <2>2
    <3> QED  BY <1>2, <1>4, <3>1
  <2> QED  BY <2>1, <2>2
<1>6. d[Len(z) + 1] = s3
  <2>1. n + 1 \in 1 .. n + 1 /\ Len(z) + 1 = m + (n + 1)
    BY <1>1
  <2> QED  BY <1>3, <1>4, <2>1
<1>7. ASSUME NEW i \in 1 .. Len(z) PROVE d[i + 1] = I!LexStep(d[i], z[i])
  <2>1. CASE i < m
    <3>1. i \in 1 .. m /\ i + 1 \in 1 .. m
      BY <2>1
    <3> QED  BY <1>1, <1>2, <1>4, <3>1
  <2>2. CASE i = m
    <3>1. i \in 1 .. m /\ 1 \in 1 .. n + 1
      BY <2>2
    <3>2. d[i + 1] = b[1]
      BY <1>4, <2>2, <3>1
    <3> QED  BY <1>1, <1>2, <1>3, <1>4, <2>2, <3>1, <3>2
  <2>3. CASE i > m
    <3>1. PICK j \in 1 .. n : i = m + j
      <4>1. i - m \in 1 .. n /\ i = m + (i - m)
        BY <1>1, <2>3
      <4> QED  BY <4>1
    <3>2. j \in 1 .. n + 1 /\ j + 1 \in 1 .. n + 1 /\ i + 1 = m + (j + 1)
      BY <3>1
    <3> QED  BY <1>1, <1>3, <1>4, <3>1, <3>2
  <2> QED  BY <2>1, <2>2, <2>3
<1>8. Reads(s1, z, s3)
  BY <1>5, <1>6, <1>7 DEF Reads
<1> QED  BY <1>8

\* The states of the lexer: outside of quotes, between them, and after what
\* may be the last of them.
Outside(T) == [in |-> "none", quote |-> "", text |-> << >>, tokens |-> T]
Quoting(q, v, T) == [in |-> "quotes", quote |-> q, text |-> v, tokens |-> T]
Closing(q, v, T) == [in |-> "closing", quote |-> q, text |-> v, tokens |-> T]

Result(s) ==
    CASE s.in = "none"    -> s.tokens
      [] s.in = "quotes"  -> s.tokens \o I!Lexeme("error", s.text)
      [] s.in = "closing" -> s.tokens \o I!Lexeme(s.quote, s.text)

LEMMA LexReads ==
    ASSUME NEW C, NEW x \in Seq(C), NEW s, Reads(Outside(<< >>), x, s)
    PROVE  I!Lex(x) = Result(s)
<1> PICK n \in Nat : n = Len(x) + 1
  OBVIOUS
<1>1. PICK b : b[1] = Outside(<< >>) /\ b[n] = s /\ \A i \in 1 .. Len(x) : b[i + 1] = I!LexStep(b[i], x[i])
  BY DEF Reads
<1>2. \A i \in 2 .. n : b[i] = I!LexStep(b[i - 1], x[i - 1])
  <2>1. \A i \in 2 .. n : i - 1 \in 1 .. Len(x) /\ (i - 1) + 1 = i
    OBVIOUS
  <2> QED  BY <1>1, <2>1
<1> DEFINE before[i \in 1 .. n] ==
             IF i = 1 THEN [in |-> "none", quote |-> "", text |-> << >>, tokens |-> << >>]
             ELSE I!LexStep(before[i - 1], x[i - 1])
<1>3. I!Lex(x) = Result(before[n])
  BY DEF I!Lex, Result
<1>4. before = [i \in 1 .. n |-> IF i = 1 THEN Outside(<< >>) ELSE I!LexStep(before[i - 1], x[i - 1])]
  <2> DEFINE g == [i \in 1 .. n |-> b[i]]
  <2>1. g = [i \in 1 .. n |-> IF i = 1 THEN Outside(<< >>) ELSE I!LexStep(g[i - 1], x[i - 1])]
    <3>1. ASSUME NEW i \in 1 .. n PROVE g[i] = IF i = 1 THEN Outside(<< >>) ELSE I!LexStep(g[i - 1], x[i - 1])
      <4>1. CASE i = 1
        BY <1>1, <4>1
      <4>2. CASE i # 1
        <5>1. i \in 2 .. n /\ i - 1 \in 1 .. n
          BY <4>2
        <5> QED  BY <1>2, <4>2, <5>1
      <4> QED  BY <4>1, <4>2
    <3>2. g = [i \in 1 .. n |-> g[i]]
      OBVIOUS
    <3> HIDE DEF g
    <3> QED  BY <3>1, <3>2
  <2> HIDE DEF g
  <2>2. \E h : h = [i \in 1 .. n |-> IF i = 1 THEN [in |-> "none", quote |-> "", text |-> << >>, tokens |-> << >>]
                                     ELSE I!LexStep(h[i - 1], x[i - 1])]
    BY <2>1 DEF Outside
  <2>3. before = [i \in 1 .. n |-> IF i = 1 THEN [in |-> "none", quote |-> "", text |-> << >>, tokens |-> << >>]
                                   ELSE I!LexStep(before[i - 1], x[i - 1])]
    BY <2>2
  <2> HIDE DEF before
  <2> QED  BY <2>3 DEF Outside
<1> HIDE DEF before
<1> DEFINE R == {i \in 1 .. n : before[i] = b[i]}
<1>5. 1 \in R
  <2>1. 1 \in 1 .. n
    OBVIOUS
  <2> QED  BY <1>1, <1>4, <2>1
<1>6. ASSUME NEW i \in 2 .. n, i - 1 \in R PROVE i \in R
  <2>1. i \in 1 .. n /\ i # 1
    OBVIOUS
  <2>2. before[i] = I!LexStep(before[i - 1], x[i - 1])
    BY <1>4, <2>1
  <2> QED  BY <1>2, <1>6, <2>1, <2>2
<1> HIDE DEF R
<1>7. \A i \in 1 .. n : i \in R
  BY <1>5, <1>6, Upwards
<1>8. before[n] = s
  <2>1. n \in 1 .. n
    OBVIOUS
  <2> QED  BY <1>1, <1>7, <2>1 DEF R
<1> QED  BY <1>3, <1>8

Quotes == {"\"", "'"}

\* Before a token that can follow any other, resp. one that cannot follow a
\* closing quote: T is what has been read.
Ready(C, T, s) ==
    \/ s = Outside(T)
    \/ \E q \in Quotes, v \in Seq(C), U \in Seq([kind : C, text : Seq(C)]) :
          s = Closing(q, v, U) /\ T = U \o I!Lexeme(q, v)

LEMMA ReadySteps ==
    ASSUME NEW C, NEW T, NEW s, Ready(C, T, s), NEW c, c \notin Quotes
    PROVE  I!LexStep(s, c) = Outside(T \o I!Lexeme(c, << >>))
<1>1. CASE s = Outside(T)
  <2>1. s.in = "none" /\ s.tokens = T
    BY <1>1 DEF Outside
  <2> QED  BY <2>1 DEF I!LexStep, Quotes, Outside
<1>2. ASSUME NEW q \in Quotes, NEW v, NEW U, s = Closing(q, v, U), T = U \o I!Lexeme(q, v)
      PROVE  I!LexStep(s, c) = Outside(T \o I!Lexeme(c, << >>))
  <2>1. s.in = "closing" /\ s.quote = q /\ s.text = v /\ s.tokens = U /\ c # q
    BY <1>2 DEF Closing
  <2>2. I!LexStep(s, c) = Outside((s.tokens \o I!Lexeme(s.quote, s.text)) \o I!Lexeme(c, << >>))
    BY <2>1 DEF I!LexStep, Quotes, Outside
  <2> QED  BY <1>2, <2>1, <2>2
<1> QED  BY <1>1, <1>2 DEF Ready

LEMMA QuoteSteps ==
    ASSUME NEW q \in Quotes, NEW T, NEW v, NEW c
    PROVE  /\ I!LexStep(Outside(T), q) = Quoting(q, << >>, T)
           /\ c # q => I!LexStep(Quoting(q, v, T), c) = Quoting(q, Append(v, c), T)
           /\ I!LexStep(Quoting(q, v, T), q) = Closing(q, v, T)
           /\ I!LexStep(Closing(q, v, T), q) = Quoting(q, Append(v, q), T)
<1>1. I!LexStep(Outside(T), q) = Quoting(q, << >>, T)
  <2>1. Outside(T).in = "none" /\ Outside(T).tokens = T
    BY DEF Outside
  <2> QED  BY <2>1 DEF I!LexStep, Quotes, Quoting
<1>2. c # q => I!LexStep(Quoting(q, v, T), c) = Quoting(q, Append(v, c), T)
  <2> PICK w : w = Append(v, c)
    OBVIOUS
  <2>1. Quoting(q, v, T).in = "quotes" /\ Quoting(q, v, T).quote = q /\ Quoting(q, v, T).text = v
    BY DEF Quoting
  <2>2. c # q => I!LexStep(Quoting(q, v, T), c) = [Quoting(q, v, T) EXCEPT !.text = w]
    BY <2>1 DEF I!LexStep
  <2>3. [Quoting(q, v, T) EXCEPT !.text = w] = Quoting(q, w, T)
    <3> PICK r : r = Quoting(q, v, T)
      OBVIOUS
    <3>1. r \in [in : {"quotes"}, quote : {q}, text : {v}, tokens : {T}]
      BY DEF Quoting
    <3>2. [r EXCEPT !.text = w] \in [in : {"quotes"}, quote : {q}, text : {w}, tokens : {T}]
      BY <3>1
    <3> PICK x : x = [r EXCEPT !.text = w]
      OBVIOUS
    <3>3. x \in [in : {"quotes"}, quote : {q}, text : {w}, tokens : {T}]
      BY <3>2
    <3>4. x = [in |-> "quotes", quote |-> q, text |-> w, tokens |-> T]
      BY <3>3
    <3> QED  BY <3>4 DEF Quoting
  <2> QED  BY <2>2, <2>3
<1>3. I!LexStep(Quoting(q, v, T), q) = Closing(q, v, T)
  <2>1. Quoting(q, v, T).in = "quotes" /\ Quoting(q, v, T).quote = q
    BY DEF Quoting
  <2>2. I!LexStep(Quoting(q, v, T), q) = [Quoting(q, v, T) EXCEPT !.in = "closing"]
    BY <2>1 DEF I!LexStep
  <2> QED  BY <2>2 DEF Quoting, Closing
<1>4. I!LexStep(Closing(q, v, T), q) = Quoting(q, Append(v, q), T)
  <2> PICK w : w = Append(v, q)
    OBVIOUS
  <2>1. Closing(q, v, T).in = "closing" /\ Closing(q, v, T).quote = q /\ Closing(q, v, T).text = v
    BY DEF Closing
  <2>2. I!LexStep(Closing(q, v, T), q) = [[Closing(q, v, T) EXCEPT !.in = "quotes"] EXCEPT !.text = w]
    BY <2>1 DEF I!LexStep
  <2>3. [[Closing(q, v, T) EXCEPT !.in = "quotes"] EXCEPT !.text = w] = Quoting(q, w, T)
    <3> PICK r : r = Closing(q, v, T)
      OBVIOUS
    <3>1. r \in [in : {"closing"}, quote : {q}, text : {v}, tokens : {T}]
      BY DEF Closing
    <3> PICK x : x = [[r EXCEPT !.in = "quotes"] EXCEPT !.text = w]
      OBVIOUS
    <3>2. x \in [in : {"quotes"}, quote : {q}, text : {w}, tokens : {T}]
      BY <3>1
    <3>3. x = [in |-> "quotes", quote |-> q, text |-> w, tokens |-> T]
      BY <3>2
    <3> QED  BY <3>3 DEF Quoting
  <2> QED  BY <2>2, <2>3
<1> QED  BY <1>1, <1>2, <1>3, <1>4

LEMMA SameFlattenSeq == \A s : I!FlattenSeq(s) = FlattenSeq(s)
  BY DEF I!FlattenSeq, FlattenSeq

LEMMA ReadsDoubled ==
    ASSUME NEW C, NEW q \in Quotes, q \in C, NEW T, NEW v \in Seq(C)
    PROVE  I!Doubled(v, q) \in Seq(C) /\ Reads(Quoting(q, << >>, T), I!Doubled(v, q), Quoting(q, v, T))
<1> PICK n \in Nat : n = Len(v)
  OBVIOUS
<1> DEFINE seqs == [i \in 1 .. n |-> IF v[i] = q THEN <<q, q>> ELSE <<v[i]>>]
<1>1. I!Doubled(v, q) = FlattenSeq(seqs)
  <2>1. DOMAIN v = 1 .. n
    OBVIOUS
  <2> QED  BY <2>1, SameFlattenSeq DEF I!Doubled
<1>4. \A i \in 1 .. n : v[i] \in C
  BY SeqDef
<1>5. \A i \in 1 .. n : seqs[i] \in Seq(C)
  <2>1. \A c \in C : <<c>> \in Seq(C) /\ <<q, q>> \in Seq(C)
    OBVIOUS
  <2> QED  BY <1>4, <2>1
<1>6. seqs \in Seq(Seq(C)) /\ Len(seqs) = n
  <2>1. seqs \in [1 .. n -> Seq(C)]
    BY <1>5
  <2> QED  BY <2>1, SeqDef
<1>7. \A i \in 1 .. n : seqs[i] = IF v[i] = q THEN <<q, q>> ELSE <<v[i]>>
  OBVIOUS
<1> HIDE DEF seqs
<1>2. CASE n = 0
  <2>1. seqs = << >> /\ v = << >>
    BY <1>2, <1>6, EmptySeq
  <2>2. I!Doubled(v, q) = << >>
    BY <1>1, <2>1, FlattenNothing
  <2> QED  BY <2>1, <2>2, ReadsNothing, EmptySeq
<1>3. CASE n # 0
  <2>5. PICK b : FlattensTo(n, C, seqs, b)
    BY <1>3, <1>6, Flattens
  <2> DEFINE start == Quoting(q, << >>, T)
             now(i) == Quoting(q, SubSeq(v, 1, i), T)
             R == {i \in 1 .. n : Reads(start, b[i], now(i))}
  <2>6. ASSUME NEW i \in 1 .. n, NEW w PROVE Reads(Quoting(q, w, T), seqs[i], Quoting(q, Append(w, v[i]), T))
    <3>1. CASE v[i] # q
      <4>1. I!LexStep(Quoting(q, w, T), v[i]) = Quoting(q, Append(w, v[i]), T)
        BY <3>1, QuoteSteps
      <4> QED  BY <1>7, <3>1, <4>1, ReadsOne
    <3>2. CASE v[i] = q
      <4>1. Reads(Quoting(q, w, T), <<q>>, Closing(q, w, T))
        BY QuoteSteps, ReadsOne
      <4>2. Reads(Closing(q, w, T), <<q>>, Quoting(q, Append(w, q), T))
        BY QuoteSteps, ReadsOne
      <4>3. <<q>> \in Seq(C) /\ <<q>> \o <<q>> = <<q, q>>
        <5> PICK o : o = <<q>>
          OBVIOUS
        <5> PICK oo : oo = <<q, q>>
          OBVIOUS
        <5>1. o \in Seq(C) /\ oo \in Seq(C) /\ Len(o) = 1 /\ Len(oo) = 2 /\ o[1] = q /\ oo[1] = q /\ oo[2] = q
          OBVIOUS
        <5>2. o \o o \in Seq(C) /\ Len(o \o o) = 2 /\ (o \o o)[1] = q /\ (o \o o)[2] = q
          BY <5>1
        <5>3. \A k \in 1 .. 2 : (o \o o)[k] = oo[k]
          BY <5>1, <5>2
        <5>4. o \o o = oo
          BY <5>1, <5>2, <5>3, SeqEqual
        <5> QED  BY <5>1, <5>4
      <4>4. Reads(Quoting(q, w, T), <<q>> \o <<q>>, Quoting(q, Append(w, q), T))
        BY <4>1, <4>2, <4>3, ReadsOn
      <4> QED  BY <1>7, <3>2, <4>3, <4>4
    <3> QED  BY <3>1, <3>2
  <2>7. \A i \in 1 .. n : SubSeq(v, 1, i) = Append(SubSeq(v, 1, i - 1), v[i])
    <3> TAKE i \in 1 .. n
    <3>1. SubSeq(v, 1, i) \in Seq(C) /\ Len(SubSeq(v, 1, i)) = i /\ \A k \in 1 .. i : SubSeq(v, 1, i)[k] = v[k]
      BY <1>4
    <3>2. SubSeq(v, 1, i - 1) \in Seq(C) /\ Len(SubSeq(v, 1, i - 1)) = i - 1 /\ \A k \in 1 .. i - 1 : SubSeq(v, 1, i - 1)[k] = v[k]
      BY <1>4
    <3> PICK u \in Seq(C) : u = SubSeq(v, 1, i - 1)
      BY <3>2
    <3> PICK x \in Seq(C) : x = SubSeq(v, 1, i)
      BY <3>1
    <3>3. v[i] \in C
      BY <1>4
    <3>4. Len(x) = Len(Append(u, v[i])) /\ \A k \in 1 .. Len(x) : x[k] = Append(u, v[i])[k]
      BY <3>1, <3>2, <3>3
    <3>5. x = Append(u, v[i])
      BY <3>3, <3>4, SeqEqual
    <3> QED  BY <3>5
  <2>8. 1 \in R
    <3>1. 1 \in 1 .. n
      BY <1>3
    <3>2. SubSeq(v, 1, 1 - 1) = << >>
      OBVIOUS
    <3>3. Reads(start, seqs[1], Quoting(q, Append(<< >>, v[1]), T))
      BY <2>6, <3>1
    <3> HIDE DEF start
    <3>4. Append(<< >>, v[1]) = SubSeq(v, 1, 1)
      BY <2>7, <3>1, <3>2
    <3> QED  BY <2>5, <3>1, <3>3, <3>4 DEF FlattensTo
  <2>9. ASSUME NEW i \in 2 .. n, i - 1 \in R PROVE i \in R
    <3>1. i \in 1 .. n /\ i - 1 \in 1 .. n
      OBVIOUS
    <3>2. Reads(start, b[i - 1], now(i - 1))
      BY <2>9
    <3>3. Reads(now(i - 1), seqs[i], now(i))
      BY <2>6, <2>7, <3>1
    <3> HIDE DEF start, now
    <3>4. b[i - 1] \in Seq(C) /\ seqs[i] \in Seq(C) /\ b[i] = b[i - 1] \o seqs[i]
      BY <1>5, <2>5, <3>1 DEF FlattensTo
    <3>5. Reads(start, b[i], now(i))
      BY <3>2, <3>3, <3>4, ReadsOn
    <3> QED  BY <3>1, <3>5
  <2> HIDE DEF R
  <2>13. \A i \in 1 .. n : i \in R
    BY <2>8, <2>9, Upwards
  <2>10. n \in 1 .. n /\ \A i \in 1 .. n : i \in R
    BY <1>3, <2>13
  <2>11. Reads(start, b[n], now(n))
    BY <2>10 DEF R
  <2>12. SubSeq(v, 1, n) = v
    <3>1. DOMAIN v = 1 .. n
      OBVIOUS
    <3> QED  BY <3>1
  <2> QED  BY <1>1, <2>5, <2>10, <2>11, <2>12 DEF FlattensTo
<1> QED  BY <1>2, <1>3

LEMMA ReadsQuoted ==
    ASSUME NEW C, NEW q \in Quotes, q \in C, NEW T, NEW v \in Seq(C)
    PROVE  /\ (<<q>> \o I!Doubled(v, q)) \o <<q>> \in Seq(C)
           /\ Reads(Outside(T), (<<q>> \o I!Doubled(v, q)) \o <<q>>, Closing(q, v, T))
<1> PICK d \in Seq(C) : d = I!Doubled(v, q)
  BY ReadsDoubled
<1> PICK o : o = <<q>>
  OBVIOUS
<1>1. o \in Seq(C) /\ o \o d \in Seq(C) /\ (o \o d) \o o \in Seq(C)
  OBVIOUS
<1>2. Reads(Outside(T), o, Quoting(q, << >>, T))
  BY QuoteSteps, ReadsOne
<1>3. Reads(Quoting(q, << >>, T), d, Quoting(q, v, T))
  BY ReadsDoubled
<1>4. Reads(Quoting(q, v, T), o, Closing(q, v, T))
  BY QuoteSteps, ReadsOne
<1>5. Reads(Outside(T), o \o d, Quoting(q, v, T))
  BY <1>1, <1>2, <1>3, ReadsOn
<1>6. Reads(Outside(T), (o \o d) \o o, Closing(q, v, T))
  BY <1>1, <1>4, <1>5, ReadsOn
<1> QED  BY <1>1, <1>6

\* A token; the states of the lexer in which a text may begin and end.
Lexemes(C) == [kind : C, text : Seq(C)]
At(p, C, T, s) == (p = "outside" /\ s = Outside(T)) \/ (p = "ready" /\ Ready(C, T, s))

\* The text x, from p on, is read as the tokens t, and q is where it ends.
Fragment(C, p, x, t, q) ==
    /\ x \in Seq(C) /\ t \in Seq(Lexemes(C))
    /\ \A T \in Seq(Lexemes(C)) : \A s :
          At(p, C, T, s) => \E s2 : At(q, C, T \o t, s2) /\ Reads(s, x, s2)

LEMMA AnyIsReady ==
    ASSUME NEW C, NEW x, NEW t, NEW p
    PROVE  /\ Fragment(C, "ready", x, t, p) => Fragment(C, "outside", x, t, p)
           /\ Fragment(C, p, x, t, "outside") => Fragment(C, p, x, t, "ready")
<1>1. \A T, s : At("outside", C, T, s) => At("ready", C, T, s)
  BY DEF At, Ready
<1> QED  BY <1>1 DEF Fragment

LEMMA ReadInTurn ==
    ASSUME NEW C, NEW p, NEW q, NEW r, NEW x, NEW y, NEW t, NEW u,
           Fragment(C, p, x, t, q), Fragment(C, q, y, u, r)
    PROVE  Fragment(C, p, x \o y, t \o u, r)
<1>1. x \in Seq(C) /\ y \in Seq(C) /\ t \in Seq(Lexemes(C)) /\ u \in Seq(Lexemes(C))
  BY DEF Fragment
<1>2. x \o y \in Seq(C) /\ t \o u \in Seq(Lexemes(C))
  BY <1>1, ConcatProperties
<1>3. ASSUME NEW T \in Seq(Lexemes(C)), NEW s, At(p, C, T, s)
      PROVE  \E s3 : At(r, C, T \o (t \o u), s3) /\ Reads(s, x \o y, s3)
  <2>1. PICK s2 : At(q, C, T \o t, s2) /\ Reads(s, x, s2)
    BY <1>3 DEF Fragment
  <2>2. T \o t \in Seq(Lexemes(C))
    BY <1>1, ConcatProperties
  <2>3. PICK s3 : At(r, C, (T \o t) \o u, s3) /\ Reads(s2, y, s3)
    BY <2>1, <2>2 DEF Fragment
  <2>4. (T \o t) \o u = T \o (t \o u)
    BY <1>1, ConcatAssociative
  <2>5. Reads(s, x \o y, s3)
    BY <1>1, <2>1, <2>3, ReadsOn
  <2> QED  BY <2>3, <2>4, <2>5
<1> QED  BY <1>2, <1>3 DEF Fragment

LEMMA ReadNothing ==
    ASSUME NEW C, NEW p
    PROVE  Fragment(C, p, << >>, << >>, p)
<1>1. << >> \in Seq(C) /\ << >> \in Seq(Lexemes(C))
  OBVIOUS
<1>2. \A T \in Seq(Lexemes(C)) : T \o << >> = T
  BY ConcatEmptySeq
<1> QED  BY <1>1, <1>2, ReadsNothing DEF Fragment

LEMMA ReadSymbol ==
    ASSUME NEW C, NEW c \in C \ Quotes
    PROVE  Fragment(C, "ready", <<c>>, I!Lexeme(c, << >>), "outside")
<1>1. <<c>> \in Seq(C)
  OBVIOUS
<1>2. I!Lexeme(c, << >>) \in Seq(Lexemes(C))
  <2>1. [kind |-> c, text |-> << >>] \in Lexemes(C)
    BY DEF Lexemes
  <2> QED  BY <2>1 DEF I!Lexeme
<1>3. ASSUME NEW T, NEW s, At("ready", C, T, s)
      PROVE  \E s2 : At("outside", C, T \o I!Lexeme(c, << >>), s2) /\ Reads(s, <<c>>, s2)
  <2>1. I!LexStep(s, c) = Outside(T \o I!Lexeme(c, << >>))
    BY <1>3, ReadySteps DEF At
  <2>2. Reads(s, <<c>>, I!LexStep(s, c))
    BY ReadsOne
  <2> QED  BY <2>1, <2>2 DEF At
<1> QED  BY <1>1, <1>2, <1>3 DEF Fragment

LEMMA ReadQuote ==
    ASSUME NEW C, NEW q \in Quotes, q \in C, NEW v \in Seq(C)
    PROVE  Fragment(C, "outside", (<<q>> \o I!Doubled(v, q)) \o <<q>>, I!Lexeme(q, v), "ready")
<1> PICK x : x = (<<q>> \o I!Doubled(v, q)) \o <<q>>
  OBVIOUS
<1>1. x \in Seq(C)
  BY ReadsQuoted
<1>2. I!Lexeme(q, v) \in Seq(Lexemes(C))
  <2>1. [kind |-> q, text |-> v] \in Lexemes(C)
    BY DEF Lexemes
  <2> QED  BY <2>1 DEF I!Lexeme
<1>3. ASSUME NEW T \in Seq(Lexemes(C)), NEW s, At("outside", C, T, s)
      PROVE  \E s2 : At("ready", C, T \o I!Lexeme(q, v), s2) /\ Reads(s, x, s2)
  <2>1. s = Outside(T)
    BY <1>3 DEF At
  <2>2. Reads(s, x, Closing(q, v, T))
    BY <2>1, ReadsQuoted
  <2>3. At("ready", C, T \o I!Lexeme(q, v), Closing(q, v, T))
    BY DEF At, Ready, Lexemes
  <2> QED  BY <2>2, <2>3
<1> QED  BY <1>1, <1>2, <1>3 DEF Fragment

\* Two characters together.
LEMMA Pair ==
    ASSUME NEW C, NEW a \in C, NEW b \in C
    PROVE  <<a>> \o <<b>> = <<a, b>>
<1> PICK x : x = <<a>>
  OBVIOUS
<1> PICK y : y = <<b>>
  OBVIOUS
<1> PICK z : z = <<a, b>>
  OBVIOUS
<1>1. x \in Seq(C) /\ y \in Seq(C) /\ z \in Seq(C) /\ Len(x) = 1 /\ Len(y) = 1 /\ Len(z) = 2
      /\ x[1] = a /\ y[1] = b /\ z[1] = a /\ z[2] = b
  OBVIOUS
<1>2. x \o y \in Seq(C) /\ Len(x \o y) = 2 /\ (x \o y)[1] = a /\ (x \o y)[2] = b
  BY <1>1
<1>3. \A k \in 1 .. 2 : (x \o y)[k] = z[k]
  BY <1>1, <1>2
<1>4. x \o y = z
  BY <1>1, <1>2, <1>3, SeqEqual
<1> QED  BY <1>4

\* The characters of a statement.
Symbols == {"CREATE FOREIGN TABLE", ".", "(", ",", ")", "SERVER", "OPTIONS"}
IsAlphabet(C) == Quotes \subseteq C /\ Symbols \subseteq C

LEMMA ReadSymbols ==
    ASSUME NEW C, IsAlphabet(C), NEW c \in Symbols
    PROVE  Fragment(C, "ready", <<c>>, I!Lexeme(c, << >>), "outside")
<1>1. c \in C \ Quotes
  BY DEF IsAlphabet, Symbols, Quotes
<1> QED  BY <1>1, ReadSymbol

\* The tokens of what Joined puts together.
ListOf(parts) ==
    I!FlattenSeq([i \in DOMAIN parts |-> IF i = 1 THEN parts[i] ELSE I!Lexeme(",", << >>) \o parts[i]])

AllFragments(C, n, parts, toks) ==
    /\ DOMAIN parts = 1 .. n /\ DOMAIN toks = 1 .. n
    /\ \A i \in 1 .. n : Fragment(C, "outside", parts[i], toks[i], "ready")

LEMMA ReadJoined ==
    ASSUME NEW C, IsAlphabet(C), NEW n \in Nat \ {0}, NEW parts, NEW toks,
           AllFragments(C, n, parts, toks)
    PROVE  Fragment(C, "outside", I!Joined(parts), ListOf(toks), "ready")
<1> DEFINE xs == [i \in 1 .. n |-> IF i = 1 THEN parts[i] ELSE <<",">> \o parts[i]]
           ts == [i \in 1 .. n |-> IF i = 1 THEN toks[i] ELSE I!Lexeme(",", << >>) \o toks[i]]
<1>1. I!Joined(parts) = FlattenSeq(xs) /\ ListOf(toks) = FlattenSeq(ts)
  BY SameFlattenSeq DEF I!Joined, ListOf, AllFragments
<1>2. \A i \in 1 .. n : /\ xs[i] = IF i = 1 THEN parts[i] ELSE <<",">> \o parts[i]
                        /\ ts[i] = IF i = 1 THEN toks[i] ELSE I!Lexeme(",", << >>) \o toks[i]
  OBVIOUS
<1>10. xs = [i \in 1 .. n |-> xs[i]] /\ ts = [i \in 1 .. n |-> ts[i]]
  OBVIOUS
<1> HIDE DEF xs, ts
<1>3. Fragment(C, "outside", xs[1], ts[1], "ready")
  <2>1. 1 \in 1 .. n
    OBVIOUS
  <2> QED  BY <1>2, <2>1 DEF AllFragments
<1>4. ASSUME NEW i \in 2 .. n PROVE Fragment(C, "ready", xs[i], ts[i], "ready")
  <2>1. i \in 1 .. n /\ i # 1
    OBVIOUS
  <2>2. Fragment(C, "ready", <<",">>, I!Lexeme(",", << >>), "outside")
    <3>1. "," \in Symbols
      BY DEF Symbols
    <3> QED  BY <3>1, ReadSymbols
  <2>3. Fragment(C, "outside", parts[i], toks[i], "ready")
    BY <2>1 DEF AllFragments
  <2>4. Fragment(C, "ready", <<",">> \o parts[i], I!Lexeme(",", << >>) \o toks[i], "ready")
    BY <2>2, <2>3, ReadInTurn
  <2> QED  BY <1>2, <2>1, <2>4
<1>5. \A i \in 1 .. n : xs[i] \in Seq(C) /\ ts[i] \in Seq(Lexemes(C))
  <2> TAKE i \in 1 .. n
  <2>1. i = 1 \/ i \in 2 .. n
    OBVIOUS
  <2> QED  BY <1>3, <1>4, <2>1 DEF Fragment
<1>6. xs \in Seq(Seq(C)) /\ Len(xs) = n /\ ts \in Seq(Seq(Lexemes(C))) /\ Len(ts) = n
  <2>1. xs \in [1 .. n -> Seq(C)] /\ ts \in [1 .. n -> Seq(Lexemes(C))]
    BY <1>5, <1>10
  <2> QED  BY <2>1, SeqDef
<1>7. PICK b : FlattensTo(n, C, xs, b)
  BY <1>6, Flattens
<1>8. PICK d : FlattensTo(n, Lexemes(C), ts, d)
  BY <1>6, Flattens
<1> DEFINE R == {i \in 1 .. n : Fragment(C, "outside", b[i], d[i], "ready")}
<1>9. 1 \in R
  <2>1. 1 \in 1 .. n
    OBVIOUS
  <2> QED  BY <1>3, <1>7, <1>8, <2>1 DEF FlattensTo
<1>11. ASSUME NEW i \in 2 .. n, i - 1 \in R PROVE i \in R
  <2>1. i \in 1 .. n
    OBVIOUS
  <2>2. Fragment(C, "outside", b[i - 1], d[i - 1], "ready")
    BY <1>11
  <2>3. Fragment(C, "outside", b[i - 1] \o xs[i], d[i - 1] \o ts[i], "ready")
    BY <1>4, <2>2, ReadInTurn
  <2>4. b[i] = b[i - 1] \o xs[i] /\ d[i] = d[i - 1] \o ts[i]
    BY <1>7, <1>8 DEF FlattensTo
  <2> QED  BY <2>1, <2>3, <2>4
<1> HIDE DEF R
<1>12. \A i \in 1 .. n : i \in R
  BY <1>9, <1>11, Upwards
<1>13. Fragment(C, "outside", b[n], d[n], "ready")
  <2>1. n \in 1 .. n
    OBVIOUS
  <2> QED  BY <1>12, <2>1 DEF R
<1> QED  BY <1>1, <1>7, <1>8, <1>13 DEF FlattensTo

\* Definitions of which the names and the values of options are texts, and the
\* names of types and of options are characters.
OptionLists(C) == Seq((C \ Quotes) \X Seq(C))
ColumnDefinitions(C) == [name : Seq(C), type_name : C \ Quotes, options : OptionLists(C)]
TableDefinitions(C) == [table_name : Seq(C), columns : Seq(ColumnDefinitions(C)), options : OptionLists(C)]

\* The tokens that StatementReads expects.
OptionTokens(options) ==
    IF options = << >> THEN << >>
    ELSE I!Lexeme("OPTIONS", << >>) \o I!Lexeme("(", << >>)
         \o ListOf([i \in DOMAIN options |-> I!Lexeme(options[i][1], << >>) \o I!Lexeme("'", options[i][2])])
         \o I!Lexeme(")", << >>)
ColumnTokens(c) == I!Lexeme("\"", c.name) \o I!Lexeme(c.type_name, << >>) \o OptionTokens(c.options)
StatementTokens(d, schema_name, server_name) ==
    I!Lexeme("CREATE FOREIGN TABLE", << >>) \o I!Lexeme("\"", schema_name) \o I!Lexeme(".", << >>)
    \o I!Lexeme("\"", d.table_name)
    \o I!Lexeme("(", << >>) \o ListOf([i \in DOMAIN d.columns |-> ColumnTokens(d.columns[i])])
    \o I!Lexeme(")", << >>) \o I!Lexeme("SERVER", << >>) \o I!Lexeme("\"", server_name) \o OptionTokens(d.options)

LEMMA ReadIdentifier ==
    ASSUME NEW C, IsAlphabet(C), NEW v \in Seq(C)
    PROVE  /\ Fragment(C, "outside", I!quote_identifier(v), I!Lexeme("\"", v), "ready")
           /\ Fragment(C, "outside", I!quote_option(v), I!Lexeme("'", v), "ready")
<1>1. \A q \in Quotes : Fragment(C, "outside", (<<q>> \o I!Doubled(v, q)) \o <<q>>, I!Lexeme(q, v), "ready")
  <2>1. \A q \in Quotes : q \in C
    BY DEF IsAlphabet
  <2> QED  BY <2>1, ReadQuote
<1>2. "\"" \in Quotes /\ "'" \in Quotes
  BY DEF Quotes
<1> QED  BY <1>1, <1>2 DEF I!quote_identifier, I!quote_option

LEMMA ReadOptions ==
    ASSUME NEW C, IsAlphabet(C), NEW options \in OptionLists(C)
    PROVE  Fragment(C, "ready", I!Options(options), OptionTokens(options), "ready")
<1>1. CASE options = << >>
  BY <1>1, ReadNothing DEF I!Options, OptionTokens
<1>2. CASE options # << >>
  <2> PICK n \in Nat : n = Len(options)
    BY DEF OptionLists
  <2> DEFINE parts == [i \in DOMAIN options |-> <<options[i][1]>> \o I!quote_option(options[i][2])]
             toks == [i \in DOMAIN options |-> I!Lexeme(options[i][1], << >>) \o I!Lexeme("'", options[i][2])]
  <2>1. DOMAIN options = 1 .. n /\ n # 0 /\ \A i \in 1 .. n : options[i] \in (C \ Quotes) \X Seq(C)
    <3> PICK S : S = (C \ Quotes) \X Seq(C)
      OBVIOUS
    <3>1. options \in Seq(S)
      BY DEF OptionLists
    <3>2. DOMAIN options = 1 .. n /\ n # 0
      BY <1>2, <3>1, EmptySeq
    <3>3. \A i \in 1 .. n : options[i] \in S
      BY <3>1
    <3> QED  BY <3>2, <3>3
  <2>2. \A i \in 1 .. n : options[i][1] \in C \ Quotes /\ options[i][2] \in Seq(C)
    BY <2>1
  <2>3. \A i \in 1 .. n : Fragment(C, "outside", parts[i], toks[i], "ready")
    <3> TAKE i \in 1 .. n
    <3> PICK k \in C \ Quotes : k = options[i][1]
      BY <2>2
    <3> PICK v \in Seq(C) : v = options[i][2]
      BY <2>2
    <3>1. Fragment(C, "outside", <<k>>, I!Lexeme(k, << >>), "outside")
      BY ReadSymbol, AnyIsReady
    <3>2. Fragment(C, "outside", I!quote_option(v), I!Lexeme("'", v), "ready")
      BY ReadIdentifier
    <3>3. Fragment(C, "outside", <<k>> \o I!quote_option(v), I!Lexeme(k, << >>) \o I!Lexeme("'", v), "ready")
      BY <3>1, <3>2, ReadInTurn
    <3> QED  BY <2>1, <3>3
  <2>4. DOMAIN parts = 1 .. n /\ DOMAIN toks = 1 .. n
    BY <2>1
  <2>5. I!Options(options) = ((<<"OPTIONS", "(">> \o I!Joined(parts)) \o <<")">>)
    BY <1>2 DEF I!Options, I!dict_to_optionstring
  <2>6. OptionTokens(options) = ((I!Lexeme("OPTIONS", << >>) \o I!Lexeme("(", << >>)) \o ListOf(toks)) \o I!Lexeme(")", << >>)
    BY <1>2 DEF OptionTokens
  <2> HIDE DEF parts, toks
  <2>7. Fragment(C, "outside", I!Joined(parts), ListOf(toks), "ready")
    <3>1. AllFragments(C, n, parts, toks)
      BY <2>3, <2>4 DEF AllFragments
    <3>2. n \in Nat \ {0}
      BY <2>1
    <3> QED  BY <3>1, <3>2, ReadJoined
  <2>8. /\ Fragment(C, "ready", <<"OPTIONS">>, I!Lexeme("OPTIONS", << >>), "outside")
        /\ Fragment(C, "outside", <<"(">>, I!Lexeme("(", << >>), "outside")
        /\ Fragment(C, "ready", <<")">>, I!Lexeme(")", << >>), "ready")
    <3>1. "OPTIONS" \in Symbols /\ "(" \in Symbols /\ ")" \in Symbols
      BY DEF Symbols
    <3> QED  BY <3>1, ReadSymbols, AnyIsReady
  <2>9. <<"OPTIONS">> \o <<"(">> = <<"OPTIONS", "(">>
    <3>1. \A a, b \in Symbols : <<a>> \o <<b>> = <<a, b>>
      BY Pair
    <3>2. "OPTIONS" \in Symbols /\ "(" \in Symbols
      BY DEF Symbols
    <3> QED  BY <3>1, <3>2
  <2>10. Fragment(C, "ready", <<"OPTIONS", "(">>, I!Lexeme("OPTIONS", << >>) \o I!Lexeme("(", << >>), "outside")
    BY <2>8, <2>9, ReadInTurn
  <2>11. Fragment(C, "ready", <<"OPTIONS", "(">> \o I!Joined(parts),
                  (I!Lexeme("OPTIONS", << >>) \o I!Lexeme("(", << >>)) \o ListOf(toks), "ready")
    BY <2>7, <2>10, ReadInTurn
  <2>12. Fragment(C, "ready", (<<"OPTIONS", "(">> \o I!Joined(parts)) \o <<")">>,
                  ((I!Lexeme("OPTIONS", << >>) \o I!Lexeme("(", << >>)) \o ListOf(toks)) \o I!Lexeme(")", << >>), "ready")
    BY <2>8, <2>11, ReadInTurn
  <2> QED  BY <2>5, <2>6, <2>12
<1> QED  BY <1>1, <1>2

LEMMA ReadColumn ==
    ASSUME NEW C, IsAlphabet(C), NEW c \in ColumnDefinitions(C)
    PROVE  Fragment(C, "outside", I!ColumnStatement(c), ColumnTokens(c), "ready")
<1> PICK n \in Seq(C) : n = c.name
  BY DEF ColumnDefinitions
<1> PICK y \in C \ Quotes : y = c.type_name
  BY DEF ColumnDefinitions
<1> PICK o \in OptionLists(C) : o = c.options
  BY DEF ColumnDefinitions
<1>1. Fragment(C, "outside", I!quote_identifier(n), I!Lexeme("\"", n), "ready")
  BY ReadIdentifier
<1>2. Fragment(C, "ready", <<y>>, I!Lexeme(y, << >>), "ready")
  BY ReadSymbol, AnyIsReady
<1>3. Fragment(C, "ready", I!Options(o), OptionTokens(o), "ready")
  BY ReadOptions
<1>4. Fragment(C, "outside", I!quote_identifier(n) \o <<y>>, I!Lexeme("\"", n) \o I!Lexeme(y, << >>), "ready")
  BY <1>1, <1>2, ReadInTurn
<1>5. Fragment(C, "outside", (I!quote_identifier(n) \o <<y>>) \o I!Options(o),
               (I!Lexeme("\"", n) \o I!Lexeme(y, << >>)) \o OptionTokens(o), "ready")
  BY <1>3, <1>4, ReadInTurn
<1> QED  BY <1>5 DEF I!ColumnStatement, ColumnTokens

LEMMA ReadColumns ==
    ASSUME NEW C, IsAlphabet(C), NEW columns \in Seq(ColumnDefinitions(C))
    PROVE  Fragment(C, "outside", I!Joined([i \in DOMAIN columns |-> I!ColumnStatement(columns[i])]),
                    ListOf([i \in DOMAIN columns |-> ColumnTokens(columns[i])]), "ready")
<1> PICK S : S = ColumnDefinitions(C)
  OBVIOUS
<1> PICK n \in Nat : n = Len(columns)
  OBVIOUS
<1> DEFINE parts == [i \in DOMAIN columns |-> I!ColumnStatement(columns[i])]
           toks == [i \in DOMAIN columns |-> ColumnTokens(columns[i])]
<1>1. DOMAIN columns = 1 .. n /\ \A i \in 1 .. n : columns[i] \in S
  BY SeqDef
<1>2. DOMAIN parts = 1 .. n /\ DOMAIN toks = 1 .. n
  BY <1>1
<1>3. \A i \in 1 .. n : Fragment(C, "outside", parts[i], toks[i], "ready")
  <2> TAKE i \in 1 .. n
  <2> PICK c \in S : c = columns[i]
    BY <1>1
  <2>1. Fragment(C, "outside", I!ColumnStatement(c), ColumnTokens(c), "ready")
    BY ReadColumn
  <2> QED  BY <1>1, <2>1
<1>4. CASE n = 0
  <2>1. columns = << >>
    BY <1>4, EmptySeq
  <2>2. I!Joined(parts) = << >> /\ ListOf(toks) = << >>
    BY <2>1, FlattenNothing, SameFlattenSeq DEF I!Joined, ListOf
  <2>3. Fragment(C, "outside", << >>, << >>, "ready")
    BY ReadNothing, AnyIsReady
  <2> HIDE DEF parts, toks
  <2>4. Fragment(C, "outside", I!Joined(parts), ListOf(toks), "ready")
    BY <2>2, <2>3
  <2> QED  BY <2>4 DEF parts, toks
<1>5. CASE n # 0
  <2> HIDE DEF parts, toks
  <2>1. AllFragments(C, n, parts, toks)
    BY <1>2, <1>3 DEF AllFragments
  <2>2. n \in Nat \ {0}
    BY <1>5
  <2>3. Fragment(C, "outside", I!Joined(parts), ListOf(toks), "ready")
    BY <2>1, <2>2, ReadJoined
  <2> QED  BY <2>3 DEF parts, toks
<1> QED  BY <1>4, <1>5

LEMMA ReadStatement ==
    ASSUME NEW C, IsAlphabet(C), NEW d \in TableDefinitions(C), NEW schema \in Seq(C), NEW server \in Seq(C)
    PROVE  Fragment(C, "ready", I!to_statement(d, schema, server), StatementTokens(d, schema, server), "ready")
<1> PICK table \in Seq(C) : table = d.table_name
  BY DEF TableDefinitions
<1> PICK options \in OptionLists(C) : options = d.options
  BY DEF TableDefinitions
<1> PICK columns \in Seq(ColumnDefinitions(C)) : columns = d.columns
  BY DEF TableDefinitions
<1> PICK list : list = I!Joined([i \in DOMAIN columns |-> I!ColumnStatement(columns[i])])
  OBVIOUS
<1> PICK tokens : tokens = ListOf([i \in DOMAIN columns |-> ColumnTokens(columns[i])])
  OBVIOUS
<1> DEFINE x1 == <<"CREATE FOREIGN TABLE">>
           t1 == I!Lexeme("CREATE FOREIGN TABLE", << >>)
           x2 == x1 \o I!quote_identifier(schema)
           t2 == t1 \o I!Lexeme("\"", schema)
           x3 == x2 \o <<".">>
           t3 == t2 \o I!Lexeme(".", << >>)
           x4 == x3 \o I!quote_identifier(table)
           t4 == t3 \o I!Lexeme("\"", table)
           x5 == x4 \o <<"(">>
           t5 == t4 \o I!Lexeme("(", << >>)
           x6 == x5 \o list
           t6 == t5 \o tokens
           x7 == x6 \o <<")">>
           t7 == t6 \o I!Lexeme(")", << >>)
           x8 == x7 \o <<"SERVER">>
           t8 == t7 \o I!Lexeme("SERVER", << >>)
           x9 == x8 \o I!quote_identifier(server)
           t9 == t8 \o I!Lexeme("\"", server)
           x10 == x9 \o I!Options(options)
           t10 == t9 \o OptionTokens(options)
<1>1. I!to_statement(d, schema, server) = (((x6 \o <<")", "SERVER">>) \o I!quote_identifier(server)) \o I!Options(options))
  BY DEF I!to_statement
<1>2. StatementTokens(d, schema, server) = t10
  BY DEF StatementTokens
<1>3. \A c \in Symbols : /\ Fragment(C, "ready", <<c>>, I!Lexeme(c, << >>), "outside")
                         /\ Fragment(C, "outside", <<c>>, I!Lexeme(c, << >>), "outside")
  BY ReadSymbols, AnyIsReady
<1>4. \A v \in Seq(C) : Fragment(C, "outside", I!quote_identifier(v), I!Lexeme("\"", v), "ready")
  BY ReadIdentifier
<1>5. Fragment(C, "outside", list, tokens, "ready")
  BY ReadColumns
<1>6. Fragment(C, "ready", I!Options(options), OptionTokens(options), "ready")
  BY ReadOptions
<1>7. "CREATE FOREIGN TABLE" \in Symbols /\ "." \in Symbols /\ "(" \in Symbols /\ ")" \in Symbols /\ "SERVER" \in Symbols
  BY DEF Symbols
<1>8. Fragment(C, "ready", x2, t2, "ready")
  BY <1>3, <1>4, <1>7, ReadInTurn
<1>9. Fragment(C, "ready", x3, t3, "outside")
  <2> HIDE DEF x2, t2
  <2> QED  BY <1>3, <1>7, <1>8, ReadInTurn
<1>10. Fragment(C, "ready", x4, t4, "ready")
  <2> HIDE DEF x3, t3
  <2> QED  BY <1>4, <1>9, ReadInTurn
<1>11. Fragment(C, "ready", x5, t5, "outside")
  <2> HIDE DEF x4, t4
  <2> QED  BY <1>3, <1>7, <1>10, ReadInTurn
<1>12. Fragment(C, "ready", x6, t6, "ready")
  <2> HIDE DEF x5, t5
  <2> QED  BY <1>5, <1>11, ReadInTurn
<1>13. Fragment(C, "ready", x7, t7, "outside")
  <2> HIDE DEF x6, t6
  <2> QED  BY <1>3, <1>7, <1>12, ReadInTurn
<1>14. Fragment(C, "ready", x8, t8, "outside")
  <2> HIDE DEF x7, t7
  <2> QED  BY <1>3, <1>7, <1>13, ReadInTurn
<1>15. Fragment(C, "ready", x9, t9, "ready")
  <2> HIDE DEF x8, t8
  <2> QED  BY <1>4, <1>14, ReadInTurn
<1>16. Fragment(C, "ready", x10, t10, "ready")
  <2> HIDE DEF x9, t9
  <2> QED  BY <1>6, <1>15, ReadInTurn
<1>17. x8 = x6 \o <<")", "SERVER">>
  <2>1. x6 \in Seq(C)
    BY <1>12 DEF Fragment
  <2> HIDE DEF x6
  <2>2. ")" \in C /\ "SERVER" \in C
    BY <1>7 DEF IsAlphabet
  <2>3. \A a \in C : <<a>> \in Seq(C)
    OBVIOUS
  <2>4. \A a, b \in C : <<a>> \o <<b>> = <<a, b>>
    BY Pair
  <2>5. ASSUME NEW a \in C, NEW b \in C PROVE (x6 \o <<a>>) \o <<b>> = x6 \o <<a, b>>
    <3> PICK u \in Seq(C) : u = <<a>>
      BY <2>3
    <3> PICK v \in Seq(C) : v = <<b>>
      BY <2>3
    <3> PICK x \in Seq(C) : x = x6
      BY <2>1
    <3>1. (x \o u) \o v = x \o (u \o v)
      BY ConcatAssociative
    <3>2. u \o v = <<a, b>>
      BY Pair
    <3> QED  BY <3>1, <3>2
  <2> QED  BY <2>2, <2>5
<1> HIDE DEF x6, t9
<1> QED  BY <1>1, <1>2, <1>16, <1>17

\* PostgreSQL reads in a statement of TableDefinition.to_statement what the
\* definition says (SchemaImport.StatementReads), for every definition and
\* names with any character in them.
THEOREM StatementsAreRead ==
    ASSUME NEW C, IsAlphabet(C), NEW d \in TableDefinitions(C), NEW schema \in Seq(C), NEW server \in Seq(C)
    PROVE  I!StatementReads(d, schema, server)
<1> PICK x : x = I!to_statement(d, schema, server)
  OBVIOUS
<1> PICK t : t = StatementTokens(d, schema, server)
  OBVIOUS
<1>1. Fragment(C, "ready", x, t, "ready")
  BY ReadStatement
<1>2. x \in Seq(C) /\ t \in Seq(Lexemes(C))
  BY <1>1 DEF Fragment
<1>3. << >> \in Seq(Lexemes(C)) /\ << >> \o t = t
  BY <1>2, ConcatEmptySeq
<1>4. At("ready", C, << >>, Outside(<< >>))
  BY DEF At, Ready
<1>5. PICK s : At("ready", C, << >> \o t, s) /\ Reads(Outside(<< >>), x, s)
  BY <1>1, <1>3, <1>4 DEF Fragment
<1>6. Ready(C, t, s)
  BY <1>3, <1>5 DEF At
<1>7. Result(s) = t
  <2>1. CASE s = Outside(t)
    <3>1. s.in = "none" /\ s.tokens = t
      BY <2>1 DEF Outside
    <3> QED  BY <3>1 DEF Result
  <2>2. ASSUME NEW q, NEW v, NEW U, s = Closing(q, v, U), t = U \o I!Lexeme(q, v)
        PROVE  Result(s) = t
    <3>1. s.in = "closing" /\ s.quote = q /\ s.text = v /\ s.tokens = U
      BY <2>2 DEF Closing
    <3> QED  BY <2>2, <3>1 DEF Result
  <2> QED  BY <1>6, <2>1, <2>2 DEF Ready
<1>8. I!Lex(x) = t
  BY <1>2, <1>5, <1>7, LexReads
<1> QED  BY <1>8 DEF I!StatementReads, StatementTokens, ColumnTokens, OptionTokens, ListOf

-----------------------------------------------------------------------------
(* File names.                                                             *)

SplitNext(parts, sep, c) ==
    IF c = sep THEN Append(parts, << >>) ELSE [parts EXCEPT ![Len(parts)] = Append(@, c)]

SplitInto(S) == {parts \in Seq(Seq(S)) : parts # << >>}

LEMMA SplitStep ==
    ASSUME NEW S, NEW sep, NEW c \in S, NEW parts \in SplitInto(S \ {sep})
    PROVE  SplitNext(parts, sep, c) \in SplitInto(S \ {sep})
<1> PICK n \in Nat \ {0} : n = Len(parts)
  BY EmptySeq DEF SplitInto
<1> PICK T : T = Seq(S \ {sep})
  OBVIOUS
<1>0. parts \in [1 .. n -> T] /\ parts \in Seq(T)
  BY DEF SplitInto
<1>1. CASE c = sep
  <2>1. << >> \in T
    BY EmptySeq
  <2>2. Append(parts, << >>) \in Seq(T) /\ Append(parts, << >>) # << >>
    BY <1>0, <2>1
  <2> QED  BY <1>1, <2>2 DEF SplitInto, SplitNext
<1>2. CASE c # sep
  <2>1. parts[n] \in T
    BY <1>0
  <2>2. Append(parts[n], c) \in T
    BY <1>2, <2>1
  <2>3. [parts EXCEPT ![n] = Append(parts[n], c)] \in [1 .. n -> T]
    BY <1>0, <2>2
  <2>4. [parts EXCEPT ![n] = Append(parts[n], c)] \in Seq(T)
    BY <2>3, SeqDef
  <2>5. [parts EXCEPT ![n] = Append(parts[n], c)] # << >>
    BY <1>0, <2>3
  <2> QED  BY <1>2, <2>4, <2>5 DEF SplitInto, SplitNext
<1> QED  BY <1>1, <1>2

\* The loop of Split.
SplitLoop(n, s, sep, b) ==
    b = [i \in 1 .. n |-> IF i = 1 THEN << << >> >>
                           ELSE IF s[i - 1] = sep THEN Append(b[i - 1], << >>)
                           ELSE [b[i - 1] EXCEPT ![Len(b[i - 1])] = Append(@, s[i - 1])]]

SplitKeeps(n, s, sep, V) == << << >> >> \in V /\ \A v \in V, i \in 2 .. n : SplitNext(v, sep, s[i - 1]) \in V

LEMMA SplitLoopExists ==
    ASSUME NEW n \in Nat, NEW s, NEW sep, NEW V, SplitKeeps(n, s, sep, V)
    PROVE  \E b : SplitLoop(n, s, sep, b)
<1> DEFINE F == [a \in V \X (2 .. n) |-> SplitNext(a[1], sep, s[a[2] - 1])]
<1>1. PICK start : start = << << >> >>
  OBVIOUS
<1>2. Steps(n, V, start, F)
  <2>1. \A a \in V \X (2 .. n) : SplitNext(a[1], sep, s[a[2] - 1]) \in V
    BY DEF SplitKeeps
  <2> QED  BY <1>1, <2>1 DEF Steps, SplitKeeps
<1>3. \A v \in V, i \in 2 .. n : F[<<v, i>>] = SplitNext(v, sep, s[i - 1])
  OBVIOUS
<1> HIDE DEF F
<1>4. PICK g \in [1 .. n -> V] : Iterate(n, start, F, g)
  BY <1>2, Iteration
<1>5. g = [i \in 1 .. n |-> IF i = 1 THEN start ELSE F[<<g[i - 1], i>>]]
  BY <1>4 DEF Iterate
<1>6. g = [i \in 1 .. n |-> IF i = 1 THEN start ELSE SplitNext(g[i - 1], sep, s[i - 1])]
  <2>1. ASSUME NEW i \in 2 .. n PROVE F[<<g[i - 1], i>>] = SplitNext(g[i - 1], sep, s[i - 1])
    <3>1. i - 1 \in 1 .. n
      OBVIOUS
    <3>2. g[i - 1] \in V
      BY <3>1
    <3> QED  BY <1>3, <3>2
  <2>2. \A i \in 1 .. n : i # 1 => i \in 2 .. n
    OBVIOUS
  <2> QED  BY <1>5, <2>1, <2>2
<1>7. g = [i \in 1 .. n |-> IF i = 1 THEN << << >> >> ELSE SplitNext(g[i - 1], sep, s[i - 1])]
  BY <1>1, <1>6
<1>8. SplitLoop(n, s, sep, g)
  BY <1>7 DEF SplitLoop, SplitNext
<1> QED  BY <1>8

LEMMA SplitLoopKeeps ==
    ASSUME NEW n \in Nat, NEW s, NEW sep, NEW V, SplitKeeps(n, s, sep, V), NEW b, SplitLoop(n, s, sep, b)
    PROVE  \A i \in 1 .. n : b[i] \in V
<1> DEFINE R == {i \in 1 .. n : b[i] \in V}
<1>0. b = [i \in 1 .. n |-> IF i = 1 THEN << << >> >> ELSE SplitNext(b[i - 1], sep, s[i - 1])]
  BY DEF SplitLoop, SplitNext
<1>1. \A i \in 1 .. n : i # 1 => b[i] = SplitNext(b[i - 1], sep, s[i - 1])
  BY <1>0
<1>2. ASSUME NEW i \in 2 .. n, i - 1 \in R PROVE i \in R
  <2>1. i \in 1 .. n /\ i # 1 /\ b[i - 1] \in V
    BY <1>2
  <2>2. b[i] \in V
    BY <1>1, <2>1 DEF SplitKeeps
  <2> QED  BY <2>1, <2>2
<1>3. n # 0 => 1 \in R
  <2>1. ASSUME n # 0 PROVE 1 \in 1 .. n
    BY <2>1
  <2>2. ASSUME n # 0 PROVE b[1] = << << >> >>
    BY <1>0, <2>1, <2>2
  <2> QED  BY <2>1, <2>2 DEF SplitKeeps
<1> HIDE DEF R
<1>4. n # 0 => \A i \in 1 .. n : i \in R
  BY <1>2, <1>3, Upwards
<1> QED  BY <1>4 DEF R

LEMMA SplitPieces ==
    ASSUME NEW S, NEW sep, NEW s \in Seq(S)
    PROVE  P!Split(s, sep) \in SplitInto(S \ {sep})
<1> PICK n \in Nat \ {0} : n = Len(s) + 1
  OBVIOUS
<1> PICK V : V = SplitInto(S \ {sep})
  OBVIOUS
<1>1. \A i \in 2 .. n : s[i - 1] \in S
  BY SeqDef
<1>2. << << >> >> \in V
  BY EmptySeq DEF SplitInto
<1>3. SplitKeeps(n, s, sep, V)
  BY <1>1, <1>2, SplitStep DEF SplitKeeps
<1> DEFINE before[i \in 1 .. n] ==
             IF i = 1 THEN << << >> >>
             ELSE IF s[i - 1] = sep THEN Append(before[i - 1], << >>)
             ELSE [before[i - 1] EXCEPT ![Len(before[i - 1])] = Append(@, s[i - 1])]
<1>4. P!Split(s, sep) = before[n]
  BY DEF P!Split
<1>5. SplitLoop(n, s, sep, before)
  <2>1. PICK b : SplitLoop(n, s, sep, b)
    BY <1>3, SplitLoopExists
  <2> QED  BY <2>1 DEF SplitLoop
<1> HIDE DEF before
<1>6. \A i \in 1 .. n : before[i] \in V
  BY <1>3, <1>5, SplitLoopKeeps
<1>7. n \in 1 .. n
  OBVIOUS
<1> QED  BY <1>4, <1>6, <1>7

\* The tokens of a pattern over the characters S, and the state of the loop.
TokensOver(S) == [kind : {"literal", "property"}, text : Seq(S)] \union {P!Slash}
TokenizeStates(S) == [in_field : BOOLEAN, name : Seq(S), tokens : Seq(TokensOver(S)), error : BOOLEAN]
TokenizeStart == [in_field |-> FALSE, name |-> << >>, tokens |-> << >>, error |-> FALSE]

LEMMA TokenizeStepTyped ==
    ASSUME NEW S, NEW p, NEW s \in TokenizeStates(S), NEW i, p[i] \in S
    PROVE  P!TokenizeStep(p, s, i) \in TokenizeStates(S)
<1> PICK c : c = p[i]
  OBVIOUS
<1> PICK N : N = Seq(S)
  OBVIOUS
<1> PICK T : T = Seq(TokensOver(S))
  OBVIOUS
<1>1. s \in [in_field : BOOLEAN, name : N, tokens : T, error : BOOLEAN]
  BY DEF TokenizeStates
<1>2. /\ s.name \in N => Append(s.name, c) \in N
      /\ << >> \in N /\ <<c>> \in N
  BY EmptySeq
<1>3. /\ Append(s.tokens, P!Slash) \in T
      /\ Append(s.tokens, P!Token("literal", <<c>>)) \in T
      /\ Append(s.tokens, P!Token("property", s.name)) \in T
  <2>1. s.tokens \in T
    BY <1>1
  <2>2. P!Slash \in TokensOver(S)
    BY DEF TokensOver
  <2>3. P!Token("literal", <<c>>) \in TokensOver(S)
    BY <1>2 DEF TokensOver, P!Token
  <2>4. P!Token("property", s.name) \in TokensOver(S)
    BY <1>1 DEF TokensOver, P!Token
  <2> QED  BY <2>1, <2>2, <2>3, <2>4
<1>4. P!TokenizeStep(p, s, i) \in [in_field : BOOLEAN, name : N, tokens : T, error : BOOLEAN]
  <2> PICK nc : nc = IF i = Len(p) THEN "" ELSE p[i + 1]
    OBVIOUS
  <2> PICK pc : pc = IF i = 1 THEN "" ELSE p[i - 1]
    OBVIOUS
  <2> PICK tl : tl = Append(s.tokens, P!Token("literal", <<c>>))
    OBVIOUS
  <2> PICK tp : tp = Append(s.tokens, P!Token("property", s.name))
    OBVIOUS
  <2> PICK ts : ts = Append(s.tokens, P!Slash)
    OBVIOUS
  <2> PICK nn : nn = Append(s.name, c)
    OBVIOUS
  <2>1. CASE s.error
    BY <1>1, <2>1 DEF P!TokenizeStep
  <2>2. CASE ~s.error /\ s.in_field
    <3>1. P!TokenizeStep(p, s, i) = IF c = "}" THEN [s EXCEPT !.in_field = FALSE, !.tokens = tp] ELSE [s EXCEPT !.name = nn]
      BY <2>2 DEF P!TokenizeStep
    <3>2. tp \in T /\ nn \in N
      BY <1>1, <1>2, <1>3
    <3> QED  BY <1>1, <3>1, <3>2
  <2>3. CASE ~s.error /\ ~s.in_field
    <3>1. P!TokenizeStep(p, s, i) =
            IF c = "/" THEN [s EXCEPT !.tokens = ts]
            ELSE IF c \in P!Brackets /\ nc = c THEN s
            ELSE IF c = "}" /\ pc # c THEN [s EXCEPT !.error = TRUE]
            ELSE IF c = "{" /\ pc # c THEN [s EXCEPT !.in_field = TRUE, !.name = << >>]
            ELSE [s EXCEPT !.tokens = tl]
      BY <2>3 DEF P!TokenizeStep
    <3>2. ts \in T /\ tl \in T /\ << >> \in N
      BY <1>2, <1>3
    <3> QED  BY <1>1, <3>1, <3>2
  <2>4. s.error \in BOOLEAN /\ s.in_field \in BOOLEAN
    BY <1>1
  <2> QED  BY <2>1, <2>2, <2>3, <2>4
<1> QED  BY <1>4 DEF TokenizeStates

TokenizeLoop(n, p, b) ==
    b = [i \in 1 .. n |-> IF i = 1 THEN [in_field |-> FALSE, name |-> << >>, tokens |-> << >>, error |-> FALSE]
                          ELSE P!TokenizeStep(p, b[i - 1], i - 1)]
TokenizeKeeps(n, p, V) == TokenizeStart \in V /\ \A v \in V, i \in 2 .. n : P!TokenizeStep(p, v, i - 1) \in V

LEMMA TokenizeLoopExists ==
    ASSUME NEW n \in Nat, NEW p, NEW V, TokenizeKeeps(n, p, V)
    PROVE  \E b : TokenizeLoop(n, p, b)
<1> DEFINE F == [a \in V \X (2 .. n) |-> P!TokenizeStep(p, a[1], a[2] - 1)]
<1>1. PICK start : start = TokenizeStart
  OBVIOUS
<1>2. Steps(n, V, start, F)
  <2>1. \A a \in V \X (2 .. n) : P!TokenizeStep(p, a[1], a[2] - 1) \in V
    BY DEF TokenizeKeeps
  <2> QED  BY <1>1, <2>1 DEF Steps, TokenizeKeeps
<1>3. \A v \in V, i \in 2 .. n : F[<<v, i>>] = P!TokenizeStep(p, v, i - 1)
  OBVIOUS
<1> HIDE DEF F
<1>4. PICK g \in [1 .. n -> V] : Iterate(n, start, F, g)
  BY <1>2, Iteration
<1>5. g = [i \in 1 .. n |-> IF i = 1 THEN start ELSE F[<<g[i - 1], i>>]]
  BY <1>4 DEF Iterate
<1>6. g = [i \in 1 .. n |-> IF i = 1 THEN start ELSE P!TokenizeStep(p, g[i - 1], i - 1)]
  <2>1. ASSUME NEW i \in 2 .. n PROVE F[<<g[i - 1], i>>] = P!TokenizeStep(p, g[i - 1], i - 1)
    <3>1. i - 1 \in 1 .. n
      OBVIOUS
    <3>2. g[i - 1] \in V
      BY <3>1
    <3> QED  BY <1>3, <3>2
  <2>2. \A i \in 1 .. n : i # 1 => i \in 2 .. n
    OBVIOUS
  <2> QED  BY <1>5, <2>1, <2>2
<1>7. TokenizeLoop(n, p, g)
  BY <1>1, <1>6 DEF TokenizeLoop, TokenizeStart
<1> QED  BY <1>7

LEMMA TokenizeLoopKeeps ==
    ASSUME NEW n \in Nat, NEW p, NEW V, TokenizeKeeps(n, p, V), NEW b, TokenizeLoop(n, p, b)
    PROVE  \A i \in 1 .. n : b[i] \in V
<1> DEFINE R == {i \in 1 .. n : b[i] \in V}
<1>0. b = [i \in 1 .. n |-> IF i = 1 THEN TokenizeStart ELSE P!TokenizeStep(p, b[i - 1], i - 1)]
  BY DEF TokenizeLoop, TokenizeStart
<1>1. \A i \in 1 .. n : i # 1 => b[i] = P!TokenizeStep(p, b[i - 1], i - 1)
  BY <1>0
<1>2. ASSUME NEW i \in 2 .. n, i - 1 \in R PROVE i \in R
  <2>1. i \in 1 .. n /\ i # 1 /\ b[i - 1] \in V
    BY <1>2
  <2>2. b[i] \in V
    BY <1>1, <2>1 DEF TokenizeKeeps
  <2> QED  BY <2>1, <2>2
<1>3. n # 0 => 1 \in R
  <2>1. ASSUME n # 0 PROVE 1 \in 1 .. n
    BY <2>1
  <2>2. ASSUME n # 0 PROVE b[1] = TokenizeStart
    BY <1>0, <2>1, <2>2
  <2> QED  BY <2>1, <2>2 DEF TokenizeKeeps
<1> HIDE DEF R
<1>4. n # 0 => \A i \in 1 .. n : i \in R
  BY <1>2, <1>3, Upwards
<1> QED  BY <1>4 DEF R

LEMMA Tokenized ==
    ASSUME NEW S, NEW p \in Seq(S)
    PROVE  P!TokenizePattern(p) \in Seq(TokensOver(S)) \union {P!Invalid}
<1> PICK n \in Nat \ {0} : n = Len(p) + 1
  OBVIOUS
<1> PICK V : V = TokenizeStates(S)
  OBVIOUS
<1>1. \A i \in 2 .. n : p[i - 1] \in S
  BY SeqDef
<1>2. TokenizeStart \in V
  <2>1. << >> \in Seq(S) /\ << >> \in Seq(TokensOver(S))
    BY EmptySeq
  <2> QED  BY <2>1 DEF TokenizeStart, TokenizeStates
<1>3. TokenizeKeeps(n, p, V)
  BY <1>1, <1>2, TokenizeStepTyped DEF TokenizeKeeps
<1> DEFINE before[i \in 1 .. n] ==
             IF i = 1 THEN [in_field |-> FALSE, name |-> << >>, tokens |-> << >>, error |-> FALSE]
             ELSE P!TokenizeStep(p, before[i - 1], i - 1)
<1>4. P!TokenizePattern(p) = IF before[n].error \/ before[n].in_field THEN P!Invalid ELSE Append(before[n].tokens, P!Slash)
  BY DEF P!TokenizePattern
<1>5. TokenizeLoop(n, p, before)
  <2>1. PICK b : TokenizeLoop(n, p, b)
    BY <1>3, TokenizeLoopExists
  <2> QED  BY <2>1 DEF TokenizeLoop
<1> HIDE DEF before
<1>6. \A i \in 1 .. n : before[i] \in V
  BY <1>3, <1>5, TokenizeLoopKeeps
<1>7. n \in 1 .. n
  OBVIOUS
<1>8. before[n].tokens \in Seq(TokensOver(S))
  BY <1>6, <1>7 DEF TokenizeStates
<1>9. Append(before[n].tokens, P!Slash) \in Seq(TokensOver(S))
  <2>1. P!Slash \in TokensOver(S)
    BY DEF TokensOver
  <2> QED  BY <1>8, <2>1
<1> QED  BY <1>4, <1>9

PartTokens(S) == [kind : {"literal", "property"}, text : Seq(S)]

LEMMA FrontOfText ==
    ASSUME NEW S, NEW s \in Seq(S), s # << >>
    PROVE  P!Front(s) \in Seq(S)
<1>1. Len(s) \in Nat /\ Len(s) - 1 \in 0 .. Len(s)
  BY EmptySeq
<1>2. SubSeq(s, 1, Len(s) - 1) \in Seq(S)
  <2>1. \A i \in 1 .. Len(s) - 1 : s[i] \in S
    BY SeqDef
  <2> QED  BY <1>1, <2>1, SubSeqProperties
<1> QED  BY <1>2 DEF P!Front

LEMMA Parsed ==
    ASSUME NEW S, NEW p \in Seq(S)
    PROVE  P!ParsePattern(p) \in Seq(Seq(PartTokens(S)))
<1> PICK tokens : tokens = P!TokenizePattern(p)
  OBVIOUS
<1> PICK parts : parts = P!Front(P!Split(tokens, P!Slash))
  OBVIOUS
<1>1. << >> \in Seq(Seq(PartTokens(S)))
  BY EmptySeq
<1>2. (P!ParsePattern(p) = parts /\ tokens # P!Invalid) \/ P!ParsePattern(p) = << >>
  BY DEF P!ParsePattern
<1>3. ASSUME tokens # P!Invalid PROVE parts \in Seq(Seq(PartTokens(S)))
  <2>1. tokens \in Seq(TokensOver(S))
    BY <1>3, Tokenized
  <2>2. P!Split(tokens, P!Slash) \in SplitInto(TokensOver(S) \ {P!Slash})
    BY <2>1, SplitPieces
  <2>3. TokensOver(S) \ {P!Slash} = PartTokens(S)
    <3>1. ASSUME NEW t \in PartTokens(S) PROVE t # P!Slash
      <4>1. t.kind \in {"literal", "property"}
        BY DEF PartTokens
      <4>2. P!Slash.kind = "path separator"
        BY DEF P!Slash, P!Token
      <4> QED  BY <4>1, <4>2
    <3> QED  BY <3>1 DEF TokensOver, PartTokens
  <2>4. P!Split(tokens, P!Slash) \in SplitInto(PartTokens(S))
    BY <2>2, <2>3
  <2> QED  BY <2>4, FrontOfText DEF SplitInto
<1> QED  BY <1>1, <1>2, <1>3

\* No match, or one whose domain is in D and whose values are texts over C.
MatchIs(D, C, M) == M = {} \/ \E U \in D : \E f \in [U -> Seq(C)] : M = {f}

Own(t) == IF t.kind = "literal" THEN {} ELSE {t.text}
Takes(t, D, E) == \A U \in D : Own(t) \union U \in E
AllMatch(n, D, C, next) == \A k \in 1 .. n : MatchIs(D, C, next[k])

LEMMA PieceOfName ==
    ASSUME NEW C, NEW name \in Seq(C), NEW k \in 1 .. Len(name) + 1, NEW e \in k .. Len(name) + 1
    PROVE  SubSeq(name, k, e - 1) \in Seq(C)
<1>1. \A i \in k .. e - 1 : name[i] \in C
  BY SeqDef
<1>2. k \in Int /\ e - 1 \in Int
  OBVIOUS
<1> QED  BY <1>1, <1>2, SubSeqProperties

LEMMA TokenMatchesTyped ==
    ASSUME NEW t, NEW C, NEW name \in Seq(C), NEW D, NEW E, NEW next,
           AllMatch(Len(name) + 1, D, C, next), Takes(t, D, E)
    PROVE  AllMatch(Len(name) + 1, E, C, P!TokenMatches(t, name, next))
<1> SUFFICES ASSUME NEW k \in 1 .. Len(name) + 1
             PROVE  MatchIs(E, C, P!TokenMatches(t, name, next)[k])
  BY DEF AllMatch
<1> PICK n \in Nat \ {0} : n = Len(name) + 1
  OBVIOUS
<1> PICK ends : ends = {e \in k .. n : next[e] # {}}
  OBVIOUS
<1>1. P!TokenMatches(t, name, next)[k] =
        IF t.kind = "literal"
        THEN IF k <= Len(name) /\ name[k] = t.text[1] THEN next[k + 1] ELSE {}
        ELSE IF ends = {} THEN {}
        ELSE {[u \in {t.text} \union DOMAIN f |-> IF u = t.text THEN SubSeq(name, k, P!Max(ends) - 1) ELSE f[u]] :
                f \in next[P!Max(ends)]}
  BY DEF P!TokenMatches, P!NoMatch
<1>2. MatchIs(E, C, {})
  BY DEF MatchIs
<1>3. CASE t.kind = "literal" /\ k <= Len(name) /\ name[k] = t.text[1]
  <2>1. k + 1 \in 1 .. Len(name) + 1
    BY <1>3
  <2>2. MatchIs(D, C, next[k + 1])
    BY <2>1 DEF AllMatch
  <2>3. \A U \in D : U \in E
    BY <1>3 DEF Takes, Own
  <2>4. MatchIs(E, C, next[k + 1])
    BY <2>2, <2>3 DEF MatchIs
  <2> QED  BY <1>1, <1>3, <2>4
<1>4. CASE t.kind # "literal" /\ ends # {}
  <2>1. ends \in SUBSET (1 .. n)
    OBVIOUS
  <2> PICK e : e = P!Max(ends)
    OBVIOUS
  <2>11. \E z \in ends : \A y \in ends : z >= y
    BY <1>4, <2>1, Greatest
  <2>2. e \in k .. n /\ next[e] # {}
    BY <2>11 DEF P!Max
  <2>3. e \in 1 .. Len(name) + 1
    BY <2>2
  <2>4. MatchIs(D, C, next[e])
    BY <2>3 DEF AllMatch
  <2>10. PICK U \in D : \E f \in [U -> Seq(C)] : next[e] = {f}
    BY <2>2, <2>4 DEF MatchIs
  <2>5. PICK f \in [U -> Seq(C)] : next[e] = {f}
    BY <2>10
  <2> PICK x : x = SubSeq(name, k, e - 1)
    OBVIOUS
  <2> PICK N : N = Seq(C)
    OBVIOUS
  <2>6. x \in N
    BY <2>2, PieceOfName
  <2> PICK a : a = t.text
    OBVIOUS
  <2> DEFINE g == [u \in {a} \union U |-> IF u = a THEN x ELSE f[u]]
  <2>7. g \in [{a} \union U -> N]
    BY <2>6
  <2>8. {a} \union U \in E
    BY <1>4 DEF Takes, Own
  <2>9. P!TokenMatches(t, name, next)[k] = {g}
    <3>1. DOMAIN f = U
      OBVIOUS
    <3> PICK h : h = g
      OBVIOUS
    <3>2. h = [u \in {a} \union DOMAIN f |-> IF u = a THEN x ELSE f[u]]
      BY <3>1
    <3> HIDE DEF g
    <3>3. P!TokenMatches(t, name, next)[k] =
             {[u \in {a} \union DOMAIN F |-> IF u = a THEN x ELSE F[u]] : F \in next[e]}
      BY <1>1, <1>4
    <3>4. {[u \in {a} \union DOMAIN F |-> IF u = a THEN x ELSE F[u]] : F \in {f}} = {h}
      BY <3>2
    <3> QED  BY <2>5, <3>3, <3>4
  <2> HIDE DEF g
  <2> QED  BY <2>7, <2>8, <2>9 DEF MatchIs
<1>5. CASE t.kind = "literal" /\ ~(k <= Len(name) /\ name[k] = t.text[1])
  BY <1>1, <1>2, <1>5
<1>6. CASE t.kind # "literal" /\ ends = {}
  BY <1>1, <1>2, <1>6
<1> QED  BY <1>3, <1>4, <1>5, <1>6

AtEnd(name) == [k \in 1 .. Len(name) + 1 |-> IF k > Len(name) THEN {<< >>} ELSE P!NoMatch]
MatchLoop(n, part, name, r) ==
    r = [i \in 1 .. n |-> IF i > n - 1 THEN AtEnd(name) ELSE P!TokenMatches(part[i], name, r[i + 1])]
MatchKeeps(n, part, name, V) ==
    AtEnd(name) \in V /\ \A v \in V, i \in 1 .. n - 1 : P!TokenMatches(part[i], name, v) \in V

LEMMA MatchLoopExists ==
    ASSUME NEW n \in Nat, NEW part, NEW name, NEW V, MatchKeeps(n, part, name, V)
    PROVE  \E r : MatchLoop(n, part, name, r)
<1> DEFINE F == [a \in V \X (1 .. n - 1) |-> P!TokenMatches(part[a[2]], name, a[1])]
<1>1. PICK last : last = AtEnd(name)
  OBVIOUS
<1>2. StepsDown(n, V, last, F)
  <2>1. \A a \in V \X (1 .. n - 1) : P!TokenMatches(part[a[2]], name, a[1]) \in V
    BY DEF MatchKeeps
  <2> QED  BY <1>1, <2>1 DEF StepsDown, MatchKeeps
<1>3. \A v \in V, i \in 1 .. n - 1 : F[<<v, i>>] = P!TokenMatches(part[i], name, v)
  OBVIOUS
<1> HIDE DEF F
<1>4. PICK g \in [1 .. n -> V] : IterateDown(n, last, F, g)
  BY <1>2, IterationDown
<1>5. g = [i \in 1 .. n |-> IF i = n THEN last ELSE F[<<g[i + 1], i>>]]
  BY <1>4 DEF IterateDown
<1>6. g = [i \in 1 .. n |-> IF i > n - 1 THEN last ELSE P!TokenMatches(part[i], name, g[i + 1])]
  <2>1. ASSUME NEW i \in 1 .. n - 1 PROVE F[<<g[i + 1], i>>] = P!TokenMatches(part[i], name, g[i + 1])
    <3>1. i + 1 \in 1 .. n
      OBVIOUS
    <3>2. g[i + 1] \in V
      BY <3>1
    <3> QED  BY <1>3, <3>2
  <2>2. \A i \in 1 .. n : (i # n => i \in 1 .. n - 1) /\ (i = n <=> i > n - 1)
    OBVIOUS
  <2> QED  BY <1>5, <2>1, <2>2
<1>7. MatchLoop(n, part, name, g)
  BY <1>1, <1>6 DEF MatchLoop
<1> QED  BY <1>7

\* The properties of a part from its token i on.
PropsFrom(part, i) == UNION {Own(part[j]) : j \in i .. Len(part)}

LEMMA AtEndTyped ==
    ASSUME NEW C, NEW name \in Seq(C), NEW D, {} \in D
    PROVE  AllMatch(Len(name) + 1, D, C, AtEnd(name))
<1>1. ASSUME NEW k \in 1 .. Len(name) + 1 PROVE MatchIs(D, C, AtEnd(name)[k])
  <2>1. AtEnd(name)[k] = IF k > Len(name) THEN {<< >>} ELSE {}
    BY DEF AtEnd, P!NoMatch
  <2>2. << >> \in [{} -> Seq(C)]
    OBVIOUS
  <2>3. MatchIs(D, C, {<< >>}) /\ MatchIs(D, C, {})
    BY <2>2 DEF MatchIs
  <2> QED  BY <2>1, <2>3
<1> QED  BY <1>1 DEF AllMatch

LEMMA MatchLoopTyped ==
    ASSUME NEW part, Len(part) \in Nat, NEW C, NEW name \in Seq(C), NEW n, n = Len(part) + 1,
           NEW r, MatchLoop(n, part, name, r)
    PROVE  AllMatch(Len(name) + 1, {PropsFrom(part, 1)}, C, r[1])
<1> DEFINE R == {i \in 1 .. n : AllMatch(Len(name) + 1, {PropsFrom(part, i)}, C, r[i])}
<1>1. n \in R
  <2>1. n \in 1 .. n /\ n > n - 1
    OBVIOUS
  <2>2. r[n] = AtEnd(name)
    BY <2>1 DEF MatchLoop
  <2>3. PropsFrom(part, n) = {}
    <3>1. n .. Len(part) = {}
      OBVIOUS
    <3> QED  BY <3>1 DEF PropsFrom
  <2> QED  BY <2>1, <2>2, <2>3, AtEndTyped
<1>2. ASSUME NEW i \in 1 .. n - 1, i + 1 \in R PROVE i \in R
  <2>1. i \in 1 .. n /\ ~(i > n - 1)
    OBVIOUS
  <2>2. r[i] = P!TokenMatches(part[i], name, r[i + 1])
    BY <2>1 DEF MatchLoop
  <2>3. PropsFrom(part, i) = Own(part[i]) \union PropsFrom(part, i + 1)
    <3>1. i .. Len(part) = {i} \union (i + 1 .. Len(part))
      OBVIOUS
    <3> QED  BY <3>1 DEF PropsFrom
  <2>4. Takes(part[i], {PropsFrom(part, i + 1)}, {PropsFrom(part, i)})
    BY <2>3 DEF Takes
  <2>5. AllMatch(Len(name) + 1, {PropsFrom(part, i + 1)}, C, r[i + 1])
    BY <1>2
  <2>6. AllMatch(Len(name) + 1, {PropsFrom(part, i)}, C, r[i])
    BY <2>2, <2>4, <2>5, TokenMatchesTyped
  <2> QED  BY <2>1, <2>6
<1>3. 1 \in 1 .. n /\ n \in Nat
  OBVIOUS
<1> HIDE DEF R
<1>4. \A i \in 1 .. n : i \in R
  BY <1>1, <1>2, <1>3, Downwards
<1>5. 1 \in R
  BY <1>3, <1>4
<1> QED  BY <1>5 DEF R

\* The matches over C whose domain is in D, and the functions to them.
MatchSet(D, C) == {M \in SUBSET (UNION {[U -> Seq(C)] : U \in D}) : MatchIs(D, C, M)}
MatchFunctions(n, D, C) == [1 .. n -> MatchSet(D, C)]

LEMMA MatchSetOf ==
    ASSUME NEW D, NEW C, NEW M, MatchIs(D, C, M)
    PROVE  M \in MatchSet(D, C)
<1>1. ASSUME NEW U \in D, NEW f \in [U -> Seq(C)] PROVE f \in UNION {[U2 -> Seq(C)] : U2 \in D}
  OBVIOUS
<1>2. M \in SUBSET (UNION {[U -> Seq(C)] : U \in D})
  BY <1>1 DEF MatchIs
<1> QED  BY <1>2 DEF MatchSet

LEMMA MatchExists ==
    ASSUME NEW part, Len(part) \in Nat, NEW C, NEW name \in Seq(C)
    PROVE  \E r : MatchLoop(Len(part) + 1, part, name, r)
<1> PICK n \in Nat : n = Len(part) + 1
  OBVIOUS
<1> PICK m \in Nat : m = Len(name) + 1
  OBVIOUS
<1> DEFINE T == UNION {Own(part[i]) : i \in 1 .. n}
           D == SUBSET T
<1> PICK V : V = MatchFunctions(m, D, C)
  OBVIOUS
<1>1. AtEnd(name) \in V
  <2>1. {} \in D
    OBVIOUS
  <2> HIDE DEF D
  <2>2. AllMatch(m, D, C, AtEnd(name))
    BY <2>1, AtEndTyped
  <2>3. \A k \in 1 .. m : AtEnd(name)[k] \in MatchSet(D, C)
    BY <2>2, MatchSetOf DEF AllMatch
  <2>4. AtEnd(name) = [k \in 1 .. m |-> AtEnd(name)[k]]
    BY DEF AtEnd
  <2> QED  BY <2>3, <2>4 DEF MatchFunctions
<1>2. ASSUME NEW v \in V, NEW i \in 1 .. n - 1 PROVE P!TokenMatches(part[i], name, v) \in V
  <2>1. \A U \in D : Own(part[i]) \union U \in D
    <3>1. i \in 1 .. n
      OBVIOUS
    <3>2. Own(part[i]) \subseteq T
      BY <3>1
    <3> QED  BY <3>2
  <2> HIDE DEF D
  <2>2. Takes(part[i], D, D)
    BY <2>1 DEF Takes
  <2>3. AllMatch(m, D, C, v)
    <3>1. \A k \in 1 .. m : v[k] \in MatchSet(D, C)
      BY DEF MatchFunctions
    <3> QED  BY <3>1 DEF MatchSet, AllMatch
  <2> PICK w : w = P!TokenMatches(part[i], name, v)
    OBVIOUS
  <2>4. AllMatch(m, D, C, w)
    BY <2>2, <2>3, TokenMatchesTyped
  <2>5. \A k \in 1 .. m : w[k] \in MatchSet(D, C)
    BY <2>4, MatchSetOf DEF AllMatch
  <2>6. w = [k \in 1 .. m |-> w[k]]
    BY DEF P!TokenMatches
  <2>7. w \in V
    BY <2>5, <2>6 DEF MatchFunctions
  <2> QED  BY <2>7
<1>3. MatchKeeps(n, part, name, V)
  BY <1>1, <1>2 DEF MatchKeeps
<1>4. \E r : MatchLoop(n, part, name, r)
  BY <1>3, MatchLoopExists
<1> QED  BY <1>4

LEMMA OwnProperties ==
    ASSUME NEW S, NEW part \in Seq(PartTokens(S))
    PROVE  PropsFrom(part, 1) = P!Properties(part)
<1>1. \A i \in 1 .. Len(part) : part[i].kind \in {"literal", "property"}
  <2>1. \A i \in 1 .. Len(part) : part[i] \in PartTokens(S)
    BY SeqDef
  <2> QED  BY <2>1 DEF PartTokens
<1>2. DOMAIN part = 1 .. Len(part)
  OBVIOUS
<1>3. \A i \in 1 .. Len(part) : Own(part[i]) = IF part[i].kind = "property" THEN {part[i].text} ELSE {}
  BY <1>1 DEF Own
<1>4. ASSUME NEW x PROVE x \in PropsFrom(part, 1) <=> \E i \in 1 .. Len(part) : part[i].kind = "property" /\ x = part[i].text
  BY <1>3 DEF PropsFrom
<1>5. ASSUME NEW x PROVE x \in P!Properties(part) <=> \E i \in 1 .. Len(part) : part[i].kind = "property" /\ x = part[i].text
  BY <1>2 DEF P!Properties, P!ToSet
<1> QED  BY <1>4, <1>5

\* A part matches a name with texts for all its properties or not at all.
LEMMA MatchTyped ==
    ASSUME NEW S, NEW part \in Seq(PartTokens(S)), NEW C, NEW name \in Seq(C)
    PROVE  MatchIs({P!Properties(part)}, C, P!Match(part, name))
<1> PICK n \in Nat : n = Len(part) + 1
  OBVIOUS
<1> DEFINE rest[i \in 1 .. n] ==
             IF i > Len(part)
             THEN [k \in 1 .. Len(name) + 1 |-> IF k > Len(name) THEN {<< >>} ELSE P!NoMatch]
             ELSE P!TokenMatches(part[i], name, rest[i + 1])
<1>1. P!Match(part, name) = rest[1][1]
  BY DEF P!Match
<1>2. Len(part) \in Nat /\ n - 1 = Len(part)
  OBVIOUS
<1>3. MatchLoop(n, part, name, rest)
  <2>1. PICK r : MatchLoop(n, part, name, r)
    BY <1>2, MatchExists
  <2>2. r = [i \in 1 .. n |-> IF i > Len(part)
                              THEN [k \in 1 .. Len(name) + 1 |-> IF k > Len(name) THEN {<< >>} ELSE P!NoMatch]
                              ELSE P!TokenMatches(part[i], name, r[i + 1])]
    BY <1>2, <2>1 DEF MatchLoop, AtEnd
  <2>3. rest = [i \in 1 .. n |-> IF i > Len(part)
                              THEN [k \in 1 .. Len(name) + 1 |-> IF k > Len(name) THEN {<< >>} ELSE P!NoMatch]
                              ELSE P!TokenMatches(part[i], name, rest[i + 1])]
    BY <2>2
  <2> HIDE DEF rest
  <2> QED  BY <1>2, <2>3 DEF MatchLoop, AtEnd
<1> HIDE DEF rest
<1>4. AllMatch(Len(name) + 1, {PropsFrom(part, 1)}, C, rest[1])
  BY <1>2, <1>3, MatchLoopTyped
<1>5. 1 \in 1 .. Len(name) + 1
  OBVIOUS
<1>6. MatchIs({PropsFrom(part, 1)}, C, rest[1][1])
  BY <1>4, <1>5 DEF AllMatch
<1> QED  BY <1>1, <1>6, OwnProperties

EachMatch(q, C, ms) == \A d \in DOMAIN ms : MatchIs({q[d]}, C, ms[d])
AllOf(q, D) == UNION {q[d] : d \in D}

LEMMA JoinedTyped ==
    ASSUME NEW C, NEW ms, NEW q, EachMatch(q, C, ms)
    PROVE  MatchIs({AllOf(q, DOMAIN ms)}, C, P!Joined(ms))
<1> PICK all : all = UNION P!ToSet(ms)
  OBVIOUS
<1> PICK K : K = AllOf(q, DOMAIN ms)
  OBVIOUS
<1>3. \A d \in DOMAIN ms : MatchIs({q[d]}, C, ms[d])
  BY DEF EachMatch
<1>4. K = UNION {q[d] : d \in DOMAIN ms}
  BY DEF AllOf
<1> PICK N : N = Seq(C)
  OBVIOUS
<1>1. CASE {} \in P!ToSet(ms)
  <2>1. P!Joined(ms) = {}
    BY <1>1 DEF P!Joined, P!NoMatch
  <2> QED  BY <2>1 DEF MatchIs
<1>2. CASE {} \notin P!ToSet(ms)
  <2>1. \A d \in DOMAIN ms : \E f \in [q[d] -> N] : ms[d] = {f}
    <3>1. \A d \in DOMAIN ms : ms[d] # {}
      BY <1>2 DEF P!ToSet
    <3> QED  BY <1>3, <3>1 DEF MatchIs
  <2>2. \A f : f \in all <=> \E d \in DOMAIN ms : f \in ms[d]
    BY DEF P!ToSet
  <2>3. ASSUME NEW f \in all PROVE \E d \in DOMAIN ms : f \in [q[d] -> N]
    <3>1. PICK d \in DOMAIN ms : f \in ms[d]
      BY <2>2
    <3>2. PICK g \in [q[d] -> N] : ms[d] = {g}
      BY <2>1
    <3>3. f = g
      BY <3>1, <3>2
    <3> QED  BY <3>3
  <2>4. \A d \in DOMAIN ms : \E f \in all : f \in [q[d] -> N]
    BY <2>1, <2>2
  <2>5. UNION {DOMAIN f : f \in all} = K
    <3>1. ASSUME NEW f \in all PROVE DOMAIN f \subseteq K
      BY <1>4, <2>3
    <3>2. ASSUME NEW d \in DOMAIN ms PROVE q[d] \subseteq UNION {DOMAIN f : f \in all}
      BY <2>4
    <3> QED  BY <1>4, <3>1, <3>2
  <2> PICK g : g = [k \in UNION {DOMAIN f : f \in all} |-> (CHOOSE f \in all : k \in DOMAIN f)[k]]
    OBVIOUS
  <2>6. g \in [K -> N]
    <3>1. ASSUME NEW k \in K PROVE (CHOOSE f \in all : k \in DOMAIN f)[k] \in N
      <4> PICK h : h = CHOOSE f \in all : k \in DOMAIN f
        OBVIOUS
      <4>1. \E f \in all : k \in DOMAIN f
        BY <2>5
      <4>2. h \in all /\ k \in DOMAIN h
        BY <4>1
      <4>3. PICK d \in DOMAIN ms : h \in [q[d] -> N]
        BY <2>3, <4>2
      <4>4. h[k] \in N
        BY <4>2, <4>3
      <4> QED  BY <4>4
    <3> QED  BY <2>5, <3>1
  <2>7. P!Joined(ms) = {g}
    BY <1>2 DEF P!Joined, P!NoMatch
  <2> QED  BY <2>6, <2>7 DEF MatchIs
<1> QED  BY <1>1, <1>2

\* What the columns of a file are: texts without a slash for all properties of
\* the pattern, if the pattern matches.
LEMMA FromFilename ==
    ASSUME NEW S, NEW p \in Seq(S), NEW C, NEW filename \in Seq(C)
    PROVE  MatchIs({P!StructuredDirectory(p).properties}, C \ {"/"}, P!from_filename(P!StructuredDirectory(p), filename))
<1> PICK parts : parts = P!ParsePattern(p)
  OBVIOUS
<1> PICK names : names = P!Split(filename, "/")
  OBVIOUS
<1> PICK B : B = C \ {"/"}
  OBVIOUS
<1> PICK dir : dir = P!StructuredDirectory(p)
  OBVIOUS
<1>1. parts \in Seq(Seq(PartTokens(S))) /\ names \in Seq(Seq(B))
  BY Parsed, SplitPieces DEF SplitInto
<1>2. dir.parts = parts /\ dir.properties = UNION {P!Properties(part) : part \in P!ToSet(parts)}
  BY DEF P!StructuredDirectory
<1>3. MatchIs({dir.properties}, B, {})
  BY DEF MatchIs
<1>4. CASE Len(names) = Len(parts)
  <2>1. \A d \in DOMAIN parts : parts[d] \in Seq(PartTokens(S)) /\ names[d] \in Seq(B)
    <3>1. DOMAIN parts = 1 .. Len(parts)
      BY <1>1
    <3>2. \A d \in 1 .. Len(parts) : parts[d] \in Seq(PartTokens(S))
      BY <1>1, SeqDef
    <3>3. \A d \in 1 .. Len(parts) : names[d] \in Seq(B)
      BY <1>1, <1>4, SeqDef
    <3> QED  BY <3>1, <3>2, <3>3
  <2> DEFINE ms == [d \in DOMAIN parts |-> P!Match(parts[d], names[d])]
             q == [d \in DOMAIN parts |-> P!Properties(parts[d])]
  <2>2. EachMatch(q, B, ms)
    <3>1. ASSUME NEW d \in DOMAIN parts PROVE MatchIs({P!Properties(parts[d])}, B, P!Match(parts[d], names[d]))
      BY <2>1, MatchTyped
    <3> QED  BY <3>1 DEF EachMatch
  <2>3. AllOf(q, DOMAIN ms) = dir.properties
    <3>1. DOMAIN ms = DOMAIN parts /\ \A d \in DOMAIN parts : q[d] = P!Properties(parts[d])
      OBVIOUS
    <3> HIDE DEF ms, q
    <3> QED  BY <1>2, <3>1 DEF P!ToSet, AllOf
  <2>4. P!from_filename(dir, filename) = P!Joined(ms)
    <3>1. P!from_filename(dir, filename) = P!Joined([d \in DOMAIN dir.parts |-> P!Match(dir.parts[d], names[d])])
      BY <1>2, <1>4 DEF P!from_filename
    <3> QED  BY <1>2, <3>1
  <2> HIDE DEF ms, q
  <2>5. MatchIs({AllOf(q, DOMAIN ms)}, B, P!Joined(ms))
    BY <2>2, JoinedTyped
  <2> QED  BY <2>3, <2>4, <2>5
<1>5. CASE Len(names) # Len(parts)
  BY <1>2, <1>3, <1>5 DEF P!from_filename, P!NoMatch
<1> QED  BY <1>4, <1>5

\* Texts without a slash, none of which is None.
LEMMA Value ==
    ASSUME NEW C, "None" \notin C, NEW x \in Seq(C \ {"/"})
    PROVE  x # P!None /\ "/" \notin P!ToSet(x)
<1>1. \A i \in DOMAIN x : x[i] \in C \ {"/"}
  <2>1. DOMAIN x = 1 .. Len(x)
    OBVIOUS
  <2> QED  BY <2>1, SeqDef
<1>2. ASSUME x = P!None PROVE FALSE
  <2>1. 1 \in DOMAIN P!None /\ P!None[1] = "None"
    BY DEF P!None
  <2> QED  BY <1>1, <1>2, <2>1
<1> QED  BY <1>1, <1>2 DEF P!ToSet

AllValues(dir, v) ==
    DOMAIN v = dir.properties /\ \A k \in DOMAIN v : v[k] # P!None /\ "/" \notin P!ToSet(v[k])

LEMMA AllHaveValues ==
    ASSUME NEW C, "None" \notin C, NEW dir, NEW v \in [dir.properties -> Seq(C \ {"/"})]
    PROVE  AllValues(dir, v)
<1>1. \A k \in DOMAIN v : v[k] \in Seq(C \ {"/"})
  OBVIOUS
<1>2. \A k \in DOMAIN v : v[k] # P!None /\ "/" \notin P!ToSet(v[k])
  BY <1>1, Value
<1> QED  BY <1>2 DEF AllValues

\* With values for all columns and no filename the item is made of the values.
LEMMA ItemOfValues ==
    ASSUME NEW dir, dir.properties # {}, NEW v, AllValues(dir, v)
    PROVE  /\ P!ItemFromDml(dir, P!None, v) = {v}
           /\ \A n : n \notin {P!None, << >>} =>
                P!ItemFromDml(dir, n, v) = {w \in {v} : P!from_filename(dir, n) \in {P!NoMatch, {v}}}
<1>1. {k \in DOMAIN v : v[k] # P!None} = dir.properties
  BY DEF AllValues
<1>2. P!Accepted(dir, v)
  BY DEF AllValues, P!Accepted
<1> PICK U2 : U2 = dir.properties
  OBVIOUS
<1>3. ASSUME NEW n PROVE P!ItemFromDml(dir, n, v) =
          {w \in {v} : P!Accepted(dir, w) /\ (IF n \in {P!None, << >>} THEN P!NoMatch ELSE P!from_filename(dir, n)) \in {P!NoMatch, {w}}}
  BY <1>1 DEF P!ItemFromDml
<1>4. \A w \in {v} : P!Accepted(dir, w)
  BY <1>2
<1>5. P!ItemFromDml(dir, P!None, v) = {v}
  BY <1>3, <1>4
<1>6. ASSUME NEW n, n \notin {P!None, << >>}
      PROVE  P!ItemFromDml(dir, n, v) = {w \in {v} : P!from_filename(dir, n) \in {P!NoMatch, {v}}}
  BY <1>3, <1>4, <1>6
<1> QED  BY <1>5, <1>6

\* With a filename and no values it is made of the filename.
LEMMA ItemOfFilename ==
    ASSUME NEW dir, NEW n, n \notin {P!None, << >>}, NEW v, \A k \in DOMAIN v : v[k] = P!None
    PROVE  P!ItemFromDml(dir, n, v) = P!from_filename(dir, n)
<1>1. {k \in DOMAIN v : v[k] # P!None} = {}
  OBVIOUS
<1> QED  BY <1>1 DEF P!ItemFromDml

GoesAsAsked(dir, Texts, n, v) ==
    LET named == P!from_filename(dir, n) IN
    /\ named # P!NoMatch => P!ItemFromDml(dir, n, v) = named \intersect {v}
    /\ P!ItemFromDml(dir, n, [k \in DOMAIN v |-> P!None]) = named
    /\ \A old \in Texts : \A o \in P!from_filename(dir, old) :
          /\ P!UpdateItem(dir, old, n, o) = IF n = old THEN {o} ELSE named
          /\ P!UpdateItem(dir, old, old, v) = {v}
          /\ named = {v} => P!UpdateItem(dir, old, n, v) = {v}

\* INSERT and UPDATE of FilesystemFdw work on the file that they are asked to
\* (StructuredFs.GoesWhereAsked), for every pattern, all names that a file can
\* have and all values without a slash: the name of an item is the file name
\* of the row, or the one its values make, or the old one.
THEOREM WrittenWhereAsked ==
    ASSUME NEW S, NEW p \in Seq(S), NEW C, "None" \notin C,
           NEW Texts \in SUBSET Seq(C), NEW Vs \in SUBSET Seq(C \ {"/"})
    PROVE  P!GoesWhereAsked(P!StructuredDirectory(p), Texts, Vs)
<1> PICK dir : dir = P!StructuredDirectory(p)
  OBVIOUS
<1> SUFFICES ASSUME dir.properties # {}, NEW n \in Texts \ {<< >>}, NEW v \in [dir.properties -> Vs]
             PROVE  GoesAsAsked(dir, Texts, n, v)
  <2> HIDE DEF GoesAsAsked
  <2>1. P!GoesWhereAsked(dir, Texts, Vs) <=>
          (P!Valid(dir) /\ dir.properties # {} =>
             \A n \in Texts \ {<< >>}, v \in [dir.properties -> Vs] : GoesAsAsked(dir, Texts, n, v))
    BY Zenon DEF P!GoesWhereAsked, GoesAsAsked
  <2> QED  BY <2>1
<1> PICK named : named = P!from_filename(dir, n)
  OBVIOUS
<1>1. AllValues(dir, v)
  <2>1. v \in [dir.properties -> Seq(C \ {"/"})]
    OBVIOUS
  <2> QED  BY <2>1, AllHaveValues
<1>2. \A t \in Texts : t # P!None
  <2>1. ASSUME NEW t \in Seq(C) PROVE t # P!None
    <3>1. \A i \in DOMAIN t : t[i] \in C
      BY SeqDef
    <3>2. 1 \in DOMAIN P!None /\ P!None[1] = "None"
      BY DEF P!None
    <3> QED  BY <3>1, <3>2
  <2> QED  BY <2>1
<1>3. \A t \in Texts : MatchIs({dir.properties}, C \ {"/"}, P!from_filename(dir, t))
  <2>1. \A t \in Texts : t \in Seq(C)
    OBVIOUS
  <2> QED  BY <2>1, FromFilename
<1>4. \A t \in Texts : P!from_filename(dir, t) = {} \/ \E w : AllValues(dir, w) /\ P!from_filename(dir, t) = {w}
  <2> TAKE t \in Texts
  <2> PICK M : M = P!from_filename(dir, t)
    OBVIOUS
  <2>1. M = {} \/ \E f \in [dir.properties -> Seq(C \ {"/"})] : M = {f}
    BY <1>3 DEF MatchIs
  <2> QED  BY <2>1, AllHaveValues
<1>5. named # P!NoMatch => P!ItemFromDml(dir, n, v) = named \intersect {v}
  <2>1. P!ItemFromDml(dir, n, v) = {w \in {v} : named \in {{}, {v}}}
    <3>1. n \notin {P!None, << >>}
      BY <1>2
    <3>2. P!ItemFromDml(dir, n, v) = {w \in {v} : P!from_filename(dir, n) \in {P!NoMatch, {v}}}
      BY <1>1, <3>1, ItemOfValues
    <3>3. {{}, {v}} = {P!NoMatch, {v}}
      BY DEF P!NoMatch
    <3> QED  BY <3>2, <3>3
  <2>2. named = {} \/ \E w : named = {w}
    BY <1>4
  <2> QED  BY <2>1, <2>2 DEF P!NoMatch
<1>6. P!ItemFromDml(dir, n, [k \in DOMAIN v |-> P!None]) = named
  <2> PICK u : u = [k \in DOMAIN v |-> P!None]
    OBVIOUS
  <2>1. \A k \in DOMAIN u : u[k] = P!None
    OBVIOUS
  <2> QED  BY <1>2, <2>1, ItemOfFilename
<1>7. ASSUME NEW old \in Texts, NEW o \in P!from_filename(dir, old)
      PROVE  /\ P!UpdateItem(dir, old, n, o) = IF n = old THEN {o} ELSE named
             /\ P!UpdateItem(dir, old, old, v) = {v}
             /\ named = {v} => P!UpdateItem(dir, old, n, v) = {v}
  <2>1. AllValues(dir, o) /\ P!from_filename(dir, old) = {o}
    BY <1>4, <1>7
  <2>2. P!ItemFromDml(dir, n, << >>) = named
    <3>1. \A k \in DOMAIN << >> : << >>[k] = P!None
      OBVIOUS
    <3> QED  BY <1>2, <3>1, ItemOfFilename
  <2>3. P!ItemFromDml(dir, P!None, v) = {v} /\ P!ItemFromDml(dir, P!None, o) = {o}
    BY <1>1, <2>1, ItemOfValues
  <2>4. \A w, m : AllValues(dir, w) =>
          P!UpdateItem(dir, old, m, w) = IF m # old /\ {w} = {o} THEN P!ItemFromDml(dir, m, << >>) ELSE P!ItemFromDml(dir, P!None, w)
    BY <2>1 DEF P!UpdateItem, AllValues
  <2>5. P!UpdateItem(dir, old, n, o) = IF n = old THEN {o} ELSE named
    BY <2>1, <2>2, <2>3, <2>4
  <2>6. P!UpdateItem(dir, old, old, v) = {v}
    BY <1>1, <2>3, <2>4
  <2>7. named = {v} => P!UpdateItem(dir, old, n, v) = {v}
    BY <1>1, <2>2, <2>3, <2>4
  <2> QED  BY <2>5, <2>6, <2>7
<1> QED  BY <1>5, <1>6, <1>7 DEF GoesAsAsked

-----------------------------------------------------------------------------
(* The calls of MCWrappers.                                                *)

LEMMA DatabasesAre == \A db \in Databases : IsDatabase(db)
<1> TAKE db \in Databases
<1> DEFINE Ks == ({"s"} \X {"t1", "t2", "t3"}) \union {<<"o", "t1">>}
           Rs == SUBSET {<<"s", "t1">>, <<"s", "t2">>}
<1>1. PICK keys \in {{}, {"id"}, {"id", "ref"}}, references \in [{"t1", "t2", "t3"} -> Rs] : db = Database(keys, references)
  BY DEF Databases
<1>2. DOMAIN db = Ks
  BY <1>1 DEF Database
<1>3. ASSUME NEW k \in Ks
      PROVE  /\ k = <<k[1], k[2]>> /\ db[k].references \subseteq {<<"s", "t1">>, <<"s", "t2">>}
             /\ db[k].columns = <<"id", "ref">> /\ db[k].keys \subseteq {"id", "ref"}
  <2>1. k = <<k[1], k[2]>> /\ (k[1] = "s" => k[2] \in {"t1", "t2", "t3"})
    OBVIOUS
  <2>2. db[k] = IF k[1] = "s" THEN Table(keys, references[k[2]]) ELSE Table({"id"}, {<<"s", "t1">>})
    BY <1>1 DEF Database
  <2>3. \A a, b : Table(a, b).columns = <<"id", "ref">> /\ Table(a, b).keys = a /\ Table(a, b).references = b
    BY DEF Table
  <2>4. k[1] = "s" => references[k[2]] \subseteq {<<"s", "t1">>, <<"s", "t2">>}
    BY <2>1
  <2>5. keys \subseteq {"id", "ref"}
    OBVIOUS
  <2>6. db[k].references \subseteq {<<"s", "t1">>, <<"s", "t2">>}
    <3>1. CASE k[1] = "s"
      BY <2>2, <2>3, <2>4, <3>1
    <3>2. CASE k[1] # "s"
      <4>1. db[k].references = {<<"s", "t1">>}
        BY <2>2, <2>3, <3>2
      <4> QED  BY <4>1
    <3> QED  BY <3>1, <3>2
  <2>7. db[k].columns = <<"id", "ref">>
    BY <2>2, <2>3
  <2>8. db[k].keys \subseteq {"id", "ref"}
    <3>1. db[k].keys = IF k[1] = "s" THEN keys ELSE {"id"}
      BY <2>2, <2>3
    <3> QED  BY <2>5, <3>1
  <2> QED  BY <2>1, <2>6, <2>7, <2>8
<1>4. <<"s", "t1">> \in Ks /\ <<"s", "t2">> \in Ks
  OBVIOUS
<1> PICK cs : cs = <<"id", "ref">>
  OBVIOUS
<1>5. Len(cs) = 2 /\ DOMAIN cs = 1 .. 2 /\ cs[1] = "id" /\ cs[2] = "ref" /\ 1 \in 1 .. 2 /\ 2 \in 1 .. 2
  OBVIOUS
<1>6. {"id", "ref"} = {cs[i] : i \in DOMAIN cs}
  BY <1>5
<1>7. Len(cs) \in Nat /\ DOMAIN cs = 1 .. Len(cs)
  BY <1>5
<1> HIDE DEF Ks
<1> QED  BY <1>2, <1>3, <1>4, <1>6, <1>7 DEF IsDatabase

LEMMA TypesAre == \A t \in RemoteTypes : t.name \in TypeNames /\ t.args \in Seq(Nat)
<1>1. << >> \in Seq(Nat) /\ <<7>> \in Seq(Nat) /\ <<7, 2>> \in Seq(Nat)
  OBVIOUS
<1>2. ASSUME NEW t \in RemoteTypes PROVE t.name \in TypeNames /\ t.args \in {<< >>, <<7>>, <<7, 2>>}
  BY DEF RemoteTypes, TypeNames
<1> QED  BY <1>1, <1>2

\* The characters of the statements of MCWrappers.
Alphabet == Quotes \union Symbols \union {"a", "text", "int", "schema", "tablename", "o"}

LEMMA TablesAre ==
    /\ IsAlphabet(Alphabet)
    /\ \A n \in QuotedNames : n \in Seq(Alphabet)
    /\ \A n, m \in QuotedNames : Tables2(n, m) \in TableDefinitions(Alphabet)
<1> PICK C : C = Alphabet
  OBVIOUS
<1>1. IsAlphabet(C)
  BY DEF Alphabet, IsAlphabet
<1>2. "text" \in C \ Quotes /\ "int" \in C \ Quotes /\ "schema" \in C \ Quotes /\ "tablename" \in C \ Quotes /\ "o" \in C \ Quotes
  BY DEF Alphabet, Quotes, Symbols
<1>3. \A n \in QuotedNames : n \in Seq(C)
  <2>1. {"a", "\"", "'", ","} \subseteq C
    BY DEF Alphabet, Quotes, Symbols
  <2>2. ASSUME NEW n \in QuotedNames PROVE n \in Seq(C)
    <3>1. n \in UpTo(2, {"a", "\"", "'", ","})
      BY DEF QuotedNames
    <3>2. 2 \in Nat
      OBVIOUS
    <3>3. n \in Seq({"a", "\"", "'", ","})
      BY <3>1, <3>2, UpToSeq
    <3> PICK S : S = {"a", "\"", "'", ","}
      OBVIOUS
    <3>4. n \in Seq(S) /\ \A c \in S : c \in C
      BY <2>1, <3>3
    <3> QED  BY <3>4, SeqOfMore
  <2> QED  BY <2>2
<1>4. ASSUME NEW n \in Seq(C), NEW m \in Seq(C) PROVE Tables2(n, m) \in TableDefinitions(C)
  <2> PICK K : K = C \ Quotes
    OBVIOUS
  <2> PICK V : V = Seq(C)
    OBVIOUS
  <2> PICK S : S = K \X V
    OBVIOUS
  <2>1. <<"schema", m>> \in S /\ <<"tablename", n>> \in S /\ <<"o", n>> \in S
    BY <1>2
  <2>2. \A x, y \in S : <<x, y>> \in Seq(S) /\ <<x>> \in Seq(S) /\ << >> \in Seq(S)
    OBVIOUS
  <2>3. << <<"schema", m>>, <<"tablename", n>> >> \in Seq(S) /\ << <<"o", n>> >> \in Seq(S) /\ << >> \in Seq(S)
    BY <2>1, <2>2
  <2> PICK o1 \in Seq(S) : o1 = << <<"schema", m>>, <<"tablename", n>> >>
    BY <2>3
  <2> PICK o2 \in Seq(S) : o2 = << <<"o", n>> >>
    BY <2>3
  <2> PICK o3 \in Seq(S) : o3 = << >>
    BY <2>3
  <2> PICK D : D = [name : V, type_name : K, options : Seq(S)]
    OBVIOUS
  <2>4. [name |-> m, type_name |-> "text", options |-> o2] \in D /\ [name |-> n, type_name |-> "int", options |-> o3] \in D
    BY <1>2
  <2>5. \A x, y \in D : <<x, y>> \in Seq(D)
    OBVIOUS
  <2>6. <<[name |-> m, type_name |-> "text", options |-> o2], [name |-> n, type_name |-> "int", options |-> o3]>> \in Seq(D)
    BY <2>4, <2>5
  <2>7. Tables2(n, m) \in [table_name : V, columns : Seq(D), options : Seq(S)]
    BY <2>6 DEF Tables2
  <2> QED  BY <2>7 DEF TableDefinitions, ColumnDefinitions, OptionLists
<1> QED  BY <1>1, <1>3, <1>4

\* ImportsFaithfully, for the calls that the run makes.
THEOREM ImportsAreFaithful == Spec => []ImportsFaithfully
<1>1. Asked => ImportsFaithfully
  <2> SUFFICES ASSUME Asked PROVE ImportsFaithfully
    OBVIOUS
  <2>1. ASSUME call.of = "import_schema" PROVE I!ImportsWhatIsAsked(call.args[1], "s", call.args[2], call.args[3])
    <3>1. PICK db \in Databases, r \in {"limit", "except", "None"}, ts \in SUBSET {"t1", "t2", "t4"} : call.args = <<db, r, ts>>
      BY <2>1 DEF Asked, Made
    <3>2. call.args[1] = db /\ call.args[2] = r /\ call.args[3] = ts
      BY <3>1
    <3>3. IsDatabase(db) /\ r \in Restrictions
      BY DatabasesAre DEF Restrictions
    <3>4. I!ImportsWhatIsAsked(db, "s", r, ts)
      BY <3>3, ImportedAsAsked
    <3> QED  BY <3>2, <3>4
  <2>2. ASSUME call.of = "to_statement" PROVE I!StatementReads(call.args[1], call.args[2], call.args[3])
    <3>1. PICK n \in QuotedNames, m \in QuotedNames : call.args = <<Tables2(n, m), m, n>>
      BY <2>2 DEF Asked, Made
    <3>2. call.args[1] = Tables2(n, m) /\ call.args[2] = m /\ call.args[3] = n
      BY <3>1
    <3>3. I!StatementReads(Tables2(n, m), m, n)
      BY TablesAre, StatementsAreRead
    <3> QED  BY <3>2, <3>3
  <2>3. ASSUME call.of = "type" PROVE I!TypeSurvives(call.args[1])
    <3>1. PICK t \in RemoteTypes : call.args = <<t>>
      BY <2>3 DEF Asked, Made
    <3>2. call.args[1] = t
      BY <3>1
    <3>3. I!TypeSurvives(t)
      BY TypesAre, TypesSurvive
    <3> QED  BY <3>2, <3>3
  <2> QED  BY <2>1, <2>2, <2>3 DEF ImportsFaithfully
<1>2. QED  BY <1>1, CallsAsked, PTL

PatternChars == {"{", "}", "a", "b", "_", "/"}

LEMMA FilePatternsAreTexts ==
    ASSUME NEW p \in FilePatterns
    PROVE  p \in Seq(PatternChars)
<1> PICK T : T = Seq(PatternChars)
  OBVIOUS
<1> PICK D : D = Pieces
  OBVIOUS
<1>1. D \subseteq T
  <2> PICK A : A = PatternChars
    OBVIOUS
  <2>1. \A c, d, e \in A : <<c>> \in Seq(A) /\ <<c, d>> \in Seq(A) /\ <<c, d, e>> \in Seq(A)
    OBVIOUS
  <2>2. {"{", "}", "a", "b", "_", "/"} \subseteq A
    BY DEF PatternChars
  <2>3. ASSUME NEW x \in D PROVE x \in Seq(A)
    <3>1. \/ x = <<"{", "a", "}">> \/ x = <<"{", "b", "}">> \/ x = <<"_">>
          \/ x = <<"/">> \/ x = <<"{", "{">> \/ x = <<"}", "}">>
      BY DEF Pieces
    <3> QED  BY <2>1, <2>2, <3>1
  <2> QED  BY <2>3
<1>2. \A ps \in Seq(D) : FlattenSeq(ps) \in T
  <2>1. \A ps \in Seq(D) : ps \in Seq(T)
    BY <1>1
  <2> QED  BY <2>1, Flattened
<1>3. \A ps \in UpTo(3, D) : FlattenSeq(ps) \in T
  <2>1. \A ps \in UpTo(3, D) : ps \in Seq(D)
    BY UpToSeq
  <2> QED  BY <1>2, <2>1
<1>4. \A ps \in [1 .. 3 -> D] : <<"{", "a", "}">> \o FlattenSeq(ps) \in T
  <2>1. \A ps \in [1 .. 3 -> D] : ps \in Seq(D)
    BY SeqDef
  <2>2. <<"{", "a", "}">> \in D
    BY DEF Pieces
  <2>3. \A v, w \in T : v \o w \in T
    BY ConcatProperties
  <2> QED  BY <1>1, <1>2, <2>1, <2>2, <2>3
<1>5. <<"{", "a", "}", "}">> \in T
  <2> PICK A : A = PatternChars
    OBVIOUS
  <2>1. \A c, d, e, f \in A : <<c, d, e, f>> \in Seq(A)
    OBVIOUS
  <2>2. "{" \in A /\ "a" \in A /\ "}" \in A
    BY DEF PatternChars
  <2> QED  BY <2>1, <2>2
<1> QED  BY <1>3, <1>4, <1>5 DEF FilePatterns

\* GoesWhereAsked, for the patterns, names and values of the run.
THEOREM FilesGoWhereAsked == Spec => []GoesWhereAsked
<1>1. Asked => GoesWhereAsked
  <2> SUFFICES ASSUME Asked, call.of = "pattern"
               PROVE  P!GoesWhereAsked(call.args[1], UpTo(2, {"x", "_", "/"}), FileValues)
    BY DEF GoesWhereAsked
  <2>1. PICK p \in FilePatterns : call.args = <<P!StructuredDirectory(p)>>
    BY DEF Asked, Made
  <2>2. p \in Seq(PatternChars)
    BY FilePatternsAreTexts
  <2> PICK C : C = {"x", "_", "/"}
    OBVIOUS
  <2> PICK Texts : Texts = UpTo(2, C)
    OBVIOUS
  <2>3. Texts \in SUBSET Seq(C) /\ "None" \notin C
    BY UpToSeq
  <2>4. FileValues \in SUBSET Seq(C \ {"/"})
    <3>1. C \ {"/"} = {"x", "_"}
      OBVIOUS
    <3>2. \A v \in UpTo(1, {"x", "_"}) : v \in Seq({"x", "_"})
      BY UpToSeq
    <3> QED  BY <3>1, <3>2 DEF FileValues
  <2>6. PICK dir : dir = P!StructuredDirectory(p) /\ call.args = <<dir>>
    BY <2>1
  <2>5. P!GoesWhereAsked(P!StructuredDirectory(p), Texts, FileValues)
    BY <2>2, <2>3, <2>4, WrittenWhereAsked
  <2> PICK args : args = call.args
    OBVIOUS
  <2>7. args[1] = dir
    <3>1. args = <<dir>>
      BY <2>6
    <3> HIDE <2>6
    <3>2. <<dir>>[1] = dir
      OBVIOUS
    <3> QED  BY <3>1, <3>2
  <2> QED  BY <2>5, <2>6, <2>7
<1> QED  BY <1>1, CallsAsked, PTL
=============================================================================
