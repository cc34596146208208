---------------------------- MODULE SchemaImport -----------------------------
(***************************************************************************)
(* IMPORT FOREIGN SCHEMA with multicorn.sqlalchemyfdw: import_schema       *)
(* reflects the remote tables, to_statement makes a CREATE FOREIGN TABLE   *)
(* of each, PostgreSQL reads the statements and keeps the tables that were *)
(* asked for, and _get_column_type reads the types of their columns back   *)
(* when the wrapper is used.                                               *)
(***************************************************************************)
EXTENDS Naturals, Sequences, SequencesExt, FiniteSets

-----------------------------------------------------------------------------
(* import_schema.  A remote database is a function from <<schema, table>>  *)
(* to [columns, keys, references]: the columns in order, those of them in  *)
(* the primary key, the tables that foreign keys refer to.                 *)

\* MetaData.reflect follows the foreign keys of what it loads: the tables that
\* are in every set with these that leaves no reference out.  External.
WithReferences(db, found) ==
    LET Closed == {S \in SUBSET DOMAIN db : \A k \in S : db[k].references \subseteq S}
    IN  {k \in DOMAIN db : \A S \in Closed : found \subseteq S => k \in S}

\* Mutant: the excepted tables are those that are loaded.
OnlyExcepted(restriction_type, restricts, t) ==
    restriction_type \in {"limit", "except"} => t \in restricts

\* The argument only; there is none without a restriction.
Only(restriction_type, restricts, t) ==
    CASE restriction_type = "limit"  -> t \in restricts
      [] restriction_type = "except" -> t \notin restricts
      [] restriction_type = "None"   -> TRUE

\* The definition of a foreign table; of a primary key of several columns the
\* last one is the option.
Definition(db, schema, k) ==
    LET t == db[k]  keys == {i \in DOMAIN t.columns : t.columns[i] \in t.keys} IN
    [table_name |-> k[2],
     options    |-> [schema |-> schema, tablename |-> k[2],
                     primary_key |-> IF keys = {} THEN "None" ELSE t.columns[Max(keys)]],
     columns    |-> t.columns]

import_schema(db, schema, restriction_type, restricts) ==
    {Definition(db, schema, k) :
        k \in WithReferences(db, {k \in DOMAIN db :
                 k[1] = schema /\ Only(restriction_type, restricts, k[2])})}

\* IsImportableForeignTable.  External.
Importable(d, restriction_type, restricts) ==
    CASE restriction_type = "limit"  -> d.table_name \in restricts
      [] restriction_type = "except" -> d.table_name \notin restricts
      [] restriction_type = "None"   -> TRUE

-----------------------------------------------------------------------------
(* The statement, as a sequence of characters; what is between the names   *)
(* is one character each.  A definition has the texts [table_name,         *)
(* columns, options], an option is <<key, value>>, and keys are not quoted.*)

Doubled(value, quote) ==
    FlattenSeq([i \in DOMAIN value |-> IF value[i] = quote THEN <<quote, quote>> ELSE <<value[i]>>])

quote_identifier(value) == <<"\"">> \o Doubled(value, "\"") \o <<"\"">>
quote_option(value) == <<"'">> \o Doubled(value, "'") \o <<"'">>

Joined(parts) ==
    FlattenSeq([i \in DOMAIN parts |-> IF i = 1 THEN parts[i] ELSE <<",">> \o parts[i]])

dict_to_optionstring(options) ==
    Joined([i \in DOMAIN options |-> <<options[i][1]>> \o quote_option(options[i][2])])

Options(options) ==
    IF options = << >> THEN << >> ELSE <<"OPTIONS", "(">> \o dict_to_optionstring(options) \o <<")">>

\* ColumnDefinition.to_statement; a column is [name, type_name, options].
ColumnStatement(c) == quote_identifier(c.name) \o <<c.type_name>> \o Options(c.options)

to_statement(d, schema_name, server_name) ==
    <<"CREATE FOREIGN TABLE">> \o quote_identifier(schema_name)
    \o <<".">> \o quote_identifier(d.table_name)
    \o <<"(">> \o Joined([i \in DOMAIN d.columns |-> ColumnStatement(d.columns[i])])
    \o <<")", "SERVER">> \o quote_identifier(server_name) \o Options(d.options)

\* PostgreSQL's lexer, a character at a time: a quoted token ends at a quote
\* that is not doubled, which the character after it shows.  External.
Lexeme(kind, text) == <<[kind |-> kind, text |-> text]>>

LexStep(s, c) ==
    LET Outside(tokens) ==
          IF c \in {"\"", "'"} THEN [in |-> "quotes", quote |-> c, text |-> << >>, tokens |-> tokens]
          ELSE [in |-> "none", quote |-> "", text |-> << >>, tokens |-> tokens \o Lexeme(c, << >>)]
    IN  CASE s.in = "none" -> Outside(s.tokens)
          [] s.in = "quotes" /\ c = s.quote -> [s EXCEPT !.in = "closing"]
          [] s.in = "quotes" /\ c # s.quote -> [s EXCEPT !.text = Append(@, c)]
          [] s.in = "closing" /\ c = s.quote -> [s EXCEPT !.in = "quotes", !.text = Append(@, c)]
          [] s.in = "closing" /\ c # s.quote -> Outside(s.tokens \o Lexeme(s.quote, s.text))

Lex(s) ==
    LET before[i \in 1 .. Len(s) + 1] ==
          IF i = 1 THEN [in |-> "none", quote |-> "", text |-> << >>, tokens |-> << >>]
          ELSE LexStep(before[i - 1], s[i - 1])
        end == before[Len(s) + 1]
    IN  CASE end.in = "none"    -> end.tokens
          [] end.in = "quotes"  -> end.tokens \o Lexeme("error", end.text)
          [] end.in = "closing" -> end.tokens \o Lexeme(end.quote, end.text)

-----------------------------------------------------------------------------
(* Types.  A remote type is [name, args]; a type as PostgreSQL formats it  *)
(* is [attype, mods, array], and as the wrapper reads it [attype, args,    *)
(* precision, timezone, varying, array].                                   *)

\* CONVERSION_MAP: the generic types, with the arguments of the special ones.
Generic(name) ==
    CASE name = "NUMBER"   -> "NUMERIC"
      [] name = "TINYINT"  -> "SMALLINT"
      [] name = "NVARCHAR" -> "VARCHAR"
      [] name = "DATETIME" -> "TIMESTAMP"
      [] name \in {"VARBINARY", "IMAGE"} -> "BYTEA"
      [] name = "BIT"      -> "BOOLEAN"
      [] OTHER             -> name

Convert(t) == [name |-> Generic(t.name), args |-> IF t.name = "TEXT" THEN << >> ELSE t.args]

\* type.compile(dialect), and the type of the column created with it as
\* format_type writes it; there is no TEXT(n).  External.
Refuses(t) == t.name = "TEXT" /\ t.args # << >>

FormatType(t) ==
    LET Type(attype, mods) == [attype |-> attype, mods |-> mods, array |-> FALSE] IN
    CASE t.name = "NUMERIC"   -> Type("numeric", IF Len(t.args) = 1 THEN Append(t.args, 0) ELSE t.args)
      [] t.name = "VARCHAR"   -> Type("character varying", t.args)
      [] t.name = "TIMESTAMP" -> Type("timestamp without time zone", << >>)
      [] t.name = "SMALLINT"  -> Type("smallint", << >>)
      [] t.name = "BYTEA"     -> Type("bytea", << >>)
      [] t.name = "BOOLEAN"   -> Type("boolean", << >>)
      [] t.name = "TEXT"      -> Type("text", << >>)

WithZone == {"timestamp with time zone", "time with time zone"}
WithoutZone == {"timestamp without time zone", "time without time zone", "time"}
Intervals == {"interval", "interval year to month", "interval day to second"}

\* numeric needs both of its modifiers, the others at most one.
get_column_type(f) ==
    LET type == [attype |-> f.attype, args |-> << >>, precision |-> << >>,
                 timezone |-> FALSE, varying |-> FALSE, array |-> f.array]
    IN  CASE f.attype = "double precision" -> [type EXCEPT !.args = <<53>>]
          [] f.attype = "integer" -> type
          [] f.attype \in WithZone -> [type EXCEPT !.timezone = TRUE, !.precision = f.mods]
          [] f.attype \in WithoutZone \union Intervals -> [type EXCEPT !.precision = f.mods]
          [] f.attype = "bit varying" -> [type EXCEPT !.varying = TRUE, !.args = f.mods]
          [] OTHER -> [type EXCEPT !.args = f.mods]

-----------------------------------------------------------------------------

\* The foreign tables are the remote tables that were asked for, each once,
\* and each names, by its options, the remote table that has its columns,
\* though reflection brings in tables that were not asked for.  The tables of
\* a LIMIT TO exist, and no foreign key leads out of the schema.
ImportsWhatIsAsked(db, schema, restriction_type, restricts) ==
    LET names == {k[2] : k \in {k \in DOMAIN db : k[1] = schema}}
        created == {d \in import_schema(db, schema, restriction_type, restricts) :
                        Importable(d, restriction_type, restricts)}
    IN  /\ restriction_type = "limit" => restricts \subseteq names
        /\ \A k \in DOMAIN db : k[1] = schema => \A l \in db[k].references : l[1] = schema
        =>
        /\ {d.table_name : d \in created} =
               {t \in names : restriction_type = "limit" => t \in restricts}
               \ (IF restriction_type = "except" THEN restricts ELSE {})
        /\ \A d, e \in created : d.table_name = e.table_name => d = e
        /\ \A d \in created : \E k \in DOMAIN db :
              /\ k = <<d.options.schema, d.options.tablename>> /\ d.columns = db[k].columns
              /\ d.options.primary_key \in db[k].keys \union
                     (IF db[k].keys = {} THEN {"None"} ELSE {})

\* PostgreSQL reads from the statement the names and the options that the
\* definition has, whatever quotes and punctuation they contain.
StatementReads(d, schema_name, server_name) ==
    LET Id(text) == Lexeme("\"", text)
        Sym(c) == Lexeme(c, << >>)
        List(parts) == FlattenSeq([i \in DOMAIN parts |-> IF i = 1 THEN parts[i] ELSE Sym(",") \o parts[i]])
        Opts(options) ==
            IF options = << >> THEN << >>
            ELSE Sym("OPTIONS") \o Sym("(")
                 \o List([i \in DOMAIN options |-> Sym(options[i][1]) \o Lexeme("'", options[i][2])])
                 \o Sym(")")
        Col(c) == Id(c.name) \o Sym(c.type_name) \o Opts(c.options)
    IN  Lex(to_statement(d, schema_name, server_name)) =
            Sym("CREATE FOREIGN TABLE") \o Id(schema_name) \o Sym(".") \o Id(d.table_name)
            \o Sym("(") \o List([i \in DOMAIN d.columns |-> Col(d.columns[i])])
            \o Sym(")") \o Sym("SERVER") \o Id(server_name) \o Opts(d.options)

\* A remote column is created, and when the wrapper reads its type back the
\* length, precision and scale are those of the remote type.
TypeSurvives(t) ==
    LET c == Convert(t)  type == get_column_type(FormatType(c))
        sized == c.name \in {"NUMERIC", "VARCHAR"}
    IN  /\ ~Refuses(c)
        /\ type.args \o type.precision = (IF sized THEN FormatType(c).mods ELSE << >>)
        /\ sized => SubSeq(type.args, 1, Len(t.args)) = t.args
=============================================================================
