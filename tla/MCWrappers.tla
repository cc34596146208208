----------------------------- MODULE MCWrappers ------------------------------
(***************************************************************************)
(* The wrappers, each on its own: which says whose behaviour this is.  The *)
(* translations have no state: a behaviour of theirs is a call with some   *)
(* arguments, and the properties are about what it returns.                *)
(***************************************************************************)
EXTENDS SqlAlchemyFdw, MetaCache, ImapFdw, RssFdw, XmlFdw

Q == INSTANCE RemoteQuals
O == INSTANCE SortedScans
I == INSTANCE SchemaImport
P == INSTANCE StructuredFs

VARIABLES
    which,   \* the wrapper
    call     \* [of, args]: the translation that was called, of = "none" if none

vars == <<which, call, sqlvars, metavars, imapvars, rssvars, xmlvars>>

Wrappers == {"sqlalchemyfdw", "docutils_meta", "imapfdw", "rssfdw", "xmlfdw", "translations"}

Translations == {"SqlQual", "LdapQual", "ImapQual", "compact_fetch", "SqlSort", "TestExecute",
                 "import_schema", "to_statement", "type", "pattern"}

UpTo(n, S) == UNION {[1 .. m -> S] : m \in 0 .. n}
Call(of, args) == call' = [of |-> of, args |-> args]

-----------------------------------------------------------------------------
(* Arguments.                                                              *)

\* Texts, with and without what LIKE, filters and quoted strings read.
ColumnTexts == UpTo(3, {"a", "A", "%", Q!Quote})
Patterns == {x \in UpTo(3, {"a", "%", "_", "\\", Q!Quote}) : x = << >> \/ Last(x) # "\\"}
LdapCharacters == {"a", "(", ")", "*", "/", "\\"}
Attributes == UpTo(2, UpTo(1, LdapCharacters) \union UpTo(2, {"a", "(", "*"}) \union {<<"\\", "a">>})
Names == {"=", "<>", "<", ">=", "~~", "!~~", "~~*", "!~~*"}
Scalars == {<<x>> : x \in Patterns \union {Q!NULL}}
Lists == UpTo(2, {<<"a">>, <<"a", "_", "a">>, << >>, Q!NULL})
Quals(fields, xs) ==
    {Q!Qual(k, <<o>>, s) : k \in fields, o \in Names, s \in xs}
    \union {Q!Qual(k, <<o, any>>, s) : k \in fields, o \in Names, any \in BOOLEAN, s \in Lists}
Filters == {Q!Qual("cn", <<o>>, <<x>>) : o \in {"=", "~~"},
               x \in UpTo(2, LdapCharacters \union {"%"}) \ {<< >>}}
Flags == {<<"work">>, <<"seen">>, <<"\\", "seen">>, <<"a", Q!Quote>>}
FlagQuals == {Q!Qual("flags", <<o>>, s) : o \in {"@>", "&&"}, s \in UpTo(2, Flags)}
ColumnValues(q) ==
    IF q.field_name = "flags" THEN UpTo(2, Flags) ELSE ColumnTexts

SortColumns == {"a", "b"}
SortKeys == {O!SortKey(c, r, n) : c \in SortColumns, r \in BOOLEAN, n \in BOOLEAN}
SortRows == [SortColumns -> 0 .. 2]

\* Three tables of the schema "s", one of another, and foreign keys.
Table(keys, references) == [columns |-> <<"id", "ref">>, keys |-> keys, references |-> references]
Database(keys, references) ==
    [k \in ({"s"} \X {"t1", "t2", "t3"}) \union {<<"o", "t1">>} |->
         IF k[1] = "s" THEN Table(keys, references[k[2]]) ELSE Table({"id"}, {<<"s", "t1">>})]
Databases ==
    {Database(keys, references) :
        keys \in {{}, {"id"}, {"id", "ref"}},
        references \in [{"t1", "t2", "t3"} -> SUBSET {<<"s", "t1">>, <<"s", "t2">>}]}

QuotedNames == UpTo(2, {"a", "\"", "'", ","}) \ {<< >>}
Tables2(n, m) ==
    [table_name |-> n, options |-> << <<"schema", m>>, <<"tablename", n>> >>,
     columns |-> <<[name |-> m, type_name |-> "text", options |-> << <<"o", n>> >>],
                   [name |-> n, type_name |-> "int", options |-> << >>]>>]
RemoteTypes ==
    [name : {"NUMBER", "NVARCHAR", "TEXT", "VARBINARY"}, args : {<< >>, <<7>>}]
    \union [name : {"NUMBER"}, args : {<<7, 2>>}]
    \union [name : {"TINYINT", "DATETIME", "IMAGE", "BIT", "SMALLINT", "BOOLEAN"}, args : {<< >>}]

Pieces == {<<"{", "a", "}">>, <<"{", "b", "}">>, <<"_">>, <<"/">>, <<"{", "{">>, <<"}", "}">>}
FilePatterns ==
    {FlattenSeq(ps) : ps \in UpTo(3, Pieces)}
    \union {<<"{", "a", "}">> \o FlattenSeq(ps) : ps \in [1 .. 3 -> Pieces]}
    \union {<<"{", "a", "}", "}">>}
FileNames == UpTo(3, {"x", "_", "{", "/"})
FileValues == UpTo(1, {"x", "_"})

-----------------------------------------------------------------------------

Init ==
    /\ which \in Wrappers
    /\ call = [of |-> "none", args |-> << >>]
    /\ SqlInit /\ MetaInit /\ ImapInit /\ RssInit /\ XmlInit

Sql == which = "sqlalchemyfdw" /\ SqlNext /\ UNCHANGED <<which, call, metavars, imapvars, rssvars, xmlvars>>
Meta == which = "docutils_meta" /\ MetaNext /\ UNCHANGED <<which, call, sqlvars, imapvars, rssvars, xmlvars>>
Imap(A) == which = "imapfdw" /\ A /\ UNCHANGED <<which, call, sqlvars, metavars, rssvars, xmlvars>>
Rss == which = "rssfdw" /\ RssNext /\ UNCHANGED <<which, call, sqlvars, metavars, imapvars, xmlvars>>
Xml == which = "xmlfdw" /\ XmlNext /\ UNCHANGED <<which, call, sqlvars, metavars, imapvars, rssvars>>

Calls ==
    \/ \E q \in Quals({"Subject"}, Scalars) : Call("SqlQual", <<q>>)
    \/ \E q \in Filters : Call("LdapQual", <<q>>)
    \/ \E q \in Quals({"Subject", "FROM", "payload"}, Scalars) \union FlagQuals : Call("ImapQual", <<q>>)
    \/ \E m \in UpTo(4, 1 .. 5) \ {<< >>} : Call("compact_fetch", m)
    \/ \E d \in O!Dialects, k \in UpTo(2, SortKeys) : Call("SqlSort", <<d, k>>)
    \/ \E r \in UpTo(3, [{"a"} -> 1 .. 2]), k \in UpTo(1, {O!SortKey("a", b, FALSE) : b \in BOOLEAN}),
          l \in {O!None} \union 0 .. 3, o \in {O!None} \union 0 .. 3 : Call("TestExecute", <<r, k, l, o>>)
    \/ \E db \in Databases, r \in {"limit", "except", "None"}, ts \in SUBSET {"t1", "t2", "t4"} :
          Call("import_schema", <<db, r, ts>>)
    \/ \E n, m \in QuotedNames : Call("to_statement", <<Tables2(n, m), m, n>>)
    \/ \E t \in RemoteTypes : Call("type", <<t>>)
    \/ \E p \in FilePatterns : Call("pattern", <<P!StructuredDirectory(p)>>)

Translation ==
    /\ which = "translations" /\ call.of = "none" /\ Calls
    /\ UNCHANGED <<which, sqlvars, metavars, imapvars, rssvars, xmlvars>>

Return ==
    /\ call.of # "none" /\ Call("none", << >>)
    /\ UNCHANGED <<which, sqlvars, metavars, imapvars, rssvars, xmlvars>>

Next == Sql \/ Meta \/ Imap(ImapNext) \/ Rss \/ Xml \/ Translation \/ Return

Spec == Init /\ [][Next]_vars /\ WF_vars(Imap(StartScan)) /\ WF_vars(Imap(Use \/ UseRaises))

-----------------------------------------------------------------------------

TypeOK ==
    /\ which \in Wrappers /\ call.of \in Translations \union {"none"}
    /\ SqlTypeOK /\ MetaTypeOK /\ ImapTypeOK /\ RssTypeOK /\ XmlTypeOK

\* No row that a query asks for is lost in the WHERE clause that
\* SqlAlchemyFdw._build_statement makes of its quals (RemoteQuals.SqlKeepsRows),
\* in the search filter of LdapFdw.execute (LdapKeepsRows), in the criteria of
\* ImapFdw.extract_conditions (ImapKeepsRows), or between the mails found and
\* the ranges that compact_fetch asks for (FetchesFound).
KeepsRows ==
    /\ call.of = "SqlQual" =>
          \A v \in ColumnTexts \union {Q!NULL}, escapes \in BOOLEAN :
              Q!SqlKeepsRows(call.args[1], v, escapes)
    /\ call.of = "LdapQual" => \A a \in Attributes : Q!LdapKeepsRows(call.args[1], a)
    /\ call.of = "ImapQual" =>
          \A v \in ColumnValues(call.args[1]) : Q!ImapKeepsRows(call.args[1], v)
    /\ call.of = "compact_fetch" => Q!FetchesFound(call.args)

\* A wrapper does what PostgreSQL no longer does: SqlAlchemyFdw returns rows in
\* the order that can_sort has claimed (SortedScans.SqlSortsAsClaimed), and
\* TestForeignDataWrapper.execute sorts, then cuts (TestCutsAsAsked).
SortsAndCutsAsAsked ==
    /\ call.of = "SqlSort" => O!SqlSortsAsClaimed(call.args[1], call.args[2], SortRows)
    /\ call.of = "TestExecute" =>
          O!TestCutsAsAsked(call.args[1], call.args[2], call.args[3], call.args[4])

\* IMPORT FOREIGN SCHEMA creates the tables that were asked for
\* (SchemaImport.ImportsWhatIsAsked), PostgreSQL reads in a statement of
\* to_statement what the definition says (StatementReads), and a remote type
\* survives its import and _get_column_type (TypeSurvives).
ImportsFaithfully ==
    /\ call.of = "import_schema" => I!ImportsWhatIsAsked(call.args[1], "s", call.args[2], call.args[3])
    /\ call.of = "to_statement" => I!StatementReads(call.args[1], call.args[2], call.args[3])
    /\ call.of = "type" => I!TypeSurvives(call.args[1])

\* File names and rows determine each other: create makes of an item the name
\* that from_filename read it from (StructuredFs.RoundTrip), and an inserted
\* row is found again (InsertedIsFound).
NamesAreRows ==
    call.of = "pattern" => /\ P!RoundTrip(call.args[1], FileNames)
                           /\ P!InsertedIsFound(call.args[1], UpTo(2, {"x", "_", "/"}))

\* get_items finds with fixed values what it lists without:
\* StructuredFs.FixedAsListed.
FixedAsListed ==
    call.of = "pattern" => P!FixedAsListed(call.args[1], UpTo(2, {"x", "_", "/"}) \union UpTo(3, {"x", "_"}), FileValues)

\* INSERT and UPDATE of FilesystemFdw work on the file that they are asked to:
\* StructuredFs.GoesWhereAsked.
GoesWhereAsked ==
    call.of = "pattern" => P!GoesWhereAsked(call.args[1], UpTo(2, {"x", "_", "/"}), FileValues)
=============================================================================
