----------------------------- MODULE RemoteQuals -----------------------------
(***************************************************************************)
(* What three wrappers make of the quals they are given: a WHERE clause    *)
(* (multicorn.sqlalchemyfdw), a search filter (multicorn.ldapfdw), search  *)
(* criteria (multicorn.imapfdw).  PostgreSQL checks the quals again, so a  *)
(* remote server may return too much and must not return too little.       *)
(*                                                                         *)
(* A text is a sequence of characters, and a character is a string.        *)
(***************************************************************************)
EXTENDS Integers, Sequences, SequencesExt, FiniteSets

NULL == <<"NULL">>
Wildcards == {"%", "_"}
LikeOps == {"~~", "!~~", "~~*", "!~~*"}

Lower(text) == [i \in DOMAIN text |-> IF text[i] = "A" THEN "a" ELSE text[i]]

-----------------------------------------------------------------------------
(* multicorn.Qual.  An operator is <<name>>, or <<name, TRUE>> for ANY and *)
(* <<name, FALSE>> for ALL; the value is a sequence of texts, of length    *)
(* one if the operand is no array.                                         *)

Qual(field_name, operator, value) ==
    [field_name |-> field_name, operator |-> operator, value |-> value]

list_any_or_all(q) ==
    IF Len(q.operator) = 1 THEN "None" ELSE IF q.operator[2] THEN "ANY" ELSE "ALL"

\* PostgreSQL's LIKE.  External; not for a pattern that ends in a backslash.
\* like[i] are the places of t from which on it is like p from its place i on.
Like(p, t, escapes) ==
    LET like[i \in 1 .. Len(p) + 1] ==
          LET Quotes == escapes /\ p[i] = "\\" /\ i < Len(p) IN
          {j \in 1 .. Len(t) + 1 :
              IF i > Len(p) THEN j > Len(t)
              ELSE IF p[i] = "%" THEN \E k \in j .. Len(t) + 1 : k \in like[i + 1]
              ELSE /\ j <= Len(t)
                   /\ p[i] = "_" \/ t[j] = (IF Quotes THEN p[i + 1] ELSE p[i])
                   /\ j + 1 \in like[IF Quotes THEN i + 2 ELSE i + 1]}
    IN  1 \in like[1]

\* v op x is true in PostgreSQL; the order of texts is any that both sides
\* agree on.
Compare(op, v, x) ==
    /\ v # NULL /\ x # NULL
    /\ CASE op = "="    -> v = x
         [] op = "<>"   -> v # x
         [] op = "<"    -> Len(v) < Len(x)
         [] op = ">="   -> Len(v) >= Len(x)
         [] op = "~~"   -> Like(x, v, TRUE)
         [] op = "!~~"  -> ~Like(x, v, TRUE)
         [] op = "~~*"  -> Like(Lower(x), Lower(v), TRUE)
         [] op = "!~~*" -> ~Like(Lower(x), Lower(v), TRUE)

ArrayOps == {"@>", "&&"}

\* The column is an array too.
CompareArrays(op, v, x) ==
    IF op = "@>" THEN ToSet(x) \subseteq ToSet(v) ELSE ToSet(x) \intersect ToSet(v) # {}

\* The row is one that the query asks for: v is its value in the column.
Accepts(q, v) ==
    LET op == q.operator[1]  X(i) == q.value[i] IN
    CASE list_any_or_all(q) = "ANY"  -> \E i \in DOMAIN q.value : Compare(op, v, X(i))
      [] list_any_or_all(q) = "ALL"  -> \A i \in DOMAIN q.value : Compare(op, v, X(i))
      [] list_any_or_all(q) = "None" -> IF op \in ArrayOps THEN CompareArrays(op, v, q.value)
                                        ELSE Compare(op, v, X(1))

-----------------------------------------------------------------------------
(* SqlAlchemyFdw: OPERATORS and _build_statement.                          *)

\* > and <= are like >= and <.
Comparisons == {"=", "<>", "<", ">=", "~~", "!~~", "~~*", "!~~*"}

Clause(op) ==
    CASE op = "="    -> "eq"
      [] op = "<>"   -> "ne"
      [] op = "<"    -> "lt"
      [] op = ">="   -> "ge"
      [] op = "~~"   -> "like"
      [] op = "!~~"  -> "not like"
      [] op = "~~*"  -> "ilike"
      [] op = "!~~*" -> "not ilike"

\* Mutant: <> ANY is taken for NOT IN.
OperatorsAny ==
    [o \in {<<op>> : op \in Comparisons} \union {<<"=", TRUE>>, <<"<>", TRUE>>} |->
        IF Len(o) = 1 THEN Clause(o[1]) ELSE IF o[1] = "=" THEN "in" ELSE "not in"]

OPERATORS ==
    [o \in {<<op>> : op \in Comparisons} \union {<<"=", TRUE>>, <<"<>", FALSE>>} |->
        IF Len(o) = 1 THEN Clause(o[1]) ELSE IF o[1] = "=" THEN "in" ELSE "not in"]

\* The clause is true in the remote database.  eq and ne of None are IS NULL
\* and IS NOT NULL; NOT IN of nothing is true, of a NULL never.  External.
SqlTrue(clause, v, value, escapes) ==
    LET x == value[1]
        Both == v # NULL /\ x # NULL
        In == \E i \in DOMAIN value : value[i] # NULL /\ v = value[i]
    IN  CASE clause = "eq"        -> v = x
          [] clause = "ne"        -> IF x = NULL THEN v # NULL ELSE v # NULL /\ v # x
          [] clause = "lt"        -> Both /\ Len(v) < Len(x)
          [] clause = "ge"        -> Both /\ Len(v) >= Len(x)
          [] clause = "like"      -> Both /\ Like(x, v, escapes)
          [] clause = "ilike"     -> Both /\ Like(Lower(x), Lower(v), escapes)
          [] clause = "not like"  -> Both /\ ~Like(x, v, escapes)
          [] clause = "not ilike" -> Both /\ ~Like(Lower(x), Lower(v), escapes)
          [] clause = "in"        -> v # NULL /\ In
          [] clause = "not in"    -> \/ value = << >>
                                     \/ v # NULL /\ ~In /\ \A i \in DOMAIN value : value[i] # NULL

\* A qual with another operator is not pushed, and a WARNING is logged.
SqlReturns(q, v, escapes) ==
    q.operator \in DOMAIN OPERATORS => SqlTrue(OPERATORS[q.operator], v, q.value, escapes)

-----------------------------------------------------------------------------
(* LdapFdw.execute.                                                        *)

Code(c) ==
    CASE c = "*"  -> "2a"
      [] c = "("  -> "28"
      [] c = ")"  -> "29"
      [] c = "\\" -> "5c"
      [] c = "/"  -> "2f"

SPECIAL_CHARS == [c \in {"*", "(", ")", "\\", "/"} |-> <<"\\", Code(c)>>]

translate(text) ==
    FlattenSeq([i \in DOMAIN text |->
        IF text[i] \in DOMAIN SPECIAL_CHARS THEN SPECIAL_CHARS[text[i]] ELSE <<text[i]>>])

replace(text, from, to) == [i \in DOMAIN text |-> IF text[i] = from THEN to ELSE text[i]]

\* val, for a value that is a string.
FilterValue(op, x) ==
    LET baseval == translate(x) IN IF op = "~~" THEN replace(baseval, "%", "*") ELSE baseval

\* The server's reading of the filter: \hh is a character, a free * is any
\* text, upper and lower case are the same.  External.
Filtered(f, t) ==
    LET filter[i \in 1 .. Len(f) + 1] ==
          {j \in 1 .. Len(t) + 1 :
              IF i > Len(f) THEN j > Len(t)
              ELSE IF f[i] = "*" THEN \E k \in j .. Len(t) + 1 : k \in filter[i + 1]
              ELSE IF f[i] = "\\"
                   THEN /\ i < Len(f) /\ j <= Len(t) /\ t[j] \in DOMAIN SPECIAL_CHARS
                        /\ SPECIAL_CHARS[t[j]][2] = f[i + 1]
                        /\ j + 1 \in filter[i + 2]
              ELSE j <= Len(t) /\ t[j] = f[i] /\ j + 1 \in filter[i + 1]}
    IN  1 \in filter[1]

\* The entry is returned: attribute is the sequence of its values, of which
\* the column shows the first, and NULL for none or for an empty one.
LdapReturns(q, attribute) ==
    q.operator[1] \in {"=", "~~"} =>
        \E i \in DOMAIN attribute :
            Filtered(Lower(FilterValue(q.operator[1], q.value[1])), Lower(attribute[i]))

LdapColumn(attribute) ==
    IF attribute = << >> \/ attribute[1] = << >> THEN NULL ELSE attribute[1]

-----------------------------------------------------------------------------
(* ImapFdw.  A condition is a set of alternatives, an alternative a set of *)
(* criteria, and a criterion a search key, whether it must not hold, and   *)
(* its argument as it is sent: order and repetition make no difference to  *)
(* what is found.  '' is one alternative without criteria, None is none.   *)

STANDARD_FLAGS == {<<"seen">>, <<"flagged">>, <<"delete">>, <<"draft">>, <<"recent">>}

\* '"%s"' % value: nothing in the value is escaped.
Quote == "\""
InQuotes(text) == <<Quote>> \o text \o <<Quote>>

Criterion(key, not, text) == {{[key |-> key, not |-> not, argument |-> InQuotes(text)]}}
Unmanaged == {{}}
NoMatchPossible == Criterion("raise", FALSE, << >>)

Trimmed(x) ==
    LET y == IF x # << >> /\ x[1] \in Wildcards THEN Tail(x) ELSE x
    IN  IF y # << >> /\ Last(y) \in Wildcards THEN Front(y) ELSE y

\* re.match(r'.*[^\\][_%]', value)
HasWildcard(x) == \E i \in 2 .. Len(x) : x[i] \in Wildcards /\ x[i - 1] # "\\"

Unescaped(x) ==
    FlattenSeq([i \in DOMAIN x |->
        IF x[i] = "\\" /\ i < Len(x) /\ x[i + 1] \in Wildcards THEN << >> ELSE <<x[i]>>])

\* A flag is sent as it is, without quotes.
Flag(atom) == [key |-> IF Lower(atom) \in STANDARD_FLAGS THEN "flag" ELSE "KEYWORD",
               not |-> FALSE,
               argument |-> atom]

\* The columns: flags_column, payload_column, a column of SEARCH_HEADERS, and
\* others, which are headers.  The prefix of a header replaces the NOT.
make_condition(key, op, value) ==
    LET like == op \in LikeOps
        text == IF like THEN Unescaped(Trimmed(value[1])) ELSE value[1]
        negated == op \in {"!~~", "<>", "!~~*"} /\ Lower(text) \notin STANDARD_FLAGS
    IN  IF \/ op \notin LikeOps \union ArrayOps \union {"=", "<>"}
           \/ like /\ HasWildcard(Trimmed(value[1]))
        THEN Unmanaged
        ELSE CASE key = "flags" /\ op = "@>" -> {{Flag(value[i]) : i \in DOMAIN value}}
               [] key = "flags" /\ op = "&&" -> {{Flag(value[i])} : i \in DOMAIN value}
               [] key = "flags" /\ op \notin ArrayOps -> Criterion("invalid", negated, text)
               [] key = "payload" -> Criterion("TEXT", negated, text)
               [] key = "FROM"    -> Criterion("FROM", negated, text)
               [] key = "Subject" -> IF text \in {<< >>, NULL} THEN NoMatchPossible
                                     ELSE Criterion("HEADER", FALSE, text)

make_or(values) == UNION (values \ {Unmanaged})

\* The conditions, all of which must hold.
extract_conditions(q) ==
    LET Condition(value) == make_condition(q.field_name, q.operator[1], value)
        each == {Condition(<<q.value[i]>>) : i \in DOMAIN q.value}
        conditions == CASE list_any_or_all(q) = "ANY"  -> {make_or(each)}
                        [] list_any_or_all(q) = "ALL"  -> each
                        [] list_any_or_all(q) = "None" -> {Condition(q.value)}
    IN  IF NoMatchPossible \in each /\ q.operator[1] \notin ArrayOps THEN {NoMatchPossible}
        ELSE conditions \ {{}}

\* The server's reading of an argument.  A quoted string ends at the next quote;
\* a backslash in it stands before a quote or a backslash that is meant as such,
\* and before nothing else.  An atom has no special characters.  External.
QuotedSpecials == {Quote, "\\"}
AtomSpecials == QuotedSpecials \union {"%", "*", "(", ")", "{", "]"}

\* Place i comes after an odd number of backslashes.
Escaped(s, i) ==
    \E k \in 2 .. i - 1 :
        /\ (i - k) % 2 = 1 /\ s[k - 1] # "\\"
        /\ \A j \in k .. i - 1 : s[j] = "\\"

IsString(s) ==
    \A i \in 2 .. Len(s) :
        /\ Escaped(s, i) => s[i] \in QuotedSpecials
        /\ (s[i] = Quote /\ ~Escaped(s, i)) <=> i = Len(s)

StringText(s) ==
    FlattenSeq([i \in 1 .. Len(s) - 2 |->
        IF s[i + 1] = "\\" /\ ~Escaped(s, i + 1) THEN << >> ELSE <<s[i + 1]>>])

\* The server answers BAD to a search that it cannot read, and the scan fails.
\* What comes after a space could be read as another search key: spaces are not
\* among the characters here.
Refused(criterion) ==
    CASE criterion.key \in {"raise", "flag"} -> FALSE
      [] criterion.key = "invalid" -> TRUE
      [] criterion.key = "KEYWORD" -> ToSet(criterion.argument) \intersect AtomSpecials # {}
      [] OTHER -> ~IsString(criterion.argument)

\* The search: substrings, in upper or lower case.  A flag of its own is \Seen
\* where the search key is SEEN.  External.
ContainsText(v, text) == \E k \in 0 .. Len(v) - Len(text) : SubSeq(v, k + 1, k + Len(text)) = text

Meets(criterion, v) ==
    CASE criterion.key \in {"raise", "invalid"} -> FALSE
      [] criterion.key = "flag"    -> <<"\\">> \o criterion.argument \in ToSet(v)
      [] criterion.key = "KEYWORD" -> criterion.argument \in ToSet(v)
      [] OTHER -> criterion.not # ContainsText(Lower(v), Lower(StringText(criterion.argument)))

\* Every criterion of every condition can be read, and the mail meets them all.
ImapReturns(q, v) ==
    \A condition \in extract_conditions(q) :
        /\ \A alternative \in condition : \A criterion \in alternative : ~Refused(criterion)
        /\ \E alternative \in condition : \A criterion \in alternative : Meets(criterion, v)

-----------------------------------------------------------------------------
(* compact_fetch: a sequence of message numbers as a sequence of ranges.   *)

CompactStep(messages, s, i) ==
    IF i < Len(messages) /\ messages[i + 1] = messages[i] + 1 THEN s
    ELSE [first  |-> IF i < Len(messages) THEN messages[i + 1] ELSE messages[i],
          ranges |-> Append(s.ranges, <<s.first, messages[i]>>)]

compact_fetch(messages) ==
    LET before[i \in 1 .. Len(messages) + 1] ==
          IF i = 1 THEN [first |-> messages[1], ranges |-> << >>]
          ELSE CompactStep(messages, before[i - 1], i - 1)
    IN  before[Len(messages) + 1].ranges

-----------------------------------------------------------------------------

\* The values hold none of the characters.
NoneOf(characters, q) == \A i \in DOMAIN q.value : ToSet(q.value[i]) \intersect characters = {}

\* The remote database returns every row that the query asks for, for every
\* operator, ANY and ALL, and NULL on either side: SqlAlchemyFdw.  A database
\* without an escape character in LIKE is not given one.
SqlKeepsRows(q, v, escapes) ==
    (escapes \/ q.operator[1] \notin LikeOps \/ NoneOf({"\\"}, q)) =>
        (Accepts(q, v) => SqlReturns(q, v, escapes))

\* The directory returns every entry whose column the query accepts, whatever
\* characters of the filter language the value has: LdapFdw.  The operator is
\* no ANY or ALL, the value not NULL, and a pattern's only wildcard is %.
LdapKeepsRows(q, attribute) ==
    (/\ Len(q.operator) = 1 /\ q.value[1] # NULL
     /\ q.operator[1] = "~~" => ToSet(q.value[1]) \intersect {"_", "\\"} = {})
    => (Accepts(q, LdapColumn(attribute)) => LdapReturns(q, attribute))

\* The quals that ImapFdw translates without loss: no negation, a text to search
\* for, no quote and no backslash, which are not escaped, no wildcard left at the
\* beginning, and every alternative of ANY translated; flags that are atoms.
ImapTranslates(q) ==
    \/ /\ q.field_name = "flags" /\ q.operator[1] \in ArrayOps /\ NoneOf(AtomSpecials, q)
       /\ \A i \in DOMAIN q.value : q.value[i] \notin STANDARD_FLAGS
    \/ /\ q.field_name # "flags" /\ q.operator[1] \in {"=", "~~", "~~*"} /\ NoneOf(QuotedSpecials, q)
       /\ \A i \in DOMAIN q.value :
             LET x == q.value[i]  like == q.operator[1] \in LikeOps IN
             /\ x # NULL /\ x # << >>
             /\ like => Trimmed(x) # << >> /\ Trimmed(x)[1] \notin Wildcards
             /\ (like /\ list_any_or_all(q) = "ANY") => ~HasWildcard(Trimmed(x))

\* The mailbox search returns every mail that the query asks for: ImapFdw, for
\* the quals that it translates.  A quote in the value ends the quoted string too
\* early, and the server refuses the search.
ImapKeepsRows(q, v) == ImapTranslates(q) => (Accepts(q, v) => ImapReturns(q, v))

\* The ranges hold the messages that were found, and no others, in whatever
\* order the server gives them.
FetchesFound(messages) ==
    UNION {r[1] .. r[2] : r \in ToSet(compact_fetch(messages))} = ToSet(messages)
=============================================================================
