---------------------------- MODULE StructuredFs -----------------------------
(***************************************************************************)
(* The pattern language of multicorn.fsfdw.structuredfs: a pattern such as *)
(* {category}/{number}_{name}.txt is read twice, by _tokenize_pattern to   *)
(* recognise file names and by string.Formatter to make them.  Text is a   *)
(* sequence of characters, and a character is a string.                    *)
(***************************************************************************)
EXTENDS Naturals, Sequences, SequencesExt, FiniteSets, FiniteSetsExt, Functions

Brackets == {"{", "}"}
NotInNames == Brackets \union {"/", "_", "."}

Token(kind, text) == [kind |-> kind, text |-> text]
Slash == Token("path separator", <<"/">>)

-----------------------------------------------------------------------------
(* _tokenize_pattern and _parse_pattern.  An error is the value Invalid.   *)

Invalid == <<Token("error", << >>)>>

\* Mutant: a doubled bracket stands for two.
TokenizeStepTwice(p, s, i) ==
    LET c == p[i]
        prev_char == IF i = 1 THEN "" ELSE p[i - 1]
        next_char == IF i = Len(p) THEN "" ELSE p[i + 1]
    IN  CASE s.error -> s
          [] ~s.error /\ s.in_field ->
               IF c = "}" THEN [s EXCEPT !.in_field = FALSE,
                                         !.tokens = Append(@, Token("property", s.name))]
                          ELSE [s EXCEPT !.name = Append(@, c)]
          [] ~s.error /\ ~s.in_field ->
               IF c = "/" THEN [s EXCEPT !.tokens = Append(@, Slash)]
               ELSE IF c = "}" /\ prev_char # c /\ next_char # c THEN [s EXCEPT !.error = TRUE]
               ELSE IF c = "{" /\ prev_char # c /\ next_char # c
                    THEN [s EXCEPT !.in_field = TRUE, !.name = << >>]
               ELSE [s EXCEPT !.tokens = Append(@, Token("literal", <<c>>))]

\* One turn of the loop over (prev_char, char, next_char).
TokenizeStep(p, s, i) ==
    LET c == p[i]
        prev_char == IF i = 1 THEN "" ELSE p[i - 1]
        next_char == IF i = Len(p) THEN "" ELSE p[i + 1]
    IN  CASE s.error -> s
          [] ~s.error /\ s.in_field ->
               IF c = "}" THEN [s EXCEPT !.in_field = FALSE,
                                         !.tokens = Append(@, Token("property", s.name))]
                          ELSE [s EXCEPT !.name = Append(@, c)]
          [] ~s.error /\ ~s.in_field ->
               IF c = "/" THEN [s EXCEPT !.tokens = Append(@, Slash)]
               ELSE IF c \in Brackets /\ next_char = c THEN s
               ELSE IF c = "}" /\ prev_char # c THEN [s EXCEPT !.error = TRUE]
               ELSE IF c = "{" /\ prev_char # c THEN [s EXCEPT !.in_field = TRUE, !.name = << >>]
               ELSE [s EXCEPT !.tokens = Append(@, Token("literal", <<c>>))]

TokenizePattern(p) ==
    LET before[i \in 1 .. Len(p) + 1] ==
          IF i = 1 THEN [in_field |-> FALSE, name |-> << >>, tokens |-> << >>, error |-> FALSE]
          ELSE TokenizeStep(p, before[i - 1], i - 1)
        end == before[Len(p) + 1]
    IN  IF end.error \/ end.in_field THEN Invalid ELSE Append(end.tokens, Slash)

isidentifier(text) == text # << >> /\ ToSet(text) \intersect NotInNames = {}

\* text.split('/'), for tokens and for characters.
Split(s, sep) ==
    LET before[i \in 1 .. Len(s) + 1] ==
          IF i = 1 THEN << << >> >>
          ELSE IF s[i - 1] = sep THEN Append(before[i - 1], << >>)
          ELSE [before[i - 1] EXCEPT ![Len(before[i - 1])] = Append(@, s[i - 1])]
    IN  before[Len(s) + 1]

\* The parts of the path, each a sequence of tokens; << >> is a ValueError.
ParsePattern(p) ==
    LET tokens == TokenizePattern(p)
        parts == Front(Split(tokens, Slash))
        named == {i \in DOMAIN tokens : tokens[i].kind = "property"}
    IN  IF /\ tokens # Invalid
           /\ \A i \in DOMAIN parts : parts[i] # << >>
           /\ \A i \in named : isidentifier(tokens[i].text)
           /\ \A i, j \in named : tokens[i].text = tokens[j].text => i = j
        THEN parts ELSE << >>

Properties(part) == {t.text : t \in {u \in ToSet(part) : u.kind = "property"}}

\* A StructuredDirectory, as __init__ leaves it.
StructuredDirectory(p) ==
    LET parts == ParsePattern(p)
    IN  [pattern    |-> p,
         parts      |-> parts,
         properties |-> UNION {Properties(part) : part \in ToSet(parts)}]

-----------------------------------------------------------------------------
(* Making file names: string.Formatter().vformat.  External.               *)

NoText == <<"error">>

\* text[i] is made of p from its place i on.
vformat(p, values) ==
    LET Then(made, rest) == IF rest = NoText THEN NoText ELSE made \o rest
        text[i \in 1 .. Len(p) + 1] ==
          LET closing == {k \in i .. Len(p) : p[k] = "}"}
              field == SubSeq(p, i + 1, Min(closing) - 1)
          IN  IF i > Len(p) THEN << >>
              ELSE IF p[i] \in Brackets /\ i < Len(p) /\ p[i + 1] = p[i]
                   THEN Then(<<p[i]>>, text[i + 2])
              ELSE IF p[i] = "{"
                   THEN IF closing = {} \/ field \notin DOMAIN values THEN NoText
                        ELSE Then(values[field], text[Min(closing) + 1])
              ELSE IF p[i] = "}" THEN NoText
              ELSE Then(<<p[i]>>, text[i + 1])
    IN  text[1]

-----------------------------------------------------------------------------
(* Recognising them.  A match, if there is one, is a set of one function   *)
(* from properties to values.                                              *)

NoMatch == {}

\* next[k] is the match of the tokens after t with the name from its character
\* k on.  Every group is .* and takes as much as leaves a match for the rest.
TokenMatches(t, name, next) ==
    [k \in 1 .. Len(name) + 1 |->
        LET ends == {e \in k .. Len(name) + 1 : next[e] # NoMatch}
        IN  IF t.kind = "literal"
            THEN IF k <= Len(name) /\ name[k] = t.text[1] THEN next[k + 1] ELSE NoMatch
            ELSE IF ends = {} THEN NoMatch
            ELSE {[u \in {t.text} \union DOMAIN f |->
                      IF u = t.text THEN SubSeq(name, k, Max(ends) - 1) ELSE f[u]] :
                    f \in next[Max(ends)]}]

\* rest[i] are the matches of the part from its token i on.
Match(part, name) ==
    LET rest[i \in 1 .. Len(part) + 1] ==
          IF i > Len(part)
          THEN [k \in 1 .. Len(name) + 1 |-> IF k > Len(name) THEN {<< >>} ELSE NoMatch]
          ELSE TokenMatches(part[i], name, rest[i + 1])
    IN  rest[1][1]

\* The match of all parts, if each has one; ms is the sequence of matches.
Joined(ms) ==
    LET all == UNION ToSet(ms) IN
    IF NoMatch \in ToSet(ms) THEN NoMatch
    ELSE {[k \in UNION {DOMAIN f : f \in all} |-> (CHOOSE f \in all : k \in DOMAIN f)[k]]}

from_filename(dir, filename) ==
    LET parts == dir.parts  names == Split(filename, "/") IN
    IF Len(names) # Len(parts) THEN NoMatch
    ELSE Joined([d \in DOMAIN parts |-> Match(parts[d], names[d])])

\* Item.__init__: all properties, no slash in a value.
Accepted(dir, values) ==
    /\ DOMAIN values = dir.properties
    /\ \A k \in DOMAIN values : "/" \notin ToSet(values[k])

\* Mutant: the fixed values are not compared with the name's.
FoundUnfiltered(part, pattern_part, name, fixed) ==
    LET here == Restrict(fixed, DOMAIN fixed \intersect Properties(part))
    IN  IF DOMAIN here = Properties(part)
        THEN IF name = vformat(pattern_part, here) THEN {here} ELSE NoMatch
        ELSE Match(part, name)

\* _find_matching_names, for one name of a directory: a part whose properties
\* are all fixed is not looked for but made.
Found(part, pattern_part, name, fixed) ==
    LET here == Restrict(fixed, DOMAIN fixed \intersect Properties(part))
    IN  IF DOMAIN here = Properties(part)
        THEN IF name = vformat(pattern_part, here) THEN {here} ELSE NoMatch
        ELSE {f \in Match(part, name) : \A k \in DOMAIN here : f[k] = here[k]}

\* get_items and _walk: the item that is made of an existing file, if the
\* walk comes to it.
get_items(dir, filename, fixed) ==
    LET parts == dir.parts  names == Split(filename, "/")  pps == Split(dir.pattern, "/") IN
    IF Len(names) # Len(parts) THEN NoMatch
    ELSE Joined([d \in DOMAIN parts |-> Found(parts[d], pps[d], names[d], fixed)])

-----------------------------------------------------------------------------
(* FilesystemFdw: the item that a row of INSERT or UPDATE is about, as a   *)
(* set of one function; none if an ERROR is raised.                        *)

None == <<"None">>

\* Mutant: a filename that says something else is not noticed.
ItemFromDmlTrusts(dir, filename, values) ==
    LET item_from_filename == IF filename \in {None, << >>} THEN NoMatch ELSE from_filename(dir, filename)
        supplied_keys == {k \in DOMAIN values : values[k] # None}
    IN  CASE supplied_keys = {} -> item_from_filename
          [] supplied_keys # {} /\ supplied_keys # dir.properties -> NoMatch
          [] OTHER -> {v \in {values} : Accepted(dir, v)}

\* A filename that does not match the pattern is as if it was not given.
ItemFromDml(dir, filename, values) ==
    LET item_from_filename == IF filename \in {None, << >>} THEN NoMatch ELSE from_filename(dir, filename)
        supplied_keys == {k \in DOMAIN values : values[k] # None}
    IN  CASE supplied_keys = {} -> item_from_filename
          [] supplied_keys # {} /\ supplied_keys # dir.properties -> NoMatch
          [] OTHER -> {v \in {values} : Accepted(dir, v) /\ item_from_filename \in {NoMatch, {v}}}

\* update: newvalues has all columns.  Where columns have changed the filename
\* is left out, so one that says something else is not noticed.
UpdateItem(dir, oldfilename, new_filename, newvalues) ==
    LET olditem == from_filename(dir, oldfilename)
    IN  IF \E k \in dir.properties : newvalues[k] = None THEN NoMatch
        ELSE IF new_filename # oldfilename /\ {newvalues} = olditem
             THEN ItemFromDml(dir, new_filename, << >>)
        ELSE ItemFromDml(dir, None, newvalues)

-----------------------------------------------------------------------------
(* Properties of a directory.  Texts: the file names considered.           *)

\* The bracket at place i ends a field.
EndsField(p, i) ==
    /\ p[i] = "}"
    /\ \E j \in 1 .. i - 1 : /\ p[j] = "{" /\ p[j + 1] # "{" /\ (j > 1 => p[j - 1] # "{")
                             /\ \A k \in j .. i - 1 : p[k] # "}"

\* An escaped bracket next to another bracket of its kind is read differently
\* by the two readers.  After a field _tokenize_pattern takes a single } for an
\* escaped one, and the formatter raises.
Plain(p) ==
    \A i \in 1 .. Len(p) - 1 :
        p[i] \in Brackets /\ p[i + 1] = p[i] =>
            (i + 2 <= Len(p) => p[i + 2] # p[i]) /\ ~EndsField(p, i)

Valid(dir) == dir.parts # << >> /\ Plain(dir.pattern)

\* "directory.from_filename(f).filename == f", which update and delete rely
\* on to write to the file that the scan has read.
RoundTrip(dir, Texts) ==
    Valid(dir) => \A f \in Texts : \A v \in from_filename(dir, f) : vformat(dir.pattern, v) = f

\* Fixing columns to values, of which get_items makes paths instead of listing
\* directories, finds the files whose columns have the values.  All of them,
\* and no others unless the pattern leaves open where a name is to be cut:
\* with both columns of {a}_{b} fixed, x_x_x is found as it is not listed.
FixedAsListed(dir, Texts, Values) ==
    Valid(dir) => \A f \in Texts, K \in SUBSET dir.properties : \A fixed \in [K -> Values] :
        LET listed == {v \in from_filename(dir, f) : \A k \in K : v[k] = fixed[k]}
            found == get_items(dir, f, fixed)
            ambiguous == \E part \in ToSet(dir.parts) :
                            Cardinality(Properties(part)) > 1 /\ Properties(part) \subseteq K
        IN  listed \subseteq found /\ (ambiguous \/ found = listed)

\* An inserted row that is accepted is found again: its file is recognised,
\* and with at most one property in each part the columns are those that were
\* inserted.
InsertedIsFound(dir, Values) ==
    Valid(dir) => \A v \in [dir.properties -> Values] :
        LET again == from_filename(dir, vformat(dir.pattern, v)) IN
        Accepted(dir, v) =>
            /\ again # NoMatch
            /\ (\A part \in ToSet(dir.parts) : Cardinality(Properties(part)) <= 1) => again = {v}

\* An inserted row becomes the file that its filename and its columns both
\* name, an updated one the file that the changed ones of them name; if the
\* two contradict each other an insert is refused.  Not for a filename that
\* the pattern does not match, nor for an update that changes both.
GoesWhereAsked(dir, Texts, Values) ==
    Valid(dir) /\ dir.properties # {} =>
        \A n \in Texts \ {<< >>}, v \in [dir.properties -> Values] :
            LET named == from_filename(dir, n) IN
            /\ named # NoMatch => ItemFromDml(dir, n, v) = named \intersect {v}
            /\ ItemFromDml(dir, n, [k \in DOMAIN v |-> None]) = named
            /\ \A old \in Texts : \A o \in from_filename(dir, old) :
                  /\ UpdateItem(dir, old, n, o) = IF n = old THEN {o} ELSE named
                  /\ UpdateItem(dir, old, old, v) = {v}
                  /\ named = {v} => UpdateItem(dir, old, n, v) = {v}
=============================================================================
