------------------------------- MODULE XmlFdw --------------------------------
(***************************************************************************)
(* multicorn.xmlfdw: a SAX handler that makes a row of every element       *)
(* elem_tag, and a loop that feeds the parser a buffer at a time and       *)
(* yields the rows completed so far.  The parser calls the handler as the  *)
(* document unfolds; where the buffers end is arbitrary, also within text. *)
(* A text is the number of its characters; characters() brings some.       *)
(***************************************************************************)
EXTENDS Naturals, Sequences, SequencesExt

CONSTANTS
    ElemTag,     \* elem_tag
    Columns,     \* the columns of the table
    OtherTags,   \* other tags of the document
    MaxEvents,   \* bound on the length of the document
    MaxDepth,    \* bound on the depth of the document
    Nested       \* elem_tag or a column may be inside an element like it

NoTag == "None"   \* no tag of a document

ASSUME XmlAssumption ==
    /\ ElemTag \notin Columns \union OtherTags /\ Columns \intersect OtherTags = {}
    /\ NoTag \notin Columns /\ Nested \in BOOLEAN

Missing == 99   \* the row has no such column
Empty == [c \in Columns |-> Missing]

VARIABLES
    parsed_rows, current_row, tag, root_seen,   \* the handler
    open,       \* the elements that are open, outermost first
    events,     \* how many events the parser has delivered
    yielded,    \* the rows that execute has yielded
    wanted      \* the rows of the document so far, and the one being read

handler == <<parsed_rows, current_row, tag, root_seen>>
xmlvars == <<handler, open, events, yielded, wanted>>

Rowset == [Columns -> Nat]

XmlTypeOK ==
    /\ parsed_rows \in Seq(Rowset) /\ current_row \in Rowset
    /\ tag \in Columns \union {NoTag} /\ root_seen \in Nat
    /\ open \in Seq(Columns \union OtherTags \union {ElemTag})
    /\ yielded \in Seq(Rowset) /\ wanted \in [rows : Seq(Rowset), row : Rowset]

XmlInit ==
    /\ parsed_rows = << >> /\ current_row = Empty /\ tag = NoTag /\ root_seen = 0
    /\ open = << >> /\ events = 0 /\ yielded = << >>
    /\ wanted = [rows |-> << >>, row |-> Empty]

-----------------------------------------------------------------------------
(* What a row is: each column holds the text directly or indirectly in the *)
(* last element of its name, in the element that makes the row.            *)

InRow == ElemTag \in ToSet(open)
OpenColumns ==
    {c \in Columns : \E i, j \in 1 .. Len(open) : i < j /\ open[i] = ElemTag /\ open[j] = c}

WantedStart(name) ==
    [wanted EXCEPT !.row = IF InRow /\ name \in Columns THEN [@ EXCEPT ![name] = 0] ELSE @]
WantedText(n) ==
    [wanted EXCEPT !.row = [c \in Columns |->
        IF c \in OpenColumns THEN @[c] + n ELSE @[c]]]
WantedEnd(name) ==
    IF name = ElemTag THEN [rows |-> Append(wanted.rows, wanted.row), row |-> Empty] ELSE wanted

-----------------------------------------------------------------------------
(* The handler.                                                            *)

Event == events < MaxEvents /\ events' = events + 1

\* One document: its root is closed only at its end.
StartElement(name) ==
    /\ Event /\ Len(open) < MaxDepth /\ (open = << >> => events = 0)
    /\ ~Nested => ~(name = ElemTag /\ InRow) /\ ~(name \in Columns /\ OpenColumns # {})
    /\ open' = Append(open, name)
    /\ root_seen' = IF name = ElemTag THEN root_seen + 1 ELSE root_seen
    /\ IF name \in Columns /\ root_seen = 1
       THEN tag' = name /\ current_row' = [current_row EXCEPT ![name] = 0]
       ELSE UNCHANGED <<tag, current_row>>
    /\ wanted' = WantedStart(name)
    /\ UNCHANGED <<parsed_rows, yielded>>

\* characters(content), which may be a part of the text.
Characters(n) ==
    /\ Event /\ open # << >>
    /\ current_row' = IF tag = NoTag THEN current_row ELSE [current_row EXCEPT ![tag] = @ + n]
    /\ wanted' = WantedText(n)
    /\ UNCHANGED <<parsed_rows, tag, root_seen, open, yielded>>

\* Mutant: the row is not reset.
EndElementKeepsRow ==
    LET name == Last(open) IN
    /\ Event /\ open # << >>
    /\ open' = Front(open)
    /\ IF name = ElemTag
       THEN /\ root_seen' = root_seen - 1
            /\ parsed_rows' = Append(parsed_rows, current_row)
       ELSE UNCHANGED <<root_seen, parsed_rows>>
    /\ tag' = IF name \in Columns THEN NoTag ELSE tag
    /\ wanted' = WantedEnd(name)
    /\ UNCHANGED <<current_row, yielded>>

\* Mutant: every element that ends is taken for elem_tag.
EndElementAny ==
    LET name == Last(open) IN
    /\ Event /\ open # << >>
    /\ open' = Front(open)
    /\ root_seen' = root_seen - 1
    /\ parsed_rows' = Append(parsed_rows, current_row)
    /\ current_row' = Empty
    /\ tag' = IF name \in Columns THEN NoTag ELSE tag
    /\ wanted' = WantedEnd(name)
    /\ UNCHANGED yielded

EndElement ==
    LET name == Last(open) IN
    /\ Event /\ open # << >>
    /\ open' = Front(open)
    /\ IF name = ElemTag
       THEN /\ root_seen' = root_seen - 1
            /\ parsed_rows' = Append(parsed_rows, current_row)
            /\ current_row' = Empty
       ELSE UNCHANGED <<root_seen, parsed_rows, current_row>>
    /\ tag' = IF name \in Columns THEN NoTag ELSE tag
    /\ wanted' = WantedEnd(name)
    /\ UNCHANGED yielded

\* The buffer is used up: get_rows.
GetRows ==
    /\ parsed_rows # << >>
    /\ yielded' = yielded \o parsed_rows
    /\ parsed_rows' = << >>
    /\ UNCHANGED <<current_row, tag, root_seen, open, events, wanted>>

XmlNext ==
    \/ \E name \in Columns \union OtherTags \union {ElemTag} : StartElement(name)
    \/ \E n \in {1, 2} : Characters(n)
    \/ EndElement \/ GetRows

XmlSpec == XmlInit /\ [][XmlNext]_xmlvars

-----------------------------------------------------------------------------

\* Wherever the buffers end, execute yields the rows of the document, in
\* order and each once, with the whole text of each column and nothing of the
\* row before.  Neither elem_tag nor a column is inside an element like it.
RowsOfDocument == yielded \o parsed_rows = wanted.rows
=============================================================================
