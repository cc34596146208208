-------------------------- MODULE TranslationProofs --------------------------
(***************************************************************************)
(* What the wrappers make of their arguments: the theorems hold for every  *)
(* argument, of any length, and with them the invariants of MCWrappers     *)
(* that are about the translations.                                        *)
(***************************************************************************)
EXTENDS MCWrappers, WrapperProofs, FiniteSetTheorems, SequenceTheorems, FunctionTheorems,
        NaturalsInduction, WellFoundedInduction

(* Types.                                                                  *)

\* SqlAlchemyFdw, whether or not a failed statement dooms the transaction.
LEMMA SqlTypeStep ==
    ASSUME SqlTypeOK, [SqlNext]_sqlvars
    PROVE  SqlTypeOK'
<1> USE DEF SqlTypeOK, Set
<1>1. ASSUME NEW t \in Tables,
             \/ Begin(t) \/ BeginRaises(t) \/ StatementRaises(t)
             \/ PreCommit(t) \/ PreCommitRaises(t)
             \/ Commit(t) \/ Rollback(t) \/ RollbackRaises(t)
      PROVE  SqlTypeOK'
  BY <1>1 DEF Begin, BeginRaises, StatementRaises, PreCommit, PreCommitRaises, Commit, Rollback,
              RollbackRaises, Commits, localvars
<1>2. ASSUME NEW t \in Tables, NEW r \in Rows, Write(t, r) PROVE SqlTypeOK'
  BY <1>2 DEF Write, Changes
<1>3. CASE \/ LateFailure \/ Abort \/ Savepoint \/ ReleaseSavepoint \/ RollbackToSavepoint
           \/ NextTransaction \/ Crash \/ Restart
  BY <1>3 DEF LateFailure, Abort, Savepoint, ReleaseSavepoint, RollbackToSavepoint,
              NextTransaction, Crash, Restart, Forget, localvars
<1>4. CASE UNCHANGED sqlvars
  BY <1>4 DEF sqlvars, localvars
<1> QED  BY <1>1, <1>2, <1>3, <1>4, Zenon DEF SqlNext

\* The cache of docutils_meta.
LEMMA MetaTypeStep ==
    ASSUME MetaTypeOK, [MetaNext]_metavars
    PROVE  MetaTypeOK'
<1> DEFINE Entries == [file : Files, mtime : Versions, result : Versions]
           Threads == [at : {"idle", "stat", "call", "store", "done"}, file : Files,
                      mtime : Versions, result : Versions, since : Versions]
<1>0. /\ 0 \in Versions /\ \A v \in Versions : v < MaxWrites => v + 1 \in Versions
      /\ entries \in Seq(Entries) /\ thread \in [Callers -> Threads]
      /\ content \in [Files -> Versions] /\ mtime \in [Files -> Versions]
  BY MetaAssumption DEF MetaTypeOK, Versions
<1>1. \A f : Without(f) \in Seq(Entries)
  <2> TAKE f
  <2>1. CASE Named(f) = {}
    BY <1>0, <2>1 DEF Without
  <2>2. CASE Named(f) # {}
    <3>1. Place(f) \in 1 .. Len(entries)
      BY <2>2 DEF Place, Named
    <3> HIDE DEF Entries
    <3>2. RemoveAt(entries, Place(f)) \in Seq(Entries)
      BY <1>0, <3>1, Removal
    <3> QED  BY <2>2, <3>2 DEF Without
  <2> QED  BY <2>1, <2>2
<1> SUFFICES ASSUME MetaNext PROVE MetaTypeOK'
  BY DEF metavars, MetaTypeOK
<1>2. CASE \E f \in Files : WriteFile(f)
  BY <1>0, <1>2 DEF WriteFile, MetaTypeOK
<1>3. ASSUME NEW c \in Callers, NEW f \in Files, GetMtime(c, f) PROVE MetaTypeOK'
  BY <1>0, <1>3 DEF GetMtime, To, MetaTypeOK
<1>4. ASSUME NEW c \in Callers, ExtractMeta(c) PROVE MetaTypeOK'
  BY <1>0, <1>4 DEF ExtractMeta, To, MetaTypeOK
<1>5. ASSUME NEW c \in Callers, LookUp(c) PROVE MetaTypeOK'
  <2> DEFINE t == thread[c]
             hit == \E i \in Named(t.file) : entries[i].mtime = t.mtime
  <2>1. t \in Threads /\ UNCHANGED <<content, mtime>>
    BY <1>0, <1>5 DEF LookUp
  <2>2. CASE hit
    <3>1. PICK e : e = entries[Place(t.file)]
      OBVIOUS
    <3>2. Place(t.file) \in 1 .. Len(entries)
      BY <2>2 DEF Place, Named
    <3>3. e \in Entries
      BY <1>0, <3>1, <3>2, ElementOfSeq
    <3>4. entries' = Append(Without(t.file), e) /\ To(c, [t EXCEPT !.at = "done", !.result = e.result])
      BY <1>5, <2>2, <3>1 DEF LookUp
    <3>5. entries' \in Seq(Entries)
      BY <1>1, <3>3, <3>4, AppendProperties
    <3>6. thread' \in [Callers -> Threads]
      BY <1>0, <2>1, <3>3, <3>4 DEF To
    <3> QED  BY <1>0, <2>1, <3>5, <3>6 DEF MetaTypeOK
  <2>3. CASE ~hit
    <3>1. entries' = Without(t.file) /\ To(c, [t EXCEPT !.at = "call"])
      BY <1>5, <2>3 DEF LookUp
    <3>2. thread' \in [Callers -> Threads]
      BY <1>0, <2>1, <3>1 DEF To
    <3> QED  BY <1>0, <1>1, <2>1, <3>1, <3>2 DEF MetaTypeOK
  <2> QED  BY <2>2, <2>3
<1>6. ASSUME NEW c \in Callers, Store(c) PROVE MetaTypeOK'
  <2>1. PICK e : e = Entry(thread[c].file, thread[c].mtime, thread[c].result)
    OBVIOUS
  <2>2. e \in Entries
    BY <1>0, <2>1 DEF Entry
  <2>3. PICK all : all = Assigned(e)
    OBVIOUS
  <2>4. all \in Seq(Entries)
    <3>1. CASE Named(e.file) = {}
      BY <1>0, <2>2, <2>3, <3>1, AppendProperties DEF Assigned
    <3>2. CASE Named(e.file) # {}
      <4>1. all = [i \in 1 .. Len(entries) |-> IF i \in Named(e.file) THEN e ELSE entries[i]]
        BY <2>3, <3>2 DEF Assigned
      <4>2. \A i \in 1 .. Len(entries) : all[i] \in Entries
        BY <1>0, <2>2, <4>1, ElementOfSeq
      <4> HIDE DEF Entries
      <4> QED  BY <1>0, <4>1, <4>2
    <3> QED  BY <3>1, <3>2
  <2>5. /\ entries' = IF Len(all) > MaxSize THEN Tail(all) ELSE all
        /\ thread' = [thread EXCEPT ![c] = [thread[c] EXCEPT !.at = "done"]]
        /\ UNCHANGED <<content, mtime>>
    BY <1>6, <2>1, <2>3, Zenon DEF Store, To
  <2>6. entries' \in Seq(Entries)
    BY <2>4, <2>5, MetaAssumption
  <2> QED  BY <1>0, <2>5, <2>6 DEF MetaTypeOK
<1> QED  BY <1>2, <1>3, <1>4, <1>5, <1>6 DEF MetaNext

LEMMA MetaTypeInit ==
    ASSUME MetaInit, Files # {}
    PROVE  MetaTypeOK
  BY MetaAssumption DEF MetaInit, MetaTypeOK, Versions

\* The connection of ImapFdw.
LEMMA ImapTypeStep ==
    ASSUME ImapTypeOK, [ImapNext]_imapvars
    PROVE  ImapTypeOK'
  BY ImapAssumption DEF ImapTypeOK, imapvars, ImapNext, HangUp, NetworkChanges, StartScan, Use, UseRaises,
     ImapAgent, ImapAgentRaises, CreatedAgents, FailedAgents

\* The cache of RssFdw.
LEMMA RssTypeStep ==
    ASSUME RssTypeOK, [RssNext]_rssvars
    PROVE  RssTypeOK'
<1>1. PICK n \in 0 .. MaxVersions : ended \in [0 .. n -> Times]
  BY DEF RssTypeOK
<1>2. Published = n /\ DOMAIN ended = 0 .. n /\ n \in Nat
  BY <1>1, LastIsPublished, RssAssumption
<1>3. CASE Publish
  <2>1. n < MaxVersions /\ ended' = [v \in 0 .. n + 1 |-> IF v <= n - 1 THEN ended[v] ELSE clock]
    BY <1>2, <1>3 DEF Publish
  <2>2. ended' \in [0 .. n + 1 -> Times] /\ n + 1 \in 0 .. MaxVersions
    BY <1>1, <1>2, <2>1, RssAssumption DEF RssTypeOK
  <2>3. DOMAIN ended \subseteq DOMAIN ended'
    BY <1>2, <2>2
  <2> QED  BY <1>3, <2>2, <2>3 DEF RssTypeOK, Publish
<1>4. CASE Tick
  BY <1>4, RssAssumption DEF RssTypeOK, Tick, Times
<1>5. CASE ExecuteCached \/ ExecuteReads \/ ExecuteStores \/ ExecuteFails
  <2>0. 0 \in Times
    BY RssAssumption DEF Times
  <2>1. Published \in DOMAIN ended
    BY <1>2
  <2> QED  BY <1>5, <2>0, <2>1 DEF RssTypeOK, ExecuteCached, ExecuteReads, ExecuteStores, ExecuteFails, Returns, NoFetch
<1>6. CASE UNCHANGED rssvars
  BY <1>6 DEF RssTypeOK, rssvars
<1> QED  BY <1>3, <1>4, <1>5, <1>6 DEF RssNext
\* The handler of XmlFdw: root_seen is the number of open elements that make
\* a row, so it is not decreased below zero.
RowsOpen == {i \in 1 .. Len(open) : open[i] = ElemTag}
XmlTyped == XmlTypeOK /\ root_seen = Cardinality(RowsOpen)

LEMMA XmlTypeInit == XmlInit => XmlTyped
<1> SUFFICES ASSUME XmlInit PROVE XmlTyped
  OBVIOUS
<1>1. RowsOpen = {} /\ Empty \in Rowset
  BY DEF XmlInit, RowsOpen, Empty, Rowset, Missing
<1> QED  BY <1>1, FS_EmptySet DEF XmlInit, XmlTyped, XmlTypeOK

LEMMA RowsOpenFinite == XmlTypeOK => IsFiniteSet(RowsOpen)
<1> SUFFICES ASSUME XmlTypeOK PROVE IsFiniteSet(RowsOpen)
  OBVIOUS
<1>1. IsFiniteSet(1 .. Len(open))
  BY FS_Interval DEF XmlTypeOK
<1> QED  BY <1>1, FS_Subset DEF RowsOpen

LEMMA XmlStartType ==
    ASSUME XmlTyped, NEW name \in Tags, StartElement(name)
    PROVE  XmlTyped'
<1> USE DEF XmlTypeOK, XmlTyped
<1>1. open' = Append(open, name) /\ open \in Seq(Tags) /\ UNCHANGED <<parsed_rows, yielded>>
  BY DEF StartElement, Tags
<1>2. open' \in Seq(Tags) /\ Len(open') = Len(open) + 1 /\ Len(open) \in Nat
      /\ open'[Len(open) + 1] = name /\ \A i \in 1 .. Len(open) : open'[i] = open[i]
  BY <1>1, AppendProperties
<1>3. root_seen' = Cardinality(RowsOpen') /\ root_seen' \in Nat
  <2>0. IsFiniteSet(RowsOpen) /\ Len(open) + 1 \notin RowsOpen
    BY <1>2, RowsOpenFinite DEF RowsOpen
  <2>1. CASE name = ElemTag
    <3>1. RowsOpen' = RowsOpen \union {Len(open) + 1}
      BY <1>2, <2>1 DEF RowsOpen
    <3>2. Cardinality(RowsOpen') = Cardinality(RowsOpen) + 1 /\ Cardinality(RowsOpen) \in Nat
      BY <2>0, <3>1, FS_AddElement, FS_CardinalityType
    <3> QED  BY <2>1, <3>2 DEF StartElement
  <2>2. CASE name # ElemTag
    <3>1. RowsOpen' = RowsOpen
      BY <1>2, <2>2 DEF RowsOpen
    <3> QED  BY <2>2, <3>1 DEF StartElement
  <2> QED  BY <2>1, <2>2
<1>4. current_row' \in Rowset /\ tag' \in Columns \union {NoTag}
  <2>1. CASE name \in Columns /\ root_seen = 1
    <3>1. tag' = name /\ current_row' = [current_row EXCEPT ![name] = 0]
      BY <2>1 DEF StartElement
    <3> QED  BY <2>1, <3>1 DEF Rowset
  <2>2. CASE ~(name \in Columns /\ root_seen = 1)
    BY <2>2 DEF StartElement
  <2> QED  BY <2>1, <2>2
<1>5. wanted' \in [rows : Seq(Rowset), row : Rowset]
  <2>1. wanted' = [wanted EXCEPT !.row = IF InRow /\ name \in Columns THEN [@ EXCEPT ![name] = 0] ELSE @]
    BY DEF StartElement, WantedStart
  <2>2. wanted.row \in Rowset => [wanted.row EXCEPT ![name] = 0] \in Rowset
    BY DEF Rowset
  <2> QED  BY <2>1, <2>2
<1> QED  BY <1>1, <1>2, <1>3, <1>4, <1>5 DEF Tags

LEMMA XmlCharactersType ==
    ASSUME XmlTyped, NEW n \in {1, 2}, Characters(n)
    PROVE  XmlTyped'
<1> USE DEF XmlTypeOK, XmlTyped
<1>1. current_row' \in Rowset
  BY DEF Characters, Rowset
<1>2. wanted' \in [rows : Seq(Rowset), row : Rowset]
  <2>1. wanted' = [wanted EXCEPT !.row = [c \in Columns |-> IF c \in OpenColumns THEN @[c] + n ELSE @[c]]]
    BY DEF Characters, WantedText
  <2>2. wanted.row \in Rowset =>
            [c \in Columns |-> IF c \in OpenColumns THEN wanted.row[c] + n ELSE wanted.row[c]] \in Rowset
    BY DEF Rowset
  <2> QED  BY <2>1, <2>2
<1> QED  BY <1>1, <1>2 DEF Characters, RowsOpen

LEMMA FrontOf ==
    ASSUME NEW S, NEW s \in Seq(S), s # << >>
    PROVE  /\ Front(s) \in Seq(S) /\ Len(Front(s)) = Len(s) - 1 /\ Len(s) \in Nat \ {0}
           /\ \A i \in 1 .. Len(s) - 1 : Front(s)[i] = s[i]
           /\ Last(s) = s[Len(s)]
<1>1. Len(s) \in Nat \ {0}
  OBVIOUS
<1>2. Front(s) = [i \in 1 .. Len(s) - 1 |-> s[i]]
  BY <1>1 DEF Front
<1> QED  BY <1>1, <1>2 DEF Last

LEMMA XmlEndType ==
    ASSUME XmlTyped, EndElement
    PROVE  XmlTyped'
<1> USE DEF XmlTypeOK, XmlTyped
<1> DEFINE name == Last(open)
<1>1. open' = Front(open) /\ open \in Seq(Tags) /\ open # << >>
  BY DEF EndElement, Tags
<1>2. open' \in Seq(Tags) /\ Len(open') = Len(open) - 1 /\ Len(open) \in Nat \ {0}
      /\ name = open[Len(open)] /\ \A i \in 1 .. Len(open) - 1 : open'[i] = open[i]
  BY <1>1, FrontOf
<1> HIDE DEF name
<1>3. wanted.row \in Rowset /\ wanted.rows \in Seq(Rowset) /\ Empty \in Rowset
      /\ Append(wanted.rows, wanted.row) \in Seq(Rowset)
      /\ Append(parsed_rows, current_row) \in Seq(Rowset)
  <2>1. Empty \in Rowset
    BY DEF Empty, Rowset, Missing
  <2> QED  BY <2>1, AppendProperties
<1>4. root_seen' = Cardinality(RowsOpen') /\ root_seen' \in Nat
  <2>0. IsFiniteSet(RowsOpen)
    BY RowsOpenFinite
  <2>b. RowsOpen' = {i \in 1 .. Len(open) - 1 : open[i] = ElemTag}
    BY <1>2 DEF RowsOpen
  <2>a. Last(open) = name
    BY DEF name
  <2>1. CASE name = ElemTag
    <3>1. RowsOpen' = RowsOpen \ {Len(open)} /\ Len(open) \in RowsOpen
      <4>1. PICK n \in Nat \ {0} : n = Len(open)
        BY <1>2
      <4>2. RowsOpen = {i \in 1 .. n : open[i] = ElemTag} /\ open[n] = ElemTag
        BY <1>2, <2>1, <4>1 DEF RowsOpen
      <4>3. RowsOpen' = {i \in 1 .. n - 1 : open[i] = ElemTag}
        BY <2>b, <4>1
      <4> QED  BY <4>1, <4>2, <4>3
    <3>2. Cardinality(RowsOpen') = Cardinality(RowsOpen) - 1 /\ Cardinality(RowsOpen) # 0
          /\ Cardinality(RowsOpen) \in Nat
      BY <2>0, <3>1, FS_RemoveElement, FS_EmptySet, FS_CardinalityType
    <3> QED  BY <2>a, <2>1, <3>2 DEF EndElement
  <2>2. CASE name # ElemTag
    <3>1. RowsOpen' = RowsOpen
      BY <1>2, <2>b, <2>2 DEF RowsOpen
    <3> QED  BY <2>a, <2>2, <3>1 DEF EndElement
  <2> QED  BY <2>1, <2>2
<1>5. wanted' \in [rows : Seq(Rowset), row : Rowset]
  BY <1>3 DEF EndElement, WantedEnd
<1>6. /\ parsed_rows' \in Seq(Rowset) /\ current_row' \in Rowset
      /\ tag' \in Columns \union {NoTag} /\ UNCHANGED yielded
  BY <1>3 DEF EndElement
<1> QED  BY <1>2, <1>4, <1>5, <1>6 DEF Tags

LEMMA XmlTypeStep ==
    ASSUME XmlTyped, [XmlNext]_xmlvars
    PROVE  XmlTyped'
<1>1. CASE UNCHANGED xmlvars
  BY <1>1 DEF xmlvars, handler, XmlTyped, XmlTypeOK, RowsOpen
<1>2. CASE GetRows
  <2>1. yielded \o parsed_rows \in Seq(Rowset)
    BY ConcatProperties DEF XmlTyped, XmlTypeOK
  <2> QED  BY <1>2, <2>1 DEF GetRows, XmlTyped, XmlTypeOK, RowsOpen
<1> QED  BY <1>1, <1>2, XmlStartType, XmlCharactersType, XmlEndType, Zenon DEF XmlNext, Tags

\* Every variable of every wrapper keeps its type: no cache, connection,
\* buffer or counter leaves its range, whatever fails and whatever the document.
THEOREM WrappersTyped ==
    ASSUME Files # {}
    PROVE  Spec => []TypeOK
<1> DEFINE Inv == TypeOK /\ root_seen = Cardinality(RowsOpen)
<1>1. Init => Inv
  <2> SUFFICES ASSUME Init PROVE Inv
    OBVIOUS
  <2>1. SqlTypeOK
    BY SqlInitInv DEF Init, SqlInv
  <2>2. ImapTypeOK
    BY DEF Init, ImapInit, ImapTypeOK
  <2>3. RssTypeOK
    BY RssAssumption DEF Init, RssInit, RssTypeOK, NoFetch, Times
  <2>4. which \in Wrappers /\ call.of \in Translations \union {"none"}
    BY DEF Init
  <2> QED  BY <2>1, <2>2, <2>3, <2>4, MetaTypeInit, XmlTypeInit DEF Init, TypeOK, XmlTyped
<1>2. Inv /\ [Next]_vars => Inv'
  <2> SUFFICES ASSUME Inv, [Next]_vars PROVE Inv'
    OBVIOUS
  <2>1. /\ [SqlNext]_sqlvars /\ [MetaNext]_metavars /\ [ImapNext]_imapvars
        /\ [RssNext]_rssvars /\ [XmlNext]_xmlvars /\ which' = which
    BY Zenon DEF Next, Sql, Meta, Imap, Rss, Xml, Translation, Return, vars
  <2>2. call'.of \in Translations \union {"none"}
    <3>1. CASE UNCHANGED call
      BY <3>1 DEF TypeOK
    <3>2. CASE Translation
      <4>1. \A of, args : Call(of, args) => call'.of = of
        BY DEF Call
      <4>2. \E of \in Translations : \E args : Call(of, args)
        BY <3>2 DEF Translation, Calls, Translations
      <4> QED  BY <4>1, <4>2, Zenon
    <3>3. CASE Return
      BY <3>3 DEF Return, Call
    <3> QED  BY <3>1, <3>2, <3>3, Zenon DEF Next, Sql, Meta, Imap, Rss, Xml, vars
  <2>3. SqlTypeOK' /\ MetaTypeOK' /\ ImapTypeOK' /\ RssTypeOK' /\ XmlTyped'
    BY <2>1, SqlTypeStep, MetaTypeStep, ImapTypeStep, RssTypeStep, XmlTypeStep DEF TypeOK, XmlTyped
  <2> QED  BY <2>1, <2>2, <2>3 DEF TypeOK, XmlTyped
<1> QED  BY <1>1, <1>2, PTL DEF Spec
-----------------------------------------------------------------------------
(* Sorting in the remote database.                                         *)

\* Sort keys on columns of these names.
SortKeysOn(SortNames) == [attname : SortNames, is_reversed : BOOLEAN, nulls_first : BOOLEAN]

\* What the wrapper knows of its dialects is what they do.
LEMMA DialectsKnown ==
    ASSUME NEW d \in DOMAIN O!SORT_SUPPORT
    PROVE  /\ O!SORT_SUPPORT[d].default = O!NullsAre(d)
           /\ O!SORT_SUPPORT[d].support <=> O!NullsAre(d) # "lower"
           /\ O!NullsAre(d) \in {"higher", "lower"}
  BY DEF O!SORT_SUPPORT, O!NullsAre

\* A term of the ORDER BY means the key that it was made of.
LEMMA TermMeansKey ==
    ASSUME NEW SortNames, NEW d \in DOMAIN O!SORT_SUPPORT, NEW key \in SortKeysOn(SortNames)
    PROVE  O!RemoteKey(d, [column |-> key.attname, desc |-> key.is_reversed,
                           nulls |-> O!need_explicit_null_ordering(d, key)]) = key
<1> DEFINE nulls == O!need_explicit_null_ordering(d, key)
           higher == O!NullsAre(d) = "higher"
<1>1. key.is_reversed \in BOOLEAN /\ key.nulls_first \in BOOLEAN
  BY DEF SortKeysOn
<1>2. key = O!SortKey(key.attname, key.is_reversed, key.nulls_first)
  BY DEF SortKeysOn, O!SortKey
<1>3. nulls = LET no == IF key.is_reversed = higher THEN "nullsfirst" ELSE "nullslast"
                  asked == IF key.nulls_first THEN "nullsfirst" ELSE "nullslast"
              IN  IF no # asked THEN asked ELSE "None"
  BY DialectsKnown DEF O!need_explicit_null_ordering
<1> HIDE DEF nulls, higher
<1>4. \/ nulls = "nullsfirst" /\ key.nulls_first = TRUE
      \/ nulls = "nullslast" /\ key.nulls_first = FALSE
      \/ nulls = "None" /\ key.nulls_first = (key.is_reversed = higher)
  BY <1>1, <1>3
<1>5. (CASE nulls = "nullsfirst" -> TRUE
         [] nulls = "nullslast"  -> FALSE
         [] nulls = "None"       -> key.is_reversed = higher) = key.nulls_first
  BY <1>4
<1> QED  BY <1>2, <1>5 DEF O!RemoteKey, nulls, higher

\* Rows sorted by the ORDER BY of SqlAlchemyFdw._build_statement are in the
\* order that can_sort has claimed, in every dialect, for all keys and all
\* rows, and the database does not refuse it.
THEOREM SqlSorts ==
    ASSUME NEW SortNames, NEW d \in O!Dialects, NEW keys \in Seq(SortKeysOn(SortNames)), NEW SomeRows
    PROVE  O!SqlSortsAsClaimed(d, keys, SomeRows)
<1> DEFINE claimed == O!can_sort(d, keys)
           terms == O!OrderBy(d, claimed)
           read == [i \in DOMAIN terms |-> O!RemoteKey(d, terms[i])]
<1>1. /\ DOMAIN terms = DOMAIN claimed
      /\ \A i \in DOMAIN claimed :
            terms[i] = [column |-> claimed[i].attname, desc |-> claimed[i].is_reversed,
                        nulls |-> O!need_explicit_null_ordering(d, claimed[i])]
  BY DEF O!OrderBy
<1>2. CASE claimed = << >>
  <2>1. DOMAIN claimed = {} /\ DOMAIN read = {}
    BY <1>1, <1>2
  <2>2. ~O!Refused(d, terms)
    BY <1>1, <2>1 DEF O!Refused
  <2>3. \A r, s : O!Before(read, r, s) <=> O!Before(claimed, r, s)
    <3> HIDE DEF read, claimed
    <3> QED  BY <2>1 DEF O!Before
  <2> QED  BY <2>2, <2>3 DEF O!SqlSortsAsClaimed
<1>3. CASE claimed # << >>
  <2>1. /\ claimed = keys /\ d \in DOMAIN O!SORT_SUPPORT
        /\ \/ O!SORT_SUPPORT[d].support
           \/ \A i \in DOMAIN keys : O!need_explicit_null_ordering(d, keys[i]) = "None"
    BY <1>3 DEF O!can_sort
  <2>2. \A i \in DOMAIN keys : keys[i] \in SortKeysOn(SortNames)
    OBVIOUS
  <2> HIDE DEF claimed, terms
  <2>3. ~O!Refused(d, terms)
    <3>1. CASE O!SORT_SUPPORT[d].support
      BY <2>1, <3>1, DialectsKnown DEF O!Refused
    <3>2. CASE \A i \in DOMAIN keys : O!need_explicit_null_ordering(d, keys[i]) = "None"
      BY <1>1, <2>1, <3>2 DEF O!Refused
    <3> QED  BY <2>1, <3>1, <3>2
  <2>4. \A i \in DOMAIN keys : read[i] = keys[i]
    BY <1>1, <2>1, <2>2, TermMeansKey
  <2>5. read = keys
    BY <1>1, <2>1, <2>4
  <2> QED  BY <2>1, <2>3, <2>5 DEF O!SqlSortsAsClaimed, claimed, terms
<1> QED  BY <1>2, <1>3
-----------------------------------------------------------------------------
(* Sorting in Python.                                                      *)

NonNull == Int \ {O!NULL}

\* x is sorted before y by one key.
LEMMA OneKey ==
    ASSUME NEW key, NEW r, NEW s, r[key.attname] \in NonNull, s[key.attname] \in NonNull
    PROVE  O!Before(<<key>>, r, s) <=>
               IF key.is_reversed THEN r[key.attname] > s[key.attname]
                                  ELSE r[key.attname] < s[key.attname]
<1>1. DOMAIN <<key>> = {1} /\ <<key>>[1] = key /\ 1 .. 1 - 1 = {}
  OBVIOUS
<1>2. O!Before(<<key>>, r, s) <=> O!KeyBefore(key, r[key.attname], s[key.attname])
  BY <1>1 DEF O!Before
<1> QED  BY <1>2 DEF O!KeyBefore, NonNull

\* before is a total order of the first n numbers.
TotalOrder(n, before) ==
    /\ \A i \in 1 .. n : <<i, i>> \notin before
    /\ \A i, j \in 1 .. n : i = j \/ <<i, j>> \in before \/ <<j, i>> \in before
    /\ \A i, j, k \in 1 .. n : <<i, j>> \in before /\ <<j, k>> \in before => <<i, k>> \in before

\* earlier gives the set of the numbers before each.
EarlierIn(n, before, earlier) ==
    /\ earlier \in [1 .. n -> SUBSET (1 .. n)]
    /\ \A i, j \in 1 .. n : j \in earlier[i] <=> <<j, i>> \in before

\* Places of the first n numbers, in the order before.
Arranges(n, before, place) ==
    /\ place \in Bijection(1 .. n, 1 .. n)
    /\ \A i, j \in 1 .. n : <<i, j>> \in before => place[i] < place[j]

\* before is the order by value, and then by place.
ByValue(n, value, down, before) ==
    /\ value \in [1 .. n -> Int] /\ down \in BOOLEAN
    /\ \A i, j \in 1 .. n : <<i, j>> \in before <=>
           IF value[i] = value[j] THEN i < j ELSE IF down THEN value[i] > value[j] ELSE value[i] < value[j]

\* n rows, whose values are never None where key looks.
HasKeys(n, Row, rows, key) ==
    /\ rows \in [1 .. n -> Row] /\ key.is_reversed \in BOOLEAN
    /\ \A r \in Row : r[key.attname] \in NonNull

\* res are the n rows in the order of key.
IsSorting(n, Row, rows, key, res) ==
    /\ res \in [1 .. n -> Row]
    /\ \A i, j \in 1 .. n : O!Before(<<key>>, res[i], res[j]) => i < j
    /\ \A i \in 1 .. n : \E k \in 1 .. n : res[k] = rows[i]

\* A total order of the first n numbers has a sorted arrangement: k is at the
\* place that the number of those before it gives.
LEMMA Places ==
    ASSUME NEW n \in Nat, NEW before, TotalOrder(n, before), NEW earlier, EarlierIn(n, before, earlier),
           NEW place, place = [i \in 1 .. n |-> Cardinality(earlier[i]) + 1]
    PROVE  Arranges(n, before, place)
<1> USE DEF TotalOrder, EarlierIn
<1>1. IsFiniteSet(1 .. n) /\ Cardinality(1 .. n) = n
  BY FS_Interval
<1>2. ASSUME NEW i \in 1 .. n
      PROVE  IsFiniteSet(earlier[i]) /\ Cardinality(earlier[i]) \in 0 .. n - 1
  <2>1. PICK S : S = (1 .. n) \ {i}
    OBVIOUS
  <2>2. earlier[i] \subseteq S
    BY <2>1
  <2>3. IsFiniteSet(S) /\ Cardinality(S) = n - 1
    <3>1. IsFiniteSet(S) /\ Cardinality(S) = Cardinality(1 .. n) - 1
      BY <1>1, <1>2, <2>1, FS_RemoveElement, Zenon
    <3> QED  BY <1>1, <3>1
  <2>4. IsFiniteSet(earlier[i]) /\ Cardinality(earlier[i]) <= n - 1
    BY <2>2, <2>3, FS_Subset
  <2> QED  BY <2>4, FS_CardinalityType
<1>3. ASSUME NEW i \in 1 .. n, NEW j \in 1 .. n, <<i, j>> \in before
      PROVE  place[i] < place[j]
  <2>1. earlier[i] \union {i} \subseteq earlier[j] /\ i \notin earlier[i]
    BY <1>3
  <2>2. IsFiniteSet(earlier[i]) /\ IsFiniteSet(earlier[j])
        /\ Cardinality(earlier[i]) \in Nat /\ Cardinality(earlier[j]) \in Nat
    BY <1>2
  <2>3. Cardinality(earlier[i] \union {i}) = Cardinality(earlier[i]) + 1
    BY <2>1, <2>2, FS_AddElement
  <2>4. Cardinality(earlier[i] \union {i}) <= Cardinality(earlier[j])
    BY <2>1, <2>2, FS_Subset
  <2> QED  BY <2>2, <2>3, <2>4
<1>4. place \in [1 .. n -> 1 .. n]
  <2> HIDE DEF TotalOrder, EarlierIn
  <2>1. ASSUME NEW i \in 1 .. n PROVE Cardinality(earlier[i]) + 1 \in 1 .. n
    <3>1. Cardinality(earlier[i]) \in 0 .. n - 1
      BY <1>2
    <3> QED  BY <3>1
  <2> QED  BY <2>1
<1>5. place \in Injection(1 .. n, 1 .. n)
  <2>1. \A i, j \in 1 .. n : place[i] \in Int /\ place[j] \in Int
    BY <1>4
  <2>2. ASSUME NEW i \in 1 .. n, NEW j \in 1 .. n, i # j PROVE place[i] # place[j]
    <3>1. <<i, j>> \in before \/ <<j, i>> \in before
      BY <2>2
    <3> QED  BY <1>3, <2>1, <3>1
  <2> QED  BY <1>4, <2>2 DEF Injection, IsInjective
<1>6. place \in Bijection(1 .. n, 1 .. n)
  BY <1>1, <1>5, FS_Injection DEF Bijection
<1> QED  BY <1>3, <1>6 DEF Arranges

\* By value, and then by place.
LEMMA StableOrder ==
    ASSUME NEW n \in Nat, NEW value, NEW down, NEW before, ByValue(n, value, down, before)
    PROVE  TotalOrder(n, before)
<1> DEFINE comes(i, j) ==
               IF value[i] = value[j] THEN i < j ELSE IF down THEN value[i] > value[j] ELSE value[i] < value[j]
<1>1. \A i \in 1 .. n : value[i] \in Int /\ i \in Int
  BY DEF ByValue
<1>2. \A i, j \in 1 .. n : <<i, j>> \in before <=> comes(i, j)
  BY DEF ByValue
<1>3. \A i, j, k \in 1 .. n : comes(i, j) /\ comes(j, k) => comes(i, k)
  <2> TAKE i, j, k \in 1 .. n
  <2>1. value[i] \in Int /\ value[j] \in Int /\ value[k] \in Int /\ i \in Int /\ j \in Int /\ k \in Int
    BY <1>1
  <2> QED  BY <2>1
<1>4. \A i, j \in 1 .. n : i = j \/ comes(i, j) \/ comes(j, i)
  <2> TAKE i, j \in 1 .. n
  <2>1. value[i] \in Int /\ value[j] \in Int /\ i \in Int /\ j \in Int
    BY <1>1
  <2> QED  BY <2>1
<1>5. \A i \in 1 .. n : ~comes(i, i)
  BY <1>1
<1> HIDE DEF comes
<1> QED  BY <1>2, <1>3, <1>4, <1>5 DEF TotalOrder

\* The two are one definition.
LEMMA SameCardinality == \A S : O!Cardinality(S) = Cardinality(S)
  BY DEF O!Cardinality, Cardinality

\* sorted(res, key, reverse): a permutation of the rows, in the order of the key.
LEMMA TestSortedOK ==
    ASSUME NEW n \in Nat, NEW Row, NEW rows, NEW key, HasKeys(n, Row, rows, key),
           NEW res, res = O!TestSorted(rows, key)
    PROVE  IsSorting(n, Row, rows, key, res)
<1> USE DEF HasKeys
<1> DEFINE comes(i, j) == \/ O!Before(<<key>>, rows[i], rows[j])
                          \/ ~O!Before(<<key>>, rows[j], rows[i]) /\ i < j
           at(i) == O!Cardinality({j \in DOMAIN rows : comes(j, i)}) + 1
<1>1. res = [k \in DOMAIN rows |-> rows[CHOOSE i \in DOMAIN rows : at(i) = k]]
  BY DEF O!TestSorted
<1>2. PICK value : value = [i \in 1 .. n |-> rows[i][key.attname]]
  OBVIOUS
<1>3. PICK before : before = {x \in (1 .. n) \X (1 .. n) : comes(x[1], x[2])}
  OBVIOUS
<1>4. PICK earlier : earlier = [i \in 1 .. n |-> {j \in DOMAIN rows : comes(j, i)}]
  OBVIOUS
<1>5. PICK place : place = [i \in 1 .. n |-> Cardinality(earlier[i]) + 1]
  OBVIOUS
<1>6. DOMAIN rows = 1 .. n /\ value \in [1 .. n -> Int]
  BY <1>2 DEF NonNull
<1>7. \A i, j \in 1 .. n : O!Before(<<key>>, rows[i], rows[j]) <=>
                               IF key.is_reversed THEN value[i] > value[j] ELSE value[i] < value[j]
  BY <1>2, OneKey
<1>8. ASSUME NEW i \in 1 .. n, NEW j \in 1 .. n
      PROVE  <<i, j>> \in before <=>
                 IF value[i] = value[j] THEN i < j
                 ELSE IF key.is_reversed THEN value[i] > value[j] ELSE value[i] < value[j]
  <2>1. value[i] \in Int /\ value[j] \in Int
    BY <1>6
  <2>2. <<i, j>> \in before <=> comes(i, j)
    <3> HIDE DEF comes
    <3> QED  BY <1>3
  <2>3. CASE key.is_reversed
    BY <1>7, <2>1, <2>2, <2>3
  <2>4. CASE ~key.is_reversed
    BY <1>7, <2>1, <2>2, <2>4
  <2> QED  BY <2>3, <2>4
<1>9. \A i, j \in 1 .. n : comes(i, j) <=> <<i, j>> \in before
  <2> HIDE DEF comes
  <2> QED  BY <1>3
<1> HIDE DEF comes
<1>10. /\ earlier \in [1 .. n -> SUBSET (1 .. n)]
       /\ \A i, j \in 1 .. n : j \in earlier[i] <=> <<j, i>> \in before
       /\ \A i \in 1 .. n : place[i] = at(i)
  BY <1>4, <1>5, <1>6, <1>9, SameCardinality
<1> HIDE DEF at
<1>11. Arranges(n, before, place)
  <2>1. ByValue(n, value, key.is_reversed, before)
    BY <1>6, <1>8 DEF ByValue
  <2>2. EarlierIn(n, before, earlier)
    BY <1>10 DEF EarlierIn
  <2> HIDE DEF HasKeys
  <2> QED  BY <1>5, <2>1, <2>2, StableOrder, Places
<1>12. /\ \A k \in 1 .. n : \E i \in 1 .. n : place[i] = k
       /\ place \in [1 .. n -> 1 .. n]
       /\ \A i, j \in 1 .. n : place[i] = place[j] => i = j
  BY <1>11 DEF Arranges, Bijection, Surjection, Injection, IsInjective
<1>13. ASSUME NEW k \in 1 .. n PROVE \E i \in 1 .. n : place[i] = k /\ res[k] = rows[i]
  <2>1. \E i \in DOMAIN rows : at(i) = k
    BY <1>6, <1>10, <1>12
  <2>2. res[k] = rows[CHOOSE i \in DOMAIN rows : at(i) = k]
    BY <1>1, <1>6
  <2>3. PICK x : x = CHOOSE i \in DOMAIN rows : at(i) = k
    OBVIOUS
  <2>4. x \in DOMAIN rows /\ at(x) = k
    BY <2>1, <2>3
  <2> QED  BY <1>6, <1>10, <2>2, <2>3, <2>4
<1>14. res \in [1 .. n -> Row]
  <2>1. res = [k \in 1 .. n |-> res[k]]
    BY <1>1, <1>6
  <2>2. \A k \in 1 .. n : res[k] \in Row
    BY <1>13
  <2> QED  BY <2>1, <2>2
<1>15. ASSUME NEW i \in 1 .. n, NEW j \in 1 .. n, O!Before(<<key>>, res[i], res[j]) PROVE i < j
  <2>1. PICK a \in 1 .. n : place[a] = i /\ res[i] = rows[a]
    BY <1>13
  <2>2. PICK b \in 1 .. n : place[b] = j /\ res[j] = rows[b]
    BY <1>13
  <2>3. comes(a, b)
    BY <1>15, <2>1, <2>2 DEF comes
  <2> QED  BY <1>9, <1>11, <2>1, <2>2, <2>3 DEF Arranges
<1>16. ASSUME NEW i \in 1 .. n PROVE \E k \in 1 .. n : res[k] = rows[i]
  <2>1. PICK j \in 1 .. n : place[j] = place[i] /\ res[place[i]] = rows[j]
    BY <1>12, <1>13
  <2> QED  BY <1>12, <2>1
<1> QED  BY <1>14, <1>15, <1>16 DEF IsSorting

\* s[from:to] has the rows from + 1 to top.
IsCut(s, from, to, cut) ==
    \E top \in Nat :
        /\ top = IF to < Len(s) THEN to ELSE Len(s)
        /\ Len(cut) = IF top > from THEN top - from ELSE 0
        /\ \A i \in DOMAIN cut : cut[i] = s[i + from]

LEMMA CutOf ==
    ASSUME NEW S, NEW s \in Seq(S), NEW from \in Nat, NEW to \in Nat, NEW cut, cut = O!Cut(s, from, to)
    PROVE  IsCut(s, from, to, cut)
<1>1. PICK top \in 0 .. Len(s) : top = IF to < Len(s) THEN to ELSE Len(s)
  OBVIOUS
<1>2. cut = SubSeq(s, from + 1, top) /\ Len(s) \in Nat
  BY <1>1 DEF O!Cut
<1>3. SubSeq(s, from + 1, top) = [i \in 1 .. top - from |-> s[i + from]]
  BY <1>1
<1>4. /\ Len(cut) = IF top > from THEN top - from ELSE 0
      /\ \A i \in DOMAIN cut : cut[i] = s[i + from]
  <2>1. CASE top > from
    <3>1. top - from \in Nat
      BY <2>1
    <3>2. cut = [i \in 1 .. top - from |-> s[i + from]]
      BY <1>2, <1>3
    <3>3. Len(cut) = top - from /\ DOMAIN cut = 1 .. top - from
      BY <3>1, <3>2
    <3> QED  BY <2>1, <3>2, <3>3
  <2>2. CASE ~(top > from)
    <3>1. SubSeq(s, from + 1, top) = << >>
      BY <1>1, <2>2
    <3> QED  BY <1>1, <1>2, <2>2, <3>1
  <2> QED  BY <2>1, <2>2
<1> QED  BY <1>1, <1>4 DEF IsCut

LEMMA OneElement ==
    ASSUME NEW S, NEW s \in Seq(S), s # << >>, Len(s) <= 1
    PROVE  s[1] \in S /\ s = <<s[1]>>
<1>1. Len(s) = 1
  <2>1. PICK n : n = Len(s)
    OBVIOUS
  <2>2. n \in Nat /\ n # 0 /\ n <= 1
    BY <2>1, EmptySeq
  <2> QED  BY <2>1, <2>2
<1> QED  BY <1>1

\* TestForeignDataWrapper.execute returns the rows that OFFSET and LIMIT ask
\* for, of all rows in the order of the sort key; no row is lost by sorting.
\* It sorts by one key, and a key is never None.
THEOREM TestCuts ==
    ASSUME NEW SortNames, NEW rows \in Seq([SortNames -> NonNull]),
           NEW sortkeys \in Seq(SortKeysOn(SortNames)), Len(sortkeys) <= 1,
           NEW limit \in Nat \union {O!None}, NEW offset \in Nat \union {O!None}
    PROVE  O!TestCutsAsAsked(rows, sortkeys, limit, offset)
<1> SUFFICES ASSUME limit # 0 \/ sortkeys # << >>, O!Or0(offset) > 0 /\ sortkeys # << >> => limit # O!None
             PROVE  LET cut_rows == O!TestExecute(rows, sortkeys, limit, offset)
                        all == O!TestExecute(rows, sortkeys, O!None, O!None)
                        rest == IF Len(all) > O!Or0(offset) THEN Len(all) - O!Or0(offset) ELSE 0
                    IN  /\ Len(cut_rows) = IF limit = O!None \/ limit > rest THEN rest ELSE limit
                        /\ \A i \in DOMAIN cut_rows : cut_rows[i] = all[i + O!Or0(offset)]
                        /\ \A i, j \in DOMAIN all : O!Before(sortkeys, all[i], all[j]) => i < j
                        /\ \A r \in O!ToSet(rows) : \E i \in DOMAIN all : all[i] = r
  BY DEF O!TestCutsAsAsked
<1> DEFINE Row == [SortNames -> NonNull]
           off == O!Or0(offset)
           cut_rows == O!TestExecute(rows, sortkeys, limit, offset)
           all == O!TestExecute(rows, sortkeys, O!None, O!None)
<1>1. off \in Nat /\ O!None = -1 /\ O!None \notin Nat /\ O!Or0(O!None) = 0 /\ Len(rows) \in Nat
  BY DEF O!Or0, O!None
<1>2. \A s \in Seq(Row) : O!Cut(s, 0, Len(s)) = s
  BY DEF O!Cut
<1>3. CASE sortkeys = << >>
  <2>1. all = rows
    BY <1>1, <1>2, <1>3 DEF O!TestExecute
  <2>2. cut_rows = O!Cut(rows, off, IF limit = O!None THEN Len(rows) ELSE off + limit)
    BY <1>1, <1>3 DEF O!TestExecute
  <2>3. \A i, j \in DOMAIN all : ~O!Before(sortkeys, all[i], all[j])
    BY <1>3 DEF O!Before
  <2>4. \A r \in O!ToSet(rows) : \E i \in DOMAIN all : all[i] = r
    BY <2>1 DEF O!ToSet
  <2> HIDE DEF off, cut_rows, all, Row
  <2>5. /\ Len(cut_rows) = LET rest == IF Len(all) > off THEN Len(all) - off ELSE 0
                         IN  IF limit = O!None \/ limit > rest THEN rest ELSE limit
        /\ \A i \in DOMAIN cut_rows : cut_rows[i] = all[i + off]
    <3>1. PICK to \in Nat : to = IF limit = O!None THEN Len(rows) ELSE off + limit
      BY <1>1
    <3>2. cut_rows = O!Cut(rows, off, to) /\ rows \in Seq(Row)
      BY <2>2, <3>1 DEF Row
    <3>3. IsCut(rows, off, to, cut_rows)
      BY <1>1, <3>1, <3>2, CutOf
    <3> QED  BY <1>1, <2>1, <3>1, <3>3 DEF IsCut
  <2> QED  BY <2>3, <2>4, <2>5 DEF off, cut_rows, all
<1>4. CASE sortkeys # << >>
  <2> DEFINE key == sortkeys[1]
  <2>1. key \in SortKeysOn(SortNames) /\ sortkeys = <<key>>
    BY <1>4, OneElement
  <2>2. PICK res : res = O!TestSorted(rows, key)
    OBVIOUS
  <2> HIDE DEF key
  <2>3. /\ res \in Seq(Row) /\ Len(res) = Len(rows)
        /\ \A i, j \in 1 .. Len(rows) : O!Before(sortkeys, res[i], res[j]) => i < j
        /\ \A i \in 1 .. Len(rows) : \E k \in 1 .. Len(rows) : res[k] = rows[i]
    <3>0. Row = [SortNames -> NonNull] /\ rows \in Seq(Row)
      OBVIOUS
    <3>1. PICK n \in Nat : n = Len(rows)
      BY <1>1
    <3>2. HasKeys(n, Row, rows, key)
      <4>1. rows \in [1 .. n -> Row] /\ \A r \in Row : r[key.attname] \in NonNull
        BY <2>1, <3>1 DEF SortKeysOn
      <4>2. key.is_reversed \in BOOLEAN
        BY <2>1 DEF SortKeysOn
      <4> HIDE DEF Row
      <4> QED  BY <4>1, <4>2 DEF HasKeys
    <3> HIDE DEF Row
    <3>3. IsSorting(n, Row, rows, key, res)
      BY <2>2, <3>2, TestSortedOK
    <3>4. /\ res \in [1 .. n -> Row]
          /\ \A i, j \in 1 .. n : O!Before(<<key>>, res[i], res[j]) => i < j
          /\ \A i \in 1 .. n : \E k \in 1 .. n : res[k] = rows[i]
      BY <3>3 DEF IsSorting
    <3>5. res \in Seq(Row) /\ Len(res) = n
      BY <3>4
    <3> QED  BY <2>1, <3>1, <3>4, <3>5
  <2>4. all = res
    BY <1>1, <1>4, <2>2 DEF O!TestExecute, key
  <2>5. cut_rows = IF limit = O!None THEN IF off > 0 THEN O!TypeError ELSE res ELSE O!Cut(res, off, off + limit)
    BY <1>4, <2>2 DEF O!TestExecute, key
  <2>6. \A r \in O!ToSet(rows) : \E i \in DOMAIN all : all[i] = r
    BY <2>3, <2>4 DEF O!ToSet
  <2>7. \A i, j \in DOMAIN all : O!Before(sortkeys, all[i], all[j]) => i < j
    <3>1. DOMAIN res = 1 .. Len(rows)
      BY <2>3
    <3> QED  BY <2>3, <2>4, <3>1
  <2>8. /\ Len(cut_rows) = LET rest == IF Len(all) > off THEN Len(all) - off ELSE 0
                         IN  IF limit = O!None \/ limit > rest THEN rest ELSE limit
        /\ \A i \in DOMAIN cut_rows : cut_rows[i] = all[i + off]
    <3>1. off > 0 => limit # O!None
      BY <1>4
    <3> HIDE DEF off, cut_rows, all, Row
    <3>2. CASE limit = O!None
      BY <1>1, <2>3, <2>4, <2>5, <3>1, <3>2
    <3>3. CASE limit # O!None
      <4>1. limit \in Nat /\ cut_rows = O!Cut(res, off, off + limit)
        BY <2>5, <3>3
      <4>2. PICK to \in Nat : to = off + limit
        BY <1>1, <4>1
      <4>3. IsCut(res, off, to, cut_rows)
        <5>1. res \in Seq(Row) /\ cut_rows = O!Cut(res, off, to) /\ off \in Nat
          BY <1>1, <2>3, <4>1, <4>2
        <5> QED  BY <4>2, <5>1, CutOf
      <4> QED  BY <1>1, <2>3, <2>4, <3>3, <4>1, <4>2, <4>3 DEF IsCut
    <3> QED  BY <3>2, <3>3
  <2> QED  BY <2>6, <2>7, <2>8
<1> QED  BY <1>3, <1>4

-----------------------------------------------------------------------------
(* Recursive definitions: induction over the numbers up to n, and that the *)
(* functions they define exist.  The functions are indexed from 1.         *)

\* A set of natural numbers has a least element.
LEMMA Least ==
    ASSUME NEW T \in SUBSET Nat, T # {}
    PROVE  \E m \in T : \A j \in T : m <= j
<1>1. PICK m \in T : \A j \in T : ~ (<<j, m>> \in OpToRel(<, Nat))
  BY NatLessThanWellFounded, WFMin, Zenon
<1>2. \A j \in T : ~ (j < m)
  BY <1>1 DEF OpToRel
<1> QED  BY <1>2

\* The first n numbers are in S if 1 is and every number below n takes the
\* next one with it.
LEMMA Upwards ==
    ASSUME NEW n \in Nat, NEW S, 1 \in S, \A i \in 2 .. n : i - 1 \in S => i \in S
    PROVE  \A i \in 1 .. n : i \in S
<1> SUFFICES ASSUME (1 .. n) \ S # {} PROVE FALSE
  OBVIOUS
<1>1. (1 .. n) \ S \in SUBSET Nat
  OBVIOUS
<1>2. PICK m \in (1 .. n) \ S : \A j \in (1 .. n) \ S : m <= j
  BY <1>1, Least
<1>3. m \in 2 .. n /\ m - 1 \in 1 .. n
  OBVIOUS
<1>4. m - 1 \in S
  BY <1>2, <1>3
<1> QED  BY <1>3, <1>4

LEMMA Downwards ==
    ASSUME NEW n \in Nat, NEW S, n \in S, \A i \in 1 .. n - 1 : i + 1 \in S => i \in S
    PROVE  \A i \in 1 .. n : i \in S
<1> DEFINE R == {i \in 1 .. n : n + 1 - i \in S}
<1>1. CASE n = 0
  BY <1>1
<1>2. CASE n # 0
  <2>1. 1 \in R
    BY <1>2
  <2>2. ASSUME NEW i \in 2 .. n, i - 1 \in R PROVE i \in R
    <3>1. n + 1 - i \in 1 .. n - 1 /\ (n + 1 - i) + 1 = n + 1 - (i - 1)
      OBVIOUS
    <3> QED  BY <2>2, <3>1
  <2> HIDE DEF R
  <2>3. \A i \in 1 .. n : i \in R
    BY <2>1, <2>2, Upwards
  <2>4. ASSUME NEW i \in 1 .. n PROVE i \in S
    <3>1. n + 1 - i \in 1 .. n /\ n + 1 - (n + 1 - i) = i
      OBVIOUS
    <3>2. n + 1 - i \in R
      BY <2>3, <3>1
    <3> QED  BY <3>1, <3>2 DEF R
  <2> QED  BY <2>4
<1> QED  BY <1>1, <1>2

\* F makes a function on D of a function on D, and its value at x depends on
\* the values at what comes before x in the order given by rank.
Recursive(n, D, rank, V, F) ==
    /\ rank \in [D -> 1 .. n] /\ F \in [[D -> V] -> [D -> V]]
    /\ \A g, h \in [D -> V], x \in D :
          (\A y \in D : rank[y] < rank[x] => g[y] = h[y]) => F[g][x] = F[h][x]

HasFixpoint(D, V, F) == \E g \in [D -> V] : g = F[g]

\* Then a recursive definition by F defines a function.
LEMMA Recursion ==
    ASSUME NEW n \in Nat, NEW D, NEW rank, NEW V, V # {}, NEW F, Recursive(n, D, rank, V, F)
    PROVE  HasFixpoint(D, V, F)
<1> DEFINE Up(k, g) == \A y \in D : rank[y] < k => g[y] = F[g][y]
           S == {k \in 1 .. n + 1 : \E g \in [D -> V] : Up(k, g)}
<1>0. rank \in [D -> 1 .. n] /\ F \in [[D -> V] -> [D -> V]]
  BY DEF Recursive
<1>1. 1 \in S
  <2>1. PICK v \in V : TRUE
    OBVIOUS
  <2>2. [y \in D |-> v] \in [D -> V]
    OBVIOUS
  <2>3. Up(1, [y \in D |-> v])
    BY <1>0
  <2> HIDE DEF Up
  <2> QED  BY <2>2, <2>3
<1>2. ASSUME NEW k \in 2 .. n + 1, k - 1 \in S PROVE k \in S
  <2>1. PICK g \in [D -> V] : Up(k - 1, g)
    BY <1>2
  <2>2. PICK h : h = F[g]
    OBVIOUS
  <2>3. h \in [D -> V] /\ F[h] \in [D -> V]
    BY <1>0, <2>2
  <2>4. ASSUME NEW x \in D, rank[x] < k PROVE h[x] = F[h][x]
    <3>1. \A y \in D : rank[y] < rank[x] => rank[y] < k - 1
      BY <1>0, <2>4
    <3>2. \A y \in D : rank[y] < rank[x] => g[y] = h[y]
      BY <2>1, <2>2, <3>1
    <3>3. F[g][x] = F[h][x]
      BY <2>3, <3>2 DEF Recursive
    <3> QED  BY <2>2, <3>3
  <2>5. Up(k, h)
    BY <2>4
  <2> HIDE DEF Up
  <2> QED  BY <2>3, <2>5
<1>3. n + 1 \in S
  <2> HIDE DEF S
  <2>1. n + 1 \in Nat /\ n + 1 \in 1 .. n + 1
    OBVIOUS
  <2>2. \A i \in 1 .. n + 1 : i \in S
    BY <1>1, <1>2, <2>1, Upwards
  <2> QED  BY <2>1, <2>2
<1>4. PICK g \in [D -> V] : Up(n + 1, g)
  BY <1>3
<1>5. F[g] \in [D -> V] /\ \A y \in D : g[y] = F[g][y]
  BY <1>0, <1>4
<1> QED  BY <1>5 DEF HasFixpoint

\* The value at 1 is start, the value at i comes from that at i - 1.
Steps(n, V, start, F) == start \in V /\ F \in [V \X (2 .. n) -> V]
Iterate(n, start, F, g) == g = [i \in 1 .. n |-> IF i = 1 THEN start ELSE F[<<g[i - 1], i>>]]

LEMMA Iteration ==
    ASSUME NEW n \in Nat, NEW V, NEW start, NEW F, Steps(n, V, start, F)
    PROVE  \E g \in [1 .. n -> V] : Iterate(n, start, F, g)
<1> DEFINE body(g) == [i \in 1 .. n |-> IF i = 1 THEN start ELSE F[<<g[i - 1], i>>]]
           G == [g \in [1 .. n -> V] |-> body(g)]
           rank == [i \in 1 .. n |-> i]
<1>1. ASSUME NEW g \in [1 .. n -> V] PROVE body(g) \in [1 .. n -> V]
  <2>1. ASSUME NEW i \in 1 .. n PROVE (IF i = 1 THEN start ELSE F[<<g[i - 1], i>>]) \in V
    <3>1. CASE i = 1
      BY <3>1 DEF Steps
    <3>2. CASE i # 1
      <4>1. i - 1 \in 1 .. n /\ i \in 2 .. n
        BY <3>2
      <4>2. <<g[i - 1], i>> \in V \X (2 .. n)
        BY <4>1
      <4> QED  BY <3>2, <4>2 DEF Steps
    <3> QED  BY <3>1, <3>2
  <2> QED  BY <2>1
<1>2. \A g, h : \A i \in 1 .. n : (\A j \in 1 .. n : j < i => g[j] = h[j]) => body(g)[i] = body(h)[i]
  <2> TAKE g, h
  <2> TAKE i \in 1 .. n
  <2> HAVE \A j \in 1 .. n : j < i => g[j] = h[j]
  <2>1. CASE i = 1
    BY <2>1
  <2>2. CASE i # 1
    <3>1. i - 1 \in 1 .. n /\ i - 1 < i
      BY <2>2
    <3>2. g[i - 1] = h[i - 1]
      BY <3>1
    <3> QED  BY <2>2, <3>2
  <2> QED  BY <2>1, <2>2
<1> HIDE DEF body
<1>3. Recursive(n, 1 .. n, rank, V, G)
  <2>1. G \in [[1 .. n -> V] -> [1 .. n -> V]]
    BY <1>1
  <2>2. \A g \in [1 .. n -> V] : G[g] = body(g)
    OBVIOUS
  <2>3. rank \in [1 .. n -> 1 .. n] /\ \A i \in 1 .. n : rank[i] = i
    OBVIOUS
  <2> HIDE DEF G, rank
  <2>4. ASSUME NEW g \in [1 .. n -> V], NEW h \in [1 .. n -> V], NEW i \in 1 .. n,
               \A j \in 1 .. n : rank[j] < rank[i] => g[j] = h[j]
        PROVE  G[g][i] = G[h][i]
    <3>1. \A j \in 1 .. n : j < i => g[j] = h[j]
      BY <2>3, <2>4
    <3>2. body(g)[i] = body(h)[i]
      BY <1>2, <3>1
    <3> QED  BY <2>2, <3>2
  <2> QED  BY <2>1, <2>3, <2>4 DEF Recursive
<1>4. V # {}
  BY DEF Steps
<1>5. PICK g \in [1 .. n -> V] : g = G[g]
  <2>1. PICK D : D = 1 .. n
    OBVIOUS
  <2> HIDE DEF G, rank
  <2>2. Recursive(n, D, rank, V, G)
    BY <1>3, <2>1
  <2>3. HasFixpoint(D, V, G)
    BY <1>4, <2>2, Recursion
  <2> QED  BY <2>1, <2>3 DEF HasFixpoint
<1> QED  BY <1>5 DEF body, Iterate

\* The same from n down.
StepsDown(n, V, last, F) == last \in V /\ F \in [V \X (1 .. n - 1) -> V]
IterateDown(n, last, F, g) == g = [i \in 1 .. n |-> IF i = n THEN last ELSE F[<<g[i + 1], i>>]]

LEMMA IterationDown ==
    ASSUME NEW n \in Nat, NEW V, NEW last, NEW F, StepsDown(n, V, last, F)
    PROVE  \E g \in [1 .. n -> V] : IterateDown(n, last, F, g)
<1> DEFINE G == [a \in V \X (2 .. n) |-> F[<<a[1], n + 1 - a[2]>>]]
<1>1. Steps(n, V, last, G)
  <2>1. ASSUME NEW v \in V, NEW i \in 2 .. n PROVE F[<<v, n + 1 - i>>] \in V
    <3>1. n + 1 - i \in 1 .. n - 1
      OBVIOUS
    <3>2. <<v, n + 1 - i>> \in V \X (1 .. n - 1)
      BY <3>1
    <3> QED  BY <3>2 DEF StepsDown
  <2>2. \A a \in V \X (2 .. n) : F[<<a[1], n + 1 - a[2]>>] \in V
    BY <2>1
  <2> QED  BY <2>2 DEF Steps, StepsDown
<1>2. \A v \in V, i \in 2 .. n : G[<<v, i>>] = F[<<v, n + 1 - i>>]
  OBVIOUS
<1> HIDE DEF G
<1>3. PICK h \in [1 .. n -> V] : Iterate(n, last, G, h)
  BY <1>1, Iteration
<1> DEFINE g == [i \in 1 .. n |-> h[n + 1 - i]]
<1>4. g \in [1 .. n -> V]
  <2>1. ASSUME NEW i \in 1 .. n PROVE h[n + 1 - i] \in V
    <3>1. n + 1 - i \in 1 .. n
      OBVIOUS
    <3> QED  BY <3>1
  <2> QED  BY <2>1
<1>5. ASSUME NEW i \in 1 .. n PROVE g[i] = IF i = n THEN last ELSE F[<<g[i + 1], i>>]
  <2> PICK j \in 1 .. n : j = n + 1 - i
    OBVIOUS
  <2>1. g[i] = h[j]
    OBVIOUS
  <2>2. CASE i = n
    <3>1. j = 1
      BY <2>2
    <3>2. h[j] = last
      BY <1>3, <3>1 DEF Iterate
    <3> QED  BY <2>1, <2>2, <3>2
  <2>3. CASE i # n
    <3>1. j \in 2 .. n /\ j # 1 /\ n + 1 - j = i /\ j - 1 \in 1 .. n
      BY <2>3
    <3>2. h[j] = G[<<h[j - 1], j>>]
      BY <1>3, <3>1 DEF Iterate
    <3>3. h[j - 1] \in V
      BY <3>1
    <3>4. h[j] = F[<<h[j - 1], i>>]
      BY <1>2, <3>1, <3>2, <3>3
    <3>5. i + 1 \in 1 .. n /\ n + 1 - (i + 1) = j - 1
      BY <2>3
    <3>6. g[i + 1] = h[j - 1]
      BY <3>5
    <3> QED  BY <2>1, <2>3, <3>4, <3>6
  <2> QED  BY <2>2, <2>3
<1>6. g = [i \in 1 .. n |-> g[i]]
  BY <1>4
<1> HIDE DEF g
<1>7. g = [i \in 1 .. n |-> IF i = n THEN last ELSE F[<<g[i + 1], i>>]]
  BY <1>5, <1>6
<1>8. IterateDown(n, last, F, g)
  BY <1>7 DEF IterateDown
<1> QED  BY <1>4, <1>8

\* A set of numbers up to n has a greatest element.
LEMMA Greatest ==
    ASSUME NEW n \in Nat, NEW T \in SUBSET (1 .. n), T # {}
    PROVE  \E z \in T : \A y \in T : z >= y
<1> DEFINE R == {n - x : x \in T}
<1>1. R \in SUBSET Nat /\ R # {}
  <2>1. \A x \in T : n - x \in Nat /\ n - x \in R
    <3>1. ASSUME NEW x \in T PROVE x \in 1 .. n
      OBVIOUS
    <3> QED  BY <3>1
  <2>2. PICK x \in T : TRUE
    OBVIOUS
  <2>3. \A j \in R : j \in Nat
    BY <2>1
  <2> QED  BY <2>1, <2>2, <2>3
<1>2. PICK m \in R : \A j \in R : m <= j
  <2> HIDE DEF R
  <2> QED  BY <1>1, Least
<1>3. PICK x \in T : m = n - x
  BY <1>2
<1>4. ASSUME NEW y \in T PROVE x >= y
  <2>1. n - y \in R
    OBVIOUS
  <2>2. n - x <= n - y
    BY <1>2, <1>3, <2>1
  <2>3. x \in 1 .. n /\ y \in 1 .. n
    OBVIOUS
  <2> QED  BY <2>2, <2>3
<1> QED  BY <1>4

\* G makes a function on 1 .. n of another, and its value at i depends on the
\* values after i.
DependsAfter(n, V, G) ==
    /\ G \in [[1 .. n -> V] -> [1 .. n -> V]]
    /\ \A g, h \in [1 .. n -> V], i \in 1 .. n :
          (\A j \in 1 .. n : i < j => g[j] = h[j]) => G[g][i] = G[h][i]

HasLoop(n, V, G) == \E g \in [1 .. n -> V] : g = G[g]

LEMMA RecursionAfter ==
    ASSUME NEW n \in Nat, NEW V, V # {}, NEW G, DependsAfter(n, V, G)
    PROVE  HasLoop(n, V, G)
<1> PICK D : D = 1 .. n
  OBVIOUS
<1> DEFINE rank == [i \in 1 .. n |-> n + 1 - i]
<1>1. rank \in [1 .. n -> 1 .. n] /\ \A i \in 1 .. n : rank[i] = n + 1 - i
  OBVIOUS
<1> HIDE DEF rank
<1>2. ASSUME NEW g \in [1 .. n -> V], NEW h \in [1 .. n -> V], NEW i \in 1 .. n,
             \A j \in 1 .. n : rank[j] < rank[i] => g[j] = h[j]
      PROVE  G[g][i] = G[h][i]
  <2>1. \A j \in 1 .. n : i < j => g[j] = h[j]
    BY <1>1, <1>2
  <2> QED  BY <2>1 DEF DependsAfter
<1>3. Recursive(n, 1 .. n, rank, V, G)
  BY <1>1, <1>2 DEF DependsAfter, Recursive
<1>4. Recursive(n, D, rank, V, G)
  BY <1>3
<1>5. HasFixpoint(D, V, G)
  BY <1>4, Recursion
<1> QED  BY <1>5 DEF HasFixpoint, HasLoop

-----------------------------------------------------------------------------
(* Sequences of sequences.                                                 *)

FlattenLoop(n, seqs, b) == b = [i \in 1 .. n |-> IF i = 1 THEN seqs[i] ELSE b[i - 1] \o seqs[i]]
FlattenKeeps(n, seqs, V) ==
    (n # 0 => seqs[1] \in V) /\ \A v \in V, i \in 2 .. n : v \o seqs[i] \in V

LEMMA FlattenLoopExists ==
    ASSUME NEW n \in Nat \ {0}, NEW seqs, NEW V, FlattenKeeps(n, seqs, V)
    PROVE  \E b : FlattenLoop(n, seqs, b)
<1> DEFINE F == [a \in V \X (2 .. n) |-> a[1] \o seqs[a[2]]]
<1>1. PICK start : start = seqs[1]
  OBVIOUS
<1>2. Steps(n, V, start, F)
  <2>1. \A a \in V \X (2 .. n) : a[1] \o seqs[a[2]] \in V
    BY DEF FlattenKeeps
  <2> QED  BY <1>1, <2>1 DEF Steps, FlattenKeeps
<1>3. \A v \in V, i \in 2 .. n : F[<<v, i>>] = v \o seqs[i]
  OBVIOUS
<1> HIDE DEF F
<1>4. PICK g \in [1 .. n -> V] : Iterate(n, start, F, g)
  BY <1>2, Iteration
<1>5. g = [i \in 1 .. n |-> IF i = 1 THEN start ELSE F[<<g[i - 1], i>>]]
  BY <1>4 DEF Iterate
<1>6. g = [i \in 1 .. n |-> IF i = 1 THEN seqs[i] ELSE g[i - 1] \o seqs[i]]
  <2>1. ASSUME NEW i \in 2 .. n PROVE F[<<g[i - 1], i>>] = g[i - 1] \o seqs[i]
    <3>1. i - 1 \in 1 .. n
      OBVIOUS
    <3>2. g[i - 1] \in V
      BY <3>1
    <3> QED  BY <1>3, <3>2
  <2>2. \A i \in 1 .. n : i # 1 => i \in 2 .. n
    OBVIOUS
  <2> QED  BY <1>1, <1>5, <2>1, <2>2
<1>7. FlattenLoop(n, seqs, g)
  BY <1>6 DEF FlattenLoop
<1> QED  BY <1>7

LEMMA FlattenLoopKeeps ==
    ASSUME NEW n \in Nat \ {0}, NEW seqs, NEW V, FlattenKeeps(n, seqs, V), NEW b, FlattenLoop(n, seqs, b)
    PROVE  \A i \in 1 .. n : b[i] \in V
<1> DEFINE R == {i \in 1 .. n : b[i] \in V}
<1>0. b = [i \in 1 .. n |-> IF i = 1 THEN seqs[i] ELSE b[i - 1] \o seqs[i]]
  BY DEF FlattenLoop
<1>1. \A i \in 1 .. n : i # 1 => b[i] = b[i - 1] \o seqs[i]
  BY <1>0
<1>2. ASSUME NEW i \in 2 .. n, i - 1 \in R PROVE i \in R
  <2>1. i \in 1 .. n /\ i # 1 /\ b[i - 1] \in V
    BY <1>2
  <2>2. b[i] \in V
    BY <1>1, <2>1 DEF FlattenKeeps
  <2> QED  BY <2>1, <2>2
<1>3. 1 \in R
  <2>1. 1 \in 1 .. n
    OBVIOUS
  <2>2. b[1] = seqs[1]
    BY <1>0, <2>1
  <2> QED  BY <2>1, <2>2 DEF FlattenKeeps
<1> HIDE DEF R
<1>4. \A i \in 1 .. n : i \in R
  BY <1>2, <1>3, Upwards
<1> QED  BY <1>4 DEF R

LEMMA Flattened ==
    ASSUME NEW S, NEW seqs \in Seq(Seq(S))
    PROVE  FlattenSeq(seqs) \in Seq(S)
<1> PICK V : V = Seq(S)
  OBVIOUS
<1> PICK n : n = Len(seqs)
  OBVIOUS
<1>1. n \in Nat
  OBVIOUS
<1>2. CASE n = 0
  <2>1. seqs = << >>
    BY <1>2, EmptySeq
  <2>2. FlattenSeq(seqs) = seqs
    BY <1>2 DEF FlattenSeq
  <2> QED  BY <2>1, <2>2, EmptySeq
<1>3. CASE n # 0
  <2>1. FlattenKeeps(n, seqs, V)
    <3>1. \A i \in 1 .. n : seqs[i] \in V
      BY SeqDef
    <3>2. \A v \in V, w \in V : v \o w \in V
      BY ConcatProperties
    <3>3. (n # 0 => 1 \in 1 .. n) /\ \A i \in 2 .. n : i \in 1 .. n
      BY <1>1
    <3> QED  BY <3>1, <3>2, <3>3 DEF FlattenKeeps
  <2> DEFINE flatten[i \in 1 .. n] == IF i = 1 THEN seqs[i] ELSE flatten[i - 1] \o seqs[i]
  <2>2. FlattenSeq(seqs) = flatten[n]
    BY <1>3 DEF FlattenSeq
  <2>3. FlattenLoop(n, seqs, flatten)
    <3>1. PICK b : FlattenLoop(n, seqs, b)
      BY <1>1, <1>3, <2>1, FlattenLoopExists
    <3> QED  BY <3>1 DEF FlattenLoop
  <2> HIDE DEF flatten
  <2>4. n \in 1 .. n /\ \A i \in 1 .. n : flatten[i] \in V
    BY <1>1, <1>3, <2>1, <2>3, FlattenLoopKeeps
  <2> QED  BY <2>2, <2>4
<1> QED  BY <1>2, <1>3

\* FlattenSeq puts one after the other.
FlattensTo(n, S, seqs, b) ==
    /\ b[1] = seqs[1] /\ \A i \in 2 .. n : b[i] = b[i - 1] \o seqs[i]
    /\ \A i \in 1 .. n : b[i] \in Seq(S)
    /\ FlattenSeq(seqs) = b[n]

LEMMA Flattens ==
    ASSUME NEW S, NEW seqs \in Seq(Seq(S)), NEW n, n = Len(seqs), n # 0
    PROVE  \E b : FlattensTo(n, S, seqs, b)
<1> PICK V : V = Seq(S)
  OBVIOUS
<1>1. n \in Nat
  OBVIOUS
<1>2. FlattenKeeps(n, seqs, V)
  <2>1. \A i \in 1 .. n : seqs[i] \in V
    BY SeqDef
  <2>2. \A v \in V, w \in V : v \o w \in V
    BY ConcatProperties
  <2>3. 1 \in 1 .. n /\ \A i \in 2 .. n : i \in 1 .. n
    BY <1>1
  <2> QED  BY <2>1, <2>2, <2>3 DEF FlattenKeeps
<1> DEFINE flatten[i \in 1 .. n] == IF i = 1 THEN seqs[i] ELSE flatten[i - 1] \o seqs[i]
<1>3. FlattenSeq(seqs) = flatten[n]
  BY DEF FlattenSeq
<1>4. FlattenLoop(n, seqs, flatten)
  <2>1. PICK b : FlattenLoop(n, seqs, b)
    BY <1>1, <1>2, FlattenLoopExists
  <2> QED  BY <2>1 DEF FlattenLoop
<1> HIDE DEF flatten
<1>5. \A i \in 1 .. n : flatten[i] \in V
  BY <1>1, <1>2, <1>4, FlattenLoopKeeps
<1>6. flatten[1] = seqs[1] /\ \A i \in 2 .. n : flatten[i] = flatten[i - 1] \o seqs[i]
  <2>1. 1 \in 1 .. n /\ \A i \in 2 .. n : i \in 1 .. n /\ i # 1
    BY <1>1
  <2> QED  BY <1>4, <2>1 DEF FlattenLoop
<1>7. FlattensTo(n, S, seqs, flatten)
  BY <1>3, <1>5, <1>6 DEF FlattensTo
<1> QED  BY <1>7

LEMMA FlattenNothing == FlattenSeq(<< >>) = << >>
  BY DEF FlattenSeq

\* Where the parts of a flattened sequence are.
PartsAt(n, seqs, flat, at) ==
    /\ at \in [1 .. n + 1 -> Nat \ {0}] /\ at[1] = 1 /\ at[n + 1] = Len(flat) + 1
    /\ \A i \in 1 .. n : /\ at[i + 1] = at[i] + Len(seqs[i])
                         /\ \A k \in 1 .. Len(seqs[i]) :
                               /\ at[i] + k - 1 \in 1 .. Len(flat)
                               /\ flat[at[i] + k - 1] = seqs[i][k]

LEMMA PlacesAfter ==
    \A l, e \in Nat : 1 .. l \subseteq 1 .. l + e /\ \A k \in 1 .. e : l + k \in 1 .. l + e
  OBVIOUS

Joined(c, d) ==
    /\ \A k \in 1 .. Len(c) : (c \o d)[k] = c[k]
    /\ \A k \in 1 .. Len(d) : (c \o d)[Len(c) + k] = d[k]

LEMMA JoinedPlaces ==
    ASSUME NEW S, NEW c \in Seq(S), NEW d \in Seq(S)
    PROVE  Joined(c, d)
  BY DEF Joined

LEMMA PartsOfFlat ==
    ASSUME NEW S, NEW seqs \in Seq(Seq(S)), NEW n, n = Len(seqs)
    PROVE  \E at : PartsAt(n, seqs, FlattenSeq(seqs), at)
<1> PICK flat : flat = FlattenSeq(seqs)
  OBVIOUS
<1>0. n \in Nat
  OBVIOUS
<1>1. CASE n = 0
  <2>1. flat = << >>
    <3>1. seqs = << >>
      BY <1>1, EmptySeq
    <3> QED  BY <3>1, FlattenNothing
  <2> DEFINE at == [i \in 1 .. n + 1 |-> 1]
  <2>2. PartsAt(n, seqs, flat, at)
    BY <1>1, <2>1 DEF PartsAt
  <2> QED  BY <2>2
<1>2. CASE n # 0
  <2>1. PICK b : FlattensTo(n, S, seqs, b)
    BY <1>2, Flattens
  <2>2. n \in 1 .. n /\ 1 \in 1 .. n /\ flat = b[n] /\ b[1] = seqs[1]
    BY <1>0, <1>2, <2>1 DEF FlattensTo
  <2>3. \A i \in 1 .. n : b[i] \in Seq(S) /\ seqs[i] \in Seq(S)
    BY <2>1 DEF FlattensTo
  <2>4. \A i \in 2 .. n : b[i] = b[i - 1] \o seqs[i]
    BY <2>1 DEF FlattensTo
  <2> DEFINE at == [i \in 1 .. n + 1 |-> IF i = 1 THEN 1 ELSE Len(b[i - 1]) + 1]
  <2>5. \A i \in 1 .. n : Len(b[i]) \in Nat /\ Len(seqs[i]) \in Nat
    BY <2>3
  <2>6. \A i \in 2 .. n : Len(b[i]) = Len(b[i - 1]) + Len(seqs[i])
    <3> TAKE i \in 2 .. n
    <3>1. i \in 1 .. n /\ i - 1 \in 1 .. n
      OBVIOUS
    <3>2. PICK c \in Seq(S) : c = b[i - 1]
      BY <2>3, <3>1
    <3>3. PICK d \in Seq(S) : d = seqs[i]
      BY <2>3, <3>1
    <3>4. Len(c \o d) = Len(c) + Len(d)
      BY ConcatProperties
    <3> QED  BY <2>4, <3>2, <3>3, <3>4
  <2>7. at \in [1 .. n + 1 -> Nat \ {0}] /\ at[1] = 1 /\ at[n + 1] = Len(flat) + 1
    <3>1. \A i \in 1 .. n + 1 : i # 1 => i - 1 \in 1 .. n
      BY <1>0
    <3>2. \A i \in 1 .. n + 1 : (IF i = 1 THEN 1 ELSE Len(b[i - 1]) + 1) \in Nat \ {0}
      BY <2>5, <3>1
    <3>3. 1 \in 1 .. n + 1 /\ n + 1 \in 1 .. n + 1 /\ n + 1 # 1 /\ (n + 1) - 1 = n
      BY <1>0, <1>2
    <3> QED  BY <2>2, <3>2, <3>3
  <2>8. \A i \in 1 .. n : at[i + 1] = Len(b[i]) + 1
    <3> TAKE i \in 1 .. n
    <3>1. i + 1 \in 1 .. n + 1 /\ i + 1 # 1 /\ (i + 1) - 1 = i
      OBVIOUS
    <3> QED  BY <3>1
  <2>9. \A i \in 2 .. n : at[i] = Len(b[i - 1]) + 1
    <3> TAKE i \in 2 .. n
    <3>1. i \in 1 .. n + 1 /\ i # 1
      OBVIOUS
    <3> QED  BY <3>1
  <2> HIDE DEF at
  <2>10. \A i \in 1 .. n : at[i + 1] = at[i] + Len(seqs[i])
    <3> TAKE i \in 1 .. n
    <3>1. CASE i = 1
      BY <2>2, <2>5, <2>7, <2>8, <3>1
    <3>2. CASE i # 1
      <4>1. i \in 2 .. n /\ i - 1 \in 1 .. n
        BY <1>0, <3>2
      <4>2. Len(b[i - 1]) \in Nat /\ Len(seqs[i]) \in Nat
        BY <2>5, <4>1
      <4>3. at[i + 1] = Len(b[i]) + 1 /\ at[i] = Len(b[i - 1]) + 1
        BY <2>8, <2>9, <4>1
      <4>4. Len(b[i]) = Len(b[i - 1]) + Len(seqs[i])
        BY <2>6, <4>1
      <4>5. \A a, c, d \in Nat : (a + d) + 1 = (a + 1) + d
        OBVIOUS
      <4> QED  BY <4>2, <4>3, <4>4, <4>5, Zenon
    <3> QED  BY <3>1, <3>2
  <2> DEFINE R == {m \in 1 .. n : \A i \in 1 .. m : \A k \in 1 .. Len(seqs[i]) :
                     at[i] + k - 1 \in 1 .. Len(b[m]) /\ b[m][at[i] + k - 1] = seqs[i][k]}
  <2>11. 1 \in R
    <3>1. \A i \in 1 .. 1 : i = 1
      OBVIOUS
    <3>2. \A k \in 1 .. Len(seqs[1]) : at[1] + k - 1 = k
      BY <2>2, <2>5, <2>7
    <3> QED  BY <2>2, <3>1, <3>2
  <2>12. ASSUME NEW m \in 2 .. n, m - 1 \in R PROVE m \in R
    <3>1. m \in 1 .. n /\ m - 1 \in 1 .. n
      OBVIOUS
    <3> PICK c \in Seq(S) : c = b[m - 1]
      BY <2>3, <3>1
    <3> PICK d \in Seq(S) : d = seqs[m]
      BY <2>3, <3>1
    <3> PICK l \in Nat : l = Len(c)
      OBVIOUS
    <3> PICK e \in Nat : e = Len(d)
      OBVIOUS
    <3>2. b[m] = c \o d /\ Len(b[m]) = l + e
      BY <2>4, <2>6
    <3>3. /\ \A k \in 1 .. l : (c \o d)[k] = c[k]
          /\ \A k \in 1 .. e : (c \o d)[l + k] = d[k]
      <4>1. /\ \A k \in 1 .. Len(c) : (c \o d)[k] = c[k]
            /\ \A k \in 1 .. Len(d) : (c \o d)[Len(c) + k] = d[k]
        <5>1. Joined(c, d)
          BY JoinedPlaces
        <5> QED  BY <5>1 DEF Joined
      <4> QED  BY <4>1
    <3>4. at[m] = l + 1
      BY <2>9
    <3>5. ASSUME NEW i \in 1 .. m, NEW k \in 1 .. Len(seqs[i])
          PROVE  at[i] + k - 1 \in 1 .. Len(b[m]) /\ b[m][at[i] + k - 1] = seqs[i][k]
      <4>1. CASE i = m
        <5>1. k \in 1 .. e /\ at[i] + k - 1 = l + k
          BY <3>4, <4>1
        <5>2. l + k \in 1 .. l + e
          BY <5>1, PlacesAfter
        <5>3. seqs[i] = d
          BY <4>1
        <5> QED  BY <3>2, <3>3, <5>1, <5>2, <5>3
      <4>2. CASE i # m
        <5>1. i \in 1 .. m - 1
          BY <4>2
        <5>2. at[i] + k - 1 \in 1 .. l /\ c[at[i] + k - 1] = seqs[i][k]
          BY <2>12, <5>1
        <5>3. 1 .. l \subseteq 1 .. l + e
          BY PlacesAfter
        <5> QED  BY <3>2, <3>3, <5>2, <5>3
      <4> QED  BY <4>1, <4>2
    <3> QED  BY <3>1, <3>5
  <2> HIDE DEF R
  <2>13. n \in R
    BY <1>0, <2>2, <2>11, <2>12, Upwards
  <2>14. \A i \in 1 .. n : \A k \in 1 .. Len(seqs[i]) :
            at[i] + k - 1 \in 1 .. Len(flat) /\ flat[at[i] + k - 1] = seqs[i][k]
    BY <2>2, <2>13 DEF R
  <2>15. PartsAt(n, seqs, flat, at)
    BY <2>7, <2>10, <2>14 DEF PartsAt
  <2> QED  BY <2>15
<1> QED  BY <1>1, <1>2

-----------------------------------------------------------------------------
(* LIKE, and the WHERE clause of SqlAlchemyFdw.                            *)

\* The loop of LIKE.
LikeLoopTo(n, m, p, t, escapes, f) ==
    f = [i \in 1 .. n |->
            {j \in 1 .. m :
                IF i > Len(p) THEN j > Len(t)
                ELSE IF p[i] = "%" THEN \E k \in j .. m : k \in f[i + 1]
                ELSE /\ j <= Len(t)
                     /\ p[i] = "_" \/ t[j] = (IF escapes /\ p[i] = "\\" /\ i < Len(p) THEN p[i + 1] ELSE p[i])
                     /\ j + 1 \in f[IF escapes /\ p[i] = "\\" /\ i < Len(p) THEN i + 2 ELSE i + 1]}]

LikeLoop(p, t, escapes, f) == LikeLoopTo(Len(p) + 1, Len(t) + 1, p, t, escapes, f)

LEMMA LikeLoopExists ==
    ASSUME NEW C, NEW p \in Seq(C), NEW t \in Seq(C), NEW escapes
    PROVE  \E f : LikeLoop(p, t, escapes, f)
<1> PICK n \in Nat : n = Len(p) + 1
  OBVIOUS
<1> PICK m \in Nat : m = Len(t) + 1
  OBVIOUS
<1> PICK V : V = SUBSET (1 .. m)
  OBVIOUS
<1> DEFINE Quoted(i) == escapes /\ p[i] = "\\" /\ i < Len(p)
           Ends(f, i) ==
             {j \in 1 .. m :
                IF i > Len(p) THEN j > Len(t)
                ELSE IF p[i] = "%" THEN \E k \in j .. m : k \in f[i + 1]
                ELSE /\ j <= Len(t)
                     /\ p[i] = "_" \/ t[j] = (IF Quoted(i) THEN p[i + 1] ELSE p[i])
                     /\ j + 1 \in f[IF Quoted(i) THEN i + 2 ELSE i + 1]}
           body(f) == [i \in 1 .. n |-> Ends(f, i)]
           G == [f \in [1 .. n -> V] |-> body(f)]
<1>1. \A f, i : Ends(f, i) \in V
  OBVIOUS
<1>2. ASSUME NEW f, NEW g, NEW i \in 1 .. n, \A j \in 1 .. n : i < j => f[j] = g[j]
      PROVE  Ends(f, i) = Ends(g, i)
  <2>1. CASE i > Len(p)
    BY <2>1
  <2>2. CASE i <= Len(p)
    <3>1. f[i + 1] = g[i + 1]
      <4>1. i + 1 \in 1 .. n /\ i < i + 1
        BY <2>2
      <4> QED  BY <1>2, <4>1
    <3>2. Quoted(i) => f[i + 2] = g[i + 2]
      <4>1. i < Len(p) => i + 2 \in 1 .. n /\ i < i + 2
        BY <2>2
      <4> QED  BY <1>2, <4>1
    <3> HIDE DEF Quoted
    <3> QED  BY <3>1, <3>2
  <2>3. i > Len(p) \/ i <= Len(p)
    OBVIOUS
  <2> HIDE DEF Ends
  <2> QED  BY <2>1, <2>2, <2>3
<1> HIDE DEF Ends
<1>3. \A f : body(f) \in [1 .. n -> V]
  BY <1>1
<1>4. \A f, g : \A i \in 1 .. n : (\A j \in 1 .. n : i < j => f[j] = g[j]) => body(f)[i] = body(g)[i]
  BY <1>2
<1> HIDE DEF body
<1>5. DependsAfter(n, V, G)
  <2>1. G \in [[1 .. n -> V] -> [1 .. n -> V]]
    BY <1>3
  <2>2. \A f \in [1 .. n -> V] : G[f] = body(f)
    OBVIOUS
  <2> HIDE DEF G
  <2>3. ASSUME NEW f \in [1 .. n -> V], NEW g \in [1 .. n -> V], NEW i \in 1 .. n,
               \A j \in 1 .. n : i < j => f[j] = g[j]
        PROVE  G[f][i] = G[g][i]
    <3>1. body(f)[i] = body(g)[i]
      BY <1>4, <2>3
    <3> QED  BY <2>2, <3>1
  <2> QED  BY <2>1, <2>3 DEF DependsAfter
<1>6. V # {}
  OBVIOUS
<1>7. PICK f \in [1 .. n -> V] : f = G[f]
  <2>1. HasLoop(n, V, G)
    BY <1>5, <1>6, RecursionAfter
  <2> QED  BY <2>1 DEF HasLoop
<1>8. f = body(f)
  BY <1>7
<1>9. LikeLoopTo(n, m, p, t, escapes, f)
  BY <1>8 DEF body, Ends, LikeLoopTo
<1> QED  BY <1>9 DEF LikeLoop

LEMMA LikeByLoop ==
    ASSUME NEW C, NEW p \in Seq(C), NEW t \in Seq(C), NEW escapes
    PROVE  \E f : LikeLoop(p, t, escapes, f) /\ (Q!Like(p, t, escapes) <=> 1 \in f[1])
<1>1. PICK g : LikeLoop(p, t, escapes, g)
  BY LikeLoopExists
<1> DEFINE like[i \in 1 .. Len(p) + 1] ==
             LET Escaped == escapes /\ p[i] = "\\" /\ i < Len(p) IN
             {j \in 1 .. Len(t) + 1 :
                IF i > Len(p) THEN j > Len(t)
                ELSE IF p[i] = "%" THEN \E k \in j .. Len(t) + 1 : k \in like[i + 1]
                ELSE /\ j <= Len(t)
                     /\ p[i] = "_" \/ t[j] = (IF Escaped THEN p[i + 1] ELSE p[i])
                     /\ j + 1 \in like[IF Escaped THEN i + 2 ELSE i + 1]}
<1>2. Q!Like(p, t, escapes) <=> 1 \in like[1]
  BY DEF Q!Like
<1>3. LikeLoop(p, t, escapes, like)
  <2>1. \E h : LikeLoop(p, t, escapes, h)
    BY <1>1
  <2> QED  BY <2>1 DEF LikeLoop, LikeLoopTo
<1> HIDE DEF like
<1> QED  BY <1>2, <1>3

\* Without backslashes in the pattern.
PlainLike(p, t, f) ==
    \A i \in 1 .. Len(p) + 1 : \A j :
        j \in f[i] <=>
            /\ j \in 1 .. Len(t) + 1
            /\ i > Len(p) => j > Len(t)
            /\ i <= Len(p) /\ p[i] = "%" => \E k \in j .. Len(t) + 1 : k \in f[i + 1]
            /\ i <= Len(p) /\ p[i] # "%" =>
                  j <= Len(t) /\ (p[i] = "_" \/ t[j] = p[i]) /\ j + 1 \in f[i + 1]

Plain(p) == \A i \in DOMAIN p : p[i] # "\\"

LEMMA LikeOfPlain ==
    ASSUME NEW C, NEW p \in Seq(C), NEW t \in Seq(C), NEW escapes, Plain(p) \/ ~escapes
    PROVE  \E f : PlainLike(p, t, f) /\ (Q!Like(p, t, escapes) <=> 1 \in f[1])
<1>1. PICK f : LikeLoop(p, t, escapes, f) /\ (Q!Like(p, t, escapes) <=> 1 \in f[1])
  BY LikeByLoop
<1> PICK n \in Nat : n = Len(p)
  OBVIOUS
<1> PICK m \in Nat : m = Len(t)
  OBVIOUS
<1>2. ASSUME NEW i \in 1 .. n + 1, NEW j
      PROVE  j \in f[i] <=>
               /\ j \in 1 .. m + 1
               /\ i > n => j > m
               /\ i <= n /\ p[i] = "%" => \E k \in j .. m + 1 : k \in f[i + 1]
               /\ i <= n /\ p[i] # "%" => j <= m /\ (p[i] = "_" \/ t[j] = p[i]) /\ j + 1 \in f[i + 1]
  <2>1. i <= n => ~(escapes /\ p[i] = "\\")
    <3>1. i <= n => i \in DOMAIN p
      OBVIOUS
    <3> QED  BY <3>1 DEF Plain
  <2>2. j \in f[i] <=>
           /\ j \in 1 .. m + 1
           /\ IF i > n THEN j > m
              ELSE IF p[i] = "%" THEN \E k \in j .. m + 1 : k \in f[i + 1]
              ELSE /\ j <= m
                   /\ p[i] = "_" \/ t[j] = (IF escapes /\ p[i] = "\\" /\ i < n THEN p[i + 1] ELSE p[i])
                   /\ j + 1 \in f[IF escapes /\ p[i] = "\\" /\ i < n THEN i + 2 ELSE i + 1]
    BY <1>1 DEF LikeLoop, LikeLoopTo
  <2>3. CASE i > n
    <3>1. ~(i <= n)
      BY <2>3
    <3> QED  BY <2>2, <2>3, <3>1
  <2>4. CASE i <= n
    <3>1. ~(i > n)
      BY <2>4
    <3>2. j \in f[i] <=>
           /\ j \in 1 .. m + 1
           /\ IF p[i] = "%" THEN \E k \in j .. m + 1 : k \in f[i + 1]
              ELSE j <= m /\ (p[i] = "_" \/ t[j] = p[i]) /\ j + 1 \in f[i + 1]
      BY <2>1, <2>2, <2>4, <3>1
    <3> QED  BY <2>4, <3>1, <3>2
  <2>5. i > n \/ i <= n
    OBVIOUS
  <2> QED  BY <2>3, <2>4, <2>5
<1>3. PlainLike(p, t, f)
  BY <1>2 DEF PlainLike
<1> QED  BY <1>1, <1>3

LEMMA LikeEscapes ==
    ASSUME NEW C, NEW p \in Seq(C), NEW t \in Seq(C), Plain(p), NEW a, NEW b
    PROVE  Q!Like(p, t, a) <=> Q!Like(p, t, b)
<1>1. PICK f : PlainLike(p, t, f) /\ (Q!Like(p, t, a) <=> 1 \in f[1])
  BY LikeOfPlain
<1>2. PICK g : PlainLike(p, t, g) /\ (Q!Like(p, t, b) <=> 1 \in g[1])
  BY LikeOfPlain
<1> PICK n \in Nat : n = Len(p) + 1
  OBVIOUS
<1> DEFINE S == {i \in 1 .. n : \A j : j \in f[i] <=> j \in g[i]}
<1>3. n \in S
  <2>1. n \in 1 .. n /\ n > Len(p) /\ ~(n <= Len(p))
    OBVIOUS
  <2> QED  BY <1>1, <1>2, <2>1 DEF PlainLike
<1>4. ASSUME NEW i \in 1 .. n - 1, i + 1 \in S PROVE i \in S
  <2>1. i \in 1 .. n /\ ~(i > Len(p)) /\ i <= Len(p)
    OBVIOUS
  <2>2. \A j : j \in f[i + 1] <=> j \in g[i + 1]
    BY <1>4
  <2>3. ASSUME NEW j PROVE j \in f[i] <=> j \in g[i]
    BY <1>1, <1>2, <2>1, <2>2 DEF PlainLike
  <2> QED  BY <2>1, <2>3
<1> HIDE DEF S
<1>5. \A i \in 1 .. n : i \in S
  BY <1>3, <1>4, Downwards
<1>6. 1 \in 1 .. n
  OBVIOUS
<1>7. 1 \in f[1] <=> 1 \in g[1]
  BY <1>5, <1>6 DEF S
<1> QED  BY <1>1, <1>2, <1>7

\* What Lower keeps.
LEMMA Lowered ==
    ASSUME NEW C, NEW x \in Seq(C)
    PROVE  /\ Q!Lower(x) \in Seq(C \union {"a"}) /\ Len(Q!Lower(x)) = Len(x) /\ DOMAIN Q!Lower(x) = DOMAIN x
           /\ \A i \in DOMAIN x : Q!Lower(x)[i] = IF x[i] = "A" THEN "a" ELSE x[i]
           /\ Plain(x) => Plain(Q!Lower(x))
<1> PICK n \in Nat : n = Len(x)
  OBVIOUS
<1>1. DOMAIN x = 1 .. n /\ \A i \in 1 .. n : x[i] \in C
  BY SeqDef
<1>2. Q!Lower(x) = [i \in 1 .. n |-> IF x[i] = "A" THEN "a" ELSE x[i]]
  BY <1>1 DEF Q!Lower
<1>3. Q!Lower(x) \in [1 .. n -> C \union {"a"}]
  BY <1>1, <1>2
<1>4. Q!Lower(x) \in Seq(C \union {"a"}) /\ Len(Q!Lower(x)) = n /\ DOMAIN Q!Lower(x) = 1 .. n
  BY <1>3, SeqDef
<1>5. \A i \in 1 .. n : Q!Lower(x)[i] = IF x[i] = "A" THEN "a" ELSE x[i]
  BY <1>2
<1>6. Plain(x) => Plain(Q!Lower(x))
  BY <1>1, <1>4, <1>5 DEF Plain
<1> QED  BY <1>1, <1>4, <1>5, <1>6

\* The value of a qual is a sequence of texts, a single one without ANY, ALL
\* or an operator on arrays.
TextValues(C, q) ==
    /\ q.value \in Seq(Seq(C))
    /\ Len(q.operator) = 1 /\ q.operator[1] \notin Q!ArrayOps => Len(q.value) = 1

\* The WHERE clause of SqlAlchemyFdw._build_statement accepts every row that
\* PostgreSQL accepts (RemoteQuals.SqlKeepsRows), for every operator, whether
\* with ANY, ALL or neither, and values of any length and number.
THEOREM SqlKeepsAllRows ==
    ASSUME NEW C, NEW q, TextValues(C, q), NEW v \in Seq(C), NEW escapes \in BOOLEAN
    PROVE  Q!SqlKeepsRows(q, v, escapes)
<1> SUFFICES ASSUME escapes \/ q.operator[1] \notin Q!LikeOps \/ Q!NoneOf({"\\"}, q),
                    Q!Accepts(q, v), q.operator \in DOMAIN Q!OPERATORS
             PROVE  Q!SqlTrue(Q!OPERATORS[q.operator], v, q.value, escapes)
  BY DEF Q!SqlKeepsRows, Q!SqlReturns
<1> PICK o : o = q.operator
  OBVIOUS
<1> PICK xs \in Seq(Seq(C)) : xs = q.value
  BY DEF TextValues
<1>1. o \in {<<op>> : op \in Q!Comparisons} \union {<<"=", TRUE>>, <<"<>", FALSE>>}
  BY DEF Q!OPERATORS
<1>2. Q!OPERATORS[o] = IF Len(o) = 1 THEN Q!Clause(o[1]) ELSE IF o[1] = "=" THEN "in" ELSE "not in"
  BY <1>1 DEF Q!OPERATORS
<1>3. ASSUME NEW op \in Q!Comparisons, o = <<op>>
      PROVE  Q!SqlTrue(Q!OPERATORS[o], v, xs, escapes)
  <2> PICK x : x = xs[1]
    OBVIOUS
  <2>1. o[1] = op /\ Len(o) = 1
    BY <1>3
  <2>2. Q!Compare(op, v, x)
    <3>1. Q!list_any_or_all(q) = "None"
      BY <2>1 DEF Q!list_any_or_all
    <3>2. op \notin Q!ArrayOps
      BY DEF Q!Comparisons, Q!ArrayOps
    <3> QED  BY <2>1, <3>1, <3>2 DEF Q!Accepts
  <2>3. Q!OPERATORS[o] = Q!Clause(op)
    BY <1>2, <2>1
  <2>4. v # Q!NULL /\ x # Q!NULL
    BY <2>2 DEF Q!Compare
  <2>7. op \notin Q!ArrayOps
    BY DEF Q!Comparisons, Q!ArrayOps
  <2>8. x \in Seq(C)
    <3>1. Len(xs) = 1
      BY <2>1, <2>7 DEF TextValues
    <3> QED  BY <3>1
  <2>5. CASE op \in {"=", "<>", "<", ">="}
    <3>1. CASE op = "="
      BY <2>2, <2>3, <3>1 DEF Q!Compare, Q!Clause, Q!SqlTrue
    <3>2. CASE op = "<>"
      BY <2>2, <2>3, <3>2 DEF Q!Compare, Q!Clause, Q!SqlTrue
    <3>3. CASE op = "<"
      BY <2>2, <2>3, <3>3 DEF Q!Compare, Q!Clause, Q!SqlTrue
    <3>4. CASE op = ">="
      BY <2>2, <2>3, <3>4 DEF Q!Compare, Q!Clause, Q!SqlTrue
    <3> QED  BY <2>5, <3>1, <3>2, <3>3, <3>4
  <2>6. CASE op \in Q!LikeOps
    <3> PICK lx : lx = Q!Lower(x)
      OBVIOUS
    <3> PICK lv : lv = Q!Lower(v)
      OBVIOUS
    <3>1. /\ Q!Like(x, v, TRUE) <=> Q!Like(x, v, escapes)
          /\ Q!Like(lx, lv, TRUE) <=> Q!Like(lx, lv, escapes)
      <4>1. CASE escapes = TRUE
        BY <4>1
      <4>2. CASE escapes = FALSE
        <5>1. Plain(x)
          <6>1. 1 \in DOMAIN xs
            BY <2>1, <2>7 DEF TextValues
          <6>2. "\\" \notin Q!ToSet(x)
            BY <2>1, <2>6, <4>2, <6>1 DEF Q!NoneOf
          <6> QED  BY <6>2 DEF Q!ToSet, Plain
        <5>2. Plain(lx) /\ lx \in Seq(C \union {"a"}) /\ lv \in Seq(C \union {"a"})
          BY <5>1, <2>8, Lowered
        <5>3. Q!Like(x, v, TRUE) <=> Q!Like(x, v, escapes)
          BY <5>1, <2>8, LikeEscapes
        <5>4. Q!Like(lx, lv, TRUE) <=> Q!Like(lx, lv, escapes)
          BY <5>2, LikeEscapes
        <5> QED  BY <5>3, <5>4
      <4> QED  BY <4>1, <4>2
    <3>2. CASE op = "~~"
      BY <2>2, <2>3, <3>1, <3>2 DEF Q!Compare, Q!Clause, Q!SqlTrue
    <3>3. CASE op = "!~~"
      BY <2>2, <2>3, <3>1, <3>3 DEF Q!Compare, Q!Clause, Q!SqlTrue
    <3>4. CASE op = "~~*"
      BY <2>2, <2>3, <3>1, <3>4 DEF Q!Compare, Q!Clause, Q!SqlTrue
    <3>5. CASE op = "!~~*"
      BY <2>2, <2>3, <3>1, <3>5 DEF Q!Compare, Q!Clause, Q!SqlTrue
    <3> QED  BY <2>6, <3>2, <3>3, <3>4, <3>5 DEF Q!LikeOps
  <2> QED  BY <2>5, <2>6 DEF Q!Comparisons, Q!LikeOps
<1>4. CASE o = <<"=", TRUE>>
  <2>1. o[1] = "=" /\ o[2] = TRUE /\ Len(o) = 2
    BY <1>4
  <2>2. Q!list_any_or_all(q) = "ANY"
    BY <2>1 DEF Q!list_any_or_all
  <2>3. PICK i \in DOMAIN xs : Q!Compare("=", v, xs[i])
    BY <2>1, <2>2 DEF Q!Accepts
  <2>4. v # Q!NULL /\ xs[i] # Q!NULL /\ v = xs[i]
    BY <2>3 DEF Q!Compare
  <2>5. Q!OPERATORS[o] = "in"
    <3>1. o[1] = "=" /\ Len(o) # 1
      BY <2>1
    <3> QED  BY <1>2, <3>1
  <2> QED  BY <2>4, <2>5 DEF Q!SqlTrue
<1>5. CASE o = <<"<>", FALSE>>
  <2>1. o[1] = "<>" /\ o[2] = FALSE /\ Len(o) = 2
    BY <1>5
  <2>2. Q!list_any_or_all(q) = "ALL"
    BY <2>1 DEF Q!list_any_or_all
  <2>3. \A i \in DOMAIN xs : Q!Compare("<>", v, xs[i])
    BY <2>1, <2>2 DEF Q!Accepts
  <2>4. \A i \in DOMAIN xs : v # Q!NULL /\ xs[i] # Q!NULL /\ v # xs[i]
    BY <2>3 DEF Q!Compare
  <2>5. Q!OPERATORS[o] = "not in"
    <3>1. o[1] = "<>" /\ Len(o) # 1
      BY <2>1
    <3> QED  BY <1>2, <3>1
  <2>6. xs = << >> \/ v # Q!NULL
    <3>1. xs # << >> => 1 \in DOMAIN xs
      <4>1. xs # << >> => Len(xs) # 0
        BY EmptySeq
      <4> QED  BY <4>1
    <3> QED  BY <2>4, <3>1
  <2> QED  BY <2>4, <2>5, <2>6 DEF Q!SqlTrue
<1> QED  BY <1>1, <1>3, <1>4, <1>5

-----------------------------------------------------------------------------
(* compact_fetch.                                                          *)

\* The loop of compact_fetch, and what it yields.
Fetch == [first : Int, ranges : Seq(Int \X Int)]
CompactLoop(n, messages, b) ==
    b = [i \in 1 .. n + 1 |->
            IF i = 1 THEN [first |-> messages[1], ranges |-> << >>]
            ELSE Q!CompactStep(messages, b[i - 1], i - 1)]
FetchedBy(ranges) == UNION {r[1] .. r[2] : r \in Q!ToSet(ranges)}

LEMMA CompactStepTyped ==
    ASSUME NEW messages \in Seq(Int), NEW s \in Fetch, NEW i \in 1 .. Len(messages)
    PROVE  Q!CompactStep(messages, s, i) \in Fetch
<1>1. messages[i] \in Int /\ (i < Len(messages) => messages[i + 1] \in Int)
  OBVIOUS
<1>2. s.first \in Int /\ s.ranges \in Seq(Int \X Int)
  BY DEF Fetch
<1>3. <<s.first, messages[i]>> \in Int \X Int
  BY <1>1, <1>2
<1> PICK S : S = Int \X Int
  OBVIOUS
<1>4. Append(s.ranges, <<s.first, messages[i]>>) \in Seq(S)
  BY <1>2, <1>3
<1> PICK rs \in Seq(S) : rs = Append(s.ranges, <<s.first, messages[i]>>)
  BY <1>4
<1>5. [first |-> IF i < Len(messages) THEN messages[i + 1] ELSE messages[i], ranges |-> rs] \in Fetch
  BY <1>1 DEF Fetch
<1> QED  BY <1>5 DEF Q!CompactStep

LEMMA CompactLoopExists ==
    ASSUME NEW messages \in Seq(Int), NEW n \in Nat \ {0}, n = Len(messages)
    PROVE  \E b : CompactLoop(n, messages, b)
<1> DEFINE F == [a \in Fetch \X (2 .. n + 1) |-> Q!CompactStep(messages, a[1], a[2] - 1)]
<1> PICK V : V = Fetch
  OBVIOUS
<1> PICK N \in Nat : N = n + 1
  OBVIOUS
<1> PICK start : start = [first |-> messages[1], ranges |-> << >>]
  OBVIOUS
<1>1. start \in V
  <2>1. messages[1] \in Int /\ << >> \in Seq(Int \X Int)
    OBVIOUS
  <2> QED  BY <2>1 DEF Fetch
<1>2. \A s \in V, i \in 2 .. N : Q!CompactStep(messages, s, i - 1) \in V
  <2> TAKE s \in V, i \in 2 .. N
  <2>1. i - 1 \in 1 .. Len(messages)
    OBVIOUS
  <2> QED  BY <2>1, CompactStepTyped
<1>3. F \in [V \X (2 .. N) -> V]
  <2>1. \A a \in V \X (2 .. N) : a[1] \in V /\ a[2] \in 2 .. N
    OBVIOUS
  <2> QED  BY <1>2, <2>1
<1>4. \A s \in V, i \in 2 .. N : F[<<s, i>>] = Q!CompactStep(messages, s, i - 1)
  OBVIOUS
<1> HIDE DEF F
<1>5. Steps(N, V, start, F)
  BY <1>1, <1>3 DEF Steps
<1>6. PICK b \in [1 .. N -> V] : Iterate(N, start, F, b)
  BY <1>5, Iteration
<1>7. ASSUME NEW i \in 1 .. N PROVE b[i] = IF i = 1 THEN start ELSE Q!CompactStep(messages, b[i - 1], i - 1)
  <2>1. b[i] = IF i = 1 THEN start ELSE F[<<b[i - 1], i>>]
    BY <1>6 DEF Iterate
  <2>2. i # 1 => i \in 2 .. N /\ i - 1 \in 1 .. N
    OBVIOUS
  <2>3. i # 1 => b[i - 1] \in V
    BY <2>2
  <2> QED  BY <1>4, <2>1, <2>2, <2>3
<1>8. b = [i \in 1 .. N |-> b[i]]
  OBVIOUS
<1>9. b = [i \in 1 .. N |-> IF i = 1 THEN start ELSE Q!CompactStep(messages, b[i - 1], i - 1)]
  BY <1>7, <1>8
<1>10. CompactLoop(n, messages, b)
  BY <1>9 DEF CompactLoop
<1> QED  BY <1>10

\* After i - 1 messages: what the ranges fetch, and with it the run that ends
\* at message i.
CompactedTo(messages, i, s) ==
    /\ s \in Fetch
    /\ i <= Len(messages) =>
          /\ s.first <= messages[i]
          /\ FetchedBy(s.ranges) \union (s.first .. messages[i]) = {messages[k] : k \in 1 .. i}
    /\ i > Len(messages) => FetchedBy(s.ranges) = {messages[k] : k \in 1 .. Len(messages)}

LEMMA ToSetOfAppend ==
    ASSUME NEW S, NEW s \in Seq(S), NEW r \in S
    PROVE  Q!ToSet(Append(s, r)) = Q!ToSet(s) \union {r}
<1>0. Append(s, r) \in Seq(S)
  BY AppendProperties
<1> PICK x \in Seq(S) : x = Append(s, r)
  BY <1>0
<1> PICK n \in Nat : n = Len(s)
  OBVIOUS
<1>1. DOMAIN s = 1 .. n
  OBVIOUS
<1>2. Len(x) = n + 1
  OBVIOUS
<1>3. DOMAIN x = 1 .. n + 1
  BY <1>2
<1>4. x[n + 1] = r /\ \A i \in 1 .. n : x[i] = s[i]
  OBVIOUS
<1>5. \A i \in 1 .. n + 1 : i \in 1 .. n \/ i = n + 1
  OBVIOUS
<1>6. \A i \in 1 .. n : i \in 1 .. n + 1
  OBVIOUS
<1>7. n + 1 \in 1 .. n + 1
  OBVIOUS
<1>8. Q!ToSet(x) = {x[i] : i \in 1 .. n + 1} /\ Q!ToSet(s) = {s[i] : i \in 1 .. n}
  BY <1>1, <1>3 DEF Q!ToSet
<1>9. \A y \in Q!ToSet(x) : y \in Q!ToSet(s) \union {r}
  BY <1>4, <1>5, <1>8
<1>10. \A y \in Q!ToSet(s) \union {r} : y \in Q!ToSet(x)
  BY <1>4, <1>6, <1>7, <1>8
<1> QED  BY <1>9, <1>10

LEMMA FetchedByAppend ==
    ASSUME NEW ranges \in Seq(Int \X Int), NEW a \in Int, NEW b \in Int
    PROVE  FetchedBy(Append(ranges, <<a, b>>)) = FetchedBy(ranges) \union (a .. b)
<1> PICK S : S = Int \X Int
  OBVIOUS
<1> PICK r \in S : r = <<a, b>>
  OBVIOUS
<1>1. Q!ToSet(Append(ranges, r)) = Q!ToSet(ranges) \union {r}
  BY ToSetOfAppend
<1>2. r[1] = a /\ r[2] = b
  OBVIOUS
<1>3. FetchedBy(Append(ranges, r)) = FetchedBy(ranges) \union (r[1] .. r[2])
  BY <1>1 DEF FetchedBy
<1> QED  BY <1>2, <1>3

LEMMA CompactStepRight ==
    ASSUME NEW messages \in Seq(Int), NEW i \in 1 .. Len(messages), NEW s, CompactedTo(messages, i, s)
    PROVE  CompactedTo(messages, i + 1, Q!CompactStep(messages, s, i))
<1> PICK n \in Nat : n = Len(messages)
  OBVIOUS
<1> PICK t : t = Q!CompactStep(messages, s, i)
  OBVIOUS
<1>1. s \in Fetch /\ t \in Fetch
  BY CompactStepTyped DEF CompactedTo
<1>2. s.first \in Int /\ s.ranges \in Seq(Int \X Int)
  BY <1>1 DEF Fetch
<1>3. \A k \in 1 .. n : messages[k] \in Int
  OBVIOUS
<1>4. s.first <= messages[i] /\ FetchedBy(s.ranges) \union (s.first .. messages[i]) = {messages[k] : k \in 1 .. i}
  BY DEF CompactedTo
<1>5. i < n => {messages[k] : k \in 1 .. i + 1} = {messages[k] : k \in 1 .. i} \union {messages[i + 1]}
  <2>1. \A k \in 1 .. i + 1 : k \in 1 .. i \/ k = i + 1
    OBVIOUS
  <2>2. (\A k \in 1 .. i : k \in 1 .. i + 1) /\ i + 1 \in 1 .. i + 1
    OBVIOUS
  <2> QED  BY <2>1, <2>2
<1>6. CASE i < n /\ messages[i + 1] = messages[i] + 1
  <2>1. t = s
    BY <1>6 DEF Q!CompactStep
  <2>2. s.first .. messages[i + 1] = (s.first .. messages[i]) \union {messages[i + 1]} /\ s.first <= messages[i + 1]
    BY <1>2, <1>3, <1>4, <1>6
  <2>3. FetchedBy(s.ranges) \union (s.first .. messages[i + 1]) = {messages[k] : k \in 1 .. i + 1}
    BY <1>4, <1>5, <1>6, <2>2
  <2>4. i + 1 <= n /\ ~(i + 1 > n)
    BY <1>6
  <2> QED  BY <1>1, <2>1, <2>2, <2>3, <2>4 DEF CompactedTo
<1>7. CASE ~(i < n /\ messages[i + 1] = messages[i] + 1)
  <2>1. t.first = (IF i < n THEN messages[i + 1] ELSE messages[i]) /\ t.ranges = Append(s.ranges, <<s.first, messages[i]>>)
    BY <1>7 DEF Q!CompactStep
  <2>2. FetchedBy(t.ranges) = {messages[k] : k \in 1 .. i}
    <3>1. messages[i] \in Int
      BY <1>3
    <3>2. FetchedBy(Append(s.ranges, <<s.first, messages[i]>>)) = FetchedBy(s.ranges) \union (s.first .. messages[i])
      BY <1>2, <3>1, FetchedByAppend
    <3> QED  BY <1>4, <2>1, <3>2
  <2>3. CASE i < n
    <3>1. t.first = messages[i + 1] /\ messages[i + 1] \in Int
      BY <1>3, <2>1, <2>3
    <3>2. t.first .. messages[i + 1] = {messages[i + 1]} /\ t.first <= messages[i + 1]
      BY <3>1
    <3>3. i + 1 <= n /\ ~(i + 1 > n)
      BY <2>3
    <3> QED  BY <1>1, <1>5, <2>2, <2>3, <3>2, <3>3 DEF CompactedTo
  <2>4. CASE i = n
    <3>1. i + 1 > n /\ ~(i + 1 <= n)
      BY <2>4
    <3> QED  BY <1>1, <2>2, <2>4, <3>1 DEF CompactedTo
  <2> QED  BY <2>3, <2>4
<1> QED  BY <1>6, <1>7

\* The ranges of compact_fetch hold the messages it was given and no others
\* (RemoteQuals.FetchesFound), for any number of them in any order.
THEOREM AllAreFetched ==
    ASSUME NEW messages \in Seq(Int), messages # << >>
    PROVE  Q!FetchesFound(messages)
<1> PICK n \in Nat \ {0} : n = Len(messages)
  BY EmptySeq
<1> DEFINE before[i \in 1 .. Len(messages) + 1] ==
             IF i = 1 THEN [first |-> messages[1], ranges |-> << >>]
             ELSE Q!CompactStep(messages, before[i - 1], i - 1)
<1>1. Q!compact_fetch(messages) = before[Len(messages) + 1].ranges
  BY DEF Q!compact_fetch
<1>2. CompactLoop(Len(messages), messages, before)
  <2>1. \E b : CompactLoop(n, messages, b)
    BY CompactLoopExists
  <2>2. \E b : CompactLoop(Len(messages), messages, b)
    BY <2>1
  <2> QED  BY <2>2 DEF CompactLoop
<1> HIDE DEF before
<1>3. CompactLoop(n, messages, before)
  BY <1>2
<1> DEFINE R == {i \in 1 .. n + 1 : CompactedTo(messages, i, before[i])}
<1>4. 1 \in R
  <2>1. 1 \in 1 .. n + 1 /\ 1 <= n /\ ~(1 > n) /\ 1 .. 1 = {1}
    OBVIOUS
  <2>2. before[1] = [first |-> messages[1], ranges |-> << >>]
    BY <1>3, <2>1 DEF CompactLoop
  <2>3. messages[1] \in Int /\ << >> \in Seq(Int \X Int)
    BY <2>1
  <2>4. before[1] \in Fetch /\ before[1].first = messages[1] /\ before[1].ranges = << >>
    BY <2>2, <2>3 DEF Fetch
  <2>5. FetchedBy(<< >>) = {}
    BY DEF FetchedBy, Q!ToSet
  <2>6. messages[1] .. messages[1] = {messages[1]} /\ messages[1] <= messages[1]
    BY <2>3
  <2>7. {messages[k] : k \in 1 .. 1} = {messages[1]}
    BY <2>1
  <2>8. CompactedTo(messages, 1, before[1])
    BY <2>1, <2>4, <2>5, <2>6, <2>7 DEF CompactedTo
  <2> QED  BY <2>1, <2>8
<1>5. ASSUME NEW i \in 2 .. n + 1, i - 1 \in R PROVE i \in R
  <2>1. i \in 1 .. n + 1 /\ i # 1 /\ i - 1 \in 1 .. n /\ (i - 1) + 1 = i
    OBVIOUS
  <2>2. before[i] = Q!CompactStep(messages, before[i - 1], i - 1)
    BY <1>3, <2>1 DEF CompactLoop
  <2>3. CompactedTo(messages, i - 1, before[i - 1])
    BY <1>5
  <2>4. CompactedTo(messages, (i - 1) + 1, Q!CompactStep(messages, before[i - 1], i - 1))
    BY <2>1, <2>3, CompactStepRight
  <2> QED  BY <2>1, <2>2, <2>4
<1> HIDE DEF R
<1>6. \A i \in 1 .. n + 1 : i \in R
  <2>1. n + 1 \in Nat
    OBVIOUS
  <2> QED  BY <1>4, <1>5, <2>1, Upwards
<1>7. CompactedTo(messages, n + 1, before[n + 1])
  <2>1. n + 1 \in 1 .. n + 1
    OBVIOUS
  <2> QED  BY <1>6, <2>1 DEF R
<1>8. FetchedBy(before[n + 1].ranges) = {messages[k] : k \in 1 .. n}
  <2>1. n + 1 > n
    OBVIOUS
  <2> QED  BY <1>7, <2>1 DEF CompactedTo
<1>9. Q!ToSet(messages) = {messages[k] : k \in 1 .. n}
  BY DEF Q!ToSet
<1> QED  BY <1>1, <1>8, <1>9 DEF Q!FetchesFound, FetchedBy

-----------------------------------------------------------------------------
(* The search filter of LdapFdw.                                           *)

\* The loop of a filter.
FilterLoopTo(n, m, f, t, g) ==
    g = [i \in 1 .. n |->
            {j \in 1 .. m :
                IF i > Len(f) THEN j > Len(t)
                ELSE IF f[i] = "*" THEN \E k \in j .. m : k \in g[i + 1]
                ELSE IF f[i] = "\\"
                     THEN /\ i < Len(f) /\ j <= Len(t) /\ t[j] \in DOMAIN Q!SPECIAL_CHARS
                          /\ Q!SPECIAL_CHARS[t[j]][2] = f[i + 1]
                          /\ j + 1 \in g[i + 2]
                ELSE j <= Len(t) /\ t[j] = f[i] /\ j + 1 \in g[i + 1]}]

FilterLoop(f, t, g) == FilterLoopTo(Len(f) + 1, Len(t) + 1, f, t, g)

LEMMA FilterLoopExists ==
    ASSUME NEW C, NEW f \in Seq(C), NEW t \in Seq(C)
    PROVE  \E g : FilterLoop(f, t, g)
<1> PICK n \in Nat : n = Len(f) + 1
  OBVIOUS
<1> PICK m \in Nat : m = Len(t) + 1
  OBVIOUS
<1> PICK V : V = SUBSET (1 .. m)
  OBVIOUS
<1> DEFINE Ends(g, i) ==
             {j \in 1 .. m :
                IF i > Len(f) THEN j > Len(t)
                ELSE IF f[i] = "*" THEN \E k \in j .. m : k \in g[i + 1]
                ELSE IF f[i] = "\\"
                     THEN /\ i < Len(f) /\ j <= Len(t) /\ t[j] \in DOMAIN Q!SPECIAL_CHARS
                          /\ Q!SPECIAL_CHARS[t[j]][2] = f[i + 1]
                          /\ j + 1 \in g[i + 2]
                ELSE j <= Len(t) /\ t[j] = f[i] /\ j + 1 \in g[i + 1]}
           body(g) == [i \in 1 .. n |-> Ends(g, i)]
           G == [g \in [1 .. n -> V] |-> body(g)]
<1>1. \A g, i : Ends(g, i) \in V
  OBVIOUS
<1>2. ASSUME NEW g, NEW h, NEW i \in 1 .. n, \A j \in 1 .. n : i < j => g[j] = h[j]
      PROVE  Ends(g, i) = Ends(h, i)
  <2>1. CASE i > Len(f)
    BY <2>1
  <2>2. CASE i <= Len(f)
    <3>1. g[i + 1] = h[i + 1]
      <4>1. i + 1 \in 1 .. n /\ i < i + 1
        BY <2>2
      <4> QED  BY <1>2, <4>1
    <3>2. i < Len(f) => g[i + 2] = h[i + 2]
      <4>1. i < Len(f) => i + 2 \in 1 .. n /\ i < i + 2
        BY <2>2
      <4> QED  BY <1>2, <4>1
    <3> QED  BY <3>1, <3>2
  <2>3. i > Len(f) \/ i <= Len(f)
    OBVIOUS
  <2> HIDE DEF Ends
  <2> QED  BY <2>1, <2>2, <2>3
<1> HIDE DEF Ends
<1>3. \A g : body(g) \in [1 .. n -> V]
  BY <1>1
<1>4. \A g, h : \A i \in 1 .. n : (\A j \in 1 .. n : i < j => g[j] = h[j]) => body(g)[i] = body(h)[i]
  BY <1>2
<1> HIDE DEF body
<1>5. DependsAfter(n, V, G)
  <2>1. G \in [[1 .. n -> V] -> [1 .. n -> V]]
    BY <1>3
  <2>2. \A g \in [1 .. n -> V] : G[g] = body(g)
    OBVIOUS
  <2> HIDE DEF G
  <2>3. ASSUME NEW g \in [1 .. n -> V], NEW h \in [1 .. n -> V], NEW i \in 1 .. n,
               \A j \in 1 .. n : i < j => g[j] = h[j]
        PROVE  G[g][i] = G[h][i]
    <3>1. body(g)[i] = body(h)[i]
      BY <1>4, <2>3
    <3> QED  BY <2>2, <3>1
  <2> QED  BY <2>1, <2>3 DEF DependsAfter
<1>6. V # {}
  OBVIOUS
<1>7. PICK g \in [1 .. n -> V] : g = G[g]
  <2>1. HasLoop(n, V, G)
    BY <1>5, <1>6, RecursionAfter
  <2> QED  BY <2>1 DEF HasLoop
<1>8. g = body(g)
  BY <1>7
<1>9. FilterLoopTo(n, m, f, t, g)
  BY <1>8 DEF body, Ends, FilterLoopTo
<1> QED  BY <1>9 DEF FilterLoop

LEMMA FilteredByLoop ==
    ASSUME NEW C, NEW f \in Seq(C), NEW t \in Seq(C)
    PROVE  \E g : FilterLoop(f, t, g) /\ (Q!Filtered(f, t) <=> 1 \in g[1])
<1>1. PICK h : FilterLoop(f, t, h)
  BY FilterLoopExists
<1> DEFINE filter[i \in 1 .. Len(f) + 1] ==
             {j \in 1 .. Len(t) + 1 :
                IF i > Len(f) THEN j > Len(t)
                ELSE IF f[i] = "*" THEN \E k \in j .. Len(t) + 1 : k \in filter[i + 1]
                ELSE IF f[i] = "\\"
                     THEN /\ i < Len(f) /\ j <= Len(t) /\ t[j] \in DOMAIN Q!SPECIAL_CHARS
                          /\ Q!SPECIAL_CHARS[t[j]][2] = f[i + 1]
                          /\ j + 1 \in filter[i + 2]
                ELSE j <= Len(t) /\ t[j] = f[i] /\ j + 1 \in filter[i + 1]}
<1>2. Q!Filtered(f, t) <=> 1 \in filter[1]
  BY DEF Q!Filtered
<1>3. FilterLoop(f, t, filter)
  <2>1. \E g : FilterLoop(f, t, g)
    BY <1>1
  <2> QED  BY <2>1 DEF FilterLoop, FilterLoopTo
<1> HIDE DEF filter
<1> QED  BY <1>2, <1>3

Low(c) == IF c = "A" THEN "a" ELSE c
Specials == {"*", "(", ")", "\\", "/"}
Codes == {"\\", "2a", "28", "29", "5c", "2f"}
FilterChars(C) == C \union Codes \union {"*", "a"}

LEMMA SpecialsAre ==
    /\ DOMAIN Q!SPECIAL_CHARS = Specials
    /\ \A c \in Specials : /\ Q!SPECIAL_CHARS[c] = <<"\\", Q!Code(c)>>
                           /\ Q!SPECIAL_CHARS[c][2] = Q!Code(c)
                           /\ Q!Code(c) \in Codes \ {"\\"}
<1>1. DOMAIN Q!SPECIAL_CHARS = Specials
  BY DEF Q!SPECIAL_CHARS, Specials
<1>2. \A c \in Specials : Q!SPECIAL_CHARS[c] = <<"\\", Q!Code(c)>>
  BY DEF Q!SPECIAL_CHARS, Specials
<1>3. \A c \in Specials : Q!Code(c) \in Codes \ {"\\"}
  BY DEF Q!Code, Specials, Codes
<1> QED  BY <1>1, <1>2, <1>3

\* The filter that LdapFdw.execute makes of a value, from place to place.
FilterAt(op, x, f, at) ==
    /\ at[1] = 1 /\ at[Len(x) + 1] = Len(f) + 1
    /\ \A i \in 1 .. Len(x) :
          /\ at[i] \in 1 .. Len(f)
          /\ x[i] \in Specials => /\ f[at[i]] = "\\" /\ at[i] < Len(f)
                                  /\ f[at[i] + 1] = Q!Code(x[i]) /\ at[i + 1] = at[i] + 2
          /\ x[i] \notin Specials =>
                /\ f[at[i]] = (IF op = "~~" /\ x[i] = "%" THEN "*" ELSE Low(x[i]))
                /\ at[i + 1] = at[i] + 1

LEMMA FilterPlaces ==
    ASSUME NEW C, NEW x \in Seq(C), NEW op, NEW f, f = Q!Lower(Q!FilterValue(op, x))
    PROVE  f \in Seq(FilterChars(C)) /\ \E at : FilterAt(op, x, f, at)
<1> PICK n \in Nat : n = Len(x)
  OBVIOUS
<1> PICK S : S = C \union Codes
  OBVIOUS
<1> DEFINE Part(c) == IF c \in Specials THEN <<"\\", Q!Code(c)>> ELSE <<c>>
<1> PICK seqs : seqs = [i \in 1 .. n |-> Part(x[i])]
  OBVIOUS
<1> PICK flat : flat = Q!translate(x)
  OBVIOUS
<1>1. DOMAIN x = 1 .. n /\ \A i \in 1 .. n : x[i] \in C
  BY SeqDef
<1>2. \A c \in C : Part(c) \in Seq(S)
  <2> TAKE c \in C
  <2>1. CASE c \in Specials
    <3>1. "\\" \in S /\ Q!Code(c) \in S
      BY <2>1, SpecialsAre DEF Codes
    <3> QED  BY <2>1, <3>1
  <2>2. CASE c \notin Specials
    <3>1. c \in S
      OBVIOUS
    <3> QED  BY <2>2, <3>1
  <2> QED  BY <2>1, <2>2
<1>3. seqs \in Seq(Seq(S)) /\ Len(seqs) = n
  <2>1. \A i \in 1 .. n : Part(x[i]) \in Seq(S)
    BY <1>1, <1>2
  <2> HIDE DEF Part
  <2> PICK U : U = Seq(S)
    OBVIOUS
  <2>2. seqs \in [1 .. n -> U]
    BY <2>1
  <2>3. seqs \in Seq(U) /\ Len(seqs) = n
    BY <2>2, SeqDef
  <2> QED  BY <2>3
<1>4. flat = FlattenSeq(seqs)
  <2>1. Q!translate(x) = FlattenSeq([i \in DOMAIN x |->
            IF x[i] \in DOMAIN Q!SPECIAL_CHARS THEN Q!SPECIAL_CHARS[x[i]] ELSE <<x[i]>>])
    BY DEF Q!translate, Q!FlattenSeq, FlattenSeq
  <2>2. seqs = [i \in DOMAIN x |->
            IF x[i] \in DOMAIN Q!SPECIAL_CHARS THEN Q!SPECIAL_CHARS[x[i]] ELSE <<x[i]>>]
    BY <1>1, SpecialsAre
  <2> QED  BY <2>1, <2>2
<1>5. flat \in Seq(S)
  BY <1>3, <1>4, Flattened
<1> PICK m \in Nat : m = Len(flat)
  BY <1>5
<1> DEFINE Starred(c) == IF op = "~~" /\ c = "%" THEN "*" ELSE c
           Lowest(c) == IF Starred(c) = "A" THEN "a" ELSE Starred(c)
<1>6. DOMAIN flat = 1 .. m /\ \A i \in 1 .. m : flat[i] \in S
  BY <1>5, SeqDef
<1>7. f = [i \in 1 .. m |-> Lowest(flat[i])]
  <2> PICK y : y = Q!FilterValue(op, x)
    OBVIOUS
  <2>1. y = [i \in 1 .. m |-> Starred(flat[i])]
    <3>1. CASE op = "~~"
      BY <1>6, <3>1 DEF Q!FilterValue, Q!replace
    <3>2. CASE op # "~~"
      <4>1. y = flat
        BY <3>2 DEF Q!FilterValue
      <4>2. flat = [i \in 1 .. m |-> flat[i]]
        BY <1>5, <1>6, SeqDef
      <4> QED  BY <3>2, <4>1, <4>2
    <3> QED  BY <3>1, <3>2
  <2>2. DOMAIN y = 1 .. m /\ \A i \in 1 .. m : y[i] = Starred(flat[i])
    BY <2>1
  <2> HIDE DEF Starred
  <2>3. f = [i \in DOMAIN y |-> IF y[i] = "A" THEN "a" ELSE y[i]]
    BY DEF Q!Lower
  <2> QED  BY <2>2, <2>3
<1>8. f \in Seq(FilterChars(C)) /\ Len(f) = m
  <2>1. \A c \in S : Lowest(c) \in FilterChars(C)
    BY DEF FilterChars
  <2> HIDE DEF Lowest
  <2>2. \A i \in 1 .. m : Lowest(flat[i]) \in FilterChars(C)
    BY <1>6, <2>1
  <2> PICK V : V = FilterChars(C)
    OBVIOUS
  <2>3. f \in [1 .. m -> V]
    BY <1>7, <2>2
  <2> QED  BY <2>3, SeqDef
<1>9. PICK at : PartsAt(n, seqs, flat, at)
  BY <1>3, <1>4, PartsOfFlat
<1>10. \A i \in 1 .. n : at[i] \in Nat /\ at[i + 1] = at[i] + Len(seqs[i])
                        /\ \A k \in 1 .. Len(seqs[i]) : /\ at[i] + k - 1 \in 1 .. m
                                                        /\ flat[at[i] + k - 1] = seqs[i][k]
  <2>1. \A i \in 1 .. n : i \in 1 .. n + 1
    OBVIOUS
  <2>2. at \in [1 .. n + 1 -> Nat \ {0}]
    BY <1>9 DEF PartsAt
  <2>3. \A i \in 1 .. n : at[i] \in Nat
    BY <2>1, <2>2
  <2>4. \A i \in 1 .. n : at[i + 1] = at[i] + Len(seqs[i])
                        /\ \A k \in 1 .. Len(seqs[i]) : /\ at[i] + k - 1 \in 1 .. Len(flat)
                                                        /\ flat[at[i] + k - 1] = seqs[i][k]
    BY <1>9 DEF PartsAt
  <2> QED  BY <2>3, <2>4
<1>11. \A i \in 1 .. n : seqs[i] = Part(x[i])
  OBVIOUS
<1>12. \A i \in 1 .. m : f[i] = Lowest(flat[i])
  BY <1>7
<1>13. ASSUME NEW i \in 1 .. n
       PROVE  /\ at[i] \in 1 .. m
              /\ x[i] \in Specials => /\ f[at[i]] = "\\" /\ at[i] < m
                                      /\ f[at[i] + 1] = Q!Code(x[i]) /\ at[i + 1] = at[i] + 2
              /\ x[i] \notin Specials =>
                    /\ f[at[i]] = (IF op = "~~" /\ x[i] = "%" THEN "*" ELSE Low(x[i]))
                    /\ at[i + 1] = at[i] + 1
  <2> PICK c : c = x[i]
    OBVIOUS
  <2> PICK a \in Nat : a = at[i]
    BY <1>10
  <2> HIDE DEF Starred, Lowest, Part
  <2>1. CASE c \in Specials
    <3> PICK d : d = Q!Code(c)
      OBVIOUS
    <3>1. seqs[i] = <<"\\", d>>
      BY <1>11, <2>1 DEF Part
    <3>2. Len(seqs[i]) = 2 /\ seqs[i][1] = "\\" /\ seqs[i][2] = d /\ 1 \in 1 .. Len(seqs[i]) /\ 2 \in 1 .. Len(seqs[i])
      BY <3>1
    <3>3. at[i + 1] = a + 2 /\ a + 1 - 1 \in 1 .. m /\ flat[a + 1 - 1] = "\\" /\ a + 2 - 1 \in 1 .. m /\ flat[a + 2 - 1] = d
      BY <1>10, <3>2
    <3>4. a + 1 - 1 = a /\ a + 2 - 1 = a + 1
      OBVIOUS
    <3>5. a \in 1 .. m /\ flat[a] = "\\" /\ a + 1 \in 1 .. m /\ flat[a + 1] = d
      BY <3>3, <3>4
    <3>6. Lowest("\\") = "\\" /\ Lowest(d) = d
      BY <2>1, SpecialsAre DEF Lowest, Starred, Codes
    <3>7. f[a] = "\\" /\ f[a + 1] = d
      BY <1>12, <3>5, <3>6
    <3>8. a < m
      BY <3>5
    <3> QED  BY <2>1, <3>3, <3>5, <3>7, <3>8
  <2>2. CASE c \notin Specials
    <3>1. seqs[i] = <<c>>
      BY <1>11, <2>2 DEF Part
    <3>2. Len(seqs[i]) = 1 /\ seqs[i][1] = c /\ 1 \in 1 .. Len(seqs[i])
      BY <3>1
    <3>3. at[i + 1] = a + 1 /\ a + 1 - 1 \in 1 .. m /\ flat[a + 1 - 1] = c
      BY <1>10, <3>2
    <3>4. a + 1 - 1 = a
      OBVIOUS
    <3>5. a \in 1 .. m /\ flat[a] = c
      BY <3>3, <3>4
    <3>6. Lowest(c) = (IF op = "~~" /\ c = "%" THEN "*" ELSE Low(c))
      BY DEF Lowest, Starred, Low
    <3> QED  BY <1>12, <2>2, <3>3, <3>5, <3>6
  <2> QED  BY <2>1, <2>2
<1>14. at[1] = 1 /\ at[n + 1] = m + 1
  BY <1>9 DEF PartsAt
<1>15. FilterAt(op, x, f, at)
  BY <1>8, <1>13, <1>14 DEF FilterAt
<1> QED  BY <1>8, <1>15

\* Places of t for the places of x: what LIKE and equality have in common.
\* stars: a % is any text.
Walk(x, t, stars, g) ==
    \A i \in 1 .. Len(x) + 1 : \A j \in g[i] :
        /\ j \in 1 .. Len(t) + 1
        /\ i > Len(x) => j > Len(t)
        /\ i <= Len(x) /\ stars /\ x[i] = "%" => \E k \in j .. Len(t) + 1 : k \in g[i + 1]
        /\ i <= Len(x) /\ ~(stars /\ x[i] = "%") => j <= Len(t) /\ t[j] = x[i] /\ j + 1 \in g[i + 1]

\* The filter finds what the walk finds.
LEMMA WalkIsFiltered ==
    ASSUME NEW C, NEW x \in Seq(C), NEW t \in Seq(C), NEW op, NEW g,
           Walk(x, t, op = "~~", g), 1 \in g[1]
    PROVE  Q!Filtered(Q!Lower(Q!FilterValue(op, x)), Q!Lower(t))
<1> PICK n \in Nat : n = Len(x)
  OBVIOUS
<1> PICK m \in Nat : m = Len(t)
  OBVIOUS
<1> PICK f : f = Q!Lower(Q!FilterValue(op, x))
  OBVIOUS
<1> PICK u : u = Q!Lower(t)
  OBVIOUS
<1>1. f \in Seq(FilterChars(C)) /\ \E at : FilterAt(op, x, f, at)
  BY FilterPlaces
<1> PICK at : FilterAt(op, x, f, at)
  BY <1>1
<1> PICK D : D = FilterChars(C)
  OBVIOUS
<1>2. u \in Seq(C \union {"a"}) /\ Len(u) = m /\ \A j \in 1 .. m : u[j] = Low(t[j])
  <2>1. DOMAIN t = 1 .. m
    OBVIOUS
  <2> QED  BY <2>1, Lowered DEF Low
<1>3. f \in Seq(D) /\ u \in Seq(D)
  <2>1. C \union {"a"} \subseteq D
    BY DEF FilterChars
  <2>2. \A j \in DOMAIN u : u[j] \in D
    BY <1>2, <2>1
  <2> PICK k \in Nat : k = Len(u)
    BY <1>2
  <2>3. u \in [1 .. k -> D]
    BY <1>2, <2>2, SeqDef
  <2>4. u \in Seq(D)
    BY <2>3, SeqDef
  <2> QED  BY <1>1, <2>4
<1> PICK l \in Nat : l = Len(f)
  BY <1>1
<1>4. PICK h : FilterLoop(f, u, h) /\ (Q!Filtered(f, u) <=> 1 \in h[1])
  BY <1>3, FilteredByLoop
<1>5. ASSUME NEW i \in 1 .. l + 1, NEW j
      PROVE  j \in h[i] <=>
            /\ j \in 1 .. m + 1
            /\ IF i > l THEN j > m
               ELSE IF f[i] = "*" THEN \E k \in j .. m + 1 : k \in h[i + 1]
               ELSE IF f[i] = "\\"
                    THEN /\ i < l /\ j <= m /\ u[j] \in DOMAIN Q!SPECIAL_CHARS
                         /\ Q!SPECIAL_CHARS[u[j]][2] = f[i + 1]
                         /\ j + 1 \in h[i + 2]
               ELSE j <= m /\ u[j] = f[i] /\ j + 1 \in h[i + 1]
  <2>1. Len(u) = m /\ FilterLoop(f, u, h)
    BY <1>2, <1>4
  <2> DEFINE Here(a, b) ==
               IF a > Len(f) THEN b > Len(u)
               ELSE IF f[a] = "*" THEN \E k \in b .. m + 1 : k \in h[a + 1]
               ELSE IF f[a] = "\\"
                    THEN /\ a < Len(f) /\ b <= Len(u) /\ u[b] \in DOMAIN Q!SPECIAL_CHARS
                         /\ Q!SPECIAL_CHARS[u[b]][2] = f[a + 1]
                         /\ b + 1 \in h[a + 2]
               ELSE b <= Len(u) /\ u[b] = f[a] /\ b + 1 \in h[a + 1]
  <2>2. h = [a \in 1 .. l + 1 |-> {b \in 1 .. m + 1 : Here(a, b)}]
    BY <2>1 DEF FilterLoop, FilterLoopTo
  <2> HIDE DEF Here
  <2>3. h[i] = {b \in 1 .. m + 1 : Here(i, b)}
    BY <2>2
  <2>4. j \in h[i] <=> j \in 1 .. m + 1 /\ Here(i, j)
    BY <2>3
  <2> QED  BY <2>1, <2>4 DEF Here
<1>6. /\ at[1] = 1 /\ at[n + 1] = l + 1
      /\ \A i \in 1 .. n :
          /\ at[i] \in 1 .. l
          /\ x[i] \in Specials => /\ f[at[i]] = "\\" /\ at[i] < l
                                  /\ f[at[i] + 1] = Q!Code(x[i]) /\ at[i + 1] = at[i] + 2
          /\ x[i] \notin Specials =>
                /\ f[at[i]] = (IF op = "~~" /\ x[i] = "%" THEN "*" ELSE Low(x[i]))
                /\ at[i + 1] = at[i] + 1
  BY DEF FilterAt
<1> DEFINE R == {i \in 1 .. n + 1 : \A j \in g[i] : j \in h[at[i]]}
<1>7. n + 1 \in R
  <2>1. n + 1 \in 1 .. n + 1 /\ n + 1 > n /\ l + 1 \in 1 .. l + 1 /\ l + 1 > l
    OBVIOUS
  <2>2. \A j \in g[n + 1] : j \in 1 .. m + 1 /\ j > m
    BY <2>1 DEF Walk
  <2> QED  BY <1>5, <1>6, <2>1, <2>2
<1>8. ASSUME NEW i \in 1 .. (n + 1) - 1, i + 1 \in R PROVE i \in R
  <2>1. i \in 1 .. n /\ i \in 1 .. n + 1 /\ i <= n
    OBVIOUS
  <2> PICK a : a = at[i]
    OBVIOUS
  <2>2. a \in 1 .. l /\ a \in 1 .. l + 1 /\ ~(a > l)
    <3>1. a \in 1 .. l
      BY <1>6, <2>1
    <3> QED  BY <3>1
  <2>3. \A j \in g[i + 1] : j \in h[at[i + 1]]
    BY <1>8
  <2> HIDE DEF R
  <2>4. ASSUME NEW j \in g[i] PROVE j \in h[a]
    <3>1. /\ j \in 1 .. m + 1
          /\ op = "~~" /\ x[i] = "%" => \E k \in j .. m + 1 : k \in g[i + 1]
          /\ ~(op = "~~" /\ x[i] = "%") => j <= m /\ t[j] = x[i] /\ j + 1 \in g[i + 1]
      BY <2>1 DEF Walk
    <3> PICK c : c = x[i]
      OBVIOUS
    <3>2. CASE c \in Specials
      <4>1. f[a] = "\\" /\ f[a] # "*" /\ a < l /\ f[a + 1] = Q!Code(c) /\ at[i + 1] = a + 2
        BY <1>6, <2>1, <3>2
      <4>2. c # "%" /\ c # "A"
        BY <3>2 DEF Specials
      <4>3. j <= m /\ t[j] = c /\ j + 1 \in g[i + 1] /\ j \in 1 .. m
        BY <3>1, <4>2
      <4>4. u[j] = c
        BY <1>2, <4>2, <4>3 DEF Low
      <4>5. j + 1 \in h[a + 2]
        BY <2>3, <4>1, <4>3
      <4>6. u[j] \in DOMAIN Q!SPECIAL_CHARS /\ Q!SPECIAL_CHARS[u[j]][2] = f[a + 1]
        BY <3>2, <4>1, <4>4, SpecialsAre
      <4> QED  BY <1>5, <2>2, <3>1, <4>1, <4>3, <4>5, <4>6
    <3>3. CASE c \notin Specials /\ op = "~~" /\ c = "%"
      <4>1. f[a] = "*" /\ at[i + 1] = a + 1
        BY <1>6, <2>1, <3>3
      <4>2. \E k \in j .. m + 1 : k \in h[a + 1]
        BY <2>3, <3>1, <3>3, <4>1
      <4> QED  BY <1>5, <2>2, <3>1, <4>1, <4>2
    <3>4. CASE c \notin Specials /\ ~(op = "~~" /\ c = "%")
      <4>1. f[a] = Low(c) /\ at[i + 1] = a + 1
        BY <1>6, <2>1, <3>4
      <4>2. f[a] # "*" /\ f[a] # "\\"
        BY <3>4, <4>1 DEF Low, Specials
      <4>3. j <= m /\ t[j] = c /\ j + 1 \in g[i + 1] /\ j \in 1 .. m
        BY <3>1, <3>4
      <4>4. u[j] = f[a]
        BY <1>2, <4>1, <4>3
      <4>5. j + 1 \in h[a + 1]
        BY <2>3, <4>1, <4>3
      <4> QED  BY <1>5, <2>2, <3>1, <4>2, <4>3, <4>4, <4>5
    <3> QED  BY <3>2, <3>3, <3>4
  <2> QED  BY <2>1, <2>4 DEF R
<1> HIDE DEF R
<1>9. \A i \in 1 .. n + 1 : i \in R
  <2>1. n + 1 \in Nat
    OBVIOUS
  <2> QED  BY <1>7, <1>8, <2>1, Downwards
<1>10. 1 \in h[at[1]]
  <2>1. 1 \in 1 .. n + 1
    OBVIOUS
  <2> QED  BY <1>9, <2>1 DEF R
<1> QED  BY <1>4, <1>6, <1>10

LdapFinds(op, x, v) ==
    /\ op \in {"=", "~~"} /\ Q!Compare(op, v, x)
    /\ op = "~~" => Q!ToSet(x) \intersect {"_", "\\"} = {}

\* What equality and LIKE find in a text, the filter finds there.
LEMMA FilterFinds ==
    ASSUME NEW C, NEW x \in Seq(C), NEW v \in Seq(C), NEW op, LdapFinds(op, x, v)
    PROVE  Q!Filtered(Q!Lower(Q!FilterValue(op, x)), Q!Lower(v))
<1> PICK n \in Nat : n = Len(x)
  OBVIOUS
<1> PICK m \in Nat : m = Len(v)
  OBVIOUS
<1>1. CASE op = "="
  <2>1. v = x
    BY <1>1 DEF LdapFinds, Q!Compare
  <2> DEFINE g == [i \in 1 .. n + 1 |-> {i}]
  <2>2. ASSUME NEW i \in 1 .. n + 1, NEW j \in g[i]
        PROVE  /\ j \in 1 .. n + 1
               /\ i > n => j > n
               /\ i <= n => j <= n /\ x[j] = x[i] /\ j + 1 \in g[i + 1]
    <3>1. j = i
      OBVIOUS
    <3>2. i <= n => i + 1 \in 1 .. n + 1
      OBVIOUS
    <3>3. i <= n => i + 1 \in g[i + 1]
      BY <3>2
    <3> QED  BY <3>1, <3>3
  <2>3. 1 \in g[1]
    <3>1. 1 \in 1 .. n + 1
      OBVIOUS
    <3> QED  BY <3>1
  <2> HIDE DEF g
  <2>4. Walk(x, v, op = "~~", g)
    BY <1>1, <2>1, <2>2 DEF Walk
  <2> QED  BY <2>3, <2>4, WalkIsFiltered
<1>2. CASE op = "~~"
  <2>1. Q!Like(x, v, TRUE)
    BY <1>2 DEF LdapFinds, Q!Compare
  <2>2. \A i \in 1 .. n : x[i] # "_" /\ x[i] # "\\"
    <3>1. DOMAIN x = 1 .. n
      OBVIOUS
    <3> QED  BY <1>2, <3>1 DEF LdapFinds, Q!ToSet
  <2>3. Plain(x)
    <3>1. DOMAIN x = 1 .. n
      OBVIOUS
    <3> QED  BY <2>2, <3>1 DEF Plain
  <2>4. PICK g : PlainLike(x, v, g) /\ (Q!Like(x, v, TRUE) <=> 1 \in g[1])
    BY <2>3, LikeOfPlain
  <2>5. ASSUME NEW i \in 1 .. n + 1, NEW j \in g[i]
        PROVE  /\ j \in 1 .. m + 1
               /\ i > n => j > m
               /\ i <= n /\ x[i] = "%" => \E k \in j .. m + 1 : k \in g[i + 1]
               /\ i <= n /\ x[i] # "%" => j <= m /\ v[j] = x[i] /\ j + 1 \in g[i + 1]
    <3>1. i <= n => x[i] # "_"
      <4>1. i <= n => i \in 1 .. n
        OBVIOUS
      <4> QED  BY <2>2, <4>1
    <3>2. /\ j \in 1 .. m + 1
          /\ i > n => j > m
          /\ i <= n /\ x[i] = "%" => \E k \in j .. m + 1 : k \in g[i + 1]
          /\ i <= n /\ x[i] # "%" => j <= m /\ (x[i] = "_" \/ v[j] = x[i]) /\ j + 1 \in g[i + 1]
      BY <2>4 DEF PlainLike
    <3> QED  BY <3>1, <3>2
  <2>6. Walk(x, v, op = "~~", g)
    BY <1>2, <2>5 DEF Walk
  <2> QED  BY <2>1, <2>4, <2>6, WalkIsFiltered
<1> QED  BY <1>1, <1>2 DEF LdapFinds

LEMMA FirstOf ==
    ASSUME NEW S, NEW s \in Seq(S), s # << >>
    PROVE  1 \in DOMAIN s /\ s[1] \in S
<1>1. Len(s) # 0
  BY EmptySeq
<1> QED  BY <1>1

\* The filter of LdapFdw.execute finds every entry whose column the qual
\* accepts (RemoteQuals.LdapKeepsRows), for values and attributes of any
\* length, whatever characters of the filter language they hold.
THEOREM LdapKeepsAllRows ==
    ASSUME NEW C, NEW q, q.value \in Seq(Seq(C)), q.value # << >>, NEW attribute \in Seq(Seq(C))
    PROVE  Q!LdapKeepsRows(q, attribute)
<1> PICK op : op = q.operator[1]
  OBVIOUS
<1>1. q.value[1] \in Seq(C)
  BY FirstOf
<1> PICK x \in Seq(C) : x = q.value[1]
  BY <1>1
<1>2. ASSUME Len(q.operator) = 1, op = "~~" => Q!ToSet(x) \intersect {"_", "\\"} = {},
             Q!Accepts(q, Q!LdapColumn(attribute)), op \in {"=", "~~"}
      PROVE  \E i \in DOMAIN attribute :
                Q!Filtered(Q!Lower(Q!FilterValue(op, x)), Q!Lower(attribute[i]))
  <2>1. Q!Compare(op, Q!LdapColumn(attribute), x)
    <3>1. Q!list_any_or_all(q) = "None" /\ op \notin Q!ArrayOps
      BY <1>2 DEF Q!list_any_or_all, Q!ArrayOps
    <3> QED  BY <1>2, <3>1 DEF Q!Accepts
  <2>2. attribute # << >> /\ Q!LdapColumn(attribute) = attribute[1]
    <3>1. Q!LdapColumn(attribute) # Q!NULL
      BY <2>1 DEF Q!Compare
    <3> QED  BY <3>1 DEF Q!LdapColumn
  <2>3. 1 \in DOMAIN attribute /\ attribute[1] \in Seq(C)
    BY <2>2, FirstOf
  <2>4. Q!Filtered(Q!Lower(Q!FilterValue(op, x)), Q!Lower(attribute[1]))
    <3>1. LdapFinds(op, x, attribute[1])
      BY <1>2, <2>1, <2>2 DEF LdapFinds
    <3> QED  BY <2>3, <3>1, FilterFinds
  <2> QED  BY <2>3, <2>4
<1> QED  BY <1>2 DEF Q!LdapKeepsRows, Q!LdapReturns

-----------------------------------------------------------------------------
(* The search criteria of ImapFdw.                                         *)

\* y is in p, from place a + 1 on, after nothing or after one wildcard.
Inside(y, p, a) ==
    /\ a \in {0, 1} /\ Len(y) # 0 /\ a + Len(y) <= Len(p)
    /\ \A i \in 1 .. Len(y) : p[a + i] = y[i] /\ y[i] \notin Q!Wildcards
    /\ a = 1 => p[1] \in Q!Wildcards

Holds(t, y, k) == k \in 0 .. Len(t) - Len(y) /\ \A i \in 1 .. Len(y) : t[k + i] = y[i]

\* What is like a pattern contains the text in it.
LEMMA LikeHolds ==
    ASSUME NEW C, NEW p \in Seq(C), NEW t \in Seq(C), NEW y \in Seq(C), NEW a,
           Plain(p), Inside(y, p, a), Q!Like(p, t, TRUE)
    PROVE  \E k : Holds(t, y, k)
<1>1. PICK g : PlainLike(p, t, g) /\ (Q!Like(p, t, TRUE) <=> 1 \in g[1])
  BY LikeOfPlain
<1> PICK n \in Nat : n = Len(p)
  OBVIOUS
<1> PICK m \in Nat : m = Len(t)
  OBVIOUS
<1> PICK l \in Nat : l = Len(y)
  OBVIOUS
<1>2. /\ a \in {0, 1} /\ l # 0 /\ a + l <= n
      /\ \A i \in 1 .. l : p[a + i] = y[i] /\ y[i] \notin Q!Wildcards
      /\ a = 1 => p[1] \in Q!Wildcards
  BY DEF Inside
<1>3. \A i \in 1 .. n + 1 : \A j \in g[i] :
         /\ j \in 1 .. m + 1
         /\ i <= n /\ p[i] = "%" => \E k \in j .. m + 1 : k \in g[i + 1]
         /\ i <= n /\ p[i] # "%" => j <= m /\ (p[i] = "_" \/ t[j] = p[i]) /\ j + 1 \in g[i + 1]
  BY <1>1 DEF PlainLike
<1>4. PICK s : s \in g[a + 1]
  <2>1. 1 \in g[1] /\ 1 \in 1 .. n + 1 /\ 1 <= n
    <3>1. 1 \in g[1]
      BY <1>1
    <3>2. 1 <= n
      BY <1>2
    <3> QED  BY <3>1, <3>2
  <2>2. \E k : k \in g[1 + 1]
    BY <1>3, <2>1
  <2>3. a = 0 => a + 1 = 1
    OBVIOUS
  <2>4. a = 1 => a + 1 = 1 + 1
    OBVIOUS
  <2> QED  BY <1>2, <2>1, <2>2, <2>3, <2>4
<1>5. a + 1 \in 1 .. n + 1 /\ s \in 1 .. m + 1
  <2>1. a + 1 \in 1 .. n + 1
    BY <1>2
  <2> QED  BY <1>3, <1>4, <2>1
<1>6. ASSUME NEW i \in 1 .. l, s + (i - 1) \in g[a + i]
      PROVE  s + (i - 1) <= m /\ t[s + (i - 1)] = y[i] /\ s + i \in g[a + (i + 1)]
  <2>1. a + i \in 1 .. n + 1 /\ a + i <= n /\ (a + i) + 1 = a + (i + 1) /\ (s + (i - 1)) + 1 = s + i
    BY <1>2, <1>5
  <2>2. p[a + i] # "%" /\ p[a + i] # "_" /\ p[a + i] = y[i]
    BY <1>2 DEF Q!Wildcards
  <2>3. s + (i - 1) <= m /\ t[s + (i - 1)] = p[a + i] /\ (s + (i - 1)) + 1 \in g[(a + i) + 1]
    BY <1>3, <1>6, <2>1, <2>2
  <2> QED  BY <2>1, <2>2, <2>3
<1> DEFINE R == {i \in 1 .. l : s + (i - 1) \in g[a + i]}
<1>7. 1 \in R
  <2>1. 1 \in 1 .. l /\ s + (1 - 1) = s
    BY <1>2, <1>5
  <2> QED  BY <1>4, <2>1
<1>8. ASSUME NEW i \in 2 .. l, i - 1 \in R PROVE i \in R
  <2>1. i \in 1 .. l /\ i - 1 \in 1 .. l /\ (i - 1) + 1 = i
    OBVIOUS
  <2>2. s + ((i - 1) - 1) \in g[a + (i - 1)]
    BY <1>8
  <2>3. s + (i - 1) \in g[a + ((i - 1) + 1)]
    BY <1>6, <2>1, <2>2
  <2> QED  BY <2>1, <2>3
<1> HIDE DEF R
<1>9. \A i \in 1 .. l : i \in R
  BY <1>7, <1>8, Upwards
<1>10. \A i \in 1 .. l : s + (i - 1) <= m /\ t[s + (i - 1)] = y[i]
  BY <1>6, <1>9 DEF R
<1>11. s - 1 \in 0 .. m - l
  <2>1. l \in 1 .. l
    BY <1>2
  <2>2. s + (l - 1) <= m
    BY <1>10, <2>1
  <2> QED  BY <1>5, <2>2
<1>12. \A i \in 1 .. l : t[(s - 1) + i] = y[i]
  <2> TAKE i \in 1 .. l
  <2>1. (s - 1) + i = s + (i - 1)
    BY <1>5
  <2> QED  BY <1>10, <2>1
<1>13. Holds(t, y, s - 1)
  BY <1>11, <1>12 DEF Holds
<1> QED  BY <1>13

LEMMA HoldsContains ==
    ASSUME NEW C, NEW t \in Seq(C), NEW y \in Seq(C), NEW k, Holds(t, y, k)
    PROVE  Q!ContainsText(t, y)
<1> PICK m \in Nat : m = Len(t)
  OBVIOUS
<1> PICK l \in Nat : l = Len(y)
  OBVIOUS
<1>1. k \in 0 .. m - l /\ \A i \in 1 .. l : t[k + i] = y[i]
  BY DEF Holds
<1>2. k \in Nat /\ k + l <= m
  BY <1>1
<1>3. SubSeq(t, k + 1, k + l) = [i \in 1 .. l |-> t[k + i]]
  <2>1. (k + l) - (k + 1) + 1 = l
    BY <1>2
  <2>2. \A i \in 1 .. l : i + (k + 1) - 1 = k + i
    BY <1>2
  <2> QED  BY <1>2, <2>1, <2>2
<1>4. y = [i \in 1 .. l |-> y[i]]
  BY SeqDef
<1>5. SubSeq(t, k + 1, k + l) = y
  BY <1>1, <1>3, <1>4
<1> QED  BY <1>1, <1>5 DEF Q!ContainsText

LEMMA LoweredHolds ==
    ASSUME NEW C, NEW t \in Seq(C), NEW y \in Seq(C), NEW k, Holds(t, y, k)
    PROVE  Holds(Q!Lower(t), Q!Lower(y), k)
<1> PICK m \in Nat : m = Len(t)
  OBVIOUS
<1> PICK l \in Nat : l = Len(y)
  OBVIOUS
<1>1. k \in 0 .. m - l /\ \A i \in 1 .. l : t[k + i] = y[i]
  BY DEF Holds
<1>2. DOMAIN t = 1 .. m /\ DOMAIN y = 1 .. l
  OBVIOUS
<1>3. Len(Q!Lower(t)) = m /\ Len(Q!Lower(y)) = l
  BY Lowered
<1>4. /\ \A i \in 1 .. m : Q!Lower(t)[i] = IF t[i] = "A" THEN "a" ELSE t[i]
      /\ \A i \in 1 .. l : Q!Lower(y)[i] = IF y[i] = "A" THEN "a" ELSE y[i]
  BY <1>2, Lowered
<1>5. \A i \in 1 .. l : k + i \in 1 .. m
  BY <1>1
<1>6. \A i \in 1 .. l : Q!Lower(t)[k + i] = Q!Lower(y)[i]
  BY <1>1, <1>4, <1>5
<1> QED  BY <1>1, <1>3, <1>6 DEF Holds

LEMMA LoweredInside ==
    ASSUME NEW C, NEW p \in Seq(C), NEW y \in Seq(C), NEW a, Inside(y, p, a)
    PROVE  Inside(Q!Lower(y), Q!Lower(p), a)
<1> PICK n \in Nat : n = Len(p)
  OBVIOUS
<1> PICK l \in Nat : l = Len(y)
  OBVIOUS
<1>1. /\ a \in {0, 1} /\ l # 0 /\ a + l <= n
      /\ \A i \in 1 .. l : p[a + i] = y[i] /\ y[i] \notin Q!Wildcards
      /\ a = 1 => p[1] \in Q!Wildcards
  BY DEF Inside
<1>2. DOMAIN p = 1 .. n /\ DOMAIN y = 1 .. l
  OBVIOUS
<1>3. Len(Q!Lower(p)) = n /\ Len(Q!Lower(y)) = l
  BY Lowered
<1>4. /\ \A i \in 1 .. n : Q!Lower(p)[i] = IF p[i] = "A" THEN "a" ELSE p[i]
      /\ \A i \in 1 .. l : Q!Lower(y)[i] = IF y[i] = "A" THEN "a" ELSE y[i]
  BY <1>2, Lowered
<1>5. (\A i \in 1 .. l : a + i \in 1 .. n) /\ 1 \in 1 .. n
  BY <1>1
<1>6. \A i \in 1 .. l : Q!Lower(p)[a + i] = Q!Lower(y)[i] /\ Q!Lower(y)[i] \notin Q!Wildcards
  <2> TAKE i \in 1 .. l
  <2>1. Q!Lower(p)[a + i] = (IF p[a + i] = "A" THEN "a" ELSE p[a + i]) /\ Q!Lower(y)[i] = (IF y[i] = "A" THEN "a" ELSE y[i])
    BY <1>4, <1>5
  <2>2. p[a + i] = y[i] /\ y[i] \notin Q!Wildcards
    BY <1>1
  <2> QED  BY <2>1, <2>2 DEF Q!Wildcards
<1>7. a = 1 => Q!Lower(p)[1] \in Q!Wildcards
  <2>1. Q!Lower(p)[1] = IF p[1] = "A" THEN "a" ELSE p[1]
    BY <1>4, <1>5
  <2> QED  BY <1>1, <2>1 DEF Q!Wildcards
<1> QED  BY <1>1, <1>3, <1>6, <1>7 DEF Inside

\* What _extract_condition leaves of a pattern without wildcards in the middle.
LEMMA TrimmedInside ==
    ASSUME NEW C, NEW x \in Seq(C), NEW y, y = Q!Trimmed(x), y # << >>,
           y[1] \notin Q!Wildcards, Plain(x), ~Q!HasWildcard(y)
    PROVE  y \in Seq(C) /\ Plain(y) /\ \E a : Inside(y, x, a)
<1> PICK n \in Nat : n = Len(x)
  OBVIOUS
<1> PICK z : z = IF x # << >> /\ x[1] \in Q!Wildcards THEN Tail(x) ELSE x
  OBVIOUS
<1>1. PICK a \in {0, 1} : /\ z \in Seq(C) /\ Len(z) + a = n /\ \A i \in 1 .. Len(z) : z[i] = x[a + i]
                          /\ a = 1 => x[1] \in Q!Wildcards
  <2>1. CASE x # << >> /\ x[1] \in Q!Wildcards
    <3>1. z = Tail(x)
      BY <2>1
    <3>2. Tail(x) \in Seq(C) /\ Len(Tail(x)) = n - 1 /\ \A i \in 1 .. n - 1 : Tail(x)[i] = x[i + 1]
      <4>1. /\ Tail(x) \in Seq(C) /\ Len(Tail(x)) = Len(x) - 1
            /\ \A i \in 1 .. Len(Tail(x)) : Tail(x)[i] = x[i + 1]
        BY <2>1, HeadTailProperties
      <4> QED  BY <4>1
    <3>3. n # 0
      BY <2>1, EmptySeq
    <3>4. \A i \in 1 .. n - 1 : i + 1 = 1 + i
      OBVIOUS
    <3>5. /\ z \in Seq(C) /\ Len(z) + 1 = n /\ \A i \in 1 .. Len(z) : z[i] = x[1 + i]
          /\ 1 = 1 => x[1] \in Q!Wildcards
      BY <2>1, <3>1, <3>2, <3>3, <3>4
    <3> QED  BY <3>5
  <2>2. CASE ~(x # << >> /\ x[1] \in Q!Wildcards)
    <3>1. z = x
      BY <2>2
    <3>2. \A i \in 1 .. Len(z) : 0 + i = i
      OBVIOUS
    <3>3. /\ z \in Seq(C) /\ Len(z) + 0 = n /\ \A i \in 1 .. Len(z) : z[i] = x[0 + i]
      BY <3>1, <3>2
    <3>4. 0 # 1
      OBVIOUS
    <3> QED  BY <3>3, <3>4
  <2> QED  BY <2>1, <2>2
<1>2. y = IF z # << >> /\ Q!Last(z) \in Q!Wildcards THEN Q!Front(z) ELSE z
  BY DEF Q!Trimmed
<1>2a. z \in Seq(C)
  BY <1>1
<1> PICK k \in Nat : k = Len(z)
  BY <1>2a
<1>3. y \in Seq(C) /\ Len(y) <= k /\ \A i \in 1 .. Len(y) : y[i] = z[i]
  <2>1. CASE y = z
    BY <1>1, <2>1
  <2>2. CASE y = Q!Front(z) /\ z # << >>
    <3>1. k # 0
      BY <1>1, <2>2, EmptySeq
    <3>2. y = SubSeq(z, 1, k - 1)
      BY <2>2 DEF Q!Front
    <3>3. y \in Seq(C) /\ Len(y) = k - 1 /\ \A i \in 1 .. k - 1 : y[i] = z[i]
      BY <1>1, <3>1, <3>2
    <3> QED  BY <3>3
  <2> QED  BY <1>2, <2>1, <2>2
<1> PICK l \in Nat : l = Len(y)
  BY <1>3
<1>4. l # 0
  BY <1>3, EmptySeq
<1>5. \A i \in 1 .. l : x[a + i] = y[i] /\ a + i \in 1 .. n
  <2> TAKE i \in 1 .. l
  <2>1. i \in 1 .. k
    BY <1>3
  <2> QED  BY <1>1, <1>3, <2>1
<1>6. Plain(y)
  <2>1. DOMAIN y = 1 .. l /\ DOMAIN x = 1 .. n
    BY <1>3
  <2> QED  BY <1>5, <2>1 DEF Plain
<1>7. \A i \in 1 .. l : y[i] \notin Q!Wildcards
  <2> TAKE i \in 1 .. l
  <2>1. CASE i = 1
    BY <2>1
  <2>2. CASE i # 1
    <3>1. i \in 2 .. l /\ i - 1 \in 1 .. l
      BY <2>2
    <3>2. y[i - 1] # "\\"
      <4>1. i - 1 \in DOMAIN y
        BY <1>3, <3>1
      <4> QED  BY <1>6, <4>1 DEF Plain
    <3> QED  BY <3>1, <3>2 DEF Q!HasWildcard
  <2> QED  BY <2>1, <2>2
<1>8. a + l <= n
  BY <1>1, <1>3
<1>9. Inside(y, x, a)
  BY <1>1, <1>4, <1>5, <1>7, <1>8 DEF Inside
<1> QED  BY <1>3, <1>6, <1>9

Singletons(x) == [i \in 1 .. Len(x) |-> <<x[i]>>]

LEMMA SingletonsFlat ==
    ASSUME NEW C, NEW x \in Seq(C)
    PROVE  FlattenSeq(Singletons(x)) = x
<1> PICK n \in Nat : n = Len(x)
  OBVIOUS
<1> PICK seqs : seqs = [i \in 1 .. n |-> <<x[i]>>]
  OBVIOUS
<1>1. DOMAIN x = 1 .. n /\ \A i \in 1 .. n : x[i] \in C
  BY SeqDef
<1> PICK flat : flat = FlattenSeq(seqs)
  OBVIOUS
<1>2. flat = FlattenSeq(Singletons(x))
  BY DEF Singletons
<1>3. seqs \in Seq(Seq(C)) /\ Len(seqs) = n
  <2> PICK U : U = Seq(C)
    OBVIOUS
  <2>1. \A i \in 1 .. n : <<x[i]>> \in U
    BY <1>1
  <2>2. seqs \in [1 .. n -> U]
    BY <2>1
  <2>3. seqs \in Seq(U) /\ Len(seqs) = n
    BY <2>2, SeqDef
  <2> QED  BY <2>3
<1>4. flat \in Seq(C)
  BY <1>3, Flattened
<1>5. PICK at : PartsAt(n, seqs, flat, at)
  BY <1>3, PartsOfFlat
<1>6. \A i \in 1 .. n : seqs[i] = <<x[i]>>
  OBVIOUS
<1>7. \A i \in 1 .. n : Len(seqs[i]) = 1 /\ 1 \in 1 .. Len(seqs[i]) /\ seqs[i][1] = x[i]
  <2> TAKE i \in 1 .. n
  <2> PICK c : c = x[i]
    OBVIOUS
  <2>1. seqs[i] = <<c>>
    BY <1>6
  <2> QED  BY <2>1
<1>8. \A i \in 1 .. n : at[i + 1] = at[i] + 1 /\ flat[at[i] + 1 - 1] = x[i]
  BY <1>5, <1>7 DEF PartsAt
<1> DEFINE R == {i \in 1 .. n + 1 : at[i] = i}
<1>9. 1 \in R
  <2>1. at[1] = 1
    BY <1>5 DEF PartsAt
  <2>2. 1 \in 1 .. n + 1
    OBVIOUS
  <2> QED  BY <2>1, <2>2
<1>10. ASSUME NEW i \in 2 .. n + 1, i - 1 \in R PROVE i \in R
  <2>1. i - 1 \in 1 .. n /\ i \in 1 .. n + 1 /\ (i - 1) + 1 = i
    OBVIOUS
  <2>2. at[i - 1] = i - 1
    BY <1>10
  <2>3. at[(i - 1) + 1] = at[i - 1] + 1
    BY <1>8, <2>1
  <2> QED  BY <2>1, <2>2, <2>3
<1> HIDE DEF R
<1>11. \A i \in 1 .. n + 1 : i \in R
  <2>1. n + 1 \in Nat
    OBVIOUS
  <2> QED  BY <1>9, <1>10, <2>1, Upwards
<1>12. \A i \in 1 .. n + 1 : at[i] = i
  BY <1>11 DEF R
<1>13. \A i \in 1 .. n : flat[i] = x[i]
  <2> TAKE i \in 1 .. n
  <2>1. i \in 1 .. n + 1 /\ i + 1 - 1 = i
    OBVIOUS
  <2>2. at[i] = i
    BY <1>12, <2>1
  <2>3. flat[at[i] + 1 - 1] = x[i]
    BY <1>8
  <2> QED  BY <2>1, <2>2, <2>3
<1>14. Len(flat) = n
  <2>1. at[n + 1] = Len(flat) + 1
    BY <1>5 DEF PartsAt
  <2>2. at[n + 1] = n + 1
    <3>1. n + 1 \in 1 .. n + 1
      OBVIOUS
    <3> QED  BY <1>12, <3>1
  <2>3. Len(flat) \in Nat
    BY <1>4
  <2> QED  BY <2>1, <2>2, <2>3
<1>15. flat = [i \in 1 .. n |-> flat[i]]
  <2>1. flat \in [1 .. Len(flat) -> C]
    BY <1>4, LenProperties
  <2> QED  BY <1>14, <2>1
<1>16. x = [i \in 1 .. n |-> x[i]]
  BY <1>1
<1> QED  BY <1>2, <1>13, <1>15, <1>16

LEMMA NothingEscaped ==
    ASSUME NEW C, NEW x \in Seq(C), Plain(x)
    PROVE  Q!Unescaped(x) = x
<1>1. Q!Unescaped(x) = FlattenSeq([i \in DOMAIN x |->
          IF x[i] = "\\" /\ i < Len(x) /\ x[i + 1] \in Q!Wildcards THEN << >> ELSE <<x[i]>>])
  BY DEF Q!Unescaped, Q!FlattenSeq, FlattenSeq
<1>2. DOMAIN x = 1 .. Len(x) /\ \A i \in DOMAIN x : x[i] # "\\"
  BY DEF Plain
<1>3. Singletons(x) = [i \in DOMAIN x |->
          IF x[i] = "\\" /\ i < Len(x) /\ x[i + 1] \in Q!Wildcards THEN << >> ELSE <<x[i]>>]
  BY <1>2 DEF Singletons
<1> QED  BY <1>1, <1>3, SingletonsFlat

\* A text that make_condition can put in quotes as it is, and the server's
\* reading of it then.
Sendable(x) == \A i \in DOMAIN x : x[i] \notin Q!QuotedSpecials

InItsQuotes(y, s, l) ==
    /\ Len(s) = l + 2 /\ s[1] = Q!Quote /\ s[l + 2] = Q!Quote
    /\ \A i \in 1 .. l : s[i + 1] = y[i]

LEMMA Quoted ==
    ASSUME NEW C, NEW y \in Seq(C)
    PROVE  InItsQuotes(y, Q!InQuotes(y), Len(y))
<1> PICK c : c = Q!Quote
  OBVIOUS
<1> PICK D : D = C \union {c}
  OBVIOUS
<1> PICK s : s = <<c>> \o y \o <<c>>
  OBVIOUS
<1>1. <<c>> \in Seq(D) /\ y \in Seq(D) /\ Len(<<c>>) = 1 /\ <<c>>[1] = c
  OBVIOUS
<1>2. Len(s) = Len(y) + 2 /\ s[1] = c /\ s[Len(y) + 2] = c /\ \A i \in 1 .. Len(y) : s[i + 1] = y[i]
  BY <1>1
<1>3. s = Q!InQuotes(y)
  BY DEF Q!InQuotes
<1> QED  BY <1>2, <1>3 DEF InItsQuotes

LEMMA QuotedIsRead ==
    ASSUME NEW C, NEW y \in Seq(C), Sendable(y)
    PROVE  Q!IsString(Q!InQuotes(y)) /\ Q!StringText(Q!InQuotes(y)) = y
<1> PICK l \in Nat : l = Len(y)
  OBVIOUS
<1> PICK s : s = Q!InQuotes(y)
  OBVIOUS
<1>1. Len(s) = l + 2 /\ s[1] = Q!Quote /\ s[l + 2] = Q!Quote /\ \A i \in 1 .. l : s[i + 1] = y[i]
  BY Quoted DEF InItsQuotes
<1>2. \A i \in 1 .. l : s[i + 1] \notin {Q!Quote, "\\"}
  <2>1. DOMAIN y = 1 .. l
    OBVIOUS
  <2> QED  BY <1>1, <2>1 DEF Sendable, Q!QuotedSpecials
<1>3. ASSUME NEW j \in 2 .. l + 2 PROVE (j # l + 2 => s[j] # "\\") /\ (s[j] = Q!Quote <=> j = l + 2)
  <2>1. CASE j = l + 2
    BY <1>1, <2>1
  <2>2. CASE j # l + 2
    <3>1. j - 1 \in 1 .. l /\ (j - 1) + 1 = j
      BY <2>2
    <3>2. s[(j - 1) + 1] \notin {Q!Quote, "\\"}
      BY <1>2, <3>1
    <3> QED  BY <2>2, <3>1, <3>2
  <2> QED  BY <2>1, <2>2
<1>4. ASSUME NEW i \in 2 .. l + 2 PROVE ~Q!Escaped(s, i)
  <2> SUFFICES ASSUME NEW k \in 2 .. i - 1, \A j \in k .. i - 1 : s[j] = "\\" PROVE FALSE
    BY DEF Q!Escaped
  <2>1. k \in k .. i - 1 /\ k \in 2 .. l + 2 /\ k # l + 2
    OBVIOUS
  <2> QED  BY <1>3, <2>1
<1>5. Q!IsString(s)
  BY <1>1, <1>3, <1>4 DEF Q!IsString
<1>6. Q!StringText(s) = FlattenSeq([i \in 1 .. Len(s) - 2 |->
          IF s[i + 1] = "\\" /\ ~Q!Escaped(s, i + 1) THEN << >> ELSE <<s[i + 1]>>])
  BY DEF Q!StringText, Q!FlattenSeq, FlattenSeq
<1>7. Singletons(y) = [i \in 1 .. Len(s) - 2 |->
          IF s[i + 1] = "\\" /\ ~Q!Escaped(s, i + 1) THEN << >> ELSE <<s[i + 1]>>]
  <2>1. Len(s) - 2 = l
    BY <1>1
  <2>2. \A i \in 1 .. l : s[i + 1] # "\\" /\ s[i + 1] = y[i]
    BY <1>1, <1>2
  <2> QED  BY <2>1, <2>2 DEF Singletons
<1> QED  BY <1>5, <1>6, <1>7, SingletonsFlat

\* A text that ImapFdw searches for.
Searched(op, x) ==
    /\ op \in {"=", "~~", "~~*"} /\ x # Q!NULL /\ x # << >> /\ Plain(x) /\ Sendable(x)
    /\ op \in Q!LikeOps => Q!Trimmed(x) # << >> /\ Q!Trimmed(x)[1] \notin Q!Wildcards

Text(op, x) == IF op \in Q!LikeOps THEN Q!Trimmed(x) ELSE x
Untranslated(op, x) == op \in Q!LikeOps /\ Q!HasWildcard(Q!Trimmed(x))
Found(v, y) == Q!ContainsText(Q!Lower(v), Q!Lower(y))
NoNull(C) == "NULL" \notin C

LEMMA SearchFinds ==
    ASSUME NEW C, NEW x \in Seq(C), NEW v \in Seq(C), NEW op, Searched(op, x), ~Untranslated(op, x),
           Q!Compare(op, v, x)
    PROVE  Found(v, Text(op, x))
<1> PICK y : y = Text(op, x)
  OBVIOUS
<1>1. CASE op = "="
  <2>1. v = x /\ y = x
    BY <1>1 DEF Q!Compare, Text, Q!LikeOps
  <2> PICK n \in Nat : n = Len(x)
    OBVIOUS
  <2>2. 0 \in 0 .. n - n /\ \A i \in 1 .. n : 0 + i = i
    OBVIOUS
  <2>3. Holds(x, x, 0)
    BY <2>2 DEF Holds
  <2>4. Holds(Q!Lower(x), Q!Lower(x), 0)
    BY <2>3, LoweredHolds
  <2>5. Q!Lower(x) \in Seq(C \union {"a"})
    BY Lowered
  <2>6. Q!ContainsText(Q!Lower(x), Q!Lower(x))
    BY <2>4, <2>5, HoldsContains
  <2> QED  BY <2>1, <2>6 DEF Found
<1>2. CASE op \in {"~~", "~~*"}
  <2>1. y = Q!Trimmed(x) /\ y # << >> /\ y[1] \notin Q!Wildcards /\ ~Q!HasWildcard(y) /\ Plain(x)
    BY <1>2 DEF Text, Searched, Untranslated, Q!LikeOps
  <2>2. y \in Seq(C) /\ Plain(y) /\ \E a : Inside(y, x, a)
    BY <2>1, TrimmedInside
  <2> PICK a : Inside(y, x, a)
    BY <2>2
  <2> PICK D : D = C \union {"a"}
    OBVIOUS
  <2>3. Q!Lower(x) \in Seq(D) /\ Q!Lower(y) \in Seq(D) /\ Q!Lower(v) \in Seq(D)
    BY <2>2, Lowered
  <2>4. \E k : Holds(Q!Lower(v), Q!Lower(y), k)
    <3>1. CASE op = "~~"
      <4>1. Q!Like(x, v, TRUE)
        BY <3>1 DEF Q!Compare
      <4>2. PICK k : Holds(v, y, k)
        BY <2>1, <2>2, <4>1, LikeHolds
      <4> QED  BY <2>2, <4>2, LoweredHolds
    <3>2. CASE op = "~~*"
      <4>1. Q!Like(Q!Lower(x), Q!Lower(v), TRUE)
        BY <3>2 DEF Q!Compare
      <4>2. Inside(Q!Lower(y), Q!Lower(x), a)
        BY <2>2, LoweredInside
      <4>3. Plain(Q!Lower(x))
        BY <2>1, Lowered
      <4> QED  BY <2>3, <4>1, <4>2, <4>3, LikeHolds
    <3> QED  BY <1>2, <3>1, <3>2
  <2>5. Q!ContainsText(Q!Lower(v), Q!Lower(y))
    BY <2>3, <2>4, HoldsContains
  <2> QED  BY <2>5 DEF Found
<1> QED  BY <1>1, <1>2 DEF Searched

\* It is sent as it is.
LEMMA TextSendable ==
    ASSUME NEW C, NEW x \in Seq(C), NEW op, Searched(op, x), ~Untranslated(op, x)
    PROVE  Text(op, x) \in Seq(C) /\ Sendable(Text(op, x))
<1> PICK y : y = Text(op, x)
  OBVIOUS
<1>1. Sendable(x)
  BY DEF Searched
<1>2. CASE op \notin Q!LikeOps
  BY <1>1, <1>2 DEF Text
<1>3. CASE op \in Q!LikeOps
  <2>1. y = Q!Trimmed(x) /\ y # << >> /\ y[1] \notin Q!Wildcards /\ ~Q!HasWildcard(y) /\ Plain(x)
    BY <1>3 DEF Text, Searched, Untranslated
  <2>2. y \in Seq(C) /\ \E a : Inside(y, x, a)
    BY <2>1, TrimmedInside
  <2> PICK a : Inside(y, x, a)
    BY <2>2
  <2>3. /\ DOMAIN y = 1 .. Len(y) /\ Len(y) \in Nat
        /\ DOMAIN x = 1 .. Len(x) /\ Len(x) \in Nat
    BY <2>2
  <2>4. \A i \in DOMAIN y : a + i \in DOMAIN x /\ x[a + i] = y[i]
    <3>1. a \in {0, 1} /\ a + Len(y) <= Len(x) /\ \A i \in 1 .. Len(y) : x[a + i] = y[i]
      BY DEF Inside
    <3>2. \A i \in 1 .. Len(y) : a + i \in 1 .. Len(x)
      BY <2>3, <3>1
    <3> QED  BY <2>3, <3>1, <3>2
  <2>5. Sendable(y)
    BY <1>1, <2>4 DEF Sendable
  <2> QED  BY <2>2, <2>5
<1> QED  BY <1>2, <1>3

\* What make_condition makes of it.
SearchKeys == {"TEXT", "FROM", "HEADER"}
SearchColumns == {"payload", "FROM", "Subject"}

ConditionIs(op, x, condition) ==
    /\ Untranslated(op, x) => condition = Q!Unmanaged
    /\ ~Untranslated(op, x) =>
          \E k \in SearchKeys : condition = Q!Criterion(k, FALSE, Text(op, x))

LEMMA ConditionOf ==
    ASSUME NEW C, NoNull(C), NEW x \in Seq(C), NEW op, Searched(op, x),
           NEW key \in SearchColumns, NEW value, value[1] = x
    PROVE  ConditionIs(op, x, Q!make_condition(key, op, value))
<1> PICK y : y = Text(op, x)
  OBVIOUS
<1> PICK c : c = Q!make_condition(key, op, value)
  OBVIOUS
<1>1. op \in Q!LikeOps \union Q!ArrayOps \union {"=", "<>"} /\ op \notin {"!~~", "<>", "!~~*"}
  BY DEF Searched, Q!LikeOps
<1>2. Untranslated(op, x) => c = Q!Unmanaged
  BY DEF Untranslated, Q!make_condition
<1>3. ASSUME ~Untranslated(op, x)
      PROVE  \E k \in SearchKeys : c = Q!Criterion(k, FALSE, y)
  <2>1. (IF op \in Q!LikeOps THEN Q!Unescaped(Q!Trimmed(x)) ELSE x) = y
    <3>1. CASE op \in Q!LikeOps
      <4>1. Q!Trimmed(x) \in Seq(C) /\ Plain(Q!Trimmed(x))
        BY <1>3, <3>1, TrimmedInside DEF Searched, Untranslated
      <4>2. Q!Unescaped(Q!Trimmed(x)) = Q!Trimmed(x)
        BY <4>1, NothingEscaped
      <4> QED  BY <3>1, <4>2 DEF Text
    <3>2. CASE op \notin Q!LikeOps
      BY <3>2 DEF Text
    <3> QED  BY <3>1, <3>2
  <2>2. y # << >> /\ y # Q!NULL
    <3>1. CASE op \in Q!LikeOps
      <4>1. y = Q!Trimmed(x) /\ y # << >> /\ y \in Seq(C)
        BY <1>3, <3>1, TrimmedInside DEF Searched, Untranslated, Text
      <4>2. y[1] \in C
        BY <4>1, FirstOf
      <4>3. Q!NULL[1] = "NULL"
        BY DEF Q!NULL
      <4> QED  BY <4>1, <4>2, <4>3 DEF NoNull
    <3>2. CASE op \notin Q!LikeOps
      BY <3>2 DEF Text, Searched
    <3> QED  BY <3>1, <3>2
  <2>3. c = CASE key = "flags" /\ op = "@>" -> {{Q!Flag(value[i]) : i \in DOMAIN value}}
              [] key = "flags" /\ op = "&&" -> {{Q!Flag(value[i])} : i \in DOMAIN value}
              [] key = "flags" /\ op \notin Q!ArrayOps -> Q!Criterion("invalid", FALSE, y)
              [] key = "payload" -> Q!Criterion("TEXT", FALSE, y)
              [] key = "FROM"    -> Q!Criterion("FROM", FALSE, y)
              [] key = "Subject" -> IF y \in {<< >>, Q!NULL} THEN Q!NoMatchPossible
                                    ELSE Q!Criterion("HEADER", FALSE, y)
    <3> DEFINE like == op \in Q!LikeOps
               text == IF like THEN Q!Unescaped(Q!Trimmed(value[1])) ELSE value[1]
               negated == op \in {"!~~", "<>", "!~~*"} /\ Q!Lower(text) \notin Q!STANDARD_FLAGS
               bad == \/ op \notin Q!LikeOps \union Q!ArrayOps \union {"=", "<>"}
                      \/ like /\ Q!HasWildcard(Q!Trimmed(value[1]))
               Choice(t, n) ==
                 CASE key = "flags" /\ op = "@>" -> {{Q!Flag(value[i]) : i \in DOMAIN value}}
                   [] key = "flags" /\ op = "&&" -> {{Q!Flag(value[i])} : i \in DOMAIN value}
                   [] key = "flags" /\ op \notin Q!ArrayOps -> Q!Criterion("invalid", n, t)
                   [] key = "payload" -> Q!Criterion("TEXT", n, t)
                   [] key = "FROM"    -> Q!Criterion("FROM", n, t)
                   [] key = "Subject" -> IF t \in {<< >>, Q!NULL} THEN Q!NoMatchPossible
                                         ELSE Q!Criterion("HEADER", FALSE, t)
    <3>1. c = IF bad THEN Q!Unmanaged ELSE Choice(text, negated)
      BY DEF Q!make_condition
    <3>2. ~bad
      BY <1>1, <1>3 DEF Untranslated
    <3>3. text = y
      BY <2>1
    <3>4. negated = FALSE
      BY <1>1
    <3> HIDE DEF bad, text, negated
    <3>5. c = Choice(y, FALSE)
      <4> HIDE DEF Choice
      <4> QED  BY <3>1, <3>2, <3>3, <3>4
    <3> QED  BY <3>5
  <2>4. CASE key = "payload"
    BY <2>3, <2>4 DEF SearchKeys
  <2>5. CASE key = "FROM"
    BY <2>3, <2>5 DEF SearchKeys
  <2>6. CASE key = "Subject"
    <3>1. c = Q!Criterion("HEADER", FALSE, y)
      BY <2>2, <2>3, <2>6
    <3> QED  BY <3>1 DEF SearchKeys
  <2> QED  BY <2>4, <2>5, <2>6 DEF SearchColumns
<1> QED  BY <1>2, <1>3 DEF ConditionIs

\* The server can read all of it.
Readable(condition) ==
    \A alternative \in condition : \A criterion \in alternative : ~Q!Refused(criterion)

LEMMA OneCriterion ==
    \A r, v :
        /\ ~Q!Refused(r) => Readable({{r}})
        /\ Q!Meets(r, v) => \E alternative \in {{r}} : \A criterion \in alternative : Q!Meets(criterion, v)
<1> TAKE r, v
<1>1. \A alternative \in {{r}} : \A criterion \in alternative : criterion = r
  OBVIOUS
<1>2. {r} \in {{r}}
  OBVIOUS
<1> QED  BY <1>1, <1>2 DEF Readable

\* It is read as it was meant, is met by what the search finds, and is never
\* NoMatchPossible.
LEMMA ConditionMet ==
    ASSUME NEW C, NEW k \in SearchKeys, NEW y \in Seq(C), Sendable(y), NEW v
    PROVE  /\ Readable(Q!Criterion(k, FALSE, y))
           /\ Found(v, y) => \E alternative \in Q!Criterion(k, FALSE, y) :
                                \A criterion \in alternative : Q!Meets(criterion, v)
<1> PICK t : t = Q!InQuotes(y)
  OBVIOUS
<1> PICK r : r = [key |-> k, not |-> FALSE, argument |-> t]
  OBVIOUS
<1>1. Q!Criterion(k, FALSE, y) = {{r}}
  BY DEF Q!Criterion
<1>2. r.key = k /\ r.not = FALSE /\ r.argument = t
  OBVIOUS
<1>3. Q!IsString(t) /\ Q!StringText(t) = y
  BY QuotedIsRead
<1>4. r.key \notin {"raise", "invalid", "flag", "KEYWORD"}
  BY <1>2 DEF SearchKeys
<1>5. Q!Meets(r, v) <=> r.not # Q!ContainsText(Q!Lower(v), Q!Lower(Q!StringText(r.argument)))
  BY <1>4 DEF Q!Meets
<1>6. Found(v, y) => Q!Meets(r, v)
  <2>1. Found(v, y) => Q!ContainsText(Q!Lower(v), Q!Lower(y)) = TRUE
    BY DEF Found, Q!ContainsText
  <2> QED  BY <1>2, <1>3, <1>5, <2>1
<1>7. Q!Refused(r) <=> ~Q!IsString(r.argument)
  BY <1>4 DEF Q!Refused
<1>8. ~Q!Refused(r)
  BY <1>2, <1>3, <1>7
<1>9. Readable({{r}})
  BY <1>8, OneCriterion
<1>10. Found(v, y) => \E alternative \in {{r}} : \A criterion \in alternative : Q!Meets(criterion, v)
  BY <1>6, OneCriterion
<1> QED  BY <1>1, <1>9, <1>10

LEMMA AlternativesDiffer == \A r, s : r # s => {{r}} # {{s}} /\ {{r}} # {{}}
<1> TAKE r, s
<1>1. r \in {r} /\ (r \in {s} => r = s)
  OBVIOUS
<1>2. {r} \in {{r}} /\ ({r} \in {{s}} => {r} = {s})
  OBVIOUS
<1>3. {r} \in {{}} => {r} = {}
  OBVIOUS
<1> QED  BY <1>1, <1>2, <1>3

LEMMA NotImpossible ==
    ASSUME NEW k \in SearchKeys, NEW y
    PROVE  Q!Criterion(k, FALSE, y) # Q!NoMatchPossible /\ Q!Criterion(k, FALSE, y) # Q!Unmanaged
<1> PICK r : r = [key |-> k, not |-> FALSE, argument |-> Q!InQuotes(y)]
  OBVIOUS
<1> PICK s : s = [key |-> "raise", not |-> FALSE, argument |-> Q!InQuotes(<< >>)]
  OBVIOUS
<1>1. Q!Criterion(k, FALSE, y) = {{r}}
  BY DEF Q!Criterion
<1>2. Q!NoMatchPossible = {{s}}
  BY DEF Q!NoMatchPossible, Q!Criterion
<1>3. r.key # s.key
  BY DEF SearchKeys
<1>4. r # s
  BY <1>3
<1>5. {{r}} # {{s}} /\ {{r}} # {{}}
  BY <1>4, AlternativesDiffer
<1> QED  BY <1>1, <1>2, <1>5 DEF Q!Unmanaged

LEMMA UnmanagedIs ==
    /\ Q!Unmanaged # Q!NoMatchPossible /\ Readable(Q!Unmanaged)
    /\ \A v : \E alternative \in Q!Unmanaged : \A criterion \in alternative : Q!Meets(criterion, v)
  BY DEF Q!Unmanaged, Q!NoMatchPossible, Q!Criterion, Readable

\* A qual on a mailbox: its value is a sequence of texts or NULLs, a single one
\* without ANY, ALL or an operator on arrays.
ImapColumns == SearchColumns \union {"flags"}
ImapQuals(C, q) ==
    /\ q.field_name \in ImapColumns
    /\ q.value \in Seq(Seq(C) \union {Q!NULL})
    /\ q.operator[1] \in Q!ArrayOps => Len(q.operator) = 1
    /\ Len(q.operator) = 1 /\ q.operator[1] \notin Q!ArrayOps => Len(q.value) = 1

IsFlagQual(q, v) ==
    /\ q.field_name = "flags" /\ q.operator[1] \in Q!ArrayOps /\ Len(q.operator) = 1
    /\ Q!NoneOf(Q!AtomSpecials, q)
    /\ \A i \in DOMAIN q.value : q.value[i] \notin Q!STANDARD_FLAGS
    /\ Q!CompareArrays(q.operator[1], v, q.value)

LEMMA OwnFlag ==
    ASSUME NEW C, NEW x \in Seq(C), x \notin Q!STANDARD_FLAGS, Q!ToSet(x) \intersect Q!AtomSpecials = {}, NEW v
    PROVE  ~Q!Refused(Q!Flag(x)) /\ (Q!Meets(Q!Flag(x), v) <=> x \in Q!ToSet(v))
<1>1. Q!Lower(x) \notin Q!STANDARD_FLAGS
  <2> SUFFICES ASSUME Q!Lower(x) \in Q!STANDARD_FLAGS PROVE FALSE
    OBVIOUS
  <2>1. PICK w \in {"seen", "flagged", "delete", "draft", "recent"} : Q!Lower(x) = <<w>>
    BY DEF Q!STANDARD_FLAGS
  <2>2. Len(Q!Lower(x)) = 1 /\ Q!Lower(x)[1] = w
    BY <2>1
  <2>3. Len(x) = 1
    BY <2>2, Lowered
  <2>4. 1 \in DOMAIN x
    BY <2>3
  <2>5. w = IF x[1] = "A" THEN "a" ELSE x[1]
    BY <2>2, <2>4, Lowered
  <2>6. x[1] = w
    BY <2>5
  <2>7. x = <<x[1]>>
    BY <2>3
  <2> QED  BY <2>1, <2>6, <2>7 DEF Q!STANDARD_FLAGS
<1>2. Q!Flag(x).key = "KEYWORD" /\ Q!Flag(x).argument = x
  BY <1>1 DEF Q!Flag
<1>3. Q!Meets(Q!Flag(x), v) <=> x \in Q!ToSet(v)
  BY <1>2 DEF Q!Meets
<1>4. Q!Refused(Q!Flag(x)) <=> Q!ToSet(x) \intersect Q!AtomSpecials # {}
  BY <1>2 DEF Q!Refused
<1> QED  BY <1>3, <1>4

LEMMA FlagsKept ==
    ASSUME NEW C, NEW q, q.value \in Seq(Seq(C)), NEW v, IsFlagQual(q, v)
    PROVE  Q!ImapReturns(q, v)
<1> PICK xs \in Seq(Seq(C)) : xs = q.value
  OBVIOUS
<1> PICK op : op = q.operator[1]
  OBVIOUS
<1> PICK c : c = Q!make_condition(q.field_name, op, xs)
  OBVIOUS
<1>1. op \in Q!ArrayOps /\ q.field_name = "flags"
  BY DEF IsFlagQual
<1>2. Q!extract_conditions(q) = {c} \ {{}}
  <2>1. Q!list_any_or_all(q) = "None"
    BY DEF IsFlagQual, Q!list_any_or_all
  <2> QED  BY <1>1, <2>1 DEF Q!extract_conditions
<1>3. \A i \in DOMAIN xs : /\ xs[i] \in Seq(C) /\ xs[i] \notin Q!STANDARD_FLAGS
                           /\ Q!ToSet(xs[i]) \intersect Q!AtomSpecials = {}
  BY DEF IsFlagQual, Q!NoneOf
<1>4. \A i \in DOMAIN xs : /\ ~Q!Refused(Q!Flag(xs[i]))
                           /\ Q!Meets(Q!Flag(xs[i]), v) <=> xs[i] \in Q!ToSet(v)
  <2> TAKE i \in DOMAIN xs
  <2> PICK x : x = xs[i]
    OBVIOUS
  <2>1. x \in Seq(C) /\ x \notin Q!STANDARD_FLAGS /\ Q!ToSet(x) \intersect Q!AtomSpecials = {}
    BY <1>3
  <2> QED  BY <2>1, OwnFlag
<1>5. c = IF op = "@>" THEN {{Q!Flag(xs[i]) : i \in DOMAIN xs}} ELSE {{Q!Flag(xs[i])} : i \in DOMAIN xs}
  <2>1. op \in Q!LikeOps \union Q!ArrayOps \union {"=", "<>"} /\ op \notin Q!LikeOps
    BY <1>1 DEF Q!ArrayOps, Q!LikeOps
  <2>2. CASE op = "@>"
    BY <1>1, <2>1, <2>2 DEF Q!make_condition
  <2>3. CASE op = "&&"
    BY <1>1, <2>1, <2>3 DEF Q!make_condition
  <2> QED  BY <1>1, <2>2, <2>3 DEF Q!ArrayOps
<1>8. Readable(c)
  <2>1. \A alternative \in c : \A criterion \in alternative : \E i \in DOMAIN xs : criterion = Q!Flag(xs[i])
    BY <1>5
  <2> QED  BY <1>4, <2>1 DEF Readable
<1>6. CASE op = "@>"
  <2>1. Q!ToSet(xs) \subseteq Q!ToSet(v)
    BY <1>6 DEF IsFlagQual, Q!CompareArrays
  <2>2. \A i \in DOMAIN xs : xs[i] \in Q!ToSet(v)
    <3>1. \A i \in DOMAIN xs : xs[i] \in Q!ToSet(xs)
      BY DEF Q!ToSet
    <3> QED  BY <2>1, <3>1
  <2>3. \A criterion \in {Q!Flag(xs[i]) : i \in DOMAIN xs} : Q!Meets(criterion, v)
    BY <1>4, <2>2
  <2>4. \E alternative \in c : \A criterion \in alternative : Q!Meets(criterion, v)
    BY <1>5, <1>6, <2>3
  <2> QED  BY <1>2, <1>8, <2>4 DEF Q!ImapReturns, Readable
<1>7. CASE op = "&&"
  <2>1. Q!ToSet(xs) \intersect Q!ToSet(v) # {}
    BY <1>7 DEF IsFlagQual, Q!CompareArrays
  <2>2. PICK i \in DOMAIN xs : xs[i] \in Q!ToSet(v)
    <3>1. PICK x \in Q!ToSet(xs) : x \in Q!ToSet(v)
      BY <2>1
    <3>2. \E i \in DOMAIN xs : x = xs[i]
      BY DEF Q!ToSet
    <3> QED  BY <3>1, <3>2
  <2>3. \A criterion \in {Q!Flag(xs[i])} : Q!Meets(criterion, v)
    BY <1>4, <2>2
  <2>4. {Q!Flag(xs[i])} \in c
    BY <1>5, <1>7
  <2>5. \E alternative \in c : \A criterion \in alternative : Q!Meets(criterion, v)
    BY <2>3, <2>4
  <2> QED  BY <1>2, <1>8, <2>5 DEF Q!ImapReturns, Readable
<1> QED  BY <1>1, <1>6, <1>7 DEF Q!ArrayOps

IsSearchQual(C, q) ==
    /\ q.field_name \in SearchColumns /\ q.operator[1] \notin Q!ArrayOps
    /\ \A i \in DOMAIN q.value :
          /\ q.value[i] \in Seq(C) /\ Searched(q.operator[1], q.value[i])
          /\ Q!list_any_or_all(q) = "ANY" => ~Untranslated(q.operator[1], q.value[i])
    /\ Q!list_any_or_all(q) = "None" => DOMAIN q.value = {1}

LEMMA SearchesKept ==
    ASSUME NEW C, NoNull(C), NEW q, IsSearchQual(C, q), NEW v \in Seq(C), Q!Accepts(q, v)
    PROVE  Q!ImapReturns(q, v)
<1> PICK xs : xs = q.value
  OBVIOUS
<1> PICK op : op = q.operator[1]
  OBVIOUS
<1> PICK kind : kind = Q!list_any_or_all(q)
  OBVIOUS
<1> PICK key \in SearchColumns : key = q.field_name
  BY DEF IsSearchQual
<1> DEFINE Condition(value) == Q!make_condition(key, op, value)
           each == {Condition(<<xs[i]>>) : i \in DOMAIN xs}
           Met(c) == \E alternative \in c : \A criterion \in alternative : Q!Meets(criterion, v)
<1>1. \A i \in DOMAIN xs : /\ xs[i] \in Seq(C) /\ Searched(op, xs[i])
                           /\ kind = "ANY" => ~Untranslated(op, xs[i])
  BY DEF IsSearchQual
<1>2. op \notin Q!ArrayOps
  BY DEF IsSearchQual
<1>3. ASSUME NEW i \in DOMAIN xs, NEW value, value[1] = xs[i]
      PROVE  /\ Condition(value) # Q!NoMatchPossible /\ Readable(Condition(value))
             /\ ~Untranslated(op, xs[i]) => Condition(value) # Q!Unmanaged
             /\ Q!Compare(op, v, xs[i]) => Met(Condition(value))
             /\ Untranslated(op, xs[i]) => Met(Condition(value))
  <2> PICK x \in Seq(C) : x = xs[i]
    BY <1>1
  <2> PICK c : c = Condition(value)
    OBVIOUS
  <2>1. Searched(op, x)
    BY <1>1
  <2>2. /\ Untranslated(op, x) => c = Q!Unmanaged
        /\ ~Untranslated(op, x) => \E k \in SearchKeys : c = Q!Criterion(k, FALSE, Text(op, x))
    <3>1. value[1] = x
      BY <1>3
    <3>2. ConditionIs(op, x, Q!make_condition(key, op, value))
      BY <2>1, <3>1, ConditionOf
    <3> QED  BY <3>2 DEF ConditionIs
  <2>3. CASE Untranslated(op, x)
    <3>1. c = Q!Unmanaged
      BY <2>2, <2>3
    <3>2. c # Q!NoMatchPossible /\ Readable(c) /\ Met(c)
      BY <3>1, UnmanagedIs
    <3> HIDE DEF Condition, Met
    <3> QED  BY <2>3, <3>2
  <2>4. CASE ~Untranslated(op, x)
    <3>1. PICK k \in SearchKeys : c = Q!Criterion(k, FALSE, Text(op, x))
      BY <2>2, <2>4
    <3>2. c # Q!NoMatchPossible /\ c # Q!Unmanaged
      BY <3>1, NotImpossible
    <3>3. Q!Compare(op, v, x) => Found(v, Text(op, x))
      BY <2>1, <2>4, SearchFinds
    <3>4. Text(op, x) \in Seq(C) /\ Sendable(Text(op, x))
      BY <2>1, <2>4, TextSendable
    <3>5. Readable(c) /\ (Found(v, Text(op, x)) => Met(c))
      BY <3>1, <3>4, ConditionMet
    <3> HIDE DEF Condition, Met
    <3> QED  BY <2>4, <3>2, <3>3, <3>5
  <2> QED  BY <2>3, <2>4
<1>4. ASSUME NEW i \in DOMAIN xs
      PROVE  /\ Condition(<<xs[i]>>) # Q!NoMatchPossible /\ Readable(Condition(<<xs[i]>>))
             /\ ~Untranslated(op, xs[i]) => Condition(<<xs[i]>>) # Q!Unmanaged
             /\ Q!Compare(op, v, xs[i]) => Met(Condition(<<xs[i]>>))
             /\ Untranslated(op, xs[i]) => Met(Condition(<<xs[i]>>))
  <2> PICK value : value = <<xs[i]>>
    OBVIOUS
  <2>1. value[1] = xs[i]
    OBVIOUS
  <2> HIDE DEF Condition, Met
  <2> QED  BY <1>3, <2>1
<1>5. Q!NoMatchPossible \notin each
  BY <1>4
<1>6. /\ kind = "ANY" => Q!extract_conditions(q) = {Q!make_or(each)} \ {{}}
      /\ kind = "ALL" => Q!extract_conditions(q) = each \ {{}}
      /\ kind = "None" => Q!extract_conditions(q) = {Condition(xs)} \ {{}}
  <2>1. Q!extract_conditions(q) =
           IF Q!NoMatchPossible \in each /\ op \notin Q!ArrayOps THEN {Q!NoMatchPossible}
           ELSE (CASE kind = "ANY"  -> {Q!make_or(each)}
                   [] kind = "ALL"  -> each
                   [] kind = "None" -> {Condition(xs)}) \ {{}}
    BY DEF Q!extract_conditions
  <2> HIDE DEF Condition, each
  <2> QED  BY <1>5, <2>1
<1>7. kind \in {"ANY", "ALL", "None"}
  BY DEF Q!list_any_or_all
<1> HIDE DEF Condition, Met
<1>11. \A condition \in each : Readable(condition)
  BY <1>4
<1>8. CASE kind = "ANY"
  <2>1. PICK i \in DOMAIN xs : Q!Compare(op, v, xs[i])
    BY <1>8 DEF Q!Accepts
  <2> PICK c : c = Condition(<<xs[i]>>)
    OBVIOUS
  <2>2. c \in each /\ c # Q!Unmanaged /\ Met(c)
    BY <1>1, <1>4, <1>8, <2>1
  <2>3. c \subseteq Q!make_or(each)
    BY <2>2 DEF Q!make_or
  <2>4. Met(Q!make_or(each))
    BY <2>2, <2>3 DEF Met
  <2>5. Readable(Q!make_or(each))
    BY <1>11 DEF Readable, Q!make_or
  <2>6. \A condition \in Q!extract_conditions(q) : Readable(condition) /\ Met(condition)
    BY <1>6, <1>8, <2>4, <2>5
  <2> QED  BY <2>6 DEF Met, Readable, Q!ImapReturns
<1>9. CASE kind = "ALL"
  <2>1. \A i \in DOMAIN xs : Q!Compare(op, v, xs[i])
    BY <1>9 DEF Q!Accepts
  <2>2. \A condition \in each : Met(condition)
    BY <1>4, <2>1
  <2>3. \A condition \in Q!extract_conditions(q) : Readable(condition) /\ Met(condition)
    BY <1>6, <1>9, <1>11, <2>2
  <2> QED  BY <2>3 DEF Met, Readable, Q!ImapReturns
<1>10. CASE kind = "None"
  <2>1. 1 \in DOMAIN xs
    BY <1>10 DEF IsSearchQual
  <2>2. Q!Compare(op, v, xs[1])
    BY <1>2, <1>10 DEF Q!Accepts
  <2>3. Readable(Condition(xs)) /\ Met(Condition(xs))
    BY <1>3, <2>1, <2>2
  <2>4. \A condition \in Q!extract_conditions(q) : Readable(condition) /\ Met(condition)
    BY <1>6, <1>10, <2>3
  <2> QED  BY <2>4 DEF Met, Readable, Q!ImapReturns
<1> QED  BY <1>7, <1>8, <1>9, <1>10

\* The criteria of ImapFdw.extract_conditions, as the server reads them, find
\* every mail that a qual it translates accepts (RemoteQuals.ImapKeepsRows), on
\* every column, with ANY, ALL or neither, for mails of any length and values of
\* any length without a quote or a backslash: _make_condition escapes neither.
THEOREM ImapKeepsAllRows ==
    ASSUME NEW C, NoNull(C), NEW q, ImapQuals(C, q), NEW v,
           q.field_name \in SearchColumns => v \in Seq(C),
           q.field_name \notin SearchColumns => q.value \in Seq(Seq(C))
    PROVE  Q!ImapKeepsRows(q, v)
<1> SUFFICES ASSUME Q!ImapTranslates(q), Q!Accepts(q, v) PROVE Q!ImapReturns(q, v)
  BY DEF Q!ImapKeepsRows
<1> PICK op : op = q.operator[1]
  OBVIOUS
<1>1. q.field_name \in SearchColumns <=> q.field_name # "flags"
  BY DEF ImapQuals, ImapColumns, SearchColumns
<1>2. CASE q.field_name = "flags"
  <2>1. /\ op \in Q!ArrayOps /\ Q!NoneOf(Q!AtomSpecials, q)
        /\ \A i \in DOMAIN q.value : q.value[i] \notin Q!STANDARD_FLAGS
    BY <1>2 DEF Q!ImapTranslates
  <2>2. Len(q.operator) = 1
    BY <2>1 DEF ImapQuals
  <2>3. Q!list_any_or_all(q) = "None"
    BY <2>2 DEF Q!list_any_or_all
  <2>4. Q!CompareArrays(op, v, q.value)
    BY <2>1, <2>3 DEF Q!Accepts
  <2>5. IsFlagQual(q, v)
    BY <1>2, <2>1, <2>2, <2>4 DEF IsFlagQual
  <2> QED  BY <1>1, <1>2, <2>5, FlagsKept
<1>3. CASE q.field_name # "flags"
  <2>1. /\ op \in {"=", "~~", "~~*"} /\ Q!NoneOf(Q!QuotedSpecials, q)
        /\ \A i \in DOMAIN q.value :
             /\ q.value[i] # Q!NULL /\ q.value[i] # << >>
             /\ op \in Q!LikeOps => Q!Trimmed(q.value[i]) # << >> /\ Q!Trimmed(q.value[i])[1] \notin Q!Wildcards
             /\ (op \in Q!LikeOps /\ Q!list_any_or_all(q) = "ANY") => ~Q!HasWildcard(Q!Trimmed(q.value[i]))
    BY <1>3 DEF Q!ImapTranslates
  <2>2. \A i \in DOMAIN q.value :
           /\ q.value[i] \in Seq(C) /\ Searched(op, q.value[i])
           /\ Q!list_any_or_all(q) = "ANY" => ~Untranslated(op, q.value[i])
    <3> TAKE i \in DOMAIN q.value
    <3>1. q.value[i] \in Seq(C) \union {Q!NULL}
      <4> PICK S : S = Seq(C) \union {Q!NULL}
        OBVIOUS
      <4>1. q.value \in Seq(S)
        BY DEF ImapQuals
      <4> QED  BY <4>1
    <3>2. Plain(q.value[i]) /\ Sendable(q.value[i])
      <4>1. Q!ToSet(q.value[i]) \intersect Q!QuotedSpecials = {}
        BY <2>1 DEF Q!NoneOf
      <4>2. "\\" \in Q!QuotedSpecials
        BY DEF Q!QuotedSpecials
      <4> QED  BY <4>1, <4>2 DEF Plain, Sendable, Q!ToSet
    <3> QED  BY <2>1, <3>1, <3>2 DEF Searched, Untranslated
  <2>3. op \notin Q!ArrayOps
    BY <2>1 DEF Q!ArrayOps
  <2>4. Q!list_any_or_all(q) = "None" => DOMAIN q.value = {1}
    <3>1. Q!list_any_or_all(q) = "None" => Len(q.operator) = 1
      BY DEF Q!list_any_or_all
    <3>2. Len(q.operator) = 1 => Len(q.value) = 1
      BY <2>3 DEF ImapQuals
    <3>3. Len(q.value) = 1 => DOMAIN q.value = {1}
      <4> PICK S : S = Seq(C) \union {Q!NULL}
        OBVIOUS
      <4>1. q.value \in Seq(S)
        BY DEF ImapQuals
      <4>2. DOMAIN q.value = 1 .. Len(q.value)
        BY <4>1
      <4>3. 1 .. 1 = {1}
        OBVIOUS
      <4> QED  BY <4>2, <4>3
    <3> QED  BY <3>1, <3>2, <3>3
  <2>5. IsSearchQual(C, q)
    BY <1>1, <1>3, <2>2, <2>3, <2>4 DEF IsSearchQual
  <2> QED  BY <1>1, <1>3, <2>5, SearchesKept
<1> QED  BY <1>2, <1>3

LEMMA SeqOfMore ==
    ASSUME NEW S, NEW T, \A c \in S : c \in T, NEW n \in Seq(S)
    PROVE  n \in Seq(T)
<1>1. PICK m \in Nat : n \in [1 .. m -> S]
  BY SeqDef
<1>2. n \in [1 .. m -> T]
  BY <1>1
<1> QED  BY <1>2, SeqDef

-----------------------------------------------------------------------------
(* The calls of MCWrappers.                                                *)

\* A call that Calls makes.
Made(of, args) ==
    \/ of = "SqlQual" /\ \E q \in Quals({"Subject"}, Scalars) : args = <<q>>
    \/ of = "LdapQual" /\ \E q \in Filters : args = <<q>>
    \/ of = "ImapQual" /\ \E q \in Quals({"Subject", "FROM", "payload"}, Scalars) \union FlagQuals : args = <<q>>
    \/ of = "compact_fetch" /\ args \in UpTo(4, 1 .. 5) \ {<< >>}
    \/ of = "SqlSort" /\ \E d \in O!Dialects, k \in UpTo(2, SortKeys) : args = <<d, k>>
    \/ of = "TestExecute" /\ \E r \in UpTo(3, [{"a"} -> 1 .. 2]),
                                k \in UpTo(1, {O!SortKey("a", b, FALSE) : b \in BOOLEAN}),
                                l \in {O!None} \union 0 .. 3, o \in {O!None} \union 0 .. 3 : args = <<r, k, l, o>>
    \/ of = "import_schema" /\ \E db \in Databases, r \in {"limit", "except", "None"},
                                  ts \in SUBSET {"t1", "t2", "t4"} : args = <<db, r, ts>>
    \/ of = "to_statement" /\ \E n, m \in QuotedNames : args = <<Tables2(n, m), m, n>>
    \/ of = "type" /\ \E t \in RemoteTypes : args = <<t>>
    \/ of = "pattern" /\ \E p \in FilePatterns : args = <<P!StructuredDirectory(p)>>

\* The call in progress is one of them.
Asked == call.of = "none" \/ Made(call.of, call.args)

LEMMA CallsAsked == Spec => []Asked
<1>1. Init => Asked
  BY DEF Init, Asked
<1>2. Asked /\ [Next]_vars => Asked'
  <2> SUFFICES ASSUME Asked, [Next]_vars PROVE Asked'
    OBVIOUS
  <2>1. ASSUME UNCHANGED call PROVE Asked'
    BY <2>1 DEF Asked
  <2>2. CASE Return
    BY <2>2 DEF Return, Call, Asked
  <2>3. CASE Calls
    <3>1. ASSUME NEW of, NEW args, Call(of, args), Made(of, args) PROVE Asked'
      <4>1. call'.of = of /\ call'.args = args
        BY <3>1 DEF Call
      <4> QED  BY <3>1, <4>1 DEF Asked
    <3> HIDE DEF Call
    <3> QED  BY <2>3, <3>1 DEF Calls, Made
  <2>4. CASE Sql \/ Meta \/ Imap(ImapNext) \/ Rss \/ Xml \/ UNCHANGED vars
    BY <2>1, <2>4 DEF Sql, Meta, Imap, Rss, Xml, vars
  <2> QED  BY <2>2, <2>3, <2>4 DEF Next, Translation
<1> QED  BY <1>1, <1>2, PTL DEF Spec

LEMMA UpToSeq ==
    ASSUME NEW n \in Nat, NEW S, NEW s \in UpTo(n, S)
    PROVE  s \in Seq(S) /\ Len(s) <= n
<1>1. PICK m \in 0 .. n : s \in [1 .. m -> S]
  BY DEF UpTo
<1> QED  BY <1>1

\* SortsAndCutsAsAsked, for the calls that the run makes.
THEOREM SortsAndCuts == Spec => []SortsAndCutsAsAsked
<1>1. Asked => SortsAndCutsAsAsked
  <2> SUFFICES ASSUME Asked PROVE SortsAndCutsAsAsked
    OBVIOUS
  <2>1. ASSUME call.of = "SqlSort" PROVE O!SqlSortsAsClaimed(call.args[1], call.args[2], SortRows)
    <3>1. PICK d \in O!Dialects, k \in UpTo(2, SortKeys) : call.args = <<d, k>>
      BY <2>1 DEF Asked, Made
    <3>2. SortKeys \subseteq SortKeysOn(SortColumns)
      BY DEF SortKeys, O!SortKey, SortKeysOn
    <3>3. k \in Seq(SortKeys)
      BY UpToSeq
    <3>4. k \in Seq(SortKeysOn(SortColumns))
      BY <3>2, <3>3
    <3>5. O!SqlSortsAsClaimed(d, k, SortRows)
      BY <3>4, SqlSorts
    <3> QED  BY <3>1, <3>5
  <2>2. ASSUME call.of = "TestExecute"
        PROVE  O!TestCutsAsAsked(call.args[1], call.args[2], call.args[3], call.args[4])
    <3> DEFINE SortNames == {"a"}
               keys == {O!SortKey("a", b, FALSE) : b \in BOOLEAN}
    <3>1. PICK r \in UpTo(3, [SortNames -> 1 .. 2]), k \in UpTo(1, keys),
               l \in {O!None} \union 0 .. 3, o \in {O!None} \union 0 .. 3 :
                   call.args = <<r, k, l, o>>
      BY <2>2 DEF Asked, Made
    <3>2. keys \subseteq SortKeysOn(SortNames)
      <4> SUFFICES ASSUME NEW b \in BOOLEAN PROVE O!SortKey("a", b, FALSE) \in SortKeysOn(SortNames)
        OBVIOUS
      <4> QED  BY DEF O!SortKey, SortKeysOn
    <3>7. [SortNames -> 1 .. 2] \subseteq [SortNames -> NonNull]
      BY DEF NonNull, O!NULL
    <3> HIDE DEF SortNames, keys
    <3>3. r \in Seq([SortNames -> 1 .. 2]) /\ k \in Seq(keys) /\ Len(k) <= 1
      BY UpToSeq
    <3>4. r \in Seq([SortNames -> NonNull]) /\ k \in Seq(SortKeysOn(SortNames))
      BY <3>2, <3>7, <3>3
    <3>5. l \in Nat \union {O!None} /\ o \in Nat \union {O!None}
      OBVIOUS
    <3>6. O!TestCutsAsAsked(r, k, l, o)
      BY <3>3, <3>4, <3>5, TestCuts
    <3> QED  BY <3>1, <3>6
  <2> QED  BY <2>1, <2>2 DEF SortsAndCutsAsAsked
<1> QED  BY <1>1, CallsAsked, PTL

\* The arguments, as the theorems about quals want them.
TextCharacters == {"a", "A", "%", "_", "\\", "(", ")", "*", "/", "work", "seen", Q!Quote}
AllCharacters == TextCharacters \union {"NULL"}

LEMMA TextsAre ==
    /\ \A x \in Patterns \union ColumnTexts : x \in Seq(TextCharacters)
    /\ \A x \in Seq(TextCharacters) \union {Q!NULL} : x \in Seq(AllCharacters)
    /\ NoNull(TextCharacters)
<1>1. ASSUME NEW n \in Nat, NEW D, D \subseteq TextCharacters, NEW x \in UpTo(n, D) PROVE x \in Seq(TextCharacters)
  <2>1. x \in Seq(D)
    BY UpToSeq
  <2>2. \A c \in D : c \in TextCharacters
    BY <1>1
  <2> QED  BY <2>1, <2>2, SeqOfMore
<1>2. ASSUME NEW x \in Patterns PROVE x \in Seq(TextCharacters)
  <2>1. x \in UpTo(3, {"a", "%", "_", "\\", Q!Quote})
    BY DEF Patterns
  <2>2. {"a", "%", "_", "\\", Q!Quote} \subseteq TextCharacters
    BY DEF TextCharacters
  <2> QED  BY <1>1, <2>1, <2>2
<1>3. ASSUME NEW x \in ColumnTexts PROVE x \in Seq(TextCharacters)
  <2>1. x \in UpTo(3, {"a", "A", "%", Q!Quote})
    BY DEF ColumnTexts
  <2>2. {"a", "A", "%", Q!Quote} \subseteq TextCharacters
    BY DEF TextCharacters
  <2> QED  BY <1>1, <2>1, <2>2
<1>4. ASSUME NEW x \in Seq(TextCharacters) PROVE x \in Seq(AllCharacters)
  <2>1. \A c \in TextCharacters : c \in AllCharacters
    BY DEF AllCharacters
  <2> QED  BY <2>1, SeqOfMore
<1>5. Q!NULL \in Seq(AllCharacters)
  <2>1. "NULL" \in AllCharacters
    BY DEF AllCharacters
  <2> QED  BY <2>1 DEF Q!NULL
<1>6. NoNull(TextCharacters)
  <2>1. "NULL" # Q!Quote
    BY Zenon DEF Q!Quote
  <2> QED  BY <2>1 DEF NoNull, TextCharacters
<1> QED  BY <1>2, <1>3, <1>4, <1>5, <1>6

Values == Seq(Seq(TextCharacters) \union {Q!NULL})

LEMMA ShortSeqs ==
    \A C : << >> \in Seq(C) /\ \A c, d \in C : <<c>> \in Seq(C) /\ <<c, d, c>> \in Seq(C)
<1> TAKE C
<1>1. << >> \in Seq(C)
  BY EmptySeq
<1>2. ASSUME NEW c \in C, NEW d \in C PROVE <<c>> \in Seq(C) /\ <<c, d, c>> \in Seq(C)
  OBVIOUS
<1> QED  BY <1>1, <1>2

LEMMA ValuesAre ==
    /\ \A s \in Scalars : s \in Values /\ Len(s) = 1
    /\ \A s \in Lists : s \in Values
    /\ \A s \in Values : s \in Seq(Seq(AllCharacters))
<1> PICK T : T = Seq(TextCharacters) \union {Q!NULL}
  OBVIOUS
<1>1. \A s \in Scalars : s \in Values /\ Len(s) = 1
  <2> SUFFICES ASSUME NEW x \in Patterns \union {Q!NULL} PROVE <<x>> \in Values /\ Len(<<x>>) = 1
    BY DEF Scalars
  <2>1. x \in T
    BY TextsAre
  <2>2. <<x>> \in Seq(T) /\ Len(<<x>>) = 1
    BY <2>1
  <2> QED  BY <2>2 DEF Values
<1>2. \A s \in Lists : s \in Values
  <2> TAKE s \in Lists
  <2> PICK D : D = {<<"a">>, <<"a", "_", "a">>, << >>, Q!NULL}
    OBVIOUS
  <2>1. s \in Seq(D)
    <3>1. s \in UpTo(2, D)
      BY DEF Lists
    <3> QED  BY <3>1, UpToSeq
  <2>2. \A x \in D : x \in T
    <3>1. "a" \in TextCharacters /\ "_" \in TextCharacters
      BY DEF TextCharacters
    <3>2. /\ <<"a">> \in Seq(TextCharacters) /\ << >> \in Seq(TextCharacters)
          /\ <<"a", "_", "a">> \in Seq(TextCharacters)
      BY <3>1, ShortSeqs, Zenon
    <3> QED  BY <3>2
  <2>3. s \in Seq(T)
    BY <2>1, <2>2, SeqOfMore
  <2> QED  BY <2>3 DEF Values
<1>3. \A s \in Values : s \in Seq(Seq(AllCharacters))
  <2> TAKE s \in Values
  <2> PICK U : U = Seq(AllCharacters)
    OBVIOUS
  <2>1. s \in Seq(T)
    BY DEF Values
  <2>2. \A x \in T : x \in U
    BY TextsAre
  <2>3. s \in Seq(U)
    BY <2>1, <2>2, SeqOfMore
  <2> QED  BY <2>3
<1> QED  BY <1>1, <1>2, <1>3

IsQualOn(fields, q) ==
    /\ q.field_name \in fields /\ q.value \in Values /\ q.operator[1] \notin Q!ArrayOps
    /\ Len(q.operator) = 1 => Len(q.value) = 1

LEMMA QualsAre ==
    ASSUME NEW fields, NEW q \in Quals(fields, Scalars)
    PROVE  IsQualOn(fields, q)
<1>1. \A o \in Names : o \notin Q!ArrayOps
  BY DEF Names, Q!ArrayOps
<1>2. CASE \E k \in fields, o \in Names, s \in Scalars : q = Q!Qual(k, <<o>>, s)
  <2>1. PICK k \in fields, o \in Names, s \in Scalars : q = Q!Qual(k, <<o>>, s)
    BY <1>2
  <2>2. q.field_name = k /\ q.operator = <<o>> /\ q.value = s
    BY <2>1 DEF Q!Qual
  <2>3. q.operator[1] = o
    BY <2>2
  <2> QED  BY <1>1, <2>2, <2>3, ValuesAre DEF IsQualOn
<1>3. CASE \E k \in fields, o \in Names, any \in BOOLEAN, s \in Lists : q = Q!Qual(k, <<o, any>>, s)
  <2>1. PICK k \in fields, o \in Names, any \in BOOLEAN, s \in Lists : q = Q!Qual(k, <<o, any>>, s)
    BY <1>3
  <2>2. q.field_name = k /\ q.operator = <<o, any>> /\ q.value = s
    BY <2>1 DEF Q!Qual
  <2>3. q.operator[1] = o /\ Len(q.operator) = 2
    BY <2>2
  <2> QED  BY <1>1, <2>2, <2>3, ValuesAre DEF IsQualOn
<1> DEFINE Plainly == {Q!Qual(k, <<o>>, s) : k \in fields, o \in Names, s \in Scalars}
           Listed == {Q!Qual(k, <<o, any>>, s) : k \in fields, o \in Names, any \in BOOLEAN, s \in Lists}
<1>4. Quals(fields, Scalars) = Plainly \union Listed
  BY DEF Quals
<1>5. q \in Plainly => \E k \in fields, o \in Names, s \in Scalars : q = Q!Qual(k, <<o>>, s)
  OBVIOUS
<1>6. q \in Listed =>
         \E k \in fields, o \in Names, any \in BOOLEAN, s \in Lists : q = Q!Qual(k, <<o, any>>, s)
  OBVIOUS
<1> HIDE DEF Plainly, Listed
<1> QED  BY <1>2, <1>3, <1>4, <1>5, <1>6, Zenon

LEMMA FilterQualsAre ==
    /\ \A q \in Filters : q.value \in Seq(Seq(TextCharacters)) /\ q.value # << >>
    /\ \A a \in Attributes : a \in Seq(Seq(TextCharacters))
<1> PICK U : U = Seq(TextCharacters)
  OBVIOUS
<1>1. ASSUME NEW n \in Nat, NEW D, D \subseteq TextCharacters, NEW x \in UpTo(n, D) PROVE x \in U
  <2>1. x \in Seq(D)
    BY UpToSeq
  <2>2. \A c \in D : c \in TextCharacters
    BY <1>1
  <2> QED  BY <2>1, <2>2, SeqOfMore
<1>2. ASSUME NEW q \in Filters PROVE q.value \in Seq(U) /\ q.value # << >>
  <2> DEFINE D == LdapCharacters \union {"%"}
             FilterOps == {"=", "~~"}
             FilterTexts == UpTo(2, D) \ {<< >>}
  <2>1. PICK o \in FilterOps, x \in FilterTexts : q = Q!Qual("cn", <<o>>, <<x>>)
    <3> DEFINE Filter(o, x) == Q!Qual("cn", <<o>>, <<x>>)
    <3>1. Filters = {Filter(o, x) : o \in FilterOps, x \in FilterTexts}
      BY DEF Filters
    <3> HIDE DEF FilterOps, FilterTexts, Filter
    <3>2. \E o \in FilterOps, x \in FilterTexts : q = Filter(o, x)
      BY <3>1
    <3> QED  BY <3>2 DEF Filter
  <2>2. q.value = <<x>>
    BY <2>1 DEF Q!Qual
  <2>3. x \in UpTo(2, D) /\ D \subseteq TextCharacters
    BY DEF TextCharacters, LdapCharacters
  <2>4. x \in U
    BY <1>1, <2>3
  <2>5. <<x>> \in Seq(U) /\ <<x>> # << >>
    BY <2>4
  <2> QED  BY <2>2, <2>5
<1>3. ASSUME NEW a \in Attributes PROVE a \in Seq(U)
  <2> DEFINE D == {"a", "(", "*"}
             T == UpTo(1, LdapCharacters) \union UpTo(2, D) \union {<<"\\", "a">>}
  <2>1. a \in Seq(T)
    <3>1. a \in UpTo(2, T)
      BY DEF Attributes
    <3> HIDE DEF T
    <3> QED  BY <3>1, UpToSeq
  <2>2. \A x \in UpTo(2, D) : x \in U
    <3>1. D \subseteq TextCharacters
      BY DEF TextCharacters
    <3> HIDE DEF D
    <3> QED  BY <1>1, <3>1
  <2>3. <<"\\", "a">> \in U
    <3>1. "\\" \in TextCharacters /\ "a" \in TextCharacters
      BY DEF TextCharacters
    <3> QED  BY <3>1
  <2>5. \A x \in UpTo(1, LdapCharacters) : x \in U
    <3>1. LdapCharacters \subseteq TextCharacters
      BY DEF TextCharacters, LdapCharacters
    <3> QED  BY <1>1, <3>1
  <2>4. \A x \in T : x \in U
    BY <2>2, <2>3, <2>5
  <2> HIDE DEF T
  <2> QED  BY <2>1, <2>4, SeqOfMore
<1> QED  BY <1>2, <1>3

LEMMA FlagQualsAre ==
    ASSUME NEW q \in FlagQuals
    PROVE  /\ q.field_name = "flags" /\ q.operator[1] \in Q!ArrayOps /\ Len(q.operator) = 1
           /\ q.value \in Seq(Seq(TextCharacters)) /\ q.value \in Values
<1> PICK U : U = Seq(TextCharacters)
  OBVIOUS
<1> PICK T : T = Seq(TextCharacters) \union {Q!NULL}
  OBVIOUS
<1>1. PICK o \in {"@>", "&&"}, s \in UpTo(2, Flags) : q = Q!Qual("flags", <<o>>, s)
  BY DEF FlagQuals
<1>2. q.field_name = "flags" /\ q.operator = <<o>> /\ q.value = s
  BY <1>1 DEF Q!Qual
<1>3. s \in Seq(Flags)
  BY UpToSeq
<1>4. \A x \in Flags : x \in U /\ x \in T
  <2>1. {"work", "seen", "\\", "a", Q!Quote} \subseteq TextCharacters
    BY DEF TextCharacters
  <2>2. <<"work">> \in U /\ <<"seen">> \in U /\ <<"\\", "seen">> \in U /\ <<"a", Q!Quote>> \in U
    BY <2>1
  <2> QED  BY <2>2 DEF Flags
<1>5. s \in Seq(U) /\ s \in Seq(T)
  BY <1>3, <1>4, SeqOfMore
<1>6. q.operator[1] = o /\ o \in Q!ArrayOps
  BY <1>2 DEF Q!ArrayOps
<1> QED  BY <1>2, <1>5, <1>6 DEF Values

\* KeepsRows, for the calls that the run makes: no translation of a qual loses
\* a row that the query asks for.
THEOREM RowsAreKept == Spec => []KeepsRows
<1>1. Asked => KeepsRows
  <2> SUFFICES ASSUME Asked PROVE KeepsRows
    OBVIOUS
  <2>1. ASSUME call.of = "SqlQual", NEW v \in ColumnTexts \union {Q!NULL}, NEW escapes \in BOOLEAN
        PROVE  Q!SqlKeepsRows(call.args[1], v, escapes)
    <3> DEFINE fields == {"Subject"}
    <3>1. PICK q \in Quals(fields, Scalars) : call.args = <<q>>
      BY <2>1 DEF Asked, Made
    <3> HIDE DEF fields
    <3>2. q.value \in Values /\ (Len(q.operator) = 1 => Len(q.value) = 1)
      BY QualsAre DEF IsQualOn
    <3>3. TextValues(AllCharacters, q)
      BY <3>2, ValuesAre DEF TextValues
    <3>4. v \in Seq(AllCharacters)
      BY TextsAre
    <3>5. Q!SqlKeepsRows(q, v, escapes)
      BY <3>3, <3>4, SqlKeepsAllRows
    <3> QED  BY <3>1, <3>5
  <2>2. ASSUME call.of = "LdapQual", NEW a \in Attributes
        PROVE  Q!LdapKeepsRows(call.args[1], a)
    <3>1. PICK q \in Filters : call.args = <<q>>
      BY <2>2 DEF Asked, Made
    <3>2. Q!LdapKeepsRows(q, a)
      BY FilterQualsAre, LdapKeepsAllRows
    <3> QED  BY <3>1, <3>2
  <2>3. ASSUME call.of = "ImapQual", NEW v \in ColumnValues(call.args[1])
        PROVE  Q!ImapKeepsRows(call.args[1], v)
    <3> DEFINE fields == {"Subject", "FROM", "payload"}
    <3>1. PICK q \in Quals(fields, Scalars) \union FlagQuals : call.args = <<q>>
      BY <2>3 DEF Asked, Made
    <3>2. fields \subseteq SearchColumns
      BY DEF SearchColumns
    <3> HIDE DEF fields
    <3>3. v \in ColumnValues(q)
      BY <2>3, <3>1
    <3>4. CASE q \in Quals(fields, Scalars)
      <4>1. /\ q.field_name \in SearchColumns /\ q.value \in Values /\ q.operator[1] \notin Q!ArrayOps
            /\ Len(q.operator) = 1 => Len(q.value) = 1
        BY <3>2, <3>4, QualsAre DEF IsQualOn
      <4>2. ImapQuals(TextCharacters, q)
        BY <4>1 DEF ImapQuals, ImapColumns, Values
      <4>3. v \in Seq(TextCharacters)
        <5>1. q.field_name # "flags"
          BY <4>1 DEF SearchColumns
        <5> QED  BY <3>3, <5>1, TextsAre DEF ColumnValues
      <4>4. Q!ImapKeepsRows(q, v)
        BY <4>1, <4>2, <4>3, TextsAre, ImapKeepsAllRows
      <4> QED  BY <3>1, <4>4
    <3>5. CASE q \in FlagQuals
      <4>1. /\ q.field_name = "flags" /\ q.operator[1] \in Q!ArrayOps /\ Len(q.operator) = 1
            /\ q.value \in Seq(Seq(TextCharacters)) /\ q.value \in Values
        BY <3>5, FlagQualsAre
      <4>2. q.field_name \notin SearchColumns
        BY <4>1 DEF SearchColumns
      <4>3. ImapQuals(TextCharacters, q)
        BY <4>1 DEF ImapQuals, ImapColumns, Values
      <4>4. Q!ImapKeepsRows(q, v)
        BY <4>1, <4>2, <4>3, TextsAre, ImapKeepsAllRows
      <4> QED  BY <3>1, <4>4
    <3> QED  BY <3>4, <3>5
  <2>4. ASSUME call.of = "compact_fetch" PROVE Q!FetchesFound(call.args)
    <3>1. call.args \in UpTo(4, 1 .. 5) \ {<< >>}
      BY <2>4 DEF Asked, Made
    <3> PICK D : D = 1 .. 5
      OBVIOUS
    <3>2. call.args \in Seq(D) /\ call.args # << >>
      BY <3>1, UpToSeq
    <3>3. \A i \in D : i \in Int
      OBVIOUS
    <3>4. call.args \in Seq(Int)
      BY <3>2, <3>3, SeqOfMore
    <3> QED  BY <3>2, <3>4, AllAreFetched
  <2> QED  BY <2>1, <2>2, <2>3, <2>4 DEF KeepsRows
<1> QED  BY <1>1, CallsAsked, PTL
=============================================================================
