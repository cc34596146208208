---------------------------- MODULE WrapperProofs ----------------------------
(***************************************************************************)
(* The wrappers with a state of their own, each under its specification:   *)
(* the remote transactions of SqlAlchemyFdw, the cache of docutils_meta,   *)
(* the cache of RssFdw and the row builder of XmlFdw.  Their constants are *)
(* arbitrary: any number of tables, rows, threads, files and columns, any  *)
(* cache size, any duration, any document.                                 *)
(***************************************************************************)
EXTENDS SqlAlchemyFdw, MetaCache, RssFdw, XmlFdw, SequenceTheorems, TLAPS

(* SqlAlchemyFdw, if a failed statement does not doom the remote           *)
(* transaction: nothing that was committed locally is missing remotely,    *)
(* nothing is applied after the verdict, nothing stays open.               *)

\* No instance has heard the end of the transaction.
NoneTold == \A t \in Tables : told[t] = "none"

ProtocolTypeOK ==
    /\ view \in [Tables -> {0, 1}]
    /\ ready \subseteq Tables
    /\ told \in [Tables -> Endings]
    /\ up \in BOOLEAN

\* An open remote transaction is one that the local transaction knows of.
OpenIsHeld ==
    \A t \in Tables : /\ session[t] = "open" => view[t] = 1 /\ t \in transaction
                      /\ session[t] # "doomed"

\* Remote work is in an open transaction that has not voted, so none is left
\* for the commit hook.
WorkIsOpen == \A c \in work : session[c[1]] = "open"
VotedIsDone == \A t \in ready : t \notin transaction

\* The local transaction may still commit, at once or after a rollback to
\* its savepoint.
MayCommit == ~failed \/ (saved # NoSavepoint /\ NoneTold /\ ready = {})

\* What it would commit is in the remote databases or in their open
\* transactions.
KeptSomewhere ==
    /\ up /\ MayCommit => kept \subseteq remote \union work
    /\ saved # NoSavepoint => saved \subseteq kept

\* The verdict: to commit only what has voted, to roll back only a failure.
Verdict ==
    \A u \in Tables :
        /\ told[u] = "commit" => \A t \in Tables : view[t] = 1 => t \in ready
        /\ told[u] = "rollback" => failed

SqlInv ==
    /\ SqlTypeOK /\ ProtocolTypeOK
    /\ OpenIsHeld /\ WorkIsOpen /\ VotedIsDone /\ KeptSomewhere /\ Verdict
    /\ NoLostWrite

-----------------------------------------------------------------------------

\* The changes made through a table.
LEMMA ChangesOf ==
    ASSUME NEW t \in Tables
    PROVE  /\ \A c \in Changes : c[1] \in Tables /\ (c \in Of(t) <=> c[1] = t)
           /\ \A r \in Rows : <<t, r>> \in Changes /\ <<t, r>>[1] = t
  BY DEF Changes, Of

\* Before the first transaction.
LEMMA SqlInitInv == SqlInit => SqlInv
  BY DEF SqlInit, ProtocolInit, SqlInv, SqlTypeOK, ProtocolTypeOK, OpenIsHeld, WorkIsOpen,
         VotedIsDone, KeptSomewhere, Verdict, NoLostWrite, Endings

\* When the commit hooks are called no remote work is left.
LEMMA NothingLeft ==
    ASSUME SqlInv, \A u \in Tables : view[u] > 0 => u \in ready
    PROVE  work = {}
  <1> SUFFICES ASSUME NEW c \in work PROVE FALSE
    OBVIOUS
  <1>1. c[1] \in Tables
    BY DEF SqlInv, SqlTypeOK, Changes
  <1>2. view[c[1]] = 1 /\ c[1] \in transaction
    BY <1>1 DEF SqlInv, WorkIsOpen, OpenIsHeld
  <1> QED  BY <1>1, <1>2 DEF SqlInv, VotedIsDone

\* begin and the statements.
LEMMA StatementStep ==
    ASSUME ~Doomed, SqlInv, NEW t \in Tables,
           \/ Begin(t) \/ BeginRaises(t) \/ StatementRaises(t)
           \/ \E r \in Rows : Write(t, r)
    PROVE  SqlInv'
  <1> USE DEF SqlInv, SqlTypeOK, ProtocolTypeOK, OpenIsHeld, WorkIsOpen, VotedIsDone,
              KeptSomewhere, MayCommit, NoneTold, Verdict, NoLostWrite, pvars, localvars, Set, Running
  <1>1. CASE Begin(t)
    BY <1>1 DEF Begin, HBegin
  <1>2. CASE BeginRaises(t)
    BY <1>2 DEF BeginRaises
  <1>3. CASE StatementRaises(t)
    BY <1>3 DEF StatementRaises
  <1>4. ASSUME NEW r \in Rows, Write(t, r) PROVE SqlInv'
    <2>1. <<t, r>> \in Changes /\ <<t, r>>[1] = t
      BY ChangesOf
    <2> QED  BY <1>4, <2>1 DEF Write
  <1> QED  BY <1>1, <1>2, <1>3, <1>4

\* The hooks that end the remote transaction.
LEMMA HookStep ==
    ASSUME ~Doomed, SqlInv, NEW t \in Tables,
           PreCommit(t) \/ PreCommitRaises(t) \/ Commit(t) \/ Rollback(t) \/ RollbackRaises(t)
    PROVE  SqlInv'
  <1> USE DEF SqlInv, SqlTypeOK, ProtocolTypeOK, OpenIsHeld, WorkIsOpen, VotedIsDone,
              KeptSomewhere, MayCommit, NoneTold, Verdict, NoLostWrite, pvars, localvars, Set
  <1>0. \A c \in work : c[1] \in Tables /\ (c \in Of(t) <=> c[1] = t)
    BY ChangesOf
  <1>1. CASE PreCommit(t)
    BY <1>0, <1>1 DEF PreCommit, HPreCommit, Commits
  <1>2. CASE PreCommitRaises(t)
    BY <1>0, <1>2 DEF PreCommitRaises
  <1>3. CASE Commit(t)
    <2>1. work = {}
      BY <1>3, NothingLeft DEF Commit, HCommit
    <2> QED  BY <1>3, <2>1 DEF Commit, HCommit, Commits, Endings
  <1>4. CASE Rollback(t)
    BY <1>0, <1>4 DEF Rollback, HRollback, Endings
  <1>5. CASE RollbackRaises(t)
    BY <1>0, <1>5 DEF RollbackRaises, HRollback, Endings
  <1> QED  BY <1>1, <1>2, <1>3, <1>4, <1>5

\* The local server.
LEMMA ServerStep ==
    ASSUME SqlInv,
           \/ LateFailure \/ Abort \/ Savepoint \/ ReleaseSavepoint \/ RollbackToSavepoint
           \/ NextTransaction \/ Crash \/ Restart
    PROVE  SqlInv'
  <1> USE DEF SqlInv, SqlTypeOK, ProtocolTypeOK, OpenIsHeld, WorkIsOpen, VotedIsDone,
              KeptSomewhere, MayCommit, NoneTold, Verdict, NoLostWrite, pvars, localvars, Running
  <1>1. CASE LateFailure
    BY <1>1 DEF LateFailure
  <1>2. CASE Abort
    BY <1>2 DEF Abort
  <1>3. CASE Savepoint
    BY <1>3 DEF Savepoint
  <1>4. CASE ReleaseSavepoint
    BY <1>4 DEF ReleaseSavepoint
  <1>5. CASE RollbackToSavepoint
    BY <1>5 DEF RollbackToSavepoint
  <1>6. CASE NextTransaction
    BY <1>6 DEF NextTransaction, HNewXact, Forget, Endings
  <1>7. CASE Crash
    BY <1>7 DEF Crash, HCrash
  <1>8. CASE Restart
    BY <1>8 DEF Restart, HRestart, Forget, Endings
  <1> QED  BY <1>1, <1>2, <1>3, <1>4, <1>5, <1>6, <1>7, <1>8

LEMMA SqlStepInv ==
    ASSUME ~Doomed, SqlInv, [SqlNext]_sqlvars
    PROVE  SqlInv'
  <1>1. CASE SqlNext
    BY <1>1, StatementStep, HookStep, ServerStep DEF SqlNext
  <1>2. CASE UNCHANGED sqlvars
    BY <1>2 DEF SqlInv, SqlTypeOK, ProtocolTypeOK, OpenIsHeld, WorkIsOpen, VotedIsDone, KeptSomewhere,
                MayCommit, NoneTold, Verdict, NoLostWrite, sqlvars, pvars, localvars
  <1> QED  BY <1>1, <1>2

-----------------------------------------------------------------------------

\* The inductive invariant, over any number of transactions.
THEOREM SqlInvariance ==
    ASSUME ~Doomed
    PROVE  SqlSpec => []SqlInv
  <1>1. SqlInv /\ [SqlNext]_sqlvars => SqlInv'
    BY SqlStepInv
  <1> QED  BY SqlInitInv, <1>1, PTL DEF SqlSpec

\* Every change of a committed local transaction is in its remote database,
\* whichever hooks, connections, commits and server processes fail
\* (SqlAlchemyFdw.pre_commit).
THEOREM CommittedIsRemote ==
    ASSUME ~Doomed
    PROVE  SqlSpec => []NoLostWrite
  <1>1. SqlInv => NoLostWrite
    BY DEF SqlInv
  <1> QED  BY <1>1, SqlInvariance, PTL

\* No instance is left with an open remote transaction, or with remote work,
\* when its local transaction is over.
THEOREM NothingStaysOpen ==
    ASSUME ~Doomed
    PROVE  SqlSpec => []Released
  <1>1. SqlInv => Released
    <2> SUFFICES ASSUME SqlInv, NEW t \in Tables, view[t] = 0
                 PROVE  session[t] \in {"none", "idle"} /\ work \intersect Of(t) = {}
      BY DEF Released
    <2>1. session[t] \in {"none", "idle"}
      BY DEF SqlInv, SqlTypeOK, OpenIsHeld
    <2>2. \A c \in work : c[1] = t <=> c \in Of(t)
      BY ChangesOf DEF SqlInv, SqlTypeOK
    <2> QED  BY <2>1, <2>2 DEF SqlInv, WorkIsOpen
  <1> QED  BY <1>1, SqlInvariance, PTL

\* The remote databases change only before the first instance hears how the
\* local transaction has ended: what pre_commit meets can still be refused.
THEOREM VerdictComesLast ==
    ASSUME ~Doomed
    PROVE  SqlSpec => AppliedBeforeVerdict
  <1>1. SqlInv /\ [SqlNext]_sqlvars => [remote' # remote => \A t \in Tables : told[t] = "none"]_sqlvars
    <2> SUFFICES ASSUME SqlInv, SqlNext, remote' # remote
                 PROVE  \A u \in Tables : told[u] = "none"
      OBVIOUS
    <2>1. \E t \in Tables : PreCommit(t) \/ PreCommitRaises(t) \/ Commit(t)
      BY DEF SqlNext, Begin, BeginRaises, StatementRaises, Write, Rollback, RollbackRaises,
             LateFailure, Abort, Savepoint, ReleaseSavepoint, RollbackToSavepoint,
             NextTransaction, Crash, Restart
    <2>2. PICK t \in Tables : PreCommit(t) \/ PreCommitRaises(t) \/ Commit(t)
      BY <2>1
    <2>3. CASE PreCommit(t)
      BY <2>3 DEF PreCommit, HPreCommit, SqlInv, ProtocolTypeOK, Verdict, Endings
    <2>4. CASE PreCommitRaises(t)
      BY <2>4 DEF PreCommitRaises, SqlInv, ProtocolTypeOK, VotedIsDone, Verdict, Endings
    <2>5. CASE Commit(t)
      <3>1. work = {}
        BY <2>5, NothingLeft DEF Commit, HCommit
      <3> QED  BY <2>5, <3>1 DEF Commit, Commits
    <2> QED  BY <2>2, <2>3, <2>4, <2>5
  <1> QED  BY <1>1, SqlInvariance, PTL DEF SqlSpec, AppliedBeforeVerdict

-----------------------------------------------------------------------------
(* mtime_lru_cache, if every write changes the modification time.          *)

AnyFile == CHOOSE f \in Files : TRUE
Record == [file : Files, mtime : Nat, result : Nat]

\* An entry was read after its modification time, and from a content that the
\* file had.
Fits(e) == e.mtime <= e.result /\ e.result <= content[e.file]

\* Sequences of such entries, one for a file.
Dictionary(s) ==
    /\ s \in Seq(Record)
    /\ \A i, j \in 1 .. Len(s) : s[i].file = s[j].file => i = j
    /\ \A i \in 1 .. Len(s) : Fits(s[i])

\* A caller holds a modification time from the start of its call, and a
\* result that is not older.
CallerOK(t) ==
    /\ t.at # "idle" => t.file \in Files
    /\ t.at \in {"stat", "call", "store"} => t.mtime = t.since /\ t.mtime <= content[t.file]
    /\ t.at = "store" => t.mtime <= t.result /\ t.result <= content[t.file]
    /\ t.at = "done" => t.result >= t.since

FilesOK == content \in [Files -> Nat] /\ mtime = content

CallStates == [at : {"idle", "stat", "call", "store", "done"}, file : Files \union {AnyFile},
          mtime : Nat, result : Nat, since : Nat]

CallersOK ==
    /\ thread \in [Callers -> CallStates]
    /\ \A c \in Callers : CallerOK(thread[c])

MetaInv ==
    /\ FilesOK
    /\ Dictionary(entries) /\ Len(entries) <= MaxSize
    /\ CallersOK

\* RemoveAt shifts what follows by one.
LEMMA Removal ==
    ASSUME NEW S, NEW s \in Seq(S), NEW i \in 1 .. Len(s)
    PROVE  /\ RemoveAt(s, i) \in Seq(S)
           /\ Len(RemoveAt(s, i)) = Len(s) - 1
           /\ \A k \in 1 .. Len(s) - 1 : RemoveAt(s, i)[k] = s[IF k < i THEN k ELSE k + 1]
<1> DEFINE a == SubSeq(s, 1, i - 1)
           b == SubSeq(s, i + 1, Len(s))
<1>1. a \in Seq(S) /\ Len(a) = i - 1 /\ \A k \in 1 .. i - 1 : a[k] = s[k]
  OBVIOUS
<1>2. b \in Seq(S) /\ Len(b) = Len(s) - i /\ \A k \in 1 .. Len(s) - i : b[k] = s[k + i]
  OBVIOUS
<1>3. RemoveAt(s, i) = a \o b
  BY DEF RemoveAt
<1> HIDE DEF a, b
<1>4. a \o b \in Seq(S) /\ Len(a \o b) = Len(s) - 1
  <2>1. a \o b \in Seq(S) /\ Len(a \o b) = Len(a) + Len(b)
    BY <1>1, <1>2, ConcatProperties
  <2> QED  BY <2>1, <1>1, <1>2
<1>5. \A k \in 1 .. Len(s) - 1 : (a \o b)[k] = s[IF k < i THEN k ELSE k + 1]
  <2> SUFFICES ASSUME NEW k \in 1 .. Len(s) - 1
               PROVE  (a \o b)[k] = s[IF k < i THEN k ELSE k + 1]
    OBVIOUS
  <2>0. Len(s) \in Nat /\ k \in Nat /\ i \in Nat
    OBVIOUS
  <2>1. CASE k < i
    BY <2>0, <2>1, <1>1, <1>2, ConcatProperties
  <2>2. CASE ~(k < i)
    <3>1. (a \o b)[k] = b[k - Len(a)]
      BY SMTT(60), <2>0, <2>2, <1>1, <1>2, ConcatProperties
    <3>2. k - (i - 1) \in 1 .. Len(s) - i /\ (k - (i - 1)) + i = k + 1
      BY <2>2
    <3> QED  BY <1>1, <3>1, <3>2, <1>2, <2>0, <2>2
  <2> QED  BY <2>0, <2>1, <2>2
<1> QED  BY <1>3, <1>4, <1>5

\* What pop(filename) leaves: the entries of the other files.
LEMMA WithoutOK ==
    ASSUME NEW f \in Files, Dictionary(entries)
    PROVE  /\ Dictionary(Without(f))
           /\ \A i \in 1 .. Len(Without(f)) : Without(f)[i].file # f
           /\ Len(Without(f)) <= Len(entries)
           /\ Named(f) # {} => Len(Without(f)) = Len(entries) - 1
<1>1. CASE Named(f) = {}
  BY <1>1 DEF Without, Named
<1>2. CASE Named(f) # {}
  <2> DEFINE i == Place(f)
             s == RemoveAt(entries, i)
             g(k) == IF k < i THEN k ELSE k + 1
  <2>1. i \in 1 .. Len(entries) /\ entries[i].file = f
    BY <1>2, Zenon DEF Place, Named
  <2>2. Without(f) = s
    BY <1>2 DEF Without
  <2> HIDE DEF i
  <2>3. s \in Seq(Record) /\ Len(s) = Len(entries) - 1
        /\ \A k \in 1 .. Len(entries) - 1 : s[k] = entries[g(k)]
    BY <2>1, Removal DEF Dictionary
  <2> HIDE DEF s
  <2>4. \A k \in 1 .. Len(entries) - 1 : g(k) \in 1 .. Len(entries) /\ g(k) # i
    BY <2>1 DEF Dictionary
  <2>5. \A k, l \in 1 .. Len(entries) - 1 : g(k) = g(l) => k = l
    BY <2>1 DEF Dictionary
  <2> HIDE DEF g
  <2>6. Dictionary(s)
    <3>1. Len(s) = Len(entries) - 1 /\ Len(entries) \in Nat
      BY <2>3 DEF Dictionary
    <3>2. \A k, l \in 1 .. Len(s) : s[k].file = s[l].file => k = l
      BY <2>3, <2>4, <2>5, <3>1 DEF Dictionary
    <3>3. \A k \in 1 .. Len(s) : Fits(s[k])
      BY <2>3, <2>4, <3>1 DEF Dictionary
    <3> QED  BY <2>3, <3>2, <3>3 DEF Dictionary
  <2>7. \A k \in 1 .. Len(s) : s[k].file # f
    BY <2>1, <2>3, <2>4 DEF Dictionary
  <2> QED  BY <1>2, <2>2, <2>3, <2>6, <2>7, Len(entries) \in Nat DEF Dictionary
<1> QED  BY <1>1, <1>2

\* A file that has no entry gets one at the end.
LEMMA AppendOK ==
    ASSUME NEW s, NEW e \in Record, Dictionary(s), Fits(e),
           \A i \in 1 .. Len(s) : s[i].file # e.file
    PROVE  Dictionary(Append(s, e)) /\ Len(Append(s, e)) = Len(s) + 1
<1>1. /\ Append(s, e) \in Seq(Record) /\ Len(Append(s, e)) = Len(s) + 1 /\ Len(s) \in Nat
      /\ \A i \in 1 .. Len(s) : Append(s, e)[i] = s[i]
      /\ Append(s, e)[Len(s) + 1] = e
  BY DEF Dictionary
<1> QED  BY <1>1 DEF Dictionary

\* popitem(last=False)
LEMMA TailOK ==
    ASSUME NEW s, Dictionary(s), Len(s) > 0
    PROVE  Dictionary(Tail(s)) /\ Len(Tail(s)) = Len(s) - 1
<1>1. /\ Tail(s) \in Seq(Record) /\ Len(Tail(s)) = Len(s) - 1 /\ Len(s) \in Nat
      /\ \A i \in 1 .. Len(s) - 1 : Tail(s)[i] = s[i + 1]
  BY DEF Dictionary
<1> QED  BY <1>1 DEF Dictionary

\* cache[filename] = mtime, result
LEMMA AssignedOK ==
    ASSUME NEW e \in Record, Dictionary(entries), Fits(e)
    PROVE  Dictionary(Assigned(e)) /\ Len(Assigned(e)) <= Len(entries) + 1
<1>1. CASE Named(e.file) = {}
  <2>1. \A i \in 1 .. Len(entries) : entries[i].file # e.file
    BY <1>1 DEF Named
  <2>2. Assigned(e) = Append(entries, e)
    BY <1>1 DEF Assigned
  <2>3. Dictionary(Append(entries, e)) /\ Len(Append(entries, e)) = Len(entries) + 1
    BY <2>1, AppendOK
  <2> QED  BY <2>2, <2>3, Len(entries) \in Nat DEF Dictionary
<1>2. CASE Named(e.file) # {}
  <2> DEFINE s == [i \in 1 .. Len(entries) |-> IF i \in Named(e.file) THEN e ELSE entries[i]]
  <2>1. Assigned(e) = s
    BY <1>2 DEF Assigned
  <2>2. s \in Seq(Record) /\ Len(s) = Len(entries)
    BY DEF Dictionary
  <2>3. \A i \in 1 .. Len(entries) : /\ s[i].file = entries[i].file
                                     /\ Fits(s[i])
    BY DEF Dictionary, Named
  <2> HIDE DEF s
  <2> QED  BY <2>1, <2>2, <2>3 DEF Dictionary
<1> QED  BY <1>1, <1>2

\* Before the first call.
LEMMA MetaInitInv == MetaInit => MetaInv
  BY MetaAssumption DEF MetaInit, MetaInv, FilesOK, CallersOK, CallerOK, CallStates, Dictionary, AnyFile

\* A write changes the modification time, and keeps the older contents older.
LEMMA WriteStep ==
    ASSUME MetaInv, NEW f \in Files, WriteFile(f), ~SameTick
    PROVE  MetaInv'
<1>1. /\ content' = [content EXCEPT ![f] = @ + 1] /\ mtime' = [mtime EXCEPT ![f] = content[f] + 1]
      /\ UNCHANGED <<entries, thread>>
  BY DEF WriteFile
<1>2. FilesOK' /\ \A g \in Files : content'[g] >= content[g]
  BY <1>1 DEF MetaInv, FilesOK
<1>3. Dictionary(entries)'
  <2>1. \A i \in 1 .. Len(entries) : entries[i] \in Record
    BY DEF MetaInv, Dictionary
  <2>2. ASSUME NEW i \in 1 .. Len(entries) PROVE Fits(entries[i])'
    <3>1. entries[i] \in Record /\ Fits(entries[i])
      BY <2>1 DEF MetaInv, Dictionary
    <3>2. entries[i].file \in Files
      BY <3>1 DEF Record
    <3> QED  BY <1>1, <1>2, <3>1, <3>2 DEF Fits, MetaInv, FilesOK, Record
  <2> QED  BY <1>1, <2>2 DEF MetaInv, Dictionary
<1>4. CallersOK'
  BY <1>1, <1>2 DEF MetaInv, CallersOK, CallerOK, CallStates, FilesOK
<1> QED  BY <1>1, <1>2, <1>3, <1>4 DEF MetaInv

\* A caller goes on to t.
LEMMA CallerMoves ==
    ASSUME MetaInv, NEW c \in Callers, NEW t \in CallStates, To(c, t), CallerOK(t), UNCHANGED content
    PROVE  CallersOK'
<1>1. thread' = [thread EXCEPT ![c] = t] /\ thread \in [Callers -> CallStates]
  BY DEF To, MetaInv, CallersOK
<1>2. thread' \in [Callers -> CallStates]
  BY <1>1
<1>3. ASSUME NEW d \in Callers PROVE CallerOK(thread[d])'
  <2>1. CASE d = c
    BY <1>1, <2>1 DEF CallerOK
  <2>2. CASE d # c
    BY <1>1, <2>2 DEF MetaInv, CallersOK, CallerOK
  <2> QED  BY <2>1, <2>2
<1> QED  BY <1>2, <1>3 DEF CallersOK, CallStates

\* The steps of a caller that leave the cache as it is.
LEMMA OutsideStep ==
    ASSUME MetaInv, NEW c \in Callers,
           (\E f \in Files : GetMtime(c, f)) \/ ExtractMeta(c)
    PROVE  MetaInv'
<1>1. FilesOK' /\ Dictionary(entries)' /\ Len(entries)' <= MaxSize
  BY DEF MetaInv, FilesOK, Dictionary, Fits, GetMtime, ExtractMeta
<1>2. CallersOK'
  <2>1. CASE \E f \in Files : GetMtime(c, f)
    BY <2>1 DEF MetaInv, CallersOK, CallerOK, FilesOK, GetMtime, To, CallStates
  <2>2. CASE ExtractMeta(c)
    <3>0. PICK t : t = [thread[c] EXCEPT !.at = "store", !.result = content[thread[c].file]]
      OBVIOUS
    <3>1. To(c, t) /\ content' = content /\ thread[c].at = "call"
      BY <2>2, <3>0 DEF ExtractMeta
    <3>2. /\ thread[c].file \in Files /\ content[thread[c].file] \in Nat
          /\ thread[c].mtime = thread[c].since /\ thread[c].mtime <= content[thread[c].file]
          /\ thread[c] \in CallStates
      BY <3>1 DEF MetaInv, CallersOK, CallerOK, FilesOK
    <3>3. /\ t.at = "store" /\ t.file = thread[c].file /\ t.mtime = thread[c].mtime
          /\ t.result = content[thread[c].file] /\ t.since = thread[c].since /\ t \in CallStates
      BY <3>0, <3>2 DEF CallStates
    <3>4. CallerOK(t)
      BY <3>2, <3>3 DEF CallerOK
    <3> QED  BY <3>1, <3>3, <3>4, CallerMoves
  <2> QED  BY <2>1, <2>2
<1> QED  BY <1>1, <1>2 DEF MetaInv

\* The first locked section: a hit has the modification time that the caller
\* read, so its result is as new.
LEMMA LookUpStep ==
    ASSUME MetaInv, NEW c \in Callers, LookUp(c)
    PROVE  MetaInv'
<1> DEFINE t == thread[c]
           f == t.file
           e == entries[Place(f)]
<1>1. f \in Files /\ t.at = "stat" /\ t.mtime = t.since
  BY DEF MetaInv, CallersOK, CallerOK, LookUp
<1>2. UNCHANGED <<content, mtime>>
  BY DEF LookUp
<1>3. FilesOK'
  BY <1>2 DEF MetaInv, FilesOK
<1>4. /\ Dictionary(Without(f)) /\ \A i \in 1 .. Len(Without(f)) : Without(f)[i].file # f
      /\ Len(Without(f)) <= Len(entries)
      /\ Named(f) # {} => Len(Without(f)) = Len(entries) - 1
  BY <1>1, WithoutOK DEF MetaInv
<1>5. CASE \E i \in Named(f) : entries[i].mtime = t.mtime
  <2>1. PICK i \in Named(f) : entries[i].mtime = t.mtime
    BY <1>5
  <2>2. Place(f) = i
    BY <2>1 DEF Place, Named, MetaInv, Dictionary
  <2>3. e \in Record /\ e.file = f /\ Fits(e) /\ e.mtime = t.mtime
    BY <2>1, <2>2 DEF Named, MetaInv, Dictionary
  <2>4. entries' = Append(Without(f), e) /\ To(c, [t EXCEPT !.at = "done", !.result = e.result])
    BY <1>5 DEF LookUp
  <2> HIDE DEF e
  <2>5. Dictionary(entries') /\ Len(entries') = Len(Without(f)) + 1
    BY <1>4, <2>3, <2>4, AppendOK
  <2>6. Len(entries') <= MaxSize
    BY <1>4, <2>1, <2>5, Len(entries) \in Nat DEF MetaInv, Dictionary
  <2>7. CallersOK'
    <3>1. PICK u : u = [t EXCEPT !.at = "done", !.result = e.result]
      OBVIOUS
    <3>2. t \in CallStates /\ e.result \in Nat /\ e.result >= t.since
      BY <1>1, <2>3 DEF MetaInv, CallersOK, Fits, Record, CallStates
    <3> HIDE DEF t
    <3>3. u \in CallStates /\ u.at = "done" /\ u.result = e.result /\ u.since = t.since /\ u.file = f
      BY <3>1, <3>2 DEF CallStates
    <3>4. CallerOK(u)
      BY <1>1, <3>2, <3>3 DEF CallerOK
    <3> QED  BY <1>2, <2>4, <3>1, <3>3, <3>4, CallerMoves
  <2> QED  BY <1>2, <1>3, <2>5, <2>6, <2>7 DEF MetaInv, Dictionary, Fits
<1>6. CASE ~ \E i \in Named(f) : entries[i].mtime = t.mtime
  <2>1. entries' = Without(f) /\ To(c, [t EXCEPT !.at = "call"])
    BY <1>6 DEF LookUp
  <2>2. CallersOK'
    <3>1. PICK u : u = [t EXCEPT !.at = "call"]
      OBVIOUS
    <3>2. t \in CallStates /\ CallerOK(t)
      BY DEF MetaInv, CallersOK
    <3> HIDE DEF t
    <3>3. /\ u \in CallStates /\ u.at = "call" /\ u.mtime = t.mtime
          /\ u.since = t.since /\ u.file = t.file
      BY <3>1, <3>2 DEF CallStates
    <3>4. CallerOK(u)
      BY <1>1, <3>2, <3>3 DEF CallerOK
    <3> QED  BY <1>2, <2>1, <3>1, <3>3, <3>4, CallerMoves
  <2>3. Len(entries') <= MaxSize
    BY <1>4, <2>1, MetaAssumption, Len(entries) \in Nat, Len(Without(f)) \in Nat DEF MetaInv, Dictionary
  <2> QED  BY <1>2, <1>3, <1>4, <2>1, <2>2, <2>3 DEF MetaInv, Dictionary, Fits
<1> QED  BY <1>5, <1>6

\* The second: the file was read after its modification time.
LEMMA StoreStep ==
    ASSUME MetaInv, NEW c \in Callers, Store(c)
    PROVE  MetaInv'
<1> DEFINE t == thread[c]
           e == Entry(t.file, t.mtime, t.result)
           all == Assigned(e)
<1>1. /\ t.at = "store" /\ UNCHANGED <<content, mtime>>
      /\ entries' = IF Len(all) > MaxSize THEN Tail(all) ELSE all
      /\ To(c, [t EXCEPT !.at = "done"])
  BY Zenon DEF Store
<1>2. e \in Record /\ Fits(e)
  BY <1>1 DEF MetaInv, CallersOK, CallerOK, CallStates, Entry, Record, Fits
<1> HIDE DEF e
<1>3. Dictionary(all) /\ Len(all) <= Len(entries) + 1
  BY <1>2, AssignedOK DEF MetaInv
<1> HIDE DEF all
<1>4. Len(all) \in Nat /\ Len(entries) \in Nat
  BY <1>3 DEF Dictionary, MetaInv
<1>5. Dictionary(entries') /\ Len(entries') <= MaxSize
  <2>1. CASE Len(all) > MaxSize
    <3>1. Dictionary(Tail(all)) /\ Len(Tail(all)) = Len(all) - 1
      BY <1>3, <1>4, <2>1, MetaAssumption, TailOK
    <3> QED  BY <1>1, <1>3, <1>4, <2>1, <3>1, MetaAssumption DEF MetaInv
  <2>2. CASE ~(Len(all) > MaxSize)
    BY <1>1, <1>3, <1>4, <2>2, MetaAssumption
  <2> QED  BY <2>1, <2>2
<1>6. CallersOK'
  <2>1. PICK u : u = [t EXCEPT !.at = "done"]
    OBVIOUS
  <2>2. t \in CallStates /\ t.file \in Files /\ t.result >= t.since
    BY <1>1 DEF MetaInv, CallersOK, CallerOK, FilesOK, CallStates
  <2> HIDE DEF t
  <2>3. /\ u \in CallStates /\ u.at = "done" /\ u.result = t.result
        /\ u.since = t.since /\ u.file = t.file
    BY <2>1, <2>2 DEF CallStates
  <2>4. CallerOK(u)
    BY <2>2, <2>3 DEF CallerOK
  <2> QED  BY <1>1, <2>1, <2>3, <2>4, CallerMoves
<1>7. FilesOK'
  BY <1>1 DEF MetaInv, FilesOK
<1> QED  BY <1>1, <1>5, <1>6, <1>7 DEF MetaInv, Dictionary, Fits

\* Every step of the callers and of the writers.
LEMMA MetaStep ==
    ASSUME MetaInv, [MetaNext]_metavars, ~SameTick
    PROVE  MetaInv'
<1>1. CASE UNCHANGED metavars
  BY <1>1 DEF metavars, MetaInv, FilesOK, Dictionary, Fits, CallersOK, CallerOK
<1>2. CASE \E f \in Files : WriteFile(f)
  BY <1>2, WriteStep
<1>3. ASSUME NEW c \in Callers,
             (\E f \in Files : GetMtime(c, f)) \/ LookUp(c) \/ ExtractMeta(c) \/ Store(c)
      PROVE  MetaInv'
  BY <1>3, OutsideStep, LookUpStep, StoreStep
<1> QED  BY <1>1, <1>2, <1>3 DEF MetaNext

LEMMA MetaInvariance ==
    ASSUME ~SameTick
    PROVE  MetaSpec => []MetaInv
<1>1. MetaInv /\ [MetaNext]_metavars => MetaInv'
  BY MetaStep
<1> QED  BY <1>1, MetaInitInv, PTL DEF MetaSpec

\* mtime_lru_cache holds at most max_size entries, one for a file, and one
\* that a lookup would return is the file's metadata, however many threads
\* look up, read and store at once.
THEOREM MetaCacheSound ==
    ASSUME ~SameTick
    PROVE  MetaSpec => []CacheSound
<1>1. MetaInv => CacheSound
  <2> SUFFICES ASSUME MetaInv, NEW i \in 1 .. Len(entries),
                      entries[i].mtime = mtime[entries[i].file]
               PROVE  entries[i].result = content[entries[i].file]
    BY DEF MetaInv, Dictionary, CacheSound
  <2>1. entries[i] \in Record
    BY DEF MetaInv, Dictionary
  <2> QED  BY <2>1 DEF MetaInv, Dictionary, Fits, FilesOK, Record
<1> QED  BY <1>1, MetaInvariance, PTL

\* wrapper(filename) never returns what was overwritten before it was called.
THEOREM MetaNotStale ==
    ASSUME ~SameTick
    PROVE  MetaSpec => []NotStale
<1>1. MetaInv => NotStale
  BY DEF MetaInv, CallersOK, CallerOK, NotStale
<1> QED  BY <1>1, MetaInvariance, PTL

-----------------------------------------------------------------------------
(* RssFdw.execute.                                                         *)

\* The versions up to n were published so far, all but the last replaced
\* before now.
FeedOK(n) ==
    /\ clock \in Nat
    /\ ended \in [0 .. n -> Nat]
    /\ \A v \in 0 .. n - 1 : ended[v] <= clock

\* Version v was the feed's at time t or later.
Since(n, v, t) == v \in 0 .. n /\ (v = n \/ ended[v] >= t)

\* A fetch takes its time, and has read a version published since it began.
FetchOK(n) ==
    /\ fetch \in [since : Nat, got : 0 .. n \union {NoRows}]
    /\ fetch # NoFetch =>
          /\ fetch.since <= clock /\ clock <= fetch.since + FetchTime
          /\ Since(n, fetch.got, fetch.since)

\* So what the cache holds was the feed at most a fetch before its date.
CacheOK(n) ==
    /\ rssCache \in [date : Nat, values : 0 .. n \union {NoRows}]
    /\ rssCache.date <= clock
    /\ rssCache.values # NoRows =>
          \/ rssCache.values = n
          \/ rssCache.date - ended[rssCache.values] <= FetchTime

AnswerOK(n) ==
    /\ answer \in [values : 0 .. n \union {NoRows}, at : Nat]
    /\ answer.at <= clock
    /\ answer.values # NoRows =>
          \/ answer.values = n
          \/ answer.at - ended[answer.values] <= FetchTime
          \/ answer.at - ended[answer.values] < CacheDuration + FetchTime

RssInv == \E n \in Nat : FeedOK(n) /\ FetchOK(n) /\ CacheOK(n) /\ AnswerOK(n)

\* Published is the last version.
LEMMA LastIsPublished ==
    ASSUME NEW n \in Nat, DOMAIN ended = 0 .. n
    PROVE  Published = n
<1>1. n \in DOMAIN ended /\ n + 1 \notin DOMAIN ended
  OBVIOUS
<1>2. \A v \in DOMAIN ended : v + 1 \notin DOMAIN ended => v = n
  OBVIOUS
<1> QED  BY <1>1, <1>2, Zenon DEF Published

\* Before the first fetch.
LEMMA RssInitInv == RssInit => RssInv
<1> SUFFICES ASSUME RssInit PROVE FeedOK(0) /\ FetchOK(0) /\ CacheOK(0) /\ AnswerOK(0)
  BY Zenon DEF RssInv
<1> QED  BY RssAssumption DEF RssInit, FeedOK, FetchOK, CacheOK, AnswerOK, NoFetch

\* A new version: what was published last is replaced now.
LEMMA PublishStep ==
    ASSUME RssInv, Publish
    PROVE  RssInv'
<1> USE RssAssumption
<1>1. PICK n \in Nat : FeedOK(n) /\ FetchOK(n) /\ CacheOK(n) /\ AnswerOK(n)
  BY Zenon DEF RssInv
<1>2. Published = n
  BY <1>1, LastIsPublished DEF FeedOK
<1>3. /\ ended' = [v \in 0 .. n + 1 |-> IF v <= n - 1 THEN ended[v] ELSE clock]
      /\ UNCHANGED <<clock, rssCache, fetch, answer>>
  BY <1>2 DEF Publish
<1>4. /\ \A v \in 0 .. n - 1 : ended'[v] = ended[v]
      /\ ended'[n] = clock
  BY <1>1, <1>3
<1>5. FeedOK(n + 1)'
  BY <1>1, <1>3, <1>4 DEF FeedOK
<1>6. FetchOK(n + 1)'
  BY <1>1, <1>3, <1>4 DEF FetchOK, FeedOK, Since, NoFetch
<1>7. CacheOK(n + 1)'
  BY <1>1, <1>3, <1>4 DEF CacheOK, FeedOK
<1>8. AnswerOK(n + 1)'
  BY SMTT(60), <1>1, <1>3, <1>4 DEF AnswerOK, FeedOK
<1> QED  BY <1>5, <1>6, <1>7, <1>8, n + 1 \in Nat, Zenon DEF RssInv

\* The other steps leave the feed as it is.
LEMMA ReaderStep ==
    ASSUME RssInv, Tick \/ ExecuteCached \/ ExecuteReads \/ ExecuteStores \/ ExecuteFails
    PROVE  RssInv'
<1> USE RssAssumption
<1>1. PICK n \in Nat : FeedOK(n) /\ FetchOK(n) /\ CacheOK(n) /\ AnswerOK(n)
  BY Zenon DEF RssInv
<1>2. Published = n
  BY <1>1, LastIsPublished DEF FeedOK
<1> SUFFICES (FeedOK(n) /\ FetchOK(n) /\ CacheOK(n) /\ AnswerOK(n))'
  BY Zenon DEF RssInv
<1> USE <1>1, <1>2 DEF FeedOK
<1>3. CASE Tick
  <2>1. clock' = clock + 1 /\ UNCHANGED <<ended, rssCache, fetch, answer>>
    BY <1>3 DEF Tick
  <2>2. FetchOK(n)'
    BY <1>3, <2>1 DEF Tick, FetchOK, Since, NoFetch
  <2>3. CacheOK(n)' /\ AnswerOK(n)'
    BY <2>1 DEF CacheOK, AnswerOK
  <2> QED  BY <2>1, <2>2, <2>3
<1>4. CASE ExecuteCached
  BY SMTT(60), <1>4 DEF ExecuteCached, Young, Returns, FetchOK, CacheOK, AnswerOK
<1>5. CASE ExecuteReads
  BY <1>5 DEF ExecuteReads, FetchOK, CacheOK, AnswerOK, Since
<1>6. CASE ExecuteStores
  BY <1>6 DEF ExecuteStores, Returns, FetchOK, CacheOK, AnswerOK, Since, NoFetch
<1>7. CASE ExecuteFails
  BY <1>7 DEF ExecuteFails, Returns, FetchOK, CacheOK, AnswerOK, NoFetch
<1> QED  BY <1>3, <1>4, <1>5, <1>6, <1>7

\* RssFdw.execute never returns rows of a feed that was replaced
\* cache_duration and the time of a fetch ago or earlier, though the cache is
\* dated when the fetch is over and not when the feed was read.
THEOREM RssNotTooOld == RssSpec => []NotTooOld
<1>1. RssInv /\ [RssNext]_rssvars => RssInv'
  <2> SUFFICES ASSUME RssInv, [RssNext]_rssvars PROVE RssInv'
    OBVIOUS
  <2>1. CASE UNCHANGED rssvars
    BY <2>1 DEF rssvars, RssInv, FeedOK, FetchOK, Since, CacheOK, AnswerOK, NoFetch
  <2> QED  BY <2>1, PublishStep, ReaderStep DEF RssNext
<1>2. RssInv => NotTooOld
  <2> SUFFICES ASSUME NEW n \in Nat, FeedOK(n), AnswerOK(n) PROVE NotTooOld
    BY Zenon DEF RssInv
  <2>1. Published = n
    BY LastIsPublished DEF FeedOK
  <2> QED  BY <2>1 DEF AnswerOK, NotTooOld
<1> QED  BY <1>1, <1>2, RssInitInv, PTL DEF RssSpec

-----------------------------------------------------------------------------
(* MulticornXMLHandler and XMLFdw.execute, if neither elem_tag nor a       *)
(* column is inside an element like it.                                    *)

Tags == Columns \union OtherTags \union {ElemTag}

\* Of the open elements at most one makes a row, and at most one inside it is
\* a column's.
RowPlaces == {i \in 1 .. Len(open) : open[i] = ElemTag}
CellPlaces == {j \in 1 .. Len(open) : open[j] \in Columns /\ \E i \in RowPlaces : i < j}
Flat ==
    /\ open \in Seq(Tags)
    /\ \A i, j \in RowPlaces : i = j
    /\ \A i, j \in CellPlaces : i = j

\* The handler's state is what it needs to know of the open elements, and its
\* row is the row of the document so far.
HandlerOK ==
    /\ root_seen = IF RowPlaces = {} THEN 0 ELSE 1
    /\ tag \in Columns \union {NoTag}
    /\ tag = NoTag <=> CellPlaces = {}
    /\ \A j \in CellPlaces : tag = open[j]
    /\ current_row \in Rowset /\ current_row = wanted.row

Delivered ==
    /\ parsed_rows \in Seq(Rowset) /\ yielded \in Seq(Rowset)
    /\ wanted \in [rows : Seq(Rowset), row : Rowset]
    /\ yielded \o parsed_rows = wanted.rows

XmlInv == Flat /\ HandlerOK /\ Delivered

\* What the document says of its open elements, by their places.
LEMMA OpenElements ==
    ASSUME open \in Seq(Tags)
    PROVE  /\ InRow <=> RowPlaces # {}
           /\ OpenColumns = {open[j] : j \in CellPlaces}
<1>1. InRow <=> RowPlaces # {}
  BY DEF InRow, ToSet, RowPlaces
<1>2. OpenColumns = {open[j] : j \in CellPlaces}
  BY DEF OpenColumns, CellPlaces, RowPlaces
<1> QED  BY <1>1, <1>2

\* tag is the one column that is open.
LEMMA OneOpenColumn ==
    ASSUME XmlInv
    PROVE  OpenColumns = IF tag = NoTag THEN {} ELSE {tag}
<1>1. OpenColumns = {open[j] : j \in CellPlaces}
  BY OpenElements DEF XmlInv, Flat
<1> QED  BY <1>1 DEF XmlInv, HandlerOK

\* At the start of the document.
LEMMA XmlInitInv == XmlInit => XmlInv
<1> SUFFICES ASSUME XmlInit PROVE XmlInv
  OBVIOUS
<1>1. open = << >> /\ RowPlaces = {} /\ CellPlaces = {}
  BY DEF XmlInit, RowPlaces, CellPlaces
<1>2. Empty \in Rowset
  BY DEF Empty, Rowset, Missing
<1>3. Flat /\ HandlerOK
  BY <1>1, <1>2 DEF XmlInit, Flat, HandlerOK
<1>4. Delivered
  BY <1>2 DEF XmlInit, Delivered
<1> QED  BY <1>3, <1>4 DEF XmlInv

\* startElement: an element that makes a row is the first open one, and a
\* column inside it the only one.
LEMMA StartStep ==
    ASSUME XmlInv, NEW name \in Tags, StartElement(name), ~Nested
    PROVE  XmlInv'
<1> DEFINE n == Len(open)
<1>1. /\ open' = Append(open, name)
      /\ root_seen' = IF name = ElemTag THEN root_seen + 1 ELSE root_seen
      /\ IF name \in Columns /\ root_seen = 1
         THEN tag' = name /\ current_row' = [current_row EXCEPT ![name] = 0]
         ELSE UNCHANGED <<tag, current_row>>
      /\ wanted' = WantedStart(name)
      /\ UNCHANGED <<parsed_rows, yielded>>
  BY DEF StartElement
<1>2. ~(name = ElemTag /\ InRow) /\ ~(name \in Columns /\ OpenColumns # {})
  BY Zenon DEF StartElement
<1>3. /\ n \in Nat /\ open' \in Seq(Tags) /\ Len(open') = n + 1
      /\ \A i \in 1 .. n : open'[i] = open[i]
      /\ open'[n + 1] = name
  BY <1>1 DEF XmlInv, Flat
<1>4. /\ InRow <=> RowPlaces # {}
      /\ OpenColumns = {open[j] : j \in CellPlaces}
  BY OpenElements DEF XmlInv, Flat
<1> HIDE DEF n
<1>5. RowPlaces' = RowPlaces \union IF name = ElemTag THEN {n + 1} ELSE {}
  BY <1>3 DEF RowPlaces, n
<1>6. CellPlaces' = CellPlaces \union IF name \in Columns /\ RowPlaces # {} THEN {n + 1} ELSE {}
  BY <1>3, <1>5, XmlAssumption DEF RowPlaces, CellPlaces, n
<1>7. (name = ElemTag => RowPlaces = {}) /\ (name \in Columns => CellPlaces = {})
  BY <1>2, <1>4
<1>8. Flat'
  BY <1>3, <1>5, <1>6, <1>7 DEF XmlInv, Flat
<1>9. root_seen = 1 <=> RowPlaces # {}
  BY DEF XmlInv, HandlerOK
<1>10. /\ current_row' = wanted'.row /\ current_row' \in Rowset
       /\ wanted' = [wanted EXCEPT !.row = current_row']
  <2>1. current_row \in [Columns -> Nat] /\ current_row = wanted.row
    BY DEF XmlInv, HandlerOK, Rowset
  <2>2. CASE name \in Columns /\ RowPlaces # {}
    <3>1. /\ current_row' = [current_row EXCEPT ![name] = 0]
          /\ wanted' = [wanted EXCEPT !.row = [@ EXCEPT ![name] = 0]]
      BY <1>1, <1>4, <1>9, <2>2 DEF WantedStart
    <3> QED  BY <2>1, <3>1 DEF XmlInv, Delivered, Rowset
  <2>3. CASE ~(name \in Columns /\ RowPlaces # {})
    <3>1. current_row' = current_row /\ wanted' = [wanted EXCEPT !.row = @]
      BY <1>1, <1>4, <1>9, <2>3 DEF WantedStart
    <3> QED  BY <2>1, <3>1 DEF XmlInv, Delivered, Rowset
  <2> QED  BY <2>2, <2>3
<1>11. HandlerOK'
  <2>1. root_seen' = IF RowPlaces' = {} THEN 0 ELSE 1
    BY <1>1, <1>5, <1>7 DEF XmlInv, HandlerOK
  <2>2. CASE name \in Columns /\ RowPlaces # {}
    <3>1. tag' = name /\ CellPlaces' = {n + 1} /\ name # NoTag
      BY <1>1, <1>6, <1>7, <1>9, <2>2, XmlAssumption
    <3> QED  BY <1>3, <1>10, <2>1, <2>2, <3>1 DEF HandlerOK
  <2>3. CASE ~(name \in Columns /\ RowPlaces # {})
    <3>1. tag' = tag /\ CellPlaces' = CellPlaces
      BY <1>1, <1>6, <1>9, <2>3
    <3>2. \A j \in CellPlaces : open'[j] = open[j]
      BY <1>3 DEF CellPlaces, n
    <3> QED  BY <1>10, <2>1, <3>1, <3>2 DEF XmlInv, HandlerOK
  <2> QED  BY <2>2, <2>3
<1>12. Delivered'
  BY <1>1, <1>10 DEF XmlInv, Delivered
<1> QED  BY <1>8, <1>11, <1>12 DEF XmlInv

\* characters, wherever the parser has cut the text.
LEMMA CharactersStep ==
    ASSUME XmlInv, NEW n \in Nat, Characters(n)
    PROVE  XmlInv'
<1>1. /\ current_row' = IF tag = NoTag THEN current_row ELSE [current_row EXCEPT ![tag] = @ + n]
      /\ wanted' = WantedText(n)
      /\ UNCHANGED <<parsed_rows, tag, root_seen, open, yielded>>
  BY DEF Characters
<1>2. OpenColumns = IF tag = NoTag THEN {} ELSE {tag}
  BY OneOpenColumn
<1>3. current_row \in [Columns -> Nat] /\ wanted.row = current_row /\ tag \in Columns \union {NoTag}
  BY DEF XmlInv, HandlerOK, Rowset
<1>4. /\ current_row' = [c \in Columns |-> IF c \in OpenColumns THEN current_row[c] + n ELSE current_row[c]]
      /\ current_row' \in Rowset
  <2>1. CASE tag = NoTag
    BY <1>1, <1>2, <1>3, <2>1 DEF Rowset
  <2>2. CASE tag \in Columns /\ tag # NoTag
    <3>1. current_row' = [current_row EXCEPT ![tag] = @ + n] /\ OpenColumns = {tag}
      BY <1>1, <1>2, <2>2
    <3>2. /\ current_row' \in [Columns -> Nat]
          /\ \A c \in Columns : /\ c \in OpenColumns <=> c = tag
                               /\ current_row'[c] = IF c = tag THEN current_row[c] + n ELSE current_row[c]
      BY <1>3, <2>2, <3>1
    <3> QED  BY <3>2 DEF Rowset
  <2> QED  BY <1>3, <2>1, <2>2
<1>5. wanted' = [wanted EXCEPT !.row = current_row']
  BY <1>1, <1>3, <1>4 DEF WantedText
<1>6. Flat' /\ RowPlaces' = RowPlaces /\ CellPlaces' = CellPlaces
  BY <1>1 DEF XmlInv, Flat, RowPlaces, CellPlaces
<1>7. HandlerOK'
  BY <1>1, <1>4, <1>5, <1>6 DEF XmlInv, HandlerOK, Delivered
<1>8. Delivered'
  BY <1>1, <1>4, <1>5 DEF XmlInv, Delivered
<1> QED  BY <1>6, <1>7, <1>8 DEF XmlInv

\* endElement closes the innermost element.
LEMMA EndStep ==
    ASSUME XmlInv, EndElement
    PROVE  XmlInv'
<1> DEFINE n == Len(open)
           name == open[n]
<1>1. /\ open # << >> /\ open' = Front(open)
      /\ IF name = ElemTag
         THEN /\ root_seen' = root_seen - 1
              /\ parsed_rows' = Append(parsed_rows, current_row)
              /\ current_row' = Empty
         ELSE UNCHANGED <<root_seen, parsed_rows, current_row>>
      /\ tag' = IF name \in Columns THEN NoTag ELSE tag
      /\ wanted' = WantedEnd(name)
      /\ UNCHANGED yielded
  BY DEF EndElement, Last
<1>2. /\ n \in Nat \ {0} /\ open' \in Seq(Tags) /\ Len(open') = n - 1
      /\ \A i \in 1 .. n - 1 : open'[i] = open[i]
  <2>1. open \in Seq(Tags) /\ n = Len(open) /\ n \in Nat /\ n # 0
    BY <1>1, EmptySeq DEF XmlInv, Flat
  <2>2. n - 1 \in Nat /\ open' = SubSeq(open, 1, n - 1)
    BY <1>1, <2>1 DEF Front
  <2> HIDE DEF n
  <2> QED  BY <2>1, <2>2, SubSeqProperties
<1> HIDE DEF n, name
<1>3. RowPlaces' = RowPlaces \ {n}
  BY <1>2 DEF RowPlaces, n
<1>4. CellPlaces' = CellPlaces \ {n}
  BY SMTT(60), <1>2, <1>3 DEF RowPlaces, CellPlaces, n
<1>5. Flat'
  BY <1>2, <1>3, <1>4 DEF XmlInv, Flat
<1>6. /\ name = ElemTag <=> n \in RowPlaces
      /\ name = ElemTag => CellPlaces = {}
      /\ n \in CellPlaces <=> name \in Columns /\ RowPlaces # {}
      /\ RowPlaces = {} => CellPlaces = {}
  BY <1>2, XmlAssumption DEF XmlInv, Flat, RowPlaces, CellPlaces, n, name
<1>7. Empty \in Rowset
  BY DEF Empty, Rowset, Missing
<1>8. HandlerOK'
  <2>1. root_seen' = IF RowPlaces' = {} THEN 0 ELSE 1
    BY <1>1, <1>3, <1>6 DEF XmlInv, HandlerOK, Flat
  <2>2. current_row' = wanted'.row /\ current_row' \in Rowset
    BY <1>1, <1>7 DEF XmlInv, HandlerOK, Delivered, WantedEnd
  <2>3. tag' = NoTag <=> CellPlaces' = {}
    BY <1>1, <1>4, <1>6 DEF XmlInv, HandlerOK, Flat
  <2>4. \A j \in CellPlaces' : tag' = open'[j]
    BY <1>1, <1>2, <1>4, <1>6 DEF XmlInv, HandlerOK, Flat, CellPlaces, n
  <2>5. tag' \in Columns \union {NoTag}
    BY <1>1 DEF XmlInv, HandlerOK
  <2> QED  BY <2>1, <2>2, <2>3, <2>4, <2>5 DEF HandlerOK
<1>9. Delivered'
  <2>1. CASE name = ElemTag
    <3>1. /\ parsed_rows' = Append(parsed_rows, current_row)
          /\ wanted' = [rows |-> Append(wanted.rows, current_row), row |-> Empty]
          /\ current_row \in Rowset
      BY <1>1, <2>1 DEF XmlInv, HandlerOK, WantedEnd
    <3>2. yielded \o Append(parsed_rows, current_row) = Append(yielded \o parsed_rows, current_row)
      BY <3>1 DEF XmlInv, Delivered
    <3> QED  BY <1>1, <1>7, <3>1, <3>2 DEF XmlInv, Delivered
  <2>2. CASE name # ElemTag
    BY <1>1, <2>2 DEF XmlInv, Delivered, WantedEnd
  <2> QED  BY <2>1, <2>2
<1> QED  BY <1>5, <1>8, <1>9 DEF XmlInv

\* get_rows, at the end of a buffer.
LEMMA GetRowsStep ==
    ASSUME XmlInv, GetRows
    PROVE  XmlInv'
<1>1. /\ yielded' = yielded \o parsed_rows /\ parsed_rows' = << >>
      /\ UNCHANGED <<current_row, tag, root_seen, open, events, wanted>>
  BY DEF GetRows
<1>2. Delivered'
  BY <1>1, ConcatProperties, ConcatEmptySeq DEF XmlInv, Delivered
<1>3. Flat' /\ RowPlaces' = RowPlaces /\ CellPlaces' = CellPlaces
  BY <1>1 DEF XmlInv, Flat, RowPlaces, CellPlaces
<1> QED  BY <1>1, <1>2, <1>3 DEF XmlInv, HandlerOK

\* XMLFdw.execute yields the rows of the document, in order and each once,
\* wherever its buffers and the parser's pieces of text end.
THEOREM XmlRowsOfDocument ==
    ASSUME ~Nested
    PROVE  XmlSpec => []RowsOfDocument
<1>1. XmlInv /\ [XmlNext]_xmlvars => XmlInv'
  <2> SUFFICES ASSUME XmlInv, [XmlNext]_xmlvars PROVE XmlInv'
    OBVIOUS
  <2>1. CASE UNCHANGED xmlvars
    BY <2>1 DEF xmlvars, handler, XmlInv, Flat, HandlerOK, RowPlaces, CellPlaces, Delivered
  <2>2. CASE \E name \in Tags : StartElement(name)
    BY <2>2, StartStep
  <2>3. CASE \E n \in {1, 2} : Characters(n)
    BY <2>3, CharactersStep
  <2> QED  BY <2>1, <2>2, <2>3, EndStep, GetRowsStep, Zenon DEF XmlNext, Tags
<1>2. XmlInv => RowsOfDocument
  BY DEF XmlInv, Delivered, RowsOfDocument
<1> QED  BY <1>1, <1>2, XmlInitInv, PTL DEF XmlSpec

=============================================================================
