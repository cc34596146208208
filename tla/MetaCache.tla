------------------------------ MODULE MetaCache ------------------------------
(***************************************************************************)
(* mtime_lru_cache of multicorn.fsfdw.docutils_meta, with which the        *)
(* ReStructuredTextFdw reads the metadata of its files: a bounded cache    *)
(* keyed on the file name, valid while the modification time is the same.  *)
(* A call reads the modification time, looks into the cache under the      *)
(* lock, reads the file without it, and stores under the lock; other       *)
(* threads and the programs that write the files come in between.          *)
(*                                                                         *)
(* The metadata of a file is the number of times it was written; whether a *)
(* write also changes the modification time depends on the clock.          *)
(***************************************************************************)
EXTENDS Naturals, Sequences, SequencesExt

CONSTANTS
    Callers,    \* threads
    Files,
    MaxSize,    \* max_size
    MaxWrites,  \* bound on the writes to a file
    SameTick    \* a write may leave the modification time unchanged

ASSUME MetaAssumption ==
    /\ MaxSize \in Nat \ {0} /\ MaxWrites \in Nat /\ SameTick \in BOOLEAN

VARIABLES
    content,    \* content[f]: what extract_meta would return
    mtime,      \* mtime[f]: the modification time
    entries,    \* the OrderedDict, least recent first: [file, mtime, result]
    thread      \* thread[c]: where caller c is

metavars == <<content, mtime, entries, thread>>

Versions == 0 .. MaxWrites

MetaTypeOK ==
    /\ content \in [Files -> Versions] /\ mtime \in [Files -> Versions]
    /\ entries \in Seq([file : Files, mtime : Versions, result : Versions])
    /\ thread \in [Callers -> [at : {"idle", "stat", "call", "store", "done"}, file : Files,
                               mtime : Versions, result : Versions, since : Versions]]

Named(f) == {i \in 1 .. Len(entries) : entries[i].file = f}
Place(f) == CHOOSE i \in Named(f) : TRUE
Without(f) == IF Named(f) = {} THEN entries ELSE RemoveAt(entries, Place(f))
Entry(f, m, v) == [file |-> f, mtime |-> m, result |-> v]
To(c, t) == thread' = [thread EXCEPT ![c] = t]

MetaInit ==
    /\ content = [f \in Files |-> 0] /\ mtime = [f \in Files |-> 0]
    /\ entries = << >>
    /\ thread = [c \in Callers |->
          [at |-> "idle", file |-> CHOOSE f \in Files : TRUE, mtime |-> 0, result |-> 0, since |-> 0]]

\* External: somebody writes the file.
WriteFile(f) ==
    /\ content[f] < MaxWrites
    /\ content' = [content EXCEPT ![f] = @ + 1]
    /\ \/ mtime' = [mtime EXCEPT ![f] = content[f] + 1]
       \/ SameTick /\ UNCHANGED mtime
    /\ UNCHANGED <<entries, thread>>

\* wrapper(filename): getmtime.  since: the content when the call began.
GetMtime(c, f) ==
    /\ thread[c].at \in {"idle", "done"}
    /\ To(c, [at |-> "stat", file |-> f, mtime |-> mtime[f],
              result |-> 0, since |-> content[f]])
    /\ UNCHANGED <<content, mtime, entries>>

\* Mutant: a cached result is returned whatever its modification time.
LookUpUnchecked(c) ==
    LET t == thread[c]  f == t.file  hit == Named(f) # {} IN
    /\ t.at = "stat"
    /\ IF hit
       THEN LET e == entries[Place(f)] IN
            /\ entries' = Append(Without(f), e)
            /\ To(c, [t EXCEPT !.at = "done", !.result = e.result])
       ELSE entries' = Without(f) /\ To(c, [t EXCEPT !.at = "call"])
    /\ UNCHANGED <<content, mtime>>

\* The first locked section: a valid entry moves to the end and is returned,
\* an invalid one is dropped.
LookUp(c) ==
    LET t == thread[c]
        f == t.file
        hit == \E i \in Named(f) : entries[i].mtime = t.mtime
    IN
    /\ t.at = "stat"
    /\ IF hit
       THEN LET e == entries[Place(f)] IN
            /\ entries' = Append(Without(f), e)
            /\ To(c, [t EXCEPT !.at = "done", !.result = e.result])
       ELSE entries' = Without(f) /\ To(c, [t EXCEPT !.at = "call"])
    /\ UNCHANGED <<content, mtime>>

\* function(filename): extract_meta opens and reads the file.
ExtractMeta(c) ==
    /\ thread[c].at = "call"
    /\ To(c, [thread[c] EXCEPT !.at = "store", !.result = content[thread[c].file]])
    /\ UNCHANGED <<content, mtime, entries>>

\* An assignment to a key that another thread has stored in the meantime
\* leaves it at its place.
Assigned(e) ==
    IF Named(e.file) = {} THEN Append(entries, e)
    ELSE [i \in 1 .. Len(entries) |-> IF i \in Named(e.file) THEN e ELSE entries[i]]

\* Mutant: the modification time is read again when the result is stored.
StoreRestat(c) ==
    LET t == thread[c]  all == Assigned(Entry(t.file, mtime[t.file], t.result)) IN
    /\ t.at = "store"
    /\ entries' = IF Len(all) > MaxSize THEN Tail(all) ELSE all
    /\ To(c, [t EXCEPT !.at = "done"])
    /\ UNCHANGED <<content, mtime>>

\* The second locked section: store, and drop the least recent entry.
Store(c) ==
    LET t == thread[c]  all == Assigned(Entry(t.file, t.mtime, t.result)) IN
    /\ t.at = "store"
    /\ entries' = IF Len(all) > MaxSize THEN Tail(all) ELSE all
    /\ To(c, [t EXCEPT !.at = "done"])
    /\ UNCHANGED <<content, mtime>>

MetaNext ==
    \/ \E f \in Files : WriteFile(f)
    \/ \E c \in Callers : \/ \E f \in Files : GetMtime(c, f)
                          \/ LookUp(c) \/ ExtractMeta(c) \/ Store(c)

MetaSpec == MetaInit /\ [][MetaNext]_metavars

-----------------------------------------------------------------------------

\* However many threads fill it at once, the cache holds at most max_size
\* entries, no two of them for one file, and an entry whose modification time
\* is the file's holds the file's metadata.
CacheSound ==
    /\ Len(entries) <= MaxSize
    /\ \A i, j \in 1 .. Len(entries) : entries[i].file = entries[j].file => i = j
    /\ \A i \in 1 .. Len(entries) :
          entries[i].mtime = mtime[entries[i].file] => entries[i].result = content[entries[i].file]

\* What a call returns the file contained at some moment of the call: never
\* the metadata of a version that was overwritten before the call began,
\* though the modification time and the file are read at different moments.
\* Every write changes the modification time.
NotStale == \A c \in Callers : thread[c].at = "done" => thread[c].result >= thread[c].since
=============================================================================
