-------------------------------- MODULE FsFdw --------------------------------
(***************************************************************************)
(* multicorn.fsfdw.FilesystemFdw: a foreign table whose rows are files.    *)
(* Every backend keeps its own instance: the operations of the running     *)
(* transaction, the files it must not show, the contents it must show      *)
(* instead of the files', and a cache of locked file descriptors.  The     *)
(* instances of several backends meet on the disk, through flock() only.   *)
(*                                                                         *)
(* A method is cut where another backend can come in between: at every     *)
(* open(), flock() and write of Item.open, Item.read and Item.write, and   *)
(* between the operations that pre_commit and rollback replay.             *)
(*                                                                         *)
(* A row is a file name (the columns of the pattern determine it) and a    *)
(* content that is not null.                                               *)
(***************************************************************************)
EXTENDS Naturals, Sequences, SequencesExt

CONSTANTS
    Backends,    \* server processes, one FilesystemFdw instance each
    Names,       \* full_filename values
    Contents,    \* what the content column may hold
    Empty,       \* the empty content
    NULL,        \* no file, no descriptor, no entry
    Inodes,      \* bound on the files that exist, linked or not
    MaxOps,      \* bound on the operations of a transaction
    Statements   \* what the clients do

StatementKinds == {"insert", "delete", "update", "rename", "abort",
                   "recreate", "clobber"}

ASSUME FsAssumption ==
    /\ MaxOps \in Nat
    /\ Empty \in Contents /\ NULL \notin Contents \union Names \union Inodes
    /\ Statements \subseteq StatementKinds

VARIABLES
    dir,        \* dir[n]: the inode linked at name n, or NULL
    data,       \* data[i]: the content of inode i
    phase,      \* phase[b]: where backend b is in its transaction
    call,       \* call[b]: the method call in progress
    hand,       \* hand[b]: inode of the descriptor being locked, or NULL
    seen,       \* seen[b]: rows the running scan has returned
    ops,        \* current_transaction_state
    next,       \* next[b]: the operation that pre_commit or rollback is at
    invisible,  \* invisible_files
    updated,    \* updated_content
    cache,      \* structured_directory.cache: name -> descriptor, or NULL
    table       \* the rows committed so far (history, read by no action)

disk == <<dir, data>>
memory == <<ops, invisible, updated, cache>>
vars == <<disk, phase, call, hand, seen, next, memory, table>>

(* A cached descriptor: its inode, and whether it is read-only with a shared *)
(* lock, read-write with an exclusive lock, or closed behind the cache's     *)
(* back.  The flag kept in the cache is TRUE exactly if it is not "ex".      *)
Fds == [ino : Inodes, kind : {"sh", "ex", "closed"}]
ASSUME NullAssumption == NULL \notin Fds

Ops == [kind : {"insert", "update", "delete"}, old : Names \union {NULL},
        oldContent : Contents \union {NULL}, new : Names \union {NULL},
        content : Contents \union {NULL}]

Op(kind, old, oldContent, new, content) ==
    [kind |-> kind, old |-> old, oldContent |-> oldContent,
     new |-> new, content |-> content]

\* A call: what it does, what it opens next ("read": shared; "old", "new":
\* exclusively), and its operands.
Calls == [kind : {"none", "read", "insert", "update", "delete", "apply", "undo"},
          at : {"none", "read", "old", "new"}, op : Ops \union {NULL}]

Call(kind, at, op) == [kind |-> kind, at |-> at, op |-> op]
NoCall == Call("none", "none", NULL)

TypeOK ==
    /\ dir \in [Names -> Inodes \union {NULL}]
    /\ data \in [Inodes -> Contents]
    /\ phase \in [Backends -> {"idle", "xact", "pre_commit", "rollback"}]
    /\ call \in [Backends -> Calls]
    /\ hand \in [Backends -> Inodes \union {NULL}]
    /\ seen \in [Backends -> SUBSET Names]
    /\ ops \in [Backends -> Seq(Ops)] /\ next \in [Backends -> Nat]
    /\ \A b \in Backends : next[b] <= Len(ops[b]) + 1
    /\ invisible \in [Backends -> SUBSET Names]
    /\ updated \in [Backends -> [Names -> Contents \union {NULL}]]
    /\ cache \in [Backends -> [Names -> Fds \union {NULL}]]
    /\ table \in [Names -> Contents \union {NULL}]

-----------------------------------------------------------------------------
(* Helpers.                                                                *)

Holds(b, n, kinds) == cache[b][n] # NULL /\ cache[b][n].kind \in kinds

\* flock: shared locks exclude exclusive ones, of other backends.
CanLock(b, i, kinds) ==
    \A c \in Backends \ {b}, n \in Names :
        Holds(c, n, kinds) => cache[c][n].ino # i

\* An inode that no name and no descriptor refers to.
FreeInodes ==
    {i \in Inodes : /\ \A n \in Names : dir[n] # i
                    /\ \A b \in Backends : hand[b] # i
                    /\ \A b \in Backends, n \in Names :
                          Holds(b, n, {"sh", "ex"}) => cache[b][n].ino # i}

SetCache(b, n, fd) == cache' = [cache EXCEPT ![b][n] = fd]
SetCall(b, c) == call' = [call EXCEPT ![b] = c]

Ready(b) == phase[b] = "xact" /\ call[b] = NoCall

\* An exception.  In a statement or in pre_commit it aborts the transaction,
\* and rollback will be called; in rollback it is the end of the hook.
Raise(b) ==
    /\ SetCall(b, NoCall)
    /\ hand' = [hand EXCEPT ![b] = NULL]
    /\ seen' = [seen EXCEPT ![b] = {}]
    /\ phase' = [phase EXCEPT ![b] = IF @ = "rollback" THEN "idle" ELSE "rollback"]
    /\ next' = [next EXCEPT ![b] = IF phase[b] = "rollback" THEN 0 ELSE Len(ops[b])]

\* A row of a scan, or an operation, is done.
Append1(b, op) ==
    /\ ops' = [ops EXCEPT ![b] = Append(@, op)]
    /\ SetCall(b, NoCall)

\* The rows as transaction b means them to be: the last operation on a file
\* decides what becomes of it.
Touches(op, n) == n \in {op.old, op.new}
Touching(b, n) == {k \in 1 .. Len(ops[b]) : Touches(ops[b][k], n)}
Outcome(op, n) == IF op.new = n THEN op.content ELSE NULL
Intended(b) ==
    [n \in Names |-> IF Touching(b, n) = {} THEN table[n]
                     ELSE Outcome(ops[b][Max(Touching(b, n))], n)]

\* Item.read goes through a cached descriptor if there is one.
FileOf(b, n) == IF Holds(b, n, {"sh", "ex"}) THEN cache[b][n].ino ELSE dir[n]

\* What a scan of backend b returns: get_items and items_to_dicts.
View(b) ==
    [n \in Names |->
        IF dir[n] = NULL \/ n \in invisible[b] THEN NULL
        ELSE IF updated[b][n] # NULL THEN updated[b][n]
        ELSE data[FileOf(b, n)]]

-----------------------------------------------------------------------------
(* Transactions and scans.                                                 *)

Begin(b) ==
    /\ phase[b] = "idle"
    /\ phase' = [phase EXCEPT ![b] = "xact"]
    /\ UNCHANGED <<disk, call, hand, seen, next, memory, table>>

\* A scan comes to file n: items_to_dicts skips it, shows the updated content
\* or calls read.
ScanRow(b, n) ==
    /\ Ready(b) /\ dir[n] # NULL /\ n \notin invisible[b] /\ n \notin seen[b]
    /\ \/ /\ updated[b][n] # NULL
          /\ seen' = [seen EXCEPT ![b] = @ \union {n}]
          /\ UNCHANGED call
       \/ /\ updated[b][n] = NULL
          /\ SetCall(b, Call("read", "read", Op("update", n, NULL, NULL, NULL)))
          /\ UNCHANGED seen
    /\ UNCHANGED <<disk, phase, hand, next, memory, table>>

ScanEnds(b) == Ready(b) /\ (seen[b] # {} \/ \E n \in Names : Holds(b, n, {"sh"}))

\* clear_cache closes what it drops: it comes to a closed descriptor, drops
\* that as well and raises, and what comes after it stays in the cache.
ClearCacheRaises(b, kinds) ==
    \E n \in Names, done \in SUBSET Names :
        /\ Holds(b, n, {"closed"})
        /\ \A m \in done : Holds(b, m, kinds)
        /\ cache' = [cache EXCEPT ![b] =
                       [m \in Names |-> IF m \in done \union {n} THEN NULL ELSE @[m]]]

\* Mutant: end_scan clears the whole cache.
EndScanAll(b) ==
    /\ ScanEnds(b) /\ ~ \E n \in Names : Holds(b, n, {"closed"})
    /\ seen' = [seen EXCEPT ![b] = {}]
    /\ cache' = [cache EXCEPT ![b] = [n \in Names |-> NULL]]
    /\ UNCHANGED <<disk, phase, call, hand, next, ops, invisible, updated, table>>

\* end_scan: clear_cache(only_shared=True).
EndScan(b) ==
    /\ ScanEnds(b) /\ ~ \E n \in Names : Holds(b, n, {"closed"})
    /\ seen' = [seen EXCEPT ![b] = {}]
    /\ cache' = [cache EXCEPT ![b] =
                    [n \in Names |-> IF Holds(b, n, {"sh"}) THEN NULL ELSE @[n]]]
    /\ UNCHANGED <<disk, phase, call, hand, next, ops, invisible, updated, table>>

EndScanRaises(b) ==
    /\ ScanEnds(b) /\ ClearCacheRaises(b, {"sh"})
    /\ Raise(b)
    /\ UNCHANGED <<disk, ops, invisible, updated, table>>

-----------------------------------------------------------------------------
(* Item.open, Item.read.                                                   *)

\* The content c of the file is there: read returns it to the scan, or to
\* update, which goes on to lock the old file.
ReadReturns(b, c) ==
    LET op == call[b].op IN
    \/ /\ call[b].kind = "read"
       /\ SetCall(b, NoCall)
       /\ seen' = [seen EXCEPT ![b] = @ \union {op.old}]
       /\ UNCHANGED updated
    \/ /\ call[b].kind = "update"
       /\ SetCall(b, Call("update", "old", [op EXCEPT !.oldContent = c]))
       /\ updated' = [updated EXCEPT ![b][op.new] = op.content]
       /\ UNCHANGED seen

\* open(shared_lock=True) with a descriptor in the cache takes no lock.
OpenCached(b) ==
    /\ call[b].at = "read" /\ hand[b] = NULL /\ Holds(b, call[b].op.old, {"sh", "ex"})
    /\ ReadReturns(b, data[cache[b][call[b].op.old].ino])
    /\ UNCHANGED <<disk, phase, hand, next, ops, invisible, cache, table>>

OpenShared(b) ==
    /\ call[b].at = "read" /\ hand[b] = NULL
    /\ cache[b][call[b].op.old] = NULL /\ dir[call[b].op.old] # NULL
    /\ hand' = [hand EXCEPT ![b] = dir[call[b].op.old]]
    /\ UNCHANGED <<disk, phase, call, seen, next, memory, table>>

LockShared(b) ==
    /\ call[b].at = "read" /\ hand[b] # NULL /\ CanLock(b, hand[b], {"ex"})
    /\ SetCache(b, call[b].op.old, [ino |-> hand[b], kind |-> "sh"])
    /\ hand' = [hand EXCEPT ![b] = NULL]
    /\ ReadReturns(b, data[hand[b]])
    /\ UNCHANGED <<disk, phase, next, ops, invisible, table>>

\* The file is gone, or the cached descriptor is closed.
OpenSharedRaises(b) ==
    /\ call[b].at = "read" /\ hand[b] = NULL
    /\ \/ cache[b][call[b].op.old] = NULL /\ dir[call[b].op.old] = NULL
       \/ Holds(b, call[b].op.old, {"closed"})
    /\ Raise(b)
    /\ UNCHANGED <<disk, memory, table>>

\* The file that open(shared_lock=False) is about to open.
Target(b) == IF call[b].at = "old" THEN call[b].op.old ELSE call[b].op.new

\* fail_if: "missing" for a file to be changed, "exists" for one to be
\* created, nothing when pre_commit or rollback writes.
FailIf(b) ==
    CASE call[b].kind \in {"apply", "undo"} -> "nothing"
      [] call[b].kind \notin {"apply", "undo"} /\ call[b].at = "old" -> "missing"
      [] OTHER -> "exists"

\* Mutant: O_EXCL is left out.
OpenFailsMissing(b, n) == FailIf(b) = "missing" /\ dir[n] = NULL

OpenFails(b, n) ==
    \/ FailIf(b) = "missing" /\ dir[n] = NULL
    \/ FailIf(b) = "exists" /\ dir[n] # NULL

Opening(b) == call[b].at \in {"old", "new"} /\ hand[b] = NULL

\* A read-write descriptor is used again, and fail_if is not looked at.
ReuseExclusive(b) ==
    /\ Opening(b) /\ Holds(b, Target(b), {"ex"})
    /\ hand' = [hand EXCEPT ![b] = cache[b][Target(b)].ino]
    /\ UNCHANGED <<disk, phase, call, seen, next, memory, table>>

\* Mutant: the read-only descriptor stays open, and locked.
CloseSharedLater(b) == UNCHANGED cache

\* A read-only descriptor is closed, which drops its lock, before the file
\* is opened again.
CloseShared(b) ==
    IF Holds(b, Target(b), {"sh"})
    THEN SetCache(b, Target(b), [cache[b][Target(b)] EXCEPT !.kind = "closed"])
    ELSE UNCHANGED cache

OpenExclusive(b) ==
    LET n == Target(b) IN
    /\ Opening(b) /\ ~Holds(b, n, {"ex", "closed"}) /\ ~OpenFails(b, n)
    /\ CloseShared(b)
    /\ \/ /\ dir[n] # NULL
          /\ hand' = [hand EXCEPT ![b] = dir[n]]
          /\ UNCHANGED disk
       \/ /\ dir[n] = NULL
          /\ \E i \in FreeInodes :
                /\ hand' = [hand EXCEPT ![b] = i]
                /\ dir' = [dir EXCEPT ![n] = i]
                /\ data' = [data EXCEPT ![i] = Empty]
    /\ UNCHANGED <<phase, call, seen, next, ops, invisible, updated, table>>

\* os.open raises: the closed descriptor stays in the cache.
OpenExclusiveRaises(b) ==
    /\ Opening(b)
    /\ \/ ~Holds(b, Target(b), {"ex"}) /\ OpenFails(b, Target(b))
       \/ Holds(b, Target(b), {"closed"})
    /\ CloseShared(b)
    /\ Raise(b)
    /\ UNCHANGED <<disk, ops, invisible, updated, table>>

-----------------------------------------------------------------------------
(* insert, update, delete.                                                 *)

\* The transaction names a file that it holds already, only if the clients
\* do so: one it created, moved or deleted, or one its scan is reading.
MayName(b, n) ==
    \/ cache[b][n] = NULL
    \/ "recreate" \in Statements /\ Holds(b, n, {"ex"})
    \/ "clobber" \in Statements /\ Holds(b, n, {"sh"})

DML(b) == Ready(b) /\ Len(ops[b]) < MaxOps

Insert(b, n, c) ==
    /\ "insert" \in Statements /\ DML(b) /\ MayName(b, n)
    /\ SetCall(b, Call("insert", "new", Op("insert", NULL, NULL, n, c)))
    /\ UNCHANGED <<disk, phase, hand, seen, next, memory, table>>

Delete(b, n) ==
    /\ "delete" \in Statements /\ DML(b) /\ n \in seen[b]
    /\ SetCall(b, Call("delete", "old", Op("delete", n, NULL, NULL, NULL)))
    /\ seen' = [seen EXCEPT ![b] = @ \ {n}]
    /\ UNCHANGED <<disk, phase, hand, next, memory, table>>

\* Mutant: the old content is not read from the file.
UpdateUnread(b, n, m, c) ==
    /\ DML(b) /\ n \in seen[b]
    /\ IF m = n THEN "update" \in Statements
                ELSE "rename" \in Statements /\ MayName(b, m)
    /\ SetCall(b, Call("update", "old", Op("update", n, updated[b][n], m, c)))
    /\ updated' = [updated EXCEPT ![b][m] = c]
    /\ seen' = [seen EXCEPT ![b] = @ \ {n}]
    /\ UNCHANGED <<disk, phase, hand, next, ops, invisible, cache, table>>

\* The old content comes from updated_content, or from the file if that has
\* nothing or the empty content.
Update(b, n, m, c) ==
    /\ DML(b) /\ n \in seen[b]
    /\ IF m = n THEN "update" \in Statements
                ELSE "rename" \in Statements /\ MayName(b, m)
    /\ \/ /\ updated[b][n] \in {NULL, Empty}
          /\ SetCall(b, Call("update", "read", Op("update", n, NULL, m, c)))
          /\ UNCHANGED updated
       \/ /\ updated[b][n] \notin {NULL, Empty}
          /\ SetCall(b, Call("update", "old", Op("update", n, updated[b][n], m, c)))
          /\ updated' = [updated EXCEPT ![b][m] = c]
    /\ seen' = [seen EXCEPT ![b] = @ \ {n}]
    /\ UNCHANGED <<disk, phase, hand, next, ops, invisible, cache, table>>

\* Mutant: LOCK_SH for LOCK_EX.
LocksShared(b) ==
    /\ call[b].at \in {"old", "new"} /\ hand[b] # NULL
    /\ hand' = [hand EXCEPT ![b] = NULL]

\* flock(LOCK_EX) returns and the descriptor goes into the cache.
Locks(b) ==
    /\ call[b].at \in {"old", "new"} /\ hand[b] # NULL
    /\ CanLock(b, hand[b], {"sh", "ex"})
    /\ hand' = [hand EXCEPT ![b] = NULL]

Locked(b) == [ino |-> hand[b], kind |-> "ex"]

InsertReturns(b) ==
    /\ call[b].kind = "insert" /\ Locks(b)
    /\ SetCache(b, call[b].op.new, Locked(b))
    /\ invisible' = [invisible EXCEPT ![b] = @ \ {call[b].op.new}]
    /\ updated' = [updated EXCEPT ![b][call[b].op.new] = call[b].op.content]
    /\ Append1(b, call[b].op)
    /\ UNCHANGED <<disk, phase, seen, next, table>>

DeleteReturns(b) ==
    /\ call[b].kind = "delete" /\ Locks(b)
    /\ SetCache(b, call[b].op.old, Locked(b))
    /\ invisible' = [invisible EXCEPT ![b] = @ \union {call[b].op.old}]
    /\ Append1(b, call[b].op)
    /\ UNCHANGED <<disk, phase, seen, next, updated, table>>

\* The old file is locked; the new one, if it is another, is opened next.
UpdateLocksOld(b) ==
    /\ call[b].kind = "update" /\ call[b].at = "old" /\ Locks(b)
    /\ SetCache(b, call[b].op.old, Locked(b))
    /\ IF call[b].op.old = call[b].op.new
       THEN Append1(b, call[b].op)
       ELSE SetCall(b, [call[b] EXCEPT !.at = "new"]) /\ UNCHANGED ops
    /\ UNCHANGED <<disk, phase, seen, next, invisible, updated, table>>

\* Mutant: the old name stays visible.
UpdateShowsOld(b) ==
    /\ call[b].kind = "update" /\ call[b].at = "new" /\ Locks(b)
    /\ SetCache(b, call[b].op.new, Locked(b))
    /\ invisible' = [invisible EXCEPT ![b] = @ \ {call[b].op.new}]
    /\ Append1(b, call[b].op)
    /\ UNCHANGED <<disk, phase, seen, next, updated, table>>

UpdateReturns(b) ==
    /\ call[b].kind = "update" /\ call[b].at = "new" /\ Locks(b)
    /\ SetCache(b, call[b].op.new, Locked(b))
    /\ invisible' = [invisible EXCEPT ![b] = (@ \union {call[b].op.old}) \ {call[b].op.new}]
    /\ Append1(b, call[b].op)
    /\ UNCHANGED <<disk, phase, seen, next, updated, table>>

-----------------------------------------------------------------------------
(* pre_commit.                                                             *)

\* Scans are over when the transaction commits; an abort cuts them off.
Commit(b) ==
    /\ Ready(b) /\ seen[b] = {}
    /\ phase' = [phase EXCEPT ![b] = "pre_commit"]
    /\ next' = [next EXCEPT ![b] = 1]
    /\ UNCHANGED <<disk, call, hand, seen, memory, table>>

Abort(b) ==
    /\ Ready(b) /\ "abort" \in Statements
    /\ phase' = [phase EXCEPT ![b] = "rollback"]
    /\ next' = [next EXCEPT ![b] = Len(ops[b])]
    /\ seen' = [seen EXCEPT ![b] = {}]
    /\ UNCHANGED <<disk, call, hand, memory, table>>

\* The operation the loop is at.
Replaying(b, ph) == phase[b] = ph /\ call[b] = NoCall /\ next[b] \in 1 .. Len(ops[b])
Current(b) == ops[b][next[b]]

Unlink(n) == dir[n] # NULL /\ dir' = [dir EXCEPT ![n] = NULL]

ApplyDelete(b) ==
    /\ Replaying(b, "pre_commit") /\ Current(b).kind = "delete"
    /\ Unlink(Current(b).old)
    /\ SetCache(b, Current(b).old, NULL)
    /\ next' = [next EXCEPT ![b] = @ + 1]
    /\ UNCHANGED <<data, phase, call, hand, seen, ops, invisible, updated, table>>

\* The file to be removed is gone: os.unlink raises.
ApplyDeleteRaises(b) ==
    /\ Replaying(b, "pre_commit") /\ Current(b).kind = "delete"
    /\ dir[Current(b).old] = NULL
    /\ Raise(b)
    /\ UNCHANGED <<disk, memory, table>>

\* insert and update open the new file, which is in the cache as a rule.
ApplyOpens(b) ==
    /\ Replaying(b, "pre_commit") /\ Current(b).kind # "delete"
    /\ SetCall(b, Call("apply", "new", Current(b)))
    /\ UNCHANGED <<disk, phase, hand, seen, next, memory, table>>

Moves(op) == op.kind = "update" /\ op.old # op.new

\* ... remove the old one and write.
ApplyWrites(b) ==
    LET op == call[b].op IN
    /\ call[b].kind = "apply" /\ Locks(b)
    /\ \/ /\ Moves(op) /\ Unlink(op.old)
          /\ cache' = [cache EXCEPT ![b][op.new] = Locked(b), ![b][op.old] = NULL]
       \/ /\ ~Moves(op) /\ UNCHANGED dir
          /\ SetCache(b, op.new, Locked(b))
    /\ data' = [data EXCEPT ![hand[b]] = op.content]
    /\ SetCall(b, NoCall)
    /\ next' = [next EXCEPT ![b] = @ + 1]
    /\ UNCHANGED <<phase, seen, ops, invisible, updated, table>>

ApplyWritesRaises(b) ==
    LET op == call[b].op IN
    /\ call[b].kind = "apply" /\ hand[b] # NULL /\ CanLock(b, hand[b], {"sh", "ex"})
    /\ Moves(op) /\ dir[op.old] = NULL
    /\ SetCache(b, op.new, Locked(b))
    /\ Raise(b)
    /\ UNCHANGED <<disk, ops, invisible, updated, table>>

-----------------------------------------------------------------------------
(* rollback.                                                               *)

UndoDelete(b) ==
    /\ Replaying(b, "rollback") /\ Current(b).kind = "delete"
    /\ next' = [next EXCEPT ![b] = @ - 1]
    /\ UNCHANGED <<disk, phase, call, hand, seen, memory, table>>

UndoInsert(b) ==
    /\ Replaying(b, "rollback") /\ Current(b).kind = "insert"
    /\ Unlink(Current(b).new)
    /\ next' = [next EXCEPT ![b] = @ - 1]
    /\ UNCHANGED <<data, phase, call, hand, seen, memory, table>>

\* Mutant: the new file is left behind.
UndoKeepsNew(b) ==
    /\ Replaying(b, "rollback") /\ Current(b).kind = "update"
    /\ SetCall(b, Call("undo", "old", Current(b)))
    /\ UNCHANGED <<disk, phase, hand, seen, next, memory, table>>

UndoUpdate(b) ==
    /\ Replaying(b, "rollback") /\ Current(b).kind = "update"
    /\ IF Moves(Current(b)) THEN Unlink(Current(b).new) ELSE UNCHANGED dir
    /\ SetCall(b, Call("undo", "old", Current(b)))
    /\ UNCHANGED <<data, phase, hand, seen, next, memory, table>>

\* The file that was created is gone: os.unlink raises, nothing is cleaned up.
UndoRaises(b) ==
    /\ Replaying(b, "rollback")
    /\ Current(b).kind = "insert" \/ Moves(Current(b))
    /\ dir[Current(b).new] = NULL
    /\ Raise(b)
    /\ UNCHANGED <<disk, memory, table>>

UndoWrites(b) ==
    /\ call[b].kind = "undo" /\ Locks(b)
    /\ SetCache(b, call[b].op.old, Locked(b))
    /\ data' = [data EXCEPT ![hand[b]] = call[b].op.oldContent]
    /\ SetCall(b, NoCall)
    /\ next' = [next EXCEPT ![b] = @ - 1]
    /\ UNCHANGED <<dir, phase, seen, ops, invisible, updated, table>>

-----------------------------------------------------------------------------
(* _post_xact_cleanup.                                                     *)

Replayed(b) ==
    /\ call[b] = NoCall
    /\ \/ phase[b] = "pre_commit" /\ next[b] = Len(ops[b]) + 1
       \/ phase[b] = "rollback" /\ next[b] = 0

\* Mutant: updated_content is kept.
CleanUpKeepsContent(b) ==
    /\ Replayed(b) /\ ~ \E n \in Names : Holds(b, n, {"closed"})
    /\ ops' = [ops EXCEPT ![b] = << >>]
    /\ invisible' = [invisible EXCEPT ![b] = {}]
    /\ cache' = [cache EXCEPT ![b] = [n \in Names |-> NULL]]
    /\ phase' = [phase EXCEPT ![b] = "idle"]
    /\ next' = [next EXCEPT ![b] = 0]
    /\ table' = IF phase[b] = "pre_commit" THEN Intended(b) ELSE table
    /\ UNCHANGED <<disk, call, hand, seen, updated>>

CleanUp(b) ==
    /\ Replayed(b) /\ ~ \E n \in Names : Holds(b, n, {"closed"})
    /\ ops' = [ops EXCEPT ![b] = << >>]
    /\ invisible' = [invisible EXCEPT ![b] = {}]
    /\ cache' = [cache EXCEPT ![b] = [n \in Names |-> NULL]]
    /\ updated' = [updated EXCEPT ![b] = [n \in Names |-> NULL]]
    /\ phase' = [phase EXCEPT ![b] = "idle"]
    /\ next' = [next EXCEPT ![b] = 0]
    /\ table' = IF phase[b] = "pre_commit" THEN Intended(b) ELSE table
    /\ UNCHANGED <<disk, call, hand, seen>>

\* clear_cache raises, and updated_content is not emptied.
CleanUpRaises(b) ==
    /\ Replayed(b)
    /\ ops' = [ops EXCEPT ![b] = << >>]
    /\ invisible' = [invisible EXCEPT ![b] = {}]
    /\ ClearCacheRaises(b, {"sh", "ex"})
    /\ phase' = [phase EXCEPT ![b] = IF @ = "rollback" THEN "idle" ELSE "rollback"]
    /\ next' = [next EXCEPT ![b] = 0]
    /\ UNCHANGED <<disk, call, hand, seen, updated, table>>

-----------------------------------------------------------------------------

Init ==
    /\ dir \in [Names -> Inodes \union {NULL}]
    /\ \A n, m \in Names : n # m /\ dir[n] # NULL => dir[n] # dir[m]
    /\ data = [i \in Inodes |-> Empty]
    /\ phase = [b \in Backends |-> "idle"]
    /\ call = [b \in Backends |-> NoCall]
    /\ hand = [b \in Backends |-> NULL]
    /\ seen = [b \in Backends |-> {}]
    /\ ops = [b \in Backends |-> << >>]
    /\ next = [b \in Backends |-> 0]
    /\ invisible = [b \in Backends |-> {}]
    /\ updated = [b \in Backends |-> [n \in Names |-> NULL]]
    /\ cache = [b \in Backends |-> [n \in Names |-> NULL]]
    /\ table = [n \in Names |-> IF dir[n] = NULL THEN NULL ELSE Empty]

Scan(b) == EndScan(b) \/ EndScanRaises(b) \/ \E n \in Names : ScanRow(b, n)

ItemOpen(b) ==
    \/ OpenCached(b) \/ OpenShared(b) \/ LockShared(b) \/ OpenSharedRaises(b)
    \/ ReuseExclusive(b) \/ OpenExclusive(b) \/ OpenExclusiveRaises(b)

Modify(b) ==
    \/ \E n \in Names :
          \/ Delete(b, n)
          \/ \E c \in Contents : \/ Insert(b, n, c)
                                 \/ \E m \in Names : Update(b, n, m, c)
    \/ InsertReturns(b) \/ DeleteReturns(b) \/ UpdateLocksOld(b) \/ UpdateReturns(b)

PreCommit(b) ==
    \/ ApplyDelete(b) \/ ApplyDeleteRaises(b) \/ ApplyOpens(b)
    \/ ApplyWrites(b) \/ ApplyWritesRaises(b)

Rollback(b) ==
    \/ UndoDelete(b) \/ UndoInsert(b) \/ UndoUpdate(b) \/ UndoRaises(b) \/ UndoWrites(b)

PostXactCleanup(b) == CleanUp(b) \/ CleanUpRaises(b)

Step(b) ==
    \/ Begin(b) \/ Scan(b) \/ ItemOpen(b) \/ Modify(b) \/ Commit(b) \/ Abort(b)
    \/ PreCommit(b) \/ Rollback(b) \/ PostXactCleanup(b)

Next == \E b \in Backends : Step(b)

Spec == Init /\ [][Next]_vars

-----------------------------------------------------------------------------
(* Properties.  What each of them needs of Backends, Names and Statements  *)
(* is said with it.                                                        *)

\* When no transaction is running the directory holds exactly the rows that
\* were committed: pre_commit writes all of a transaction and rollback takes
\* all of it back.  One backend, and no transaction names a file again that
\* it created, moved or deleted.
Atomic ==
    (\A b \in Backends : phase[b] = "idle") =>
        table = [n \in Names |-> IF dir[n] = NULL THEN NULL ELSE data[dir[n]]]

\* Inside a transaction a scan shows the committed rows with the changes of
\* the transaction, though no file has been written.  Needs what Atomic does.
ReadYourWrites ==
    \A b \in Backends : Ready(b) => View(b) = Intended(b)

\* Between transactions an instance holds no descriptor, lock, operation,
\* hidden file or changed content.  No transaction names a file again.
CleanIdle ==
    \A b \in Backends : phase[b] = "idle" =>
        /\ ops[b] = << >> /\ invisible[b] = {}
        /\ \A n \in Names : updated[b][n] = NULL /\ cache[b][n] = NULL

\* clear_cache_entry finds the file it is called for in the cache: it does
\* not raise KeyError halfway through pre_commit.  No rollback has raised
\* halfway (see NoRollbackFails in FsFdwProofs): the operations that such a
\* rollback leaves meet descriptors that it has closed.
PopsCached ==
    \A b \in Backends :
        /\ call[b].kind = "apply" /\ Moves(call[b].op) => cache[b][call[b].op.old] # NULL
        /\ Replaying(b, "pre_commit") /\ Current(b).kind = "delete"
              => cache[b][Current(b).old] # NULL

\* delete and update have the file they are about to remove or overwrite
\* locked, under the name they will use.  Does not hold with two backends: one
\* may unlink the file while the other waits for its lock (Item.open).
LockedExists ==
    \A b \in Backends : Ready(b) => \A k \in 1 .. Len(ops[b]) :
        LET n == ops[b][k].old IN
        n # NULL => Holds(b, n, {"ex"}) /\ dir[n] = cache[b][n].ino

\* insert adds no row that the transaction sees already.  One backend, and no
\* transaction names a file again that it created, moved or deleted: a second
\* insert of one file is accepted (FilesystemFdw.insert, Item.open).
InsertIsNew ==
    [][\A b \in Backends :
          Len(ops'[b]) > Len(ops[b]) /\ Last(ops'[b]).kind = "insert"
              => Intended(b)[Last(ops'[b]).new] = NULL]_vars

\* Two backends never wait for each other over one name, though its file may
\* be removed and made again between an open and the flock.  Over two names
\* they may.
WaitsAt(b, c, n) ==
    /\ hand[b] # NULL
    /\ n = IF call[b].at = "read" THEN call[b].op.old ELSE Target(b)
    /\ Holds(c, n, IF call[b].at = "read" THEN {"ex"} ELSE {"sh", "ex"})
    /\ cache[c][n].ino = hand[b]
NoDeadlock ==
    \A n \in Names, b, c \in Backends : b # c => ~(WaitsAt(b, c, n) /\ WaitsAt(c, b, n))

\* While a scan holds a file, what it read stays true: no other backend
\* changes the content under the shared lock.
ReadsStable ==
    [][\A b \in Backends, n \in Names :
          Holds(b, n, {"sh"}) => data'[cache[b][n].ino] = data[cache[b][n].ino]]_vars

\* What other backends can read of a file, committed and nothing else: a
\* linked file without an exclusive lock holds the committed content.
Settled ==
    \A n \in Names :
        /\ dir[n] # NULL
        /\ ~ \E b \in Backends : hand[b] = dir[n]
        /\ ~ \E b \in Backends, m \in Names : Holds(b, m, {"ex"}) /\ cache[b][m].ino = dir[n]
        => table[n] = data[dir[n]]
=============================================================================
