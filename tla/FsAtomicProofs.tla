-------------------------- MODULE FsAtomicProofs --------------------------
(***************************************************************************)
(* Proofs about the filesystem wrapper: one backend whose transactions do  *)
(* not name a file again.  Its transactions are atomic, see their own      *)
(* changes, hold the files they are going to change, and leave nothing     *)
(* behind.                                                                 *)
(*                                                                         *)
(* The invariant follows every file through the operations of the          *)
(* transaction (Life), ties the cache to the disk (Linked), and says for   *)
(* each phase how far the disk is from the table (Applied).                *)
(***************************************************************************)
EXTENDS FsFdwProofs

-----------------------------------------------------------------------------
(* The hypotheses, and the invariant.                                      *)

\* There is one backend, and no statement names a file that its transaction
\* has locked already, or that its scan holds.
Alone == \E b : Backends = {b}
NamesOnce == {"recreate", "clobber"} \intersect Statements = {}

\* What the table would have for file n if the disk were read now.
Row(n) == IF dir[n] = NULL THEN NULL ELSE data[dir[n]]

Makes(op) == op.kind = "insert" \/ Moves(op)

Made(b, n) == \E k \in 1 .. Len(ops[b]) : Makes(ops[b][k]) /\ ops[b][k].new = n

\* No operation from k to l touches file n.
Untouched(b, n, k, l) == \A i \in k .. l : ~Touches(ops[b][i], n)

\* The life of a file in a transaction: nothing touches it before it is made
\* or after it is removed, and it is made only if the table does not have it.
Life(b) ==
    \A k \in 1 .. Len(ops[b]) :
        /\ Makes(ops[b][k]) => /\ Untouched(b, ops[b][k].new, 1, k - 1)
                               /\ table[ops[b][k].new] = NULL
        /\ Removes(ops[b][k]) => Untouched(b, ops[b][k].old, k + 1, Len(ops[b]))

\* The first update of a file has kept the committed content.
FirstOld(b) ==
    /\ \A k \in 1 .. Len(ops[b]) :
          ops[b][k].kind = "update" /\ Untouched(b, ops[b][k].old, 1, k - 1)
              => ops[b][k].oldContent = table[ops[b][k].old]
    /\ call[b].kind = "update" /\ call[b].at # "read" /\ Untouched(b, call[b].op.old, 1, Len(ops[b]))
          => call[b].op.oldContent = table[call[b].op.old]

\* The operations from k to l have their files locked.
LockedFrom(b, k, l) ==
    \A i \in k .. l, n \in Names : Touches(ops[b][i], n) => Holds(b, n, {"ex"})

\* How far rollback is: what it has not taken back.
Standing(b) == IF call[b].kind = "undo" THEN next[b] - 1 ELSE next[b]

\* Cached descriptors lead to the files that have the names, except those of
\* files that rollback has taken away again.
Linked(b) ==
    /\ \A n \in Names : Holds(b, n, {"sh", "ex"}) =>
          \/ dir[n] = cache[b][n].ino
          \/ /\ phase[b] = "rollback"
             /\ \E k \in Standing(b) + 1 .. Len(ops[b]) : Makes(ops[b][k]) /\ ops[b][k].new = n
    /\ \A n \in Names : Holds(b, n, {"closed"}) =>
          hand[b] # NULL /\ call[b].kind \in {"delete", "update"} /\ call[b].at = "old" /\ n = call[b].op.old
    /\ phase[b] = "pre_commit" => LockedFrom(b, next[b], Len(ops[b]))
    /\ phase[b] = "rollback" => LockedFrom(b, 1, Len(ops[b]))
    /\ phase[b] = "rollback" => 
          \A k \in Standing(b) + 1 .. Len(ops[b]) : Makes(ops[b][k]) => dir[ops[b][k].new] = NULL
    /\ hand[b] # NULL => dir[HandName(b)] = hand[b]

\* What statements find: the rows that a scan has returned are there, and
\* a file about to be made is not held.
Found(b) ==
    phase[b] = "xact" =>
        /\ \A n \in seen[b] : dir[n] # NULL
        /\ call[b].kind \in {"read", "delete", "update"} => dir[call[b].op.old] # NULL
        /\ call[b].kind = "insert" \/ (call[b].kind = "update" /\ call[b].op.old # call[b].op.new) =>
              cache[b][call[b].op.new] = NULL
        /\ \A n \in invisible[b] : \E k \in 1 .. Len(ops[b]) : Removes(ops[b][k]) /\ ops[b][k].old = n

\* The content that a scan shows.
Changing(b, n) == call[b].kind = "update" /\ call[b].at # "read" /\ call[b].op.new = n
Shown(b) ==
    phase[b] = "xact" => \A n \in Names :
        IF Changing(b, n) THEN updated[b][n] = call[b].op.content
        ELSE /\ Untouched(b, n, 1, Len(ops[b])) => updated[b][n] = NULL
             /\ \A k \in 1 .. Len(ops[b]) :
                   ops[b][k].new = n /\ Untouched(b, n, k + 1, Len(ops[b]))
                       => updated[b][n] = ops[b][k].content

\* The disk against the table.  Before pre_commit a file that is not made by
\* the transaction has its committed content; pre_commit gives each file what
\* the last operation has for it; rollback leaves only what it still has to
\* write.
Making(b, n) == phase[b] = "xact" /\ hand[b] # NULL /\ call[b].at = "new" /\ call[b].op.new = n
Applied(b) ==
    \A n \in Names :
        /\ Untouched(b, n, 1, Len(ops[b])) =>
              IF Making(b, n) THEN table[n] = NULL ELSE table[n] = Row(n)
        /\ phase[b] = "xact" /\ ~Made(b, n) /\ ~Making(b, n) => table[n] = Row(n)
        /\ phase[b] = "pre_commit" => \A k \in 1 .. next[b] - 1 :
              Touches(ops[b][k], n) /\ Untouched(b, n, k + 1, next[b] - 1)
                  => Row(n) = Outcome(ops[b][k], n)
        /\ phase[b] = "rollback" /\ ~Made(b, n) =>
              \/ table[n] = Row(n)
              \/ \E k \in 1 .. next[b] : ops[b][k].kind = "update" /\ ops[b][k].old = n

Rest(b) ==
    phase[b] = "idle" =>
        /\ ops[b] = << >> /\ invisible[b] = {}
        /\ \A n \in Names : updated[b][n] = NULL /\ cache[b][n] = NULL

OneOK(b) ==
    Life(b) /\ FirstOld(b) /\ Linked(b) /\ Found(b) /\ Shown(b) /\ Applied(b) /\ Rest(b)

OneInv(b) == WellFormed /\ HandOK(b) /\ OneName /\ CachedOK(b) /\ OneOK(b)

-----------------------------------------------------------------------------
(* What the steps of one backend do.                                       *)

LEMMA CallPhase ==
    ASSUME WellFormed, NEW b \in Backends
    PROVE  /\ call[b].kind \in {"read", "insert", "update", "delete"} => phase[b] = "xact"
           /\ call[b].kind = "apply" => phase[b] = "pre_commit"
           /\ call[b].kind = "undo" => phase[b] = "rollback"
           /\ hand[b] # NULL => call[b].kind # "none" /\ call[b].at # "none"
           /\ phase[b] \in {"idle", "xact", "pre_commit", "rollback"}
<1>1. phase[b] \in {"idle", "xact", "pre_commit", "rollback"}  BY DEF WellFormed, TypeOK
<1>2. PhaseOK(b)  BY DEF WellFormed
<1>3. QED  BY <1>1, <1>2, CallFacts, CallTypes DEF PhaseOK

\* What a file is of which a name leads to the disk.
LEMMA LinkedRow ==
    ASSUME WellFormed, NEW n \in Names, dir[n] # NULL
    PROVE  dir[n] \in Inodes /\ Row(n) = data[dir[n]] /\ Row(n) \in Contents /\ Row(n) # NULL
<1>1. dir[n] \in Inodes /\ data \in [Inodes -> Contents]  BY DEF WellFormed, TypeOK
<1>2. QED  BY <1>1, FsAssumption DEF Row

\* The files that pre_commit and rollback are at are locked.
LEMMA Replays ==
    ASSUME NEW b \in Backends, OneInv(b), phase[b] \in {"pre_commit", "rollback"},
           next[b] \in 1 .. Len(ops[b])
    PROVE  /\ OpOK(Current(b)) /\ Current(b) = ops[b][next[b]]
           /\ \A n \in Names : Touches(Current(b), n) => Holds(b, n, {"ex"})
           /\ ~(\E n \in Names : Holds(b, n, {"closed"}))
           /\ phase[b] = "pre_commit" =>
                 \A n \in Names : Touches(Current(b), n) => dir[n] = cache[b][n].ino /\ dir[n] # NULL
           /\ phase[b] = "rollback" /\ call[b].kind = "none" =>
                 \A n \in Names : Touches(Current(b), n) => dir[n] = cache[b][n].ino /\ dir[n] # NULL
           /\ phase[b] = "rollback" =>
                 \A n \in Names : n = Current(b).old => dir[n] = cache[b][n].ino /\ dir[n] # NULL
<1> DEFINE k == next[b]
<1>0. WellFormed /\ TypeOK /\ Linked(b) /\ Life(b) /\ OpsOK(b)  BY DEF OneInv, OneOK, WellFormed
<1>1. k \in Nat /\ Len(ops[b]) \in Nat /\ k \in 1 .. Len(ops[b]) /\ k \in k .. Len(ops[b])
  BY <1>0 DEF TypeOK
<1>2. OpOK(Current(b)) /\ Current(b) = ops[b][k]  BY <1>0, <1>1 DEF OpsOK, Current
<1>3. \A n \in Names : Touches(Current(b), n) => Holds(b, n, {"ex"})
  BY <1>0, <1>1, <1>2 DEF Linked, LockedFrom
<1>4. ~(\E n \in Names : Holds(b, n, {"closed"}))
  BY <1>0, CallPhase DEF Linked
<1>5. ASSUME NEW n \in Names, Touches(Current(b), n), NEW j \in k + 1 .. Len(ops[b]),
             Makes(ops[b][j]), ops[b][j].new = n
      PROVE  FALSE
  <2>1. j \in 1 .. Len(ops[b]) /\ k \in 1 .. j - 1  BY <1>1
  <2>2. Untouched(b, n, 1, j - 1)  BY <1>0, <1>5, <2>1 DEF Life
  <2>3. QED  BY <1>2, <1>5, <2>1, <2>2 DEF Untouched
<1>6. ASSUME NEW n \in Names, Touches(Current(b), n), dir[n] = cache[b][n].ino
      PROVE  dir[n] # NULL
  <2>1. cache[b][n] \in Fds \union {NULL} /\ Holds(b, n, {"ex"})  BY <1>0, <1>3, <1>6 DEF TypeOK
  <2>2. cache[b][n].ino \in Inodes  BY <2>1 DEF Holds, Fds
  <2>3. QED  BY <1>6, <2>2, FsAssumption
<1>7. ASSUME NEW n \in Names, n = Current(b).old, Makes(Current(b)), Current(b).new = n  PROVE FALSE
  BY <1>2, <1>7, FsAssumption DEF Makes, Moves, OpOK
<1>8. ASSUME NEW n \in Names, Touches(Current(b), n), phase[b] = "pre_commit"
      PROVE  dir[n] = cache[b][n].ino
  BY <1>0, <1>3, <1>8 DEF Linked, Holds
<1>9. ASSUME NEW n \in Names, Touches(Current(b), n), phase[b] = "rollback", call[b].kind = "none"
      PROVE  dir[n] = cache[b][n].ino
  BY <1>0, <1>3, <1>5, <1>9 DEF Linked, Holds, Standing
<1>10. ASSUME NEW n \in Names, n = Current(b).old, phase[b] = "rollback"
      PROVE  dir[n] = cache[b][n].ino
  <2>1. Touches(Current(b), n)  BY <1>10 DEF Touches
  <2>2. ASSUME NEW j \in Standing(b) + 1 .. Len(ops[b]), Makes(ops[b][j]), ops[b][j].new = n  PROVE FALSE
    <3>1. j = k \/ j \in k + 1 .. Len(ops[b])  BY <1>1 DEF Standing
    <3>2. QED  BY <1>2, <1>5, <1>7, <1>10, <2>1, <2>2, <3>1
  <2>3. QED  BY <1>0, <1>3, <1>10, <2>1, <2>2 DEF Linked, Holds
<1>11. \A n \in Names : n = Current(b).old => Touches(Current(b), n)  BY DEF Touches
<1>12. QED  BY <1>2, <1>3, <1>4, <1>6, <1>8, <1>9, <1>10, <1>11

\* One backend raises only when it makes a file that exists.
LEMMA OnlyExists ==
    ASSUME NEW b \in Backends, OneInv(b)
    PROVE  /\ ~EndScanRaises(b) /\ ~OpenSharedRaises(b) /\ ~ApplyDeleteRaises(b)
           /\ ~ApplyWritesRaises(b) /\ ~UndoRaises(b) /\ ~CleanUpRaises(b)
           /\ OpenExclusiveRaises(b) =>
                 /\ phase[b] = "xact" /\ call[b].kind \in {"insert", "update"} /\ call[b].at = "new"
                 /\ hand[b] = NULL /\ ~(\E n \in Names : Holds(b, n, {"closed"}))
                 /\ UNCHANGED cache
<1>0. WellFormed /\ TypeOK /\ Linked(b) /\ Found(b) /\ PhaseOK(b) /\ CallOK(call[b])
  BY DEF OneInv, OneOK, WellFormed
<1>1. ASSUME hand[b] = NULL PROVE ~(\E n \in Names : Holds(b, n, {"closed"}))
  BY <1>0, <1>1 DEF Linked
<1>2. call[b] = NoCall => hand[b] = NULL  BY <1>0, CallTypes DEF PhaseOK
<1>3. ~EndScanRaises(b)  BY <1>1, <1>2 DEF EndScanRaises, ScanEnds, Ready, ClearCacheRaises
<1>4. ~OpenSharedRaises(b)
  <2> SUFFICES ASSUME OpenSharedRaises(b) PROVE FALSE  OBVIOUS
  <2>1. call[b].at = "read" /\ hand[b] = NULL  BY DEF OpenSharedRaises
  <2>2. call[b].kind \in {"read", "update"} /\ call[b].op.old \in Names  BY <1>0, <2>1, CallFacts
  <2>3. dir[call[b].op.old] # NULL  BY <1>0, <2>2, CallPhase DEF Found
  <2>4. QED  BY <1>1, <2>1, <2>2, <2>3 DEF OpenSharedRaises
<1>5. ASSUME NEW ph \in {"pre_commit", "rollback"}, Replaying(b, ph)
      PROVE  /\ phase[b] = ph /\ next[b] \in 1 .. Len(ops[b]) /\ call[b].kind = "none"
             /\ OpOK(Current(b))
             /\ \A n \in Names : Touches(Current(b), n) => dir[n] # NULL
  <2>1. phase[b] = ph /\ next[b] \in 1 .. Len(ops[b]) /\ call[b].kind = "none"
    BY <1>5, CallTypes DEF Replaying
  <2>2. QED  BY <2>1, Replays
<1>6. ~ApplyDeleteRaises(b)  BY <1>5 DEF ApplyDeleteRaises, OpOK, Touches
<1>7. ~UndoRaises(b)
  <2> SUFFICES ASSUME UndoRaises(b) PROVE FALSE  OBVIOUS
  <2>1. Current(b).new \in Names /\ Touches(Current(b), Current(b).new)
    BY <1>5 DEF UndoRaises, Moves, OpOK, Touches
  <2>2. QED  BY <1>5, <2>1 DEF UndoRaises
<1>8. ~ApplyWritesRaises(b)
  <2> SUFFICES ASSUME ApplyWritesRaises(b) PROVE FALSE  OBVIOUS
  <2>1. phase[b] = "pre_commit" /\ call[b].kind = "apply"  BY <1>0, CallPhase DEF ApplyWritesRaises
  <2>2. next[b] \in 1 .. Len(ops[b]) /\ call[b].op = Current(b)  BY <1>0, <2>1 DEF PhaseOK
  <2>3. Current(b).old \in Names /\ Touches(Current(b), Current(b).old)
    BY <2>1, <2>2, Replays DEF ApplyWritesRaises, Moves, OpOK, Touches
  <2>4. QED  BY <2>1, <2>2, <2>3, Replays DEF ApplyWritesRaises
<1>9. ~CleanUpRaises(b)  BY <1>1, <1>2 DEF CleanUpRaises, Replayed, ClearCacheRaises
<1>10. ASSUME OpenExclusiveRaises(b)
       PROVE  /\ phase[b] = "xact" /\ call[b].kind \in {"insert", "update"} /\ call[b].at = "new"
              /\ hand[b] = NULL /\ ~(\E n \in Names : Holds(b, n, {"closed"}))
              /\ UNCHANGED cache
  <2>1. /\ call[b].at \in {"old", "new"} /\ hand[b] = NULL /\ Target(b) \in Names
        /\ ~(\E n \in Names : Holds(b, n, {"closed"}))
    BY <1>0, <1>1, <1>10, CallFacts DEF OpenExclusiveRaises, Opening
  <2>2. ~Holds(b, Target(b), {"ex"}) /\ OpenFails(b, Target(b))
    BY <1>10, <2>1 DEF OpenExclusiveRaises
  <2>3. call[b].kind \notin {"apply", "undo"}  BY <2>2 DEF OpenFails, FailIf
  <2>4. call[b].at = "new"
    <3> SUFFICES ASSUME call[b].at = "old" PROVE FALSE  BY <2>1
    <3>1. call[b].kind \in {"delete", "update"} /\ Target(b) = call[b].op.old
      BY <1>0, <2>3, CallFacts DEF Target
    <3>2. dir[Target(b)] # NULL  BY <1>0, <3>1, CallPhase DEF Found
    <3>3. QED  BY <2>2, <2>3, <3>2 DEF OpenFails, FailIf
  <2>5. call[b].kind \in {"insert", "update"}  BY <1>0, <2>3, <2>4, CallFacts
  <2>6. cache[b][Target(b)] = NULL
    BY <1>0, <2>4, <2>5, CallPhase DEF Found, Target, CallOK
  <2>7. UNCHANGED cache  BY <1>10, <2>6 DEF OpenExclusiveRaises, CloseShared, Holds
  <2>8. QED  BY <1>0, <2>1, <2>4, <2>5, <2>7, CallPhase
<1>11. QED  BY <1>3, <1>4, <1>6, <1>7, <1>8, <1>9, <1>10

-----------------------------------------------------------------------------
(* The steps, without those that cannot happen.                            *)

\* insert, delete or update returns: the operation is appended.
Finish(b) ==
    LET op == call[b].op IN
    /\ call[b].kind \in {"insert", "delete", "update"} /\ phase[b] = "xact" /\ hand[b] # NULL
    /\ op \in Ops /\ OpOK(op) /\ op.kind = call[b].kind
    /\ call[b].at = IF Makes(op) THEN "new" ELSE "old"
    /\ ops'[b] = Append(ops[b], op) /\ call'[b] = NoCall /\ hand'[b] = NULL
    /\ \A n \in Names : cache'[b][n] = IF n = Target(b) THEN Locked(b) ELSE cache[b][n]
    /\ \A n \in Names : n \in invisible'[b] <=>
          (n \in invisible[b] \/ (Removes(op) /\ n = op.old)) /\ ~(Makes(op) /\ n = op.new)
    /\ \A n \in Names : updated'[b][n] = IF op.kind = "insert" /\ n = op.new THEN op.content
                                         ELSE updated[b][n]
    /\ UNCHANGED <<disk, phase, seen, next, table>>

\* update has locked the old file and goes on to make the new one.
UpdateMoves(b) == UpdateLocksOld(b) /\ Moves(call[b].op)

LEMMA Finishes ==
    ASSUME NEW b \in Backends, WellFormed,
           InsertReturns(b) \/ DeleteReturns(b) \/ UpdateReturns(b) \/ UpdateLocksOld(b)
    PROVE  Finish(b) \/ UpdateMoves(b)
<1> DEFINE op == call[b].op
<1>0. TypeOK /\ PhaseOK(b) /\ CallOK(call[b])  BY DEF WellFormed
<1>1. call[b].kind \in {"insert", "delete", "update"} /\ call[b].at \in {"old", "new"} /\ Locks(b)
  BY DEF InsertReturns, DeleteReturns, UpdateReturns, UpdateLocksOld, Locks
<1>2. phase[b] = "xact" /\ hand[b] # NULL /\ OpOK(op) /\ op \in Ops /\ op.kind = call[b].kind
  BY <1>0, <1>1, CallPhase, CallFacts DEF Locks, CallOK, OpOK
<1>3. hand'[b] = NULL  BY <1>0, <1>1 DEF Locks, TypeOK
<1>4. ASSUME NEW m \in Names, SetCache(b, m, Locked(b)), m = Target(b)
      PROVE  \A n \in Names : cache'[b][n] = IF n = Target(b) THEN Locked(b) ELSE cache[b][n]
  BY <1>0, <1>4 DEF SetCache, TypeOK
<1>5. ASSUME Append1(b, op) PROVE ops'[b] = Append(ops[b], op) /\ call'[b] = NoCall
  BY <1>0, <1>5 DEF Append1, SetCall, TypeOK
<1>6. op.old = NULL => ~(op.old \in Names)  BY FsAssumption
<1> HIDE DEF op
<1>7. CASE InsertReturns(b)
  <2>1. /\ call[b].kind = "insert" /\ call[b].at = "new" /\ Makes(op) /\ ~Removes(op) /\ op.kind = "insert"
        /\ op.new \in Names /\ Target(b) = op.new
    BY <1>0, <1>2, <1>7 DEF InsertReturns, CallOK, Makes, Removes, Moves, OpOK, Target, op
  <2>2. /\ \A n \in Names : n \in invisible'[b] <=> n \in invisible[b] /\ n # op.new
        /\ \A n \in Names : updated'[b][n] = IF n = op.new THEN op.content ELSE updated[b][n]
    BY <1>0, <1>7, <2>1 DEF InsertReturns, TypeOK, op
  <2>3. /\ Append1(b, op) /\ UNCHANGED <<disk, phase, seen, next, table>>
        /\ SetCache(b, op.new, Locked(b))
    BY <1>7 DEF InsertReturns, op
  <2>4. QED  BY <1>2, <1>3, <1>4, <1>5, <2>1, <2>2, <2>3 DEF Finish, op
<1>8. CASE DeleteReturns(b)
  <2>1. /\ call[b].kind = "delete" /\ call[b].at = "old" /\ ~Makes(op) /\ Removes(op) /\ op.kind = "delete"
        /\ op.old \in Names /\ Target(b) = op.old
    BY <1>0, <1>2, <1>8 DEF DeleteReturns, CallOK, Makes, Removes, Moves, OpOK, Target, op
  <2>2. /\ \A n \in Names : n \in invisible'[b] <=> n \in invisible[b] \/ n = op.old
        /\ \A n \in Names : updated'[b][n] = updated[b][n]
    BY <1>0, <1>8, <2>1 DEF DeleteReturns, TypeOK, op
  <2>3. /\ Append1(b, op) /\ UNCHANGED <<disk, phase, seen, next, table>>
        /\ SetCache(b, op.old, Locked(b))
    BY <1>8 DEF DeleteReturns, op
  <2>4. QED  BY <1>2, <1>3, <1>4, <1>5, <2>1, <2>2, <2>3 DEF Finish, op
<1>9. CASE UpdateReturns(b)
  <2>1. /\ call[b].kind = "update" /\ call[b].at = "new" /\ Makes(op) /\ Removes(op) /\ op.kind = "update"
        /\ op.old \in Names /\ op.new \in Names /\ op.old # op.new /\ Target(b) = op.new
    BY <1>0, <1>2, <1>9 DEF UpdateReturns, CallOK, Makes, Removes, Moves, OpOK, Target, op
  <2>2. /\ \A n \in Names : n \in invisible'[b] <=> (n \in invisible[b] \/ n = op.old) /\ n # op.new
        /\ \A n \in Names : updated'[b][n] = updated[b][n]
    BY <1>0, <1>9, <2>1 DEF UpdateReturns, TypeOK, op
  <2>3. /\ Append1(b, op) /\ UNCHANGED <<disk, phase, seen, next, table>>
        /\ SetCache(b, op.new, Locked(b))
    BY <1>9 DEF UpdateReturns, op
  <2>4. QED  BY <1>2, <1>3, <1>4, <1>5, <2>1, <2>2, <2>3 DEF Finish, op
<1>10. CASE UpdateLocksOld(b) /\ op.old # op.new
  BY <1>2, <1>10 DEF UpdateMoves, UpdateLocksOld, Moves, op
<1>11. CASE UpdateLocksOld(b) /\ op.old = op.new
  <2>1. /\ call[b].kind = "update" /\ call[b].at = "old" /\ ~Makes(op) /\ ~Removes(op) /\ op.kind = "update"
        /\ op.old \in Names /\ Target(b) = op.old
    BY <1>0, <1>2, <1>11 DEF UpdateLocksOld, CallOK, Makes, Removes, Moves, OpOK, Target, op
  <2>2. /\ \A n \in Names : n \in invisible'[b] <=> n \in invisible[b]
        /\ \A n \in Names : updated'[b][n] = updated[b][n]
    BY <1>11 DEF UpdateLocksOld
  <2>3. /\ Append1(b, op) /\ UNCHANGED <<disk, phase, seen, next, table>>
        /\ SetCache(b, op.old, Locked(b))
    BY <1>11 DEF UpdateLocksOld, op
  <2>4. QED  BY <1>2, <1>3, <1>4, <1>5, <2>1, <2>2, <2>3 DEF Finish, op
<1>12. QED  BY <1>7, <1>8, <1>9, <1>10, <1>11

LEMMA StepKinds ==
    ASSUME NEW b \in Backends, OneInv(b), Step(b)
    PROVE  \/ Begin(b) \/ EndScan(b) \/ (\E n \in Names : ScanRow(b, n)) \/ OpenCached(b)
           \/ OpenShared(b) \/ LockShared(b) \/ ReuseExclusive(b) \/ OpenExclusive(b)
           \/ OpenExclusiveRaises(b) \/ (\E n \in Names : Delete(b, n))
           \/ (\E n \in Names, v \in Contents : Insert(b, n, v))
           \/ (\E n, m \in Names, v \in Contents : Update(b, n, m, v))
           \/ Finish(b) \/ UpdateMoves(b) \/ Commit(b) \/ Abort(b) \/ ApplyDelete(b)
           \/ ApplyOpens(b) \/ ApplyWrites(b) \/ UndoDelete(b) \/ UndoInsert(b) \/ UndoUpdate(b)
           \/ UndoWrites(b) \/ CleanUp(b)
BY OnlyExists, Finishes
DEF OneInv, Step, Scan, ItemOpen, Modify, PreCommit, Rollback, PostXactCleanup

-----------------------------------------------------------------------------
(* The parts of the invariant, step by step.                               *)

\* No rollback raises.
LEMMA NoFailure ==
    ASSUME NEW b \in Backends, OneInv(b), Step(b), phase[b] = "rollback", phase'[b] = "idle"
    PROVE  ops'[b] = << >>
<1>0. TypeOK /\ PhaseOK(b)  BY DEF OneInv, WellFormed
<1>1. CASE Begin(b)  BY <1>1 DEF Begin
<1>2. CASE EndScan(b)  BY <1>2 DEF EndScan
<1>3. CASE \E n \in Names : ScanRow(b, n)  BY <1>3 DEF ScanRow
<1>4. CASE OpenCached(b)  BY <1>4 DEF OpenCached
<1>5. CASE OpenShared(b)  BY <1>5 DEF OpenShared
<1>6. CASE LockShared(b)  BY <1>6 DEF LockShared
<1>7. CASE ReuseExclusive(b)  BY <1>7 DEF ReuseExclusive
<1>8. CASE OpenExclusive(b)  BY <1>8 DEF OpenExclusive
<1>9. CASE OpenExclusiveRaises(b)  BY OnlyExists, <1>9 DEF OpenExclusiveRaises
<1>10. CASE \E n \in Names : Delete(b, n)  BY <1>10 DEF Delete
<1>11. CASE \E n \in Names, v \in Contents : Insert(b, n, v)  BY <1>11 DEF Insert
<1>12. CASE \E n, m \in Names, v \in Contents : Update(b, n, m, v)  BY <1>12 DEF Update
<1>13. CASE Finish(b)  BY <1>13 DEF Finish
<1>14. CASE UpdateMoves(b)  BY <1>14 DEF UpdateMoves, UpdateLocksOld
<1>15. CASE Commit(b)  BY <1>15 DEF Commit, Ready
<1>16. CASE Abort(b)  BY <1>16 DEF Abort, Ready
<1>17. CASE ApplyDelete(b)  BY <1>17 DEF ApplyDelete
<1>18. CASE ApplyOpens(b)  BY <1>18 DEF ApplyOpens
<1>19. CASE ApplyWrites(b)  BY <1>19 DEF ApplyWrites
<1>20. CASE UndoDelete(b)  BY <1>20 DEF UndoDelete
<1>21. CASE UndoInsert(b)  BY <1>21 DEF UndoInsert
<1>22. CASE UndoUpdate(b)  BY <1>22 DEF UndoUpdate
<1>23. CASE UndoWrites(b)  BY <1>23 DEF UndoWrites
<1>24. CASE CleanUp(b)  BY <1>0, <1>24 DEF CleanUp, TypeOK
<1>25. QED
  BY StepKinds, <1>1, <1>2, <1>3, <1>4, <1>5, <1>6, <1>7, <1>8, <1>9, <1>10, <1>11, <1>12,
     <1>13, <1>14, <1>15, <1>16, <1>17, <1>18, <1>19, <1>20, <1>21, <1>22, <1>23, <1>24

LEMMA LifeSame ==
    ASSUME NEW b \in Backends, Life(b), ops'[b] = ops[b], UNCHANGED table
    PROVE  Life(b)'
BY DEF Life, Untouched

\* What an operation that is appended touches.
LEMMA FinishTouches ==
    ASSUME NEW b \in Backends, OneInv(b), Finish(b)
    PROVE  /\ ops[b] \in Seq(Ops) /\ Len(ops[b]) \in Nat
           /\ Len(ops'[b]) = Len(ops[b]) + 1 /\ ops'[b][Len(ops[b]) + 1] = call[b].op
           /\ \A k \in 1 .. Len(ops[b]) : ops'[b][k] = ops[b][k]
           /\ Makes(call[b].op) => /\ call[b].op.new \in Names
                                   /\ Untouched(b, call[b].op.new, 1, Len(ops[b]))
                                   /\ table[call[b].op.new] = NULL
           /\ \A k \in 1 .. Len(ops[b]) : Removes(ops[b][k]) => ~Touches(call[b].op, ops[b][k].old)
<1> DEFINE op == call[b].op
           L == Len(ops[b])
<1>0. /\ WellFormed /\ TypeOK /\ OpsOK(b) /\ Found(b) /\ Life(b) /\ Applied(b)
      /\ FilesHeld(b) /\ RemovedHidden(b) /\ phase[b] = "xact" /\ CallOK(call[b])
  BY DEF OneInv, OneOK, WellFormed, CachedOK, Finish
<1>1. ops[b] \in Seq(Ops) /\ L \in Nat  BY <1>0 DEF TypeOK
<1>2. op \in Ops /\ OpOK(op) /\ ops'[b] = Append(ops[b], op) /\ op.kind = call[b].kind
      /\ call[b].kind \in {"insert", "update", "delete"} /\ hand[b] # NULL
      /\ (Makes(op) => call[b].at = "new")
  BY DEF Finish
<1> HIDE DEF op
<1>3. /\ Len(ops'[b]) = L + 1 /\ ops'[b][L + 1] = op
      /\ \A k \in 1 .. L : ops'[b][k] = ops[b][k]
  BY <1>1, <1>2
<1>4. ASSUME Makes(op)
      PROVE  op.new \in Names /\ Untouched(b, op.new, 1, L) /\ table[op.new] = NULL
  <2>1. op.new \in Names  BY <1>2, <1>4 DEF Makes, Moves, OpOK
  <2>2. cache[b][op.new] = NULL
    BY <1>0, <1>2, <1>4 DEF Found, Makes, Moves, op
  <2>3. Untouched(b, op.new, 1, L)
    BY <1>0, <2>1, <2>2 DEF FilesHeld, Holds, Untouched
  <2>4. Making(b, op.new)  BY <1>0, <1>2, <1>4 DEF Making, op
  <2>5. QED  BY <1>0, <2>1, <2>3, <2>4 DEF Applied
<1>5. ASSUME NEW k \in 1 .. L, Removes(ops[b][k])
      PROVE  ~Touches(op, ops[b][k].old)
  <2> DEFINE n == ops[b][k].old
  <2>1. OpOK(ops[b][k]) /\ n \in Names /\ n # NULL
    <3>1. OpOK(ops[b][k])  BY <1>0 DEF OpsOK
    <3>2. n \in Names  BY <1>5, <3>1 DEF OpOK, Removes, Moves
    <3>3. QED  BY <3>1, <3>2, FsAssumption
  <2>2. Touches(ops[b][k], n)  BY DEF Touches
  <2>3. n \in invisible[b]
    <3>1. ~ \E j \in k + 1 .. L : ops[b][j].new = n
      BY <1>0, <1>5 DEF Life, Untouched, Touches
    <3>2. QED  BY <1>0, <1>5, <3>1 DEF RemovedHidden
  <2> HIDE DEF n
  <2>4. op.old # n
    <3>1. CASE op.kind = "insert"  BY <1>2, <2>1, <3>1 DEF OpOK
    <3>2. CASE op.kind # "insert"  BY <1>0, <1>2, <2>3, <3>2 DEF RemovedHidden, op
    <3>3. QED  BY <3>1, <3>2
  <2>5. op.new # n
    <3>1. CASE Makes(op)  BY <1>1, <1>4, <2>2, <3>1 DEF Untouched
    <3>2. CASE ~Makes(op)  BY <1>2, <2>1, <2>4, <3>2 DEF Makes, Moves, OpOK
    <3>3. QED  BY <3>1, <3>2
  <2>6. QED  BY <2>4, <2>5 DEF Touches, n
<1>6. QED  BY <1>1, <1>3, <1>4, <1>5 DEF op

LEMMA LifeStep ==
    ASSUME NEW b \in Backends, OneInv(b), Step(b)
    PROVE  Life(b)'
<1>0. TypeOK /\ Life(b)  BY DEF OneInv, WellFormed, OneOK
<1>1. CASE Begin(b)  BY <1>0, LifeSame, <1>1 DEF Begin, memory
<1>2. CASE EndScan(b)  BY <1>0, LifeSame, <1>2 DEF EndScan, memory
<1>3. CASE \E n \in Names : ScanRow(b, n)  BY <1>0, LifeSame, <1>3 DEF ScanRow, memory
<1>4. CASE OpenCached(b)  BY <1>0, LifeSame, <1>4 DEF OpenCached, memory
<1>5. CASE OpenShared(b)  BY <1>0, LifeSame, <1>5 DEF OpenShared, memory
<1>6. CASE LockShared(b)  BY <1>0, LifeSame, <1>6 DEF LockShared, memory
<1>7. CASE ReuseExclusive(b)  BY <1>0, LifeSame, <1>7 DEF ReuseExclusive, memory
<1>8. CASE OpenExclusive(b)  BY <1>0, LifeSame, <1>8 DEF OpenExclusive, memory
<1>9. CASE OpenExclusiveRaises(b)  BY <1>0, LifeSame, <1>9 DEF OpenExclusiveRaises, memory
<1>10. CASE \E n \in Names : Delete(b, n)  BY <1>0, LifeSame, <1>10 DEF Delete, memory
<1>11. CASE \E n \in Names, v \in Contents : Insert(b, n, v)
  BY <1>0, LifeSame, <1>11 DEF Insert, memory
<1>12. CASE \E n, m \in Names, v \in Contents : Update(b, n, m, v)
  BY <1>0, LifeSame, <1>12 DEF Update, memory
<1>13. CASE Finish(b)
  <2> DEFINE L == Len(ops[b])
  <2>1. Life(b)  BY DEF OneInv, OneOK
  <2>2. /\ L \in Nat /\ Len(ops'[b]) = L + 1 /\ ops'[b][L + 1] = call[b].op
        /\ \A k \in 1 .. L : ops'[b][k] = ops[b][k]
        /\ Makes(call[b].op) => Untouched(b, call[b].op.new, 1, L) /\ table[call[b].op.new] = NULL
        /\ \A k \in 1 .. L : Removes(ops[b][k]) => ~Touches(call[b].op, ops[b][k].old)
    BY <1>13, FinishTouches
  <2>3. UNCHANGED table  BY <1>13 DEF Finish
  <2> DEFINE op == call[b].op
  <2> HIDE DEF L, op
  <2> SUFFICES ASSUME NEW k \in 1 .. L + 1
               PROVE  /\ Makes(ops'[b][k]) =>
                            /\ \A i \in 1 .. k - 1 : ~Touches(ops'[b][i], ops'[b][k].new)
                            /\ table[ops'[b][k].new] = NULL
                      /\ Removes(ops'[b][k]) =>
                            \A i \in k + 1 .. L + 1 : ~Touches(ops'[b][i], ops'[b][k].old)
    BY <2>2, <2>3 DEF Life, Untouched
  <2>4. CASE k = L + 1  BY <2>2, <2>4 DEF Untouched, op
  <2>5. CASE k # L + 1
    <3>1. k \in 1 .. L /\ ops'[b][k] = ops[b][k]  BY <2>2, <2>5
    <3>2. Makes(ops[b][k]) => /\ \A i \in 1 .. k - 1 : ~Touches(ops[b][i], ops[b][k].new)
                              /\ table[ops[b][k].new] = NULL
      BY <2>1, <3>1 DEF Life, Untouched, L
    <3>3. Removes(ops[b][k]) => \A i \in k + 1 .. L : ~Touches(ops[b][i], ops[b][k].old)
      BY <2>1, <3>1 DEF Life, Untouched, L
    <3>4. \A i \in 1 .. k - 1 : i \in 1 .. L  BY <2>2, <3>1
    <3>5. \A i \in k + 1 .. L + 1 : i = L + 1 \/ (i \in k + 1 .. L /\ i \in 1 .. L)  BY <2>2, <3>1
    <3>6. QED  BY <2>2, <3>1, <3>2, <3>3, <3>4, <3>5 DEF op
  <2>6. QED  BY <2>4, <2>5
<1>14. CASE UpdateMoves(b)  BY <1>0, LifeSame, <1>14 DEF UpdateMoves, UpdateLocksOld, Moves
<1>15. CASE Commit(b)  BY <1>0, LifeSame, <1>15 DEF Commit, memory
<1>16. CASE Abort(b)  BY <1>0, LifeSame, <1>16 DEF Abort, memory
<1>17. CASE ApplyDelete(b)  BY <1>0, LifeSame, <1>17 DEF ApplyDelete, memory
<1>18. CASE ApplyOpens(b)  BY <1>0, LifeSame, <1>18 DEF ApplyOpens, memory
<1>19. CASE ApplyWrites(b)  BY <1>0, LifeSame, <1>19 DEF ApplyWrites, memory
<1>20. CASE UndoDelete(b)  BY <1>0, LifeSame, <1>20 DEF UndoDelete, memory
<1>21. CASE UndoInsert(b)  BY <1>0, LifeSame, <1>21 DEF UndoInsert, memory
<1>22. CASE UndoUpdate(b)  BY <1>0, LifeSame, <1>22 DEF UndoUpdate, memory
<1>23. CASE UndoWrites(b)  BY <1>0, LifeSame, <1>23 DEF UndoWrites, memory
<1>24. CASE CleanUp(b)
  <2>1. ops'[b] = << >>  BY <1>0, <1>24 DEF CleanUp, TypeOK
  <2>2. QED  BY <2>1 DEF Life
<1>25. QED
  BY StepKinds, <1>1, <1>2, <1>3, <1>4, <1>5, <1>6, <1>7, <1>8, <1>9, <1>10, <1>11, <1>12,
     <1>13, <1>14, <1>15, <1>16, <1>17, <1>18, <1>19, <1>20, <1>21, <1>22, <1>23, <1>24

\* The phases of a step's beginning.
LEMMA Busy ==
    ASSUME NEW b \in Backends, WellFormed, call[b].at # "none" \/ call[b].kind # "none"
    PROVE  phase[b] # "idle"
<1>1. call[b].kind # "none"  BY CallFacts, CallTypes
<1>2. QED  BY <1>1 DEF WellFormed, PhaseOK

LEMMA RestLeft ==
    ASSUME NEW b \in Backends, phase'[b] # "idle"
    PROVE  Rest(b)'
BY DEF Rest

LEMMA RestStep ==
    ASSUME NEW b \in Backends, OneInv(b), Step(b)
    PROVE  Rest(b)'
<1>0. WellFormed /\ TypeOK  BY DEF OneInv, WellFormed
<1>1. CASE Begin(b)  BY <1>0, RestLeft, <1>1 DEF Begin, TypeOK
<1>2. CASE EndScan(b)  BY RestLeft, <1>2 DEF EndScan, ScanEnds, Ready
<1>3. CASE \E n \in Names : ScanRow(b, n)  BY RestLeft, <1>3 DEF ScanRow, Ready
<1>4. CASE OpenCached(b)  BY Busy, RestLeft, <1>0, <1>4 DEF OpenCached
<1>5. CASE OpenShared(b)  BY Busy, RestLeft, <1>0, <1>5 DEF OpenShared
<1>6. CASE LockShared(b)  BY Busy, RestLeft, <1>0, <1>6 DEF LockShared
<1>7. CASE ReuseExclusive(b)  BY Busy, RestLeft, <1>0, <1>7 DEF ReuseExclusive, Opening
<1>8. CASE OpenExclusive(b)  BY Busy, RestLeft, <1>0, <1>8 DEF OpenExclusive, Opening
<1>9. CASE OpenExclusiveRaises(b)
  BY <1>0, OnlyExists, RestLeft, <1>9 DEF OpenExclusiveRaises, Raise, TypeOK
<1>10. CASE \E n \in Names : Delete(b, n)  BY RestLeft, <1>10 DEF Delete, DML, Ready
<1>11. CASE \E n \in Names, v \in Contents : Insert(b, n, v)
  BY RestLeft, <1>11 DEF Insert, DML, Ready
<1>12. CASE \E n, m \in Names, v \in Contents : Update(b, n, m, v)
  BY RestLeft, <1>12 DEF Update, DML, Ready
<1>13. CASE Finish(b)  BY RestLeft, <1>13 DEF Finish
<1>14. CASE UpdateMoves(b)  BY Busy, RestLeft, <1>0, <1>14 DEF UpdateMoves, UpdateLocksOld
<1>15. CASE Commit(b)  BY <1>0, RestLeft, <1>15 DEF Commit, TypeOK
<1>16. CASE Abort(b)  BY <1>0, RestLeft, <1>16 DEF Abort, TypeOK
<1>17. CASE ApplyDelete(b)  BY RestLeft, <1>17 DEF ApplyDelete, Replaying
<1>18. CASE ApplyOpens(b)  BY RestLeft, <1>18 DEF ApplyOpens, Replaying
<1>19. CASE ApplyWrites(b)  BY Busy, RestLeft, <1>0, <1>19 DEF ApplyWrites
<1>20. CASE UndoDelete(b)  BY RestLeft, <1>20 DEF UndoDelete, Replaying
<1>21. CASE UndoInsert(b)  BY RestLeft, <1>21 DEF UndoInsert, Replaying
<1>22. CASE UndoUpdate(b)  BY RestLeft, <1>22 DEF UndoUpdate, Replaying
<1>23. CASE UndoWrites(b)  BY Busy, RestLeft, <1>0, <1>23 DEF UndoWrites
<1>24. CASE CleanUp(b)
  <2>1. /\ ops'[b] = << >> /\ invisible'[b] = {}
        /\ \A n \in Names : updated'[b][n] = NULL /\ cache'[b][n] = NULL
    BY <1>0, <1>24 DEF CleanUp, TypeOK
  <2>2. QED  BY <2>1 DEF Rest
<1>25. QED
  BY StepKinds, <1>1, <1>2, <1>3, <1>4, <1>5, <1>6, <1>7, <1>8, <1>9, <1>10, <1>11, <1>12,
     <1>13, <1>14, <1>15, <1>16, <1>17, <1>18, <1>19, <1>20, <1>21, <1>22, <1>23, <1>24

LEMMA FirstOldSame ==
    ASSUME NEW b \in Backends, FirstOld(b), ops'[b] = ops[b], UNCHANGED table,
           \/ call'[b] = call[b] \/ call'[b].kind # "update" \/ call'[b].at = "read"
           \/ call[b].kind = "update" /\ call[b].at # "read" /\ call'[b].op = call[b].op
    PROVE  FirstOld(b)'
BY DEF FirstOld, Untouched

\* The content of a file that update has read is the committed one, if this
\* transaction has not touched it.
LEMMA OldIsCommitted ==
    ASSUME NEW b \in Backends, OneInv(b), call[b].kind = "update", call[b].at = "read",
           FirstOld(b), NEW v, ReadReturns(b, v), v = data[dir[call[b].op.old]],
           ops'[b] = ops[b], UNCHANGED table
    PROVE  FirstOld(b)'
<1> DEFINE n == call[b].op.old
<1>0. WellFormed /\ TypeOK /\ Applied(b) /\ Found(b) /\ phase[b] = "xact"
  BY CallPhase DEF OneInv, OneOK, WellFormed
<1>1. n \in Names /\ call[b].op \in Ops /\ dir[n] # NULL
  BY <1>0, CallFacts DEF Found
<1>2. Untouched(b, n, 1, Len(ops[b])) => table[n] = v
  <2>1. ~Making(b, n)  BY DEF Making
  <2>2. Row(n) = v  BY <1>1 DEF Row
  <2>3. QED  BY <1>0, <1>1, <2>1, <2>2 DEF Applied
<1>3. call'[b] = Call("update", "old", [call[b].op EXCEPT !.oldContent = v])
  BY <1>0 DEF ReadReturns, SetCall, TypeOK
<1>4. call'[b].op.oldContent = v /\ call'[b].op.old = n
  BY <1>1, <1>3 DEF Call, Ops
<1>5. QED  BY <1>2, <1>4 DEF FirstOld, Untouched

LEMMA FirstOldStep ==
    ASSUME NEW b \in Backends, OneInv(b), Step(b)
    PROVE  FirstOld(b)'
<1>0. /\ WellFormed /\ TypeOK /\ FirstOld(b) /\ Linked(b) /\ Shown(b)
      /\ OneInv(b)
  BY DEF OneInv, WellFormed, OneOK
<1>1. CASE Begin(b)  BY <1>0, FirstOldSame, <1>1 DEF Begin, memory
<1>2. CASE EndScan(b)  BY <1>0, FirstOldSame, <1>2 DEF EndScan, memory
<1>3. CASE \E n \in Names : ScanRow(b, n)
  <2>1. /\ ops'[b] = ops[b] /\ UNCHANGED table
        /\ UNCHANGED call \/ \E op : call' = [call EXCEPT ![b] = Call("read", "read", op)]
    BY <1>3 DEF ScanRow, SetCall, memory
  <2>2. call'[b] = call[b] \/ call'[b].kind = "read"  BY <1>0, <2>1 DEF TypeOK, Call
  <2>3. QED  BY <1>0, <2>1, <2>2, FirstOldSame
<1>4. CASE OpenCached(b)
  <2>1. CASE call[b].kind = "read"
    <3>1. call'[b].kind = "none"  BY <1>0, <1>4, <2>1, CallTypes DEF OpenCached, ReadReturns, SetCall, TypeOK
    <3>2. QED  BY <1>0, <1>4, <3>1, FirstOldSame DEF OpenCached, memory
  <2>2. CASE call[b].kind = "update"
    <3>1. call[b].at = "read" /\ call[b].op.old \in Names  BY <1>0, <1>4, CallFacts DEF OpenCached
    <3>2. cache[b][call[b].op.old].ino = dir[call[b].op.old]
      BY <1>0, <1>4, <2>2, <3>1, CallPhase DEF OpenCached, Linked, Holds
    <3>3. QED  BY <1>0, <1>4, <2>2, <3>1, <3>2, OldIsCommitted DEF OpenCached
  <2>3. QED  BY <2>1, <2>2, <1>4 DEF OpenCached, ReadReturns
<1>5. CASE OpenShared(b)  BY <1>0, FirstOldSame, <1>5 DEF OpenShared, memory
<1>6. CASE LockShared(b)
  <2>1. CASE call[b].kind = "read"
    <3>1. call'[b].kind = "none"  BY <1>0, <1>6, <2>1, CallTypes DEF LockShared, ReadReturns, SetCall, TypeOK
    <3>2. QED  BY <1>0, <1>6, <3>1, FirstOldSame DEF LockShared, memory
  <2>2. CASE call[b].kind = "update"
    <3>1. call[b].at = "read" /\ call[b].op.old \in Names  BY <1>0, <1>6, CallFacts DEF LockShared
    <3>2. hand[b] = dir[call[b].op.old]
      BY <1>0, <1>6, <2>2, <3>1, CallPhase DEF LockShared, Linked, HandName
    <3>3. QED  BY <1>0, <1>6, <2>2, <3>1, <3>2, OldIsCommitted DEF LockShared
  <2>3. QED  BY <2>1, <2>2, <1>6 DEF LockShared, ReadReturns
<1>7. CASE ReuseExclusive(b)  BY <1>0, FirstOldSame, <1>7 DEF ReuseExclusive, memory
<1>8. CASE OpenExclusive(b)  BY <1>0, FirstOldSame, <1>8 DEF OpenExclusive, memory
<1>9. CASE OpenExclusiveRaises(b)
  <2>1. ops'[b] = ops[b] /\ UNCHANGED table /\ call'[b].kind # "update"
    BY <1>0, <1>9, CallTypes DEF OpenExclusiveRaises, Raise, SetCall, TypeOK
  <2>2. QED  BY <1>0, <2>1, FirstOldSame
<1>10. CASE \E n \in Names : Delete(b, n)
  <2>1. ops'[b] = ops[b] /\ UNCHANGED table /\ call'[b].kind # "update"
    BY <1>0, <1>10, CallTypes DEF Delete, Call, SetCall, memory, TypeOK
  <2>2. QED  BY <1>0, <2>1, FirstOldSame
<1>11. CASE \E n \in Names, v \in Contents : Insert(b, n, v)
  <2>1. ops'[b] = ops[b] /\ UNCHANGED table /\ call'[b].kind # "update"
    BY <1>0, <1>11, CallTypes DEF Insert, Call, SetCall, memory, TypeOK
  <2>2. QED  BY <1>0, <2>1, FirstOldSame
<1>12. CASE \E n, m \in Names, v \in Contents : Update(b, n, m, v)
  <2>1. PICK n, m \in Names, v \in Contents : Update(b, n, m, v)  BY <1>12
  <2>2. UNCHANGED <<ops, table>> /\ phase[b] = "xact" /\ call[b].kind = "none"
    BY <2>1, CallTypes DEF Update, DML, Ready
  <2>3. CASE call' = [call EXCEPT ![b] = Call("update", "read", Op("update", n, NULL, m, v))]
    <3>1. call'[b].at = "read"  BY <1>0, <2>3 DEF Call, TypeOK
    <3>2. QED  BY <1>0, <2>2, <3>1, FirstOldSame
  <2>4. CASE /\ updated[b][n] # NULL
             /\ call' = [call EXCEPT ![b] = Call("update", "old", Op("update", n, updated[b][n], m, v))]
    <3>1. call'[b].op.old = n  BY <1>0, <2>4 DEF Call, TypeOK, Op
    <3>2. ~Changing(b, n)  BY <2>2 DEF Changing
    <3>3. ~Untouched(b, n, 1, Len(ops[b]))  BY <1>0, <2>2, <2>4, <3>2 DEF Shown
    <3>4. QED  BY <1>0, <2>2, <3>1, <3>3 DEF FirstOld, Untouched
  <2>5. QED  BY <2>1, <2>3, <2>4 DEF Update, SetCall
<1>13. CASE Finish(b)
  <2> DEFINE L == Len(ops[b])
             op == call[b].op
  <2>1. /\ L \in Nat /\ Len(ops'[b]) = L + 1 /\ ops'[b][L + 1] = op
        /\ \A k \in 1 .. L : ops'[b][k] = ops[b][k]
    BY <1>13, FinishTouches
  <2>2. UNCHANGED table /\ call'[b].kind = "none"  BY <1>13, CallTypes DEF Finish
  <2>3. op.kind = "update" /\ Untouched(b, op.old, 1, L) => op.oldContent = table[op.old]
    <3>1. call[b].kind = op.kind /\ call[b].at # "read"  BY <1>13 DEF Finish
    <3>2. QED  BY <1>0, <3>1 DEF FirstOld
  <2>4. FirstOld(b)  BY <1>0
  <2> HIDE DEF L, op
  <2> SUFFICES ASSUME NEW k \in 1 .. L + 1, ops'[b][k].kind = "update",
                      \A i \in 1 .. k - 1 : ~Touches(ops'[b][i], ops'[b][k].old)
               PROVE  ops'[b][k].oldContent = table[ops'[b][k].old]
    BY <2>1, <2>2 DEF FirstOld, Untouched
  <2>5. CASE k = L + 1  BY <2>1, <2>3, <2>5 DEF Untouched
  <2>6. CASE k # L + 1
    <3>1. k \in 1 .. L /\ ops'[b][k] = ops[b][k]  BY <2>1, <2>6
    <3>2. \A i \in 1 .. k - 1 : i \in 1 .. L  BY <2>1, <3>1
    <3>3. Untouched(b, ops[b][k].old, 1, k - 1)  BY <2>1, <3>1, <3>2 DEF Untouched
    <3>4. QED  BY <2>4, <3>1, <3>3 DEF FirstOld, L
  <2>7. QED  BY <2>5, <2>6
<1>14. CASE UpdateMoves(b)
  <2>1. call' = [call EXCEPT ![b] = [call[b] EXCEPT !.at = "new"]] /\ UNCHANGED <<ops, table>>
    BY <1>14 DEF UpdateMoves, UpdateLocksOld, Moves, SetCall
  <2>2. call[b].kind = "update" /\ call[b].at = "old" /\ call[b] \in Calls
    BY <1>0, <1>14 DEF UpdateMoves, UpdateLocksOld, TypeOK
  <2>3. call'[b].op = call[b].op  BY <1>0, <2>1, <2>2 DEF TypeOK, Calls
  <2>4. QED  BY <1>0, <2>1, <2>2, <2>3, FirstOldSame
<1>15. CASE Commit(b)  BY <1>0, FirstOldSame, <1>15 DEF Commit, memory
<1>16. CASE Abort(b)  BY <1>0, FirstOldSame, <1>16 DEF Abort, memory
<1>17. CASE ApplyDelete(b)  BY <1>0, FirstOldSame, <1>17 DEF ApplyDelete, memory
<1>18. CASE ApplyOpens(b)
  <2>1. ops'[b] = ops[b] /\ UNCHANGED table /\ call'[b].kind # "update"
    BY <1>0, <1>18, CallTypes DEF ApplyOpens, Call, SetCall, memory, TypeOK
  <2>2. QED  BY <1>0, <2>1, FirstOldSame
<1>19. CASE ApplyWrites(b)
  <2>1. ops'[b] = ops[b] /\ UNCHANGED table /\ call'[b].kind # "update"
    BY <1>0, <1>19, CallTypes DEF ApplyWrites, Call, SetCall, TypeOK
  <2>2. QED  BY <1>0, <2>1, FirstOldSame
<1>20. CASE UndoDelete(b)  BY <1>0, FirstOldSame, <1>20 DEF UndoDelete, memory
<1>21. CASE UndoInsert(b)  BY <1>0, FirstOldSame, <1>21 DEF UndoInsert, memory
<1>22. CASE UndoUpdate(b)
  <2>1. ops'[b] = ops[b] /\ UNCHANGED table /\ call'[b].kind # "update"
    BY <1>0, <1>22, CallTypes DEF UndoUpdate, Call, SetCall, memory, TypeOK
  <2>2. QED  BY <1>0, <2>1, FirstOldSame
<1>23. CASE UndoWrites(b)
  <2>1. ops'[b] = ops[b] /\ UNCHANGED table /\ call'[b].kind # "update"
    BY <1>0, <1>23, CallTypes DEF UndoWrites, SetCall, TypeOK
  <2>2. QED  BY <1>0, <2>1, FirstOldSame
<1>24. CASE CleanUp(b)
  <2>1. ops'[b] = << >> /\ call'[b].kind = "none"
    BY <1>0, <1>24, CallTypes DEF CleanUp, Replayed, TypeOK
  <2>2. QED  BY <2>1 DEF FirstOld
<1>25. QED
  BY StepKinds, <1>1, <1>2, <1>3, <1>4, <1>5, <1>6, <1>7, <1>8, <1>9, <1>10, <1>11, <1>12,
     <1>13, <1>14, <1>15, <1>16, <1>17, <1>18, <1>19, <1>20, <1>21, <1>22, <1>23, <1>24

\* In a transaction that is neither committed nor rolled back only the
\* descriptors and the names count.
LEMMA LinkedOpen ==
    ASSUME NEW b \in Backends, phase'[b] \in {"idle", "xact"},
           \A n \in Names : Holds(b, n, {"sh", "ex"})' => dir'[n] = cache'[b][n].ino,
           \A n \in Names : Holds(b, n, {"closed"})' =>
              hand'[b] # NULL /\ call'[b].kind \in {"delete", "update"} /\ call'[b].at = "old"
              /\ n = call'[b].op.old,
           hand'[b] # NULL => (dir[HandName(b)] = hand[b])'
    PROVE  Linked(b)'
BY DEF Linked

LEMMA LinkedSame ==
    ASSUME NEW b \in Backends, Linked(b), hand[b] = NULL, phase[b] \in {"idle", "xact"},
           phase'[b] \in {"idle", "xact"}, hand'[b] = NULL, UNCHANGED <<dir, cache>>
    PROVE  Linked(b)'
BY DEF Linked, Holds

\* pre_commit and rollback open the files they have locked.
LEMMA OpensInXact ==
    ASSUME NEW b \in Backends, OneInv(b), call[b].at \in {"old", "new"}, ~Holds(b, Target(b), {"ex"})
    PROVE  phase[b] = "xact"
<1>0. WellFormed /\ PhaseOK(b) /\ CallOK(call[b])  BY DEF OneInv, WellFormed
<1>1. ASSUME call[b].kind \in {"apply", "undo"} PROVE FALSE
  <2>1. /\ next[b] \in 1 .. Len(ops[b]) /\ call[b].op = Current(b)
        /\ phase[b] \in {"pre_commit", "rollback"}
    BY <1>0, <1>1, CallPhase DEF PhaseOK
  <2>2. Target(b) \in Names /\ Touches(Current(b), Target(b))
    BY <1>0, <2>1, CallFacts DEF Target, Touches
  <2>3. QED  BY <2>1, <2>2, Replays
<1>2. call[b].kind \in {"read", "insert", "update", "delete"}
  BY <1>0, <1>1, CallFacts, CallTypes
<1>3. QED  BY <1>0, <1>2, CallPhase

LEMMA RollbackStarts ==
    ASSUME NEW b \in Backends, OneInv(b), phase[b] = "xact", UNCHANGED <<dir, cache, ops>>,
           hand[b] = NULL, hand'[b] = NULL, phase'[b] = "rollback", next'[b] = Len(ops[b]),
           call'[b] = NoCall
    PROVE  Linked(b)'
<1>1. Linked(b) /\ FilesHeld(b) /\ TypeOK  BY DEF OneInv, OneOK, CachedOK, WellFormed
<1>2. Standing(b)' = Len(ops[b])  BY CallTypes DEF Standing
<1>3. Len(ops[b]) \in Nat  BY <1>1 DEF TypeOK
<1>4. Len(ops[b]) + 1 .. Len(ops[b]) = {}  BY <1>3
<1>5. QED  BY <1>1, <1>2, <1>4 DEF Linked, FilesHeld, LockedFrom, Holds

\* rollback has taken back one operation: its file, if it made one, is gone.
LEMMA Unmade ==
    ASSUME NEW b \in Backends, OneInv(b), next[b] \in 1 .. Len(ops[b]),
           phase[b] = "rollback", phase'[b] = "rollback", hand[b] = NULL, hand'[b] = NULL,
           UNCHANGED <<ops, cache>>, Standing(b) = next[b], Standing(b)' = next[b] - 1,
           IF Makes(ops[b][next[b]])
           THEN \A n \in Names : dir'[n] = IF n = ops[b][next[b]].new THEN NULL ELSE dir[n]
           ELSE UNCHANGED dir
    PROVE  Linked(b)'
<1> DEFINE s == next[b]
<1>1. Linked(b) /\ TypeOK /\ OpsOK(b)  BY DEF OneInv, OneOK, WellFormed
<1>2. s \in Nat /\ Len(ops[b]) \in Nat  BY <1>1 DEF TypeOK
<1>3. /\ (s - 1) + 1 .. Len(ops[b]) = {s} \union (s + 1 .. Len(ops[b]))
      /\ s + 1 .. Len(ops[b]) \subseteq 1 .. Len(ops[b])
  BY <1>2
<1>4. \A k \in 1 .. Len(ops[b]) : Makes(ops[b][k]) => ops[b][k].new \in Names
  BY <1>1 DEF OpsOK, OpOK, Makes, Moves
<1> HIDE DEF s
<1>5. \A n \in Names : Holds(b, n, {"sh", "ex"})' =>
          \/ dir'[n] = cache'[b][n].ino
          \/ \E k \in (s - 1) + 1 .. Len(ops[b]) : Makes(ops[b][k]) /\ ops[b][k].new = n
  <2> SUFFICES ASSUME NEW n \in Names, Holds(b, n, {"sh", "ex"}), dir'[n] # cache[b][n].ino
               PROVE  \E k \in (s - 1) + 1 .. Len(ops[b]) : Makes(ops[b][k]) /\ ops[b][k].new = n
    BY DEF Holds
  <2>1. CASE dir[n] = cache[b][n].ino  BY <1>3, <2>1 DEF s
  <2>2. CASE dir[n] # cache[b][n].ino
    <3>1. PICK k \in s + 1 .. Len(ops[b]) : Makes(ops[b][k]) /\ ops[b][k].new = n
      BY <1>1, <2>2 DEF Linked, s
    <3>2. QED  BY <1>3, <3>1
  <2>3. QED  BY <2>1, <2>2
<1>6. \A k \in (s - 1) + 1 .. Len(ops[b]) : Makes(ops[b][k]) => dir'[ops[b][k].new] = NULL
  <2>1. \A k \in s + 1 .. Len(ops[b]) : Makes(ops[b][k]) => dir[ops[b][k].new] = NULL
    BY <1>1 DEF Linked, s
  <2>2. QED  BY <1>3, <1>4, <2>1 DEF s
<1>7. QED  BY <1>1, <1>5, <1>6 DEF Linked, LockedFrom, Holds, s

LEMMA LinkedStep ==
    ASSUME NEW b \in Backends, OneInv(b), Step(b)
    PROVE  Linked(b)'
<1>0. /\ OneInv(b) /\ WellFormed /\ TypeOK /\ Linked(b) /\ Life(b) /\ Found(b) /\ FilesHeld(b)
      /\ PhaseOK(b) /\ CallOK(call[b])
  BY DEF OneInv, WellFormed, OneOK, CachedOK
<1>1. call[b] = NoCall => hand[b] = NULL  BY <1>0, CallTypes DEF PhaseOK
<1>2. CASE Begin(b)
  <2>1. phase[b] = "idle" /\ phase'[b] = "xact" /\ UNCHANGED <<dir, cache, hand, call>>
    BY <1>0, <1>2 DEF Begin, TypeOK, disk, memory
  <2>2. hand[b] = NULL  BY <1>0, <2>1, Busy, CallPhase
  <2>3. QED  BY <1>0, <2>1, <2>2, LinkedSame
<1>3. CASE EndScan(b)
  <2>1. /\ phase[b] = "xact" /\ hand[b] = NULL /\ UNCHANGED <<dir, phase, hand>>
        /\ \A n \in Names : cache'[b][n] = NULL \/ cache'[b][n] = cache[b][n]
    BY <1>0, <1>1, <1>3 DEF EndScan, ScanEnds, Ready, disk, TypeOK
  <2>2. QED  BY <1>0, <2>1, LinkedOpen DEF Linked, Holds
<1>4. CASE \E n \in Names : ScanRow(b, n)
  <2>1. /\ hand[b] = NULL /\ phase[b] \in {"idle", "xact"} /\ phase'[b] \in {"idle", "xact"}
        /\ hand'[b] = NULL /\ UNCHANGED <<dir, cache>>
    BY <1>0, <1>1, <1>4 DEF ScanRow, Ready, disk, memory
  <2>2. QED  BY <1>0, <2>1, LinkedSame
<1>5. CASE OpenCached(b)
  <2>1. phase[b] = "xact"  BY <1>0, <1>5, CallFacts, CallPhase DEF OpenCached
  <2>2. QED  BY <1>0, <1>5, <2>1, LinkedSame DEF OpenCached, disk
<1>6. CASE OpenShared(b)
  <2>1. phase[b] = "xact" /\ call[b].at = "read" /\ hand[b] = NULL /\ UNCHANGED <<phase, dir, cache, call>>
    BY <1>0, <1>6, CallFacts, CallPhase DEF OpenShared, disk, memory
  <2>2. hand'[b] = dir[call[b].op.old]  BY <1>0, <1>6 DEF OpenShared, TypeOK
  <2>3. (dir[HandName(b)] = hand[b])'  BY <2>1, <2>2 DEF HandName
  <2>4. QED  BY <1>0, <2>1, <2>3, LinkedOpen DEF Linked, Holds
<1>7. CASE LockShared(b)
  <2>1. /\ phase[b] = "xact" /\ call[b].at = "read" /\ call[b].op.old \in Names
        /\ hand[b] # NULL /\ UNCHANGED <<phase, dir>>
    BY <1>0, <1>7, CallFacts, CallPhase DEF LockShared, disk
  <2>2. /\ hand'[b] = NULL
        /\ cache'[b][call[b].op.old] = [ino |-> hand[b], kind |-> "sh"]
        /\ \A n \in Names : n # call[b].op.old => cache'[b][n] = cache[b][n]
    BY <1>0, <2>1, <1>7 DEF LockShared, SetCache, TypeOK
  <2>3. dir[call[b].op.old] = hand[b]  BY <1>0, <2>1 DEF Linked, HandName
  <2>4. QED  BY <1>0, <2>1, <2>2, <2>3, LinkedOpen DEF Linked, Holds
<1>8. CASE ReuseExclusive(b)
  <2>1. /\ call[b].at \in {"old", "new"} /\ hand[b] = NULL /\ Holds(b, Target(b), {"ex"})
        /\ Target(b) \in Names /\ UNCHANGED <<phase, dir, cache, call, ops, next>>
        /\ hand'[b] = cache[b][Target(b)].ino
    BY <1>0, <1>8, CallFacts DEF ReuseExclusive, Opening, TypeOK, disk, memory
  <2>2. dir[Target(b)] = cache[b][Target(b)].ino
    <3>1. CASE phase[b] # "rollback"  BY <1>0, <2>1, <3>1 DEF Linked, Holds
    <3>2. CASE phase[b] = "rollback"
      <4>1. call[b].kind = "undo" /\ call[b].at = "old"
        BY <1>0, <2>1, <3>2, CallFacts, CallTypes DEF PhaseOK, CallOK
      <4>2. next[b] \in 1 .. Len(ops[b]) /\ Target(b) = Current(b).old
        BY <1>0, <4>1 DEF PhaseOK, Target
      <4>3. QED  BY <1>0, <2>1, <3>2, <4>2, Replays
    <3>3. QED  BY <3>1, <3>2
  <2>3. (dir[HandName(b)] = hand[b])'  BY <2>1, <2>2 DEF HandName, Target
  <2>4. QED  BY <1>0, <2>1, <2>3 DEF Linked, Holds, LockedFrom, Standing
<1>9. CASE OpenExclusive(b)
  <2> DEFINE n == Target(b)
  <2>1. /\ call[b].at \in {"old", "new"} /\ hand[b] = NULL /\ ~Holds(b, n, {"ex", "closed"})
        /\ n \in Names /\ UNCHANGED <<phase, call, ops, next>>
    BY <1>0, <1>9, CallFacts DEF OpenExclusive, Opening, disk, memory
  <2>2. phase[b] = "xact"  BY <1>0, <2>1, OpensInXact DEF Opening, Holds
  <2>3. hand'[b] = dir'[n] /\ \A m \in Names : m # n => dir'[m] = dir[m]
    BY <1>0, <2>1, <1>9 DEF OpenExclusive, TypeOK, disk
  <2>4. CASE Holds(b, n, {"sh"})
    <3>1. call[b].kind \in {"delete", "update"} /\ call[b].at = "old" /\ n = call[b].op.old
      BY <1>0, <2>1, <2>2, <2>4, CallFacts, CallPhase DEF Found, Target, Holds, CallOK
    <3>2. /\ cache'[b][n] = [cache[b][n] EXCEPT !.kind = "closed"]
          /\ \A m \in Names : m # n => cache'[b][m] = cache[b][m]
      <4>1. cache' = [cache EXCEPT ![b][n] = [cache[b][n] EXCEPT !.kind = "closed"]]
        BY <2>4, <1>9 DEF OpenExclusive, CloseShared, SetCache
      <4> HIDE DEF n
      <4>2. QED  BY <1>0, <2>1, <4>1 DEF TypeOK
    <3>3. cache[b][n] \in Fds  BY <1>0, <2>1, <2>4 DEF Holds, TypeOK
    <3>4. cache'[b][n].kind = "closed"  BY <3>2, <3>3 DEF Fds
    <3>5. (dir[HandName(b)] = hand[b])' /\ hand'[b] # NULL
      <4>1. hand'[b] # NULL
        BY <1>0, <2>1, <1>9, FsAssumption DEF OpenExclusive, TypeOK, FreeInodes
      <4>2. QED  BY <2>1, <2>3, <4>1 DEF HandName, Target
    <3> HIDE DEF n
    <3>6. \A m \in Names : Holds(b, m, {"sh", "ex"})' => m # n /\ Holds(b, m, {"sh", "ex"})
      BY <3>2, <3>4 DEF Holds
    <3>7. \A m \in Names : Holds(b, m, {"sh", "ex"})' => dir'[m] = cache'[b][m].ino
      BY <1>0, <2>2, <2>3, <3>2, <3>6 DEF Linked
    <3>8. \A m \in Names : Holds(b, m, {"closed"})' => m = n
      BY <1>0, <2>1, <3>2 DEF Linked, Holds
    <3>9. phase'[b] = "xact" /\ UNCHANGED call  BY <2>1, <2>2
    <3>10. QED  BY <3>1, <3>5, <3>7, <3>8, <3>9, LinkedOpen
  <2>5. CASE ~Holds(b, n, {"sh"})
    <3>1. UNCHANGED cache  BY <2>5, <1>9 DEF OpenExclusive, CloseShared
    <3>2. ~Holds(b, n, {"sh", "ex"})  BY <2>1, <2>5 DEF Holds
    <3>3. (dir[HandName(b)] = hand[b])'  BY <2>1, <2>3 DEF HandName, Target
    <3>4. QED  BY <1>0, <2>1, <2>2, <2>3, <3>1, <3>2, <3>3, LinkedOpen DEF Linked, Holds
  <2>6. QED  BY <2>4, <2>5
<1>10. CASE OpenExclusiveRaises(b)
  <2>1. /\ phase[b] = "xact" /\ UNCHANGED <<dir, cache, ops>>
        /\ hand[b] = NULL /\ hand'[b] = NULL /\ phase'[b] = "rollback"
        /\ next'[b] = Len(ops[b]) /\ call'[b] = NoCall
    BY <1>0, <1>10, OnlyExists DEF OpenExclusiveRaises, Raise, SetCall, TypeOK, disk
  <2>2. QED  BY <1>0, <2>1, RollbackStarts
<1>11. CASE \E n \in Names : Delete(b, n)
  <2>1. /\ hand[b] = NULL /\ phase[b] \in {"idle", "xact"} /\ phase'[b] \in {"idle", "xact"}
        /\ hand'[b] = NULL /\ UNCHANGED <<dir, cache>>
    BY <1>0, <1>1, <1>11 DEF Delete, DML, Ready, disk, memory
  <2>2. QED  BY <1>0, <2>1, LinkedSame
<1>12. CASE \E n \in Names, v \in Contents : Insert(b, n, v)
  <2>1. /\ hand[b] = NULL /\ phase[b] \in {"idle", "xact"} /\ phase'[b] \in {"idle", "xact"}
        /\ hand'[b] = NULL /\ UNCHANGED <<dir, cache>>
    BY <1>0, <1>1, <1>12 DEF Insert, DML, Ready, disk, memory
  <2>2. QED  BY <1>0, <2>1, LinkedSame
<1>13. CASE \E n, m \in Names, v \in Contents : Update(b, n, m, v)
  <2>1. /\ hand[b] = NULL /\ phase[b] \in {"idle", "xact"} /\ phase'[b] \in {"idle", "xact"}
        /\ hand'[b] = NULL /\ UNCHANGED <<dir, cache>>
    BY <1>0, <1>1, <1>13 DEF Update, DML, Ready, disk
  <2>2. QED  BY <1>0, <2>1, LinkedSame
<1>14. CASE Finish(b)
  <2>1. /\ phase[b] = "xact" /\ UNCHANGED <<dir, phase>> /\ hand[b] # NULL /\ hand'[b] = NULL
        /\ call[b].at \in {"old", "new"}
        /\ \A n \in Names : cache'[b][n] = IF n = Target(b) THEN Locked(b) ELSE cache[b][n]
    BY <1>14 DEF Finish, disk
  <2>2. dir[Target(b)] = hand[b]  BY <1>0, <2>1 DEF Linked, HandName
  <2>3. \A n \in Names : Holds(b, n, {"closed"}) => n = Target(b)  BY <1>0 DEF Linked, Target
  <2>4. QED  BY <1>0, <2>1, <2>2, <2>3, LockedFd, LinkedOpen DEF Linked, Holds
<1>15. CASE UpdateMoves(b)
  <2>1. /\ call[b].kind = "update" /\ call[b].at = "old" /\ hand[b] # NULL /\ UNCHANGED <<dir, phase>>
        /\ cache' = [cache EXCEPT ![b][call[b].op.old] = Locked(b)] /\ hand'[b] = NULL
    BY <1>0, <1>15 DEF UpdateMoves, UpdateLocksOld, Locks, SetCache, disk, TypeOK
  <2>2. phase[b] = "xact" /\ call[b].op.old \in Names  BY <1>0, <2>1, CallPhase, CallFacts DEF Target
  <2>3. dir[call[b].op.old] = hand[b]  BY <1>0, <2>1 DEF Linked, HandName, Target
  <2>4. \A n \in Names : cache'[b][n] = IF n = call[b].op.old THEN Locked(b) ELSE cache[b][n]
    BY <1>0, <2>1, <2>2 DEF TypeOK
  <2>5. \A n \in Names : Holds(b, n, {"closed"}) => n = call[b].op.old  BY <1>0 DEF Linked
  <2>6. QED  BY <1>0, <2>1, <2>2, <2>3, <2>4, <2>5, LockedFd, LinkedOpen DEF Linked, Holds
<1>16. CASE Commit(b)
  <2>1. /\ phase[b] = "xact" /\ UNCHANGED <<dir, cache, ops, hand>> /\ hand[b] = NULL
        /\ phase'[b] = "pre_commit" /\ next'[b] = 1
    BY <1>0, <1>1, <1>16 DEF Commit, Ready, TypeOK, disk, memory
  <2>2. LockedFrom(b, 1, Len(ops[b]))  BY <1>0, <2>1 DEF FilesHeld, LockedFrom
  <2>3. QED  BY <1>0, <2>1, <2>2 DEF Linked, LockedFrom, Holds
<1>17. CASE Abort(b)
  <2>1. /\ phase[b] = "xact" /\ UNCHANGED <<dir, cache, ops>> /\ hand[b] = NULL /\ hand'[b] = NULL
        /\ phase'[b] = "rollback" /\ next'[b] = Len(ops[b]) /\ call'[b] = NoCall
    BY <1>0, <1>1, <1>17 DEF Abort, Ready, TypeOK, disk, memory
  <2>2. QED  BY <1>0, <2>1, RollbackStarts
<1>18. CASE ApplyDelete(b)
  <2>1. /\ phase[b] = "pre_commit" /\ phase'[b] = "pre_commit" /\ next[b] \in 1 .. Len(ops[b])
        /\ Current(b).kind = "delete" /\ hand[b] = NULL /\ hand'[b] = NULL /\ UNCHANGED ops
        /\ next'[b] = next[b] + 1
    BY <1>0, <1>1, <1>18 DEF ApplyDelete, Replaying, TypeOK
  <2>2. Current(b).old \in Names  BY <1>0, <2>1, Replays DEF OpOK
  <2>3. \A n \in Names : /\ dir'[n] = IF n = Current(b).old THEN NULL ELSE dir[n]
                         /\ cache'[b][n] = IF n = Current(b).old THEN NULL ELSE cache[b][n]
    BY <1>0, <2>2, <1>18 DEF ApplyDelete, Unlink, SetCache, TypeOK
  <2>4. \A k \in next[b] + 1 .. Len(ops[b]) : ~Touches(ops[b][k], Current(b).old)
    BY <1>0, <2>1, Replays DEF Life, Untouched, Removes
  <2>5. LockedFrom(b, next[b], Len(ops[b]))'
    <3>1. \A k \in next[b] + 1 .. Len(ops[b]) : k \in next[b] .. Len(ops[b])  BY <1>0 DEF TypeOK
    <3>2. QED  BY <1>0, <2>1, <2>3, <2>4, <3>1 DEF Linked, LockedFrom, Holds
  <2>6. \A n \in Names : /\ Holds(b, n, {"sh", "ex"})' => dir'[n] = cache'[b][n].ino
                         /\ ~Holds(b, n, {"closed"})'
    BY <1>0, <2>1, <2>3 DEF Linked, Holds
  <2>7. QED  BY <2>1, <2>5, <2>6 DEF Linked
<1>19. CASE ApplyOpens(b)
  <2>1. /\ phase[b] = "pre_commit" /\ phase'[b] = "pre_commit" /\ hand[b] = NULL /\ hand'[b] = NULL
        /\ UNCHANGED <<ops, next, dir, cache>>
    BY <1>0, <1>1, <1>19 DEF ApplyOpens, Replaying, disk, memory
  <2>2. QED  BY <1>0, <2>1 DEF Linked, LockedFrom, Holds
<1>20. CASE ApplyWrites(b)
  <2> DEFINE op == call[b].op
  <2>1. /\ phase[b] = "pre_commit" /\ phase'[b] = "pre_commit" /\ next[b] \in 1 .. Len(ops[b])
        /\ op = Current(b) /\ call[b].at = "new" /\ hand[b] # NULL /\ hand'[b] = NULL /\ UNCHANGED ops
        /\ next'[b] = next[b] + 1 /\ call[b].kind = "apply"
    BY <1>0, <1>20, CallPhase DEF ApplyWrites, Locks, PhaseOK, CallOK, TypeOK
  <2>2. op.new \in Names /\ (Moves(op) => op.old \in Names /\ op.old # op.new) /\ Target(b) = op.new
    <3>1. op \in Ops /\ OpOK(op) /\ op.kind # "delete"  BY <1>0, <2>1 DEF CallOK, OpOK
    <3>2. op.kind \in {"insert", "update"}  BY <3>1, OpFields
    <3>3. QED  BY <2>1, <3>1, <3>2 DEF OpOK, Moves, Target
  <2>3. dir[op.new] = hand[b]  BY <1>0, <2>1, <2>2 DEF Linked, HandName
  <2>4. \A n \in Names : /\ dir'[n] = IF Moves(op) /\ n = op.old THEN NULL ELSE dir[n]
                         /\ cache'[b][n] = IF Moves(op) /\ n = op.old THEN NULL
                                           ELSE IF n = op.new THEN Locked(b) ELSE cache[b][n]
    <3>1. CASE Moves(op)
      <4>1. /\ dir' = [dir EXCEPT ![op.old] = NULL]
            /\ cache' = [cache EXCEPT ![b][op.new] = Locked(b), ![b][op.old] = NULL]
        BY <3>1, <1>20 DEF ApplyWrites, Unlink
      <4>2. QED  BY <1>0, <2>2, <3>1, <4>1 DEF TypeOK
    <3>2. CASE ~Moves(op)
      <4>1. UNCHANGED dir /\ cache' = [cache EXCEPT ![b][op.new] = Locked(b)]
        BY <3>2, <1>20 DEF ApplyWrites, SetCache
      <4>2. QED  BY <1>0, <2>2, <3>2, <4>1 DEF TypeOK
    <3>3. QED  BY <3>1, <3>2
  <2>5. Moves(op) => \A k \in next[b] + 1 .. Len(ops[b]) : ~Touches(ops[b][k], op.old)
    BY <1>0, <2>1, Replays DEF Life, Untouched, Removes
  <2>6. \A n \in Names : ~Holds(b, n, {"closed"})  BY <1>0, <2>1 DEF Linked
  <2>7. Locked(b) # NULL /\ Locked(b).kind = "ex" /\ Locked(b).ino = hand[b]  BY <1>0, <2>1, LockedFd
  <2> HIDE DEF op
  <2>8. LockedFrom(b, next[b], Len(ops[b]))'
    <3>1. \A k \in next[b] + 1 .. Len(ops[b]) : k \in next[b] .. Len(ops[b])  BY <1>0 DEF TypeOK
    <3>2. QED  BY <1>0, <2>1, <2>4, <2>5, <2>7, <3>1 DEF Linked, LockedFrom, Holds
  <2>9. \A n \in Names : /\ Holds(b, n, {"sh", "ex"})' => dir'[n] = cache'[b][n].ino
                         /\ ~Holds(b, n, {"closed"})'
    BY <1>0, <2>1, <2>3, <2>4, <2>6, <2>7 DEF Linked, Holds
  <2>10. QED  BY <2>1, <2>8, <2>9 DEF Linked
<1>21. CASE UndoDelete(b)
  <2>1. /\ next[b] \in 1 .. Len(ops[b]) /\ Current(b).kind = "delete"
        /\ phase[b] = "rollback" /\ phase'[b] = "rollback" /\ call[b] = NoCall /\ call'[b] = NoCall
        /\ hand[b] = NULL /\ hand'[b] = NULL /\ UNCHANGED <<ops, dir, cache>>
        /\ next'[b] = next[b] - 1
    BY <1>0, <1>1, <1>21 DEF UndoDelete, Replaying, TypeOK, disk, memory
  <2>2. Standing(b) = next[b] /\ Standing(b)' = next[b] - 1  BY <2>1, CallTypes DEF Standing
  <2>3. ~Makes(ops[b][next[b]])  BY <2>1 DEF Makes, Moves, Current
  <2>4. QED  BY <1>0, <2>1, <2>2, <2>3, Unmade
<1>22. CASE UndoInsert(b)
  <2>1. /\ next[b] \in 1 .. Len(ops[b]) /\ Current(b).kind = "insert"
        /\ phase[b] = "rollback" /\ phase'[b] = "rollback" /\ call[b] = NoCall /\ call'[b] = NoCall
        /\ hand[b] = NULL /\ hand'[b] = NULL /\ UNCHANGED <<ops, cache>>
        /\ next'[b] = next[b] - 1
    BY <1>0, <1>1, <1>22 DEF UndoInsert, Replaying, TypeOK, disk, memory
  <2>2. Standing(b) = next[b] /\ Standing(b)' = next[b] - 1  BY <2>1, CallTypes DEF Standing
  <2>3. Current(b).new \in Names  BY <1>0, <2>1, Replays DEF OpOK
  <2>4. \A n \in Names : dir'[n] = IF n = Current(b).new THEN NULL ELSE dir[n]
    BY <1>0, <2>3, <1>22 DEF UndoInsert, Unlink, TypeOK
  <2>5. Makes(ops[b][next[b]])  BY <2>1 DEF Makes, Current
  <2>6. QED  BY <1>0, <2>1, <2>2, <2>4, <2>5, Unmade DEF Current
<1>23. CASE UndoUpdate(b)
  <2>1. /\ next[b] \in 1 .. Len(ops[b]) /\ Current(b).kind = "update"
        /\ phase[b] = "rollback" /\ phase'[b] = "rollback" /\ call[b] = NoCall /\ call'[b].kind = "undo"
        /\ hand[b] = NULL /\ hand'[b] = NULL /\ UNCHANGED <<ops, cache, next>>
    BY <1>0, <1>1, <1>23 DEF UndoUpdate, Replaying, TypeOK, disk, memory, SetCall, Call
  <2>2. Standing(b) = next[b] /\ Standing(b)' = next[b] - 1  BY <2>1, CallTypes DEF Standing
  <2>3. CASE Moves(Current(b))
    <3>1. Current(b).new \in Names  BY <1>0, <2>1, Replays DEF OpOK
    <3>2. \A n \in Names : dir'[n] = IF n = Current(b).new THEN NULL ELSE dir[n]
      BY <1>0, <2>3, <3>1, <1>23 DEF UndoUpdate, Unlink, TypeOK
    <3>3. Makes(ops[b][next[b]])  BY <2>3 DEF Makes, Current
    <3>4. QED  BY <1>0, <2>1, <2>2, <3>2, <3>3, Unmade DEF Current
  <2>4. CASE ~Moves(Current(b))
    <3>1. UNCHANGED dir  BY <2>4, <1>23 DEF UndoUpdate
    <3>2. ~Makes(ops[b][next[b]])  BY <2>1, <2>4 DEF Makes, Current
    <3>3. QED  BY <1>0, <2>1, <2>2, <3>1, <3>2, Unmade
  <2>5. QED  BY <2>3, <2>4
<1>24. CASE UndoWrites(b)
  <2>1. /\ phase[b] = "rollback" /\ phase'[b] = "rollback" /\ call[b].kind = "undo" /\ call'[b] = NoCall
        /\ hand[b] # NULL /\ hand'[b] = NULL /\ UNCHANGED <<ops, dir>> /\ call[b].at = "old"
        /\ next'[b] = next[b] - 1 /\ call[b].op.old \in Names
        /\ cache' = [cache EXCEPT ![b][call[b].op.old] = Locked(b)]
    BY <1>0, <1>24, CallPhase DEF UndoWrites, Locks, SetCache, SetCall, CallOK, OpOK, TypeOK
  <2>2. Standing(b)' = Standing(b)  BY <2>1, CallTypes DEF Standing
  <2>3. dir[call[b].op.old] = hand[b]  BY <1>0, <2>1 DEF Linked, HandName, Target
  <2>4. \A n \in Names : cache'[b][n] = IF n = call[b].op.old THEN Locked(b) ELSE cache[b][n]
    BY <1>0, <2>1 DEF TypeOK
  <2>5. \A n \in Names : ~Holds(b, n, {"closed"})  BY <1>0, <2>1 DEF Linked
  <2>6. Locked(b) # NULL /\ Locked(b).kind = "ex" /\ Locked(b).ino = hand[b]  BY <1>0, <2>1, LockedFd
  <2>7. LockedFrom(b, 1, Len(ops[b]))'
    BY <1>0, <2>1, <2>4, <2>6 DEF Linked, LockedFrom, Holds
  <2>8. \A n \in Names : Holds(b, n, {"sh", "ex"})' =>
          \/ dir'[n] = cache'[b][n].ino
          \/ \E k \in Standing(b) + 1 .. Len(ops[b]) : Makes(ops[b][k]) /\ ops[b][k].new = n
    BY <1>0, <2>1, <2>3, <2>4, <2>6 DEF Linked, Holds
  <2>9. \A n \in Names : ~Holds(b, n, {"closed"})'  BY <2>4, <2>5, <2>6 DEF Holds
  <2>10. QED  BY <1>0, <2>1, <2>2, <2>7, <2>8, <2>9 DEF Linked, LockedFrom
<1>25. CASE CleanUp(b)
  <2>1. /\ phase'[b] = "idle" /\ hand[b] = NULL /\ UNCHANGED hand
        /\ \A n \in Names : cache'[b][n] = NULL
    BY <1>0, <1>1, <1>25 DEF CleanUp, Replayed, TypeOK
  <2>2. QED  BY <2>1, LinkedOpen DEF Holds
<1>26. QED
  BY StepKinds, <1>2, <1>3, <1>4, <1>5, <1>6, <1>7, <1>8, <1>9, <1>10, <1>11, <1>12, <1>13,
     <1>14, <1>15, <1>16, <1>17, <1>18, <1>19, <1>20, <1>21, <1>22, <1>23, <1>24, <1>25

LEMMA FoundLeft ==
    ASSUME NEW b \in Backends, phase'[b] # "xact"
    PROVE  Found(b)'
BY DEF Found

\* Found, by its parts.
LEMMA FoundKept ==
    ASSUME NEW b \in Backends, Found(b), phase[b] = "xact", UNCHANGED <<ops, invisible>>,
           \A n \in Names : dir[n] # NULL => dir'[n] # NULL,
           \A n \in seen'[b] : dir'[n] # NULL,
           call'[b].kind \in {"read", "delete", "update"} => dir'[call'[b].op.old] # NULL,
           call'[b].kind = "insert" \/ (call'[b].kind = "update" /\ call'[b].op.old # call'[b].op.new) =>
              cache'[b][call'[b].op.new] = NULL
    PROVE  Found(b)'
BY DEF Found

\* What a read returns is a content.
LEMMA ReadsContent ==
    ASSUME NEW b \in Backends, WellFormed
    PROVE  /\ LockShared(b) => data[hand[b]] \in Contents
           /\ OpenCached(b) => data[cache[b][call[b].op.old].ino] \in Contents
<1>1. ASSUME LockShared(b) PROVE data[hand[b]] \in Contents
  <2>1. hand[b] \in Inodes  BY <1>1 DEF LockShared, WellFormed, TypeOK
  <2>2. QED  BY <2>1 DEF WellFormed, TypeOK
<1>2. ASSUME OpenCached(b) PROVE data[cache[b][call[b].op.old].ino] \in Contents
  <2>1. call[b].op.old \in Names /\ Holds(b, call[b].op.old, {"sh", "ex"})
    BY <1>2, CallFacts DEF OpenCached
  <2>2. cache[b][call[b].op.old] \in Fds  BY <2>1 DEF Holds, WellFormed, TypeOK
  <2>3. cache[b][call[b].op.old].ino \in Inodes  BY <2>2 DEF Fds
  <2>4. QED  BY <2>3 DEF WellFormed, TypeOK
<1>3. QED  BY <1>1, <1>2

LEMMA FoundStep ==
    ASSUME NamesOnce, NEW b \in Backends, OneInv(b), Step(b)
    PROVE  Found(b)'
<1>0. /\ OneInv(b) /\ WellFormed /\ TypeOK /\ Found(b) /\ Rest(b) /\ PhaseOK(b) /\ CallOK(call[b])
  BY DEF OneInv, WellFormed, OneOK
<1>1. TypeOK'  BY <1>0, TypeStep
<1>2. CASE Begin(b)
  <2>1. /\ phase[b] = "idle" /\ UNCHANGED <<call, seen, invisible>>  BY <1>2 DEF Begin, memory
  <2>2. call[b].kind = "none" /\ seen[b] = {} /\ invisible[b] = {}
    BY <1>0, <2>1, CallTypes DEF PhaseOK, Rest
  <2>3. QED  BY <2>1, <2>2 DEF Found
<1>3. CASE EndScan(b)
  <2>1. /\ phase[b] = "xact" /\ call[b].kind = "none" /\ UNCHANGED <<phase, dir, ops, invisible, call>>
        /\ seen'[b] \subseteq seen[b]
    BY <1>0, <1>3, CallTypes DEF EndScan, ScanEnds, Ready, disk, memory, TypeOK
  <2>2. QED  BY <1>0, <2>1, FoundKept DEF Found
<1>4. CASE \E n \in Names : ScanRow(b, n)
  <2>1. PICK n \in Names : ScanRow(b, n)  BY <1>4
  <2>2. /\ phase[b] = "xact" /\ call[b].kind = "none" /\ UNCHANGED <<phase, dir, ops, invisible>>
        /\ dir[n] # NULL /\ seen'[b] \subseteq seen[b] \union {n}
    BY <1>0, <2>1, CallTypes DEF ScanRow, Ready, disk, memory, TypeOK
  <2>3. \/ UNCHANGED call
        \/ call'[b] = Call("read", "read", Op("update", n, NULL, NULL, NULL))
    BY <1>0, <2>1 DEF ScanRow, SetCall, TypeOK
  <2>4. call'[b].kind = "none" \/ (call'[b].kind = "read" /\ call'[b].op.old = n)
    BY <2>2, <2>3 DEF Call, Op
  <2>5. QED  BY <1>0, <2>2, <2>4, FoundKept DEF Found
<1>5. CASE OpenCached(b)
  <2>1. /\ phase[b] = "xact" /\ call[b].kind \in {"read", "update"} /\ call[b].op.old \in Names
        /\ call[b].op \in Ops /\ UNCHANGED <<dir, ops, invisible>>
        /\ \A n \in Names : n # call[b].op.old => cache'[b][n] = cache[b][n]
    BY <1>0, <1>5, CallFacts, CallPhase DEF OpenCached, SetCache, disk, TypeOK
  <2>2. PICK v \in Contents : ReadReturns(b, v)
    BY <1>0, <1>5, ReadsContent DEF OpenCached
  <2>3. dir[call[b].op.old] # NULL /\ seen[b] \subseteq Names  BY <1>0, <2>1 DEF Found, TypeOK
  <2>4. CASE call[b].kind = "read"
    <3>1. call'[b].kind = "none" /\ seen'[b] = seen[b] \union {call[b].op.old}
      BY <1>0, <2>2, <2>4, CallTypes DEF ReadReturns, SetCall, TypeOK
    <3>2. QED  BY <1>0, <2>1, <2>3, <3>1, FoundKept DEF Found
  <2>5. CASE call[b].kind = "update"
    <3>1. seen' = seen /\ call'[b] = Call("update", "old", [call[b].op EXCEPT !.oldContent = v])
      BY <1>0, <2>2, <2>5 DEF ReadReturns, SetCall, TypeOK
    <3>2. call'[b].kind = "update" /\ call'[b].op.old = call[b].op.old /\ call'[b].op.new = call[b].op.new
      BY <2>1, <3>1 DEF Call, Ops
    <3>3. call[b].op.new \in Names  BY <1>0, <2>5 DEF CallOK
    <3>4. call'[b].op.old # call'[b].op.new => cache'[b][call'[b].op.new] = NULL
      BY <1>0, <2>1, <2>5, <3>2, <3>3 DEF Found
    <3>5. QED  BY <1>0, <2>1, <2>3, <3>1, <3>2, <3>4, FoundKept DEF Found
  <2>6. QED  BY <2>1, <2>4, <2>5
<1>6. CASE OpenShared(b)
  <2>1. phase[b] = "xact"  BY <1>0, <1>6, CallFacts, CallPhase DEF OpenShared
  <2>2. QED  BY <1>0, <2>1, <1>6 DEF OpenShared, Found, disk, memory
<1>7. CASE LockShared(b)
  <2>1. /\ phase[b] = "xact" /\ call[b].kind \in {"read", "update"} /\ call[b].op.old \in Names
        /\ call[b].op \in Ops /\ UNCHANGED <<dir, ops, invisible>>
        /\ \A n \in Names : n # call[b].op.old => cache'[b][n] = cache[b][n]
    BY <1>0, <1>7, CallFacts, CallPhase DEF LockShared, SetCache, disk, TypeOK
  <2>2. PICK v \in Contents : ReadReturns(b, v)
    BY <1>0, <1>7, ReadsContent DEF LockShared
  <2>3. dir[call[b].op.old] # NULL /\ seen[b] \subseteq Names  BY <1>0, <2>1 DEF Found, TypeOK
  <2>4. CASE call[b].kind = "read"
    <3>1. call'[b].kind = "none" /\ seen'[b] = seen[b] \union {call[b].op.old}
      BY <1>0, <2>2, <2>4, CallTypes DEF ReadReturns, SetCall, TypeOK
    <3>2. QED  BY <1>0, <2>1, <2>3, <3>1, FoundKept DEF Found
  <2>5. CASE call[b].kind = "update"
    <3>1. seen' = seen /\ call'[b] = Call("update", "old", [call[b].op EXCEPT !.oldContent = v])
      BY <1>0, <2>2, <2>5 DEF ReadReturns, SetCall, TypeOK
    <3>2. call'[b].kind = "update" /\ call'[b].op.old = call[b].op.old /\ call'[b].op.new = call[b].op.new
      BY <2>1, <3>1 DEF Call, Ops
    <3>3. call[b].op.new \in Names  BY <1>0, <2>5 DEF CallOK
    <3>4. call'[b].op.old # call'[b].op.new => cache'[b][call'[b].op.new] = NULL
      BY <1>0, <2>1, <2>5, <3>2, <3>3 DEF Found
    <3>5. QED  BY <1>0, <2>1, <2>3, <3>1, <3>2, <3>4, FoundKept DEF Found
  <2>6. QED  BY <2>1, <2>4, <2>5
<1>8. CASE ReuseExclusive(b)  BY <1>0, <1>8 DEF ReuseExclusive, Found, disk, memory
<1>9. CASE OpenExclusive(b)
  <2>1. /\ Opening(b) /\ CloseShared(b) /\ UNCHANGED <<phase, call, seen, ops, invisible>>
        /\ ~Holds(b, Target(b), {"ex"}) /\ call[b].at \in {"old", "new"}
    BY <1>9 DEF OpenExclusive, Opening, Holds
  <2>2. phase[b] = "xact"  BY <1>0, <2>1, OpensInXact
  <2>3. \A n \in Names : dir[n] # NULL => dir'[n] # NULL
    BY <1>0, <1>9, FsAssumption DEF OpenExclusive, disk, TypeOK, FreeInodes
  <2>4. \A n \in Names : cache[b][n] = NULL => cache'[b][n] = NULL
    BY <1>0, <2>1, CloseSharedStep DEF Holds
  <2>5. CallOK(call[b]) /\ seen[b] \subseteq Names  BY <1>0 DEF TypeOK
  <2>6. /\ call[b].kind \in {"read", "delete", "update"} => call[b].op.old \in Names
        /\ call[b].kind \in {"insert", "update"} => call[b].op.new \in Names
    BY <2>5 DEF CallOK, OpOK
  <2>7. QED  BY <1>0, <2>1, <2>2, <2>3, <2>4, <2>5, <2>6, FoundKept DEF Found
<1>10. CASE OpenExclusiveRaises(b)
  <2>1. phase'[b] = "rollback"  BY <1>0, <1>10, OnlyExists DEF OpenExclusiveRaises, Raise, TypeOK
  <2>2. QED  BY <2>1, FoundLeft
<1>11. CASE \E n \in Names : Delete(b, n)
  <2>1. PICK n \in Names : Delete(b, n)  BY <1>11
  <2>2. /\ phase[b] = "xact" /\ UNCHANGED <<phase, dir, ops, invisible>>
        /\ n \in seen[b] /\ seen'[b] \subseteq seen[b]
        /\ call'[b] = Call("delete", "old", Op("delete", n, NULL, NULL, NULL))
    BY <1>0, <2>1 DEF Delete, DML, Ready, disk, memory, TypeOK, SetCall
  <2>3. call'[b].kind = "delete" /\ call'[b].op.old = n  BY <2>2 DEF Call, Op
  <2>4. QED  BY <1>0, <2>2, <2>3, FoundKept DEF Found
<1>12. CASE \E n \in Names, v \in Contents : Insert(b, n, v)
  <2>1. PICK n \in Names, v \in Contents : Insert(b, n, v)  BY <1>12
  <2>2. /\ phase[b] = "xact" /\ UNCHANGED <<phase, dir, ops, invisible, cache, seen>>
        /\ call'[b] = Call("insert", "new", Op("insert", NULL, NULL, n, v))
    BY <1>0, <2>1 DEF Insert, DML, Ready, disk, memory, TypeOK, SetCall
  <2>3. call'[b].kind = "insert" /\ call'[b].op.new = n  BY <2>2 DEF Call, Op
  <2>4. cache[b][n] = NULL  BY <2>1 DEF Insert, MayName, NamesOnce
  <2>5. QED  BY <1>0, <2>2, <2>3, <2>4, FoundKept DEF Found
<1>13. CASE \E n, m \in Names, v \in Contents : Update(b, n, m, v)
  <2>1. PICK n, m \in Names, v \in Contents : Update(b, n, m, v)  BY <1>13
  <2>2. /\ phase[b] = "xact" /\ UNCHANGED <<phase, dir, ops, invisible, cache>>
        /\ n \in seen[b] /\ seen'[b] \subseteq seen[b]
    BY <1>0, <2>1 DEF Update, DML, Ready, disk, TypeOK
  <2>3. \/ call'[b] = Call("update", "read", Op("update", n, NULL, m, v))
        \/ call'[b] = Call("update", "old", Op("update", n, updated[b][n], m, v))
    BY <1>0, <2>1 DEF Update, SetCall, TypeOK
  <2>4. call'[b].kind = "update" /\ call'[b].op.old = n /\ call'[b].op.new = m  BY <2>3 DEF Call, Op
  <2>5. m # n => cache[b][m] = NULL  BY <2>1 DEF Update, MayName, NamesOnce
  <2>6. QED  BY <1>0, <2>2, <2>4, <2>5, FoundKept DEF Found
<1>14. CASE Finish(b)
  <2> DEFINE L == Len(ops[b])
             op == call[b].op
  <2>1. /\ L \in Nat /\ Len(ops'[b]) = L + 1 /\ ops'[b][L + 1] = op
        /\ \A k \in 1 .. L : ops'[b][k] = ops[b][k]
    BY <1>14, FinishTouches
  <2>2. /\ phase[b] = "xact" /\ UNCHANGED <<phase, dir, seen>> /\ call'[b].kind = "none"
        /\ \A n \in Names : n \in invisible'[b] => n \in invisible[b] \/ (Removes(op) /\ n = op.old)
    BY <1>14, CallTypes DEF Finish, disk
  <2>3. invisible'[b] \subseteq Names  BY <1>1 DEF TypeOK
  <2> HIDE DEF L, op
  <2>4. ASSUME NEW n \in invisible'[b]
        PROVE  \E k \in 1 .. L + 1 : Removes(ops'[b][k]) /\ ops'[b][k].old = n
    <3>1. CASE n \in invisible[b]
      <4>1. PICK k \in 1 .. L : Removes(ops[b][k]) /\ ops[b][k].old = n
        BY <1>0, <2>2, <3>1 DEF Found, L
      <4>2. k \in 1 .. L + 1  BY <2>1
      <4>3. QED  BY <2>1, <4>1, <4>2
    <3>2. CASE Removes(op) /\ n = op.old
      <4>1. L + 1 \in 1 .. L + 1  BY <2>1
      <4>2. QED  BY <2>1, <3>2, <4>1
    <3>3. QED  BY <2>2, <2>3, <2>4, <3>1, <3>2
  <2>5. QED  BY <1>0, <2>1, <2>2, <2>4 DEF Found
<1>15. CASE UpdateMoves(b)
  <2>1. /\ call[b].kind = "update" /\ call[b].at = "old" /\ UNCHANGED <<dir, phase, ops, seen, invisible>>
        /\ cache' = [cache EXCEPT ![b][call[b].op.old] = Locked(b)]
        /\ call' = [call EXCEPT ![b] = [call[b] EXCEPT !.at = "new"]]
    BY <1>0, <1>15 DEF UpdateMoves, UpdateLocksOld, Moves, Locks, SetCache, SetCall, disk
  <2>2. phase[b] = "xact" /\ call[b].op.old \in Names /\ call[b].op.new \in Names /\ call[b] \in Calls
    BY <1>0, <2>1, CallPhase, CallFacts DEF CallOK
  <2>3. call'[b].kind = "update" /\ call'[b].op = call[b].op  BY <1>0, <2>1, <2>2 DEF Calls, TypeOK
  <2>4. \A n \in Names : n # call[b].op.old => cache'[b][n] = cache[b][n]  BY <1>0, <2>1, <2>2 DEF TypeOK
  <2>5. QED  BY <1>0, <2>1, <2>2, <2>3, <2>4, FoundKept DEF Found
<1>16. CASE Commit(b)
  <2>1. phase'[b] # "xact"  BY <1>0, <1>16 DEF Commit, TypeOK
  <2>2. QED  BY <2>1, FoundLeft
<1>17. CASE Abort(b)
  <2>1. phase'[b] # "xact"  BY <1>0, <1>17 DEF Abort, TypeOK
  <2>2. QED  BY <2>1, FoundLeft
<1>18. CASE ApplyDelete(b)  BY FoundLeft, <1>18 DEF ApplyDelete, Replaying
<1>19. CASE ApplyOpens(b)  BY FoundLeft, <1>19 DEF ApplyOpens, Replaying
<1>20. CASE ApplyWrites(b)
  <2>1. phase'[b] # "xact"  BY <1>0, <1>20, CallPhase DEF ApplyWrites
  <2>2. QED  BY <2>1, FoundLeft
<1>21. CASE UndoDelete(b)  BY FoundLeft, <1>21 DEF UndoDelete, Replaying
<1>22. CASE UndoInsert(b)  BY FoundLeft, <1>22 DEF UndoInsert, Replaying
<1>23. CASE UndoUpdate(b)  BY FoundLeft, <1>23 DEF UndoUpdate, Replaying
<1>24. CASE UndoWrites(b)
  <2>1. phase'[b] # "xact"  BY <1>0, <1>24, CallPhase DEF UndoWrites
  <2>2. QED  BY <2>1, FoundLeft
<1>25. CASE CleanUp(b)
  <2>1. phase'[b] # "xact"  BY <1>0, <1>25 DEF CleanUp, TypeOK
  <2>2. QED  BY <2>1, FoundLeft
<1>26. QED
  BY StepKinds, <1>2, <1>3, <1>4, <1>5, <1>6, <1>7, <1>8, <1>9, <1>10, <1>11, <1>12, <1>13,
     <1>14, <1>15, <1>16, <1>17, <1>18, <1>19, <1>20, <1>21, <1>22, <1>23, <1>24, <1>25

LEMMA ShownLeft ==
    ASSUME NEW b \in Backends, phase'[b] # "xact"
    PROVE  Shown(b)'
BY DEF Shown

\* What a scan shows changes with an operation, or an update begins.
LEMMA ShownKept ==
    ASSUME NEW b \in Backends, Shown(b), phase[b] = "xact", ops'[b] = ops[b],
           \/ /\ UNCHANGED updated /\ \A n \in Names : Changing(b, n)' <=> Changing(b, n)
              /\ \A n \in Names : Changing(b, n) => call'[b].op.content = call[b].op.content
           \/ /\ \A n \in Names : ~Changing(b, n)
              /\ call'[b].kind = "update" /\ call'[b].at # "read" /\ call'[b].op.new \in Names
              /\ \A n \in Names : updated'[b][n] = IF n = call'[b].op.new THEN call'[b].op.content
                                                   ELSE updated[b][n]
    PROVE  Shown(b)'
<1>1. CASE /\ UNCHANGED updated /\ \A n \in Names : Changing(b, n)' <=> Changing(b, n)
           /\ \A n \in Names : Changing(b, n) => call'[b].op.content = call[b].op.content
  BY <1>1 DEF Shown, Untouched
<1>2. CASE /\ \A n \in Names : ~Changing(b, n)
           /\ call'[b].kind = "update" /\ call'[b].at # "read" /\ call'[b].op.new \in Names
           /\ \A n \in Names : updated'[b][n] = IF n = call'[b].op.new THEN call'[b].op.content
                                                ELSE updated[b][n]
  <2>1. \A n \in Names : Changing(b, n)' <=> n = call'[b].op.new  BY <1>2 DEF Changing
  <2>2. QED  BY <1>2, <2>1 DEF Shown, Untouched
<1>3. QED  BY <1>1, <1>2

LEMMA ShownStep ==
    ASSUME NEW b \in Backends, OneInv(b), Step(b)
    PROVE  Shown(b)'
<1>0. /\ OneInv(b) /\ WellFormed /\ TypeOK /\ Shown(b) /\ Rest(b) /\ PhaseOK(b) /\ CallOK(call[b])
  BY DEF OneInv, WellFormed, OneOK
<1>1. CASE Begin(b)
  <2>1. /\ phase[b] = "idle" /\ UNCHANGED <<call, updated, ops>>  BY <1>1 DEF Begin, memory
  <2>2. /\ call[b].kind = "none" /\ ops[b] = << >> /\ \A n \in Names : updated[b][n] = NULL
    BY <1>0, <2>1, CallTypes DEF PhaseOK, Rest
  <2>3. QED  BY <2>1, <2>2 DEF Shown, Changing
<1>2. CASE EndScan(b)
  <2>1. /\ phase[b] = "xact" /\ ops'[b] = ops[b] /\ UNCHANGED updated
        /\ call[b].kind # "update" \/ call[b].at = "read"
        /\ call'[b].kind # "update" \/ call'[b].at = "read"
    BY <1>0, <1>2, CallTypes DEF EndScan, ScanEnds, Ready, memory, TypeOK
  <2>2. QED  BY <1>0, <2>1, ShownKept DEF Changing
<1>3. CASE \E n \in Names : ScanRow(b, n)
  <2>1. /\ phase[b] = "xact" /\ call[b].kind = "none" /\ UNCHANGED <<ops, updated>>
    BY <1>3, CallTypes DEF ScanRow, Ready, memory
  <2>2. call'[b].kind = "none" \/ call'[b].at = "read"
    BY <1>0, <2>1, <1>3 DEF ScanRow, SetCall, Call, TypeOK
  <2>3. QED  BY <1>0, <2>1, <2>2, ShownKept DEF Changing
<1>4. CASE OpenCached(b)
  <2>1. phase[b] = "xact" /\ call[b].at = "read" /\ call[b].op \in Ops /\ UNCHANGED ops
    BY <1>0, <1>4, CallFacts, CallPhase DEF OpenCached
  <2>2. PICK v \in Contents : ReadReturns(b, v)  BY <1>0, <1>4, ReadsContent DEF OpenCached
  <2>3. CASE call[b].kind = "read"
    <3>1. call'[b].kind = "none" /\ UNCHANGED updated
      BY <1>0, <2>2, <2>3, CallTypes DEF ReadReturns, SetCall, TypeOK
    <3>2. QED  BY <1>0, <2>1, <2>3, <3>1, ShownKept DEF Changing
  <2>4. CASE call[b].kind = "update"
    <3>1. /\ call'[b] = Call("update", "old", [call[b].op EXCEPT !.oldContent = v])
          /\ updated' = [updated EXCEPT ![b][call[b].op.new] = call[b].op.content]
      BY <1>0, <2>2, <2>4 DEF ReadReturns, SetCall, TypeOK
    <3>2. /\ call'[b].kind = "update" /\ call'[b].at = "old" /\ call'[b].op.new = call[b].op.new
          /\ call'[b].op.content = call[b].op.content
      BY <2>1, <3>1 DEF Call, Ops
    <3>3. call[b].op.new \in Names  BY <1>0, <2>4 DEF CallOK
    <3>4. \A n \in Names : updated'[b][n] = IF n = call[b].op.new THEN call[b].op.content
                                            ELSE updated[b][n]
      BY <1>0, <3>1, <3>3 DEF TypeOK
    <3>5. QED  BY <1>0, <2>1, <3>2, <3>3, <3>4, ShownKept DEF Changing
  <2>5. QED  BY <2>2, <2>3, <2>4 DEF ReadReturns
<1>5. CASE OpenShared(b)
  <2>1. UNCHANGED <<phase, ops, updated, call>>  BY <1>5 DEF OpenShared, memory
  <2>2. QED  BY <1>0, <2>1 DEF Shown, Untouched, Changing
<1>6. CASE LockShared(b)
  <2>1. phase[b] = "xact" /\ call[b].at = "read" /\ call[b].op \in Ops /\ UNCHANGED ops
    BY <1>0, <1>6, CallFacts, CallPhase DEF LockShared
  <2>2. PICK v \in Contents : ReadReturns(b, v)  BY <1>0, <1>6, ReadsContent DEF LockShared
  <2>3. CASE call[b].kind = "read"
    <3>1. call'[b].kind = "none" /\ UNCHANGED updated
      BY <1>0, <2>2, <2>3, CallTypes DEF ReadReturns, SetCall, TypeOK
    <3>2. QED  BY <1>0, <2>1, <2>3, <3>1, ShownKept DEF Changing
  <2>4. CASE call[b].kind = "update"
    <3>1. /\ call'[b] = Call("update", "old", [call[b].op EXCEPT !.oldContent = v])
          /\ updated' = [updated EXCEPT ![b][call[b].op.new] = call[b].op.content]
      BY <1>0, <2>2, <2>4 DEF ReadReturns, SetCall, TypeOK
    <3>2. /\ call'[b].kind = "update" /\ call'[b].at = "old" /\ call'[b].op.new = call[b].op.new
          /\ call'[b].op.content = call[b].op.content
      BY <2>1, <3>1 DEF Call, Ops
    <3>3. call[b].op.new \in Names  BY <1>0, <2>4 DEF CallOK
    <3>4. \A n \in Names : updated'[b][n] = IF n = call[b].op.new THEN call[b].op.content
                                            ELSE updated[b][n]
      BY <1>0, <3>1, <3>3 DEF TypeOK
    <3>5. QED  BY <1>0, <2>1, <3>2, <3>3, <3>4, ShownKept DEF Changing
  <2>5. QED  BY <2>2, <2>3, <2>4 DEF ReadReturns
<1>7. CASE ReuseExclusive(b)
  <2>1. UNCHANGED <<phase, ops, updated, call>>  BY <1>7 DEF ReuseExclusive, memory
  <2>2. QED  BY <1>0, <2>1 DEF Shown, Untouched, Changing
<1>8. CASE OpenExclusive(b)
  <2>1. UNCHANGED <<phase, ops, updated, call>>  BY <1>8 DEF OpenExclusive, memory
  <2>2. QED  BY <1>0, <2>1 DEF Shown, Untouched, Changing
<1>9. CASE OpenExclusiveRaises(b)
  <2>1. phase'[b] = "rollback"  BY <1>0, <1>9, OnlyExists DEF OpenExclusiveRaises, Raise, TypeOK
  <2>2. QED  BY <2>1, ShownLeft
<1>10. CASE \E n \in Names : Delete(b, n)
  <2>1. /\ phase[b] = "xact" /\ ops'[b] = ops[b] /\ UNCHANGED updated
        /\ call[b].kind # "update" \/ call[b].at = "read"
        /\ call'[b].kind # "update" \/ call'[b].at = "read"
    BY <1>0, <1>10, CallTypes DEF Delete, DML, Ready, SetCall, Call, memory, TypeOK
  <2>2. QED  BY <1>0, <2>1, ShownKept DEF Changing
<1>11. CASE \E n \in Names, v \in Contents : Insert(b, n, v)
  <2>1. /\ phase[b] = "xact" /\ ops'[b] = ops[b] /\ UNCHANGED updated
        /\ call[b].kind # "update" \/ call[b].at = "read"
        /\ call'[b].kind # "update" \/ call'[b].at = "read"
    BY <1>0, <1>11, CallTypes DEF Insert, DML, Ready, SetCall, Call, memory, TypeOK
  <2>2. QED  BY <1>0, <2>1, ShownKept DEF Changing
<1>12. CASE \E n, m \in Names, v \in Contents : Update(b, n, m, v)
  <2>1. PICK n, m \in Names, v \in Contents : Update(b, n, m, v)  BY <1>12
  <2>2. phase[b] = "xact" /\ call[b].kind = "none" /\ UNCHANGED ops
    BY <2>1, CallTypes DEF Update, DML, Ready
  <2>3. CASE call' = [call EXCEPT ![b] = Call("update", "read", Op("update", n, NULL, m, v))] /\ UNCHANGED updated
    <3>1. call'[b].at = "read"  BY <1>0, <2>3 DEF Call, TypeOK
    <3>2. QED  BY <1>0, <2>2, <2>3, <3>1, ShownKept DEF Changing
  <2>4. CASE /\ call' = [call EXCEPT ![b] = Call("update", "old", Op("update", n, updated[b][n], m, v))]
             /\ updated' = [updated EXCEPT ![b][m] = v]
    <3>1. /\ call'[b].kind = "update" /\ call'[b].at = "old" /\ call'[b].op.new = m
          /\ call'[b].op.content = v
      BY <1>0, <2>4 DEF Call, TypeOK, Op
    <3>2. \A i \in Names : updated'[b][i] = IF i = m THEN v ELSE updated[b][i]
      BY <1>0, <2>4 DEF TypeOK
    <3>3. QED  BY <1>0, <2>2, <3>1, <3>2, ShownKept DEF Changing
  <2>5. QED  BY <2>1, <2>3, <2>4 DEF Update, SetCall
<1>13. CASE Finish(b)
  <2> DEFINE L == Len(ops[b])
             op == call[b].op
  <2>1. /\ L \in Nat /\ Len(ops'[b]) = L + 1 /\ ops'[b][L + 1] = op
        /\ \A k \in 1 .. L : ops'[b][k] = ops[b][k]
    BY <1>13, FinishTouches
  <2>2. /\ phase[b] = "xact" /\ call'[b].kind = "none" /\ OpOK(op) /\ op \in Ops
        /\ call[b].kind = op.kind /\ call[b].at # "read"
        /\ \A n \in Names : updated'[b][n] = IF op.kind = "insert" /\ n = op.new THEN op.content
                                             ELSE updated[b][n]
    BY <1>13, CallTypes DEF Finish
  <2>3. \A n \in Names : Changing(b, n) <=> op.kind = "update" /\ n = op.new
    BY <2>2 DEF Changing
  <2>4. \A n \in Names : ~Changing(b, n)'  BY <2>2 DEF Changing
  <2>5. /\ op.kind = "insert" => op.old = NULL /\ op.new \in Names
        /\ op.kind \in {"insert", "update", "delete"}
    BY <2>2, OpFields DEF OpOK
  <2>6. \A n \in Names : n = op.new => op.kind \in {"insert", "update"}
    BY <2>2, <2>5, FsAssumption DEF OpOK
  <2>7. Shown(b)  BY <1>0
  <2> HIDE DEF L, op
  <2> SUFFICES ASSUME NEW n \in Names
               PROVE  /\ (\A i \in 1 .. L + 1 : ~Touches(ops'[b][i], n)) => updated'[b][n] = NULL
                      /\ \A k \in 1 .. L + 1 :
                            ops'[b][k].new = n /\ (\A i \in k + 1 .. L + 1 : ~Touches(ops'[b][i], n))
                               => updated'[b][n] = ops'[b][k].content
    BY <2>1, <2>4 DEF Shown, Untouched
  <2>8. L + 1 \in 1 .. L + 1 /\ \A i \in 1 .. L : i \in 1 .. L + 1  BY <2>1
  <2>9. CASE n = op.new
    <3>1. updated'[b][n] = op.content
      <4>1. CASE op.kind = "insert"  BY <2>2, <2>9, <4>1
      <4>2. CASE op.kind = "update"
        <5>1. updated[b][n] = op.content  BY <2>2, <2>3, <2>7, <2>9, <4>2 DEF Shown, op
        <5>2. QED  BY <2>2, <4>2, <5>1
      <4>3. QED  BY <2>6, <2>9, <4>1, <4>2
    <3>2. Touches(ops'[b][L + 1], n)  BY <2>1, <2>9 DEF Touches
    <3>3. \A k \in 1 .. L : L + 1 \in k + 1 .. L + 1  BY <2>1
    <3>4. \A k \in 1 .. L + 1 : k = L + 1 \/ k \in 1 .. L  BY <2>1
    <3>5. QED  BY <2>1, <2>8, <3>1, <3>2, <3>3, <3>4
  <2>10. CASE n # op.new /\ n = op.old
    <3>1. Touches(ops'[b][L + 1], n)  BY <2>1, <2>10 DEF Touches
    <3>3. \A k \in 1 .. L : L + 1 \in k + 1 .. L + 1  BY <2>1
    <3>4. \A k \in 1 .. L + 1 : k = L + 1 \/ k \in 1 .. L  BY <2>1
    <3>5. QED  BY <2>1, <2>8, <2>10, <3>1, <3>3, <3>4
  <2>11. CASE ~Touches(op, n)
    <3>1. n # op.new /\ ~Changing(b, n)  BY <2>3, <2>11 DEF Touches
    <3>2. updated'[b][n] = updated[b][n]  BY <2>2, <3>1
    <3>3. /\ (\A i \in 1 .. L : ~Touches(ops[b][i], n)) => updated[b][n] = NULL
          /\ \A k \in 1 .. L :
                ops[b][k].new = n /\ (\A i \in k + 1 .. L : ~Touches(ops[b][i], n))
                   => updated[b][n] = ops[b][k].content
      BY <2>2, <2>7, <3>1 DEF Shown, Untouched, L
    <3>4. \A k \in 1 .. L : \A i \in k + 1 .. L : i \in k + 1 .. L + 1 /\ i \in 1 .. L  BY <2>1
    <3>5. \A k \in 1 .. L + 1 : k = L + 1 \/ k \in 1 .. L  BY <2>1
    <3>6. ~(ops'[b][L + 1].new = n)  BY <2>1, <3>1
    <3>7. ASSUME NEW k \in 1 .. L, ops'[b][k].new = n, \A i \in k + 1 .. L + 1 : ~Touches(ops'[b][i], n)
          PROVE  updated'[b][n] = ops'[b][k].content
      BY <2>1, <3>2, <3>3, <3>4, <3>7
    <3>8. QED  BY <2>1, <2>8, <3>2, <3>3, <3>5, <3>6, <3>7
  <2>12. QED  BY <2>9, <2>10, <2>11 DEF Touches
<1>14. CASE UpdateMoves(b)
  <2>1. /\ call[b].kind = "update" /\ call[b].at = "old" /\ UNCHANGED <<ops, updated>>
        /\ call' = [call EXCEPT ![b] = [call[b] EXCEPT !.at = "new"]]
    BY <1>14 DEF UpdateMoves, UpdateLocksOld, Moves, SetCall
  <2>2. phase[b] = "xact" /\ call[b] \in Calls  BY <1>0, <2>1, CallPhase, CallFacts
  <2>3. call'[b].kind = "update" /\ call'[b].op = call[b].op /\ call'[b].at = "new"
    BY <1>0, <2>1, <2>2 DEF Calls, TypeOK
  <2>4. QED  BY <1>0, <2>1, <2>2, <2>3, ShownKept DEF Changing
<1>15. CASE Commit(b)
  <2>1. phase'[b] # "xact"  BY <1>0, <1>15 DEF Commit, TypeOK
  <2>2. QED  BY <2>1, ShownLeft
<1>16. CASE Abort(b)
  <2>1. phase'[b] # "xact"  BY <1>0, <1>16 DEF Abort, TypeOK
  <2>2. QED  BY <2>1, ShownLeft
<1>17. CASE ApplyDelete(b)  BY ShownLeft, <1>17 DEF ApplyDelete, Replaying
<1>18. CASE ApplyOpens(b)  BY ShownLeft, <1>18 DEF ApplyOpens, Replaying
<1>19. CASE ApplyWrites(b)
  <2>1. phase'[b] # "xact"  BY <1>0, <1>19, CallPhase DEF ApplyWrites
  <2>2. QED  BY <2>1, ShownLeft
<1>20. CASE UndoDelete(b)  BY ShownLeft, <1>20 DEF UndoDelete, Replaying
<1>21. CASE UndoInsert(b)  BY ShownLeft, <1>21 DEF UndoInsert, Replaying
<1>22. CASE UndoUpdate(b)  BY ShownLeft, <1>22 DEF UndoUpdate, Replaying
<1>23. CASE UndoWrites(b)
  <2>1. phase'[b] # "xact"  BY <1>0, <1>23, CallPhase DEF UndoWrites
  <2>2. QED  BY <2>1, ShownLeft
<1>24. CASE CleanUp(b)
  <2>1. phase'[b] # "xact"  BY <1>0, <1>24 DEF CleanUp, TypeOK
  <2>2. QED  BY <2>1, ShownLeft
<1>25. QED
  BY StepKinds, <1>1, <1>2, <1>3, <1>4, <1>5, <1>6, <1>7, <1>8, <1>9, <1>10, <1>11, <1>12,
     <1>13, <1>14, <1>15, <1>16, <1>17, <1>18, <1>19, <1>20, <1>21, <1>22, <1>23, <1>24

\* Between a transaction's statements the disk is left alone.
LEMMA AppliedSame ==
    ASSUME NEW b \in Backends, Applied(b), phase[b] = "xact", phase'[b] = "xact",
           ops'[b] = ops[b], UNCHANGED <<dir, data, table>>,
           \A n \in Names : ~Making(b, n) /\ ~Making(b, n)'
    PROVE  Applied(b)'
<1>1. \A n \in Names : Row(n)' = Row(n) /\ (Made(b, n)' <=> Made(b, n))  BY DEF Row, Made
<1>2. QED  BY <1>1 DEF Applied, Untouched

\* What a write to the inode of one file does to the rows of the others.
LEMMA OtherRows ==
    ASSUME WellFormed, OneName, NEW n \in Names, NEW m \in Names, n # m,
           dir[n] = NULL \/ dir[n] # dir[m], dir'[m] = dir[m],
           \A i \in Inodes : i # dir[n] => data'[i] = data[i]
    PROVE  Row(m)' = Row(m)
<1>1. CASE dir[m] = NULL  BY <1>1 DEF Row
<1>2. CASE dir[m] # NULL
  <2>1. dir[m] \in Inodes  BY <1>2, LinkedRow
  <2>2. dir[m] # dir[n]  BY <1>2
  <2>3. QED  BY <1>2, <2>1, <2>2 DEF Row
<1>3. QED  BY <1>1, <1>2

\* No two names have one inode.
LEMMA NamesApart ==
    ASSUME WellFormed, OneName, NEW n \in Names, NEW m \in Names, n # m, dir[n] # NULL
    PROVE  dir[n] # dir[m]
<1>1. dir[n] \in Inodes  BY LinkedRow
<1>2. QED  BY <1>1 DEF OneName, Refers

\* The transaction is going to be rolled back.
LEMMA AppliedRaised ==
    ASSUME NEW b \in Backends, Applied(b), phase[b] = "xact", phase'[b] = "rollback",
           ops'[b] = ops[b], UNCHANGED <<dir, data, table>>, hand[b] = NULL
    PROVE  Applied(b)'
<1>1. \A n \in Names : Row(n)' = Row(n) /\ (Made(b, n)' <=> Made(b, n))  BY DEF Row, Made
<1>2. \A n \in Names : ~Making(b, n) /\ ~Making(b, n)'  BY DEF Making
<1>3. QED  BY <1>1, <1>2 DEF Applied, Untouched

\* pre_commit has applied an operation, which decides what its files are.
LEMMA AppliedNext ==
    ASSUME NEW b \in Backends, OneInv(b), phase[b] = "pre_commit", phase'[b] = "pre_commit",
           next[b] \in 1 .. Len(ops[b]), next'[b] = next[b] + 1, UNCHANGED <<ops, table>>,
           \A n \in Names : IF Touches(Current(b), n) THEN Row(n)' = Outcome(Current(b), n)
                            ELSE Row(n)' = Row(n)
    PROVE  Applied(b)'
<1> DEFINE k == next[b]
<1>0. Applied(b) /\ TypeOK  BY DEF OneInv, OneOK, WellFormed
<1>1. k \in Nat /\ Len(ops[b]) \in Nat /\ Current(b) = ops[b][k]  BY <1>0 DEF TypeOK, Current
<1> HIDE DEF k
<1>2. \A n \in Names : ~Making(b, n) /\ ~Making(b, n)'  BY DEF Making
<1>3. ASSUME NEW n \in Names, Untouched(b, n, 1, Len(ops[b])) PROVE table[n] = Row(n)'
  <2>1. ~Touches(Current(b), n)  BY <1>1, <1>3 DEF Untouched, k
  <2>2. QED  BY <1>0, <1>2, <1>3, <2>1 DEF Applied
<1>4. ASSUME NEW n \in Names, NEW j \in 1 .. k, Touches(ops[b][j], n),
             \A i \in j + 1 .. k : ~Touches(ops[b][i], n)
      PROVE  Row(n)' = Outcome(ops[b][j], n)
  <2>1. CASE j = k  BY <1>1, <1>4, <2>1
  <2>2. CASE j # k
    <3>1. j \in 1 .. k - 1 /\ k \in j + 1 .. k /\ \A i \in j + 1 .. k - 1 : i \in j + 1 .. k
      BY <1>1, <2>2
    <3>2. Row(n)' = Row(n)  BY <1>1, <1>4, <3>1
    <3>3. Untouched(b, n, j + 1, k - 1)  BY <1>4, <3>1 DEF Untouched
    <3>4. Row(n) = Outcome(ops[b][j], n)  BY <1>0, <1>4, <3>1, <3>3 DEF Applied, k
    <3>5. QED  BY <3>2, <3>4
  <2>3. QED  BY <2>1, <2>2
<1>5. next'[b] - 1 = k  BY <1>1 DEF k
<1>6. QED  BY <1>2, <1>3, <1>4, <1>5 DEF Applied, Untouched

\* rollback has taken back an operation.
LEMMA AppliedBack ==
    ASSUME NEW b \in Backends, OneInv(b), phase[b] = "rollback", phase'[b] = "rollback",
           next[b] \in 1 .. Len(ops[b]), UNCHANGED <<ops, table>>,
           next'[b] = next[b] \/ next'[b] = next[b] - 1,
           \A n \in Names : \/ Row(n)' = Row(n)
                            \/ Makes(Current(b)) /\ n = Current(b).new
                            \/ n = Current(b).old /\ Row(n)' = Current(b).oldContent,
           next'[b] # next[b] /\ Current(b).kind = "update" =>
              \A n \in Names : n = Current(b).old => Row(n)' = Current(b).oldContent,
           \A n \in Names : n = Current(b).old /\ Row(n)' # Row(n) => Current(b).kind = "update"
    PROVE  Applied(b)'
<1> DEFINE k == next[b]
<1>0. Applied(b) /\ TypeOK /\ Life(b) /\ FirstOld(b) /\ OpsOK(b)  BY DEF OneInv, OneOK, WellFormed
<1>1. k \in Nat /\ Len(ops[b]) \in Nat /\ Current(b) = ops[b][k] /\ k \in 1 .. Len(ops[b])
  BY <1>0 DEF TypeOK, Current
<1>2. \A n \in Names : ~Making(b, n) /\ ~Making(b, n)' /\ (Made(b, n)' <=> Made(b, n))
  BY DEF Making, Made
<1>3. ASSUME NEW n \in Names, Untouched(b, n, 1, Len(ops[b])) PROVE table[n] = Row(n)'
  <2>1. ~Touches(Current(b), n)  BY <1>1, <1>3 DEF Untouched
  <2>2. Row(n)' = Row(n)  BY <2>1 DEF Touches
  <2>3. QED  BY <1>0, <1>2, <1>3, <2>2 DEF Applied
<1>4. ASSUME NEW n \in Names, ~Made(b, n)
      PROVE  \/ table[n] = Row(n)'
             \/ \E j \in 1 .. next'[b] : ops[b][j].kind = "update" /\ ops[b][j].old = n
  <2>1. ~(Makes(Current(b)) /\ n = Current(b).new)  BY <1>1, <1>4 DEF Made
  <2>2. CASE n # Current(b).old \/ Current(b).kind # "update"
    <3>1. Row(n)' = Row(n)  BY <2>1, <2>2
    <3>2. CASE table[n] = Row(n)  BY <3>1, <3>2
    <3>3. CASE \E j \in 1 .. k : ops[b][j].kind = "update" /\ ops[b][j].old = n
      <4>1. PICK j \in 1 .. k : ops[b][j].kind = "update" /\ ops[b][j].old = n  BY <3>3
      <4>2. j # k  BY <1>1, <2>2, <4>1
      <4>3. j \in 1 .. next'[b]  BY <1>1, <4>1, <4>2
      <4>4. QED  BY <4>1, <4>3
    <3>4. QED  BY <1>0, <1>4, <3>2, <3>3 DEF Applied
  <2>3. CASE n = Current(b).old /\ Current(b).kind = "update"
    <3>1. CASE next'[b] = k  BY <1>1, <2>3, <3>1
    <3>2. CASE next'[b] # k
      <4>1. Row(n)' = Current(b).oldContent /\ next'[b] = k - 1  BY <2>3, <3>2
      <4>2. CASE \E j \in 1 .. k - 1 : ops[b][j].kind = "update" /\ ops[b][j].old = n
        BY <4>1, <4>2
      <4>3. CASE ~ \E j \in 1 .. k - 1 : ops[b][j].kind = "update" /\ ops[b][j].old = n
        <5>1. ASSUME NEW j \in 1 .. k - 1, Touches(ops[b][j], n) PROVE FALSE
          <6>1. j \in 1 .. Len(ops[b]) /\ k \in j + 1 .. Len(ops[b])  BY <1>1
          <6>2. OpOK(ops[b][j]) /\ ops[b][j].kind \in {"insert", "update", "delete"}
            BY <1>0, <6>1, OpFields DEF OpsOK, OpOK
          <6>3. Touches(ops[b][k], n)  BY <1>1, <2>3 DEF Touches
          <6>4. ~(Makes(ops[b][j]) /\ ops[b][j].new = n)  BY <1>4, <6>1 DEF Made
          <6>5. ~(Removes(ops[b][j]) /\ ops[b][j].old = n)
            BY <1>0, <6>1, <6>3 DEF Life, Untouched
          <6>6. ops[b][j].kind # "update"
            BY <4>3, <5>1, <6>4 DEF Touches, Makes, Moves
          <6>7. ops[b][j].kind # "insert"
            BY <5>1, <6>2, <6>4, FsAssumption DEF Touches, Makes, OpOK
          <6>8. ops[b][j].kind # "delete"
            BY <5>1, <6>2, <6>5, FsAssumption DEF Touches, Removes, OpOK
          <6>9. QED  BY <6>2, <6>6, <6>7, <6>8
        <5>2. Untouched(b, n, 1, k - 1)  BY <5>1 DEF Untouched
        <5>3. Current(b).oldContent = table[n]  BY <1>0, <1>1, <2>3, <5>2 DEF FirstOld
        <5>4. QED  BY <4>1, <5>3
      <4>4. QED  BY <4>2, <4>3
    <3>3. QED  BY <3>1, <3>2
  <2>4. QED  BY <2>2, <2>3
<1>5. QED  BY <1>2, <1>3, <1>4 DEF Applied, Untouched

LEMMA AppliedStep ==
    ASSUME NEW b \in Backends, OneInv(b), Step(b)
    PROVE  Applied(b)'
<1>0. /\ OneInv(b) /\ WellFormed /\ TypeOK /\ Applied(b) /\ Rest(b) /\ PhaseOK(b) /\ CallOK(call[b])
      /\ Found(b) /\ Linked(b) /\ Life(b) /\ OneName
  BY DEF OneInv, WellFormed, OneOK
<1>1. call[b] = NoCall => hand[b] = NULL  BY <1>0, CallTypes DEF PhaseOK
<1>2. CASE Begin(b)
  <2>1. /\ phase[b] = "idle" /\ phase'[b] = "xact" /\ UNCHANGED <<dir, data, table, ops, hand>>
    BY <1>0, <1>2 DEF Begin, TypeOK, disk, memory
  <2>2. ops[b] = << >> /\ hand[b] = NULL  BY <1>0, <2>1, CallPhase, Busy DEF Rest
  <2>3. \A n \in Names : Row(n)' = Row(n) /\ ~Making(b, n) /\ ~Making(b, n)'
    BY <2>1, <2>2 DEF Row, Making
  <2>4. \A n \in Names : Untouched(b, n, 1, Len(ops[b]))  BY <2>2 DEF Untouched
  <2>5. QED  BY <1>0, <2>1, <2>3, <2>4 DEF Applied
<1>3. CASE EndScan(b)
  <2>1. /\ phase[b] = "xact" /\ phase'[b] = "xact" /\ ops'[b] = ops[b] /\ UNCHANGED <<dir, data, table>>
        /\ hand[b] = NULL /\ hand'[b] = NULL
    BY <1>0, <1>1, <1>3 DEF EndScan, ScanEnds, Ready, disk, memory
  <2>2. QED  BY <1>0, <2>1, AppliedSame DEF Making
<1>4. CASE \E n \in Names : ScanRow(b, n)
  <2>1. /\ phase[b] = "xact" /\ phase'[b] = "xact" /\ ops'[b] = ops[b] /\ UNCHANGED <<dir, data, table>>
        /\ hand[b] = NULL /\ hand'[b] = NULL
    BY <1>0, <1>1, <1>4 DEF ScanRow, Ready, disk, memory
  <2>2. QED  BY <1>0, <2>1, AppliedSame DEF Making
<1>5. CASE OpenCached(b)
  <2>1. /\ phase[b] = "xact" /\ ops'[b] = ops[b] /\ UNCHANGED <<phase, dir, data, table>>
        /\ call[b].at = "read"
    BY <1>0, <1>5, CallFacts, CallPhase DEF OpenCached, disk, memory
  <2>2. hand'[b] = NULL \/ UNCHANGED call  BY <1>0, <1>5 DEF OpenCached, TypeOK
  <2>3. QED  BY <1>0, <2>1, <2>2, AppliedSame DEF Making
<1>6. CASE OpenShared(b)
  <2>1. /\ phase[b] = "xact" /\ ops'[b] = ops[b] /\ UNCHANGED <<phase, dir, data, table>>
        /\ call[b].at = "read"
    BY <1>0, <1>6, CallFacts, CallPhase DEF OpenShared, disk, memory
  <2>2. hand'[b] = NULL \/ UNCHANGED call  BY <1>0, <1>6 DEF OpenShared, TypeOK
  <2>3. QED  BY <1>0, <2>1, <2>2, AppliedSame DEF Making
<1>7. CASE LockShared(b)
  <2>1. /\ phase[b] = "xact" /\ ops'[b] = ops[b] /\ UNCHANGED <<phase, dir, data, table>>
        /\ call[b].at = "read"
    BY <1>0, <1>7, CallFacts, CallPhase DEF LockShared, disk, memory
  <2>2. hand'[b] = NULL \/ UNCHANGED call  BY <1>0, <1>7 DEF LockShared, TypeOK
  <2>3. QED  BY <1>0, <2>1, <2>2, AppliedSame DEF Making
<1>8. CASE ReuseExclusive(b)
  <2>1. /\ UNCHANGED <<phase, dir, data, table, ops, call, next>> /\ hand[b] = NULL
        /\ Holds(b, Target(b), {"ex"}) /\ call[b].at \in {"old", "new"}
    BY <1>8 DEF ReuseExclusive, Opening, disk, memory
  <2>2. phase[b] = "xact" => call[b].at = "old"
    <3> SUFFICES ASSUME phase[b] = "xact", call[b].at = "new" PROVE FALSE  BY <2>1
    <3>1. call[b].kind \in {"insert", "update"}  BY <1>0, CallFacts, CallPhase
    <3>2. cache[b][Target(b)] = NULL  BY <1>0, <3>1 DEF Found, CallOK, Target
    <3>3. QED  BY <2>1, <3>2 DEF Holds
  <2>3. \A n \in Names : ~Making(b, n) /\ ~Making(b, n)'  BY <2>1, <2>2 DEF Making
  <2>4. \A n \in Names : Row(n)' = Row(n) /\ (Made(b, n)' <=> Made(b, n))  BY <2>1 DEF Row, Made
  <2>5. QED  BY <1>0, <2>1, <2>3, <2>4 DEF Applied, Untouched
<1>9. CASE OpenExclusive(b)
  <2> DEFINE t == Target(b)
  <2>1. /\ call[b].at \in {"old", "new"} /\ hand[b] = NULL /\ ~Holds(b, t, {"ex"}) /\ ~OpenFails(b, t)
        /\ UNCHANGED <<phase, ops, table, call>> /\ t \in Names
    BY <1>0, <1>9, CallFacts DEF OpenExclusive, Opening, Holds
  <2>2. phase[b] = "xact"  BY <1>0, <2>1, OpensInXact
  <2>3. FailIf(b) = IF call[b].at = "old" THEN "missing" ELSE "exists"
    <3>1. call[b].kind \notin {"apply", "undo"}  BY <1>0, <2>2, CallPhase
    <3>2. QED  BY <2>1, <3>1 DEF FailIf
  <2>4. \A n \in Names : ~Making(b, n)  BY <2>1 DEF Making
  <2>5. CASE UNCHANGED disk /\ dir[t] # NULL
    <3>1. call[b].at = "old"  BY <2>1, <2>3, <2>5 DEF OpenFails
    <3>2. QED  BY <1>0, <2>1, <2>2, <2>5, <3>1, AppliedSame DEF Making, disk
  <2>6. CASE /\ dir[t] = NULL
             /\ \E i \in FreeInodes : /\ hand' = [hand EXCEPT ![b] = i]
                                      /\ dir' = [dir EXCEPT ![t] = i]
                                      /\ data' = [data EXCEPT ![i] = Empty]
    <3>1. call[b].at = "new" /\ t = call[b].op.new  BY <2>1, <2>3, <2>6 DEF OpenFails, Target
    <3>2. PICK i \in FreeInodes : /\ hand' = [hand EXCEPT ![b] = i]
                                  /\ dir' = [dir EXCEPT ![t] = i]
                                  /\ data' = [data EXCEPT ![i] = Empty]
      BY <2>6
    <3>3. i \in Inodes /\ i # NULL /\ \A n \in Names : dir[n] # i
      BY FsAssumption DEF FreeInodes
    <3>4. hand'[b] # NULL /\ \A n \in Names : Making(b, n)' <=> n = t
      BY <1>0, <2>1, <2>2, <3>1, <3>2, <3>3 DEF Making, TypeOK
    <3> HIDE DEF t
    <3>5. ASSUME NEW n \in Names, n # t PROVE Row(n)' = Row(n)
      <4>1. dir'[n] = dir[n] /\ dir[n] # i  BY <1>0, <2>1, <3>2, <3>3, <3>5 DEF TypeOK
      <4>2. dir[n] # NULL => data'[dir[n]] = data[dir[n]]
        BY <1>0, <3>2, <4>1, LinkedRow DEF TypeOK
      <4>3. QED  BY <4>1, <4>2 DEF Row
    <3>6. Row(t) = NULL  BY <2>6 DEF Row
    <3>7. \A n \in Names : Made(b, n)' <=> Made(b, n)  BY <2>1 DEF Made
    <3>8. \A n \in Names : Untouched(b, n, 1, Len(ops[b])) => table[n] = Row(n)
      BY <1>0, <2>4 DEF Applied
    <3>9. QED  BY <1>0, <2>1, <2>2, <2>4, <3>4, <3>5, <3>6, <3>7, <3>8 DEF Applied, Untouched
  <2>7. QED  BY <1>9, <2>5, <2>6 DEF OpenExclusive
<1>10. CASE OpenExclusiveRaises(b)
  <2>1. /\ phase[b] = "xact" /\ phase'[b] = "rollback" /\ hand[b] = NULL
        /\ ops'[b] = ops[b] /\ UNCHANGED <<dir, data, table>>
    BY <1>0, <1>10, OnlyExists DEF OpenExclusiveRaises, Raise, TypeOK, disk
  <2>2. QED  BY <1>0, <2>1, AppliedRaised
<1>11. CASE \E n \in Names : Delete(b, n)
  <2>1. /\ phase[b] = "xact" /\ phase'[b] = "xact" /\ ops'[b] = ops[b] /\ UNCHANGED <<dir, data, table>>
        /\ hand[b] = NULL /\ hand'[b] = NULL
    BY <1>0, <1>1, <1>11 DEF Delete, DML, Ready, disk, memory
  <2>2. QED  BY <1>0, <2>1, AppliedSame DEF Making
<1>12. CASE \E n \in Names, v \in Contents : Insert(b, n, v)
  <2>1. /\ phase[b] = "xact" /\ phase'[b] = "xact" /\ ops'[b] = ops[b] /\ UNCHANGED <<dir, data, table>>
        /\ hand[b] = NULL /\ hand'[b] = NULL
    BY <1>0, <1>1, <1>12 DEF Insert, DML, Ready, disk, memory
  <2>2. QED  BY <1>0, <2>1, AppliedSame DEF Making
<1>13. CASE \E n, m \in Names, v \in Contents : Update(b, n, m, v)
  <2>1. /\ phase[b] = "xact" /\ phase'[b] = "xact" /\ ops'[b] = ops[b] /\ UNCHANGED <<dir, data, table>>
        /\ hand[b] = NULL /\ hand'[b] = NULL
    BY <1>0, <1>1, <1>13 DEF Update, DML, Ready, disk, memory
  <2>2. QED  BY <1>0, <2>1, AppliedSame DEF Making
<1>14. CASE Finish(b)
  <2> DEFINE L == Len(ops[b])
             op == call[b].op
  <2>1. /\ L \in Nat /\ Len(ops'[b]) = L + 1 /\ ops'[b][L + 1] = op
        /\ \A k \in 1 .. L : ops'[b][k] = ops[b][k]
    BY <1>14, FinishTouches
  <2>2. /\ phase[b] = "xact" /\ UNCHANGED <<phase, dir, data, table>> /\ hand'[b] = NULL
        /\ call[b].at = IF Makes(op) THEN "new" ELSE "old"
    BY <1>14 DEF Finish, disk
  <2>3. \A n \in Names : Row(n)' = Row(n) /\ ~Making(b, n)'  BY <2>2 DEF Row, Making
  <2>4. \A n \in Names : Making(b, n) => Makes(op) /\ op.new = n  BY <2>2 DEF Making
  <2>5. Applied(b)  BY <1>0
  <2> HIDE DEF L, op
  <2>6. L + 1 \in 1 .. L + 1 /\ \A i \in 1 .. L : i \in 1 .. L + 1  BY <2>1
  <2>7. ASSUME NEW n \in Names, \A i \in 1 .. L + 1 : ~Touches(ops'[b][i], n)
        PROVE  table[n] = Row(n)
    <3>1. Untouched(b, n, 1, L) /\ ~Touches(op, n)  BY <2>1, <2>6, <2>7 DEF Untouched
    <3>2. ~Making(b, n)  BY <2>4, <3>1 DEF Touches
    <3>3. QED  BY <2>5, <3>1, <3>2 DEF Applied, L
  <2>8. ASSUME NEW n \in Names, ~(\E k \in 1 .. L + 1 : Makes(ops'[b][k]) /\ ops'[b][k].new = n)
        PROVE  table[n] = Row(n)
    <3>1. ~Made(b, n) /\ ~(Makes(op) /\ op.new = n)  BY <2>1, <2>6, <2>8 DEF Made, L
    <3>2. ~Making(b, n)  BY <2>4, <3>1
    <3>3. QED  BY <2>2, <2>5, <3>1, <3>2 DEF Applied
  <2>9. QED  BY <2>1, <2>2, <2>3, <2>7, <2>8 DEF Applied, Untouched, Made
<1>15. CASE UpdateMoves(b)
  <2>1. /\ call[b].kind = "update" /\ call[b].at = "old" /\ UNCHANGED <<dir, data, table, phase>>
        /\ ops'[b] = ops[b] /\ hand'[b] = NULL
    BY <1>0, <1>15 DEF UpdateMoves, UpdateLocksOld, Moves, Locks, disk, TypeOK
  <2>2. phase[b] = "xact"  BY <1>0, <2>1, CallPhase
  <2>3. QED  BY <1>0, <2>1, <2>2, AppliedSame DEF Making
<1>16. CASE Commit(b)
  <2>1. /\ phase[b] = "xact" /\ phase'[b] = "pre_commit" /\ next'[b] = 1 /\ hand[b] = NULL
        /\ UNCHANGED <<dir, data, table, ops>>
    BY <1>0, <1>1, <1>16 DEF Commit, Ready, TypeOK, disk, memory
  <2>2. \A n \in Names : Row(n)' = Row(n) /\ ~Making(b, n) /\ ~Making(b, n)'
    BY <2>1 DEF Row, Making
  <2>3. QED  BY <1>0, <2>1, <2>2 DEF Applied, Untouched
<1>17. CASE Abort(b)
  <2>1. /\ phase[b] = "xact" /\ phase'[b] = "rollback" /\ hand[b] = NULL
        /\ ops'[b] = ops[b] /\ UNCHANGED <<dir, data, table>>
    BY <1>0, <1>1, <1>17 DEF Abort, Ready, TypeOK, disk, memory
  <2>2. QED  BY <1>0, <2>1, AppliedRaised
<1>18. CASE ApplyDelete(b)
  <2>1. /\ phase[b] = "pre_commit" /\ phase'[b] = "pre_commit" /\ next[b] \in 1 .. Len(ops[b])
        /\ Current(b).kind = "delete" /\ UNCHANGED <<data, ops, table>> /\ next'[b] = next[b] + 1
    BY <1>0, <1>18 DEF ApplyDelete, Replaying, TypeOK
  <2>2. Current(b).old \in Names /\ Current(b).new = NULL  BY <1>0, <2>1, Replays DEF OpOK
  <2>3. \A n \in Names : dir'[n] = IF n = Current(b).old THEN NULL ELSE dir[n]
    BY <1>0, <2>2, <1>18 DEF ApplyDelete, Unlink, TypeOK
  <2>4. ASSUME NEW n \in Names
        PROVE  IF Touches(Current(b), n) THEN Row(n)' = Outcome(Current(b), n) ELSE Row(n)' = Row(n)
    <3>1. Touches(Current(b), n) <=> n = Current(b).old  BY <2>2, FsAssumption DEF Touches
    <3>2. Outcome(Current(b), n) = NULL  BY <2>2, FsAssumption DEF Outcome
    <3>3. QED  BY <2>1, <2>3, <3>1, <3>2 DEF Row
  <2>5. QED  BY <1>0, <2>1, <2>4, AppliedNext
<1>19. CASE ApplyOpens(b)
  <2>1. /\ phase[b] = "pre_commit" /\ UNCHANGED <<phase, dir, data, table, ops, next>>
    BY <1>19 DEF ApplyOpens, Replaying, disk, memory
  <2>2. \A n \in Names : Row(n)' = Row(n) /\ ~Making(b, n) /\ ~Making(b, n)'
    BY <2>1 DEF Row, Making
  <2>3. QED  BY <1>0, <2>1, <2>2 DEF Applied, Untouched
<1>20. CASE ApplyWrites(b)
  <2> DEFINE op == call[b].op
  <2>1. /\ phase[b] = "pre_commit" /\ phase'[b] = "pre_commit" /\ next[b] \in 1 .. Len(ops[b])
        /\ op = Current(b) /\ call[b].at = "new" /\ hand[b] # NULL /\ UNCHANGED <<ops, table>>
        /\ next'[b] = next[b] + 1 /\ call[b].kind = "apply"
    BY <1>0, <1>20, CallPhase DEF ApplyWrites, Locks, PhaseOK, CallOK, TypeOK
  <2>2. /\ op.new \in Names /\ (Moves(op) => op.old \in Names /\ op.old # op.new) /\ Target(b) = op.new
        /\ \A n \in Names : Touches(op, n) <=> n = op.new \/ (Moves(op) /\ n = op.old)
    <3>1. op \in Ops /\ OpOK(op) /\ op.kind # "delete"  BY <1>0, <2>1 DEF CallOK, OpOK
    <3>2. op.kind \in {"insert", "update"}  BY <3>1, OpFields
    <3>3. QED  BY <2>1, <3>1, <3>2, FsAssumption DEF OpOK, Moves, Target, Touches
  <2>3. dir[op.new] = hand[b] /\ hand[b] \in Inodes
    BY <1>0, <2>1, <2>2 DEF Linked, HandName, TypeOK
  <2>4. \A n \in Names : dir'[n] = IF Moves(op) /\ n = op.old THEN NULL ELSE dir[n]
    BY <1>0, <2>2, <1>20 DEF ApplyWrites, Unlink, TypeOK
  <2>5. data' = [data EXCEPT ![hand[b]] = op.content]  BY <1>20 DEF ApplyWrites
  <2> HIDE DEF op
  <2>6. ASSUME NEW n \in Names
        PROVE  IF Touches(op, n) THEN Row(n)' = Outcome(op, n) ELSE Row(n)' = Row(n)
    <3>1. CASE n = op.new
      <4>1. dir'[n] = hand[b] /\ dir'[n] # NULL  BY <2>1, <2>2, <2>3, <2>4, <3>1
      <4>2. Row(n)' = op.content  BY <1>0, <2>3, <2>5, <4>1 DEF Row, TypeOK
      <4>3. QED  BY <2>2, <3>1, <4>2 DEF Outcome
    <3>2. CASE n # op.new /\ Moves(op) /\ n = op.old
      <4>1. Row(n)' = NULL  BY <2>4, <3>2 DEF Row
      <4>2. QED  BY <2>2, <3>2, <4>1 DEF Outcome
    <3>3. CASE n # op.new /\ ~(Moves(op) /\ n = op.old)
      <4>1. dir'[n] = dir[n] /\ dir[n] # dir[op.new] /\ ~Touches(op, n)
        BY <1>0, <2>1, <2>2, <2>3, <2>4, <3>3, NamesApart
      <4>2. \A i \in Inodes : i # dir[op.new] => data'[i] = data[i]
        BY <1>0, <2>3, <2>5 DEF TypeOK
      <4>3. Row(n)' = Row(n)  BY <1>0, <2>2, <3>3, <4>1, <4>2, OtherRows
      <4>4. QED  BY <4>1, <4>3
    <3>4. QED  BY <3>1, <3>2, <3>3
  <2>7. QED  BY <1>0, <2>1, <2>6, AppliedNext
<1>21. CASE UndoDelete(b)
  <2>1. /\ next[b] \in 1 .. Len(ops[b]) /\ Current(b).kind = "delete"
        /\ phase[b] = "rollback" /\ phase'[b] = "rollback"
        /\ UNCHANGED <<ops, dir, data, table>> /\ next'[b] = next[b] - 1
    BY <1>0, <1>21 DEF UndoDelete, Replaying, TypeOK, disk, memory
  <2>2. \A n \in Names : Row(n)' = Row(n)  BY <2>1 DEF Row
  <2>3. QED  BY <1>0, <2>1, <2>2, AppliedBack
<1>22. CASE UndoInsert(b)
  <2>1. /\ next[b] \in 1 .. Len(ops[b]) /\ Current(b).kind = "insert"
        /\ phase[b] = "rollback" /\ phase'[b] = "rollback"
        /\ UNCHANGED <<ops, data, table>> /\ next'[b] = next[b] - 1
    BY <1>0, <1>22 DEF UndoInsert, Replaying, TypeOK, memory
  <2>2. Current(b).new \in Names /\ Current(b).old = NULL /\ Makes(Current(b))
    BY <1>0, <2>1, Replays DEF OpOK, Makes
  <2>3. \A n \in Names : n # Current(b).new => dir'[n] = dir[n]
    BY <1>0, <2>2, <1>22 DEF UndoInsert, Unlink, TypeOK
  <2>4. \A n \in Names : n # Current(b).new => Row(n)' = Row(n)  BY <2>1, <2>3 DEF Row
  <2>5. \A n \in Names : n # Current(b).old  BY <2>2, FsAssumption
  <2>6. QED  BY <1>0, <2>1, <2>2, <2>4, <2>5, AppliedBack
<1>23. CASE UndoUpdate(b)
  <2>1. /\ next[b] \in 1 .. Len(ops[b]) /\ Current(b).kind = "update"
        /\ phase[b] = "rollback" /\ phase'[b] = "rollback"
        /\ UNCHANGED <<ops, data, table, next>>
    BY <1>0, <1>23 DEF UndoUpdate, Replaying, TypeOK, memory
  <2>2. \A n \in Names : ~(Makes(Current(b)) /\ n = Current(b).new) => dir'[n] = dir[n]
    <3>1. CASE Moves(Current(b))
      <4>1. Current(b).new \in Names /\ Makes(Current(b))  BY <1>0, <2>1, <3>1, Replays DEF OpOK, Makes
      <4>2. QED  BY <1>0, <3>1, <4>1, <1>23 DEF UndoUpdate, Unlink, TypeOK
    <3>2. CASE ~Moves(Current(b))  BY <3>2, <1>23 DEF UndoUpdate
    <3>3. QED  BY <3>1, <3>2
  <2>3. \A n \in Names : ~(Makes(Current(b)) /\ n = Current(b).new) => Row(n)' = Row(n)
    BY <2>1, <2>2 DEF Row
  <2>4. QED  BY <1>0, <2>1, <2>3, AppliedBack
<1>24. CASE UndoWrites(b)
  <2>1. /\ phase[b] = "rollback" /\ phase'[b] = "rollback" /\ call[b].kind = "undo"
        /\ hand[b] # NULL /\ UNCHANGED <<ops, dir, table>> /\ call[b].at = "old"
        /\ next'[b] = next[b] - 1 /\ call[b].op = Current(b) /\ next[b] \in 1 .. Len(ops[b])
        /\ Current(b).kind = "update" /\ Current(b).old \in Names
        /\ data' = [data EXCEPT ![hand[b]] = Current(b).oldContent]
    BY <1>0, <1>24, CallPhase DEF UndoWrites, Locks, CallOK, OpOK, PhaseOK, TypeOK
  <2>2. dir[Current(b).old] = hand[b] /\ hand[b] \in Inodes
    BY <1>0, <2>1 DEF Linked, HandName, Target, TypeOK
  <2>3. ASSUME NEW n \in Names, n = Current(b).old PROVE Row(n)' = Current(b).oldContent
    <3>1. data'[dir'[n]] = Current(b).oldContent /\ dir'[n] # NULL  BY <1>0, <2>1, <2>2, <2>3 DEF TypeOK
    <3>2. QED  BY <3>1 DEF Row
  <2>4. ASSUME NEW m \in Names, m # Current(b).old PROVE Row(m)' = Row(m)
    <3> DEFINE n == Current(b).old
    <3> HIDE DEF n
    <3>0. n \in Names /\ m # n /\ dir[n] = hand[b]  BY <2>1, <2>2, <2>4 DEF n
    <3>1. \A i \in Inodes : i # dir[n] => data'[i] = data[i]  BY <1>0, <2>1, <2>2, <3>0 DEF TypeOK
    <3>2. dir[n] # dir[m] /\ dir'[m] = dir[m]  BY <1>0, <2>1, <3>0, NamesApart
    <3>3. QED  BY <1>0, <3>0, <3>1, <3>2, OtherRows
  <2>5. \A m \in Names : Row(m)' = Row(m) \/ (m = Current(b).old /\ Row(m)' = Current(b).oldContent)
    BY <2>3, <2>4
  <2>6. QED  BY <1>0, <2>1, <2>3, <2>5, AppliedBack
<1>25. CASE CleanUp(b)
  <2>1. /\ phase'[b] = "idle" /\ ops'[b] = << >> /\ UNCHANGED <<dir, data>>
        /\ table' = IF phase[b] = "pre_commit" THEN Intended(b) ELSE table
        /\ \/ phase[b] = "pre_commit" /\ next[b] = Len(ops[b]) + 1
           \/ phase[b] = "rollback" /\ next[b] = 0
        /\ call[b].kind = "none"
    BY <1>0, <1>25, CallTypes DEF CleanUp, Replayed, TypeOK, disk
  <2>2. \A n \in Names : ~Making(b, n) /\ ~Making(b, n)' /\ Row(n)' = Row(n)  BY <2>1 DEF Making, Row
  <2>3. \A n \in Names : table'[n] = Row(n)
    <3>1. CASE phase[b] = "pre_commit"
      <4> SUFFICES ASSUME NEW n \in Names PROVE Intended(b)[n] = Row(n)  BY <2>1, <3>1
      <4>1. CASE Touching(b, n) = {}
        <5>1. Untouched(b, n, 1, Len(ops[b]))  BY <4>1 DEF Touching, Untouched
        <5>2. QED  BY <1>0, <2>2, <4>1, <5>1 DEF Applied, Intended
      <4>2. CASE Touching(b, n) # {}
        <5> DEFINE k == Max(Touching(b, n))
        <5>1. Touching(b, n) \subseteq 1 .. Len(ops[b]) /\ Len(ops[b]) \in Nat
          BY <1>0 DEF Touching, TypeOK
        <5>2. k \in Touching(b, n) /\ \A j \in Touching(b, n) : j <= k  BY <4>2, <5>1, Greatest
        <5> HIDE DEF k
        <5>3. k \in 1 .. next[b] - 1 /\ Touches(ops[b][k], n)  BY <2>1, <3>1, <5>1, <5>2 DEF Touching
        <5>4. Untouched(b, n, k + 1, next[b] - 1)
          <6> SUFFICES ASSUME NEW i \in k + 1 .. next[b] - 1, Touches(ops[b][i], n) PROVE FALSE
            BY DEF Untouched
          <6>1. i \in 1 .. Len(ops[b]) /\ ~(i <= k)  BY <2>1, <3>1, <5>1, <5>3
          <6>2. i \in Touching(b, n)  BY <6>1 DEF Touching
          <6>3. QED  BY <5>2, <6>1, <6>2
        <5>5. Row(n) = Outcome(ops[b][k], n)  BY <1>0, <3>1, <5>3, <5>4 DEF Applied
        <5>6. QED  BY <4>2, <5>5 DEF Intended, k
      <4>3. QED  BY <4>1, <4>2
    <3>2. CASE phase[b] = "rollback" /\ next[b] = 0
      <4> SUFFICES ASSUME NEW n \in Names PROVE table[n] = Row(n)  BY <2>1, <3>2
      <4>1. CASE ~Made(b, n)  BY <1>0, <3>2, <4>1 DEF Applied
      <4>2. CASE Made(b, n)
        <5>1. PICK k \in 1 .. Len(ops[b]) : Makes(ops[b][k]) /\ ops[b][k].new = n  BY <4>2 DEF Made
        <5>2. Standing(b) + 1 = 1  BY <2>1, <3>2 DEF Standing
        <5>3. dir[n] = NULL  BY <1>0, <3>2, <5>1, <5>2 DEF Linked
        <5>4. table[n] = NULL  BY <1>0, <5>1 DEF Life
        <5>5. QED  BY <5>3, <5>4 DEF Row
      <4>3. QED  BY <4>1, <4>2
    <3>3. QED  BY <2>1, <3>1, <3>2
  <2>4. QED  BY <2>1, <2>2, <2>3 DEF Applied
<1>26. QED
  BY StepKinds, <1>2, <1>3, <1>4, <1>5, <1>6, <1>7, <1>8, <1>9, <1>10, <1>11, <1>12, <1>13,
     <1>14, <1>15, <1>16, <1>17, <1>18, <1>19, <1>20, <1>21, <1>22, <1>23, <1>24, <1>25

\* Only an insert, update or delete that returns adds an operation.
LEMMA Appends ==
    ASSUME NEW b \in Backends, OneInv(b), Step(b)
    PROVE  Finish(b) \/ ops'[b] = ops[b] \/ ops'[b] = << >>
<1>0. TypeOK  BY DEF OneInv, WellFormed
<1>1. CASE Begin(b)  BY <1>1 DEF Begin, memory
<1>2. CASE EndScan(b)  BY <1>2 DEF EndScan, memory
<1>3. CASE \E n \in Names : ScanRow(b, n)  BY <1>3 DEF ScanRow, memory
<1>4. CASE OpenCached(b)  BY <1>4 DEF OpenCached, memory
<1>5. CASE OpenShared(b)  BY <1>5 DEF OpenShared, memory
<1>6. CASE LockShared(b)  BY <1>6 DEF LockShared, memory
<1>7. CASE ReuseExclusive(b)  BY <1>7 DEF ReuseExclusive, memory
<1>8. CASE OpenExclusive(b)  BY <1>8 DEF OpenExclusive, memory
<1>9. CASE OpenExclusiveRaises(b)  BY <1>0, <1>9 DEF OpenExclusiveRaises
<1>10. CASE \E n \in Names : Delete(b, n)  BY <1>10 DEF Delete, memory
<1>11. CASE \E n \in Names, v \in Contents : Insert(b, n, v)  BY <1>11 DEF Insert, memory
<1>12. CASE \E n, m \in Names, v \in Contents : Update(b, n, m, v)  BY <1>12 DEF Update, memory
<1>13. CASE Finish(b)  BY <1>13 DEF Finish
<1>14. CASE UpdateMoves(b)  BY <1>14 DEF UpdateMoves, UpdateLocksOld, Moves
<1>15. CASE Commit(b)  BY <1>15 DEF Commit, memory
<1>16. CASE Abort(b)  BY <1>16 DEF Abort, memory
<1>17. CASE ApplyDelete(b)  BY <1>17 DEF ApplyDelete, memory
<1>18. CASE ApplyOpens(b)  BY <1>18 DEF ApplyOpens, memory
<1>19. CASE ApplyWrites(b)  BY <1>19 DEF ApplyWrites, memory
<1>20. CASE UndoDelete(b)  BY <1>20 DEF UndoDelete, memory
<1>21. CASE UndoInsert(b)  BY <1>21 DEF UndoInsert, memory
<1>22. CASE UndoUpdate(b)  BY <1>22 DEF UndoUpdate, memory
<1>23. CASE UndoWrites(b)  BY <1>23 DEF UndoWrites, memory
<1>24. CASE CleanUp(b)  BY <1>0, <1>24 DEF CleanUp, TypeOK
<1>25. QED
  BY StepKinds, <1>1, <1>2, <1>3, <1>4, <1>5, <1>6, <1>7, <1>8, <1>9, <1>10, <1>11, <1>12,
     <1>13, <1>14, <1>15, <1>16, <1>17, <1>18, <1>19, <1>20, <1>21, <1>22, <1>23, <1>24

-----------------------------------------------------------------------------
(* The theorems of one backend.                                            *)

AtomicInv == LockInv /\ \A b \in Backends : CachedOK(b) /\ OneOK(b)

LEMMA AtomicInvStep ==
    ASSUME Alone, NamesOnce, AtomicInv, [Next]_vars
    PROVE  AtomicInv'
<1>1. LockInv'  BY LockInvStep DEF AtomicInv
<1>2. CASE Next
  <2>1. PICK b \in Backends : Step(b)  BY <1>2 DEF Next
  <2>2. Backends = {b}  BY <2>1 DEF Alone
  <2>3. OneInv(b) /\ WellFormed /\ HandOK(b) /\ CachedOK(b) /\ OneOK(b)
    BY <2>1 DEF AtomicInv, LockInv, OneInv
  <2>4. NoRollbackFails  BY <2>1, <2>2, <2>3, NoFailure DEF NoRollbackFails
  <2>5. CachedOK(b)'  BY <2>1, <2>3, <2>4, CachedStep
  <2>6. OneOK(b)'
    BY <2>1, <2>3, LifeStep, FirstOldStep, LinkedStep, FoundStep, ShownStep, AppliedStep, RestStep
    DEF OneOK
  <2>7. QED  BY <1>1, <2>2, <2>5, <2>6 DEF AtomicInv
<1>3. CASE UNCHANGED vars
  <2> SUFFICES ASSUME NEW b \in Backends PROVE CachedOK(b)' /\ OneOK(b)'
    BY <1>1 DEF AtomicInv
  <2>1. CachedOK(b) /\ OneOK(b)  BY DEF AtomicInv
  <2>2. UNCHANGED <<dir, data, phase, call, hand, seen, next, ops, invisible, updated, cache, table>>
    BY <1>3 DEF vars, disk, memory
  <2>3. CachedOK(b)'
    BY <2>1, <2>2 DEF CachedOK, FilesHeld, MadeBetween, RemovedHidden, StillCached, NothingLeft, Holds
  <2>4. Life(b)' /\ FirstOld(b)' /\ Rest(b)'
    BY <2>1, <2>2 DEF OneOK, Life, FirstOld, Rest, Untouched
  <2>5. Linked(b)'
    BY <2>1, <2>2 DEF OneOK, Linked, LockedFrom, Standing, Holds, HandName, Target
  <2>6. Found(b)' /\ Shown(b)'  BY <2>1, <2>2 DEF OneOK, Found, Shown, Untouched, Changing
  <2>7. Applied(b)'
    <3>1. \A n \in Names : /\ Row(n)' = Row(n) /\ (Made(b, n)' <=> Made(b, n))
                           /\ Making(b, n)' <=> Making(b, n)
      BY <2>2 DEF Row, Made, Making
    <3>2. QED  BY <2>1, <2>2, <3>1 DEF OneOK, Applied, Untouched
  <2>8. QED  BY <2>3, <2>4, <2>5, <2>6, <2>7 DEF OneOK
<1>4. QED  BY <1>2, <1>3

LEMMA AtomicInvInit == Init => AtomicInv
<1> SUFFICES ASSUME Init, NEW b \in Backends PROVE CachedOK(b) /\ OneOK(b)
  BY LockInvInit DEF AtomicInv
<1>1. /\ phase[b] = "idle" /\ call[b] = NoCall /\ hand[b] = NULL /\ ops[b] = << >>
      /\ invisible[b] = {} /\ \A n \in Names : updated[b][n] = NULL /\ cache[b][n] = NULL
  BY DEF Init
<1>2. call[b].kind = "none"  BY <1>1, CallTypes
<1>3. CachedOK(b)
  BY <1>1, <1>2 DEF CachedOK, FilesHeld, MadeBetween, RemovedHidden, StillCached, NothingLeft
<1>4. Life(b) /\ FirstOld(b) /\ Linked(b) /\ Found(b) /\ Shown(b) /\ Rest(b)
  BY <1>1, <1>2 DEF Life, FirstOld, Linked, Found, Shown, Rest, Holds
<1>5. Applied(b)
  <2> SUFFICES ASSUME NEW n \in Names PROVE table[n] = Row(n)
    BY <1>1 DEF Applied, Making
  <2>1. table[n] = IF dir[n] = NULL THEN NULL ELSE Empty  BY DEF Init
  <2>2. dir[n] # NULL => data[dir[n]] = Empty  BY DEF Init
  <2>3. QED  BY <2>1, <2>2 DEF Row
<1>6. QED  BY <1>3, <1>4, <1>5 DEF OneOK

\* Transactions of one backend are atomic: whatever they insert, update,
\* rename and delete, and wherever they abort, between transactions the
\* directory holds the rows that were committed.
THEOREM FsAtomic ==
    ASSUME Alone, NamesOnce
    PROVE  Spec => []Atomic
<1>1. AtomicInv => Atomic
  <2> SUFFICES ASSUME AtomicInv, \A b \in Backends : phase[b] = "idle"
               PROVE  table = [n \in Names |-> IF dir[n] = NULL THEN NULL ELSE data[dir[n]]]
    BY DEF Atomic
  <2>1. PICK b \in Backends : TRUE  BY DEF Alone
  <2>2. Rest(b) /\ Applied(b) /\ phase[b] = "idle"  BY DEF AtomicInv, OneOK
  <2>3. ASSUME NEW n \in Names PROVE table[n] = Row(n)
    <3>1. Untouched(b, n, 1, Len(ops[b])) /\ ~Making(b, n)
      BY <2>2 DEF Rest, Untouched, Making
    <3>2. QED  BY <2>2, <3>1 DEF Applied
  <2>4. table \in [Names -> Contents \union {NULL}]  BY DEF AtomicInv, LockInv, WellFormed, TypeOK
  <2>5. QED  BY <2>3, <2>4 DEF Row
<1>2. AtomicInv /\ [Next]_vars => AtomicInv'  BY AtomicInvStep
<1>3. QED  BY <1>1, <1>2, AtomicInvInit, PTL DEF Spec

\* A transaction sees its own changes, and the committed rows otherwise,
\* though it has written no file: invisible_files, updated_content and the
\* files made together say what the operations mean.
THEOREM FsReadYourWrites ==
    ASSUME Alone, NamesOnce
    PROVE  Spec => []ReadYourWrites
<1>1. AtomicInv => ReadYourWrites
  <2> SUFFICES ASSUME AtomicInv, NEW b \in Backends, Ready(b), NEW n \in Names
               PROVE  View(b)[n] = Intended(b)[n]
    BY DEF ReadYourWrites, View, Intended
  <2>1. /\ WellFormed /\ TypeOK /\ Life(b) /\ Linked(b) /\ Found(b) /\ Shown(b) /\ Applied(b)
        /\ FilesHeld(b) /\ RemovedHidden(b) /\ OpsOK(b)
    BY DEF AtomicInv, LockInv, OneOK, CachedOK, WellFormed
  <2>2. phase[b] = "xact" /\ call[b].kind = "none"  BY CallTypes DEF Ready
  <2>3. ~Making(b, n) /\ ~Changing(b, n)
    BY <2>1, <2>2, CallPhase DEF Making, Changing
  <2>4. dir[n] # NULL => data[FileOf(b, n)] = Row(n) /\ Row(n) # NULL
    BY <2>1, <2>2, LinkedRow DEF FileOf, Linked
  <2>5. CASE Touching(b, n) = {}
    <3>1. Untouched(b, n, 1, Len(ops[b]))  BY <2>5 DEF Touching, Untouched
    <3>2. updated[b][n] = NULL /\ table[n] = Row(n)  BY <2>1, <2>2, <2>3, <3>1 DEF Shown, Applied
    <3>3. n \notin invisible[b]
      BY <2>1, <2>2, <3>1 DEF Found, Untouched, Touches
    <3>4. QED  BY <2>4, <2>5, <3>2, <3>3 DEF View, Intended, Row
  <2>6. CASE Touching(b, n) # {}
    <3> DEFINE k == Max(Touching(b, n))
    <3>1. Touching(b, n) \subseteq 1 .. Len(ops[b]) /\ Len(ops[b]) \in Nat
      BY <2>1 DEF Touching, TypeOK
    <3>2. k \in Touching(b, n) /\ \A j \in Touching(b, n) : j <= k  BY <2>6, <3>1, Greatest
    <3>3. Intended(b)[n] = Outcome(ops[b][k], n)  BY <2>6 DEF Intended
    <3> HIDE DEF k
    <3>4. k \in 1 .. Len(ops[b]) /\ Touches(ops[b][k], n) /\ OpOK(ops[b][k])
      BY <2>1, <3>1, <3>2 DEF Touching, OpsOK
    <3>5. Untouched(b, n, k + 1, Len(ops[b]))
      <4> SUFFICES ASSUME NEW i \in k + 1 .. Len(ops[b]), Touches(ops[b][i], n) PROVE FALSE
        BY DEF Untouched
      <4>1. i \in 1 .. Len(ops[b]) /\ ~(i <= k)  BY <3>1, <3>4
      <4>2. i \in Touching(b, n)  BY <4>1 DEF Touching
      <4>3. QED  BY <3>2, <4>1, <4>2
    <3>6. CASE ops[b][k].new = n
      <4>1. updated[b][n] = ops[b][k].content  BY <2>1, <2>2, <2>3, <3>4, <3>5, <3>6 DEF Shown
      <4>2. ops[b][k].content \in Contents /\ ops[b][k].content # NULL
        <5>1. ops[b][k].kind \in {"insert", "update", "delete"}  BY <3>4, OpFields DEF OpOK
        <5>2. QED  BY <3>4, <3>6, <5>1, FsAssumption DEF OpOK
      <4>3. Holds(b, n, {"ex"})  BY <2>1, <2>2, <3>4 DEF FilesHeld
      <4>4. dir[n] # NULL
        <5>1. cache[b][n] \in Fds /\ dir[n] = cache[b][n].ino
          BY <2>1, <2>2, <4>3 DEF Linked, Holds, TypeOK
        <5>2. QED  BY <5>1, FsAssumption DEF Fds
      <4>5. n \notin invisible[b]
        <5> SUFFICES ASSUME n \in invisible[b] PROVE FALSE  OBVIOUS
        <5>1. PICK j \in 1 .. Len(ops[b]) : Removes(ops[b][j]) /\ ops[b][j].old = n
          BY <2>1, <2>2 DEF Found
        <5>2. Untouched(b, n, j + 1, Len(ops[b]))  BY <2>1, <5>1 DEF Life
        <5>3. Touches(ops[b][j], n)  BY <5>1 DEF Touches
        <5>4. j \in Touching(b, n)  BY <5>3 DEF Touching
        <5>5. j <= k  BY <3>2, <5>4
        <5>6. j # k  BY <3>4, <3>6, <5>1, FsAssumption DEF Removes, Moves, OpOK
        <5>7. k \in j + 1 .. Len(ops[b])  BY <3>1, <3>4, <5>1, <5>5, <5>6
        <5>8. QED  BY <3>4, <5>2, <5>7 DEF Untouched
      <4>6. View(b)[n] = updated[b][n]  BY <4>1, <4>2, <4>4, <4>5 DEF View
      <4>7. QED  BY <3>3, <3>6, <4>1, <4>6 DEF Outcome
    <3>7. CASE ops[b][k].new # n
      <4>1. ops[b][k].old = n  BY <3>4, <3>7 DEF Touches
      <4>2. Removes(ops[b][k])
        <5>1. ops[b][k].kind \in {"insert", "update", "delete"}  BY <3>4, OpFields DEF OpOK
        <5>2. QED  BY <3>4, <3>7, <4>1, <5>1, FsAssumption DEF OpOK, Removes, Moves
      <4>3. n \in invisible[b]
        <5>1. ~ \E j \in k + 1 .. Len(ops[b]) : ops[b][j].new = n
          BY <3>5 DEF Untouched, Touches
        <5>2. QED  BY <2>1, <2>2, <3>4, <4>1, <4>2, <5>1 DEF RemovedHidden
      <4>4. QED  BY <3>3, <3>7, <4>3 DEF View, Outcome
    <3>8. QED  BY <3>6, <3>7
  <2>7. QED  BY <2>5, <2>6
<1>2. AtomicInv /\ [Next]_vars => AtomicInv'  BY AtomicInvStep
<1>3. QED  BY <1>1, <1>2, AtomicInvInit, PTL DEF Spec

\* Nothing of a transaction is left when it is over: no rollback fails, and
\* no descriptor is closed behind the back of the cache.
THEOREM FsCleanIdle ==
    ASSUME Alone, NamesOnce
    PROVE  Spec => []CleanIdle
<1>1. AtomicInv => CleanIdle  BY DEF AtomicInv, OneOK, Rest, CleanIdle
<1>2. AtomicInv /\ [Next]_vars => AtomicInv'  BY AtomicInvStep
<1>3. QED  BY <1>1, <1>2, AtomicInvInit, PTL DEF Spec

\* A row that insert adds is new to the transaction: O_EXCL has seen that the
\* file did not exist, and no operation before has named it.
THEOREM FsInsertIsNew ==
    ASSUME Alone, NamesOnce
    PROVE  Spec => InsertIsNew
<1>1. ASSUME AtomicInv, [Next]_vars
      PROVE  [\A b \in Backends :
                 Len(ops'[b]) > Len(ops[b]) /\ Last(ops'[b]).kind = "insert"
                     => Intended(b)[Last(ops'[b]).new] = NULL]_vars
  <2> SUFFICES ASSUME Next, NEW b \in Backends, Len(ops'[b]) > Len(ops[b]), Last(ops'[b]).kind = "insert"
               PROVE  Intended(b)[Last(ops'[b]).new] = NULL
    BY <1>1
  <2>1. PICK a \in Backends : Step(a)  BY DEF Next
  <2>2. a = b  BY DEF Alone
  <2>3. OneInv(b) /\ TypeOK  BY <1>1 DEF AtomicInv, LockInv, OneInv, WellFormed
  <2>4. Finish(b) \/ ops'[b] = ops[b] \/ ops'[b] = << >>  BY <2>1, <2>2, <2>3, Appends
  <2>5. Len(ops[b]) \in Nat  BY <2>3 DEF TypeOK
  <2>6. Finish(b)  BY <2>4, <2>5
  <2> DEFINE op == call[b].op
  <2>7. Last(ops'[b]) = op  BY <2>3, <2>5, <2>6, FinishTouches DEF Last
  <2>8. Makes(op)  BY <2>7 DEF Makes
  <2>9. op.new \in Names /\ Untouched(b, op.new, 1, Len(ops[b])) /\ table[op.new] = NULL
    BY <2>3, <2>6, <2>8, FinishTouches
  <2>10. Touching(b, op.new) = {}  BY <2>9 DEF Touching, Untouched
  <2>11. QED  BY <2>7, <2>9, <2>10 DEF Intended
<1>2. AtomicInv /\ [Next]_vars => AtomicInv'  BY AtomicInvStep
<1>3. QED  BY <1>1, <1>2, AtomicInvInit, PTL DEF Spec, InsertIsNew
=============================================================================
