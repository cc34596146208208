----------------------------- MODULE FsFdwProofs -----------------------------
(***************************************************************************)
(* Proofs about the filesystem wrapper, for any number of backends, files  *)
(* and statements: the state is well formed, a lock of one backend         *)
(* excludes the others' whatever happens to the names in the meantime, so  *)
(* that nothing changes under a reader, and no two backends wait for each  *)
(* other over one name; and as long as no rollback fails, pre_commit finds *)
(* the descriptors it closes.  FsAtomicProofs is about one backend.        *)
(***************************************************************************)
EXTENDS FsFdw, WellFoundedInduction, TLAPS

-----------------------------------------------------------------------------
(* The invariants of any number of backends.                               *)

\* What an operation of each kind has.
OpOK(op) ==
    /\ op \in Ops
    /\ op.kind = "insert" => op.old = NULL /\ op.new \in Names /\ op.content \in Contents
    /\ op.kind = "update" => /\ op.old \in Names /\ op.new \in Names
                             /\ op.content \in Contents /\ op.oldContent \in Contents
    /\ op.kind = "delete" => op.old \in Names /\ op.new = NULL

\* What a call of each kind opens, and with what operation.
CallOK(c) ==
    /\ c.kind = "none" => c = NoCall
    /\ c.kind # "none" => c.op \in Ops
    /\ c.kind = "read" => c.at = "read" /\ c.op.old \in Names
    /\ c.kind = "insert" => c.at = "new" /\ c.op.kind = "insert" /\ OpOK(c.op)
    /\ c.kind = "delete" => c.at = "old" /\ c.op.kind = "delete" /\ OpOK(c.op)
    /\ c.kind = "update" => /\ c.at \in {"read", "old", "new"} /\ c.op.kind = "update"
                            /\ c.op.old \in Names /\ c.op.new \in Names
                            /\ c.op.content \in Contents
                            /\ c.at # "read" => OpOK(c.op)
                            /\ c.at = "new" => c.op.old # c.op.new
    /\ c.kind = "apply" => c.at = "new" /\ c.op.kind # "delete" /\ OpOK(c.op)
    /\ c.kind = "undo" => c.at = "old" /\ c.op.kind = "update" /\ OpOK(c.op)

\* Which calls a phase has, and where its loop is.
PhaseOK(b) ==
    /\ phase[b] = "idle" => call[b].kind = "none"
    /\ phase[b] = "xact" => call[b].kind \in {"none", "read", "insert", "update", "delete"}
    /\ phase[b] = "pre_commit" => call[b].kind \in {"none", "apply"} /\ next[b] >= 1
    /\ phase[b] = "rollback" => call[b].kind \in {"none", "undo"} /\ next[b] <= Len(ops[b])
    /\ call[b].kind \in {"apply", "undo"} =>
          next[b] \in 1 .. Len(ops[b]) /\ call[b].op = Current(b)
    /\ call[b].kind = "none" => hand[b] = NULL
    /\ phase[b] # "xact" => seen[b] = {}

OpsOK(b) == \A k \in 1 .. Len(ops[b]) : OpOK(ops[b][k])

WellFormed ==
    /\ TypeOK
    /\ \A b \in Backends : CallOK(call[b]) /\ PhaseOK(b) /\ OpsOK(b)

\* The name under which the descriptor in hand was opened.
HandName(b) == IF call[b].at = "read" THEN call[b].op.old ELSE Target(b)

\* The descriptor being locked, and the cached one of the same name.
HandOK(b) ==
    hand[b] # NULL =>
        /\ call[b].at = "read" => cache[b][call[b].op.old] = NULL
        /\ call[b].at \in {"old", "new"} =>
              \/ cache[b][Target(b)] = NULL
              \/ cache[b][Target(b)].kind = "closed"
              \/ cache[b][Target(b)] = [ino |-> hand[b], kind |-> "ex"]

\* Name n leads to inode i: on the disk, in a cache, or in hand.
Refers(i, n) ==
    \/ dir[n] = i
    \/ \E b \in Backends : Holds(b, n, {"sh", "ex"}) /\ cache[b][n].ino = i
    \/ \E b \in Backends : hand[b] = i /\ HandName(b) = n

\* A file that is removed and made again is another inode, as long as anybody
\* refers to the first.
OneName ==
    \A i \in Inodes, n, m \in Names : Refers(i, n) /\ Refers(i, m) => n = m

\* An exclusive lock is the only lock.
Exclusive ==
    \A b, c \in Backends, n, m \in Names :
        b # c /\ Holds(b, n, {"ex"}) /\ Holds(c, m, {"sh", "ex"})
            => cache[b][n].ino # cache[c][m].ino

LockInv == WellFormed /\ (\A b \in Backends : HandOK(b)) /\ OneName /\ Exclusive

-----------------------------------------------------------------------------
(* Records.                                                                *)

CallKinds == {"none", "read", "insert", "update", "delete", "apply", "undo"}

LEMMA CallTypes ==
    /\ NoCall \in Calls /\ NoCall.kind = "none" /\ NoCall.at = "none"
    /\ \A kind \in CallKinds, at \in {"none", "read", "old", "new"}, op \in Ops :
          /\ Call(kind, at, op) \in Calls
          /\ Call(kind, at, op).kind = kind /\ Call(kind, at, op).at = at
          /\ Call(kind, at, op).op = op
BY DEF NoCall, Call, Calls, CallKinds

LEMMA OpTypes ==
    ASSUME NEW kind \in {"insert", "update", "delete"},
           NEW old \in Names \union {NULL}, NEW oldContent \in Contents \union {NULL},
           NEW new \in Names \union {NULL}, NEW content \in Contents \union {NULL}
    PROVE  LET op == Op(kind, old, oldContent, new, content) IN
           /\ op \in Ops
           /\ op.kind = kind /\ op.old = old /\ op.oldContent = oldContent
           /\ op.new = new /\ op.content = content
BY DEF Op, Ops

LEMMA OpFields ==
    ASSUME NEW op \in Ops
    PROVE  /\ op.kind \in {"insert", "update", "delete"}
           /\ op.old \in Names \union {NULL} /\ op.new \in Names \union {NULL}
           /\ op.content \in Contents \union {NULL}
           /\ \A c \in Contents : LET new == [op EXCEPT !.oldContent = c] IN
                 /\ new \in Ops /\ new.oldContent = c
                 /\ new.kind = op.kind /\ new.old = op.old /\ new.new = op.new
                 /\ new.content = op.content
BY DEF Ops

\* A set of positions has a greatest element.
LEMMA Greatest ==
    ASSUME NEW L \in Nat, NEW S \in SUBSET (1 .. L), S # {}
    PROVE  /\ Max(S) \in S
           /\ \A k \in S : k <= Max(S)
<1> DEFINE T == {L - k : k \in S}
           R == OpToRel(<, Nat)
<1>0. \A k \in S : k \in 1 .. L /\ k \in Int /\ L - k \in Nat  OBVIOUS
<1>1. T \subseteq Nat /\ T # {}  BY <1>0
<1>2. PICK x \in T : \A y \in T : ~ (<<y, x>> \in R)
  BY <1>1, NatLessThanWellFounded, WFMin, Zenon
<1>3. \A y \in T : ~ (y < x)  BY <1>1, <1>2 DEF OpToRel
<1>4. PICK m \in S : x = L - m  BY <1>2
<1>5. \A k \in S : m >= k
  <2>1. TAKE k \in S
  <2>2. L - k \in T /\ ~(L - k < L - m)  BY <1>3, <1>4
  <2>3. k \in Int /\ m \in Int /\ L \in Int  BY <1>0
  <2> HIDE DEF T, R
  <2>4. QED  BY <2>2, <2>3
<1>6. Max(S) \in S /\ \A y \in S : Max(S) >= y  BY <1>5 DEF Max
<1>7. QED  BY <1>0, <1>6

\* What a call in progress has, by what it opens.
LEMMA CallFacts ==
    ASSUME WellFormed, NEW b \in Backends
    PROVE  /\ call[b] \in Calls /\ CallOK(call[b])
           /\ call[b].kind = "none" <=> call[b] = NoCall
           /\ call[b].at = "none" <=> call[b] = NoCall
           /\ call[b].at = "read" =>
                 call[b].kind \in {"read", "update"} /\ call[b].op \in Ops /\ call[b].op.old \in Names
           /\ call[b].at \in {"old", "new"} => OpOK(call[b].op) /\ Target(b) \in Names
           /\ call[b].at = "old" => call[b].kind \in {"delete", "update", "undo"}
           /\ call[b].at = "new" => call[b].kind \in {"insert", "update", "apply"}
<1>1. call[b] \in Calls  BY DEF WellFormed, TypeOK
<1>2. CallOK(call[b])  BY DEF WellFormed
<1>3. call[b].kind \in CallKinds  BY <1>1 DEF Calls, CallKinds
<1>4. call[b].op \in Ops => call[b].op.kind \in {"insert", "update", "delete"}  BY OpFields
<1>5. QED  BY <1>1, <1>2, <1>3, <1>4, CallTypes DEF CallOK, OpOK, Target, CallKinds

-----------------------------------------------------------------------------
(* Typing.                                                                 *)

LEMMA IntendedType ==
    ASSUME TypeOK, NEW b \in Backends
    PROVE  Intended(b) \in [Names -> Contents \union {NULL}]
<1> SUFFICES ASSUME NEW n \in Names, Touching(b, n) # {}
             PROVE  Outcome(ops[b][Max(Touching(b, n))], n) \in Contents \union {NULL}
  BY DEF Intended, TypeOK
<1>1. ops[b] \in Seq(Ops)  BY DEF TypeOK
<1>2. Touching(b, n) \in SUBSET (1 .. Len(ops[b])) /\ Len(ops[b]) \in Nat  BY <1>1 DEF Touching
<1>3. Max(Touching(b, n)) \in 1 .. Len(ops[b])  BY <1>2, Greatest
<1>4. ops[b][Max(Touching(b, n))] \in Ops  BY <1>1, <1>3
<1>5. QED  BY <1>4, OpFields DEF Outcome

LEMMA RaiseTypes ==
    ASSUME TypeOK, NEW b \in Backends, Raise(b), UNCHANGED ops
    PROVE  /\ phase' \in [Backends -> {"idle", "xact", "pre_commit", "rollback"}]
           /\ call' \in [Backends -> Calls]
           /\ hand' \in [Backends -> Inodes \union {NULL}]
           /\ seen' \in [Backends -> SUBSET Names]
           /\ ops' \in [Backends -> Seq(Ops)] /\ next' \in [Backends -> Nat]
           /\ \A c \in Backends : next'[c] <= Len(ops'[c]) + 1
BY CallTypes DEF Raise, SetCall, TypeOK

LEMMA TypeStep ==
    ASSUME WellFormed, NEW b \in Backends, Step(b)
    PROVE  TypeOK'
<1>0. TypeOK  BY DEF WellFormed
<1>1. CASE Begin(b)  BY <1>0, <1>1 DEF Begin, TypeOK, disk, memory
<1>2. CASE EndScan(b)  BY <1>0, <1>2 DEF EndScan, TypeOK, disk
<1>3. CASE EndScanRaises(b)
  BY <1>0, <1>3, CallTypes DEF EndScanRaises, ClearCacheRaises, Raise, SetCall, TypeOK, disk
<1>4. CASE \E n \in Names : ScanRow(b, n)
  <2>1. \A n \in Names : Call("read", "read", Op("update", n, NULL, NULL, NULL)) \in Calls
    BY DEF Call, Calls, Op, Ops
  <2>2. PICK n \in Names : ScanRow(b, n)  BY <1>4
  <2>6. UNCHANGED seen \/ seen' = [seen EXCEPT ![b] = @ \union {n}]  BY <2>2 DEF ScanRow
  <2>7. [seen EXCEPT ![b] = @ \union {n}] \in [Backends -> SUBSET Names]  BY <1>0 DEF TypeOK
  <2>3. seen' \in [Backends -> SUBSET Names]  BY <1>0, <2>6, <2>7 DEF TypeOK
  <2>5. call' \in [Backends -> Calls]  BY <1>0, <2>1, <2>2 DEF ScanRow, SetCall, TypeOK
  <2>4. QED  BY <1>0, <2>2, <2>3, <2>5 DEF ScanRow, TypeOK, disk, memory
<1>reads. ASSUME NEW c \in Contents, ReadReturns(b, c), call[b].at = "read"
       PROVE  /\ call' \in [Backends -> Calls] /\ seen' \in [Backends -> SUBSET Names]
              /\ updated' \in [Backends -> [Names -> Contents \union {NULL}]]
  <2>1. CASE call[b].kind = "read"
    <3>1. call[b].op.old \in Names  BY <1>reads, CallFacts
    <3>2. /\ call' = [call EXCEPT ![b] = NoCall] /\ UNCHANGED updated
          /\ seen' = [seen EXCEPT ![b] = @ \union {call[b].op.old}]
      BY <1>reads, <2>1 DEF ReadReturns, SetCall
    <3>3. NoCall \in Calls  BY CallTypes
    <3>4. QED  BY <1>0, <3>1, <3>2, <3>3 DEF TypeOK
  <2>2. CASE call[b].kind = "update"
    <3> DEFINE op == [call[b].op EXCEPT !.oldContent = c]
    <3>1. call[b].op \in Ops /\ call[b].op.new \in Names /\ call[b].op.content \in Contents
      BY <2>2, CallFacts DEF CallOK
    <3>2. op \in Ops  BY <3>1, OpFields
    <3>3. Call("update", "old", op) \in Calls  BY <3>2, CallTypes DEF CallKinds
    <3> HIDE DEF op
    <3>4. /\ call' = [call EXCEPT ![b] = Call("update", "old", op)]
          /\ updated' = [updated EXCEPT ![b][call[b].op.new] = call[b].op.content]
          /\ UNCHANGED seen
      BY <1>reads, <2>2 DEF ReadReturns, SetCall, op
    <3>5. QED  BY <1>0, <3>1, <3>3, <3>4 DEF TypeOK
  <2>3. QED  BY <1>reads, <2>1, <2>2 DEF ReadReturns
<1>5. CASE OpenCached(b)
  <2>1. call[b].op \in Ops /\ call[b].op.old \in Names  BY <1>5, CallFacts DEF OpenCached
  <2>2. data[cache[b][call[b].op.old].ino] \in Contents
    <3>1. cache[b][call[b].op.old] # NULL  BY <1>5 DEF OpenCached, Holds
    <3>2. cache[b][call[b].op.old] \in Fds  BY <1>0, <2>1, <3>1 DEF TypeOK
    <3>3. cache[b][call[b].op.old].ino \in Inodes  BY <3>2 DEF Fds
    <3>4. QED  BY <1>0, <3>3 DEF TypeOK
  <2>3. QED  BY <1>0, <1>5, <2>1, <2>2, <1>reads DEF OpenCached, TypeOK, disk
<1>6. CASE OpenShared(b)  BY <1>0, <1>6, CallFacts DEF OpenShared, TypeOK, disk, memory
<1>7. CASE LockShared(b)
  <2>1. call[b].op \in Ops /\ call[b].op.old \in Names /\ hand[b] \in Inodes
    BY <1>0, <1>7, CallFacts DEF LockShared, TypeOK
  <2>2. data[hand[b]] \in Contents /\ [ino |-> hand[b], kind |-> "sh"] \in Fds
    BY <1>0, <2>1 DEF TypeOK, Fds
  <2>3. QED  BY <1>0, <1>7, <2>1, <2>2, <1>reads DEF LockShared, SetCache, TypeOK, disk
<1>8. CASE OpenSharedRaises(b)
  BY <1>0, <1>8, CallTypes DEF OpenSharedRaises, Raise, SetCall, TypeOK, disk, memory
<1>9. CASE ReuseExclusive(b)
  <2>1. Target(b) \in Names  BY <1>9, CallFacts DEF ReuseExclusive, Opening
  <2>2. cache[b][Target(b)].ino \in Inodes
    BY <1>0, <1>9, <2>1 DEF ReuseExclusive, Holds, TypeOK, Fds
  <2>3. QED  BY <1>0, <1>9, <2>2 DEF ReuseExclusive, TypeOK, disk, memory
<1>10. ASSUME CloseShared(b), Opening(b) PROVE cache' \in [Backends -> [Names -> Fds \union {NULL}]]
  <2>1. Target(b) \in Names  BY <1>10, CallFacts DEF Opening
  <2>2. Holds(b, Target(b), {"sh"}) => [cache[b][Target(b)] EXCEPT !.kind = "closed"] \in Fds
    <3>1. cache[b][Target(b)] \in Fds \union {NULL}  BY <1>0, <2>1 DEF TypeOK
    <3>2. QED  BY <3>1 DEF Holds, Fds
  <2>3. CASE Holds(b, Target(b), {"sh"})
    <3> DEFINE fd == [cache[b][Target(b)] EXCEPT !.kind = "closed"]
    <3>1. cache' = [cache EXCEPT ![b][Target(b)] = fd] /\ fd \in Fds
      BY <1>10, <2>2, <2>3 DEF CloseShared, SetCache
    <3> HIDE DEF fd
    <3>2. QED  BY <1>0, <2>1, <3>1 DEF TypeOK
  <2>4. QED  BY <1>0, <1>10, <2>3 DEF CloseShared, TypeOK
<1>11. CASE OpenExclusive(b)
  <2>1. Target(b) \in Names  BY <1>11, CallFacts DEF OpenExclusive, Opening
  <2>2. cache' \in [Backends -> [Names -> Fds \union {NULL}]]  BY <1>10, <1>11 DEF OpenExclusive
  <2>3. /\ hand' \in [Backends -> Inodes \union {NULL}]
        /\ dir' \in [Names -> Inodes \union {NULL}] /\ data' \in [Inodes -> Contents]
    <3>1. CASE dir[Target(b)] # NULL
      BY <1>0, <1>11, <2>1, <3>1 DEF OpenExclusive, TypeOK, disk
    <3>2. CASE dir[Target(b)] = NULL
      <4>1. PICK i \in FreeInodes : /\ hand' = [hand EXCEPT ![b] = i]
                                    /\ dir' = [dir EXCEPT ![Target(b)] = i]
                                    /\ data' = [data EXCEPT ![i] = Empty]
        BY <1>11, <3>2 DEF OpenExclusive
      <4>2. i \in Inodes  BY DEF FreeInodes
      <4>3. QED  BY <1>0, <2>1, <4>1, <4>2, FsAssumption DEF TypeOK
    <3>3. QED  BY <3>1, <3>2
  <2>4. QED  BY <1>0, <1>11, <2>2, <2>3 DEF OpenExclusive, TypeOK
<1>12. CASE OpenExclusiveRaises(b)
  <2>1. cache' \in [Backends -> [Names -> Fds \union {NULL}]]
    BY <1>10, <1>12 DEF OpenExclusiveRaises
  <2>2. QED  BY <1>0, <1>12, <2>1, RaiseTypes DEF OpenExclusiveRaises, TypeOK, disk
<1>13. CASE \E n \in Names : Delete(b, n)
  <2>1. \A n \in Names : Call("delete", "old", Op("delete", n, NULL, NULL, NULL)) \in Calls
    BY DEF Call, Calls, Op, Ops
  <2>2. QED  BY <1>0, <1>13, <2>1 DEF Delete, SetCall, TypeOK, disk, memory
<1>14. CASE \E n \in Names, c \in Contents : Insert(b, n, c)
  <2>1. \A n \in Names, c \in Contents :
           Call("insert", "new", Op("insert", NULL, NULL, n, c)) \in Calls
    BY DEF Call, Calls, Op, Ops
  <2>2. QED  BY <1>0, <1>14, <2>1 DEF Insert, SetCall, TypeOK, disk, memory
<1>15. CASE \E n, m \in Names, c \in Contents : Update(b, n, m, c)
  <2>1. \A n, m \in Names, c \in Contents, old \in Contents \union {NULL}, at \in {"read", "old"} :
           Call("update", at, Op("update", n, old, m, c)) \in Calls
    BY DEF Call, Calls, Op, Ops
  <2>2. PICK n, m \in Names, c \in Contents : Update(b, n, m, c)  BY <1>15
  <2>3. updated' \in [Backends -> [Names -> Contents \union {NULL}]]
    <3>1. UNCHANGED updated \/ updated' = [updated EXCEPT ![b][m] = c]  BY <2>2 DEF Update
    <3>2. [updated EXCEPT ![b][m] = c] \in [Backends -> [Names -> Contents \union {NULL}]]
      BY <1>0 DEF TypeOK
    <3>3. QED  BY <1>0, <3>1, <3>2 DEF TypeOK
  <2>6. updated[b][n] \in Contents \union {NULL}  BY <1>0 DEF TypeOK
  <2>7. call' \in [Backends -> Calls]
    <3>1. \/ call' = [call EXCEPT ![b] = Call("update", "read", Op("update", n, NULL, m, c))]
          \/ call' = [call EXCEPT ![b] = Call("update", "old", Op("update", n, updated[b][n], m, c))]
      BY <2>2 DEF Update, SetCall
    <3>2. \A new \in Calls : [call EXCEPT ![b] = new] \in [Backends -> Calls]
      BY <1>0 DEF TypeOK
    <3>3. QED  BY <2>1, <2>6, <3>1, <3>2
  <2>4. seen' \in [Backends -> SUBSET Names]  BY <1>0, <2>2 DEF Update, TypeOK
  <2>5. QED  BY <1>0, <2>2, <2>3, <2>4, <2>7 DEF Update, TypeOK, disk
<1>16. ASSUME Locks(b)
       PROVE  /\ Locked(b) \in Fds /\ hand[b] \in Inodes
              /\ hand' \in [Backends -> Inodes \union {NULL}]
              /\ call[b].op \in Ops /\ OpOK(call[b].op) /\ call[b] \in Calls
  BY <1>0, <1>16, CallFacts DEF Locks, Locked, TypeOK, Fds, OpOK
<1>17. ASSUME Append1(b, call[b].op), call[b].op \in Ops, UNCHANGED next
       PROVE  /\ ops' \in [Backends -> Seq(Ops)] /\ call' \in [Backends -> Calls]
              /\ next' \in [Backends -> Nat]
              /\ \A c \in Backends : next'[c] <= Len(ops'[c]) + 1
  BY <1>0, <1>17, CallTypes DEF Append1, SetCall, TypeOK
<1>18. CASE InsertReturns(b)
  <2>1. call[b].op.new \in Names /\ call[b].op.content \in Contents
    BY <1>18, CallFacts DEF InsertReturns, CallOK, OpOK
  <2>2. QED  BY <1>0, <1>16, <1>17, <1>18, <2>1 DEF InsertReturns, SetCache, TypeOK, disk
<1>19. CASE DeleteReturns(b)
  <2>1. call[b].op.old \in Names  BY <1>19, CallFacts DEF DeleteReturns, CallOK, OpOK
  <2>2. QED  BY <1>0, <1>16, <1>17, <1>19, <2>1 DEF DeleteReturns, SetCache, TypeOK, disk
<1>20. CASE UpdateLocksOld(b)
  <2>1. call[b].op.old \in Names  BY <1>20, CallFacts DEF UpdateLocksOld, CallOK, OpOK
  <2>2. [call[b] EXCEPT !.at = "new"] \in Calls  BY <1>16, <1>20 DEF UpdateLocksOld, Calls
  <2>3. CASE call[b].op.old = call[b].op.new
    BY <1>0, <1>16, <1>17, <1>20, <2>1, <2>3 DEF UpdateLocksOld, SetCache, TypeOK, disk
  <2>4. CASE call[b].op.old # call[b].op.new
    <3>1. hand' \in [Backends -> Inodes \union {NULL}]
      BY <1>16, <1>20 DEF UpdateLocksOld
    <3>4. cache' \in [Backends -> [Names -> Fds \union {NULL}]]
      <4>1. cache' = [cache EXCEPT ![b][call[b].op.old] = Locked(b)]
        BY <1>20 DEF UpdateLocksOld, SetCache
      <4>2. Locked(b) \in Fds  BY <1>16, <1>20 DEF UpdateLocksOld
      <4>3. QED  BY <1>0, <2>1, <4>1, <4>2 DEF TypeOK
    <3>2. /\ call' \in [Backends -> Calls]
          /\ UNCHANGED <<dir, data, phase, seen, ops, next, invisible, updated, table>>
      BY <1>0, <1>20, <2>2, <2>4 DEF UpdateLocksOld, SetCall, TypeOK, disk
    <3>3. QED  BY <1>0, <3>1, <3>2, <3>4 DEF TypeOK
  <2>5. QED  BY <2>3, <2>4
<1>21. CASE UpdateReturns(b)
  <2>1. call[b].op.new \in Names /\ call[b].op.old \in Names
    BY <1>21, CallFacts DEF UpdateReturns, CallOK, OpOK
  <2>2. QED  BY <1>0, <1>16, <1>17, <1>21, <2>1 DEF UpdateReturns, SetCache, TypeOK, disk
<1>22. CASE Commit(b)  BY <1>0, <1>22 DEF Commit, TypeOK, disk, memory
<1>23. CASE Abort(b)  BY <1>0, <1>23 DEF Abort, TypeOK, disk, memory
<1>24. ASSUME NEW ph, Replaying(b, ph)
       PROVE  OpOK(Current(b)) /\ Current(b) \in Ops /\ next[b] \in 1 .. Len(ops[b])
  BY <1>24 DEF Replaying, Current, WellFormed, OpsOK, OpOK
<1>25. CASE ApplyDelete(b)
  <2>1. Current(b).old \in Names  BY <1>24, <1>25 DEF ApplyDelete, OpOK
  <2>2. QED  BY <1>0, <1>24, <1>25, <2>1 DEF ApplyDelete, Unlink, SetCache, TypeOK
<1>26. CASE ApplyDeleteRaises(b)
  BY <1>0, <1>26, CallTypes DEF ApplyDeleteRaises, Raise, SetCall, TypeOK, disk, memory
<1>27. CASE ApplyOpens(b)
  BY <1>0, <1>24, <1>27, CallTypes DEF ApplyOpens, SetCall, TypeOK, disk, memory, CallKinds
<1>28. CASE ApplyWrites(b)
  <2>1. /\ call[b].op.new \in Names /\ call[b].op.content \in Contents
        /\ Moves(call[b].op) => call[b].op.old \in Names
    BY <1>28, CallFacts, OpFields DEF ApplyWrites, CallOK, OpOK, Moves
  <2>2. next[b] \in 1 .. Len(ops[b])  BY <1>28 DEF ApplyWrites, WellFormed, PhaseOK
  <2>3. Locked(b) \in Fds /\ hand[b] \in Inodes /\ hand' \in [Backends -> Inodes \union {NULL}]
    BY <1>16, <1>28 DEF ApplyWrites
  <2>4. ASSUME Moves(call[b].op)
        PROVE  /\ cache' \in [Backends -> [Names -> Fds \union {NULL}]]
               /\ dir' \in [Names -> Inodes \union {NULL}]
    <3>1. /\ dir' = [dir EXCEPT ![call[b].op.old] = NULL]
          /\ cache' = [cache EXCEPT ![b][call[b].op.new] = Locked(b), ![b][call[b].op.old] = NULL]
      BY <1>28, <2>4 DEF ApplyWrites, Unlink
    <3>2. QED  BY <1>0, <2>1, <2>3, <2>4, <3>1 DEF TypeOK
  <2>5. ASSUME ~Moves(call[b].op)
        PROVE  /\ cache' \in [Backends -> [Names -> Fds \union {NULL}]]
               /\ dir' \in [Names -> Inodes \union {NULL}]
    <3>1. UNCHANGED dir /\ cache' = [cache EXCEPT ![b][call[b].op.new] = Locked(b)]
      BY <1>28, <2>5 DEF ApplyWrites, SetCache
    <3>2. QED  BY <1>0, <2>1, <2>3, <3>1 DEF TypeOK
  <2>6. data' \in [Inodes -> Contents] /\ call' \in [Backends -> Calls]
    BY <1>0, <1>28, <2>1, <2>3, CallTypes DEF ApplyWrites, SetCall, TypeOK
  <2>7. next' \in [Backends -> Nat] /\ \A c \in Backends : next'[c] <= Len(ops'[c]) + 1
    BY <1>0, <1>28, <2>2 DEF ApplyWrites, TypeOK
  <2>8. UNCHANGED <<phase, seen, ops, invisible, updated, table>>  BY <1>28 DEF ApplyWrites
  <2>9. QED  BY <1>0, <2>3, <2>4, <2>5, <2>6, <2>7, <2>8 DEF TypeOK
<1>29. CASE ApplyWritesRaises(b)
  <2>1. call[b].op.new \in Names
    BY <1>29, CallFacts, OpFields DEF ApplyWritesRaises, CallOK, OpOK
  <2>2. Locked(b) \in Fds  BY <1>0, <1>29 DEF ApplyWritesRaises, Locked, TypeOK, Fds
  <2>3. QED  BY <1>0, <1>29, <2>1, <2>2, CallTypes
                DEF ApplyWritesRaises, SetCache, Raise, SetCall, TypeOK, disk
<1>30. CASE UndoDelete(b)  BY <1>0, <1>24, <1>30 DEF UndoDelete, TypeOK, disk, memory
<1>31. CASE UndoInsert(b)
  <2>1. Current(b).new \in Names /\ next[b] \in 1 .. Len(ops[b])
    BY <1>24, <1>31 DEF UndoInsert, OpOK
  <2>2. dir' \in [Names -> Inodes \union {NULL}]  BY <1>0, <1>31, <2>1 DEF UndoInsert, Unlink, TypeOK
  <2>3. QED  BY <1>0, <1>31, <2>1, <2>2 DEF UndoInsert, TypeOK, memory
<1>32. CASE UndoUpdate(b)
  <2>1. Current(b).new \in Names /\ Current(b) \in Ops  BY <1>24, <1>32 DEF UndoUpdate, OpOK
  <2>2. dir' \in [Names -> Inodes \union {NULL}]  BY <1>0, <1>32, <2>1 DEF UndoUpdate, Unlink, TypeOK
  <2>3. Call("undo", "old", Current(b)) \in Calls  BY <2>1, CallTypes DEF CallKinds
  <2>4. QED  BY <1>0, <1>32, <2>2, <2>3 DEF UndoUpdate, SetCall, TypeOK, memory
<1>33. CASE UndoRaises(b)
  BY <1>0, <1>33, CallTypes DEF UndoRaises, Raise, SetCall, TypeOK, disk, memory
<1>34. CASE UndoWrites(b)
  <2>1. call[b].op.old \in Names /\ call[b].op.oldContent \in Contents
    BY <1>34, CallFacts DEF UndoWrites, CallOK, OpOK
  <2>2. next[b] \in 1 .. Len(ops[b])  BY <1>34 DEF UndoWrites, WellFormed, PhaseOK
  <2>3. QED  BY <1>0, <1>16, <1>34, <2>1, <2>2, CallTypes
                DEF UndoWrites, SetCache, SetCall, TypeOK
<1>35. CASE CleanUp(b)
  <2>1. Intended(b) \in [Names -> Contents \union {NULL}]  BY <1>0, IntendedType
  <2>2. QED  BY <1>0, <1>35, <2>1 DEF CleanUp, TypeOK, disk
<1>36. CASE CleanUpRaises(b)
  BY <1>0, <1>36 DEF CleanUpRaises, ClearCacheRaises, TypeOK, disk
<1>37. QED
  BY <1>1, <1>2, <1>3, <1>4, <1>5, <1>6, <1>7, <1>8, <1>9, <1>11, <1>12, <1>13, <1>14, <1>15,
     <1>18, <1>19, <1>20, <1>21, <1>22, <1>23, <1>25, <1>26, <1>27, <1>28, <1>29, <1>30, <1>31,
     <1>32, <1>33, <1>34, <1>35, <1>36
  DEF Step, Scan, ItemOpen, Modify, PreCommit, Rollback, PostXactCleanup

-----------------------------------------------------------------------------
(* A step of one backend leaves the instances of the others alone.         *)

SameInstance(c) ==
    /\ phase'[c] = phase[c] /\ call'[c] = call[c] /\ hand'[c] = hand[c] /\ seen'[c] = seen[c]
    /\ ops'[c] = ops[c] /\ next'[c] = next[c] /\ invisible'[c] = invisible[c]
    /\ updated'[c] = updated[c] /\ cache'[c] = cache[c]

LEMMA OthersStay ==
    ASSUME TypeOK, NEW b \in Backends, Step(b), NEW c \in Backends, c # b
    PROVE  SameInstance(c)
<1> USE DEF SameInstance, TypeOK, disk, memory
<1>1. CASE Begin(b)  BY <1>1 DEF Begin
<1>2. CASE EndScan(b)  BY <1>2 DEF EndScan
<1>3. CASE EndScanRaises(b)  BY <1>3 DEF EndScanRaises, ClearCacheRaises, Raise, SetCall
<1>4. CASE OpenCached(b)  BY <1>4 DEF OpenCached, ReadReturns, SetCall
<1>5. CASE OpenShared(b)  BY <1>5 DEF OpenShared
<1>6. CASE LockShared(b)  BY <1>6 DEF LockShared, ReadReturns, SetCall, SetCache
<1>7. CASE OpenSharedRaises(b)  BY <1>7 DEF OpenSharedRaises, Raise, SetCall
<1>8. CASE ReuseExclusive(b)  BY <1>8 DEF ReuseExclusive
<1>9. CASE OpenExclusive(b)  BY <1>9 DEF OpenExclusive, CloseShared, SetCache
<1>10. CASE OpenExclusiveRaises(b)  BY <1>10 DEF OpenExclusiveRaises, CloseShared, SetCache, Raise, SetCall
<1>11. CASE InsertReturns(b)  BY <1>11 DEF InsertReturns, Locks, SetCache, Append1, SetCall
<1>12. CASE DeleteReturns(b)  BY <1>12 DEF DeleteReturns, Locks, SetCache, Append1, SetCall
<1>13. CASE UpdateLocksOld(b)  BY <1>13 DEF UpdateLocksOld, Locks, SetCache, Append1, SetCall
<1>14. CASE UpdateReturns(b)  BY <1>14 DEF UpdateReturns, Locks, SetCache, Append1, SetCall
<1>15. CASE Commit(b)  BY <1>15 DEF Commit
<1>16. CASE Abort(b)  BY <1>16 DEF Abort
<1>17. CASE ApplyDelete(b)  BY <1>17 DEF ApplyDelete, SetCache
<1>18. CASE ApplyDeleteRaises(b)  BY <1>18 DEF ApplyDeleteRaises, Raise, SetCall
<1>19. CASE ApplyOpens(b)  BY <1>19 DEF ApplyOpens, SetCall
<1>20. CASE ApplyWrites(b)  BY <1>20 DEF ApplyWrites, Locks, SetCache, SetCall
<1>21. CASE ApplyWritesRaises(b)  BY <1>21 DEF ApplyWritesRaises, SetCache, Raise, SetCall
<1>22. CASE UndoDelete(b)  BY <1>22 DEF UndoDelete
<1>23. CASE UndoInsert(b)  BY <1>23 DEF UndoInsert
<1>24. CASE UndoUpdate(b)  BY <1>24 DEF UndoUpdate, SetCall
<1>25. CASE UndoRaises(b)  BY <1>25 DEF UndoRaises, Raise, SetCall
<1>26. CASE UndoWrites(b)  BY <1>26 DEF UndoWrites, Locks, SetCache, SetCall
<1>27. CASE CleanUp(b)  BY <1>27 DEF CleanUp
<1>28. CASE CleanUpRaises(b)  BY <1>28 DEF CleanUpRaises, ClearCacheRaises
<1>29. CASE \E n \in Names : ScanRow(b, n)  BY <1>29 DEF ScanRow, SetCall
<1>30. CASE \E n \in Names : Delete(b, n)  BY <1>30 DEF Delete, SetCall
<1>31. CASE \E n \in Names, v \in Contents : Insert(b, n, v)  BY <1>31 DEF Insert, SetCall
<1>32. CASE \E n, m \in Names, v \in Contents : Update(b, n, m, v)  BY <1>32 DEF Update, SetCall
<1>33. QED
  BY <1>1, <1>2, <1>3, <1>4, <1>5, <1>6, <1>7, <1>8, <1>9, <1>10, <1>11, <1>12, <1>13, <1>14,
     <1>15, <1>16, <1>17, <1>18, <1>19, <1>20, <1>21, <1>22, <1>23, <1>24, <1>25, <1>26, <1>27,
     <1>28, <1>29, <1>30, <1>31, <1>32
  DEF Step, Scan, ItemOpen, Modify, PreCommit, Rollback, PostXactCleanup

-----------------------------------------------------------------------------
(* The calls and loops of the backend that takes the step.                 *)

LocalOK(b) == CallOK(call[b]) /\ PhaseOK(b) /\ OpsOK(b)

\* An exception: the call is over, and the transaction rolls back or is over.
LEMMA RaiseLocal ==
    ASSUME WellFormed, NEW b \in Backends, Raise(b), UNCHANGED ops
    PROVE  LocalOK(b)'
<1>1. call'[b] = NoCall /\ hand'[b] = NULL /\ seen'[b] = {} /\ ops'[b] = ops[b]
  BY DEF Raise, SetCall, WellFormed, TypeOK
<1>2. /\ phase'[b] = IF phase[b] = "rollback" THEN "idle" ELSE "rollback"
      /\ next'[b] = IF phase[b] = "rollback" THEN 0 ELSE Len(ops[b])
  BY DEF Raise, WellFormed, TypeOK
<1>3. OpsOK(b)  BY DEF WellFormed
<1>4. Len(ops[b]) \in Nat  BY DEF WellFormed, TypeOK
<1>5. QED  BY <1>1, <1>2, <1>3, <1>4, CallTypes DEF LocalOK, CallOK, PhaseOK, OpsOK

\* The operation of the call is appended.
LEMMA AppendLocal ==
    ASSUME WellFormed, NEW b \in Backends, Append1(b, call[b].op), Locks(b),
           phase[b] = "xact", UNCHANGED <<phase, seen, next>>
    PROVE  LocalOK(b)'
<1>1. call'[b] = NoCall /\ hand'[b] = NULL /\ ops'[b] = Append(ops[b], call[b].op)
  BY DEF Append1, Locks, SetCall, WellFormed, TypeOK
<1>2. OpOK(call[b].op) /\ call[b].op \in Ops  BY CallFacts DEF Locks, OpOK
<1>3. OpsOK(b)'
  <2>1. ops[b] \in Seq(Ops)  BY DEF WellFormed, TypeOK
  <2>2. ASSUME NEW k \in 1 .. Len(ops'[b]) PROVE OpOK(ops'[b][k])
    <3>1. CASE k = Len(ops[b]) + 1  BY <1>1, <1>2, <2>1, <3>1
    <3>2. CASE k # Len(ops[b]) + 1
      <4>1. k \in 1 .. Len(ops[b]) /\ ops'[b][k] = ops[b][k]  BY <1>1, <1>2, <2>1, <3>2
      <4>2. QED  BY <4>1 DEF WellFormed, OpsOK
    <3>3. QED  BY <3>1, <3>2
  <2>3. QED  BY <2>2 DEF OpsOK
<1>4. QED  BY <1>1, <1>3, CallTypes DEF LocalOK, CallOK, PhaseOK

LEMMA LocalStep ==
    ASSUME WellFormed, NEW b \in Backends, Step(b)
    PROVE  LocalOK(b)'
<1>0. TypeOK /\ CallOK(call[b]) /\ PhaseOK(b) /\ OpsOK(b)  BY DEF WellFormed
<1> USE DEF LocalOK, disk, memory
<1>1. ASSUME NEW ph, Replaying(b, ph)
      PROVE  OpOK(Current(b)) /\ Current(b) \in Ops /\ next[b] \in 1 .. Len(ops[b])
  BY <1>1 DEF Replaying, Current, WellFormed, OpsOK, OpOK
<1>2. NoCall.kind = "none"  BY CallTypes
<1>3. ASSUME UNCHANGED <<phase, call, seen, next, ops>>, hand' = hand \/ call[b].kind # "none"
      PROVE  LocalOK(b)'
  BY <1>0, <1>3 DEF PhaseOK, OpsOK, Current
<1>reads. ASSUME NEW v \in Contents, ReadReturns(b, v), call[b].at = "read", hand'[b] = NULL,
              UNCHANGED <<phase, next, ops>>
       PROVE  LocalOK(b)'
  <2>0. call[b].kind \in {"read", "update"}  BY <1>reads, CallFacts
  <2>1. phase[b] = "xact"
    <3>1. phase[b] \in {"idle", "xact", "pre_commit", "rollback"}  BY <1>0 DEF TypeOK
    <3>2. QED  BY <1>0, <2>0, <3>1 DEF PhaseOK
  <2>2. CASE call[b].kind = "read"
    <3>1. call'[b] = NoCall  BY <1>0, <1>reads, <2>2 DEF ReadReturns, SetCall, TypeOK
    <3>2. QED  BY <1>0, <1>2, <1>reads, <2>1, <3>1 DEF CallOK, PhaseOK, OpsOK
  <2>3. CASE call[b].kind = "update"
    <3> DEFINE op == [call[b].op EXCEPT !.oldContent = v]
    <3>1. /\ op \in Ops /\ op.kind = "update" /\ op.old \in Names /\ op.new \in Names
          /\ op.content \in Contents /\ op.oldContent \in Contents
      BY <1>0, <2>3, OpFields DEF CallOK
    <3>2. OpOK(op)  BY <3>1 DEF OpOK
    <3> HIDE DEF op
    <3>3. call'[b] = Call("update", "old", op)  BY <1>0, <1>reads, <2>3 DEF ReadReturns, SetCall, TypeOK, op
    <3>4. QED  BY <1>0, <1>reads, <2>1, <3>1, <3>2, <3>3, CallTypes DEF CallOK, PhaseOK, OpsOK, CallKinds
  <2>4. QED  BY <1>reads, <2>2, <2>3 DEF ReadReturns
<1>xact. call[b].kind \in {"insert", "delete", "update"} => phase[b] = "xact"
  BY <1>0 DEF PhaseOK, TypeOK
<1>4. CASE Begin(b)
  BY <1>0, <1>4 DEF Begin, TypeOK, PhaseOK, OpsOK, Current
<1>5. CASE EndScan(b)
  BY <1>0, <1>5 DEF EndScan, ScanEnds, Ready, TypeOK, PhaseOK, OpsOK, Current
<1>6. CASE EndScanRaises(b)
  BY <1>6, RaiseLocal DEF EndScanRaises
<1>7. CASE \E n \in Names : ScanRow(b, n)
  <2>1. PICK n \in Names : ScanRow(b, n)  BY <1>7
  <2> DEFINE op == Op("update", n, NULL, NULL, NULL)
  <2>2. op \in Ops /\ op.old = n  BY DEF Op, Ops
  <2> HIDE DEF op
  <2>3. /\ phase[b] = "xact" /\ call[b] = NoCall /\ UNCHANGED <<phase, hand, next, ops>>
        /\ call'[b] = call[b] \/ call'[b] = Call("read", "read", op)
    BY <1>0, <2>1 DEF ScanRow, Ready, SetCall, TypeOK, op
  <2>4. QED  BY <1>0, <1>2, <2>2, <2>3, CallTypes DEF CallOK, PhaseOK, OpsOK, CallKinds
<1>8. CASE OpenCached(b)
  <2>1. call[b].op.old \in Names  BY <1>8, CallFacts DEF OpenCached
  <2>2. data[cache[b][call[b].op.old].ino] \in Contents
    <3>1. cache[b][call[b].op.old] # NULL  BY <1>8 DEF OpenCached, Holds
    <3>2. cache[b][call[b].op.old] \in Fds  BY <1>0, <2>1, <3>1 DEF TypeOK
    <3>3. cache[b][call[b].op.old].ino \in Inodes  BY <3>2 DEF Fds
    <3>4. QED  BY <1>0, <3>3 DEF TypeOK
  <2>3. QED  BY <1>8, <1>reads, <2>2 DEF OpenCached
<1>9. CASE OpenShared(b)
  BY <1>0, <1>3, <1>9, CallFacts, CallTypes DEF OpenShared
<1>10. CASE LockShared(b)
  BY <1>0, <1>reads, <1>10 DEF LockShared, TypeOK
<1>11. CASE OpenSharedRaises(b)
  BY <1>11, RaiseLocal DEF OpenSharedRaises
<1>12. CASE ReuseExclusive(b)
  BY <1>0, <1>3, <1>12, CallFacts, CallTypes DEF ReuseExclusive, Opening
<1>13. CASE OpenExclusive(b)
  BY <1>0, <1>3, <1>13, CallFacts, CallTypes DEF OpenExclusive, Opening
<1>14. CASE OpenExclusiveRaises(b)
  BY <1>14, RaiseLocal DEF OpenExclusiveRaises
<1>15. CASE \E n \in Names : Delete(b, n)
  <2>1. PICK n \in Names : Delete(b, n)  BY <1>15
  <2> DEFINE op == Op("delete", n, NULL, NULL, NULL)
  <2>2. op \in Ops /\ op.kind = "delete" /\ op.old = n /\ op.new = NULL  BY OpTypes
  <2>3. OpOK(op)  BY <2>2 DEF OpOK
  <2> HIDE DEF op
  <2>4. /\ phase[b] = "xact" /\ call[b] = NoCall /\ UNCHANGED <<phase, hand, next, ops>>
        /\ call'[b] = Call("delete", "old", op)
    BY <1>0, <2>1 DEF Delete, DML, Ready, SetCall, TypeOK, op
  <2>5. QED  BY <1>0, <1>2, <2>2, <2>3, <2>4, CallTypes DEF CallOK, PhaseOK, OpsOK, CallKinds
<1>16. CASE \E n \in Names, v \in Contents : Insert(b, n, v)
  <2>1. PICK n \in Names, v \in Contents : Insert(b, n, v)  BY <1>16
  <2> DEFINE op == Op("insert", NULL, NULL, n, v)
  <2>2. op \in Ops /\ op.kind = "insert" /\ op.old = NULL /\ op.new = n /\ op.content = v  BY OpTypes
  <2>3. OpOK(op)  BY <2>2 DEF OpOK
  <2> HIDE DEF op
  <2>4. /\ phase[b] = "xact" /\ call[b] = NoCall /\ UNCHANGED <<phase, hand, next, ops>>
        /\ call'[b] = Call("insert", "new", op) /\ UNCHANGED seen
    BY <1>0, <2>1 DEF Insert, DML, Ready, SetCall, TypeOK, op
  <2>5. QED  BY <1>0, <1>2, <2>2, <2>3, <2>4, CallTypes DEF CallOK, PhaseOK, OpsOK, CallKinds
<1>17. CASE \E n, m \in Names, v \in Contents : Update(b, n, m, v)
  <2>1. PICK n, m \in Names, v \in Contents : Update(b, n, m, v)  BY <1>17
  <2> DEFINE op(old) == Op("update", n, old, m, v)
  <2>2. \A old \in Contents \union {NULL} :
           /\ op(old) \in Ops /\ op(old).kind = "update" /\ op(old).old = n /\ op(old).new = m
           /\ op(old).content = v /\ op(old).oldContent = old
    BY OpTypes
  <2>3. \A old \in Contents : OpOK(op(old))  BY <2>2 DEF OpOK
  <2> HIDE DEF op
  <2>4. /\ phase[b] = "xact" /\ call[b] = NoCall /\ UNCHANGED <<phase, hand, next, ops>>
        /\ \/ call'[b] = Call("update", "read", op(NULL))
           \/ updated[b][n] \in Contents /\ call'[b] = Call("update", "old", op(updated[b][n]))
    BY <1>0, <2>1 DEF Update, DML, Ready, SetCall, TypeOK, op
  <2>5. CASE call'[b] = Call("update", "read", op(NULL))
    BY SMTT(60), <1>0, <1>2, <2>2, <2>4, <2>5, CallTypes DEF CallOK, PhaseOK, OpsOK, CallKinds
  <2>6. CASE updated[b][n] \in Contents /\ call'[b] = Call("update", "old", op(updated[b][n]))
    BY <1>0, <1>2, <2>2, <2>3, <2>4, <2>6, CallTypes DEF CallOK, PhaseOK, OpsOK, CallKinds
  <2>7. QED  BY <2>4, <2>5, <2>6
<1>18. CASE InsertReturns(b)
  BY <1>0, <1>xact, <1>18, AppendLocal DEF InsertReturns
<1>19. CASE DeleteReturns(b)
  BY <1>0, <1>xact, <1>19, AppendLocal DEF DeleteReturns
<1>20. CASE UpdateLocksOld(b)
  <2>1. CASE call[b].op.old = call[b].op.new
    BY <1>xact, <2>1, <1>20, AppendLocal DEF UpdateLocksOld
  <2>2. CASE call[b].op.old # call[b].op.new
    <3>1. /\ call'[b] = [call[b] EXCEPT !.at = "new"] /\ hand'[b] = NULL
          /\ UNCHANGED <<phase, ops, next, seen>> /\ call[b].kind = "update" /\ call[b].at = "old"
      BY <1>0, <2>2, <1>20 DEF UpdateLocksOld, Locks, SetCall, TypeOK
    <3>2. call'[b].kind = "update" /\ call'[b].at = "new" /\ call'[b].op = call[b].op
      BY <1>0, <3>1 DEF TypeOK, Calls
    <3>3. QED  BY <1>0, <2>2, <3>1, <3>2 DEF CallOK, PhaseOK, OpsOK
  <2>3. QED  BY <2>1, <2>2
<1>21. CASE UpdateReturns(b)
  BY <1>0, <1>xact, <1>21, AppendLocal DEF UpdateReturns
<1>22. CASE Commit(b)
  BY <1>0, <1>2, <1>22 DEF Commit, Ready, TypeOK, CallOK, PhaseOK, OpsOK
<1>23. CASE Abort(b)
  BY <1>0, <1>2, <1>23 DEF Abort, Ready, TypeOK, CallOK, PhaseOK, OpsOK
<1>24. CASE ApplyDelete(b)
  BY <1>0, <1>1, <1>2, <1>24 DEF ApplyDelete, Replaying, TypeOK, CallOK, PhaseOK, OpsOK
<1>25. CASE ApplyDeleteRaises(b)
  BY <1>25, RaiseLocal DEF ApplyDeleteRaises
<1>26. CASE ApplyOpens(b)
  <2>1. /\ phase[b] = "pre_commit" /\ call[b] = NoCall /\ UNCHANGED <<phase, hand, next, ops, seen>>
        /\ call'[b] = Call("apply", "new", Current(b)) /\ Current(b).kind # "delete"
        /\ Current(b)' = Current(b)
    BY <1>0, <1>26 DEF ApplyOpens, Replaying, SetCall, TypeOK, Current
  <2>2. OpOK(Current(b)) /\ Current(b) \in Ops /\ next[b] \in 1 .. Len(ops[b])
    BY <1>1, <1>26 DEF ApplyOpens
  <2>3. QED  BY <1>0, <1>2, <2>1, <2>2, CallTypes DEF CallOK, PhaseOK, OpsOK, CallKinds
<1>27. CASE ApplyWrites(b)
  <2>1. /\ phase[b] = "pre_commit" /\ call'[b] = NoCall /\ hand'[b] = NULL /\ next'[b] = next[b] + 1
        /\ UNCHANGED <<phase, ops, seen>>
    BY <1>0, <1>27 DEF ApplyWrites, Locks, SetCall, TypeOK, PhaseOK
  <2>2. QED  BY <1>0, <1>2, <2>1 DEF CallOK, PhaseOK, OpsOK, TypeOK
<1>28. CASE ApplyWritesRaises(b)
  BY <1>28, RaiseLocal DEF ApplyWritesRaises
<1>29. CASE UndoDelete(b)
  BY <1>0, <1>1, <1>2, <1>29 DEF UndoDelete, Replaying, TypeOK, CallOK, PhaseOK, OpsOK
<1>30. CASE UndoInsert(b)
  BY <1>0, <1>1, <1>2, <1>30 DEF UndoInsert, Replaying, TypeOK, CallOK, PhaseOK, OpsOK
<1>31. CASE UndoUpdate(b)
  <2>1. /\ phase[b] = "rollback" /\ call[b] = NoCall /\ UNCHANGED <<phase, hand, next, ops, seen>>
        /\ call'[b] = Call("undo", "old", Current(b)) /\ Current(b).kind = "update"
        /\ Current(b)' = Current(b)
    BY <1>0, <1>31 DEF UndoUpdate, Replaying, SetCall, TypeOK, Current
  <2>2. OpOK(Current(b)) /\ Current(b) \in Ops /\ next[b] \in 1 .. Len(ops[b])
    BY <1>1, <1>31 DEF UndoUpdate
  <2>3. QED  BY <1>0, <1>2, <2>1, <2>2, CallTypes DEF CallOK, PhaseOK, OpsOK, CallKinds
<1>32. CASE UndoRaises(b)
  BY <1>32, RaiseLocal DEF UndoRaises
<1>33. CASE UndoWrites(b)
  <2>1. /\ phase[b] = "rollback" /\ call'[b] = NoCall /\ hand'[b] = NULL /\ next'[b] = next[b] - 1
        /\ UNCHANGED <<phase, ops, seen>>
    BY <1>0, <1>33 DEF UndoWrites, Locks, SetCall, TypeOK, PhaseOK
  <2>2. QED  BY <1>0, <1>2, <2>1, <1>33 DEF UndoWrites, CallOK, PhaseOK, OpsOK, TypeOK
<1>34. CASE CleanUp(b)
  BY <1>0, <1>2, <1>34 DEF CleanUp, Replayed, TypeOK, CallOK, PhaseOK, OpsOK
<1>35. CASE CleanUpRaises(b)
  BY <1>0, <1>2, <1>35 DEF CleanUpRaises, Replayed, TypeOK, CallOK, PhaseOK, OpsOK
<1>36. QED
  BY <1>4, <1>5, <1>6, <1>7, <1>8, <1>9, <1>10, <1>11, <1>12, <1>13, <1>14, <1>15, <1>16,
     <1>17, <1>18, <1>19, <1>20, <1>21, <1>22, <1>23, <1>24, <1>25, <1>26, <1>27, <1>28, <1>29,
     <1>30, <1>31, <1>32, <1>33, <1>34, <1>35
  DEF Step, Scan, ItemOpen, Modify, PreCommit, Rollback, PostXactCleanup

LEMMA WellFormedStep ==
    ASSUME WellFormed, [Next]_vars
    PROVE  WellFormed'
<1>1. CASE Next
  <2>1. PICK b \in Backends : Step(b)  BY <1>1 DEF Next
  <2>2. TypeOK /\ TypeOK'  BY <2>1, TypeStep DEF WellFormed
  <2>3. ASSUME NEW c \in Backends PROVE LocalOK(c)'
    <3>1. CASE c = b  BY <2>1, <3>1, LocalStep
    <3>2. CASE c # b
      <4>1. SameInstance(c)  BY <2>1, <2>2, <3>2, OthersStay
      <4>2. LocalOK(c)  BY DEF WellFormed, LocalOK
      <4>3. QED  BY <4>1, <4>2 DEF SameInstance, LocalOK, CallOK, PhaseOK, OpsOK, Current
    <3>3. QED  BY <3>1, <3>2
  <2>4. QED  BY <2>2, <2>3 DEF WellFormed, LocalOK
<1>2. CASE UNCHANGED vars
  BY <1>2 DEF vars, disk, memory, WellFormed, TypeOK, CallOK, PhaseOK, OpsOK, Current
<1>3. QED  BY <1>1, <1>2

LEMMA WellFormedInit == Init => WellFormed
<1> SUFFICES ASSUME Init PROVE WellFormed  OBVIOUS
<1>1. TypeOK  BY FsAssumption, CallTypes DEF Init, TypeOK
<1>2. \A b \in Backends : CallOK(call[b]) /\ PhaseOK(b) /\ OpsOK(b)
  BY CallTypes DEF Init, CallOK, PhaseOK, OpsOK
<1>3. QED  BY <1>1, <1>2 DEF WellFormed

\* The state of the wrapper has its types: no statement, raising or not, leaves
\* a call, an operation or an undo without the file and content it goes on with.
THEOREM FsTypeCorrect == Spec => []TypeOK
<1>1. WellFormed => TypeOK  BY DEF WellFormed
<1>2. QED  BY <1>1, WellFormedInit, WellFormedStep, PTL DEF Spec

-----------------------------------------------------------------------------
(* Descriptors and locks.                                                  *)

\* What a step does to the names: it removes some, or makes a new inode.
DirFrom(b) ==
    \/ UNCHANGED <<dir, data>>
    \/ (\A n \in Names : dir'[n] \in {dir[n], NULL}) /\ UNCHANGED data
    \/ /\ \A n \in Names : dir'[n] \in {dir[n], NULL}
       /\ hand[b] # NULL /\ call[b].at \in {"old", "new"} /\ CanLock(b, hand[b], {"sh", "ex"})
       /\ \A i \in Inodes : i # hand[b] => data'[i] = data[i]

Creates(b) ==
    /\ call[b].at \in {"old", "new"} /\ UNCHANGED call
    /\ \E i \in FreeInodes : /\ hand' = [hand EXCEPT ![b] = i]
                             /\ dir' = [dir EXCEPT ![Target(b)] = i]
                             /\ data' = [data EXCEPT ![i] = Empty]

\* A cached descriptor was there before, or has been in hand and locked.
CacheFrom(b) ==
    \A n \in Names : Holds(b, n, {"sh", "ex"})' =>
        \/ cache'[b][n] = cache[b][n]
        \/ /\ hand[b] # NULL /\ n = HandName(b) /\ cache'[b][n].ino = hand[b]
           /\ CanLock(b, hand[b], IF cache'[b][n].kind = "sh" THEN {"ex"} ELSE {"sh", "ex"})

\* A descriptor in hand was opened under its name, or comes from the cache.
HandFrom(b) ==
    hand'[b] # NULL =>
        /\ call'[b] = call[b]
        /\ \/ dir[HandName(b)] = hand'[b]
           \/ Holds(b, HandName(b), {"sh", "ex"}) /\ cache[b][HandName(b)].ino = hand'[b]

\* A shared descriptor that is opened exclusively is closed.
LEMMA CloseSharedStep ==
    ASSUME WellFormed, NEW b \in Backends, Opening(b), CloseShared(b)
    PROVE  /\ Target(b) \in Names
           /\ \A n \in Names :
                 \/ /\ cache'[b][n] = cache[b][n]
                    /\ n = Target(b) => ~Holds(b, n, {"sh"})
                 \/ n = Target(b) /\ Holds(b, n, {"sh"}) /\ Holds(b, n, {"closed"})'
<1>1. TypeOK /\ Target(b) \in Names  BY CallFacts DEF WellFormed, Opening
<1>2. CASE Holds(b, Target(b), {"sh"})
  <2> DEFINE fd == [cache[b][Target(b)] EXCEPT !.kind = "closed"]
  <2>1. cache[b][Target(b)] \in Fds  BY <1>1, <1>2 DEF Holds, TypeOK
  <2>2. fd \in Fds /\ fd.kind = "closed"  BY <2>1 DEF Fds
  <2>3. fd # NULL  BY <2>2, NullAssumption
  <2>4. cache' = [cache EXCEPT ![b][Target(b)] = fd]  BY <1>2 DEF CloseShared, SetCache
  <2> HIDE DEF fd
  <2>5. cache'[b][Target(b)] = fd /\ \A n \in Names : n # Target(b) => cache'[b][n] = cache[b][n]
    BY <1>1, <2>4 DEF TypeOK
  <2>6. QED  BY <1>1, <1>2, <2>2, <2>3, <2>5 DEF Holds
<1>3. CASE ~Holds(b, Target(b), {"sh"})
  BY <1>1, <1>3 DEF CloseShared
<1>4. QED  BY <1>2, <1>3

LEMMA DirStep ==
    ASSUME WellFormed, NEW b \in Backends, Step(b)
    PROVE  DirFrom(b) \/ Creates(b)
<1>0. TypeOK  BY DEF WellFormed
<1> USE DEF DirFrom, disk, memory, Unlink, Locks, TypeOK
<1>1. CASE Begin(b)  BY <1>1 DEF Begin
<1>2. CASE EndScan(b)  BY <1>2 DEF EndScan
<1>3. CASE EndScanRaises(b)  BY <1>3 DEF EndScanRaises
<1>4. CASE \E n \in Names : ScanRow(b, n)  BY <1>4 DEF ScanRow
<1>5. CASE OpenCached(b)  BY <1>5 DEF OpenCached
<1>6. CASE OpenShared(b)  BY <1>6 DEF OpenShared
<1>7. CASE LockShared(b)  BY <1>7 DEF LockShared
<1>8. CASE OpenSharedRaises(b)  BY <1>8 DEF OpenSharedRaises
<1>9. CASE ReuseExclusive(b)  BY <1>9 DEF ReuseExclusive
<1>10. CASE OpenExclusive(b)  BY <1>10 DEF OpenExclusive, Creates, Opening
<1>11. CASE OpenExclusiveRaises(b)  BY <1>11 DEF OpenExclusiveRaises
<1>12. CASE \E n \in Names : Delete(b, n)  BY <1>12 DEF Delete
<1>13. CASE \E n \in Names, v \in Contents : Insert(b, n, v)  BY <1>13 DEF Insert
<1>14. CASE \E n, m \in Names, v \in Contents : Update(b, n, m, v)  BY <1>14 DEF Update
<1>15. CASE InsertReturns(b)  BY <1>15 DEF InsertReturns
<1>16. CASE DeleteReturns(b)  BY <1>16 DEF DeleteReturns
<1>17. CASE UpdateLocksOld(b)  BY <1>17 DEF UpdateLocksOld
<1>18. CASE UpdateReturns(b)  BY <1>18 DEF UpdateReturns
<1>19. CASE Commit(b)  BY <1>19 DEF Commit
<1>20. CASE Abort(b)  BY <1>20 DEF Abort
<1>21. CASE ApplyDelete(b)  BY <1>0, <1>21 DEF ApplyDelete
<1>22. CASE ApplyDeleteRaises(b)  BY <1>22 DEF ApplyDeleteRaises
<1>23. CASE ApplyOpens(b)  BY <1>23 DEF ApplyOpens
<1>24. CASE ApplyWrites(b)
  <2>1. \A n \in Names : dir'[n] \in {dir[n], NULL}  BY <1>0, <1>24 DEF ApplyWrites
  <2>2. \A i \in Inodes : i # hand[b] => data'[i] = data[i]  BY <1>0, <1>24 DEF ApplyWrites
  <2>3. QED  BY <2>1, <2>2, <1>24 DEF ApplyWrites
<1>25. CASE ApplyWritesRaises(b)  BY <1>25 DEF ApplyWritesRaises
<1>26. CASE UndoDelete(b)  BY <1>26 DEF UndoDelete
<1>27. CASE UndoInsert(b)  BY <1>0, <1>27 DEF UndoInsert
<1>28. CASE UndoUpdate(b)  BY <1>0, <1>28 DEF UndoUpdate
<1>29. CASE UndoRaises(b)  BY <1>29 DEF UndoRaises
<1>30. CASE UndoWrites(b)
  <2>1. \A i \in Inodes : i # hand[b] => data'[i] = data[i]  BY <1>0, <1>30 DEF UndoWrites
  <2>2. QED  BY <2>1, <1>30 DEF UndoWrites
<1>31. CASE CleanUp(b)  BY <1>31 DEF CleanUp
<1>32. CASE CleanUpRaises(b)  BY <1>32 DEF CleanUpRaises
<1>33. QED
  BY <1>1, <1>2, <1>3, <1>4, <1>5, <1>6, <1>7, <1>8, <1>9, <1>10, <1>11, <1>12, <1>13, <1>14,
     <1>15, <1>16, <1>17, <1>18, <1>19, <1>20, <1>21, <1>22, <1>23, <1>24, <1>25, <1>26, <1>27,
     <1>28, <1>29, <1>30, <1>31, <1>32
  DEF Step, Scan, ItemOpen, Modify, PreCommit, Rollback, PostXactCleanup

LEMMA CacheStep ==
    ASSUME WellFormed, NEW b \in Backends, Step(b)
    PROVE  CacheFrom(b)
<1>0. TypeOK  BY DEF WellFormed
<1> USE DEF CacheFrom, Holds, disk, memory, TypeOK
<1>1. CASE Begin(b)  BY <1>1 DEF Begin
<1>2. CASE EndScan(b)  BY <1>0, <1>2 DEF EndScan
<1>3. CASE EndScanRaises(b)  BY <1>0, <1>3 DEF EndScanRaises, ClearCacheRaises
<1>4. CASE \E n \in Names : ScanRow(b, n)  BY <1>4 DEF ScanRow
<1>5. CASE OpenCached(b)  BY <1>5 DEF OpenCached
<1>6. CASE OpenShared(b)  BY <1>6 DEF OpenShared
<1>7. CASE LockShared(b)  BY <1>0, <1>7 DEF LockShared, SetCache, HandName
<1>8. CASE OpenSharedRaises(b)  BY <1>8 DEF OpenSharedRaises
<1>9. CASE ReuseExclusive(b)  BY <1>9 DEF ReuseExclusive
<1>10. CASE OpenExclusive(b)  BY <1>0, <1>10, CloseSharedStep DEF OpenExclusive
<1>11. CASE OpenExclusiveRaises(b)  BY <1>0, <1>11, CloseSharedStep DEF OpenExclusiveRaises
<1>12. CASE \E n \in Names : Delete(b, n)  BY <1>12 DEF Delete
<1>13. CASE \E n \in Names, v \in Contents : Insert(b, n, v)  BY <1>13 DEF Insert
<1>14. CASE \E n, m \in Names, v \in Contents : Update(b, n, m, v)  BY <1>14 DEF Update
<1>15. CASE InsertReturns(b)
  BY <1>0, CallFacts, <1>15 DEF InsertReturns, Locks, Locked, SetCache, HandName, Target, CallOK
<1>16. CASE DeleteReturns(b)
  BY <1>0, CallFacts, <1>16 DEF DeleteReturns, Locks, Locked, SetCache, HandName, Target, CallOK
<1>17. CASE UpdateLocksOld(b)
  BY <1>0, <1>17 DEF UpdateLocksOld, Locks, Locked, SetCache, HandName, Target
<1>18. CASE UpdateReturns(b)
  BY <1>0, <1>18 DEF UpdateReturns, Locks, Locked, SetCache, HandName, Target
<1>19. CASE Commit(b)  BY <1>19 DEF Commit
<1>20. CASE Abort(b)  BY <1>20 DEF Abort
<1>21. CASE ApplyDelete(b)  BY <1>0, <1>21 DEF ApplyDelete, SetCache
<1>22. CASE ApplyDeleteRaises(b)  BY <1>22 DEF ApplyDeleteRaises
<1>23. CASE ApplyOpens(b)  BY <1>23 DEF ApplyOpens
<1>24. CASE ApplyWrites(b)
  BY <1>0, CallFacts, <1>24 DEF ApplyWrites, Locks, Locked, SetCache, HandName, Target, CallOK
<1>25. CASE ApplyWritesRaises(b)
  BY <1>0, CallFacts, <1>25 DEF ApplyWritesRaises, Locked, SetCache, HandName, Target, CallOK
<1>26. CASE UndoDelete(b)  BY <1>26 DEF UndoDelete
<1>27. CASE UndoInsert(b)  BY <1>27 DEF UndoInsert
<1>28. CASE UndoUpdate(b)  BY <1>28 DEF UndoUpdate
<1>29. CASE UndoRaises(b)  BY <1>29 DEF UndoRaises
<1>30. CASE UndoWrites(b)
  BY <1>0, CallFacts, <1>30 DEF UndoWrites, Locks, Locked, SetCache, HandName, Target, CallOK
<1>31. CASE CleanUp(b)  BY <1>0, <1>31 DEF CleanUp
<1>32. CASE CleanUpRaises(b)  BY <1>0, <1>32 DEF CleanUpRaises, ClearCacheRaises
<1>33. QED
  BY <1>1, <1>2, <1>3, <1>4, <1>5, <1>6, <1>7, <1>8, <1>9, <1>10, <1>11, <1>12, <1>13, <1>14,
     <1>15, <1>16, <1>17, <1>18, <1>19, <1>20, <1>21, <1>22, <1>23, <1>24, <1>25, <1>26, <1>27,
     <1>28, <1>29, <1>30, <1>31, <1>32
  DEF Step, Scan, ItemOpen, Modify, PreCommit, Rollback, PostXactCleanup

LEMMA HandStep ==
    ASSUME WellFormed, NEW b \in Backends, Step(b)
    PROVE  HandFrom(b) \/ Creates(b)
<1>0. TypeOK /\ PhaseOK(b) /\ NoCall.kind = "none"  BY CallTypes DEF WellFormed
<1> USE DEF HandFrom, HandName, disk, memory, TypeOK
<1>1. CASE Begin(b)  BY <1>0, <1>1 DEF Begin, PhaseOK
<1>2. CASE EndScan(b)  BY <1>0, <1>2 DEF EndScan, ScanEnds, Ready, PhaseOK
<1>3. CASE EndScanRaises(b)  BY <1>0, <1>3 DEF EndScanRaises, Raise
<1>4. CASE \E n \in Names : ScanRow(b, n)  BY <1>0, <1>4 DEF ScanRow, Ready, PhaseOK
<1>5. CASE OpenCached(b)  BY <1>0, <1>5 DEF OpenCached
<1>6. CASE OpenShared(b)  BY <1>0, <1>6 DEF OpenShared
<1>7. CASE LockShared(b)  BY <1>0, <1>7 DEF LockShared
<1>8. CASE OpenSharedRaises(b)  BY <1>0, <1>8 DEF OpenSharedRaises, Raise
<1>9. CASE ReuseExclusive(b)  BY <1>0, <1>9 DEF ReuseExclusive, Opening, Holds
<1>10. CASE OpenExclusive(b)  BY <1>0, <1>10 DEF OpenExclusive, Opening, Creates
<1>11. CASE OpenExclusiveRaises(b)  BY <1>0, <1>11 DEF OpenExclusiveRaises, Raise
<1>12. CASE \E n \in Names : Delete(b, n)  BY <1>0, <1>12 DEF Delete, DML, Ready, PhaseOK
<1>13. CASE \E n \in Names, v \in Contents : Insert(b, n, v)
  BY <1>0, <1>13 DEF Insert, DML, Ready, PhaseOK
<1>14. CASE \E n, m \in Names, v \in Contents : Update(b, n, m, v)
  BY <1>0, <1>14 DEF Update, DML, Ready, PhaseOK
<1>15. CASE InsertReturns(b)  BY <1>0, <1>15 DEF InsertReturns, Locks
<1>16. CASE DeleteReturns(b)  BY <1>0, <1>16 DEF DeleteReturns, Locks
<1>17. CASE UpdateLocksOld(b)  BY <1>0, <1>17 DEF UpdateLocksOld, Locks
<1>18. CASE UpdateReturns(b)  BY <1>0, <1>18 DEF UpdateReturns, Locks
<1>19. CASE Commit(b)  BY <1>0, <1>19 DEF Commit, Ready, PhaseOK
<1>20. CASE Abort(b)  BY <1>0, <1>20 DEF Abort, Ready, PhaseOK
<1>21. CASE ApplyDelete(b)  BY <1>0, <1>21 DEF ApplyDelete, Replaying, PhaseOK
<1>22. CASE ApplyDeleteRaises(b)  BY <1>0, <1>22 DEF ApplyDeleteRaises, Raise
<1>23. CASE ApplyOpens(b)  BY <1>0, <1>23 DEF ApplyOpens, Replaying, PhaseOK
<1>24. CASE ApplyWrites(b)  BY <1>0, <1>24 DEF ApplyWrites, Locks
<1>25. CASE ApplyWritesRaises(b)  BY <1>0, <1>25 DEF ApplyWritesRaises, Raise
<1>26. CASE UndoDelete(b)  BY <1>0, <1>26 DEF UndoDelete, Replaying, PhaseOK
<1>27. CASE UndoInsert(b)  BY <1>0, <1>27 DEF UndoInsert, Replaying, PhaseOK
<1>28. CASE UndoUpdate(b)  BY <1>0, <1>28 DEF UndoUpdate, Replaying, PhaseOK
<1>29. CASE UndoRaises(b)  BY <1>0, <1>29 DEF UndoRaises, Raise
<1>30. CASE UndoWrites(b)  BY <1>0, <1>30 DEF UndoWrites, Locks
<1>31. CASE CleanUp(b)  BY <1>0, <1>31 DEF CleanUp, Replayed, PhaseOK
<1>32. CASE CleanUpRaises(b)  BY <1>0, <1>32 DEF CleanUpRaises, Replayed, PhaseOK
<1>33. QED
  BY <1>1, <1>2, <1>3, <1>4, <1>5, <1>6, <1>7, <1>8, <1>9, <1>10, <1>11, <1>12, <1>13, <1>14,
     <1>15, <1>16, <1>17, <1>18, <1>19, <1>20, <1>21, <1>22, <1>23, <1>24, <1>25, <1>26, <1>27,
     <1>28, <1>29, <1>30, <1>31, <1>32
  DEF Step, Scan, ItemOpen, Modify, PreCommit, Rollback, PostXactCleanup

-----------------------------------------------------------------------------
(* The lock invariant.                                                     *)

LEMMA HandOKStep ==
    ASSUME WellFormed, NEW b \in Backends, HandOK(b), Step(b)
    PROVE  HandOK(b)'
<1>0. TypeOK /\ NoCall.kind = "none"  BY CallTypes DEF WellFormed
<1>1. CASE hand'[b] = NULL  BY <1>1 DEF HandOK
<1>2. CASE OpenShared(b)
  BY <1>0, <1>2 DEF OpenShared, HandOK, TypeOK, disk, memory
<1>3. CASE ReuseExclusive(b)
  <2>1. Target(b) \in Names /\ UNCHANGED <<call, cache>> /\ hand'[b] = cache[b][Target(b)].ino
    BY <1>0, <1>3, CallFacts DEF ReuseExclusive, Opening, TypeOK, memory
  <2>2. cache[b][Target(b)] \in Fds /\ cache[b][Target(b)].kind = "ex" /\ call[b].at # "read"
    BY <1>0, <1>3, <2>1 DEF ReuseExclusive, Opening, Holds, TypeOK
  <2>3. cache[b][Target(b)] = [ino |-> cache[b][Target(b)].ino, kind |-> "ex"]
    BY <2>2 DEF Fds
  <2>4. QED  BY <2>1, <2>2, <2>3 DEF HandOK, Target
<1>4. CASE OpenExclusive(b)
  <2>1. /\ Target(b) \in Names /\ UNCHANGED call /\ call[b].at # "read"
        /\ ~Holds(b, Target(b), {"ex", "closed"})
    BY <1>4, CloseSharedStep DEF OpenExclusive, Opening
  <2>2. cache[b][Target(b)] \in Fds \union {NULL}  BY <1>0, <2>1 DEF TypeOK
  <2>3. cache'[b][Target(b)] = NULL \/ Holds(b, Target(b), {"closed"})'
    <3>1. \/ cache'[b][Target(b)] = cache[b][Target(b)] /\ ~Holds(b, Target(b), {"sh"})
          \/ Holds(b, Target(b), {"closed"})'
      <4>1. Opening(b) /\ CloseShared(b)  BY <1>4 DEF OpenExclusive
      <4>2. Target(b)' = Target(b)  BY <2>1 DEF Target
      <4>3. QED  BY <2>1, <4>1, <4>2, CloseSharedStep DEF Holds
    <3>2. QED  BY <2>1, <2>2, <3>1 DEF Holds, Fds
  <2>4. QED  BY <2>1, <2>3 DEF HandOK, Holds, Target
<1>5. CASE hand'[b] # NULL /\ ~OpenShared(b) /\ ~ReuseExclusive(b) /\ ~OpenExclusive(b)
  <2> USE <1>0 DEF TypeOK, disk, memory
  <2>1. PhaseOK(b)  BY DEF WellFormed
  <2>2. call[b].kind = "none" => hand[b] = NULL  BY <2>1 DEF PhaseOK
  <2>3. ~Begin(b) /\ ~CleanUp(b) /\ ~CleanUpRaises(b) /\ ~Commit(b) /\ ~Abort(b)
    BY <1>5, <2>1, <2>2 DEF PhaseOK, Begin, CleanUp, CleanUpRaises, Commit, Abort, Replayed, Ready
  <2>4. ~Scan(b)
    BY <1>5, <2>2 DEF Scan, EndScan, EndScanRaises, ScanRow, ScanEnds, Ready, Raise
  <2>5. ~ItemOpen(b)
    BY <1>5 DEF ItemOpen, OpenCached, LockShared, OpenSharedRaises, OpenExclusiveRaises, Raise
  <2>6. ~Modify(b)
    BY <1>5, <2>2 DEF Modify, Delete, Insert, Update, DML, Ready, InsertReturns, DeleteReturns,
                      UpdateLocksOld, UpdateReturns, Locks
  <2>7. ~PreCommit(b)
    BY <1>5, <2>2 DEF PreCommit, ApplyDelete, ApplyDeleteRaises, ApplyOpens, ApplyWrites,
                      ApplyWritesRaises, Replaying, Locks, Raise
  <2>8. ~Rollback(b)
    BY <1>5, <2>2 DEF Rollback, UndoDelete, UndoInsert, UndoUpdate, UndoRaises, UndoWrites,
                      Replaying, Locks, Raise
  <2>9. QED  BY <2>3, <2>4, <2>5, <2>6, <2>7, <2>8 DEF Step, PostXactCleanup
<1>6. QED  BY <1>1, <1>2, <1>3, <1>4, <1>5

\* An inode to which a name leads after a step is one to which it led before,
\* or a new one, to which only the name of its file leads.
LEMMA RefersStep ==
    ASSUME WellFormed, NEW b \in Backends, Step(b), NEW i \in Inodes
    PROVE  \/ \A n \in Names : Refers(i, n)' => Refers(i, n)
           \/ \A n \in Names : Refers(i, n)' => n = Target(b)
<1>0. TypeOK /\ TypeOK'  BY TypeStep DEF WellFormed
<1>1. i # NULL  BY FsAssumption
<1>2. \A c \in Backends \ {b} : SameInstance(c)  BY <1>0, OthersStay
<1>3. ASSUME NEW c \in Backends, c # b, NEW n \in Names
      PROVE  /\ Holds(c, n, {"sh", "ex"})' = Holds(c, n, {"sh", "ex"}) /\ cache'[c][n] = cache[c][n]
             /\ hand'[c] = hand[c] /\ HandName(c)' = HandName(c)
  BY <1>2, <1>3 DEF SameInstance, Holds, HandName, Target
<1>4. ASSUME NEW n \in Names, Holds(b, n, {"sh", "ex"})', cache'[b][n].ino = i
      PROVE  Refers(i, n)
  <2>1. CacheFrom(b)  BY CacheStep
  <2>2. CASE cache'[b][n] = cache[b][n]  BY <1>4, <2>2 DEF Holds, Refers
  <2>3. CASE hand[b] # NULL /\ n = HandName(b) /\ cache'[b][n].ino = hand[b]
    BY <1>4, <2>3 DEF Refers
  <2>4. QED  BY <1>4, <2>1, <2>2, <2>3 DEF CacheFrom
<1>5. CASE \E j \in Inodes : Creates(b) /\ j \in FreeInodes /\ hand' = [hand EXCEPT ![b] = j] /\ dir' = [dir EXCEPT ![Target(b)] = j]
  <2>1. PICK j \in FreeInodes : /\ hand' = [hand EXCEPT ![b] = j]
                                /\ dir' = [dir EXCEPT ![Target(b)] = j]
    BY <1>5
  <2>2. Target(b) \in Names /\ UNCHANGED call /\ call[b].at \in {"old", "new"}
    BY <1>5, CallFacts DEF Creates
  <2>3. HandName(b)' = Target(b)  BY <2>2 DEF HandName, Target
  <2>4. CASE i = j
    <3>1. \A n \in Names : ~Refers(i, n)
      BY <2>4 DEF FreeInodes, Refers
    <3>2. ASSUME NEW n \in Names, Refers(i, n)' PROVE n = Target(b)
      <4>1. CASE dir'[n] = i  BY <1>0, <2>1, <2>2, <3>1, <4>1 DEF TypeOK, Refers
      <4>2. CASE \E c \in Backends : Holds(c, n, {"sh", "ex"})' /\ cache'[c][n].ino = i
        BY <1>3, <1>4, <3>1, <4>2 DEF Refers
      <4>3. CASE \E c \in Backends : hand'[c] = i /\ HandName(c)' = n
        BY <1>3, <2>3, <3>1, <4>3 DEF Refers
      <4>4. QED  BY <3>2, <4>1, <4>2, <4>3 DEF Refers
    <3>3. QED  BY <3>2
  <2>5. CASE i # j
    <3>1. ASSUME NEW n \in Names, Refers(i, n)' PROVE Refers(i, n)
      <4>1. CASE dir'[n] = i  BY <1>0, <2>1, <2>2, <2>5, <4>1 DEF TypeOK, Refers
      <4>2. CASE \E c \in Backends : Holds(c, n, {"sh", "ex"})' /\ cache'[c][n].ino = i
        BY <1>3, <1>4, <4>2 DEF Refers
      <4>3. CASE \E c \in Backends : hand'[c] = i /\ HandName(c)' = n
        <5>1. hand'[b] # i  BY <1>0, <2>1, <2>5 DEF TypeOK
        <5>2. QED  BY <1>3, <4>3, <5>1 DEF Refers
      <4>4. QED  BY <3>1, <4>1, <4>2, <4>3 DEF Refers
    <3>2. QED  BY <3>1
  <2>6. QED  BY <2>4, <2>5
<1>6. CASE ~Creates(b)
  <2>1. \A n \in Names : dir'[n] \in {dir[n], NULL}  BY <1>6, DirStep DEF DirFrom
  <2>2. HandFrom(b)  BY <1>6, HandStep
  <2>3. ASSUME NEW n \in Names, Refers(i, n)' PROVE Refers(i, n)
    <3>1. CASE dir'[n] = i  BY <1>1, <2>1, <3>1 DEF Refers
    <3>2. CASE \E c \in Backends : Holds(c, n, {"sh", "ex"})' /\ cache'[c][n].ino = i
      BY <1>3, <1>4, <3>2 DEF Refers
    <3>3. CASE \E c \in Backends : hand'[c] = i /\ HandName(c)' = n
      <4>1. CASE hand'[b] = i /\ HandName(b)' = n
        <5>1. HandName(b) = n  BY <1>1, <2>2, <4>1 DEF HandFrom, HandName, Target
        <5>2. QED  BY <1>1, <2>2, <4>1, <5>1 DEF HandFrom, Refers
      <4>2. QED  BY <1>3, <3>3, <4>1 DEF Refers
    <3>4. QED  BY <2>3, <3>1, <3>2, <3>3 DEF Refers
  <2>4. QED  BY <2>3
<1>7. QED  BY <1>5, <1>6 DEF Creates, FreeInodes

LEMMA OneNameStep ==
    ASSUME WellFormed, OneName, NEW b \in Backends, Step(b)
    PROVE  OneName'
<1> SUFFICES ASSUME NEW i \in Inodes, NEW n \in Names, NEW m \in Names, Refers(i, n)', Refers(i, m)'
             PROVE  n = m
  BY DEF OneName
<1>1. QED  BY RefersStep DEF OneName

LEMMA ExclusiveStep ==
    ASSUME WellFormed, Exclusive, NEW b \in Backends, Step(b)
    PROVE  Exclusive'
<1> SUFFICES ASSUME NEW c \in Backends, NEW d \in Backends, NEW n \in Names, NEW m \in Names,
                    c # d, Holds(c, n, {"ex"})', Holds(d, m, {"sh", "ex"})'
             PROVE  cache'[c][n].ino # cache'[d][m].ino
  BY DEF Exclusive
<1>0. TypeOK  BY DEF WellFormed
<1>1. CASE c # b /\ d # b
  <2>1. SameInstance(c) /\ SameInstance(d)  BY <1>0, <1>1, OthersStay
  <2>2. QED  BY <2>1 DEF SameInstance, Holds, Exclusive
<1>2. CASE c = b
  <2>1. SameInstance(d) /\ CacheFrom(b)  BY <1>0, <1>2, OthersStay, CacheStep
  <2>2. CASE cache'[b][n] = cache[b][n]  BY <1>2, <2>1, <2>2 DEF SameInstance, Holds, Exclusive
  <2>3. CASE /\ hand[b] # NULL /\ cache'[b][n].ino = hand[b]
             /\ CanLock(b, hand[b], {"sh", "ex"})
    BY <1>2, <2>1, <2>3 DEF SameInstance, Holds, CanLock
  <2>4. QED  BY <1>2, <2>1, <2>2, <2>3 DEF CacheFrom, Holds
<1>3. CASE d = b
  <2>1. SameInstance(c) /\ CacheFrom(b)  BY <1>0, <1>3, OthersStay, CacheStep
  <2>2. CASE cache'[b][m] = cache[b][m]  BY <1>3, <2>1, <2>2 DEF SameInstance, Holds, Exclusive
  <2>3. CASE hand[b] # NULL /\ cache'[b][m].ino = hand[b] /\ CanLock(b, hand[b], {"ex"})
    BY <1>3, <2>1, <2>3 DEF SameInstance, Holds, CanLock
  <2>4. CASE hand[b] # NULL /\ cache'[b][m].ino = hand[b] /\ CanLock(b, hand[b], {"sh", "ex"})
    BY <1>3, <2>1, <2>4 DEF SameInstance, Holds, CanLock
  <2>5. QED  BY <1>3, <2>1, <2>2, <2>3, <2>4 DEF CacheFrom, Holds
<1>4. QED  BY <1>1, <1>2, <1>3

LEMMA LockInvStep ==
    ASSUME LockInv, [Next]_vars
    PROVE  LockInv'
<1>1. CASE Next
  <2>1. PICK b \in Backends : Step(b)  BY <1>1 DEF Next
  <2>2. WellFormed /\ WellFormed'  BY <1>1, WellFormedStep DEF LockInv
  <2>3. ASSUME NEW c \in Backends PROVE HandOK(c)'
    <3>1. CASE c = b  BY <2>1, <2>2, <3>1, HandOKStep DEF LockInv
    <3>2. CASE c # b
      <4>1. SameInstance(c) /\ HandOK(c)  BY <2>1, <2>2, <3>2, OthersStay DEF LockInv, WellFormed
      <4>2. QED  BY <4>1 DEF SameInstance, HandOK, Target
    <3>3. QED  BY <3>1, <3>2
  <2>4. QED  BY <2>1, <2>2, <2>3, OneNameStep, ExclusiveStep DEF LockInv
<1>2. CASE UNCHANGED vars
  <2>1. WellFormed'  BY <1>2, WellFormedStep DEF LockInv
  <2>2. \A b \in Backends : HandOK(b)'
    BY <1>2 DEF vars, disk, memory, LockInv, HandOK, Target
  <2>3. OneName' /\ Exclusive'
    BY <1>2 DEF vars, disk, memory, LockInv, OneName, Refers, Holds, HandName, Target, Exclusive
  <2>4. QED  BY <2>1, <2>2, <2>3 DEF LockInv
<1>3. QED  BY <1>1, <1>2

LEMMA LockInvInit == Init => LockInv
<1> SUFFICES ASSUME Init PROVE LockInv  OBVIOUS
<1>1. \A b \in Backends : hand[b] = NULL  BY DEF Init
<1>2. \A b \in Backends, n \in Names : cache[b][n] = NULL  BY DEF Init
<1>3. OneName
  <2> SUFFICES ASSUME NEW i \in Inodes, NEW n \in Names, NEW m \in Names, Refers(i, n), Refers(i, m)
               PROVE  n = m
    BY DEF OneName
  <2>1. i # NULL  BY FsAssumption
  <2>2. dir[n] = i /\ dir[m] = i  BY <1>1, <1>2, <2>1 DEF Refers, Holds
  <2>3. QED  BY <2>1, <2>2 DEF Init
<1>4. QED  BY <1>1, <1>2, <1>3, WellFormedInit DEF LockInv, HandOK, Exclusive, Holds

\* Whatever the backends do, and however often a file is removed and made
\* again between an open and the flock, what a scan has read under its shared
\* lock stays true: nothing changes that inode as long as the lock is held.
THEOREM FsReadsStable == Spec => ReadsStable
<1>1. ASSUME LockInv, [Next]_vars
      PROVE  [\A b \in Backends, n \in Names :
                 Holds(b, n, {"sh"}) => data'[cache[b][n].ino] = data[cache[b][n].ino]]_vars
  <2> SUFFICES ASSUME Next, NEW b \in Backends, NEW n \in Names, Holds(b, n, {"sh"})
               PROVE  data'[cache[b][n].ino] = data[cache[b][n].ino]
    BY <1>1
  <2> DEFINE i == cache[b][n].ino
  <2>1. PICK a \in Backends : Step(a)  BY DEF Next
  <2>2. WellFormed /\ TypeOK /\ HandOK(a) /\ OneName  BY <1>1 DEF LockInv, WellFormed
  <2>3. i \in Inodes /\ i # NULL /\ Refers(i, n)
    <3>1. cache[b][n] \in Fds  BY <2>2 DEF TypeOK, Holds
    <3>2. QED  BY <3>1, FsAssumption DEF Fds, Holds, Refers
  <2>4. CASE UNCHANGED data  BY <2>4
  <2>5. CASE Creates(a)
    <3>1. PICK j \in FreeInodes : data' = [data EXCEPT ![j] = Empty]  BY <2>5 DEF Creates
    <3>2. i # j  BY DEF FreeInodes, Holds
    <3>3. QED  BY <2>2, <2>3, <3>1, <3>2 DEF TypeOK
  <2>6. CASE /\ hand[a] # NULL /\ call[a].at \in {"old", "new"} /\ CanLock(a, hand[a], {"sh", "ex"})
             /\ \A k \in Inodes : k # hand[a] => data'[k] = data[k]
    <3>1. CASE a # b  BY <2>3, <2>6, <3>1 DEF CanLock, Holds
    <3>2. CASE a = b
      <4>1. i # hand[a]
        <5> SUFFICES ASSUME i = hand[a] PROVE FALSE  OBVIOUS
        <5>1. Target(a) \in Names /\ HandName(a) = Target(a)  BY <2>2, <2>6, CallFacts DEF HandName
        <5>2. Refers(i, Target(a))  BY <5>1 DEF Refers
        <5>3. n = Target(a)  BY <2>2, <2>3, <5>1, <5>2 DEF OneName
        <5>4. QED  BY <2>2, <2>6, <3>2, <5>3 DEF HandOK, Holds
      <4>2. QED  BY <2>3, <2>6, <4>1
    <3>3. QED  BY <3>1, <3>2
  <2>7. QED  BY <2>1, <2>2, <2>4, <2>5, <2>6, DirStep DEF DirFrom
<1>2. QED  BY <1>1, LockInvInit, LockInvStep, PTL DEF Spec, ReadsStable

\* Two backends never wait for each other over one name: while a backend waits
\* for an exclusive lock it has closed its own shared descriptor of the name,
\* and a descriptor that it uses again has the inode it waits for.
THEOREM FsNoDeadlock == Spec => []NoDeadlock
<1>1. LockInv => NoDeadlock
  <2> SUFFICES ASSUME LockInv, NEW n \in Names, NEW b \in Backends, NEW c \in Backends, b # c,
                      WaitsAt(b, c, n), WaitsAt(c, b, n)
               PROVE  FALSE
    BY DEF NoDeadlock
  <2>1. HandOK(b) /\ HandOK(c) /\ Exclusive /\ WellFormed  BY DEF LockInv
  <2>2. ASSUME NEW d \in Backends, hand[d] # NULL, Holds(d, n, {"sh", "ex"}),
               n = IF call[d].at = "read" THEN call[d].op.old ELSE Target(d)
        PROVE  cache[d][n] = [ino |-> hand[d], kind |-> "ex"] /\ call[d].at # "read"
    <3>1. HandOK(d) /\ call[d] \in Calls /\ call[d].at # "none"
      <4>1. PhaseOK(d)  BY <2>1 DEF WellFormed
      <4>2. QED  BY <2>1, <2>2, <4>1, CallFacts, CallTypes DEF LockInv, PhaseOK
    <3>2. QED  BY <2>2, <3>1 DEF HandOK, Holds, Calls
  <2>3. Holds(b, n, {"sh", "ex"}) /\ Holds(c, n, {"sh", "ex"})  BY DEF WaitsAt, Holds
  <2>4. cache[b][n] = [ino |-> hand[b], kind |-> "ex"] /\ cache[c][n] = [ino |-> hand[c], kind |-> "ex"]
    BY <2>2, <2>3 DEF WaitsAt
  <2>5. cache[c][n].ino = hand[b] /\ cache[b][n].ino = hand[b]  BY <2>4 DEF WaitsAt
  <2>6. Holds(b, n, {"ex"})  BY <2>3, <2>4 DEF Holds
  <2>7. QED  BY <2>1, <2>3, <2>5, <2>6 DEF Exclusive
<1>2. QED  BY <1>1, LockInvInit, LockInvStep, PTL DEF Spec

-----------------------------------------------------------------------------
(* What pre_commit finds in the cache.                                     *)

\* No rollback raises: none ends with its operations still there.
NoRollbackFails ==
    \A b \in Backends : phase[b] = "rollback" /\ phase'[b] = "idle" => ops'[b] = << >>

Removes(op) == op.kind = "delete" \/ Moves(op)

\* A transaction has the files of its operations locked.
FilesHeld(b) ==
    phase[b] = "xact" =>
        /\ \A k \in 1 .. Len(ops[b]), n \in Names : Touches(ops[b][k], n) => Holds(b, n, {"ex"})
        /\ call[b].kind = "update" /\ call[b].at = "new" => Holds(b, call[b].op.old, {"ex"})

\* Between two operations on the same old file, the first of which removes it,
\* there is one that makes it.
MadeBetween(b) ==
    \A k \in 1 .. Len(ops[b]) : \A i \in 1 .. k - 1 :
        Removes(ops[b][i]) /\ ops[b][k].old = ops[b][i].old =>
            \E j \in i + 1 .. k - 1 : ops[b][j].new = ops[b][i].old

\* What was removed and not made again is hidden, and no scan, update or
\* delete is at it.
RemovedHidden(b) ==
    phase[b] = "xact" =>
        /\ \A i \in 1 .. Len(ops[b]) : Removes(ops[b][i]) =>
              \/ ops[b][i].old \in invisible[b]
              \/ \E j \in i + 1 .. Len(ops[b]) : ops[b][j].new = ops[b][i].old
        /\ seen[b] \intersect invisible[b] = {}
        /\ call[b].kind \in {"read", "delete", "update"} =>
              call[b].op.old \notin seen[b] \union invisible[b]

\* What pre_commit will remove is in the cache, or will be by then.
StillCached(b) ==
    phase[b] = "pre_commit" =>
        \A k \in next[b] .. Len(ops[b]) : Removes(ops[b][k]) =>
            \/ cache[b][ops[b][k].old] # NULL
            \/ \E j \in next[b] .. k - 1 : ops[b][j].new = ops[b][k].old

NothingLeft(b) == phase[b] = "idle" => ops[b] = << >>

CachedOK(b) ==
    FilesHeld(b) /\ MadeBetween(b) /\ RemovedHidden(b) /\ StillCached(b) /\ NothingLeft(b)

PopInv == LockInv /\ \A b \in Backends : CachedOK(b)

LEMMA LockedFd ==
    ASSUME WellFormed, NEW b \in Backends, hand[b] # NULL
    PROVE  Locked(b) \in Fds /\ Locked(b) # NULL /\ Locked(b).kind = "ex" /\ Locked(b).ino = hand[b]
<1>1. hand[b] \in Inodes  BY DEF WellFormed, TypeOK
<1>2. QED  BY <1>1, NullAssumption DEF Locked, Fds

\* A transaction keeps its exclusive locks.
LEMMA ExKept ==
    ASSUME WellFormed, NEW b \in Backends, HandOK(b), Step(b), phase[b] = "xact"
    PROVE  \A n \in Names : Holds(b, n, {"ex"}) => Holds(b, n, {"ex"})'
<1>0. TypeOK /\ PhaseOK(b)  BY DEF WellFormed
<1> USE DEF Holds, disk, memory, TypeOK
<1>1. CASE Begin(b)  BY <1>1 DEF Begin
<1>2. CASE EndScan(b)  BY <1>0, <1>2 DEF EndScan
<1>3. CASE EndScanRaises(b)  BY <1>0, <1>3 DEF EndScanRaises, ClearCacheRaises
<1>4. CASE \E n \in Names : ScanRow(b, n)  BY <1>4 DEF ScanRow
<1>5. CASE OpenCached(b)  BY <1>5 DEF OpenCached
<1>6. CASE OpenShared(b)  BY <1>6 DEF OpenShared
<1>7. CASE LockShared(b)  BY <1>0, <1>7 DEF LockShared, HandOK, SetCache
<1>8. CASE OpenSharedRaises(b)  BY <1>8 DEF OpenSharedRaises
<1>9. CASE ReuseExclusive(b)  BY <1>9 DEF ReuseExclusive
<1>10. CASE OpenExclusive(b)  BY <1>0, CloseSharedStep, <1>10 DEF OpenExclusive
<1>11. CASE OpenExclusiveRaises(b)  BY <1>0, CloseSharedStep, <1>11 DEF OpenExclusiveRaises
<1>12. CASE \E n \in Names : Delete(b, n)  BY <1>12 DEF Delete
<1>13. CASE \E n \in Names, v \in Contents : Insert(b, n, v)  BY <1>13 DEF Insert
<1>14. CASE \E n, m \in Names, v \in Contents : Update(b, n, m, v)  BY <1>14 DEF Update
<1>15. CASE InsertReturns(b)  BY <1>0, LockedFd, <1>15 DEF InsertReturns, Locks, SetCache
<1>16. CASE DeleteReturns(b)  BY <1>0, LockedFd, <1>16 DEF DeleteReturns, Locks, SetCache
<1>17. CASE UpdateLocksOld(b)  BY <1>0, LockedFd, <1>17 DEF UpdateLocksOld, Locks, SetCache
<1>18. CASE UpdateReturns(b)  BY <1>0, LockedFd, <1>18 DEF UpdateReturns, Locks, SetCache
<1>19. CASE Commit(b)  BY <1>19 DEF Commit
<1>20. CASE Abort(b)  BY <1>20 DEF Abort
<1>21. CASE ApplyDelete(b)  BY <1>21 DEF ApplyDelete, Replaying
<1>22. CASE ApplyDeleteRaises(b)  BY <1>22 DEF ApplyDeleteRaises
<1>23. CASE ApplyOpens(b)  BY <1>23 DEF ApplyOpens
<1>24. CASE ApplyWrites(b)  BY <1>0, <1>24 DEF ApplyWrites, PhaseOK
<1>25. CASE ApplyWritesRaises(b)  BY <1>0, <1>25 DEF ApplyWritesRaises, PhaseOK
<1>26. CASE UndoDelete(b)  BY <1>26 DEF UndoDelete
<1>27. CASE UndoInsert(b)  BY <1>27 DEF UndoInsert
<1>28. CASE UndoUpdate(b)  BY <1>28 DEF UndoUpdate
<1>29. CASE UndoRaises(b)  BY <1>29 DEF UndoRaises
<1>30. CASE UndoWrites(b)  BY <1>0, <1>30 DEF UndoWrites, PhaseOK
<1>31. CASE CleanUp(b)  BY <1>31 DEF CleanUp, Replayed
<1>32. CASE CleanUpRaises(b)  BY <1>32 DEF CleanUpRaises, Replayed
<1>33. QED
  BY <1>1, <1>2, <1>3, <1>4, <1>5, <1>6, <1>7, <1>8, <1>9, <1>10, <1>11, <1>12, <1>13, <1>14,
     <1>15, <1>16, <1>17, <1>18, <1>19, <1>20, <1>21, <1>22, <1>23, <1>24, <1>25, <1>26, <1>27,
     <1>28, <1>29, <1>30, <1>31, <1>32
  DEF Step, Scan, ItemOpen, Modify, PreCommit, Rollback, PostXactCleanup

\* The transaction is rolled back, or over.
LEMMA CachedLeaves ==
    ASSUME NEW b \in Backends, CachedOK(b), ops'[b] = ops[b] \/ ops'[b] = << >>,
           phase'[b] = "rollback" \/ (phase'[b] = "idle" /\ ops'[b] = << >>)
    PROVE  CachedOK(b)'
<1>1. FilesHeld(b)' /\ RemovedHidden(b)' /\ StillCached(b)'
  BY DEF FilesHeld, RemovedHidden, StillCached
<1>2. MadeBetween(b)'
  <2>1. CASE ops'[b] = ops[b]  BY <2>1, Zenon DEF CachedOK, MadeBetween
  <2>2. CASE ops'[b] = << >>  BY <2>2 DEF MadeBetween
  <2>3. QED  BY <2>1, <2>2
<1>3. NothingLeft(b)'  BY DEF NothingLeft
<1>4. QED  BY <1>1, <1>2, <1>3 DEF CachedOK

LEMMA AppendCached ==
    ASSUME WellFormed, NEW b \in Backends, CachedOK(b), phase[b] = "xact",
           Append1(b, call[b].op), Locks(b), UNCHANGED <<phase, seen>>,
           call[b].kind \in {"insert", "delete", "update"},
           \A n \in Names : Holds(b, n, {"ex"}) => Holds(b, n, {"ex"})',
           \A n \in Names : Touches(call[b].op, n) => Holds(b, n, {"ex"})',
           Removes(call[b].op) => call[b].op.old \in invisible'[b],
           \A n \in invisible[b] : n \in invisible'[b] \/ n = call[b].op.new,
           invisible'[b] \subseteq invisible[b] \union {call[b].op.old}
    PROVE  CachedOK(b)'
<1> DEFINE op == call[b].op
           L == Len(ops[b])
<1>1. TypeOK /\ OpsOK(b) /\ CallOK(call[b]) /\ OpOK(op) /\ op \in Ops
  BY CallFacts DEF WellFormed, Locks, OpOK
<1>2. ops'[b] = Append(ops[b], op) /\ call'[b].kind = "none" /\ call'[b].at = "none"
  BY <1>1, CallTypes DEF Append1, SetCall, TypeOK
<1>3. ops[b] \in Seq(Ops) /\ L \in Nat  BY <1>1 DEF TypeOK
<1>4. /\ Len(ops'[b]) = L + 1 /\ ops'[b][L + 1] = op
      /\ \A k \in 1 .. L : ops'[b][k] = ops[b][k]
  BY <1>1, <1>2, <1>3
<1>5. FilesHeld(b) /\ MadeBetween(b) /\ RemovedHidden(b)  BY DEF CachedOK
<1> HIDE DEF op, L
<1>6. FilesHeld(b)'
  <2>1. ASSUME NEW k \in 1 .. Len(ops'[b]), NEW n \in Names, Touches(ops'[b][k], n)
        PROVE  Holds(b, n, {"ex"})'
    <3>1. CASE k = L + 1  BY <1>4, <2>1, <3>1 DEF op
    <3>2. CASE k # L + 1
      <4>1. k \in 1 .. L  BY <1>3, <1>4, <3>2
      <4>2. QED  BY <1>4, <1>5, <2>1, <4>1 DEF FilesHeld, L
    <3>3. QED  BY <3>1, <3>2
  <2>2. QED  BY <1>2, <2>1 DEF FilesHeld
<1>7. MadeBetween(b)'
  <2> SUFFICES ASSUME NEW k \in 1 .. Len(ops'[b]), NEW i \in 1 .. k - 1, Removes(ops'[b][i]),
                      ops'[b][k].old = ops'[b][i].old
               PROVE  \E j \in i + 1 .. k - 1 : ops'[b][j].new = ops'[b][i].old
    BY DEF MadeBetween
  <2>1. i \in 1 .. L /\ ops'[b][i] = ops[b][i]  BY <1>3, <1>4
  <2>2. CASE k # L + 1
    <3>1. k \in 1 .. L  BY <1>3, <1>4, <2>2
    <3>2. PICK j \in i + 1 .. k - 1 : ops[b][j].new = ops[b][i].old
      BY <1>4, <1>5, <2>1, <3>1 DEF MadeBetween, L
    <3>3. j \in 1 .. L  BY <1>3, <3>1
    <3>4. QED  BY <1>4, <2>1, <3>2, <3>3
  <2>3. CASE k = L + 1
    <3>1. ops[b][i].old \in Names
      <4>1. OpOK(ops[b][i])  BY <1>1, <2>1 DEF OpsOK, L
      <4>2. QED  BY <2>1, <4>1 DEF OpOK, Removes, Moves
    <3>2. op.old = ops[b][i].old /\ op.old # NULL  BY <1>4, <2>1, <2>3, <3>1, FsAssumption
    <3>3. call[b].kind \in {"delete", "update"}  BY <1>1, <3>2 DEF CallOK, OpOK, op
    <3>4. op.old \notin invisible[b]  BY <1>5, <3>3 DEF RemovedHidden, op
    <3>5. PICK j \in i + 1 .. L : ops[b][j].new = ops[b][i].old
      BY <1>5, <2>1, <3>2, <3>4 DEF RemovedHidden, L
    <3>6. j \in 1 .. L /\ j \in i + 1 .. k - 1  BY <1>3, <2>3, <3>5
    <3>7. QED  BY <1>4, <2>1, <3>5, <3>6
  <2>4. QED  BY <2>2, <2>3
<1>8. RemovedHidden(b)'
  <2>1. ASSUME NEW i \in 1 .. Len(ops'[b]), Removes(ops'[b][i])
        PROVE  \/ ops'[b][i].old \in invisible'[b]
               \/ \E j \in i + 1 .. Len(ops'[b]) : ops'[b][j].new = ops'[b][i].old
    <3>1. CASE i = L + 1  BY <1>4, <2>1, <3>1 DEF op
    <3>2. CASE i # L + 1
      <4>1. i \in 1 .. L /\ ops'[b][i] = ops[b][i]  BY <1>3, <1>4, <3>2
      <4>2. CASE ops[b][i].old \in invisible[b]
        <5>1. L + 1 \in i + 1 .. Len(ops'[b])  BY <1>3, <1>4, <4>1
        <5>2. QED  BY <1>4, <4>1, <4>2, <5>1 DEF op
      <4>3. CASE \E j \in i + 1 .. L : ops[b][j].new = ops[b][i].old
        <5>1. PICK j \in i + 1 .. L : ops[b][j].new = ops[b][i].old  BY <4>3
        <5>2. j \in 1 .. L /\ j \in i + 1 .. Len(ops'[b])  BY <1>3, <1>4, <4>1
        <5>3. QED  BY <1>4, <4>1, <5>1, <5>2
      <4>4. QED  BY <1>5, <2>1, <4>1, <4>2, <4>3 DEF RemovedHidden, L
    <3>3. QED  BY <3>1, <3>2
  <2>2. op.old \notin seen[b]
    <3>1. CASE call[b].kind = "insert"  BY <1>1, <3>1, FsAssumption DEF CallOK, OpOK, TypeOK, op
    <3>2. CASE call[b].kind # "insert"  BY <1>5, <3>2 DEF RemovedHidden, op
    <3>3. QED  BY <3>1, <3>2
  <2>3. seen'[b] \intersect invisible'[b] = {}  BY <1>5, <2>2 DEF RemovedHidden, op
  <2>4. QED  BY <1>2, <2>1, <2>3 DEF RemovedHidden
<1>9. QED  BY <1>6, <1>7, <1>8 DEF CachedOK, StillCached, NothingLeft

\* pre_commit is done with an operation.
LEMMA NextCached ==
    ASSUME WellFormed, NEW b \in Backends, CachedOK(b), phase[b] = "pre_commit",
           next'[b] = next[b] + 1, next[b] \in 1 .. Len(ops[b]), UNCHANGED <<phase, ops>>,
           \A n \in Names : cache[b][n] # NULL /\ ~(Removes(Current(b)) /\ n = Current(b).old)
                               => cache'[b][n] # NULL,
           Current(b).new \in Names => cache'[b][Current(b).new] # NULL
    PROVE  CachedOK(b)'
<1>1. MadeBetween(b) /\ StillCached(b)  BY DEF CachedOK
<1>2. next[b] \in Nat /\ Len(ops[b]) \in Nat  BY DEF WellFormed, TypeOK
<1>3. ASSUME NEW k \in next'[b] .. Len(ops[b]), Removes(ops[b][k])
      PROVE  \/ cache'[b][ops[b][k].old] # NULL
             \/ \E j \in next'[b] .. k - 1 : ops[b][j].new = ops[b][k].old
  <2>1. /\ k \in next[b] .. Len(ops[b]) /\ k \in 1 .. Len(ops[b]) /\ next[b] \in 1 .. k - 1
        /\ next'[b] = next[b] + 1
    BY <1>2
  <2>2. ops[b][k].old \in Names
    <3>1. OpOK(ops[b][k])  BY <2>1 DEF WellFormed, OpsOK
    <3>2. QED  BY <1>3, <3>1 DEF OpOK, Removes, Moves
  <2>3. CASE cache[b][ops[b][k].old] # NULL
    <3>1. CASE Removes(Current(b)) /\ ops[b][k].old = Current(b).old
      <4>1. \E j \in next[b] + 1 .. k - 1 : ops[b][j].new = ops[b][next[b]].old
        BY <1>1, <2>1, <3>1 DEF MadeBetween, Current
      <4>2. QED  BY <2>1, <3>1, <4>1 DEF Current
    <3>2. QED  BY <2>2, <2>3, <3>1
  <2>4. CASE \E j \in next[b] .. k - 1 : ops[b][j].new = ops[b][k].old
    <3>1. PICK j \in next[b] .. k - 1 : ops[b][j].new = ops[b][k].old  BY <2>4
    <3>2. CASE j = next[b]  BY <2>2, <3>1, <3>2 DEF Current
    <3>3. CASE j # next[b]
      <4>1. j \in next'[b] .. k - 1  BY <1>2, <2>1, <3>3
      <4>2. QED  BY <3>1, <4>1
    <3>4. QED  BY <3>2, <3>3
  <2>5. QED  BY <1>1, <1>3, <2>1, <2>3, <2>4 DEF StillCached
<1>4. StillCached(b)'  BY <1>3 DEF StillCached
<1>5. QED  BY <1>1, <1>4 DEF CachedOK, FilesHeld, MadeBetween, RemovedHidden, NothingLeft

LEMMA CachedStep ==
    ASSUME WellFormed, NEW b \in Backends, HandOK(b), CachedOK(b), Step(b), NoRollbackFails
    PROVE  CachedOK(b)'
<1>0. TypeOK /\ CallOK(call[b]) /\ PhaseOK(b)  BY DEF WellFormed
<1>1. FilesHeld(b) /\ MadeBetween(b) /\ RemovedHidden(b) /\ StillCached(b) /\ NothingLeft(b)
  BY DEF CachedOK
<1> USE DEF disk, memory
<1>2. ASSUME Raise(b), UNCHANGED ops PROVE CachedOK(b)'
  <2>1. phase[b] \in {"idle", "xact", "pre_commit", "rollback"}  BY <1>0 DEF TypeOK
  <2>2. phase'[b] = IF phase[b] = "rollback" THEN "idle" ELSE "rollback"
    BY <1>0, <1>2 DEF Raise, TypeOK
  <2>3. QED  BY <1>2, <2>2, CachedLeaves DEF NoRollbackFails
<1>3. ASSUME UNCHANGED <<phase, ops, next>>, phase[b] = "rollback" PROVE CachedOK(b)'
  BY <1>3, CachedLeaves
<1>4. ASSUME UNCHANGED <<phase, call, ops, next, invisible, seen>>,
             \A n \in Names : Holds(b, n, {"ex"}) => Holds(b, n, {"ex"})',
             \A n \in Names : cache[b][n] # NULL => cache'[b][n] # NULL
      PROVE  CachedOK(b)'
  <2>1. StillCached(b)'
    <3>1. \A k \in 1 .. Len(ops[b]) : Removes(ops[b][k]) => ops[b][k].old \in Names
      BY <1>0 DEF WellFormed, OpsOK, OpOK, Removes, Moves
    <3>2. phase[b] = "pre_commit" => next[b] \in Nat /\ next[b] >= 1  BY <1>0 DEF PhaseOK, TypeOK
    <3>3. QED  BY SMTT(60), <1>1, <1>4, <3>1, <3>2 DEF StillCached
  <2>2. FilesHeld(b)'
    <3>1. call[b].kind = "update" /\ call[b].at = "new" => call[b].op.old \in Names
      BY <1>0 DEF CallOK
    <3>2. QED  BY <1>1, <1>4, <3>1 DEF FilesHeld
  <2>3. QED  BY <1>1, <1>4, <2>1, <2>2 DEF CachedOK, MadeBetween, RemovedHidden, NothingLeft
\* A statement goes on, or begins.
<1>5. ASSUME phase[b] = "xact", UNCHANGED <<phase, ops, invisible>>,
             seen'[b] \intersect invisible[b] = {},
             call'[b].kind \in {"read", "delete", "update"} =>
                call'[b].op.old \notin seen'[b] \union invisible[b],
             call'[b].kind = "update" => call'[b].at # "new"
      PROVE  CachedOK(b)'
  <2>1. FilesHeld(b)'  BY <1>1, <1>5, ExKept DEF FilesHeld
  <2>2. QED  BY <1>1, <1>5, <2>1 DEF CachedOK, MadeBetween, RemovedHidden, StillCached, NothingLeft
<1>6. NoCall.kind = "none"  BY CallTypes
<1>7. CASE Begin(b)
  <2>1. /\ phase'[b] = "xact" /\ ops'[b] = << >> /\ seen'[b] = {} /\ call'[b].kind = "none"
    BY <1>0, <1>1, <1>7 DEF Begin, TypeOK, PhaseOK, NothingLeft
  <2>2. QED  BY <2>1 DEF CachedOK, FilesHeld, MadeBetween, RemovedHidden, StillCached, NothingLeft
<1>8. CASE EndScan(b)
  <2>1. phase[b] = "xact" /\ call'[b].kind = "none" /\ seen'[b] = {}
    BY <1>0, <1>6, <1>8 DEF EndScan, ScanEnds, Ready, TypeOK
  <2>2. QED  BY <1>5, <1>8, <2>1 DEF EndScan
<1>9. CASE EndScanRaises(b)  BY <1>2, <1>9 DEF EndScanRaises
<1>10. CASE \E n \in Names : ScanRow(b, n)
  <2>1. PICK n \in Names : ScanRow(b, n)  BY <1>10
  <2> DEFINE op == Op("update", n, NULL, NULL, NULL)
  <2>2. op \in Ops /\ op.old = n  BY DEF Op, Ops
  <2> HIDE DEF op
  <2>3. /\ phase[b] = "xact" /\ UNCHANGED <<phase, ops, invisible>> /\ n \notin seen[b] \union invisible[b]
        /\ \/ seen'[b] = seen[b] \union {n} /\ call'[b].kind = "none"
           \/ seen'[b] = seen[b] /\ call'[b] = Call("read", "read", op)
    BY <1>0, <1>6, <2>1 DEF ScanRow, Ready, SetCall, TypeOK, op
  <2>4. QED  BY <1>1, <1>5, <2>2, <2>3, CallTypes DEF RemovedHidden, CallKinds
<1>11. ASSUME NEW v, ReadReturns(b, v), call[b].at = "read", UNCHANGED <<phase, ops, invisible>>
       PROVE  CachedOK(b)'
  <2>0. call[b].kind \in {"read", "update"} /\ call[b].op \in Ops  BY <1>11, CallFacts
  <2>1. phase[b] = "xact"
    <3>1. phase[b] \in {"idle", "xact", "pre_commit", "rollback"}  BY <1>0 DEF TypeOK
    <3>2. QED  BY <1>0, <2>0, <3>1 DEF PhaseOK
  <2>2. call[b].op.old \notin seen[b] \union invisible[b]  BY <1>1, <2>0, <2>1 DEF RemovedHidden
  <2>3. CASE call[b].kind = "read"
    <3>1. call'[b].kind = "none" /\ seen'[b] = seen[b] \union {call[b].op.old}
      BY <1>0, <1>6, <1>11, <2>3 DEF ReadReturns, SetCall, TypeOK
    <3>2. QED  BY <1>1, <1>5, <1>11, <2>1, <2>2, <3>1 DEF RemovedHidden
  <2>4. CASE call[b].kind = "update"
    <3> DEFINE op == [call[b].op EXCEPT !.oldContent = v]
    <3>1. op.old = call[b].op.old  BY <2>0 DEF Ops
    <3> HIDE DEF op
    <3>2. call'[b] = Call("update", "old", op) /\ seen' = seen
      BY <1>0, <1>11, <2>4 DEF ReadReturns, SetCall, TypeOK, op
    <3>3. call'[b].at = "old" /\ call'[b].op.old = call[b].op.old  BY <3>1, <3>2 DEF Call
    <3>4. QED  BY <1>1, <1>5, <1>11, <2>1, <2>2, <3>2, <3>3 DEF RemovedHidden
  <2>5. QED  BY <2>0, <2>3, <2>4
<1>12. CASE OpenCached(b)  BY <1>11, <1>12 DEF OpenCached
<1>13. CASE OpenShared(b)  BY <1>4, <1>13 DEF OpenShared, Holds
<1>14. CASE LockShared(b)  BY <1>11, <1>14 DEF LockShared
<1>15. CASE OpenSharedRaises(b)  BY <1>2, <1>15 DEF OpenSharedRaises
<1>16. CASE ReuseExclusive(b)  BY <1>4, <1>16 DEF ReuseExclusive, Holds
<1>17. CASE OpenExclusive(b)  BY <1>4, <1>17, CloseSharedStep DEF OpenExclusive, Holds
<1>18. CASE OpenExclusiveRaises(b)  BY <1>2, <1>18 DEF OpenExclusiveRaises
<1>19. CASE \E n \in Names : Delete(b, n)
  <2>1. PICK n \in Names : Delete(b, n)  BY <1>19
  <2> DEFINE op == Op("delete", n, NULL, NULL, NULL)
  <2>2. op \in Ops /\ op.old = n  BY DEF Op, Ops
  <2> HIDE DEF op
  <2>3. /\ phase[b] = "xact" /\ UNCHANGED <<phase, ops, invisible>> /\ n \in seen[b]
        /\ seen'[b] = seen[b] \ {n} /\ call'[b] = Call("delete", "old", op)
    BY <1>0, <2>1 DEF Delete, DML, Ready, SetCall, TypeOK, op
  <2>4. call'[b].kind = "delete" /\ call'[b].op.old = n  BY <2>2, <2>3 DEF Call
  <2>5. QED  BY <1>1, <1>5, <2>3, <2>4 DEF RemovedHidden
<1>20. CASE \E n \in Names, v \in Contents : Insert(b, n, v)
  <2>1. PICK n \in Names, v \in Contents : Insert(b, n, v)  BY <1>20
  <2>2. /\ phase[b] = "xact" /\ UNCHANGED <<phase, ops, invisible, seen>> /\ call'[b].kind = "insert"
    BY <1>0, <2>1 DEF Insert, DML, Ready, SetCall, TypeOK, Call
  <2>3. QED  BY <1>1, <1>5, <2>2 DEF RemovedHidden
<1>21. CASE \E n, m \in Names, v \in Contents : Update(b, n, m, v)
  <2>1. PICK n, m \in Names, v \in Contents : Update(b, n, m, v)  BY <1>21
  <2>2. /\ phase[b] = "xact" /\ UNCHANGED <<phase, ops, invisible>> /\ n \in seen[b]
        /\ seen'[b] = seen[b] \ {n}
    BY <1>0, <2>1 DEF Update, DML, Ready, TypeOK
  <2>3. \/ call'[b] = Call("update", "read", Op("update", n, NULL, m, v))
        \/ call'[b] = Call("update", "old", Op("update", n, updated[b][n], m, v))
    BY <1>0, <2>1 DEF Update, SetCall, TypeOK
  <2>4. call'[b].at # "new" /\ call'[b].op.old = n  BY <2>3 DEF Call, Op
  <2>5. QED  BY <1>1, <1>5, <2>2, <2>4 DEF RemovedHidden
<1>22. ASSUME call[b].kind \in {"insert", "delete", "update"} PROVE phase[b] = "xact"
  <2>1. phase[b] \in {"idle", "xact", "pre_commit", "rollback"}  BY <1>0 DEF TypeOK
  <2>2. QED  BY <1>0, <1>22, <2>1 DEF PhaseOK
<1>23. ASSUME NEW n \in Names, SetCache(b, n, Locked(b)), Locks(b) PROVE Holds(b, n, {"ex"})'
  <2>1. Locked(b) # NULL /\ Locked(b).kind = "ex"  BY <1>23, LockedFd DEF Locks
  <2>2. QED  BY <1>0, <1>23, <2>1 DEF SetCache, Holds, TypeOK
<1>24. CASE InsertReturns(b)
  <2>1. phase[b] = "xact" /\ OpOK(call[b].op) /\ call[b].op.kind = "insert"
    BY <1>0, <1>22, <1>24 DEF InsertReturns, CallOK
  <2>2. call[b].op.old = NULL /\ call[b].op.new \in Names /\ ~Removes(call[b].op)
    BY <2>1 DEF OpOK, Removes, Moves
  <2>3. (\A n \in Names : n = call[b].op.new => Holds(b, n, {"ex"})')
    BY <1>23, <1>24, <2>2 DEF InsertReturns, Holds
  <2>4. invisible'[b] = invisible[b] \ {call[b].op.new}  BY <1>0, <1>24 DEF InsertReturns, TypeOK
  <2>5. \A n \in Names : Touches(call[b].op, n) => Holds(b, n, {"ex"})'
    BY <2>2, <2>3, FsAssumption DEF Touches, Holds
  <2>6. QED  BY <1>24, <2>1, <2>2, <2>4, <2>5, ExKept, AppendCached DEF InsertReturns
<1>25. CASE DeleteReturns(b)
  <2>1. phase[b] = "xact" /\ OpOK(call[b].op) /\ call[b].op.kind = "delete"
    BY <1>0, <1>22, <1>25 DEF DeleteReturns, CallOK
  <2>2. call[b].op.new = NULL /\ call[b].op.old \in Names  BY <2>1 DEF OpOK
  <2>3. (\A n \in Names : n = call[b].op.old => Holds(b, n, {"ex"})')
    BY <1>23, <1>25, <2>2 DEF DeleteReturns, Holds
  <2>4. invisible'[b] = invisible[b] \union {call[b].op.old}  BY <1>0, <1>25 DEF DeleteReturns, TypeOK
  <2>5. \A n \in Names : Touches(call[b].op, n) => Holds(b, n, {"ex"})'
    BY <2>2, <2>3, FsAssumption DEF Touches, Holds
  <2>6. QED  BY <1>25, <2>1, <2>4, <2>5, ExKept, AppendCached DEF DeleteReturns
<1>26. CASE UpdateLocksOld(b)
  <2>1. phase[b] = "xact" /\ OpOK(call[b].op) /\ call[b].op.kind = "update" /\ call[b].op.old \in Names
    BY <1>0, <1>22, <1>26 DEF UpdateLocksOld, CallOK
  <2>2. (\A n \in Names : n = call[b].op.old => Holds(b, n, {"ex"})')
    BY <1>23, <1>26, <2>1 DEF UpdateLocksOld, Holds
  <2>3. CASE call[b].op.old = call[b].op.new
    <3>1. \A n \in Names : Touches(call[b].op, n) => Holds(b, n, {"ex"})'
      BY <2>2, <2>3 DEF Touches, Holds
    <3>2. ~Removes(call[b].op)  BY <2>1, <2>3 DEF Removes, Moves
    <3>3. QED  BY <1>26, <2>1, <2>3, <3>1, <3>2, ExKept, AppendCached DEF UpdateLocksOld
  <2>4. CASE call[b].op.old # call[b].op.new
    <3>1. call'[b] = [call[b] EXCEPT !.at = "new"] /\ UNCHANGED <<phase, ops, seen, invisible>>
      BY <1>0, <1>26, <2>4 DEF UpdateLocksOld, SetCall, TypeOK
    <3>2. call'[b].kind = call[b].kind /\ call'[b].op = call[b].op  BY <1>0, <3>1 DEF TypeOK, Calls
    <3>3. FilesHeld(b)'  BY <1>1, <2>1, <2>2, <3>1, <3>2, ExKept DEF FilesHeld, Holds
    <3>4. QED  BY <1>1, <2>1, <3>1, <3>2, <3>3
               DEF CachedOK, MadeBetween, RemovedHidden, StillCached, NothingLeft
  <2>5. QED  BY <2>3, <2>4
<1>27. CASE UpdateReturns(b)
  <2>1. /\ phase[b] = "xact" /\ OpOK(call[b].op) /\ call[b].op.kind = "update"
        /\ call[b].op.old \in Names /\ call[b].op.new \in Names /\ call[b].op.old # call[b].op.new
    BY <1>0, <1>22, <1>27 DEF UpdateReturns, CallOK
  <2>2. (\A n \in Names : n = call[b].op.new => Holds(b, n, {"ex"})')
    BY <1>23, <1>27, <2>1 DEF UpdateReturns, Holds
  <2>3. (\A n \in Names : n = call[b].op.old => Holds(b, n, {"ex"})')
    BY <1>1, <1>27, <2>1, ExKept DEF UpdateReturns, FilesHeld, Holds
  <2>4. invisible'[b] = (invisible[b] \union {call[b].op.old}) \ {call[b].op.new}
    BY <1>0, <1>27 DEF UpdateReturns, TypeOK
  <2>5. \A n \in Names : Touches(call[b].op, n) => Holds(b, n, {"ex"})'
    BY <2>2, <2>3 DEF Touches, Holds
  <2>6. QED  BY <1>27, <2>1, <2>4, <2>5, ExKept, AppendCached DEF UpdateReturns
<1>28. CASE Commit(b)
  <2>1. /\ phase[b] = "xact" /\ phase'[b] = "pre_commit" /\ next'[b] = 1 /\ UNCHANGED <<ops, cache>>
    BY <1>0, <1>28 DEF Commit, Ready, TypeOK
  <2>2. \A k \in 1 .. Len(ops[b]) : Removes(ops[b][k]) => cache[b][ops[b][k].old] # NULL
    <3>1. \A k \in 1 .. Len(ops[b]) : Removes(ops[b][k]) => ops[b][k].old \in Names
      BY <1>0 DEF WellFormed, OpsOK, OpOK, Removes, Moves
    <3>2. QED  BY <1>1, <2>1, <3>1 DEF FilesHeld, Touches, Holds
  <2>3. QED  BY <1>1, <2>1, <2>2 DEF CachedOK, FilesHeld, MadeBetween, RemovedHidden, StillCached, NothingLeft
<1>29. CASE Abort(b)
  <2>1. phase'[b] = "rollback" /\ UNCHANGED ops  BY <1>0, <1>29 DEF Abort, TypeOK
  <2>2. QED  BY <2>1, CachedLeaves
<1>30. ASSUME NEW ph, Replaying(b, ph)
       PROVE  OpOK(Current(b)) /\ next[b] \in 1 .. Len(ops[b])
  BY <1>30 DEF Replaying, Current, WellFormed, OpsOK
<1>31. CASE ApplyDelete(b)
  <2>1. /\ phase[b] = "pre_commit" /\ next'[b] = next[b] + 1 /\ next[b] \in 1 .. Len(ops[b])
        /\ UNCHANGED <<phase, ops>> /\ Removes(Current(b)) /\ Current(b).new = NULL
        /\ Current(b).old \in Names
    BY <1>0, <1>30, <1>31 DEF ApplyDelete, Replaying, TypeOK, Removes, OpOK
  <2>2. \A n \in Names : n # Current(b).old => cache'[b][n] = cache[b][n]
    BY <1>0, <1>31, <2>1 DEF ApplyDelete, SetCache, TypeOK
  <2>3. QED  BY <2>1, <2>2, NextCached, FsAssumption
<1>32. CASE ApplyDeleteRaises(b)  BY <1>2, <1>32 DEF ApplyDeleteRaises
<1>33. CASE ApplyOpens(b)
  <2>1. phase[b] = "pre_commit" /\ UNCHANGED <<phase, ops, next, cache>>
    BY <1>33 DEF ApplyOpens, Replaying
  <2>2. QED  BY <1>1, <2>1 DEF CachedOK, FilesHeld, MadeBetween, RemovedHidden, StillCached, NothingLeft
<1>34. CASE ApplyWrites(b)
  <2>1. /\ phase[b] = "pre_commit" /\ next[b] \in 1 .. Len(ops[b]) /\ call[b].op = Current(b)
        /\ call[b].op.new \in Names /\ (Removes(call[b].op) <=> Moves(call[b].op))
    <3>1. phase[b] \in {"idle", "xact", "pre_commit", "rollback"}  BY <1>0 DEF TypeOK
    <3>2. call[b].kind = "apply"  BY <1>34 DEF ApplyWrites
    <3>3. call[b].op.kind # "delete" /\ OpOK(call[b].op) /\ call[b].op \in Ops
      BY <1>0, <3>2 DEF CallOK, OpOK
    <3>4. QED  BY <1>0, <3>1, <3>2, <3>3, OpFields DEF PhaseOK, OpOK, Removes
  <2>2. next'[b] = next[b] + 1 /\ UNCHANGED <<phase, ops>>  BY <1>0, <1>34 DEF ApplyWrites, TypeOK
  <2>3. Locked(b) # NULL  BY <1>34, LockedFd DEF ApplyWrites, Locks
  <2>4. /\ cache'[b][call[b].op.new] # NULL
        /\ \A n \in Names : cache[b][n] # NULL /\ ~(Moves(call[b].op) /\ n = call[b].op.old)
              => cache'[b][n] # NULL
    <3>1. CASE Moves(call[b].op)
      <4>1. cache' = [cache EXCEPT ![b][call[b].op.new] = Locked(b), ![b][call[b].op.old] = NULL]
        BY <1>34, <3>1 DEF ApplyWrites
      <4>2. call[b].op.old # call[b].op.new  BY <3>1 DEF Moves
      <4>3. QED  BY <1>0, <2>1, <2>3, <3>1, <4>1, <4>2 DEF TypeOK
    <3>2. CASE ~Moves(call[b].op)
      <4>1. cache' = [cache EXCEPT ![b][call[b].op.new] = Locked(b)]
        BY <1>34, <3>2 DEF ApplyWrites, SetCache
      <4>2. QED  BY <1>0, <2>1, <2>3, <4>1 DEF TypeOK
    <3>3. QED  BY <3>1, <3>2
  <2>5. QED  BY <2>1, <2>2, <2>4, NextCached
<1>35. CASE ApplyWritesRaises(b)  BY <1>2, <1>35 DEF ApplyWritesRaises
<1>36. CASE UndoDelete(b)
  <2>1. phase'[b] = "rollback" /\ UNCHANGED ops  BY <1>36 DEF UndoDelete, Replaying
  <2>2. QED  BY <2>1, CachedLeaves
<1>37. CASE UndoInsert(b)
  <2>1. phase'[b] = "rollback" /\ UNCHANGED ops  BY <1>37 DEF UndoInsert, Replaying
  <2>2. QED  BY <2>1, CachedLeaves
<1>38. CASE UndoUpdate(b)
  <2>1. phase'[b] = "rollback" /\ UNCHANGED ops  BY <1>38 DEF UndoUpdate, Replaying
  <2>2. QED  BY <2>1, CachedLeaves
<1>39. CASE UndoRaises(b)  BY <1>2, <1>39 DEF UndoRaises
<1>40. CASE UndoWrites(b)
  <2>1. phase[b] \in {"idle", "xact", "pre_commit", "rollback"}  BY <1>0 DEF TypeOK
  <2>2. phase'[b] = "rollback" /\ UNCHANGED ops  BY <1>0, <1>40, <2>1 DEF UndoWrites, PhaseOK
  <2>3. QED  BY <2>2, CachedLeaves
<1>41. CASE CleanUp(b)
  <2>1. phase'[b] = "idle" /\ ops'[b] = << >>  BY <1>0, <1>41 DEF CleanUp, TypeOK
  <2>2. QED  BY <2>1, CachedLeaves
<1>42. CASE CleanUpRaises(b)
  <2>1. phase'[b] \in {"idle", "rollback"} /\ ops'[b] = << >>
    BY <1>0, <1>42 DEF CleanUpRaises, TypeOK
  <2>2. QED  BY <2>1, CachedLeaves
<1>43. QED
  BY <1>7, <1>8, <1>9, <1>10, <1>12, <1>13, <1>14, <1>15, <1>16, <1>17, <1>18, <1>19, <1>20,
     <1>21, <1>24, <1>25, <1>26, <1>27, <1>28, <1>29, <1>31, <1>32, <1>33, <1>34, <1>35, <1>36,
     <1>37, <1>38, <1>39, <1>40, <1>41, <1>42
  DEF Step, Scan, ItemOpen, Modify, PreCommit, Rollback, PostXactCleanup

\* As long as no rollback raises, pre_commit finds every descriptor that it
\* closes: a file that two operations remove was made again between them, and
\* locked then.
THEOREM FsPopsCached == Spec /\ [][NoRollbackFails]_vars => []PopsCached
<1>1. Init => PopInv
  BY LockInvInit DEF Init, PopInv, CachedOK, FilesHeld, MadeBetween, RemovedHidden, StillCached,
                     NothingLeft
<1>2. ASSUME PopInv, [Next]_vars, [NoRollbackFails]_vars PROVE PopInv'
  <2>1. LockInv'  BY <1>2, LockInvStep DEF PopInv
  <2>2. CASE Next /\ NoRollbackFails
    <3>1. PICK b \in Backends : Step(b)  BY <2>2 DEF Next
    <3>2. WellFormed /\ TypeOK /\ HandOK(b)  BY <1>2 DEF PopInv, LockInv, WellFormed
    <3>3. ASSUME NEW c \in Backends PROVE CachedOK(c)'
      <4>1. CASE c = b  BY <1>2, <2>2, <3>1, <3>2, <4>1, CachedStep DEF PopInv
      <4>2. CASE c # b
        <5>1. SameInstance(c)  BY <3>1, <3>2, <4>2, OthersStay
        <5>2. CachedOK(c)  BY <1>2 DEF PopInv
        <5>3. QED  BY <5>1, <5>2 DEF SameInstance, CachedOK, FilesHeld, MadeBetween, RemovedHidden,
                                     StillCached, NothingLeft, Holds
      <4>3. QED  BY <4>1, <4>2
    <3>4. QED  BY <2>1, <3>3 DEF PopInv
  <2>3. CASE UNCHANGED vars
    BY <1>2, <2>1, <2>3 DEF vars, disk, memory, PopInv, CachedOK, FilesHeld, MadeBetween,
                            RemovedHidden, StillCached, NothingLeft, Holds
  <2>4. QED  BY <1>2, <2>2, <2>3
<1>3. PopInv => PopsCached
  <2> SUFFICES ASSUME PopInv, NEW b \in Backends
               PROVE  /\ call[b].kind = "apply" /\ Moves(call[b].op) => cache[b][call[b].op.old] # NULL
                      /\ Replaying(b, "pre_commit") /\ Current(b).kind = "delete"
                            => cache[b][Current(b).old] # NULL
    BY DEF PopsCached
  <2>1. TypeOK /\ PhaseOK(b) /\ StillCached(b)  BY DEF PopInv, LockInv, WellFormed, CachedOK
  <2>2. ASSUME phase[b] = "pre_commit", next[b] \in 1 .. Len(ops[b]), Removes(Current(b))
        PROVE  cache[b][Current(b).old] # NULL
    <3>1. next[b] \in next[b] .. Len(ops[b]) /\ \A j \in next[b] .. next[b] - 1 : FALSE
      BY <2>1, <2>2 DEF TypeOK
    <3>2. QED  BY <2>1, <2>2, <3>1 DEF StillCached, Current
  <2>3. call[b].kind = "apply" => phase[b] = "pre_commit"
    <3>1. phase[b] \in {"idle", "xact", "pre_commit", "rollback"}  BY <2>1 DEF TypeOK
    <3>2. QED  BY <2>1, <3>1 DEF PhaseOK
  <2>4. QED  BY <2>1, <2>2, <2>3 DEF PhaseOK, Removes, Replaying
<1>4. QED  BY <1>1, <1>2, <1>3, PTL DEF Spec
=============================================================================
