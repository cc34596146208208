------------------------- MODULE InstanceCacheProofs -------------------------
(***************************************************************************)
(* The safety properties of InstanceCache hold for every set of tables,    *)
(* every nesting depth and every choice of what raises and what happens.   *)
(* IInv is inductive: one lemma per group of actions, and one step per     *)
(* action in it.  The action property and the refinement of HookProtocol   *)
(* come last.                                                              *)
(***************************************************************************)
EXTENDS InstanceCache, TLAPS

-----------------------------------------------------------------------------
(* The transaction manager: every operator of PgXact keeps the transaction *)
(* state well formed, and an error never changes the nesting level by      *)
(* itself: only the end of a callback does.                                *)

Active(x) == x.phase \in CallbackPhases \union {"run", "begin"}

\* The bounds that the fields share.
LEMMA Bounds == /\ 0 \in 0 .. MaxLevel /\ 1 \in 0 .. MaxLevel /\ 0 \in 0 .. ErrStackSize
                /\ MaxLevel \in Nat /\ ErrStackSize \in Nat
  BY PgXactAssumption

\* The states without a transaction are well formed (a server process starts
\* in Idle and ends in a dead state).
LEMMA RestOK ==
    /\ Idle \in Xact /\ Coherent(Idle)
    /\ Started \in Xact /\ Coherent(Started)
    /\ \A p \in DeadPhases : Dead(p) \in Xact /\ Coherent(Dead(p))
  <1>1. Idle \in Xact /\ Started \in Xact
    BY Bounds DEF Idle, Started, Xact, Phases, RestPhases, Afters
  <1>2. Coherent(Idle) /\ Coherent(Started)
    BY DEF Idle, Started, Coherent, SubPhases, TopPhases, DeadPhases
  <1>3. ASSUME NEW p \in DeadPhases PROVE Dead(p) \in Xact
    BY PgXactAssumption DEF Dead, Idle, Xact, Phases, DeadPhases, Afters
  <1>4. ASSUME NEW p \in DeadPhases PROVE Coherent(Dead(p))
    BY DEF Dead, Idle, Coherent, SubPhases, TopPhases, DeadPhases
  <1> QED BY <1>1, <1>2, <1>3, <1>4

\* Aborting everything, or from a level outwards, keeps the level where it is.
LEMMA AbortFromOK ==
    ASSUME NEW x \in Xact, Coherent(x), Active(x) \/ x.phase = "failed",
           NEW u \in 0 .. MaxLevel, u <= x.level,
           u > 1 /\ u < x.level => x.internals = 0
    PROVE  /\ AbortFrom(x, u) \in Xact
           /\ Coherent(AbortFrom(x, u))
           /\ AbortFrom(x, u).level = x.level
           /\ AbortFrom(x, u).phase \in {"abort", "subabort"}
  <1>1. x.level \in 1 .. MaxLevel /\ x.internals \in 0 .. MaxLevel
          /\ x.internals < x.level
    BY PgXactAssumption DEF Xact, Coherent, Active, CallbackPhases, SubPhases, TopPhases
  <1>2. CASE u > 1
    <2>1. AbortFrom(x, u) = [x EXCEPT !.phase = "subabort", !.unwind = u, !.after = "failed"]
      BY <1>2 DEF AbortFrom, Enter
    <2>2. AbortFrom(x, u) \in Xact
      BY <2>1 DEF Xact, Phases, CallbackPhases, SubPhases, Afters
    <2>3. Coherent(AbortFrom(x, u))
      BY <1>1, <1>2, <2>1, PgXactAssumption
      DEF Xact, Coherent, SubPhases, TopPhases, DeadPhases
    <2> QED BY <2>1, <2>2, <2>3 DEF Xact
  <1>3. CASE u <= 1 /\ x.level = 1
    <2>1. AbortFrom(x, u) = [x EXCEPT !.phase = "abort", !.unwind = 0,
                                      !.after = "none", !.internals = 0]
      BY <1>3 DEF AbortFrom, AbortAll, Enter, Xact
    <2>2. AbortFrom(x, u) \in Xact
      BY <2>1, Bounds DEF Xact, Phases, CallbackPhases, TopPhases, Afters
    <2>3. Coherent(AbortFrom(x, u))
      BY <1>1, <1>3, <2>1 DEF Xact, Coherent, SubPhases, TopPhases, DeadPhases
    <2> QED BY <2>1, <2>2, <2>3 DEF Xact
  <1>4. CASE u <= 1 /\ x.level # 1
    <2>1. AbortFrom(x, u) = [x EXCEPT !.phase = "subabort", !.unwind = 2,
                                      !.after = "abort", !.internals = 0]
      BY <1>4 DEF AbortFrom, AbortAll, Enter, Xact
    <2>2. AbortFrom(x, u) \in Xact
      <3>1. 2 \in 0 .. MaxLevel
        BY <1>1, <1>4, Bounds
      <3> QED BY <2>1, <3>1, Bounds DEF Xact, Phases, CallbackPhases, SubPhases, Afters
    <2>3. Coherent(AbortFrom(x, u))
      BY <1>1, <1>4, <2>1, PgXactAssumption
      DEF Xact, Coherent, SubPhases, TopPhases, DeadPhases
    <2> QED BY <2>1, <2>2, <2>3 DEF Xact
  <1> QED BY <1>2, <1>3, <1>4

\* An error leads to the abort of the current level or of the whole
\* transaction, at the same nesting level, or it takes the server down.
LEMMA ThrowOK ==
    ASSUME NEW x \in Xact, Coherent(x), Active(x), NEW c \in {1, 2}
    PROVE  /\ Throw(x, c) \in Xact
           /\ Coherent(Throw(x, c))
           /\ \/ Throw(x, c).phase = "panic"
              \/ /\ Throw(x, c).phase \in {"abort", "subabort"}
                 /\ Throw(x, c).level = x.level
  <1>1. CASE Caught(x)
    <2>1. Throw(x, c) = [x EXCEPT !.phase = "subabort", !.unwind = x.level,
                                  !.after = "release", !.errs = 0]
      BY <1>1 DEF Throw, Enter, Xact
    <2>2. x.internals > 0 /\ x.internals < x.level /\ x.level >= 2
      BY <1>1, PgXactAssumption DEF Caught, Coherent, Xact, SubPhases
    <2>3. Throw(x, c) \in Xact
      BY <2>1, Bounds DEF Xact, Phases, CallbackPhases, SubPhases, Afters
    <2>4. Coherent(Throw(x, c))
      BY <2>1, <2>2, PgXactAssumption
      DEF Xact, Coherent, SubPhases, TopPhases, DeadPhases
    <2> QED BY <2>1, <2>3, <2>4 DEF Xact
  <1>2. CASE ~Caught(x) /\ (x.errs + c > ErrStackSize \/ (x.phase = "commit" /\ x.xid = "assigned"))
    BY <1>2, RestOK DEF Throw, Dead, DeadPhases
  <1>3. CASE ~Caught(x) /\ ~(x.errs + c > ErrStackSize \/ (x.phase = "commit" /\ x.xid = "assigned"))
    <2> DEFINE y == AbortCurrent(x)
    <2>1. /\ y \in Xact /\ Coherent(y) /\ y.level = x.level
          /\ y.phase \in {"abort", "subabort"}
      <3>1. CASE x.phase \in {"run", "begin"}
        BY <3>1, AbortFromOK DEF AbortCurrent, Coherent, Xact
      <3>2. CASE x.phase = "subcommit"
        <4>1. x.after # "internal" /\ x.internals = 0 /\ 2 <= x.unwind /\ x.unwind <= x.level
          BY <1>3, <3>2 DEF Caught, Coherent, Xact, SubPhases
        <4>2. CASE x.after = "run"
          <5>1. y = AbortFrom(x, x.unwind - 1)
            BY <3>2, <4>2 DEF AbortCurrent
          <5>2. x.unwind - 1 \in 0 .. MaxLevel /\ x.unwind - 1 <= x.level
            BY <4>1, PgXactAssumption DEF Xact
          <5> QED BY <4>1, <5>1, <5>2, AbortFromOK
        <4>3. CASE x.after # "run"
          BY <3>2, <4>1, <4>3, AbortFromOK DEF AbortCurrent, AbortFrom, Xact
        <4> QED BY <4>2, <4>3
      <3>3. CASE x.phase = "subabort"
        <4>1. /\ 2 <= x.unwind /\ x.unwind <= x.level
              /\ x.unwind < x.level => x.internals = 0
              /\ x.after \in {"release", "restart", "failed", "abort"}
              /\ x.after \in {"restart", "abort"} => x.internals = 0
          BY <3>3 DEF Coherent, SubPhases
        <4>2. CASE x.after = "restart"
          <5>1. y = AbortFrom(x, x.unwind - 1)
            BY <3>3, <4>2 DEF AbortCurrent
          <5>2. x.unwind - 1 \in 0 .. MaxLevel /\ x.unwind - 1 <= x.level
            BY <4>1, PgXactAssumption DEF Xact
          <5> QED BY <4>1, <4>2, <5>1, <5>2, AbortFromOK
        <4>3. CASE x.after = "release"
          BY <3>3, <4>1, <4>3, AbortFromOK DEF AbortCurrent, Xact
        <4>4. CASE x.after = "failed"
          BY <3>3, <4>1, <4>4, AbortFromOK DEF AbortCurrent, Xact
        <4>5. CASE x.after = "abort"
          BY <3>3, <4>1, <4>5, AbortFromOK DEF AbortCurrent, AbortFrom, Xact
        <4> QED BY <4>1, <4>2, <4>3, <4>4, <4>5
      <3>4. CASE x.phase \in TopPhases
        <4>1. y = AbortAll(x)
          BY <3>4 DEF AbortCurrent, TopPhases
        <4>2. AbortAll(x) = AbortFrom(x, 0) /\ 0 \in 0 .. MaxLevel /\ 0 <= x.level
          BY PgXactAssumption DEF AbortFrom, Xact
        <4> QED BY <4>1, <4>2, AbortFromOK
      <3> QED
        BY <3>1, <3>2, <3>3, <3>4 DEF Active, CallbackPhases, SubPhases
    <2>2. Throw(x, c) = [y EXCEPT !.errs = x.errs + c]
      BY <1>3 DEF Throw
    <2>3. x.errs + c \in 0 .. ErrStackSize
      BY <1>3, PgXactAssumption DEF Xact
    <2> QED
      BY <2>1, <2>2, <2>3 DEF Xact, Coherent
  <1> QED BY <1>1, <1>2, <1>3

\* When a callback has returned, the level that ended is left, except when it
\* stays to be restarted or rolled back by the client; the announcement of a
\* commit follows the votes, and nothing but the end of the transaction, or
\* PREPARE, leads out of it.
LEMMA DeliveredOK ==
    ASSUME NEW x \in Xact, Coherent(x), x.phase \in CallbackPhases
    PROVE  /\ Delivered(x) \in Xact
           /\ Coherent(Delivered(x))
           /\ x.phase = "precommit" =>
                 Delivered(x).phase = "commit" /\ Delivered(x).level = 1
           /\ x.phase \in {"commit", "abort"} => Delivered(x) = Idle
           /\ Delivered(x).phase = "subcommit" => Delivered(x).after = x.after
           /\ x.phase \in SubPhases =>
                 \/ /\ Delivered(x).phase \in {x.phase, "run", "precommit", "abort"}
                    /\ Delivered(x).level = x.level - 1
                 \/ /\ Delivered(x).phase \in {"run", "failed"}
                    /\ Delivered(x).level = x.level
                    /\ x.phase = "subabort"
                 \/ Delivered(x) = Idle /\ x.level = 2 /\ x.after = "prepare"
  <1> DEFINE y == Delivered(x)
  <1>1. x.level \in 0 .. MaxLevel /\ x.unwind \in 0 .. MaxLevel
          /\ x.internals \in 0 .. MaxLevel /\ x.errs \in 0 .. ErrStackSize
    BY DEF Xact
  <1>2. CASE x.phase = "precommit"
    <2>1. y = [x EXCEPT !.phase = "commit", !.unwind = 0, !.after = "none"]
      BY <1>2 DEF Enter, Delivered
    <2>2. y \in Xact
      BY <2>1, Bounds DEF Xact, Phases, CallbackPhases, TopPhases, Afters
    <2>3. Coherent(y)
      BY <1>2, <2>1 DEF Xact, Coherent, SubPhases, TopPhases, DeadPhases
    <2> QED BY <1>2, <2>1, <2>2, <2>3 DEF Xact, Coherent, TopPhases, SubPhases
  <1>3. CASE x.phase \in {"commit", "abort"}
    BY <1>3, RestOK DEF SubPhases, Delivered, Idle
  <1>4. CASE x.phase \in SubPhases /\ x.level > x.unwind
    <2>1. y = [x EXCEPT !.level = x.level - 1]
      <3>1. CASE x.phase = "subcommit"
        <4>1. y = SubCommitted(x)
          BY <3>1 DEF Delivered
        <4>2. ~(x.level <= x.unwind)
          BY <1>1, <1>4, Bounds
        <4> QED BY <1>4, <4>1, <4>2 DEF SubCommitted
      <3>2. CASE x.phase = "subabort"
        <4>1. y = SubAborted(x)
          BY <3>2 DEF Delivered
        <4>2. ~(x.level <= x.unwind)
          BY <1>1, <1>4, Bounds
        <4> QED BY <1>4, <4>1, <4>2 DEF SubAborted
      <3> QED BY <1>4, <3>1, <3>2 DEF SubPhases
    <2>2. x.level - 1 \in 0 .. MaxLevel /\ 2 <= x.unwind /\ x.unwind <= x.level - 1
            /\ x.internals = 0
      BY <1>1, <1>4, Bounds DEF Coherent
    <2>3. y \in Xact /\ y.level = x.level - 1 /\ y.internals = 0 /\ y.phase = x.phase
            /\ y.after = x.after /\ y.unwind = x.unwind
      BY <2>1, <2>2 DEF Xact
    <2>4. Coherent(y)
      BY <1>1, <1>4, <2>2, <2>3, Bounds DEF Coherent, SubPhases, TopPhases, DeadPhases
    <2> QED BY <1>4, <2>3, <2>4 DEF SubPhases
  <1>5. CASE x.phase = "subcommit" /\ x.level <= x.unwind
    <2>1. /\ x.level >= 2 /\ x.level - 1 \in 0 .. MaxLevel /\ x.level = x.unwind
          /\ x.after \in {"run", "internal", "commit", "prepare"}
          /\ x.internals < x.level
          /\ x.internals > 0 <=> x.after = "internal"
          /\ x.after \in {"commit", "prepare"} => x.level = 2
      BY <1>1, <1>5, Bounds DEF Coherent, SubPhases
    <2>2. y = SubCommitted(x) /\ ~(x.level > x.unwind)
      BY <1>1, <1>5, Bounds DEF Delivered
    <2>3. CASE x.after = "prepare"
      <3>1. y = Idle
        BY <1>5, <2>2, <2>3 DEF SubCommitted
      <3> QED BY <1>5, <2>1, <2>3, <3>1, RestOK DEF SubPhases, Idle
    <2>4. CASE x.after = "internal"
      <3>1. y = [x EXCEPT !.level = x.level - 1, !.phase = "run", !.unwind = 0,
                          !.after = "none", !.internals = x.internals - 1]
        BY <1>5, <2>2, <2>4 DEF SubCommitted, Enter, Xact
      <3>2. x.internals - 1 \in 0 .. MaxLevel /\ x.internals - 1 < x.level - 1
        BY <1>1, <2>1, <2>4, Bounds
      <3>3. y \in Xact /\ y.level = x.level - 1 /\ y.phase = "run"
              /\ y.internals = x.internals - 1
        BY <2>1, <3>1, <3>2, Bounds DEF Xact, Phases, RestPhases, Afters
      <3>4. Coherent(y)
        BY <1>1, <2>1, <3>2, <3>3, Bounds DEF Coherent, SubPhases, TopPhases, DeadPhases
      <3> QED BY <1>5, <3>3, <3>4 DEF SubPhases
    <2>5. CASE x.after = "run"
      <3>1. y = [x EXCEPT !.level = x.level - 1, !.phase = "run", !.unwind = 0, !.after = "none"]
        BY <1>5, <2>2, <2>5 DEF SubCommitted, Enter, Xact
      <3>2. x.internals = 0
        BY <1>1, <2>1, <2>5
      <3>3. y \in Xact /\ y.level = x.level - 1 /\ y.phase = "run" /\ y.internals = 0
        BY <2>1, <3>1, <3>2, Bounds DEF Xact, Phases, RestPhases, Afters
      <3>4. Coherent(y)
        BY <1>1, <2>1, <3>3, Bounds DEF Coherent, SubPhases, TopPhases, DeadPhases
      <3> QED BY <1>5, <3>3, <3>4 DEF SubPhases
    <2>6. CASE x.after = "commit"
      <3>1. y = [x EXCEPT !.level = x.level - 1, !.phase = "precommit", !.unwind = 0,
                          !.after = "none"]
        BY <1>5, <2>2, <2>6 DEF SubCommitted, Enter, Xact
      <3>2. x.internals = 0 /\ x.level = 2
        BY <1>1, <2>1, <2>6
      <3>3. y \in Xact /\ y.level = x.level - 1 /\ y.phase = "precommit" /\ y.internals = 0
        BY <2>1, <3>1, <3>2, Bounds DEF Xact, Phases, CallbackPhases, TopPhases, Afters
      <3>4. Coherent(y)
        BY <1>1, <2>1, <3>2, <3>3, Bounds DEF Coherent, SubPhases, TopPhases, DeadPhases
      <3> QED BY <1>5, <3>3, <3>4 DEF SubPhases
    <2> QED BY <2>1, <2>3, <2>4, <2>5, <2>6
  <1>6. CASE x.phase = "subabort" /\ x.level <= x.unwind
    <2>1. /\ x.level >= 2 /\ x.level - 1 \in 0 .. MaxLevel /\ x.level = x.unwind
          /\ x.after \in {"release", "restart", "failed", "abort"}
          /\ x.internals < x.level
          /\ x.after = "release" => x.internals > 0
          /\ x.after \in {"restart", "abort"} => x.internals = 0
          /\ x.after = "abort" => x.level = 2
      BY <1>1, <1>6, Bounds DEF Coherent, SubPhases
    <2>2. y = SubAborted(x) /\ ~(x.level > x.unwind)
      BY <1>1, <1>6, Bounds DEF Delivered
    <2>3. CASE x.after = "release"
      <3>1. y = [x EXCEPT !.level = x.level - 1, !.phase = "run", !.unwind = 0,
                          !.after = "none", !.internals = x.internals - 1]
        BY <1>6, <2>2, <2>3 DEF SubAborted, Enter, Xact
      <3>2. x.internals - 1 \in 0 .. MaxLevel /\ x.internals - 1 < x.level - 1
        BY <1>1, <2>1, <2>3, Bounds
      <3>3. y \in Xact /\ y.level = x.level - 1 /\ y.phase = "run"
              /\ y.internals = x.internals - 1
        BY <2>1, <3>1, <3>2, Bounds DEF Xact, Phases, RestPhases, Afters
      <3>4. Coherent(y)
        BY <1>1, <2>1, <3>2, <3>3, Bounds DEF Coherent, SubPhases, TopPhases, DeadPhases
      <3> QED BY <1>6, <3>3, <3>4 DEF SubPhases
    <2>4. CASE x.after = "abort"
      <3>1. y = [x EXCEPT !.level = x.level - 1, !.phase = "abort", !.unwind = 0,
                          !.after = "none"]
        BY <1>6, <2>2, <2>4 DEF SubAborted, Enter, Xact
      <3>2. x.internals = 0 /\ x.level = 2
        BY <2>1, <2>4
      <3>3. y \in Xact /\ y.level = x.level - 1 /\ y.phase = "abort" /\ y.internals = 0
        BY <2>1, <3>1, <3>2, Bounds DEF Xact, Phases, CallbackPhases, TopPhases, Afters
      <3>4. Coherent(y)
        BY <1>1, <2>1, <3>2, <3>3, Bounds DEF Coherent, SubPhases, TopPhases, DeadPhases
      <3> QED BY <1>6, <3>3, <3>4 DEF SubPhases
    <2>5. CASE x.after = "restart"
      <3>1. y = [x EXCEPT !.phase = "run", !.unwind = 0, !.after = "none"]
        BY <1>6, <2>2, <2>5 DEF SubAborted, Enter, Xact
      <3>2. y \in Xact /\ y.level = x.level /\ y.phase = "run" /\ y.internals = x.internals
        BY <3>1, Bounds DEF Xact, Phases, RestPhases, Afters
      <3>3. Coherent(y)
        BY <1>1, <2>1, <3>2, Bounds DEF Coherent, SubPhases, TopPhases, DeadPhases
      <3> QED BY <1>6, <3>2, <3>3 DEF SubPhases
    <2>6. CASE x.after = "failed"
      <3>1. y = [x EXCEPT !.phase = "failed", !.unwind = 0, !.after = "none", !.errs = 0]
        BY <1>6, <2>2, <2>6 DEF SubAborted, Enter, Xact
      <3>2. y \in Xact /\ y.level = x.level /\ y.phase = "failed" /\ y.internals = x.internals
        BY <3>1, Bounds DEF Xact, Phases, RestPhases, Afters
      <3>3. Coherent(y)
        BY <1>1, <2>1, <3>2, Bounds DEF Coherent, SubPhases, TopPhases, DeadPhases
      <3> QED BY <1>6, <3>2, <3>3 DEF SubPhases
    <2> QED BY <2>1, <2>3, <2>4, <2>5, <2>6
  <1>7. x.phase \in SubPhases =>
            x.phase \in {"subcommit", "subabort"} /\ (x.level > x.unwind \/ x.level <= x.unwind)
    BY <1>1, Bounds DEF SubPhases
  <1> QED
    BY <1>2, <1>3, <1>4, <1>5, <1>6, <1>7 DEF CallbackPhases, TopPhases

\* A running transaction is well formed if its level and the handler blocks
\* among its levels are.
LEMMA RunningCoherent ==
    ASSUME NEW y, y.phase = "run", y.level >= 1, y.internals < y.level
    PROVE  Coherent(y)
  BY DEF Coherent, SubPhases, TopPhases, DeadPhases

\* SAVEPOINT and the start of a handler block go one level deeper.
LEMMA PushedOK ==
    ASSUME NEW x \in Xact, Coherent(x), x.phase = "run", x.level < MaxLevel
    PROVE  /\ Pushed(x, TRUE) \in Xact /\ Coherent(Pushed(x, TRUE))
           /\ Pushed(x, TRUE).phase = "run" /\ Pushed(x, TRUE).level = x.level + 1
           /\ Pushed(x, FALSE) \in Xact /\ Coherent(Pushed(x, FALSE))
           /\ Pushed(x, FALSE).phase = "run" /\ Pushed(x, FALSE).level = x.level + 1
  <1>1. /\ x.level \in 0 .. MaxLevel /\ x.internals \in 0 .. MaxLevel
        /\ x.internals < x.level /\ x.level >= 1
        /\ x.level + 1 \in 0 .. MaxLevel /\ x.internals + 1 \in 0 .. MaxLevel
    BY Bounds DEF Xact, Coherent
  <1>2. /\ Pushed(x, TRUE) \in Xact /\ Pushed(x, TRUE).phase = "run"
        /\ Pushed(x, TRUE).level = x.level + 1
        /\ Pushed(x, TRUE).internals = x.internals + 1
    BY <1>1 DEF Pushed, Xact
  <1>3. /\ Pushed(x, FALSE) \in Xact /\ Pushed(x, FALSE).phase = "run"
        /\ Pushed(x, FALSE).level = x.level + 1
        /\ Pushed(x, FALSE).internals = 0
    BY <1>1, Bounds DEF Pushed, Xact
  <1>4. x.level + 1 >= 1 /\ x.internals + 1 < x.level + 1 /\ 0 < x.level + 1
    BY <1>1, Bounds
  <1>5. Coherent(Pushed(x, TRUE)) /\ Coherent(Pushed(x, FALSE))
    BY <1>2, <1>3, <1>4, RunningCoherent
  <1> QED BY <1>2, <1>3, <1>5

\* RELEASE SAVEPOINT and the normal end of a handler block announce the
\* commit of the innermost level.
LEMMA ReleaseOK ==
    ASSUME NEW x \in Xact, Coherent(x), x.phase = "run", NEW u \in 2 .. x.level
    PROVE  /\ x.internals = 0 => /\ Release(x, u) \in Xact /\ Coherent(Release(x, u))
                                 /\ Release(x, u).phase = "subcommit"
                                 /\ Release(x, u).level = x.level
                                 /\ Release(x, u).after = "run"
           /\ x.internals > 0 => /\ ReleaseInternal(x) \in Xact
                                 /\ Coherent(ReleaseInternal(x))
                                 /\ ReleaseInternal(x).phase = "subcommit"
                                 /\ ReleaseInternal(x).level = x.level
                                 /\ ReleaseInternal(x).after = "internal"
  <1>1. /\ x.level \in 0 .. MaxLevel /\ x.internals \in 0 .. MaxLevel
        /\ u \in 0 .. MaxLevel /\ x.internals < x.level /\ 2 <= u /\ u <= x.level
    BY Bounds DEF Xact, Coherent
  <1>2. /\ Release(x, u) \in Xact /\ Release(x, u).phase = "subcommit"
        /\ Release(x, u).level = x.level /\ Release(x, u).internals = x.internals
        /\ Release(x, u).unwind = u /\ Release(x, u).after = "run"
    BY <1>1 DEF Release, Enter, Xact, Phases, CallbackPhases, SubPhases, Afters
  <1>3. /\ ReleaseInternal(x) \in Xact /\ ReleaseInternal(x).phase = "subcommit"
        /\ ReleaseInternal(x).level = x.level
        /\ ReleaseInternal(x).internals = x.internals
        /\ ReleaseInternal(x).unwind = x.level /\ ReleaseInternal(x).after = "internal"
    BY <1>1 DEF ReleaseInternal, Enter, Xact, Phases, CallbackPhases, SubPhases, Afters
  <1>4. x.internals = 0 => Coherent(Release(x, u))
    BY <1>1, <1>2, Bounds DEF Coherent, SubPhases, TopPhases, DeadPhases
  <1>5. x.internals > 0 => Coherent(ReleaseInternal(x))
    BY <1>1, <1>3, Bounds DEF Coherent, SubPhases, TopPhases, DeadPhases
  <1> QED BY <1>2, <1>3, <1>4, <1>5

\* COMMIT and PREPARE TRANSACTION.
LEMMA FinishOK ==
    ASSUME NEW x \in Xact, Coherent(x), x.phase = "run", x.internals = 0,
           NEW how \in {"commit", "prepare"}
    PROVE  /\ Finish(x, how) \in Xact /\ Coherent(Finish(x, how))
           /\ \/ /\ Finish(x, how).phase = "subcommit"
                 /\ Finish(x, how).level = x.level
                 /\ Finish(x, how).after = how
              \/ /\ Finish(x, how).phase = "precommit"
                 /\ Finish(x, how).level = x.level
              \/ Finish(x, how) = Idle /\ x.level = 1 /\ how = "prepare"
  <1>1. x.level \in 0 .. MaxLevel /\ x.level >= 1
    BY Bounds DEF Xact, Coherent
  <1>2. CASE x.level > 1
    <2>1. Finish(x, how) = [x EXCEPT !.phase = "subcommit", !.unwind = 2, !.after = how]
      BY <1>1, <1>2 DEF Finish, Enter
    <2>2. 2 \in 0 .. MaxLevel
      BY <1>1, <1>2, Bounds
    <2>3. /\ Finish(x, how) \in Xact /\ Finish(x, how).phase = "subcommit"
          /\ Finish(x, how).level = x.level /\ Finish(x, how).internals = 0
          /\ Finish(x, how).unwind = 2 /\ Finish(x, how).after = how
      BY <2>1, <2>2 DEF Xact, Phases, CallbackPhases, SubPhases, Afters
    <2>4. Coherent(Finish(x, how))
      BY <1>1, <1>2, <2>3, Bounds DEF Coherent, SubPhases, TopPhases, DeadPhases
    <2> QED BY <2>3, <2>4
  <1>3. CASE x.level = 1 /\ how = "commit"
    <2>1. Finish(x, how) = [x EXCEPT !.phase = "precommit", !.unwind = 0, !.after = "none"]
      BY <1>3 DEF Finish, Enter
    <2>2. /\ Finish(x, how) \in Xact /\ Finish(x, how).phase = "precommit"
          /\ Finish(x, how).level = x.level /\ Finish(x, how).internals = 0
      BY <2>1, Bounds DEF Xact, Phases, CallbackPhases, TopPhases, Afters
    <2>3. Coherent(Finish(x, how))
      BY <1>3, <2>2 DEF Coherent, SubPhases, TopPhases, DeadPhases
    <2> QED BY <2>2, <2>3
  <1>4. CASE x.level = 1 /\ how = "prepare"
    BY <1>4, RestOK DEF Finish
  <1>5. x.level > 1 \/ x.level = 1
    BY <1>1, Bounds
  <1> QED BY <1>2, <1>3, <1>4, <1>5

\* ROLLBACK and ROLLBACK TO SAVEPOINT: a failed level has been aborted before
\* and is left without another callback.
LEMMA RollbackOK ==
    ASSUME NEW x \in Xact, Coherent(x),
           x.phase = "failed" \/ (x.phase = "run" /\ x.internals = 0)
    PROVE  LET l == IF x.phase = "failed" THEN x.level - 1 ELSE x.level IN
           /\ AbortAll(Popped(x)) \in Xact /\ Coherent(AbortAll(Popped(x)))
           /\ AbortAll(Popped(x)).phase \in {"abort", "subabort"}
           /\ AbortAll(Popped(x)).level = l
           /\ \A u \in 2 .. (x.level - x.internals) :
                 /\ RollbackTo(x, u) \in Xact /\ Coherent(RollbackTo(x, u))
                 /\ \/ RollbackTo(x, u).phase = "run" /\ RollbackTo(x, u).level = x.level
                    \/ RollbackTo(x, u).phase = "subabort" /\ RollbackTo(x, u).level = l
  <1> DEFINE l == IF x.phase = "failed" THEN x.level - 1 ELSE x.level
             z == Popped(x)
  <1>1. /\ x.level \in 0 .. MaxLevel /\ x.internals \in 0 .. MaxLevel
        /\ x.internals < x.level /\ x.level >= 1
        /\ x.phase = "failed" => x.level >= 2
    BY Bounds DEF Xact, Coherent
  <1>2. l \in 1 .. MaxLevel /\ l \in 0 .. MaxLevel
    BY <1>1, Bounds
  <1>3. z = [x EXCEPT !.level = l] /\ z \in Xact /\ z.level = l
    BY <1>2 DEF Popped, Xact
  <1> HIDE DEF l
  <1>4. /\ AbortAll(z) \in Xact /\ Coherent(AbortAll(z)) /\ AbortAll(z).level = l
        /\ AbortAll(z).phase \in {"abort", "subabort"}
    <2>1. CASE l = 1
      <3>1. AbortAll(z) = [z EXCEPT !.phase = "abort", !.unwind = 0,
                                    !.after = "none", !.internals = 0]
        BY <1>3, <2>1 DEF AbortAll, Enter, Xact
      <3>2. /\ AbortAll(z) \in Xact /\ AbortAll(z).phase = "abort"
            /\ AbortAll(z).level = l /\ AbortAll(z).internals = 0
        BY <1>3, <3>1, Bounds DEF Xact, Phases, CallbackPhases, TopPhases, Afters
      <3>3. Coherent(AbortAll(z))
        BY <2>1, <3>2 DEF Coherent, SubPhases, TopPhases, DeadPhases
      <3> QED BY <3>2, <3>3
    <2>2. CASE l # 1
      <3>1. AbortAll(z) = [z EXCEPT !.phase = "subabort", !.unwind = 2,
                                    !.after = "abort", !.internals = 0]
        BY <1>3, <2>2 DEF AbortAll, Enter, Xact
      <3>2. 2 \in 0 .. MaxLevel /\ 2 <= l
        BY <1>2, <2>2, Bounds
      <3>3. /\ AbortAll(z) \in Xact /\ AbortAll(z).phase = "subabort"
            /\ AbortAll(z).level = l /\ AbortAll(z).internals = 0
            /\ AbortAll(z).unwind = 2 /\ AbortAll(z).after = "abort"
        BY <1>3, <3>1, <3>2, Bounds DEF Xact, Phases, CallbackPhases, SubPhases, Afters
      <3>4. Coherent(AbortAll(z))
        BY <1>2, <3>2, <3>3, Bounds DEF Coherent, SubPhases, TopPhases, DeadPhases
      <3> QED BY <3>3, <3>4
    <2> QED BY <2>1, <2>2
  <1>5. ASSUME NEW u \in 2 .. (x.level - x.internals)
        PROVE  /\ RollbackTo(x, u) \in Xact /\ Coherent(RollbackTo(x, u))
               /\ \/ RollbackTo(x, u).phase = "run" /\ RollbackTo(x, u).level = x.level
                  \/ RollbackTo(x, u).phase = "subabort" /\ RollbackTo(x, u).level = l
    <2>1. u \in 0 .. MaxLevel /\ 2 <= u /\ u <= x.level
      BY <1>1, Bounds
    <2>2. CASE x.phase = "failed" /\ x.level = u
      <3>1. RollbackTo(x, u) = [x EXCEPT !.phase = "run", !.unwind = 0,
                                         !.after = "none", !.internals = 0]
        BY <2>2 DEF RollbackTo, Enter, Xact
      <3>2. /\ RollbackTo(x, u) \in Xact /\ RollbackTo(x, u).phase = "run"
            /\ RollbackTo(x, u).level = x.level /\ RollbackTo(x, u).internals = 0
        BY <3>1, Bounds DEF Xact, Phases, RestPhases, Afters
      <3>3. Coherent(RollbackTo(x, u))
        BY <1>1, <3>2, Bounds DEF Coherent, SubPhases, TopPhases, DeadPhases
      <3> QED BY <3>2, <3>3
    <2>3. CASE ~(x.phase = "failed" /\ x.level = u)
      <3>1. RollbackTo(x, u) = [z EXCEPT !.phase = "subabort", !.unwind = u,
                                         !.after = "restart", !.internals = 0]
        BY <1>3, <2>3 DEF RollbackTo, Enter, Xact
      <3>2. u <= l
        BY <1>1, <2>1, <2>3, Bounds DEF l
      <3>3. /\ RollbackTo(x, u) \in Xact /\ RollbackTo(x, u).phase = "subabort"
            /\ RollbackTo(x, u).level = l /\ RollbackTo(x, u).internals = 0
            /\ RollbackTo(x, u).unwind = u /\ RollbackTo(x, u).after = "restart"
        BY <1>3, <2>1, <3>1, Bounds DEF Xact, Phases, CallbackPhases, SubPhases, Afters
      <3>4. Coherent(RollbackTo(x, u))
        BY <1>2, <2>1, <3>2, <3>3, Bounds DEF Coherent, SubPhases, TopPhases, DeadPhases
      <3> QED BY <3>3, <3>4
    <2> QED BY <2>2, <2>3
  <1> QED BY <1>4, <1>5 DEF l

-----------------------------------------------------------------------------
(* The instance cache.                                                     *)

\* Entering transaction state x starts a loop over the entries that qualify.
LEMMA GoTodo ==
    ASSUME NEW x \in Xact, Go(x), depth' \in [Tables -> 0 .. MaxLevel]
    PROVE  /\ xact' = x /\ todo' \subseteq Tables
           /\ TodoSound'
           /\ x.phase \in SubPhases => \A t \in Tables : t \notin todo' => depth'[t] < x.level
  <1>1. xact' = x /\ todo' = Due(x, depth') /\ x.level \in Nat
    BY Bounds DEF Go, Xact
  <1>2. CASE x.phase \in SubPhases
    <2>1. todo' = {t \in Tables : depth'[t] >= x.level}
      BY <1>1, <1>2 DEF Due, SubPhases, TopPhases
    <2> QED BY <1>1, <1>2, <2>1, Bounds DEF TodoSound, SubPhases, TopPhases, CallbackPhases
  <1>3. CASE x.phase \in TopPhases
    <2>1. todo' = {t \in Tables : depth'[t] # 0}
      BY <1>1, <1>3 DEF Due, SubPhases, TopPhases
    <2> QED BY <1>1, <1>3, <2>1, Bounds DEF TodoSound, SubPhases, TopPhases, CallbackPhases
  <1>4. CASE x.phase \notin CallbackPhases
    <2>1. todo' = {}
      BY <1>1, <1>4 DEF Due, SubPhases, TopPhases, CallbackPhases
    <2> QED BY <1>1, <1>4, <2>1 DEF TodoSound, SubPhases, TopPhases, CallbackPhases
  <1> QED BY <1>2, <1>3, <1>4 DEF CallbackPhases

LEMMA InitIInv == Init => IInv
  <1> SUFFICES ASSUME Init PROVE IInv
    OBVIOUS
  <1>1. xact \in Xact /\ Coherent(xact) /\ xact.phase = "idle" /\ xact.level = 0
    BY RestOK DEF Init, Idle
  <1>2. TypeOK
    BY <1>1, CacheAssumption, Bounds DEF Init, TypeOK, Pointers, Endings
  <1>3. InStep /\ TodoSound /\ VotesFirst /\ Fresh /\ ToldSound /\ NoPrepare
    BY <1>1 DEF Init, InStep, TodoSound, VotesFirst, Fresh, ToldSound, NoPrepare,
                IdleClean, CallbackPhases, SubPhases, TopPhases, DeadPhases
  <1> QED BY <1>1, <1>2, <1>3 DEF IInv

\* The depths fit transaction state x.
Fits(x) == x.phase \notin DeadPhases =>
              \A t \in Tables : depth[t] <= IF x.level = 0 THEN 1 ELSE x.level

\* A step that moves to transaction state x and touches no entry: commands of
\* the client, and hooks that raise.
LEMMA QuietStep ==
    ASSUME IInv, NEW x \in Xact, Coherent(x), Go(x), cur' \in Tables \union {NULL},
           UNCHANGED <<catvars, entvars, histvars>>,
           xact.phase \in {"run", "begin", "failed", "precommit"} \union SubPhases,
           x.phase \notin {"begin", "commit", "failed"},
           Fits(x),
           "prepare" \notin Events =>
               x.phase # "idle" /\ (x.phase = "subcommit" => x.after # "prepare")
    PROVE  IInv'
  <1> USE DEF catvars, entvars, histvars
  <1>1. TypeOK
    BY DEF IInv
  <1>2. /\ xact' = x /\ TodoSound' /\ todo' \subseteq Tables
        /\ x.phase \in SubPhases => \A t \in Tables : t \notin todo' => depth'[t] < x.level
    BY <1>1, GoTodo DEF TypeOK
  <1>3. TypeOK'
    BY <1>1, <1>2 DEF TypeOK
  <1>4. InStep'
    <2>1. \A t \in Tables : xact.phase \notin DeadPhases /\ value[t] = "live" => view[t] = depth[t]
      BY DEF IInv, InStep
    <2>2. xact.phase \notin DeadPhases
      BY DEF DeadPhases, SubPhases
    <2> QED BY <1>2, <2>1, <2>2 DEF InStep, Fits
  <1>5. VotesFirst' /\ Fresh'
    BY <1>2 DEF VotesFirst, Fresh
  <1>6. ToldSound'
    <2>1. \A t \in Tables : told[t] = "none"
      BY DEF IInv, ToldSound, DeadPhases, SubPhases
    <2> QED BY <2>1 DEF ToldSound
  <1>7. NoPrepare'
    BY <1>2 DEF NoPrepare, IdleClean
  <1> QED BY <1>2, <1>3, <1>4, <1>5, <1>6, <1>7 DEF IInv

\* A hook that raises without having changed its entry.
LEMMA ThrowStep ==
    ASSUME IInv, NEW c \in ReportCost, Go(Throw(xact, c)), cur' \in Tables \union {NULL},
           UNCHANGED <<catvars, entvars, histvars>>,
           xact.phase \in {"run", "begin", "precommit"} \union SubPhases
    PROVE  IInv'
  <1> DEFINE x == Throw(xact, c)
  <1>1. xact \in Xact /\ Coherent(xact) /\ Active(xact) /\ c \in {1, 2}
    BY DEF IInv, TypeOK, Active, ReportCost, CallbackPhases, TopPhases
  <1>2. /\ x \in Xact /\ Coherent(x)
        /\ \/ x.phase = "panic"
           \/ x.phase \in {"abort", "subabort"} /\ x.level = xact.level
    BY <1>1, ThrowOK
  <1>3. Fits(x)
    BY <1>1, <1>2 DEF IInv, InStep, Fits, DeadPhases, SubPhases
  <1> HIDE DEF x
  <1> QED BY <1>2, <1>3, QuietStep DEF x

\* Every command of the client, and every error outside multicorn, keeps IInv.
LEMMA ClientStep ==
    ASSUME IInv, Client
    PROVE  IInv'
  <1>1. xact \in Xact /\ Coherent(xact) /\ TypeOK
    BY DEF IInv, TypeOK
  <1>2. cur \in Tables \union {NULL} /\ xact.level \in 0 .. MaxLevel /\ xact.internals \in 0 .. MaxLevel
    BY <1>1 DEF TypeOK, Xact
  <1>3. \A t \in Tables : depth[t] \in 0 .. MaxLevel
    BY <1>1 DEF TypeOK
  <1>4. ASSUME Running
        PROVE  /\ Fits(xact) /\ xact.level >= 1
               /\ \A t \in Tables : depth[t] <= xact.level /\ depth[t] <= xact.level + 1
    <2>1. Fits(xact) /\ xact.level >= 1
      BY <1>1, <1>4 DEF IInv, InStep, Fits, Running, Coherent
    <2>2. \A t \in Tables : depth[t] <= xact.level
      BY <1>2, <1>4, <2>1, Bounds DEF Fits, Running, DeadPhases
    <2> QED BY <1>2, <1>3, <2>1, <2>2, Bounds
  <1>5. CASE StartTransaction
    <2>1. /\ xact' = Started /\ TodoSound' /\ todo' \subseteq Tables
          /\ Started \in Xact /\ Coherent(Started)
      BY <1>1, <1>5, GoTodo, RestOK DEF StartTransaction, TypeOK, entvars
    <2>2. Started.phase = "run" /\ Started.level = 1
      BY DEF Started, Idle
    <2>3. TypeOK'
      BY <1>1, <1>5, <2>1 DEF StartTransaction, TypeOK, catvars, entvars, Endings
    <2>4. InStep'
      <3>1. \A t \in Tables : depth[t] <= 1 /\ (value[t] = "live" => view[t] = depth[t])
        BY <1>1, <1>5 DEF StartTransaction, IInv, InStep, Coherent, DeadPhases
      <3> QED BY <1>5, <2>1, <2>2, <3>1 DEF StartTransaction, InStep, entvars, SubPhases
    <2>5. VotesFirst' /\ Fresh' /\ NoPrepare'
      BY <2>1, <2>2 DEF VotesFirst, Fresh, NoPrepare, IdleClean
    <2>6. ToldSound'
      BY <1>5 DEF StartTransaction, ToldSound
    <2> QED BY <2>1, <2>3, <2>4, <2>5, <2>6 DEF IInv
  <1>6. CASE Savepoint
    <2> DEFINE x == Pushed(xact, FALSE)
    <2>1. x \in Xact /\ Coherent(x) /\ x.phase = "run" /\ x.level = xact.level + 1
      BY <1>1, <1>6, PushedOK DEF Savepoint, AtTop, Running
    <2> HIDE DEF x
    <2>2. Fits(x)
      <3>1. \A t \in Tables : depth[t] <= x.level
        BY <1>4, <1>6, <2>1 DEF Savepoint, AtTop
      <3>2. x.level # 0
        BY <1>2, <2>1, Bounds
      <3> QED BY <3>1, <3>2 DEF Fits
    <2> QED BY <1>2, <1>6, <2>1, <2>2, QuietStep DEF Savepoint, AtTop, Running, Command, x
  <1>7. CASE EnterHandlerBlock
    <2> DEFINE x == Pushed(xact, TRUE)
    <2>1. x \in Xact /\ Coherent(x) /\ x.phase = "run" /\ x.level = xact.level + 1
      BY <1>1, <1>7, PushedOK DEF EnterHandlerBlock, Running
    <2> HIDE DEF x
    <2>2. Fits(x)
      <3>1. \A t \in Tables : depth[t] <= x.level
        BY <1>4, <1>7, <2>1 DEF EnterHandlerBlock
      <3>2. x.level # 0
        BY <1>2, <2>1, Bounds
      <3> QED BY <3>1, <3>2 DEF Fits
    <2> QED BY <1>2, <1>7, <2>1, <2>2, QuietStep DEF EnterHandlerBlock, Running, Command, x
  <1>8. CASE ReleaseSavepoint
    <2>1. PICK u \in 2 .. xact.level : Command(Release(xact, u))
      BY <1>8 DEF ReleaseSavepoint
    <2> DEFINE x == Release(xact, u)
    <2>2. /\ x \in Xact /\ Coherent(x) /\ x.phase = "subcommit"
          /\ x.level = xact.level /\ x.after = "run"
      BY <1>1, <1>8, ReleaseOK DEF ReleaseSavepoint, AtTop, Running
    <2>3. Fits(x)
      BY <1>4, <1>8, <2>2 DEF ReleaseSavepoint, AtTop, Running, Fits, DeadPhases
    <2> HIDE DEF x
    <2> QED BY <1>2, <1>8, <2>1, <2>2, <2>3, QuietStep
            DEF ReleaseSavepoint, AtTop, Running, Command, x
  <1>9. CASE LeaveHandlerBlock
    <2>1. xact.level \in 2 .. xact.level
      BY <1>1, <1>2, <1>9, Bounds DEF LeaveHandlerBlock, Running, Coherent
    <2> DEFINE x == ReleaseInternal(xact)
    <2>2. /\ x \in Xact /\ Coherent(x) /\ x.phase = "subcommit"
          /\ x.level = xact.level /\ x.after = "internal"
      BY <1>1, <1>9, <2>1, ReleaseOK DEF LeaveHandlerBlock, Running
    <2>3. Fits(x)
      BY <1>4, <1>9, <2>2 DEF LeaveHandlerBlock, Running, Fits, DeadPhases
    <2> HIDE DEF x
    <2> QED BY <1>2, <1>9, <2>2, <2>3, QuietStep DEF LeaveHandlerBlock, Running, Command, x
  <1>10. CASE RollbackToSavepoint
    <2>1. PICK u \in 2 .. (xact.level - xact.internals) : Command(RollbackTo(xact, u))
      BY <1>10 DEF RollbackToSavepoint
    <2>2. xact.phase = "failed" \/ (xact.phase = "run" /\ xact.internals = 0)
      BY <1>10 DEF RollbackToSavepoint, AtPrompt, AtTop, Running
    <2>3. Fits(RollbackTo(xact, u))
      BY <1>1, <1>2, <1>3, <2>2, RollbackOK, Bounds DEF IInv, InStep, Fits, DeadPhases, Coherent
    <2> QED BY <1>1, <1>2, <2>1, <2>2, <2>3, RollbackOK, QuietStep DEF Command
  <1>11. CASE RollbackTransaction
    <2>2. xact.phase = "failed" \/ (xact.phase = "run" /\ xact.internals = 0)
      BY <1>11 DEF RollbackTransaction, AtPrompt, AtTop, Running
    <2>3. Fits(AbortAll(Popped(xact)))
      BY <1>1, <1>2, <1>3, <2>2, RollbackOK, Bounds DEF IInv, InStep, Fits, DeadPhases, Coherent
    <2> QED BY <1>1, <1>2, <1>11, <2>2, <2>3, RollbackOK, QuietStep
            DEF RollbackTransaction, Command
  <1>12. CASE CommitTransaction
    <2> DEFINE x == Finish(xact, "commit")
    <2>1. /\ x \in Xact /\ Coherent(x)
          /\ \/ x.phase = "subcommit" /\ x.level = xact.level /\ x.after = "commit"
             \/ x.phase = "precommit" /\ x.level = xact.level
             \/ x.phase = "idle" /\ x.level = 0 /\ xact.level = 1 /\ "commit" = "prepare"
      BY <1>1, <1>12, FinishOK DEF CommitTransaction, AtTop, Running, Idle
    <2>2. Fits(x)
      BY <1>4, <1>12, <2>1 DEF CommitTransaction, AtTop, Running, Fits, DeadPhases
    <2> HIDE DEF x
    <2> QED BY <1>2, <1>12, <2>1, <2>2, QuietStep
            DEF CommitTransaction, AtTop, Running, Command, x
  <1>13. CASE PrepareTransaction
    <2> DEFINE x == Finish(xact, "prepare")
    <2>1. /\ x \in Xact /\ Coherent(x)
          /\ \/ x.phase = "subcommit" /\ x.level = xact.level /\ x.after = "prepare"
             \/ x.phase = "precommit" /\ x.level = xact.level
             \/ x.phase = "idle" /\ x.level = 0 /\ xact.level = 1 /\ "prepare" = "prepare"
      BY <1>1, <1>13, FinishOK DEF PrepareTransaction, AtTop, Running, Idle
    <2>2. Fits(x)
      BY <1>4, <1>13, <2>1 DEF PrepareTransaction, AtTop, Running, Fits, DeadPhases
    <2> HIDE DEF x
    <2> QED BY <1>2, <1>13, <2>1, <2>2, QuietStep
            DEF PrepareTransaction, AtTop, Running, Command, x
  <1>14. CASE StatementFails
    BY <1>2, <1>14, ThrowStep DEF StatementFails, Running, Command, ReportCost
  <1>15. CASE LocalWrite
    <2> DEFINE x == [xact EXCEPT !.xid = "assigned"]
    <2>1. x \in Xact /\ x.phase = xact.phase /\ x.level = xact.level
            /\ x.internals = xact.internals
      BY <1>1 DEF Xact
    <2>2. Coherent(x) /\ Fits(x)
      BY <1>1, <1>4, <1>15, <2>1, RunningCoherent DEF LocalWrite, Running, Fits, Coherent
    <2> HIDE DEF x
    <2> QED BY <1>2, <1>15, <2>1, <2>2, QuietStep DEF LocalWrite, Running, Command, x
  <1>16. ASSUME NEW t \in Tables, Alter(t)
         PROVE  IInv'
    <2>1. UNCHANGED <<xact, todo, cur, entvars, histvars>> /\ xact.phase # "begin"
      BY <1>16 DEF Alter, Running
    <2>2. TypeOK'
      BY <1>1, <1>16 DEF Alter, TypeOK, entvars, histvars
    <2> QED BY <2>1, <2>2 DEF IInv, InStep, TodoSound, VotesFirst, Fresh, ToldSound,
                              NoPrepare, IdleClean, entvars, histvars
  <1> QED
    BY <1>5, <1>6, <1>7, <1>8, <1>9, <1>10, <1>11, <1>12, <1>13, <1>14, <1>15, <1>16 DEF Client

\* A step of getCacheEntry or begin_remote_xact: the level stays, whatever
\* becomes of the entry it works on.
LEMMA AccessStep ==
    ASSUME IInv, TypeOK', NEW x \in Xact, Coherent(x), Go(x), told' = told,
           xact.phase \in {"run", "begin"},
           \A u \in Tables : /\ depth'[u] <= xact.level
                             /\ value'[u] = "live" => view'[u] = depth'[u],
           \/ /\ x.phase \in {"run", "begin", "abort", "subabort"}
              /\ x.level = xact.level
           \/ x.phase \in DeadPhases,
           x.phase = "begin" => Fresh'
    PROVE  IInv'
  <1>1. /\ xact' = x /\ TodoSound'
        /\ x.phase \in SubPhases => \A t \in Tables : t \notin todo' => depth'[t] < x.level
    BY GoTodo DEF TypeOK
  <1>2. xact.level # 0
    BY DEF IInv, Coherent
  <1>3. InStep'
    BY <1>1, <1>2 DEF InStep, DeadPhases
  <1>4. VotesFirst' /\ Fresh' /\ NoPrepare'
    BY <1>1 DEF VotesFirst, Fresh, NoPrepare, IdleClean, DeadPhases
  <1>5. ToldSound'
    <2>1. \A t \in Tables : told[t] = "none"
      BY DEF IInv, ToldSound, DeadPhases
    <2> QED BY <2>1 DEF ToldSound
  <1> QED BY <1>1, <1>3, <1>4, <1>5 DEF IInv

\* Where getCacheEntry goes next.
LEMMA AccessTargets ==
    ASSUME TypeOK, Coherent(xact), xact.phase \in {"run", "begin"}
    PROVE  /\ \A p \in {"run", "begin"} :
                 /\ [xact EXCEPT !.phase = p] \in Xact
                 /\ Coherent([xact EXCEPT !.phase = p])
                 /\ [xact EXCEPT !.phase = p].phase = p
                 /\ [xact EXCEPT !.phase = p].level = xact.level
           /\ \A c \in ReportCost :
                 /\ Throw(xact, c) \in Xact /\ Coherent(Throw(xact, c))
                 /\ \/ /\ Throw(xact, c).phase \in {"abort", "subabort"}
                       /\ Throw(xact, c).level = xact.level
                    \/ Throw(xact, c).phase \in DeadPhases
           /\ Dead("crash") \in Xact /\ Coherent(Dead("crash"))
           /\ Dead("crash").phase \in DeadPhases
  <1>1. ASSUME NEW p \in {"run", "begin"}
        PROVE  /\ [xact EXCEPT !.phase = p] \in Xact
               /\ Coherent([xact EXCEPT !.phase = p])
               /\ [xact EXCEPT !.phase = p].phase = p
               /\ [xact EXCEPT !.phase = p].level = xact.level
    <2> DEFINE y == [xact EXCEPT !.phase = p]
    <2>1. y \in Xact /\ y.phase = p /\ y.level = xact.level /\ y.internals = xact.internals
      BY DEF TypeOK, Xact, Phases, RestPhases
    <2>2. xact.level >= 1 /\ xact.internals < xact.level
      BY DEF Coherent
    <2> HIDE DEF y
    <2>3. Coherent(y)
      BY <2>1, <2>2 DEF Coherent, SubPhases, TopPhases, DeadPhases
    <2> QED BY <2>1, <2>3 DEF y
  <1>2. ASSUME NEW c \in ReportCost
        PROVE  /\ Throw(xact, c) \in Xact /\ Coherent(Throw(xact, c))
               /\ \/ /\ Throw(xact, c).phase \in {"abort", "subabort"}
                     /\ Throw(xact, c).level = xact.level
                  \/ Throw(xact, c).phase \in DeadPhases
    BY ThrowOK DEF TypeOK, Active, ReportCost, DeadPhases
  <1>3. Dead("crash").phase = "crash"
    BY DEF Dead, Idle
  <1> QED BY <1>1, <1>2, <1>3, RestOK DEF DeadPhases

\* getCacheEntry keeps IInv, whichever of get_class and __init__ raises.
LEMMA GetCacheEntryStep ==
    ASSUME IInv, GetCacheEntry
    PROVE  IInv'
  <1>1. PICK t \in Tables :
          \/ GetCacheEntryHit(t) \/ GetCacheEntryNew(t) \/ GetCacheEntryCrashes(t)
          \/ \E c \in ReportCost : GetClassRaises(t, c) \/ InitRaises(t, c)
    BY DEF GetCacheEntry
  <1>2. xact.phase = "run" /\ TypeOK /\ Coherent(xact)
    BY <1>1 DEF GetCacheEntryHit, GetCacheEntryNew, GetCacheEntryCrashes, GetClassRaises,
                InitRaises, IInv
  <1>3. /\ \A u \in Tables : depth[u] <= xact.level
        /\ \A u \in Tables : value[u] = "live" => view[u] = depth[u]
        /\ 0 <= xact.level /\ xact.level \in Nat
    BY <1>2, Bounds DEF IInv, InStep, TypeOK, Xact, Coherent, DeadPhases
  <1> DEFINE b == [xact EXCEPT !.phase = "begin"]
  <1>4. b \in Xact /\ Coherent(b) /\ b.phase = "begin" /\ b.level = xact.level
    BY <1>2, AccessTargets
  <1> HIDE DEF b
  <1>5. CASE GetCacheEntryHit(t)
    <2>1. Go(b) /\ xact' = b /\ todo' \subseteq Tables
      BY <1>2, <1>4, <1>5, GoTodo DEF GetCacheEntryHit, TypeOK, entvars, b
    <2>2. TypeOK'
      BY <1>2, <1>4, <1>5, <2>1 DEF GetCacheEntryHit, TypeOK, catvars, entvars, histvars
    <2>3. Fresh'
      BY <1>5 DEF GetCacheEntryHit, Fresh, Matches, SameOptions, SameColumns,
                   catvars, entvars
    <2>4. UNCHANGED <<depth, value, view, told>>
      BY <1>5 DEF GetCacheEntryHit, entvars, histvars
    <2>5. \A u \in Tables : /\ depth'[u] <= xact.level
                            /\ value'[u] = "live" => view'[u] = depth'[u]
      BY <1>3, <2>4
    <2> QED BY <1>2, <1>4, <2>1, <2>2, <2>3, <2>4, <2>5, AccessStep
  <1>6. CASE GetCacheEntryNew(t)
    <2>1. depth' \in [Tables -> 0 .. MaxLevel] /\ depth'[t] = 0
            /\ \A u \in Tables \ {t} : depth'[u] = depth[u]
      BY <1>2, <1>6, Bounds DEF GetCacheEntryNew, TypeOK
    <2>2. Go(b) /\ xact' = b /\ todo' \subseteq Tables
      BY <1>2, <1>4, <1>6, <2>1, GoTodo DEF GetCacheEntryNew, b
    <2>3. 1 \in 0 .. MaxRefs /\ "live" \in Pointers
      BY CacheAssumption DEF Pointers
    <2>4. TypeOK'
      BY <1>2, <1>4, <1>6, <2>1, <2>2, <2>3, Bounds
      DEF GetCacheEntryNew, Forget, TypeOK, catvars
    <2>5. Fresh'
      BY <1>2, <1>6 DEF GetCacheEntryNew, Fresh, TypeOK, catvars
    <2>6. \A u \in Tables : /\ depth'[u] <= xact.level
                            /\ value'[u] = "live" => view'[u] = depth'[u]
      <3>1. view'[t] = 0 /\ \A u \in Tables \ {t} : view'[u] = view[u] /\ value'[u] = value[u]
        BY <1>2, <1>6 DEF GetCacheEntryNew, Forget, TypeOK
      <3> QED BY <1>3, <2>1, <3>1
    <2> QED BY <1>2, <1>4, <1>6, <2>2, <2>4, <2>5, <2>6, AccessStep DEF GetCacheEntryNew
  <1>7. CASE GetCacheEntryCrashes(t)
    <2>1. Go(Dead("crash")) /\ UNCHANGED <<cur, catvars, entvars, histvars>>
      BY <1>7 DEF GetCacheEntryCrashes
    <2>2. xact' = Dead("crash") /\ todo' \subseteq Tables
      BY <1>2, <2>1, GoTodo, AccessTargets DEF TypeOK, entvars
    <2>3. TypeOK'
      BY <1>2, <2>1, <2>2, AccessTargets DEF TypeOK, catvars, entvars, histvars
    <2>4. Dead("crash").phase # "begin"
      BY DEF Dead, Idle
    <2>5. UNCHANGED <<depth, value, view, told>>
      BY <2>1 DEF entvars, histvars
    <2>6. \A u \in Tables : /\ depth'[u] <= xact.level
                            /\ value'[u] = "live" => view'[u] = depth'[u]
      BY <1>3, <2>5
    <2> QED BY <1>2, <2>1, <2>3, <2>4, <2>5, <2>6, AccessStep, AccessTargets
  <1>8. ASSUME NEW c \in ReportCost, GetClassRaises(t, c)
        PROVE  IInv'
    <2> DEFINE x == Throw(xact, c)
    <2>1. /\ x \in Xact /\ Coherent(x) /\ x.phase # "begin"
          /\ \/ x.phase \in {"abort", "subabort"} /\ x.level = xact.level
             \/ x.phase \in DeadPhases
      BY <1>2, AccessTargets DEF DeadPhases
    <2> HIDE DEF x
    <2>2. /\ depth' \in [Tables -> 0 .. MaxLevel]
          /\ depth' = [depth EXCEPT ![t] = DepthBefore(t)]
      BY <1>2, <1>8, Bounds DEF GetClassRaises, TypeOK, DepthBefore
    <2>3. Go(x) /\ xact' = x /\ todo' \subseteq Tables
      BY <1>8, <2>1, <2>2, GoTodo DEF GetClassRaises, x
    <2>4. value' \in [Tables -> Pointers]
      BY <1>2, <1>8 DEF GetClassRaises, TypeOK, Pointers, Dropped
    <2>5. refs' \in [Tables -> 0 .. MaxRefs]
      <3>1. refs[t] \in 0 .. MaxRefs /\ MaxRefs \in Nat
        BY <1>2, CacheAssumption DEF TypeOK
      <3>2. (IF refs[t] > 0 THEN refs[t] - 1 ELSE 0) \in 0 .. MaxRefs
        BY <3>1
      <3> QED BY <1>2, <1>8, <3>2 DEF GetClassRaises, TypeOK
    <2>6. view' \in [Tables -> 0 .. MaxLevel] /\ lost' \subseteq Tables
      BY <1>2, <1>8, Bounds DEF GetClassRaises, Forget, TypeOK
    <2>7. TypeOK'
      BY <1>2, <1>8, <2>1, <2>2, <2>3, <2>4, <2>5, <2>6 DEF GetClassRaises, TypeOK, catvars
    <2>8. ASSUME NEW u \in Tables
          PROVE  depth'[u] <= xact.level /\ (value'[u] = "live" => view'[u] = depth'[u])
      <3>1. CASE u # t
        <4>1. depth'[u] = depth[u] /\ value'[u] = value[u] /\ view'[u] = view[u]
          BY <1>2, <1>8, <2>2, <3>1 DEF GetClassRaises, Forget, TypeOK
        <4> QED BY <1>3, <4>1
      <3>2. CASE u = t /\ value[t] # "live"
        BY <1>2, <1>3, <1>8, <2>2, <3>2
        DEF GetClassRaises, Forget, TypeOK, DepthBefore, Blank, CallCrashes, Pointers
      <3>3. CASE u = t /\ value[t] = "live"
        <4>1. depth'[u] = depth[u]
          BY <1>2, <2>2, <3>3 DEF TypeOK, DepthBefore, Blank
        <4>2. value'[u] = "live" => view'[u] = view[u]
          BY <1>8, <3>3 DEF GetClassRaises
        <4> QED BY <1>3, <3>3, <4>1, <4>2
      <3> QED BY <3>1, <3>2, <3>3
    <2> QED BY <1>2, <1>8, <2>1, <2>3, <2>7, <2>8, AccessStep DEF GetClassRaises
  <1>9. ASSUME NEW c \in ReportCost, InitRaises(t, c)
        PROVE  IInv'
    <2> DEFINE x == Throw(xact, c)
    <2>1. /\ x \in Xact /\ Coherent(x) /\ x.phase # "begin"
          /\ \/ x.phase \in {"abort", "subabort"} /\ x.level = xact.level
             \/ x.phase \in DeadPhases
      BY <1>2, AccessTargets DEF DeadPhases
    <2> HIDE DEF x
    <2>2. /\ depth' \in [Tables -> 0 .. MaxLevel]
          /\ depth' = [depth EXCEPT ![t] = DepthBefore(t)]
      BY <1>2, <1>9, Bounds DEF InitRaises, TypeOK, DepthBefore
    <2>3. Go(x) /\ xact' = x /\ todo' \subseteq Tables
      BY <1>9, <2>1, <2>2, GoTodo DEF InitRaises, x
    <2>4. 0 \in 0 .. MaxRefs /\ "null" \in Pointers
      BY CacheAssumption DEF Pointers
    <2>5. TypeOK'
      BY <1>2, <1>9, <2>1, <2>2, <2>3, <2>4, Bounds DEF InitRaises, Forget, TypeOK, catvars
    <2>6. ASSUME NEW u \in Tables
          PROVE  depth'[u] <= xact.level /\ (value'[u] = "live" => view'[u] = depth'[u])
      <3>1. CASE u # t
        <4>1. depth'[u] = depth[u] /\ value'[u] = value[u] /\ view'[u] = view[u]
          BY <1>2, <1>9, <2>2, <3>1 DEF InitRaises, Forget, TypeOK
        <4> QED BY <1>3, <4>1
      <3>2. CASE u = t
        <4>1. depth'[u] \in {0, depth[u]} /\ value'[u] = "null"
          BY <1>2, <1>9, <2>2, <3>2 DEF InitRaises, TypeOK, DepthBefore
        <4> QED BY <1>3, <4>1
      <3> QED BY <3>1, <3>2
    <2> QED BY <1>2, <1>9, <2>1, <2>3, <2>5, <2>6, AccessStep DEF InitRaises
  <1> QED BY <1>1, <1>5, <1>6, <1>7, <1>8, <1>9

\* begin_remote_xact keeps IInv, whichever of begin and sub_begin raises.
LEMMA BeginRemoteXactStep ==
    ASSUME IInv, BeginRemoteXact
    PROVE  IInv'
  <1>1. xact.phase = "begin" /\ TypeOK /\ Coherent(xact) /\ xact \in Xact
    BY DEF BeginRemoteXact, BeginReturns, SubBeginReturns, GetInstanceReturns, BeginRaises,
           SubBeginRaises, SubBegin, IInv, TypeOK
  <1>2. /\ cur \in Tables /\ value[cur] = "live"
        /\ entOptions[cur] = options[cur] /\ entColumns[cur] = columns[cur]
    BY <1>1 DEF IInv, Fresh
  <1>3. /\ \A u \in Tables : depth[u] <= xact.level /\ depth[u] \in 0 .. MaxLevel
        /\ \A u \in Tables : value[u] = "live" => view[u] = depth[u]
        /\ xact.level \in 0 .. MaxLevel /\ xact.level >= 1
    BY <1>1, Bounds DEF IInv, InStep, TypeOK, Xact, Coherent, DeadPhases
  <1>4. CASE BeginReturns
    <2>1. /\ depth' \in [Tables -> 0 .. MaxLevel] /\ depth'[cur] = 1
          /\ \A u \in Tables \ {cur} : depth'[u] = depth[u]
      BY <1>1, <1>2, <1>4, Bounds DEF BeginReturns, TypeOK
    <2>2. /\ view' \in [Tables -> 0 .. MaxLevel] /\ view'[cur] = 1
          /\ \A u \in Tables \ {cur} : view'[u] = view[u]
      BY <1>1, <1>2, <1>4, Bounds DEF BeginReturns, TypeOK
    <2>3. /\ Go(xact) /\ xact' = xact /\ todo' \subseteq Tables
          /\ UNCHANGED <<cur, catvars, value, refs, entOptions, entColumns, ready, told,
                         merged, lost>>
      BY <1>1, <1>4, <2>1, GoTodo DEF BeginReturns
    <2>4. TypeOK' /\ Fresh'
      BY <1>1, <1>2, <2>1, <2>2, <2>3 DEF TypeOK, Fresh, catvars
    <2>5. \A u \in Tables : /\ depth'[u] <= xact.level
                            /\ value'[u] = "live" => view'[u] = depth'[u]
      BY <1>3, <2>1, <2>2, <2>3
    <2> QED BY <1>1, <2>3, <2>4, <2>5, AccessStep
  <1>5. ASSUME NEW x \in Xact, SubBegin(x), Coherent(x), cur' \in {cur, NULL},
               \/ x = xact /\ cur' = cur
               \/ x.phase \in {"abort", "subabort"} /\ x.level = xact.level
               \/ x.phase \in DeadPhases
        PROVE  IInv'
    <2>1. depth[cur] < xact.level /\ depth[cur] + 1 \in 0 .. MaxLevel /\ depth[cur] + 1 <= xact.level
      BY <1>2, <1>3, <1>5, Bounds DEF SubBegin
    <2>2. /\ depth' \in [Tables -> 0 .. MaxLevel] /\ depth'[cur] = depth[cur] + 1
          /\ \A u \in Tables \ {cur} : depth'[u] = depth[u]
      BY <1>1, <1>2, <1>5, <2>1 DEF SubBegin, TypeOK
    <2>3. /\ view' \in [Tables -> 0 .. MaxLevel] /\ view'[cur] = depth'[cur]
          /\ \A u \in Tables \ {cur} : view'[u] = view[u]
      BY <1>1, <1>2, <1>5, <2>1, <2>2 DEF SubBegin, TypeOK
    <2>4. /\ Go(x) /\ xact' = x /\ todo' \subseteq Tables
          /\ UNCHANGED <<catvars, value, refs, entOptions, entColumns, ready, told,
                         merged, lost>>
      BY <1>5, <2>2, GoTodo DEF SubBegin
    <2>5. TypeOK' /\ (x.phase = "begin" => Fresh')
      BY <1>1, <1>2, <1>5, <2>2, <2>3, <2>4 DEF TypeOK, Fresh, catvars, DeadPhases
    <2>6. \A u \in Tables : /\ depth'[u] <= xact.level
                            /\ value'[u] = "live" => view'[u] = depth'[u]
      BY <1>3, <2>1, <2>2, <2>3, <2>4
    <2>7. \/ x.phase \in {"run", "begin", "abort", "subabort"} /\ x.level = xact.level
          \/ x.phase \in DeadPhases
      BY <1>1, <1>5
    <2> QED BY <1>1, <1>5, <2>4, <2>5, <2>6, <2>7, AccessStep
  <1>6. CASE SubBeginReturns
    BY <1>1, <1>5, <1>6 DEF SubBeginReturns
  <1>7. ASSUME NEW c \in ReportCost, SubBeginRaises(c)
        PROVE  IInv'
    <2> DEFINE x == Throw(xact, c)
    <2>1. /\ x \in Xact /\ Coherent(x)
          /\ \/ x.phase \in {"abort", "subabort"} /\ x.level = xact.level
             \/ x.phase \in DeadPhases
      BY <1>1, AccessTargets
    <2> HIDE DEF x
    <2> QED BY <1>5, <1>7, <2>1 DEF SubBeginRaises, x
  <1>8. ASSUME NEW c \in ReportCost, BeginRaises(c)
        PROVE  IInv'
    BY <1>1, <1>8, ThrowStep DEF BeginRaises
  <1>9. CASE GetInstanceReturns
    <2> DEFINE x == [xact EXCEPT !.phase = "run"]
    <2>1. x \in Xact /\ Coherent(x) /\ x.phase = "run" /\ x.level = xact.level
      BY <1>1, AccessTargets
    <2> HIDE DEF x
    <2>2. /\ Go(x) /\ xact' = x /\ todo' \subseteq Tables /\ cur' = NULL
          /\ UNCHANGED <<catvars, value, depth, entOptions, entColumns, histvars>>
      BY <1>1, <1>9, <2>1, GoTodo DEF GetInstanceReturns, TypeOK, x
    <2>3. refs' \in [Tables -> 0 .. MaxRefs]
      <3>1. refs[cur] < MaxRefs => refs[cur] + 1 \in 0 .. MaxRefs
        BY <1>1, <1>2, CacheAssumption DEF TypeOK
      <3> QED BY <1>1, <1>2, <1>9, <3>1 DEF GetInstanceReturns, TypeOK
    <2>4. TypeOK'
      BY <1>1, <2>1, <2>2, <2>3 DEF TypeOK, catvars, histvars
    <2>5. \A u \in Tables : /\ depth'[u] <= xact.level
                            /\ value'[u] = "live" => view'[u] = depth'[u]
      BY <1>3, <2>2 DEF histvars
    <2> QED BY <1>1, <2>1, <2>2, <2>4, <2>5, AccessStep DEF histvars
  <1> QED BY <1>4, <1>6, <1>7, <1>8, <1>9 DEF BeginRemoteXact

\* A server process that starts again has nothing of the old one.
LEMMA RestartStep ==
    ASSUME IInv, Restart
    PROVE  IInv'
  <1>1. xact' = Idle /\ TodoSound' /\ todo' \subseteq Tables /\ Idle \in Xact /\ Coherent(Idle)
    BY GoTodo, RestOK, Bounds DEF Restart, EmptyHash
  <1>2. Idle.phase = "idle" /\ Idle.level = 0
    BY DEF Idle
  <1>3. TypeOK'
    BY <1>1, CacheAssumption, Bounds DEF Restart, EmptyHash, IInv, TypeOK, catvars, Pointers, Endings
  <1>4. InStep' /\ VotesFirst' /\ Fresh' /\ ToldSound' /\ NoPrepare'
    BY <1>1, <1>2 DEF Restart, EmptyHash, InStep, VotesFirst, Fresh, ToldSound, NoPrepare,
                      IdleClean, SubPhases
  <1> QED BY <1>1, <1>3, <1>4 DEF IInv

\* One visit of multicorn_subxact_callback whose hook returns.
LEMMA SubEndStep ==
    ASSUME IInv, xact.phase \in SubPhases, NEW t \in todo,
           depth' = [depth EXCEPT ![t] = @ - 1],
           view' = [view EXCEPT ![t] = xact.level - 1],
           merged' \subseteq Tables, todo' = todo \ {t},
           UNCHANGED <<xact, cur, catvars, value, refs, entOptions, entColumns,
                       ready, told, lost>>
    PROVE  IInv'
  <1>1. TypeOK /\ Coherent(xact) /\ t \in Tables
    BY DEF IInv, TypeOK
  <1>2. /\ xact.level \in 0 .. MaxLevel /\ xact.level >= 2 /\ MaxLevel \in Nat
        /\ depth[t] \in 0 .. MaxLevel
    BY <1>1, Bounds DEF TypeOK, Xact, Coherent
  <1>3. depth[t] = xact.level
    <2>1. depth[t] <= xact.level
      BY <1>1, <1>2 DEF IInv, InStep, SubPhases, DeadPhases
    <2>2. depth[t] >= xact.level
      BY DEF IInv, TodoSound
    <2> QED BY <1>2, <2>1, <2>2
  <1>4. xact.level - 1 \in 0 .. MaxLevel /\ xact.level - 1 < xact.level /\ xact.level - 1 <= xact.level
    BY <1>2
  <1>5. /\ depth' \in [Tables -> 0 .. MaxLevel] /\ depth'[t] = xact.level - 1
        /\ \A u \in Tables \ {t} : depth'[u] = depth[u]
    BY <1>1, <1>3, <1>4 DEF TypeOK
  <1>6. /\ view' \in [Tables -> 0 .. MaxLevel] /\ view'[t] = xact.level - 1
        /\ \A u \in Tables \ {t} : view'[u] = view[u]
    BY <1>1, <1>4 DEF TypeOK
  <1>7. TypeOK'
    BY <1>1, <1>5, <1>6 DEF TypeOK, catvars
  <1>8. InStep'
    <2>1. /\ \A u \in Tables : depth[u] <= xact.level
          /\ \A u \in Tables : value[u] = "live" => view[u] = depth[u]
          /\ \A u \in Tables : u \notin todo => depth[u] < xact.level
      BY <1>2 DEF IInv, InStep, SubPhases, DeadPhases
    <2>2. /\ \A u \in Tables : depth'[u] <= xact.level
          /\ \A u \in Tables : value'[u] = "live" => view'[u] = depth'[u]
          /\ \A u \in Tables : u \notin todo' => depth'[u] < xact.level
      BY <1>4, <1>5, <1>6, <2>1
    <2>3. xact.level # 0
      BY <1>2
    <2> QED BY <2>2, <2>3 DEF InStep, SubPhases
  <1>9. TodoSound'
    <2>1. \A u \in todo' : depth'[u] >= xact.level
      BY <1>1, <1>5 DEF IInv, TodoSound, TypeOK
    <2> QED BY <2>1 DEF TodoSound, SubPhases, TopPhases, CallbackPhases
  <1>10. \A u \in Tables : told[u] = "none"
    BY DEF IInv, ToldSound, SubPhases, DeadPhases
  <1>11. VotesFirst' /\ Fresh' /\ ToldSound'
    BY <1>10 DEF VotesFirst, Fresh, ToldSound, SubPhases
  <1>12. NoPrepare'
    BY DEF IInv, NoPrepare, IdleClean, SubPhases
  <1> QED BY <1>1, <1>7, <1>8, <1>9, <1>11, <1>12 DEF IInv

\* commit or rollback was called, and returned or raised.
LEMMA EndHookStep ==
    ASSUME IInv, xact.phase \in {"commit", "abort"}, NEW t \in todo,
           NEW ending \in {"commit", "rollback"}, EndHook(t, ending),
           \/ xact' = xact /\ todo' = todo \ {t}
           \/ \E c \in ReportCost : Go(Throw(xact, c))
    PROVE  IInv'
  <1>1. TypeOK /\ Coherent(xact) /\ t \in Tables /\ xact \in Xact /\ xact.level = 1
    BY DEF IInv, TypeOK, Coherent, TopPhases
  <1>2. /\ depth' \in [Tables -> 0 .. MaxLevel] /\ depth'[t] = 0
        /\ \A u \in Tables \ {t} : depth'[u] = depth[u]
    BY <1>1, Bounds DEF EndHook, TypeOK
  <1>3. /\ view' \in [Tables -> 0 .. MaxLevel] /\ view'[t] = 0
        /\ \A u \in Tables \ {t} : view'[u] = view[u]
    BY <1>1, Bounds DEF EndHook, TypeOK
  <1>4. /\ told' \in [Tables -> Endings]
        /\ \A u \in Tables \ {t} : told'[u] = told[u]
    BY <1>1 DEF EndHook, TypeOK, Endings
  <1>5. /\ \A u \in Tables : depth[u] <= 1
        /\ \A u \in Tables : value[u] = "live" => view[u] = depth[u]
    BY <1>1 DEF IInv, InStep, DeadPhases
  <1>6. /\ \A u \in Tables : depth'[u] <= 1
        /\ \A u \in Tables : value'[u] = "live" => view'[u] = depth'[u]
    BY <1>2, <1>3, <1>5 DEF EndHook
  <1>7. ASSUME xact' \in Xact, Coherent(xact'), todo' \subseteq Tables, TodoSound',
               xact'.phase \in {"commit", "abort", "panic"},
               xact'.phase # "panic" => xact'.level = 1,
               xact'.phase = "commit" => xact.phase = "commit"
        PROVE  IInv'
    <2>1. TypeOK'
      BY <1>1, <1>2, <1>3, <1>4, <1>7 DEF EndHook, TypeOK, catvars
    <2>2. InStep'
      BY <1>6, <1>7 DEF InStep, SubPhases, DeadPhases
    <2>3. VotesFirst'
      <3>1. CASE xact'.phase = "commit"
        <4>1. \A u \in Tables : depth[u] > 0 => u \in ready
          BY <1>7, <3>1 DEF IInv, VotesFirst
        <4>2. \A u \in Tables : depth'[u] > 0 => u \in ready'
          BY <1>2, <4>1 DEF EndHook
        <4> QED BY <4>2 DEF VotesFirst
      <3> QED BY <3>1 DEF VotesFirst
    <2>4. Fresh' /\ NoPrepare'
      BY <1>7 DEF Fresh, NoPrepare, IdleClean
    <2>5. ToldSound'
      <3>1. \A u \in Tables : told[u] # "none" => depth[u] = 0
        BY DEF IInv, ToldSound
      <3>2. \A u \in Tables : told'[u] # "none" => depth'[u] = 0
        BY <1>2, <1>4, <3>1
      <3> QED BY <1>7, <3>2 DEF ToldSound, DeadPhases
    <2> QED BY <1>7, <2>1, <2>2, <2>3, <2>4, <2>5 DEF IInv
  <1>8. CASE xact' = xact /\ todo' = todo \ {t}
    <2>1. TodoSound'
      <3>1. /\ \A u \in todo : depth[u] > 0
            /\ \A u \in Tables : u \notin todo => depth[u] = 0
        BY DEF IInv, TodoSound, TopPhases
      <3>2. /\ \A u \in todo' : depth'[u] > 0
            /\ \A u \in Tables : u \notin todo' => depth'[u] = 0
        BY <1>1, <1>2, <1>8, <3>1 DEF TypeOK
      <3> QED BY <1>8, <3>2 DEF TodoSound, CallbackPhases, SubPhases, TopPhases
    <2> QED BY <1>1, <1>7, <1>8, <2>1 DEF TypeOK
  <1>9. ASSUME NEW c \in ReportCost, Go(Throw(xact, c))
        PROVE  IInv'
    <2> DEFINE x == Throw(xact, c)
    <2>1. /\ x \in Xact /\ Coherent(x)
          /\ \/ x.phase = "panic"
             \/ x.phase \in {"abort", "subabort"} /\ x.level = 1
      BY <1>1, ThrowOK DEF Active, ReportCost, CallbackPhases, TopPhases
    <2> HIDE DEF x
    <2>2. x.phase # "subabort"
      <3>1. x.phase = "subabort" => 2 <= x.unwind /\ x.unwind <= 1
        BY <2>1 DEF Coherent, SubPhases
      <3> QED BY <2>1, <3>1 DEF Xact
    <2>3. xact' = x /\ todo' \subseteq Tables /\ TodoSound'
      BY <1>2, <1>9, <2>1, GoTodo DEF x
    <2> QED BY <1>7, <2>1, <2>2, <2>3
  <1> QED BY <1>8, <1>9

\* The loop is over: PostgreSQL goes on to the next event or to the client.
LEMMA CallbackReturnsStep ==
    ASSUME IInv, CallbackReturns
    PROVE  IInv'
  <1> DEFINE x == Delivered(xact)
  <1>1. /\ TypeOK /\ Coherent(xact) /\ xact \in Xact /\ xact.phase \in CallbackPhases
        /\ todo = {}
    BY DEF IInv, TypeOK, CallbackReturns
  <1>2. /\ x \in Xact /\ Coherent(x)
        /\ xact.phase = "precommit" => x.phase = "commit" /\ x.level = 1
        /\ xact.phase \in {"commit", "abort"} => x = Idle
        /\ x.phase = "subcommit" => x.after = xact.after
        /\ xact.phase \in SubPhases =>
               \/ x.phase \in {xact.phase, "run", "precommit", "abort"} /\ x.level = xact.level - 1
               \/ x.phase \in {"run", "failed"} /\ x.level = xact.level
               \/ x = Idle /\ xact.level = 2 /\ xact.after = "prepare"
    BY <1>1, DeliveredOK
  <1> HIDE DEF x
  <1>3. Idle.phase = "idle" /\ Idle.level = 0
    BY DEF Idle
  <1>4. /\ Go(x) /\ merged' = {}
        /\ UNCHANGED <<cur, catvars, entvars, view, ready, told, lost>>
    BY DEF CallbackReturns, x
  <1>5. /\ xact' = x /\ todo' \subseteq Tables /\ TodoSound'
        /\ x.phase \in SubPhases => \A u \in Tables : u \notin todo' => depth[u] < x.level
    BY <1>1, <1>2, <1>4, GoTodo DEF TypeOK, entvars
  <1>6. TypeOK'
    BY <1>1, <1>2, <1>4, <1>5 DEF TypeOK, catvars, entvars
  <1>7. /\ \A u \in Tables : value[u] = "live" => view[u] = depth[u]
        /\ \A u \in Tables : depth[u] \in 0 .. MaxLevel
        /\ xact.level \in 0 .. MaxLevel /\ x.level \in 0 .. MaxLevel /\ MaxLevel \in Nat
    BY <1>1, <1>2, Bounds DEF IInv, InStep, TypeOK, Xact, CallbackPhases, SubPhases, TopPhases, DeadPhases
  <1>8. CASE xact.phase \in SubPhases
    <2>1. /\ \A u \in Tables : depth[u] < xact.level
          /\ xact.level >= 2
      <3>1. xact.level >= 2
        BY <1>1, <1>8, Bounds DEF Xact, Coherent
      <3>2. \A u \in Tables : depth[u] < xact.level
        BY <1>1, <1>8 DEF IInv, InStep, SubPhases, DeadPhases
      <3> QED BY <3>1, <3>2
    <2>2. /\ \A u \in Tables : depth[u] <= IF x.level = 0 THEN 1 ELSE x.level
          /\ x.phase = "failed" => \A u \in Tables : depth[u] < x.level
      BY <1>2, <1>3, <1>7, <1>8, <2>1 DEF SubPhases
    <2>3. InStep'
      BY <1>4, <1>5, <1>7, <2>2 DEF InStep, entvars
    <2>4. x.phase \notin {"commit", "begin"}
      BY <1>2, <1>3, <1>8 DEF SubPhases
    <2>5. VotesFirst' /\ Fresh'
      BY <1>5, <2>4 DEF VotesFirst, Fresh
    <2>6. ToldSound'
      <3>1. \A u \in Tables : told[u] = "none"
        BY <1>8 DEF IInv, ToldSound, SubPhases, DeadPhases
      <3> QED BY <1>4, <3>1 DEF ToldSound
    <2>7. NoPrepare'
      <3>1. ASSUME "prepare" \notin Events
            PROVE  x.phase # "idle" /\ (x.phase = "subcommit" => x.after # "prepare")
        <4>1. xact.after # "prepare"
          BY <1>1, <1>8, <3>1 DEF IInv, NoPrepare, Coherent, SubPhases
        <4> QED BY <1>2, <1>8, <4>1 DEF SubPhases
      <3> QED BY <1>5, <3>1 DEF NoPrepare, IdleClean
    <2> QED BY <1>2, <1>5, <1>6, <2>3, <2>5, <2>6, <2>7 DEF IInv
  <1>9. CASE xact.phase = "precommit"
    <2>1. /\ \A u \in Tables : depth[u] <= 1
          /\ \A u \in Tables : depth[u] = 0 \/ u \in ready
      BY <1>1, <1>9 DEF IInv, InStep, TodoSound, DeadPhases, Coherent, TopPhases
    <2>2. InStep'
      BY <1>2, <1>4, <1>5, <1>7, <1>9, <2>1 DEF InStep, entvars, SubPhases
    <2>3. \A u \in Tables : depth[u] > 0 => u \in ready
      BY <1>7, <2>1
    <2>4. VotesFirst' /\ Fresh' /\ NoPrepare'
      BY <1>2, <1>4, <1>5, <1>9, <2>3 DEF VotesFirst, Fresh, NoPrepare, IdleClean, entvars
    <2>5. ToldSound'
      <3>1. \A u \in Tables : told[u] = "none"
        BY <1>9 DEF IInv, ToldSound, DeadPhases
      <3> QED BY <1>4, <3>1 DEF ToldSound
    <2> QED BY <1>2, <1>5, <1>6, <2>2, <2>4, <2>5 DEF IInv
  <1>10. CASE xact.phase \in {"commit", "abort"}
    <2>1. \A u \in Tables : depth[u] = 0
      BY <1>1, <1>10 DEF IInv, TodoSound
    <2>2. x.phase = "idle" /\ x.level = 0
      BY <1>2, <1>3, <1>10
    <2>3. InStep'
      BY <1>4, <1>5, <1>7, <2>1, <2>2 DEF InStep, entvars, SubPhases
    <2>4. VotesFirst' /\ Fresh' /\ NoPrepare' /\ ToldSound'
      BY <1>4, <1>5, <2>1, <2>2 DEF VotesFirst, Fresh, NoPrepare, IdleClean, ToldSound, entvars
    <2> QED BY <1>2, <1>5, <1>6, <2>3, <2>4 DEF IInv
  <1> QED BY <1>1, <1>8, <1>9, <1>10 DEF CallbackPhases, TopPhases

\* Every step of the two callbacks keeps IInv.
LEMMA CallbackStep ==
    ASSUME IInv, Callback
    PROVE  IInv'
  <1>1. TypeOK /\ Coherent(xact) /\ xact \in Xact
    BY DEF IInv, TypeOK
  <1>2. CASE CallbackReturns
    BY <1>2, CallbackReturnsStep
  <1>3. ASSUME NEW t \in Tables, SubCommitReturns(t)
        PROVE  IInv'
    <2>1. merged' \subseteq Tables
      BY <1>1, <1>3 DEF SubCommitReturns, TypeOK
    <2> QED BY <1>3, <2>1, SubEndStep DEF SubCommitReturns, SubPhases
  <1>4. ASSUME NEW t \in Tables, SubRollbackReturns(t)
        PROVE  IInv'
    <2>1. merged' \subseteq Tables
      BY <1>1, <1>4 DEF SubRollbackReturns, TypeOK
    <2> QED BY <1>4, <2>1, SubEndStep DEF SubRollbackReturns, SubPhases
  <1>5. ASSUME NEW t \in Tables, PreCommitReturns(t)
        PROVE  IInv'
    <2>1. TypeOK'
      BY <1>1, <1>5 DEF PreCommitReturns, TypeOK, catvars, entvars
    <2>2. TodoSound'
      BY <1>5 DEF PreCommitReturns, IInv, TodoSound, entvars, CallbackPhases, SubPhases, TopPhases
    <2>3. InStep' /\ VotesFirst' /\ Fresh' /\ ToldSound' /\ NoPrepare'
      BY <1>5 DEF PreCommitReturns, IInv, InStep, VotesFirst, Fresh, ToldSound, NoPrepare,
                  IdleClean, entvars, catvars, SubPhases, DeadPhases
    <2> QED BY <1>1, <1>5, <2>1, <2>2, <2>3 DEF PreCommitReturns, IInv
  <1>6. ASSUME NEW t \in Tables, CommitReturns(t)
        PROVE  IInv'
    BY <1>6, EndHookStep DEF CommitReturns
  <1>7. ASSUME NEW t \in Tables, RollbackReturns(t)
        PROVE  IInv'
    BY <1>7, EndHookStep DEF RollbackReturns
  <1>8. ASSUME NEW t \in Tables, HookCrashes(t)
        PROVE  IInv'
    <2> DEFINE x == Dead("crash")
    <2>1. x \in Xact /\ Coherent(x) /\ x.phase = "crash"
      BY RestOK DEF DeadPhases, Dead, Idle
    <2> HIDE DEF x
    <2>2. Go(x) /\ UNCHANGED <<cur, catvars, entvars, histvars>>
      BY <1>8 DEF HookCrashes, x
    <2>3. xact' = x /\ todo' \subseteq Tables /\ TodoSound'
      BY <1>1, <2>1, <2>2, GoTodo DEF TypeOK, entvars
    <2>4. TypeOK'
      BY <1>1, <2>1, <2>2, <2>3 DEF TypeOK, catvars, entvars, histvars
    <2>5. \A u \in Tables : told[u] # "none" => depth[u] = 0
      BY DEF IInv, ToldSound
    <2>6. InStep' /\ VotesFirst' /\ Fresh' /\ ToldSound' /\ NoPrepare'
      BY <2>1, <2>2, <2>3, <2>5 DEF InStep, VotesFirst, Fresh, ToldSound, NoPrepare, IdleClean,
                                    DeadPhases, entvars, histvars
    <2> QED BY <2>1, <2>3, <2>4, <2>6 DEF IInv
  <1>9. ASSUME NEW t \in Tables, NEW c \in ReportCost, SubHookRaises(t, c) \/ PreCommitRaises(t, c)
        PROVE  IInv'
    <2>1. /\ UNCHANGED <<cur, catvars, entvars, histvars>> /\ Go(Throw(xact, c))
          /\ xact.phase \in {"run", "begin", "precommit"} \union SubPhases
      BY <1>9 DEF SubHookRaises, PreCommitRaises, SubPhases
    <2> QED BY <1>1, <2>1, ThrowStep DEF TypeOK
  <1>10. ASSUME NEW t \in Tables, NEW c \in ReportCost, CommitRaises(t, c) \/ RollbackRaises(t, c)
         PROVE  IInv'
    BY <1>10, EndHookStep DEF CommitRaises, RollbackRaises
  <1> QED BY <1>2, <1>3, <1>4, <1>5, <1>6, <1>7, <1>8, <1>9, <1>10 DEF Callback

-----------------------------------------------------------------------------
(* The theorems.                                                           *)

\* IInv holds in every reachable state: no sequence of commands, errors and
\* raising hooks, however long, takes the cache out of step.
THEOREM Invariance == Spec => []IInv
  <1>1. Init => IInv
    BY InitIInv
  <1>2. IInv /\ [Next]_vars => IInv'
    <2> SUFFICES ASSUME IInv, [Next]_vars PROVE IInv'
      OBVIOUS
    <2>1. CASE Next
      BY <2>1, GetCacheEntryStep, BeginRemoteXactStep, CallbackStep, ClientStep, RestartStep
      DEF Next
    <2>2. CASE UNCHANGED vars
      BY <2>2 DEF vars, catvars, entvars, histvars, IInv, TypeOK, InStep, TodoSound, VotesFirst,
                  Fresh, ToldSound, NoPrepare, IdleClean
    <2> QED BY <2>1, <2>2
  <1> QED BY <1>1, <1>2, PTL DEF Spec

\* The variables keep their types; in particular xact_depth never goes below
\* zero or above the nesting depth of the transaction.
THEOREM TypeCorrect == Spec => []TypeOK
  BY Invariance, PTL DEF IInv

\* multicorn_subxact_callback keeps every instance in step with the nesting
\* of subtransactions.
THEOREM StaysInStep == Spec => []InStep
  BY Invariance, PTL DEF IInv

\* multicorn_xact_callback calls commit only when all instances have voted.
THEOREM VotesComeFirst == Spec => []VotesFirst
  BY Invariance, PTL DEF IInv

\* getCacheEntry never hands out an instance built from outdated options or
\* columns.
THEOREM AlwaysFresh == Spec => []Fresh
  BY Invariance, PTL DEF IInv

\* Without PREPARE TRANSACTION no entry keeps a positive xact_depth across
\* transactions, so begin is called in the next one.
THEOREM CleanBetweenTransactions ==
    ASSUME "prepare" \notin Events
    PROVE  Spec => []IdleClean
  <1>1. IInv => IdleClean
    BY DEF IInv, NoPrepare
  <1> QED BY <1>1, Invariance, PTL

-----------------------------------------------------------------------------
(* What a wrapper hears in one transaction: InstanceCache implements       *)
(* HookProtocol as long as nothing is altered in a transaction, none is    *)
(* prepared and commit does not raise, whatever else raises.               *)

\* Until commit or abort is announced, no instance has heard of it.
LEMMA NoneTold ==
    ASSUME IInv, xact.phase \notin {"commit", "abort", "idle"} \union DeadPhases
    PROVE  \A t \in Tables : told[t] = "none"
  BY DEF IInv, ToldSound

\* commit and rollback are called at most once per transaction on an
\* instance (xact_depth is cleared before errorCheck throws).
LEMMA ToldOnceStep ==
    ASSUME IInv, [Next]_vars, NEW t \in Tables, told[t] # "none", told'[t] # told[t]
    PROVE  xact.phase \in {"idle"} \union DeadPhases
  <1>1. Next /\ TypeOK
    BY DEF vars, histvars, IInv
  <1>2. depth[t] = 0 /\ xact.phase \in {"commit", "abort", "idle"} \union DeadPhases
    BY DEF IInv, ToldSound
  <1>3. ASSUME NEW u \in todo, xact.phase \in {"commit", "abort"}, NEW e, EndHook(u, e)
        PROVE  FALSE
    <2>1. depth[u] > 0 /\ u \in Tables
      BY <1>1, <1>3 DEF IInv, TodoSound, TypeOK, TopPhases
    <2>2. u # t
      BY <1>2, <2>1
    <2> QED BY <1>1, <1>3, <2>2 DEF EndHook, TypeOK
  <1>4. ASSUME Callback
        PROVE  FALSE
    <2>1. \E u \in Tables : \/ CommitReturns(u) \/ RollbackReturns(u)
                            \/ \E c \in ReportCost : CommitRaises(u, c) \/ RollbackRaises(u, c)
      BY <1>4 DEF Callback, CallbackReturns, SubCommitReturns, SubRollbackReturns, PreCommitReturns,
                  HookCrashes, SubHookRaises, PreCommitRaises, histvars
    <2> QED BY <1>3, <2>1 DEF CommitReturns, RollbackReturns, CommitRaises, RollbackRaises
  <1>5. CASE Client
    <2>1. StartTransaction
      BY <1>5 DEF Client, Savepoint, ReleaseSavepoint, RollbackToSavepoint, EnterHandlerBlock,
                  LeaveHandlerBlock, CommitTransaction, PrepareTransaction, RollbackTransaction,
                  StatementFails, LocalWrite, Alter, Command, histvars
    <2> QED BY <2>1 DEF StartTransaction
  <1>6. CASE GetCacheEntry
    BY <1>2, <1>6 DEF GetCacheEntry, GetCacheEntryHit, GetCacheEntryNew, GetCacheEntryCrashes,
                      GetClassRaises, InitRaises, histvars
  <1>7. CASE BeginRemoteXact
    BY <1>2, <1>7 DEF BeginRemoteXact, BeginReturns, SubBeginReturns, SubBeginRaises, SubBegin,
                      GetInstanceReturns, BeginRaises, histvars
  <1>8. CASE Restart
    BY <1>8 DEF Restart
  <1> QED BY <1>1, <1>4, <1>5, <1>6, <1>7, <1>8 DEF Next

\* An instance that has heard the end is in no loop.
LEMMA ToldIsVisited ==
    ASSUME IInv, NEW t \in Tables, told[t] # "none"
    PROVE  t \notin todo
  <1>1. depth[t] = 0 /\ xact.phase \in {"commit", "abort", "idle"} \union DeadPhases
    BY DEF IInv, ToldSound
  <1>2. CASE xact.phase \in {"commit", "abort"}
    BY <1>1, <1>2 DEF IInv, TodoSound, TopPhases
  <1>3. CASE xact.phase \notin {"commit", "abort"}
    BY <1>1, <1>3 DEF IInv, TodoSound, CallbackPhases, SubPhases, TopPhases, DeadPhases
  <1> QED BY <1>2, <1>3

\* An instance hears the end of a transaction at most once: no loop of
\* multicorn_xact_callback comes back to its entry.
THEOREM HeardOnce == Spec => ToldOnce
  <1>1. IInv /\ [Next]_vars =>
          [\A t \in Tables : told[t] # "none" =>
              /\ t \notin todo
              /\ told'[t] # told[t] => xact.phase \in {"idle"} \union DeadPhases]_vars
    BY ToldOnceStep, ToldIsVisited
  <1> QED BY <1>1, Invariance, PTL DEF Spec, ToldOnce

-----------------------------------------------------------------------------
(* Refinement.                                                             *)

\* In a calm environment an entry that getCacheEntry is about to replace
\* takes no part in the transaction.
LEMMA ReplacedIsIdle ==
    ASSUME IInv, Engaged, xact.phase = "run", NEW t \in Tables, ~Matches(t), ~CallCrashes(t)
    PROVE  depth[t] = 0 /\ view[t] = 0
  <1>1. depth[t] \in Nat
    BY Bounds DEF IInv, TypeOK
  <1>2. ~(depth[t] > 0)
    BY DEF Engaged, Matches, SameOptions, SameColumns
  <1>3. depth[t] = 0
    BY <1>1, <1>2
  <1>4. value[t] = "live" => view[t] = depth[t]
    BY DEF IInv, InStep, DeadPhases
  <1> QED BY <1>3, <1>4 DEF Engaged

\* A step that leaves entries, catalogs and history alone.
LEMMA EngagedQuiet ==
    ASSUME Engaged, UNCHANGED <<catvars, entvars, view>>, \A t \in Tables : told'[t] = "none"
    PROVE  Engaged'
  BY DEF Engaged, catvars, entvars

LEMMA EngagedGetCacheEntry ==
    ASSUME IInv, Engaged, GetCacheEntry
    PROVE  Engaged'
  <1>1. PICK t \in Tables :
          \/ GetCacheEntryHit(t) \/ GetCacheEntryNew(t) \/ GetCacheEntryCrashes(t)
          \/ \E c \in ReportCost : GetClassRaises(t, c) \/ InitRaises(t, c)
    BY DEF GetCacheEntry
  <1>2. xact.phase = "run" /\ TypeOK /\ told' = told /\ UNCHANGED catvars
    BY <1>1 DEF GetCacheEntryHit, GetCacheEntryNew, GetCacheEntryCrashes, GetClassRaises,
                InitRaises, IInv, histvars
  <1>3. \A u \in Tables : told'[u] = "none"
    BY <1>2, NoneTold DEF DeadPhases
  <1>4. CASE GetCacheEntryHit(t) \/ GetCacheEntryCrashes(t)
    BY <1>3, <1>4, EngagedQuiet DEF GetCacheEntryHit, GetCacheEntryCrashes, histvars
  <1>5. CASE GetCacheEntryNew(t)
    <2>1. /\ value'[t] = "live" /\ entOptions'[t] = options[t] /\ entColumns'[t] = columns[t]
          /\ \A u \in Tables \ {t} : /\ value'[u] = value[u] /\ depth'[u] = depth[u]
                                     /\ entOptions'[u] = entOptions[u]
                                     /\ entColumns'[u] = entColumns[u] /\ view'[u] = view[u]
      BY <1>2, <1>5 DEF GetCacheEntryNew, Forget, TypeOK
    <2> QED BY <1>2, <1>3, <2>1 DEF Engaged, catvars
  <1>6. ASSUME NEW c \in ReportCost, GetClassRaises(t, c) \/ InitRaises(t, c)
        PROVE  Engaged'
    <2>1. depth[t] = 0 /\ view[t] = 0
      BY <1>2, <1>6, ReplacedIsIdle DEF GetClassRaises, InitRaises
    <2>2. /\ depth'[t] = 0 /\ view'[t] = 0
      BY <1>2, <1>6, <2>1 DEF GetClassRaises, InitRaises, Forget, TypeOK, DepthBefore
    <2>3. \A u \in Tables \ {t} : /\ value'[u] = value[u] /\ depth'[u] = depth[u]
                                  /\ entOptions'[u] = entOptions[u]
                                  /\ entColumns'[u] = entColumns[u] /\ view'[u] = view[u]
      BY <1>2, <1>6 DEF GetClassRaises, InitRaises, Forget, TypeOK
    <2>4. ~(0 > 0)
      OBVIOUS
    <2> QED BY <1>2, <1>3, <2>2, <2>3, <2>4 DEF Engaged, catvars
  <1> QED BY <1>1, <1>4, <1>5, <1>6

LEMMA EngagedBegin ==
    ASSUME IInv, Engaged, BeginRemoteXact
    PROVE  Engaged'
  <1>1. /\ xact.phase = "begin" /\ TypeOK
        /\ UNCHANGED <<catvars, value, entOptions, entColumns, told>>
    BY DEF BeginRemoteXact, BeginReturns, SubBeginReturns, GetInstanceReturns, BeginRaises,
           SubBeginRaises, SubBegin, IInv, entvars, histvars
  <1>2. /\ cur \in Tables /\ value[cur] = "live"
        /\ entOptions[cur] = options[cur] /\ entColumns[cur] = columns[cur]
    BY <1>1 DEF IInv, Fresh
  <1>3. \A u \in Tables : told'[u] = "none"
    BY <1>1, NoneTold DEF DeadPhases
  <1>4. \A u \in Tables \ {cur} : depth'[u] = depth[u] /\ view'[u] = view[u]
    BY <1>1, <1>2 DEF BeginRemoteXact, BeginReturns, SubBeginReturns, GetInstanceReturns, BeginRaises,
           SubBeginRaises, SubBegin, TypeOK, entvars, histvars
  <1> QED BY <1>1, <1>2, <1>3, <1>4 DEF Engaged, catvars

LEMMA EngagedCallback ==
    ASSUME IInv, Calm, Engaged, Callback
    PROVE  Engaged'
  <1>1. TypeOK /\ UNCHANGED <<catvars, value, entOptions, entColumns>>
    BY DEF IInv, Callback, CallbackReturns, SubCommitReturns, SubRollbackReturns, PreCommitReturns,
           HookCrashes, SubHookRaises, PreCommitRaises, CommitReturns, RollbackReturns,
           CommitRaises, RollbackRaises, EndHook, entvars
  <1>2. ASSUME NEW t \in todo, xact.phase \in CallbackPhases,
               \A u \in Tables \ {t} : depth'[u] = depth[u] /\ view'[u] = view[u],
               xact'.phase = "commit" => \A u \in Tables : told'[u] # "rollback",
               xact'.phase = "abort" => \A u \in Tables : told'[u] # "commit"
        PROVE  Engaged'
    <2>1. t \in Tables /\ depth[t] > 0
      <3>1. CASE xact.phase \in SubPhases
        <4>1. t \in Tables /\ depth[t] \in Nat /\ xact.level \in Nat /\ xact.level >= 2
          BY <1>1, <1>2, <3>1, Bounds DEF TypeOK, IInv, Coherent, Xact
        <4>2. depth[t] >= xact.level
          BY <3>1 DEF IInv, TodoSound
        <4> QED BY <4>1, <4>2
      <3>2. CASE xact.phase \in TopPhases
        BY <1>1, <3>2 DEF TypeOK, IInv, TodoSound
      <3> QED BY <1>2, <3>1, <3>2 DEF CallbackPhases
    <2>2. value[t] = "live" /\ entOptions[t] = options[t] /\ entColumns[t] = columns[t]
      BY <2>1 DEF Engaged
    <2> QED BY <1>1, <1>2, <2>1, <2>2 DEF Engaged, catvars
  <1>3. ASSUME NEW t \in Tables, SubCommitReturns(t) \/ SubRollbackReturns(t)
        PROVE  Engaged'
    BY <1>1, <1>2, <1>3 DEF SubCommitReturns, SubRollbackReturns, TypeOK, CallbackPhases, SubPhases
  <1>4. ASSUME NEW t \in Tables, PreCommitReturns(t)
        PROVE  Engaged'
    BY <1>1, <1>2, <1>4 DEF PreCommitReturns, CallbackPhases, TopPhases, entvars
  <1>5. ASSUME NEW t \in Tables, NEW c \in ReportCost, SubHookRaises(t, c) \/ PreCommitRaises(t, c)
        PROVE  Engaged'
    <2>1. \A u \in Tables : told'[u] = "none"
      BY <1>5, NoneTold DEF SubHookRaises, PreCommitRaises, DeadPhases, histvars
    <2> QED BY <1>5, <2>1, EngagedQuiet DEF SubHookRaises, PreCommitRaises, histvars
  <1>6. ASSUME NEW t \in Tables, HookCrashes(t)
        PROVE  Engaged'
    <2>1. xact'.phase = "crash"
      BY <1>6 DEF HookCrashes, Go, Dead, Idle
    <2> QED BY <1>6, <2>1 DEF HookCrashes, Engaged, catvars, entvars, histvars
  <1>7. ASSUME NEW t \in Tables, CommitReturns(t)
        PROVE  Engaged'
    <2>1. \A u \in Tables : told'[u] # "rollback"
      BY <1>1, <1>7 DEF CommitReturns, EndHook, Engaged, TypeOK
    <2> QED BY <1>1, <1>2, <1>7, <2>1 DEF CommitReturns, EndHook, TypeOK, CallbackPhases, TopPhases
  <1>8. ASSUME NEW t \in Tables, RollbackReturns(t) \/ \E c \in ReportCost : RollbackRaises(t, c)
        PROVE  Engaged'
    <2>1. xact.phase = "abort" /\ t \in todo /\ EndHook(t, "rollback")
      BY <1>8 DEF RollbackReturns, RollbackRaises
    <2>2. \A u \in Tables : told'[u] # "commit"
      BY <1>1, <2>1 DEF EndHook, Engaged, TypeOK
    <2>3. xact'.phase # "commit"
      <3>1. CASE RollbackReturns(t)
        BY <2>1, <3>1 DEF RollbackReturns
      <3>2. ASSUME NEW c \in ReportCost, RollbackRaises(t, c)
            PROVE  xact'.phase # "commit"
        <4>1. Throw(xact, c).phase \in {"panic", "abort", "subabort"}
          BY <1>1, <2>1, ThrowOK DEF IInv, TypeOK, Active, ReportCost, CallbackPhases, TopPhases
        <4> QED BY <3>2, <4>1 DEF RollbackRaises, Go
      <3> QED BY <1>8, <3>1, <3>2
    <2> QED BY <1>1, <1>2, <2>1, <2>2, <2>3 DEF EndHook, TypeOK, CallbackPhases, TopPhases
  <1>9. ASSUME NEW t \in Tables, NEW c \in ReportCost, CommitRaises(t, c)
        PROVE  FALSE
    <2>1. depth[t] > 0
      BY <1>9 DEF CommitRaises, IInv, TodoSound, TopPhases
    <2> QED BY <1>9, <2>1 DEF CommitRaises, CallRaises, Raises, Calm, Engaged
  <1>10. CASE CallbackReturns
    <2>1. UNCHANGED <<catvars, entvars, view, told>> /\ xact.phase \in CallbackPhases
      BY <1>10 DEF CallbackReturns
    <2>2. CASE xact.phase \in {"commit", "abort"}
      <3>1. xact'.phase = "idle"
        BY <1>10, <2>2, DeliveredOK DEF CallbackReturns, Go, IInv, TypeOK, Idle
      <3> QED BY <2>1, <3>1 DEF Engaged, catvars, entvars
    <2>3. CASE xact.phase \notin {"commit", "abort"}
      <3>1. \A u \in Tables : told'[u] = "none"
        BY <2>1, <2>3, NoneTold DEF CallbackPhases, SubPhases, TopPhases, DeadPhases
      <3> QED BY <2>1, <3>1, EngagedQuiet
    <2> QED BY <2>2, <2>3
  <1> QED BY <1>3, <1>4, <1>5, <1>6, <1>7, <1>8, <1>9, <1>10 DEF Callback

LEMMA EngagedClient ==
    ASSUME IInv, Calm, Engaged, Client
    PROVE  Engaged'
  <1>1. CASE StartTransaction
    BY <1>1, EngagedQuiet DEF StartTransaction
  <1>2. ASSUME NEW t \in Tables, Alter(t)
        PROVE  Engaged'
    <2>1. xact.phase = "idle" /\ UNCHANGED <<xact, entvars, histvars>>
      BY <1>2 DEF Alter, Calm
    <2>2. \A u \in Tables : depth[u] = 0
      BY <2>1 DEF IInv, NoPrepare, IdleClean, Calm
    <2>3. ~(0 > 0)
      OBVIOUS
    <2> QED BY <2>1, <2>2, <2>3 DEF Engaged, entvars, histvars
  <1>3. CASE ~StartTransaction /\ \A t \in Tables : ~Alter(t)
    <2>1. xact.phase \in {"run", "failed"} /\ UNCHANGED <<cur, catvars, entvars, histvars>>
      BY <1>3 DEF Client, Savepoint, ReleaseSavepoint, RollbackToSavepoint, EnterHandlerBlock,
                  LeaveHandlerBlock, CommitTransaction, PrepareTransaction, RollbackTransaction,
                  StatementFails, LocalWrite, Command, AtPrompt, AtTop, Running
    <2>2. \A t \in Tables : told'[t] = "none"
      BY <2>1, NoneTold DEF DeadPhases, histvars
    <2> QED BY <2>1, <2>2, EngagedQuiet DEF histvars
  <1> QED BY <1>1, <1>2, <1>3

LEMMA EngagedStep ==
    ASSUME IInv, Calm, Engaged, [Next]_vars
    PROVE  Engaged'
  <1>1. CASE Restart
    <2>1. xact'.phase = "idle"
      BY <1>1 DEF Restart, Go, Idle
    <2>2. ~(0 > 0)
      OBVIOUS
    <2> QED BY <1>1, <2>1, <2>2 DEF Restart, EmptyHash, Engaged
  <1>2. CASE UNCHANGED vars
    BY <1>2 DEF vars, Engaged, catvars, entvars, histvars
  <1> QED
    BY <1>1, <1>2, EngagedGetCacheEntry, EngagedBegin, EngagedCallback, EngagedClient DEF Next

\* A step the instances do not notice, or which ends the server process.
LEMMA Unnoticed ==
    ASSUME UNCHANGED <<view, ready, told>>, xact.phase \notin DeadPhases
    PROVE  [Protocol!ProtocolNext]_(Protocol!pvars)
  <1>1. CASE xact'.phase \in DeadPhases
    <2>1. Protocol!HCrash
      BY <1>1 DEF Protocol!HCrash
    <2> QED BY <2>1 DEF Protocol!ProtocolNext
  <1>2. CASE xact'.phase \notin DeadPhases
    BY <1>2 DEF Protocol!pvars
  <1> QED BY <1>1, <1>2

\* Every step of the two callbacks is a step of the protocol.
LEMMA CallbackRefines ==
    ASSUME IInv, Engaged, Calm, Callback
    PROVE  [Protocol!ProtocolNext]_(Protocol!pvars)
  <1>1. TypeOK /\ Coherent(xact) /\ xact.phase \in CallbackPhases /\ xact.phase \notin DeadPhases
    BY DEF IInv, Callback, CallbackReturns, SubCommitReturns, SubRollbackReturns, PreCommitReturns,
           HookCrashes, SubHookRaises, PreCommitRaises, CommitReturns, RollbackReturns,
           CommitRaises, RollbackRaises, CallbackPhases, SubPhases, TopPhases, DeadPhases
  <1>2. ASSUME NEW t \in Tables, SubCommitReturns(t) \/ SubRollbackReturns(t)
        PROVE  [Protocol!ProtocolNext]_(Protocol!pvars)
    <2>1. /\ xact.phase \in SubPhases /\ t \in todo /\ value[t] = "live"
          /\ view' = [view EXCEPT ![t] = xact.level - 1]
          /\ UNCHANGED <<xact, ready, told>>
      BY <1>2 DEF SubCommitReturns, SubRollbackReturns, SubPhases, CallReturns
    <2>2. /\ depth[t] \in Nat /\ xact.level \in Nat /\ xact.level >= 2
          /\ depth[t] >= xact.level /\ view[t] = depth[t]
      BY <1>1, <2>1, Bounds DEF TypeOK, IInv, Coherent, Xact, InStep, TodoSound
    <2>3. depth[t] <= xact.level
      BY <1>1, <2>2 DEF IInv, InStep
    <2>4. view[t] > 1 /\ xact.level - 1 = view[t] - 1
      BY <2>2, <2>3
    <2>5. Protocol!HSubEnd(t)
      BY <1>1, <2>1, <2>4 DEF Protocol!HSubEnd
    <2> QED BY <2>5 DEF Protocol!ProtocolNext
  <1>3. ASSUME NEW t \in Tables, t \in todo, xact.phase \in TopPhases
        PROVE  value[t] = "live" /\ view[t] = 1
    <2>1. depth[t] \in Nat /\ depth[t] > 0 /\ depth[t] <= 1
      BY <1>1, <1>3, Bounds DEF TypeOK, IInv, Coherent, InStep, TodoSound
    <2>2. value[t] = "live"
      BY <2>1 DEF Engaged
    <2>3. view[t] = depth[t]
      BY <1>1, <2>2 DEF IInv, InStep
    <2> QED BY <2>1, <2>2, <2>3
  <1>4. ASSUME NEW t \in Tables, PreCommitReturns(t)
        PROVE  [Protocol!ProtocolNext]_(Protocol!pvars)
    <2>1. Protocol!HPreCommit(t)
      BY <1>1, <1>3, <1>4 DEF PreCommitReturns, TopPhases, Protocol!HPreCommit
    <2> QED BY <2>1 DEF Protocol!ProtocolNext
  <1>5. ASSUME NEW t \in Tables, CommitReturns(t)
        PROVE  [Protocol!ProtocolNext]_(Protocol!pvars)
    <2>1. xact.phase = "commit" /\ t \in todo /\ EndHook(t, "commit") /\ xact' = xact
      BY <1>5 DEF CommitReturns
    <2>2. view[t] = 1 /\ value[t] = "live"
      BY <1>3, <2>1 DEF TopPhases
    <2>3. \A u \in Tables : view[u] > 0 => u \in ready
      <3>1. \A u \in Tables : depth[u] > 0 => u \in ready
        BY <2>1 DEF IInv, VotesFirst
      <3>2. \A u \in Tables : value[u] = "live" => view[u] = depth[u]
        BY <1>1 DEF IInv, InStep
      <3>3. \A u \in Tables : value[u] # "live" => view[u] = 0
        BY DEF Engaged
      <3> QED BY <3>1, <3>2, <3>3
    <2>4. \A u \in Tables : told[u] # "rollback"
      BY <2>1 DEF Engaged
    <2>5. /\ view' = [view EXCEPT ![t] = 0] /\ told' = [told EXCEPT ![t] = "commit"]
          /\ ready' = ready
      BY <1>1, <2>1, <2>2 DEF EndHook
    <2>6. Protocol!HCommit(t)
      BY <1>1, <2>2, <2>3, <2>4, <2>5 DEF Protocol!HCommit
    <2> QED BY <2>6 DEF Protocol!ProtocolNext
  <1>6. ASSUME NEW t \in Tables, RollbackReturns(t) \/ \E c \in ReportCost : RollbackRaises(t, c)
        PROVE  [Protocol!ProtocolNext]_(Protocol!pvars)
    <2>1. xact.phase = "abort" /\ t \in todo /\ EndHook(t, "rollback")
      BY <1>6 DEF RollbackReturns, RollbackRaises
    <2>2. view[t] = 1 /\ value[t] = "live"
      BY <1>3, <2>1 DEF TopPhases
    <2>3. \A u \in Tables : told[u] # "commit"
      BY <2>1 DEF Engaged
    <2>4. /\ view' = [view EXCEPT ![t] = 0] /\ told' = [told EXCEPT ![t] = "rollback"]
          /\ ready' = ready
      BY <1>1, <2>1, <2>2 DEF EndHook
    <2>5. Protocol!HRollback(t)
      BY <1>1, <2>2, <2>3, <2>4 DEF Protocol!HRollback
    <2> QED BY <2>5 DEF Protocol!ProtocolNext
  <1>7. ASSUME NEW t \in Tables, NEW c \in ReportCost, CommitRaises(t, c)
        PROVE  FALSE
    BY <1>3, <1>7 DEF CommitRaises, CallRaises, Raises, Calm, TopPhases
  <1>8. ASSUME \/ CallbackReturns
               \/ \E t \in Tables : \/ HookCrashes(t)
                                     \/ \E c \in ReportCost : SubHookRaises(t, c) \/ PreCommitRaises(t, c)
        PROVE  [Protocol!ProtocolNext]_(Protocol!pvars)
    BY <1>1, <1>8, Unnoticed DEF CallbackReturns, HookCrashes, SubHookRaises, PreCommitRaises, histvars
  <1> QED BY <1>2, <1>4, <1>5, <1>6, <1>7, <1>8 DEF Callback

\* Every step of the detailed specification is a step of the protocol.
LEMMA StepRefines ==
    ASSUME IInv, Engaged, Calm, [Next]_vars
    PROVE  [Protocol!ProtocolNext]_(Protocol!pvars)
  <1>1. TypeOK /\ Coherent(xact)
    BY DEF IInv
  <1>2. \A t \in Tables : xact.phase \notin DeadPhases => (depth[t] > 0 <=> view[t] > 0)
    <2>1. \A t \in Tables : xact.phase \notin DeadPhases /\ value[t] = "live" => view[t] = depth[t]
      BY DEF IInv, InStep
    <2>2. \A t \in Tables : depth[t] > 0 => value[t] = "live"
      BY DEF Engaged
    <2>3. \A t \in Tables : value[t] # "live" => view[t] = 0
      BY DEF Engaged
    <2> QED BY <2>1, <2>2, <2>3
  <1>3. CASE UNCHANGED vars
    BY <1>3 DEF vars, histvars, Protocol!pvars
  <1>4. CASE GetCacheEntry
    <2>1. PICK t \in Tables :
            \/ GetCacheEntryHit(t) \/ GetCacheEntryNew(t) \/ GetCacheEntryCrashes(t)
            \/ \E c \in ReportCost : GetClassRaises(t, c) \/ InitRaises(t, c)
      BY <1>4 DEF GetCacheEntry
    <2>2. xact.phase = "run"
      BY <2>1 DEF GetCacheEntryHit, GetCacheEntryNew, GetCacheEntryCrashes, GetClassRaises, InitRaises
    <2>3. UNCHANGED <<ready, told>>
      BY <2>1 DEF GetCacheEntryHit, GetCacheEntryNew, GetCacheEntryCrashes, GetClassRaises,
                  InitRaises, histvars
    <2>4. CASE GetCacheEntryHit(t) \/ GetCacheEntryCrashes(t)
      BY <2>2, <2>4, Unnoticed DEF GetCacheEntryHit, GetCacheEntryCrashes, histvars, DeadPhases
    <2>5. CASE ~(GetCacheEntryHit(t) \/ GetCacheEntryCrashes(t))
      <3>1. view[t] = 0
        BY <2>1, <2>2, <2>5, ReplacedIsIdle DEF GetCacheEntryNew, GetClassRaises, InitRaises
      <3>2. view' = view
        BY <1>1, <2>1, <2>5, <3>1 DEF GetCacheEntryNew, GetClassRaises, InitRaises, Forget, TypeOK
      <3> QED BY <2>2, <2>3, <3>2, Unnoticed DEF DeadPhases
    <2> QED BY <2>4, <2>5
  <1>5. CASE BeginRemoteXact
    <2>1. xact.phase = "begin" /\ cur \in Tables /\ value[cur] = "live"
      BY <1>5 DEF BeginRemoteXact, BeginReturns, SubBeginReturns, GetInstanceReturns, BeginRaises,
                  SubBeginRaises, SubBegin, IInv, Fresh
    <2>2. view[cur] = depth[cur] /\ told[cur] = "none"
      BY <2>1, NoneTold DEF IInv, InStep, DeadPhases
    <2>3. CASE BeginReturns
      <3>1. Protocol!HBegin(cur)
        BY <2>1, <2>2, <2>3 DEF BeginReturns, Go, Protocol!HBegin, DeadPhases
      <3> QED BY <2>1, <3>1 DEF Protocol!ProtocolNext
    <2>4. ASSUME NEW x, SubBegin(x)
          PROVE  [Protocol!ProtocolNext]_(Protocol!pvars)
      <3>1. depth'[cur] = depth[cur] + 1
        BY <1>1, <2>1, <2>4 DEF SubBegin, TypeOK
      <3>2. Protocol!HSubBegin(cur)
        BY <2>1, <2>2, <2>4, <3>1 DEF SubBegin, Protocol!HSubBegin, DeadPhases
      <3> QED BY <2>1, <3>2 DEF Protocol!ProtocolNext
    <2>5. ASSUME GetInstanceReturns \/ \E c \in ReportCost : BeginRaises(c)
          PROVE  [Protocol!ProtocolNext]_(Protocol!pvars)
      BY <2>1, <2>5, Unnoticed DEF GetInstanceReturns, BeginRaises, histvars, DeadPhases
    <2> QED BY <1>5, <2>3, <2>4, <2>5 DEF BeginRemoteXact, SubBeginReturns, SubBeginRaises
  <1>6. CASE Callback
    BY <1>6, CallbackRefines
  <1>7. CASE StartTransaction
    <2>1. \A t \in Tables : view[t] = 0
      <3>1. \A t \in Tables : depth[t] = 0
        BY <1>7 DEF StartTransaction, IInv, NoPrepare, IdleClean, Calm
      <3>2. \A t \in Tables : value[t] = "live" => view[t] = depth[t]
        BY <1>7 DEF StartTransaction, IInv, InStep, DeadPhases
      <3> QED BY <3>1, <3>2 DEF Engaged
    <2>2. xact.phase \notin DeadPhases /\ xact'.phase \notin DeadPhases
      BY <1>7 DEF StartTransaction, Go, Started, Idle, DeadPhases
    <2>3. Protocol!HNewXact
      BY <1>7, <2>1, <2>2 DEF StartTransaction, Protocol!HNewXact
    <2> QED BY <2>3 DEF Protocol!ProtocolNext
  <1>8. CASE Client /\ ~StartTransaction
    <2>1. xact.phase \in {"run", "failed", "idle"} /\ UNCHANGED <<view, ready, told>>
      BY <1>8 DEF Client, Savepoint, ReleaseSavepoint, RollbackToSavepoint, EnterHandlerBlock,
                  LeaveHandlerBlock, CommitTransaction, PrepareTransaction, RollbackTransaction,
                  StatementFails, LocalWrite, Command, AtPrompt, AtTop, Running, Alter, histvars
    <2> QED BY <2>1, Unnoticed DEF DeadPhases
  <1>9. CASE Restart
    <2>1. xact'.phase \notin DeadPhases
      BY <1>9 DEF Restart, Go, Idle, DeadPhases
    <2>2. Protocol!HRestart
      BY <1>9, <2>1 DEF Restart, Protocol!HRestart
    <2> QED BY <2>2 DEF Protocol!ProtocolNext
  <1> QED BY <1>3, <1>4, <1>5, <1>6, <1>7, <1>8, <1>9 DEF Next

\* InstanceCache implements the protocol of the documented transaction hooks:
\* begin first and once, sub_begin and its end one level at a time,
\* pre_commit on all before commit on any, commit on all or rollback on all.
THEOREM HooksRefineProtocol ==
    ASSUME Calm
    PROVE  Spec => HooksFollowProtocol
  <1>1. Init => Engaged /\ Protocol!ProtocolInit
    <2>1. ~(0 > 0)
      OBVIOUS
    <2>2. Init => xact.phase = "idle"
      BY DEF Init, Idle
    <2> QED BY <2>1, <2>2 DEF Init, Engaged, Protocol!ProtocolInit, DeadPhases
  <1>2. IInv /\ Engaged /\ [Next]_vars => Engaged'
    BY EngagedStep
  <1>3. IInv /\ Engaged /\ [Next]_vars => [Protocol!ProtocolNext]_(Protocol!pvars)
    BY StepRefines
  <1> QED BY <1>1, <1>2, <1>3, Invariance, PTL DEF Spec, HooksFollowProtocol, Protocol!ProtocolSpec

\* No transaction is committed for one wrapper and rolled back for another.
THEOREM SameVerdict ==
    ASSUME Calm
    PROVE  Spec => []OneVerdict
  <1>1. Init => OneVerdict
    BY DEF Init, OneVerdict
  <1>2. TypeOK /\ OneVerdict /\ [Protocol!ProtocolNext]_(Protocol!pvars) => OneVerdict'
    <2> SUFFICES ASSUME TypeOK, OneVerdict, [Protocol!ProtocolNext]_(Protocol!pvars)
                 PROVE  OneVerdict'
      OBVIOUS
    <2>1. ASSUME NEW t \in Tables, Protocol!HCommit(t) \/ Protocol!HRollback(t)
          PROVE  OneVerdict'
      BY <2>1 DEF Protocol!HCommit, Protocol!HRollback, OneVerdict, TypeOK
    <2>2. CASE Protocol!HNewXact \/ Protocol!HRestart
      BY <2>2 DEF Protocol!HNewXact, Protocol!HRestart, OneVerdict
    <2>3. CASE told' = told
      BY <2>3 DEF OneVerdict
    <2> QED BY <2>1, <2>2, <2>3 DEF Protocol!ProtocolNext, Protocol!pvars, Protocol!HBegin,
              Protocol!HSubBegin, Protocol!HSubEnd, Protocol!HPreCommit, Protocol!HCrash
  <1> QED BY <1>1, <1>2, TypeCorrect, HooksRefineProtocol, PTL
          DEF Spec, HooksFollowProtocol, Protocol!ProtocolSpec
=============================================================================
