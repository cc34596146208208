------------------------------- MODULE PgXact -------------------------------
(***************************************************************************)
(* PostgreSQL's transaction manager, as far as multicorn's two callbacks   *)
(* can see it.  None of this code is in the repository: it is modelled     *)
(* from the events that multicorn_xact_callback and                        *)
(* multicorn_subxact_callback register for, from                           *)
(* GetCurrentTransactionNestLevel(), and from the way errorCheck() throws. *)
(*                                                                         *)
(* A transaction state is a record x:                                      *)
(*   phase      what the backend is doing ("begin": multicorn is inside    *)
(*              begin_remote_xact; the five callback phases are named for  *)
(*              the event being delivered);                                *)
(*   level      GetCurrentTransactionNestLevel(), 0 outside a transaction; *)
(*   internals  how many of the innermost levels are subtransactions that  *)
(*              a procedural language opened (a block with a handler);     *)
(*   unwind     the outermost level the running command ends;              *)
(*   after      what follows once level `unwind' has ended;                *)
(*   errs       entries in use on the stack of pending error reports;      *)
(*   xid        the transaction wrote locally and owns a transaction id.   *)
(***************************************************************************)
EXTENDS Naturals

CONSTANTS
    MaxLevel,      \* bound on the nesting of subtransactions
    ErrStackSize   \* pending error reports the server can hold (5)

ASSUME PgXactAssumption ==
    /\ MaxLevel \in Nat \ {0}
    /\ ErrStackSize \in Nat \ {0}

SubPhases == {"subcommit", "subabort"}
TopPhases == {"precommit", "commit", "abort"}
CallbackPhases == SubPhases \union TopPhases
RestPhases == {"idle", "run", "failed"}
DeadPhases == {"panic", "crash"}
Phases == CallbackPhases \union RestPhases \union DeadPhases \union {"begin"}

Afters == {"none", "run", "internal", "commit", "prepare",
           "release", "restart", "failed", "abort"}

Xact == [phase : Phases, level : 0 .. MaxLevel, internals : 0 .. MaxLevel,
         unwind : 0 .. MaxLevel, after : Afters, errs : 0 .. ErrStackSize,
         xid : {"none", "assigned"}]

Idle == [phase |-> "idle", level |-> 0, internals |-> 0, unwind |-> 0,
         after |-> "none", errs |-> 0, xid |-> "none"]

Dead(p) == [Idle EXCEPT !.phase = p]

Enter(x, p, u, a) == [x EXCEPT !.phase = p, !.unwind = u, !.after = a]

\* How the fields of a transaction state fit together.
Coherent(x) ==
    /\ x.phase \in {"idle"} \union DeadPhases => x.level = 0
    /\ x.phase \in {"run", "begin"} => x.level >= 1 /\ x.internals < x.level
    /\ x.phase = "failed" => x.level >= 2 /\ x.internals < x.level
    /\ x.phase \in TopPhases => x.level = 1 /\ x.internals = 0
    /\ x.phase \in SubPhases =>
          /\ 2 <= x.unwind /\ x.unwind <= x.level /\ x.internals < x.level
          /\ x.unwind < x.level => x.internals = 0
    /\ x.phase = "subcommit" =>
          /\ x.after \in {"run", "internal", "commit", "prepare"}
          /\ x.internals > 0 <=> x.after = "internal"
          /\ x.after \in {"commit", "prepare"} => x.unwind = 2
    /\ x.phase = "subabort" =>
          /\ x.after \in {"release", "restart", "failed", "abort"}
          /\ x.after = "release" => x.internals > 0
          /\ x.after \in {"restart", "abort"} => x.internals = 0
          /\ x.after = "abort" => x.unwind = 2

-----------------------------------------------------------------------------
(* Commands.                                                               *)

Started == [Idle EXCEPT !.phase = "run", !.level = 1]

Pushed(x, internal) ==
    [x EXCEPT !.level = @ + 1, !.internals = IF internal THEN @ + 1 ELSE 0]

\* RELEASE of every level down to u, or the normal end of a handler block.
Release(x, u) == Enter(x, "subcommit", u, "run")
ReleaseInternal(x) == Enter(x, "subcommit", x.level, "internal")

\* COMMIT and PREPARE TRANSACTION first commit the open subtransactions.
Finish(x, how) ==
    IF x.level > 1 THEN Enter(x, "subcommit", 2, how)
    ELSE IF how = "commit" THEN Enter(x, "precommit", 0, "none")
    ELSE Idle

AbortAll(x) ==
    IF x.level = 1 THEN [Enter(x, "abort", 0, "none") EXCEPT !.internals = 0]
    ELSE [Enter(x, "subabort", 2, "abort") EXCEPT !.internals = 0]

\* The innermost level of a failed subtransaction has been aborted already.
Popped(x) == IF x.phase = "failed" THEN [x EXCEPT !.level = @ - 1] ELSE x

RollbackTo(x, u) ==
    IF x.phase = "failed" /\ x.level = u
    THEN [Enter(x, "run", 0, "none") EXCEPT !.internals = 0]
    ELSE [Enter(Popped(x), "subabort", u, "restart") EXCEPT !.internals = 0]

-----------------------------------------------------------------------------
(* Errors.                                                                 *)

\* Abort the levels down to u and leave level u failed, waiting for the
\* client's ROLLBACK; level 1 fails as a whole.
AbortFrom(x, u) ==
    IF u <= 1 THEN AbortAll(x) ELSE Enter(x, "subabort", u, "failed")

\* The main loop caught an error: a level that was being released or
\* restarted is aborted together with the level around it.
AbortCurrent(x) ==
    CASE x.phase \in {"run", "begin"} -> AbortFrom(x, x.level)
      [] x.phase = "subcommit" /\ x.after = "run" -> AbortFrom(x, x.unwind - 1)
      [] x.phase = "subabort" /\ x.after = "restart" -> AbortFrom(x, x.unwind - 1)
      [] x.phase = "subabort" /\ x.after = "release" -> AbortFrom(x, x.level)
      [] x.phase = "subabort" /\ x.after = "failed" -> AbortFrom(x, x.unwind)
      [] OTHER -> AbortAll(x)

\* A handler block catches what is thrown inside it.
Caught(x) ==
    \/ x.phase \in {"run", "begin"} /\ x.internals > 0
    \/ x.phase = "subcommit" /\ x.after = "internal"

\* An ERROR that occupies c entries of the report stack.  The reports of
\* errors thrown while aborting pile up until the abort is over; a full
\* stack is a PANIC, and so is aborting a transaction whose id is already
\* marked committed.
Throw(x, c) ==
    CASE Caught(x) -> [Enter(x, "subabort", x.level, "release") EXCEPT !.errs = 0]
      [] ~Caught(x) /\ \/ x.errs + c > ErrStackSize
                       \/ x.phase = "commit" /\ x.xid = "assigned" -> Dead("panic")
      [] OTHER -> [AbortCurrent(x) EXCEPT !.errs = x.errs + c]

-----------------------------------------------------------------------------
(* All callbacks of the event being delivered have returned.               *)

SubCommitted(x) ==
    LET y == [x EXCEPT !.level = @ - 1] IN
    CASE x.level > x.unwind    -> y
      [] x.level <= x.unwind /\ x.after = "internal" ->
             [Enter(y, "run", 0, "none") EXCEPT !.internals = @ - 1]
      [] x.level <= x.unwind /\ x.after = "commit" ->
             Enter(y, "precommit", 0, "none")
      [] x.level <= x.unwind /\ x.after = "prepare" -> Idle
      [] OTHER -> Enter(y, "run", 0, "none")

SubAborted(x) ==
    LET y == [x EXCEPT !.level = @ - 1] IN
    CASE x.level > x.unwind    -> y
      [] x.level <= x.unwind /\ x.after = "release" ->
             [Enter(y, "run", 0, "none") EXCEPT !.internals = @ - 1]
      [] x.level <= x.unwind /\ x.after = "abort" -> Enter(y, "abort", 0, "none")
      [] x.level <= x.unwind /\ x.after = "restart" -> Enter(x, "run", 0, "none")
      [] OTHER -> [Enter(x, "failed", 0, "none") EXCEPT !.errs = 0]

Delivered(x) ==
    CASE x.phase = "subcommit" -> SubCommitted(x)
      [] x.phase = "subabort"  -> SubAborted(x)
      [] x.phase = "precommit" -> Enter(x, "commit", 0, "none")
      [] OTHER -> Idle
=============================================================================
