---------------------------- MODULE InstanceCache ----------------------------
(***************************************************************************)
(* The per-backend cache of wrapper instances (InstancesHash, getCacheEntry*)
(* and begin_remote_xact in python.c) together with the two callbacks that *)
(* forward PostgreSQL's transaction events to the instances                *)
(* (multicorn_xact_callback and multicorn_subxact_callback in multicorn.c).*)
(*                                                                         *)
(* A backend runs one thing at a time, so the actions below are sequential;*)
(* what makes the code hard is that every call into Python may raise, that *)
(* an ERROR leaves the loop it was thrown in, and that the loop is then    *)
(* entered again for another event.                                        *)
(***************************************************************************)
EXTENDS PgXact

CONSTANTS
    Tables,    \* foreign tables, the keys of InstancesHash
    Options,   \* values of the concatenated table, server and mapping options
    Columns,   \* values of the column list
    NULL,      \* the null pointer in entry->options and entry->columns
    MaxRefs,   \* bound on the references an instance accumulates
    Raising,   \* the calls into Python that may raise
    Events     \* what else may happen in the environment

PythonCalls == {"get_class", "__init__", "begin", "sub_begin", "sub_commit",
                "sub_rollback", "pre_commit", "commit", "rollback"}

EnvEvents == {"savepoint", "internal", "prepare", "error", "write",
              "alter", "alterInXact"}

ASSUME CacheAssumption ==
    /\ NULL \notin Options \union Columns \union Tables
    /\ MaxRefs \in Nat \ {0}
    /\ Raising \subseteq PythonCalls
    /\ Events \subseteq EnvEvents

VARIABLES
    xact,       \* the transaction state, a record of PgXact
    todo,       \* entries the running hash_seq_search loop has yet to visit
    cur,        \* the table begin_remote_xact is working for, or NULL
    options,    \* options[t], columns[t]: what the catalogs say now
    columns,
    \* one CacheEntry per table:
    value,      \* what entry->value points to
    refs,       \* reference count of the object entry->value points to
    depth,      \* entry->xact_depth
    entOptions, \* entry->options
    entColumns, \* entry->columns
    \* what the instances have been told (history, read by no action):
    view,       \* levels the instance was told to open and not to close
    ready,      \* instances whose pre_commit returned in this transaction
    told,       \* how the instance was told that this transaction ended
    merged,     \* instances told sub_commit for the level now ending
    lost        \* tables whose instance was dropped with levels still open

catvars == <<options, columns>>
entvars == <<value, refs, depth, entOptions, entColumns>>
histvars == <<view, ready, told, merged, lost>>
vars == <<xact, todo, cur, catvars, entvars, histvars>>

(* entry->value is absent with its entry, uninitialised memory, NULL, a live *)
(* instance, or a pointer to an instance that has been freed.                *)
Pointers == {"absent", "wild", "null", "live", "freed"}

Endings == {"none", "commit", "rollback"}

TypeOK ==
    /\ xact \in Xact
    /\ todo \subseteq Tables
    /\ cur \in Tables \union {NULL}
    /\ options \in [Tables -> Options]
    /\ columns \in [Tables -> Columns]
    /\ value \in [Tables -> Pointers]
    /\ refs \in [Tables -> 0 .. MaxRefs]
    /\ depth \in [Tables -> 0 .. MaxLevel]
    /\ entOptions \in [Tables -> Options \union {NULL}]
    /\ entColumns \in [Tables -> Columns \union {NULL}]
    /\ view \in [Tables -> 0 .. MaxLevel]
    /\ ready \subseteq Tables
    /\ told \in [Tables -> Endings]
    /\ merged \subseteq Tables
    /\ lost \subseteq Tables

-----------------------------------------------------------------------------
(* Helpers.                                                                *)

\* The entries a callback loop acts on: the tests on entry->xact_depth at
\* the head of both loops.  A visit never changes another entry's depth.
Due(x, d) ==
    CASE x.phase \in SubPhases -> {t \in Tables : d[t] >= x.level}
      [] x.phase \in TopPhases -> {t \in Tables : d[t] # 0}
      [] OTHER -> {}

\* The backend moves on to transaction state x.
Go(x) == xact' = x /\ todo' = Due(x, depth')

\* reportException calls errstart twice, reportMulticornException once.
ReportCost == {1, 2}

Raises(call, c) == call \in Raising /\ c \in ReportCost

\* A method call on the instance in entry->value.  PyObject_CallMethod on a
\* null pointer raises SystemError.
CallReturns(t) == value[t] = "live"
CallRaises(t, call, c) ==
    \/ value[t] = "live" /\ Raises(call, c)
    \/ value[t] = "null" /\ c = 2
CallCrashes(t) == value[t] \in {"wild", "freed"}

-----------------------------------------------------------------------------
(* getCacheEntry.                                                          *)

\* Mutant: a changed option value is overlooked.
SameOptionsAlways(t) == entOptions[t] # NULL

SameOptions(t) == entOptions[t] = options[t]
SameColumns(t) == entColumns[t] = columns[t]

Matches(t) ==
    value[t] \notin {"absent", "null"} /\ SameOptions(t) /\ SameColumns(t)

\* The entry is new, or its instance is NULL: its fields are set again.
Blank(t) == value[t] \in {"absent", "null"}

\* What Py_XDECREF leaves of an instance that no longer matches.
Dropped(t) == IF refs[t] > 1 THEN "live" ELSE "freed"

\* The instance of t is gone; if it was taking part in the transaction it
\* will not hear how that ends.
Forget(t) ==
    /\ view' = [view EXCEPT ![t] = 0]
    /\ lost' = IF view[t] > 0 THEN lost \union {t} ELSE lost

\* xact_depth is cleared for a blank entry, and by a successful __init__.
DepthBefore(t) == IF Blank(t) THEN 0 ELSE depth[t]

\* Options and columns have not changed: the cached instance is used.
GetCacheEntryHit(t) ==
    /\ xact.phase = "run"
    /\ Matches(t) /\ value[t] = "live"
    /\ cur' = t
    /\ Go([xact EXCEPT !.phase = "begin"])
    /\ UNCHANGED <<catvars, entvars, histvars>>

\* A new instance replaces whatever was there.
GetCacheEntryNew(t) ==
    /\ xact.phase = "run"
    /\ ~Matches(t) /\ ~CallCrashes(t)
    /\ cur' = t
    /\ value' = [value EXCEPT ![t] = "live"]
    /\ refs' = [refs EXCEPT ![t] = 1]
    /\ depth' = [depth EXCEPT ![t] = 0]
    /\ entOptions' = [entOptions EXCEPT ![t] = options[t]]
    /\ entColumns' = [entColumns EXCEPT ![t] = columns[t]]
    /\ Forget(t)
    /\ Go([xact EXCEPT !.phase = "begin"])
    /\ UNCHANGED <<catvars, ready, told, merged>>

\* Mutant: Py_DECREF for Py_XDECREF, also of an entry without an instance.
GetClassRaisesUnchecked(t, c) ==
    /\ xact.phase = "run"
    /\ ~Matches(t) /\ ~CallCrashes(t) /\ Raises("get_class", c)
    /\ value' = [value EXCEPT ![t] = "null"]
    /\ refs' = [refs EXCEPT ![t] = @ - 1]
    /\ UNCHANGED <<cur, catvars, depth, entOptions, entColumns, histvars>>
    /\ Go(Throw(xact, c))

\* get_class raises, before entry->value is assigned: a new entry keeps
\* uninitialised memory, an old one a pointer whose reference is gone.
GetClassRaises(t, c) ==
    /\ xact.phase = "run"
    /\ ~Matches(t) /\ ~CallCrashes(t) /\ Raises("get_class", c)
    /\ \/ /\ value[t] = "absent"
          /\ \E v \in {"null", "wild"} : value' = [value EXCEPT ![t] = v]
       \/ value[t] = "null" /\ UNCHANGED value
       \/ value[t] = "live" /\ value' = [value EXCEPT ![t] = Dropped(t)]
    /\ refs' = [refs EXCEPT ![t] = IF @ > 0 THEN @ - 1 ELSE 0]
    /\ depth' = [depth EXCEPT ![t] = DepthBefore(t)]
    /\ entOptions' = [entOptions EXCEPT ![t] = IF Blank(t) THEN NULL ELSE @]
    /\ entColumns' = [entColumns EXCEPT ![t] = IF Blank(t) THEN NULL ELSE @]
    /\ IF value'[t] = "live" THEN UNCHANGED <<view, lost>> ELSE Forget(t)
    /\ Go(Throw(xact, c))
    /\ UNCHANGED <<cur, catvars, ready, told, merged>>

\* __init__ raises: entry->value is NULL, and the depth of the instance that
\* was replaced stays behind.
InitRaises(t, c) ==
    /\ xact.phase = "run"
    /\ ~Matches(t) /\ ~CallCrashes(t) /\ Raises("__init__", c)
    /\ value' = [value EXCEPT ![t] = "null"]
    /\ refs' = [refs EXCEPT ![t] = 0]
    /\ depth' = [depth EXCEPT ![t] = DepthBefore(t)]
    /\ entOptions' = [entOptions EXCEPT ![t] = IF Blank(t) THEN NULL ELSE @]
    /\ entColumns' = [entColumns EXCEPT ![t] = IF Blank(t) THEN NULL ELSE @]
    /\ Forget(t)
    /\ Go(Throw(xact, c))
    /\ UNCHANGED <<cur, catvars, ready, told, merged>>

\* Py_XDECREF, or a later call, on a pointer to nothing.
GetCacheEntryCrashes(t) ==
    /\ xact.phase = "run"
    /\ CallCrashes(t)
    /\ Go(Dead("crash"))
    /\ UNCHANGED <<cur, catvars, entvars, histvars>>

-----------------------------------------------------------------------------
(* begin_remote_xact.                                                      *)

BeginReturns ==
    /\ xact.phase = "begin" /\ depth[cur] = 0
    /\ depth' = [depth EXCEPT ![cur] = 1]
    /\ view' = [view EXCEPT ![cur] = 1]
    /\ Go(xact)
    /\ UNCHANGED <<cur, catvars, value, refs, entOptions, entColumns,
                   ready, told, merged, lost>>

BeginRaises(c) ==
    /\ xact.phase = "begin" /\ depth[cur] = 0 /\ Raises("begin", c)
    /\ cur' = NULL
    /\ UNCHANGED <<catvars, entvars, histvars>>
    /\ Go(Throw(xact, c))

\* xact_depth is raised before sub_begin is called with it.
SubBegin(x) ==
    /\ xact.phase = "begin" /\ depth[cur] > 0 /\ depth[cur] < xact.level
    /\ depth' = [depth EXCEPT ![cur] = @ + 1]
    /\ view' = [view EXCEPT ![cur] = depth'[cur]]
    /\ Go(x)
    /\ UNCHANGED <<catvars, value, refs, entOptions, entColumns,
                   ready, told, merged, lost>>

SubBeginReturns == SubBegin(xact) /\ UNCHANGED cur
SubBeginRaises(c) ==
    Raises("sub_begin", c) /\ SubBegin(Throw(xact, c)) /\ cur' = NULL

\* getInstance takes a reference for its caller.  The planner's
\* (multicornGetForeignRelSize) is never given back; the executor's are.
GetInstanceReturns ==
    /\ xact.phase = "begin" /\ depth[cur] > 0 /\ depth[cur] >= xact.level
    /\ \/ UNCHANGED refs
       \/ refs[cur] < MaxRefs /\ refs' = [refs EXCEPT ![cur] = @ + 1]
    /\ cur' = NULL
    /\ UNCHANGED <<catvars, value, depth, entOptions, entColumns, histvars>>
    /\ Go([xact EXCEPT !.phase = "run"])

-----------------------------------------------------------------------------
(* multicorn_subxact_callback.                                             *)

SubCommitReturns(t) ==
    /\ xact.phase = "subcommit" /\ t \in todo /\ CallReturns(t)
    /\ depth' = [depth EXCEPT ![t] = @ - 1]
    /\ view' = [view EXCEPT ![t] = xact.level - 1]
    /\ merged' = merged \union {t}
    /\ todo' = todo \ {t}
    /\ UNCHANGED <<xact, cur, catvars, value, refs, entOptions, entColumns,
                   ready, told, lost>>

\* Mutant: xact_depth is only decremented for sub_commit.
SubRollbackKeepsDepth(t) ==
    /\ xact.phase = "subabort" /\ t \in todo /\ CallReturns(t)
    /\ view' = [view EXCEPT ![t] = xact.level - 1]
    /\ todo' = todo \ {t}
    /\ UNCHANGED <<xact, cur, catvars, entvars, ready, told, merged, lost>>

SubRollbackReturns(t) ==
    /\ xact.phase = "subabort" /\ t \in todo /\ CallReturns(t)
    /\ depth' = [depth EXCEPT ![t] = @ - 1]
    /\ view' = [view EXCEPT ![t] = xact.level - 1]
    /\ todo' = todo \ {t}
    /\ UNCHANGED <<xact, cur, catvars, value, refs, entOptions, entColumns,
                   ready, told, merged, lost>>

\* errorCheck throws before xact_depth is decremented.
SubHookRaises(t, c) ==
    /\ t \in todo
    /\ \/ xact.phase = "subcommit" /\ CallRaises(t, "sub_commit", c)
       \/ xact.phase = "subabort" /\ CallRaises(t, "sub_rollback", c)
    /\ UNCHANGED <<cur, catvars, entvars, histvars>>
    /\ Go(Throw(xact, c))

-----------------------------------------------------------------------------
(* multicorn_xact_callback.                                                *)

\* Mutant: the case XACT_EVENT_PRE_COMMIT has no break.
PreCommitFallsThrough(t) ==
    /\ xact.phase = "precommit" /\ t \in todo /\ CallReturns(t)
    /\ ready' = ready \union {t}
    /\ depth' = [depth EXCEPT ![t] = 0]
    /\ view' = [view EXCEPT ![t] = 0]
    /\ told' = [told EXCEPT ![t] = "commit"]
    /\ todo' = todo \ {t}
    /\ UNCHANGED <<xact, cur, catvars, value, refs, entOptions, entColumns, merged, lost>>

PreCommitReturns(t) ==
    /\ xact.phase = "precommit" /\ t \in todo /\ CallReturns(t)
    /\ ready' = ready \union {t}
    /\ todo' = todo \ {t}
    /\ UNCHANGED <<xact, cur, catvars, entvars, view, told, merged, lost>>

\* Mutant: no errorCheck after pre_commit.
PreCommitSwallows(t, c) ==
    /\ xact.phase = "precommit" /\ t \in todo /\ CallRaises(t, "pre_commit", c)
    /\ todo' = todo \ {t}
    /\ UNCHANGED <<xact, cur, catvars, entvars, histvars>>

PreCommitRaises(t, c) ==
    /\ xact.phase = "precommit" /\ t \in todo /\ CallRaises(t, "pre_commit", c)
    /\ UNCHANGED <<cur, catvars, entvars, histvars>>
    /\ Go(Throw(xact, c))

\* Mutants: the case XACT_EVENT_COMMIT does not clear xact_depth; neither does.
EndHookForgetsCommit(t, ending) ==
    /\ depth' = [depth EXCEPT ![t] = IF ending = "commit" THEN @ ELSE 0]
    /\ view' = [view EXCEPT ![t] = 0]
    /\ told' = [told EXCEPT ![t] = ending]
    /\ UNCHANGED <<cur, catvars, value, refs, entOptions, entColumns,
                   ready, merged, lost>>

EndHookKeepsDepth(t, ending) ==
    /\ told' = [told EXCEPT ![t] = ending]
    /\ UNCHANGED <<cur, catvars, entvars, view, ready, merged, lost>>

\* commit and rollback clear xact_depth before errorCheck, so a hook that
\* raises has still been called for the last time.
EndHook(t, ending) ==
    /\ depth' = [depth EXCEPT ![t] = 0]
    /\ view' = [view EXCEPT ![t] = 0]
    /\ told' = [told EXCEPT ![t] = IF value[t] = "live" THEN ending ELSE @]
    /\ UNCHANGED <<cur, catvars, value, refs, entOptions, entColumns,
                   ready, merged, lost>>

CommitReturns(t) ==
    /\ xact.phase = "commit" /\ t \in todo /\ CallReturns(t)
    /\ EndHook(t, "commit")
    /\ todo' = todo \ {t}
    /\ UNCHANGED xact

CommitRaises(t, c) ==
    /\ xact.phase = "commit" /\ t \in todo /\ CallRaises(t, "commit", c)
    /\ EndHook(t, "commit")
    /\ Go(Throw(xact, c))

RollbackReturns(t) ==
    /\ xact.phase = "abort" /\ t \in todo /\ CallReturns(t)
    /\ EndHook(t, "rollback")
    /\ todo' = todo \ {t}
    /\ UNCHANGED xact

RollbackRaises(t, c) ==
    /\ xact.phase = "abort" /\ t \in todo /\ CallRaises(t, "rollback", c)
    /\ EndHook(t, "rollback")
    /\ Go(Throw(xact, c))

\* A hook is called through a pointer to a freed instance.
HookCrashes(t) ==
    /\ xact.phase \in CallbackPhases /\ t \in todo /\ CallCrashes(t)
    /\ UNCHANGED <<cur, catvars, entvars, histvars>>
    /\ Go(Dead("crash"))

\* Mutant: the loop starts over (hash_seq_init) when it has come to the end.
CallbackStartsOver ==
    /\ xact.phase \in CallbackPhases /\ todo = {}
    /\ merged' = {}
    /\ UNCHANGED <<cur, catvars, entvars, view, ready, told, lost>>
    /\ Go(xact)

\* The loop is over and PostgreSQL goes on.
CallbackReturns ==
    /\ xact.phase \in CallbackPhases /\ todo = {}
    /\ merged' = {}
    /\ UNCHANGED <<cur, catvars, entvars, view, ready, told, lost>>
    /\ Go(Delivered(xact))

-----------------------------------------------------------------------------
(* The client and PostgreSQL.                                              *)

StartTransaction ==
    /\ xact.phase = "idle"
    /\ ready' = {} /\ lost' = {} /\ merged' = {}
    /\ told' = [t \in Tables |-> "none"]
    /\ UNCHANGED <<cur, catvars, entvars, view>>
    /\ Go(Started)

\* Commands that change nothing but the transaction state.
Command(x) ==
    /\ UNCHANGED <<cur, catvars, entvars, histvars>>
    /\ Go(x)

Running == xact.phase = "run"
AtTop == Running /\ xact.internals = 0
AtPrompt == AtTop \/ xact.phase = "failed"

Savepoint ==
    /\ AtTop /\ "savepoint" \in Events /\ xact.level < MaxLevel
    /\ Command(Pushed(xact, FALSE))

ReleaseSavepoint ==
    /\ AtTop /\ \E u \in 2 .. xact.level : Command(Release(xact, u))

RollbackToSavepoint ==
    /\ AtPrompt
    /\ \E u \in 2 .. (xact.level - xact.internals) : Command(RollbackTo(xact, u))

EnterHandlerBlock ==
    /\ Running /\ "internal" \in Events /\ xact.level < MaxLevel
    /\ Command(Pushed(xact, TRUE))

LeaveHandlerBlock ==
    /\ Running /\ xact.internals > 0 /\ Command(ReleaseInternal(xact))

CommitTransaction == AtTop /\ Command(Finish(xact, "commit"))

PrepareTransaction ==
    /\ AtTop /\ "prepare" \in Events /\ Command(Finish(xact, "prepare"))

RollbackTransaction == AtPrompt /\ Command(AbortAll(Popped(xact)))

\* Any other ERROR of the running statement.
StatementFails ==
    /\ Running /\ "error" \in Events /\ Command(Throw(xact, 1))

\* The transaction writes to a local table.
LocalWrite ==
    /\ Running /\ "write" \in Events /\ Command([xact EXCEPT !.xid = "assigned"])

\* Options (of the table, its server or the mapping of the current role) or
\* columns change: by this session, by another one, or back by a rollback.
Alter(t) ==
    /\ \/ xact.phase = "idle" /\ "alter" \in Events
       \/ Running /\ "alterInXact" \in Events
    /\ \/ /\ \E o \in Options : options' = [options EXCEPT ![t] = o]
          /\ UNCHANGED columns
       \/ /\ \E c \in Columns : columns' = [columns EXCEPT ![t] = c]
          /\ UNCHANGED options
    /\ UNCHANGED <<xact, todo, cur, entvars, histvars>>

\* A new server process has an empty InstancesHash (_PG_init).
EmptyHash ==
    /\ value' = [t \in Tables |-> "absent"]
    /\ refs' = [t \in Tables |-> 0]
    /\ depth' = [t \in Tables |-> 0]
    /\ entOptions' = [t \in Tables |-> NULL]
    /\ entColumns' = [t \in Tables |-> NULL]

Restart ==
    /\ xact.phase \in DeadPhases
    /\ EmptyHash
    /\ view' = [t \in Tables |-> 0]
    /\ told' = [t \in Tables |-> "none"]
    /\ ready' = {} /\ merged' = {} /\ lost' = {}
    /\ UNCHANGED <<cur, catvars>>
    /\ Go(Idle)

-----------------------------------------------------------------------------

Init ==
    /\ xact = Idle
    /\ todo = {}
    /\ cur = NULL
    /\ options \in [Tables -> Options]
    /\ columns \in [Tables -> Columns]
    /\ value = [t \in Tables |-> "absent"]
    /\ refs = [t \in Tables |-> 0]
    /\ depth = [t \in Tables |-> 0]
    /\ entOptions = [t \in Tables |-> NULL]
    /\ entColumns = [t \in Tables |-> NULL]
    /\ view = [t \in Tables |-> 0]
    /\ ready = {}
    /\ told = [t \in Tables |-> "none"]
    /\ merged = {}
    /\ lost = {}

GetCacheEntry ==
    \E t \in Tables :
        \/ GetCacheEntryHit(t) \/ GetCacheEntryNew(t) \/ GetCacheEntryCrashes(t)
        \/ \E c \in ReportCost : GetClassRaises(t, c) \/ InitRaises(t, c)

BeginRemoteXact ==
    \/ BeginReturns \/ SubBeginReturns \/ GetInstanceReturns
    \/ \E c \in ReportCost : BeginRaises(c) \/ SubBeginRaises(c)

Callback ==
    \/ CallbackReturns
    \/ \E t \in Tables :
        \/ SubCommitReturns(t) \/ SubRollbackReturns(t) \/ PreCommitReturns(t)
        \/ CommitReturns(t) \/ RollbackReturns(t) \/ HookCrashes(t)
        \/ \E c \in ReportCost :
              \/ SubHookRaises(t, c) \/ PreCommitRaises(t, c)
              \/ CommitRaises(t, c) \/ RollbackRaises(t, c)

Client ==
    \/ StartTransaction \/ Savepoint \/ ReleaseSavepoint \/ RollbackToSavepoint
    \/ EnterHandlerBlock \/ LeaveHandlerBlock
    \/ CommitTransaction \/ PrepareTransaction \/ RollbackTransaction
    \/ StatementFails \/ LocalWrite
    \/ \E t \in Tables : Alter(t)

Next == GetCacheEntry \/ BeginRemoteXact \/ Callback \/ Client \/ Restart

Spec == Init /\ [][Next]_vars

\* A backend that is inside multicorn goes on; clients owe nothing.
FairSpec == Spec /\ WF_vars(BeginRemoteXact) /\ WF_vars(Callback)

-----------------------------------------------------------------------------
(* Properties.  What each of them needs of Raising and Events is said with *)
(* it; the others hold whatever raises and whatever happens.               *)

\* No instance is deeper in subtransactions than the transaction is, an
\* instance agrees with its entry's xact_depth about how deep it is, and an
\* entry already visited by multicorn_subxact_callback has left the level
\* that ends.  So when the end of the transaction is announced (level 1)
\* every instance has closed all its subtransactions, whichever hooks raised
\* and however often the loops were left and entered again.
InStep ==
    xact.phase \notin DeadPhases => \A t \in Tables :
        /\ depth[t] <= IF xact.level = 0 THEN 1 ELSE xact.level
        /\ value[t] = "live" => view[t] = depth[t]
        /\ xact.phase \in SubPhases /\ t \notin todo => depth[t] < xact.level
        /\ xact.phase = "failed" => depth[t] < xact.level

\* Outside a transaction no entry is left with a positive xact_depth, so the
\* next use of the table calls begin again (begin_remote_xact).  Does not
\* hold if transactions may be prepared.
IdleClean == xact.phase = "idle" => \A t \in Tables : depth[t] = 0

\* commit is called on no instance before the pre_commit of every instance
\* that takes part in the transaction has returned.
VotesFirst ==
    xact.phase = "commit" => \A t \in Tables : depth[t] > 0 => t \in ready

\* The instance begin_remote_xact works on was built from the options and
\* the columns that the catalogs hold now (compareOptions, compareColumns).
Fresh ==
    xact.phase = "begin" =>
        /\ cur \in Tables /\ value[cur] = "live"
        /\ entOptions[cur] = options[cur] /\ entColumns[cur] = columns[cur]

\* An instance hears the end of a transaction once: after commit or rollback
\* no loop of the same transaction comes to its entry again, even when the
\* hook raised and the abort loop runs again, and the verdict is not changed.
ToldOnce ==
    [][\A t \in Tables : told[t] # "none" =>
          /\ t \notin todo
          /\ told'[t] # told[t] => xact.phase \in {"idle"} \union DeadPhases]_vars

\* Within one transaction no instance is told to commit while another one is
\* told to roll back.  Does not hold if commit may raise.
OneVerdict ==
    ~ \E t, u \in Tables : told[t] = "commit" /\ told[u] = "rollback"

\* Every instance that took part in a transaction is told how it ended: none
\* is dropped from the cache in between.
NoneLost == lost = {}

\* An instance whose subtransaction is rolled back has not been told that it
\* was committed.
NoneMerged == xact.phase = "subabort" => merged = {}

\* No hook and no Py_XDECREF goes through a pointer to an instance that was
\* freed when its options or columns had changed (getCacheEntry).  Nothing is
\* said of a new entry, whose memory is uninitialised when get_class raises.
NoFreedInstance ==
    xact.phase = "crash" => \A t \in Tables : value[t] # "freed"

\* A hook that raises during an abort does not take the server down.
NoPanic == xact.phase # "panic"

\* A callback that starts comes to an end, and control goes back to the
\* client: even if every hook raises, the loops are not entered for ever.
CallbacksEnd ==
    xact.phase \in CallbackPhases ~> xact.phase \in RestPhases \union DeadPhases

\* The hooks follow the protocol that multicorn.ForeignDataWrapper documents.
Protocol == INSTANCE HookProtocol WITH up <- xact.phase \notin DeadPhases
HooksFollowProtocol == Protocol!ProtocolSpec

-----------------------------------------------------------------------------
(* The inductive invariant behind the safety properties.                   *)

\* The loop's cursor: what is still to be visited qualifies for the event,
\* and what has been visited has been dealt with.
TodoSound ==
    /\ xact.phase \notin CallbackPhases => todo = {}
    /\ xact.phase \in SubPhases => \A t \in todo : depth[t] >= xact.level
    /\ xact.phase \in TopPhases => \A t \in todo : depth[t] > 0
    /\ xact.phase \in {"commit", "abort"} =>
          \A t \in Tables : t \notin todo => depth[t] = 0
    /\ xact.phase = "precommit" =>
          \A t \in Tables : t \notin todo => depth[t] = 0 \/ t \in ready

\* An instance that heard the end of the transaction takes no more part in it.
ToldSound ==
    \A t \in Tables : told[t] # "none" =>
        /\ depth[t] = 0
        /\ xact.phase \in {"commit", "abort", "idle"} \union DeadPhases

\* Without PREPARE TRANSACTION a transaction only ends through the callbacks.
NoPrepare ==
    "prepare" \notin Events =>
        /\ IdleClean
        /\ xact.phase = "subcommit" => xact.after # "prepare"

IInv ==
    /\ TypeOK /\ Coherent(xact) /\ InStep /\ TodoSound
    /\ VotesFirst /\ Fresh /\ ToldSound /\ NoPrepare

\* What the refinement of HookProtocol needs besides.  Nothing is altered in
\* a transaction, none is prepared and commit does not raise:
Calm == "prepare" \notin Events /\ "alterInXact" \notin Events /\ "commit" \notin Raising

\* then an instance that takes part in the transaction stays in the cache,
\* and one loop decides how it ends for all of them.
Engaged ==
    /\ \A t \in Tables : depth[t] > 0 =>
          value[t] = "live" /\ entOptions[t] = options[t] /\ entColumns[t] = columns[t]
    /\ \A t \in Tables : value[t] # "live" => view[t] = 0
    /\ xact.phase = "commit" => \A t \in Tables : told[t] # "rollback"
    /\ xact.phase = "abort" => \A t \in Tables : told[t] # "commit"
=============================================================================
