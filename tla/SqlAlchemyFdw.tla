---------------------------- MODULE SqlAlchemyFdw ----------------------------
(***************************************************************************)
(* multicorn.sqlalchemyfdw.SqlAlchemyFdw as a participant of the local     *)
(* transaction.  Every instance has a connection of its own to the remote  *)
(* database and one remote transaction on it.  The hooks arrive in the     *)
(* orders that HookProtocol allows, which InstanceCache implements: the    *)
(* two together are the wrapper under the extension's callbacks.           *)
(*                                                                         *)
(* A change is a row written by one call of insert, update or delete, with *)
(* the table it was made through.  The sub_* hooks are the base class's    *)
(* and do nothing, so a savepoint exists in the local server only.         *)
(***************************************************************************)
EXTENDS HookProtocol

CONSTANTS
    Rows,       \* rows that can be written: a bound on the changes
    Failing,    \* what may go wrong
    Doomed      \* a failed statement dooms the remote transaction: every
                \* later statement is refused and COMMIT means ROLLBACK

FailingKinds == {"connect", "statement", "commit", "acknowledge", "rollback",
                 "late", "savepoint", "crash"}

ASSUME SqlAssumption == Failing \subseteq FailingKinds /\ Doomed \in BOOLEAN

Changes == Tables \X Rows

VARIABLES
    transaction,  \* tables whose self.transaction is not None
    session,      \* session[t]: the remote end of self._connection
    work,         \* changes of the open remote transactions
    remote,       \* changes committed by the remote databases
    failed,       \* the local (sub)transaction is aborted
    kept,         \* changes of the local transaction, less those rolled back to
    saved,        \* what kept was at the savepoint
    committed,    \* changes of committed local transactions
    undone        \* changes that were rolled back locally

localvars == <<kept, saved, committed, undone>>
sqlvars == <<pvars, transaction, session, work, remote, failed, localvars>>

NoSavepoint == {<<"none", "none">>}

SqlTypeOK ==
    /\ transaction \subseteq Tables
    /\ session \in [Tables -> {"none", "idle", "open", "doomed"}]
    /\ work \subseteq Changes /\ remote \subseteq Changes
    /\ failed \in BOOLEAN
    /\ kept \subseteq Changes /\ committed \subseteq Changes /\ undone \subseteq Changes
    /\ saved = NoSavepoint \/ saved \subseteq Changes

SqlInit ==
    /\ ProtocolInit
    /\ transaction = {}
    /\ session = [t \in Tables |-> "none"]
    /\ work = {} /\ remote = {}
    /\ failed = FALSE
    /\ kept = {} /\ saved = NoSavepoint /\ committed = {} /\ undone = {}

Of(t) == {t} \X Rows
Set(t, s) == session' = [session EXCEPT ![t] = s]
May(what) == what \in Failing

\* Statements run before the end of the transaction has begun.
Running == up /\ ~failed /\ ready = {} /\ \A t \in Tables : told[t] = "none"

-----------------------------------------------------------------------------
(* begin and statements.                                                   *)

\* connection opens a connection at its first use and keeps it; begin raises
\* on a connection that has an open transaction.
Begin(t) ==
    /\ Running /\ HBegin(t)
    /\ session[t] \in {"none", "idle"}
    /\ transaction' = transaction \union {t}
    /\ Set(t, "open")
    /\ UNCHANGED <<work, remote, failed, localvars>>

BeginRaises(t) ==
    /\ Running /\ view[t] = 0
    /\ May("connect") \/ session[t] \in {"open", "doomed"}
    /\ failed' = TRUE
    /\ UNCHANGED <<pvars, transaction, session, work, remote, localvars>>

\* insert, update and delete: one statement on the connection.
Write(t, r) ==
    /\ Running /\ view[t] = 1 /\ session[t] = "open"
    /\ <<t, r>> \notin work \union remote \union kept \union undone
    /\ work' = work \union {<<t, r>>}
    /\ kept' = kept \union {<<t, r>>}
    /\ UNCHANGED <<pvars, transaction, session, remote, failed, saved, committed, undone>>

\* ... and execute: the remote database refuses the statement.
StatementRaises(t) ==
    /\ Running /\ view[t] = 1
    /\ May("statement") \/ session[t] = "doomed"
    /\ failed' = TRUE
    /\ Set(t, IF Doomed THEN "doomed" ELSE session[t])
    /\ UNCHANGED <<pvars, transaction, work, remote, localvars>>

-----------------------------------------------------------------------------
(* pre_commit, commit and rollback.                                        *)

\* transaction.commit() on a doomed transaction returns normally.
Commits(t) ==
    /\ remote' = remote \union (IF session[t] = "open" THEN work \intersect Of(t) ELSE {})
    /\ work' = work \ Of(t)
    /\ Set(t, "idle")

\* Mutant: the transaction object is dropped, not committed.
PreCommitForgets(t) ==
    /\ up /\ ~failed /\ saved = NoSavepoint /\ t \notin ready /\ HPreCommit(t)
    /\ transaction' = transaction \ {t}
    /\ work' = work \ Of(t) /\ Set(t, "idle")
    /\ UNCHANGED <<remote, failed, localvars>>

PreCommit(t) ==
    /\ up /\ ~failed /\ saved = NoSavepoint /\ t \notin ready /\ HPreCommit(t)
    /\ IF t \in transaction THEN Commits(t) ELSE UNCHANGED <<work, remote, session>>
    /\ transaction' = transaction \ {t}
    /\ UNCHANGED <<failed, localvars>>

\* The remote COMMIT is refused, or carried out and its answer lost;
\* self.transaction is kept, for rollback.
PreCommitRaises(t) ==
    /\ up /\ ~failed /\ saved = NoSavepoint /\ view[t] = 1 /\ t \in transaction
    /\ \/ May("commit") /\ UNCHANGED remote
       \/ May("acknowledge") /\ session[t] = "open" /\ remote' = remote \union (work \intersect Of(t))
    /\ work' = work \ Of(t)
    /\ Set(t, "idle")
    /\ failed' = TRUE
    /\ UNCHANGED <<pvars, transaction, localvars>>

\* The local server is past its pre-commit callbacks and still fails: a
\* serialization failure, another extension's callback.
LateFailure ==
    /\ May("late") /\ up /\ ~failed /\ ready # {}
    /\ \A t \in Tables : told[t] = "none"
    /\ failed' = TRUE
    /\ UNCHANGED <<pvars, transaction, session, work, remote, localvars>>

\* The local transaction is durable when the first instance is told.
Commit(t) ==
    /\ ~failed /\ HCommit(t)
    /\ committed' = committed \union kept
    /\ IF t \in transaction THEN Commits(t) ELSE UNCHANGED <<work, remote, session>>
    /\ transaction' = transaction \ {t}
    /\ UNCHANGED <<failed, kept, saved, undone>>

\* Mutant: the remote transaction stays open.
RollbackForgets(t) ==
    /\ failed /\ HRollback(t)
    /\ transaction' = transaction \ {t}
    /\ UNCHANGED <<session, work, remote, failed, localvars>>

\* Mutant: the body of commit.
RollbackCommits(t) ==
    /\ failed /\ HRollback(t)
    /\ IF t \in transaction THEN Commits(t) ELSE UNCHANGED <<work, remote, session>>
    /\ transaction' = transaction \ {t}
    /\ UNCHANGED <<failed, localvars>>

\* rollback of what a failed commit has left does nothing to the server.
Rollback(t) ==
    /\ failed /\ HRollback(t)
    /\ IF t \in transaction THEN work' = work \ Of(t) /\ Set(t, "idle")
                            ELSE UNCHANGED <<work, session>>
    /\ transaction' = transaction \ {t}
    /\ UNCHANGED <<remote, failed, localvars>>

\* The connection is gone, and the remote transaction with it;
\* self.transaction stays until the next begin.
RollbackRaises(t) ==
    /\ failed /\ May("rollback") /\ t \in transaction /\ HRollback(t)
    /\ work' = work \ Of(t)
    /\ Set(t, "none")
    /\ UNCHANGED <<transaction, remote, failed, localvars>>

-----------------------------------------------------------------------------
(* The local server.                                                       *)

\* ROLLBACK, or an error elsewhere.
Abort ==
    /\ Running
    /\ failed' = TRUE
    /\ UNCHANGED <<pvars, transaction, session, work, remote, localvars>>

Savepoint ==
    /\ May("savepoint") /\ Running /\ saved = NoSavepoint
    /\ saved' = kept
    /\ UNCHANGED <<pvars, transaction, session, work, remote, failed, kept, committed, undone>>

ReleaseSavepoint ==
    /\ Running /\ saved # NoSavepoint
    /\ saved' = NoSavepoint
    /\ UNCHANGED <<pvars, transaction, session, work, remote, failed, kept, committed, undone>>

RollbackToSavepoint ==
    /\ up /\ ready = {} /\ saved # NoSavepoint /\ \A t \in Tables : told[t] = "none"
    /\ failed' = FALSE
    /\ kept' = saved
    /\ undone' = undone \union (kept \ saved)
    /\ saved' = NoSavepoint
    /\ UNCHANGED <<pvars, transaction, session, work, remote, committed>>

\* The local transaction is over: what it did not commit is undone.
Forget ==
    /\ failed' = FALSE
    /\ kept' = {} /\ saved' = NoSavepoint
    /\ undone' = undone \union (kept \ committed)
    /\ UNCHANGED committed

NextTransaction ==
    /\ HNewXact
    /\ failed \/ \E t \in Tables : told[t] # "none"
    /\ Forget
    /\ UNCHANGED <<transaction, session, work, remote>>

\* The process dies: its connections close, the remote work is rolled back.
Crash == May("crash") /\ HCrash /\ UNCHANGED <<transaction, session, work, remote, failed, localvars>>

Restart ==
    /\ HRestart
    /\ transaction' = {}
    /\ session' = [t \in Tables |-> "none"]
    /\ work' = {}
    /\ Forget
    /\ UNCHANGED remote

SqlNext ==
    \/ \E t \in Tables :
          \/ Begin(t) \/ BeginRaises(t) \/ StatementRaises(t)
          \/ \E r \in Rows : Write(t, r)
          \/ PreCommit(t) \/ PreCommitRaises(t)
          \/ Commit(t) \/ Rollback(t) \/ RollbackRaises(t)
    \/ LateFailure \/ Abort \/ Savepoint \/ ReleaseSavepoint \/ RollbackToSavepoint
    \/ NextTransaction \/ Crash \/ Restart

SqlSpec == SqlInit /\ [][SqlNext]_sqlvars

-----------------------------------------------------------------------------

\* No change of a committed local transaction is missing remotely, whatever
\* else fails: pre_commit lets nothing pass that the remote database has not
\* committed.  Not for a remote database that dooms a transaction whose
\* failed statement the client then undoes with a savepoint.
NoLostWrite == committed \subseteq remote

\* The remote databases change only while the local transaction can still be
\* aborted: a refusal is never met with the verdict out.
AppliedBeforeVerdict ==
    [][remote' # remote => \A t \in Tables : told[t] = "none"]_sqlvars

\* Between transactions no instance holds a remote transaction open, and
\* begin will not find one: the remote locks are gone after commit, rollback
\* and their failures.
Released ==
    up => \A t \in Tables :
        view[t] = 0 => session[t] \in {"none", "idle"} /\ work \intersect Of(t) = {}
=============================================================================
