---------------------------- MODULE HookProtocol ----------------------------
(***************************************************************************)
(* What the transaction hooks of multicorn.ForeignDataWrapper promise to   *)
(* the author of a wrapper: each wrapper instance takes part in the local  *)
(* transaction as a participant of a two-phase commit with nested          *)
(* subtransactions.  begin opens it, sub_begin and sub_commit or           *)
(* sub_rollback bracket subtransactions one level at a time, pre_commit is *)
(* the vote, and exactly one of commit and rollback ends it.               *)
(*                                                                         *)
(* This is the abstract specification; InstanceCache is the detailed one.  *)
(***************************************************************************)
EXTENDS Naturals

CONSTANT Tables    \* the foreign tables, one instance each

VARIABLES
    view,    \* view[t]: levels the instance of t was told to open, still open
    ready,   \* instances whose pre_commit has returned in this transaction
    told,    \* told[t]: how the instance of t was told the transaction ended
    up       \* the server process is alive

pvars == <<view, ready, told, up>>

Endings == {"none", "commit", "rollback"}

ProtocolInit ==
    /\ view = [t \in Tables |-> 0]
    /\ ready = {}
    /\ told = [t \in Tables |-> "none"]
    /\ up = TRUE

-----------------------------------------------------------------------------

\* begin: once per transaction, before anything else.
HBegin(t) ==
    /\ up /\ view[t] = 0 /\ told[t] = "none"
    /\ view' = [view EXCEPT ![t] = 1]
    /\ UNCHANGED <<ready, told, up>>

\* sub_begin: one level deeper than the instance already is.  Reporting what
\* this hook, commit or rollback raises may take the server process down.
HSubBegin(t) ==
    /\ up /\ view[t] > 0
    /\ view' = [view EXCEPT ![t] = @ + 1]
    /\ up' \in BOOLEAN
    /\ UNCHANGED <<ready, told>>

\* sub_commit or sub_rollback: of the innermost open subtransaction.
HSubEnd(t) ==
    /\ up /\ view[t] > 1
    /\ view' = [view EXCEPT ![t] = @ - 1]
    /\ UNCHANGED <<ready, told, up>>

\* pre_commit: the vote, with every subtransaction closed.
HPreCommit(t) ==
    /\ up /\ view[t] = 1
    /\ ready' = ready \union {t}
    /\ UNCHANGED <<view, told, up>>

\* commit: only when every open instance has voted and none was rolled back.
HCommit(t) ==
    /\ up /\ view[t] = 1
    /\ \A u \in Tables : view[u] > 0 => u \in ready
    /\ \A u \in Tables : told[u] # "rollback"
    /\ view' = [view EXCEPT ![t] = 0]
    /\ told' = [told EXCEPT ![t] = "commit"]
    /\ up' \in BOOLEAN
    /\ UNCHANGED ready

\* rollback: only when no instance was told to commit.
HRollback(t) ==
    /\ up /\ view[t] = 1
    /\ \A u \in Tables : told[u] # "commit"
    /\ view' = [view EXCEPT ![t] = 0]
    /\ told' = [told EXCEPT ![t] = "rollback"]
    /\ up' \in BOOLEAN
    /\ UNCHANGED ready

\* The next transaction starts once every instance has heard the end.
HNewXact ==
    /\ up
    /\ \A t \in Tables : view[t] = 0
    /\ ready' = {}
    /\ told' = [t \in Tables |-> "none"]
    /\ UNCHANGED <<view, up>>

\* The server process dies and its instances with it; a new one starts.
HCrash == up /\ up' = FALSE /\ UNCHANGED <<view, ready, told>>

HRestart ==
    /\ ~up
    /\ up' = TRUE
    /\ view' = [t \in Tables |-> 0]
    /\ ready' = {}
    /\ told' = [t \in Tables |-> "none"]

ProtocolNext ==
    \/ \E t \in Tables : \/ HBegin(t) \/ HSubBegin(t) \/ HSubEnd(t)
                         \/ HPreCommit(t) \/ HCommit(t) \/ HRollback(t)
    \/ HNewXact \/ HCrash \/ HRestart

ProtocolSpec == ProtocolInit /\ [][ProtocolNext]_pvars
=============================================================================
