------------------------------- MODULE ImapFdw -------------------------------
(***************************************************************************)
(* The connection of multicorn.imapfdw.ImapFdw.  Every use goes through    *)
(* the property imap_agent, which connects if there is no agent, selects   *)
(* the folder, and connects again if the server has hung up.  A scan goes  *)
(* through it twice, to search and to fetch.  The server hangs up on an    *)
(* idle connection, cannot be reached for a while, and may refuse a login. *)
(***************************************************************************)

CONSTANT LoginRefused   \* the server refuses some logins

ASSUME ImapAssumption == LoginRefused \in BOOLEAN

VARIABLES
    agent,     \* _imap_agent: "none", "connected" (and not logged in),
               \* "selected", or "dead": the server has hung up
    scan,      \* what the scan does next, or how it ended
    reached    \* the server can be reached

imapvars == <<agent, scan, reached>>

ImapTypeOK ==
    /\ agent \in {"none", "connected", "selected", "dead"}
    /\ scan \in {"idle", "search", "fetch", "rows", "raised"}
    /\ reached \in BOOLEAN

ImapInit == agent = "none" /\ scan = "idle" /\ reached = TRUE

\* External: the network, and the server.
NetworkChanges == reached' = ~reached /\ UNCHANGED <<agent, scan>>

HangUp == agent = "selected" /\ agent' = "dead" /\ UNCHANGED <<scan, reached>>

StartScan == scan \in {"idle", "rows", "raised"} /\ scan' = "search" /\ UNCHANGED <<agent, reached>>

\* What becomes of the agent in _create_agent, if it returns and if it raises:
\* the new agent is assigned before it logs in.
CreatedAgents == IF reached THEN {"selected"} ELSE {}
FailedAgents == IF ~reached THEN {agent} ELSE IF LoginRefused THEN {"connected"} ELSE {}

\* Mutant: only a missing agent is created.
ImapAgentOnce ==
    CASE agent = "none"     -> CreatedAgents
      [] agent = "selected" -> IF reached THEN {"selected"} ELSE {}
      [] OTHER              -> {}

\* imap_agent, and the command sent to it, return and leave this agent ...
ImapAgent ==
    CASE agent \in {"none", "dead"} -> CreatedAgents
      [] agent = "selected"         -> IF reached THEN {"selected"} ELSE {}
      [] agent = "connected"        -> {}

\* ... or raise.  A select_folder before the login raises IMAP4.error, and
\* only IMAP4.abort makes imap_agent connect again.
ImapAgentRaises ==
    CASE agent \in {"none", "dead"} -> FailedAgents
      [] agent = "selected"         -> IF reached THEN {} ELSE {"dead"}
      [] agent = "connected"        -> {"connected"}

\* execute: search, then fetch if mails match.
Use ==
    /\ scan \in {"search", "fetch"}
    /\ agent' \in ImapAgent
    /\ scan' \in IF scan = "search" THEN {"fetch", "rows"} ELSE {"rows"}
    /\ UNCHANGED reached

UseRaises ==
    /\ scan \in {"search", "fetch"}
    /\ agent' \in ImapAgentRaises
    /\ scan' = "raised"
    /\ UNCHANGED reached

ImapNext == HangUp \/ NetworkChanges \/ StartScan \/ Use \/ UseRaises

\* The client tries again, and PostgreSQL runs what it is asked to.
ImapFairness == WF_imapvars(StartScan) /\ WF_imapvars(Use \/ UseRaises)

ImapSpec == ImapInit /\ [][ImapNext]_imapvars /\ ImapFairness

-----------------------------------------------------------------------------

\* Once the server can be reached for good, a scan that is tried again
\* returns rows, however often the server hangs up on the idle connection in
\* between: no failure of the connection sticks.  Logins are not refused.
ImapRecovers ==
    <>[]reached => (scan \in {"search", "raised"} ~> scan = "rows")
=============================================================================
