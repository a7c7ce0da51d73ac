---------------------------- MODULE SessionTable ----------------------------
(***************************************************************************)
(* The sessions table and the queries over it (db/schema.sql, db/          *)
(* queries.sql, internal/database/sqlc).  A table is a function from the   *)
(* keys (path, name) that have a row to their rows; every query is one     *)
(* SQLite statement, so every operator here is used as one atomic step.    *)
(* created_at is never read; updated_at is modelled in ClaudeSync, the     *)
(* only place that compares it.                                            *)
(***************************************************************************)
EXTENDS SessionStatus

\* waitingSince: waiting_since is not empty.  hasID: agent_session_id is not
\* empty.  tool ranges over the CHECK constraint of the column.
Row == [status       : Statuses,
        waitingSince : BOOLEAN,
        tool         : Tools \cup {UnknownTool},
        hasID        : BOOLEAN]

\* t is a table with rows for some of the keys.
IsTable(t, keys) ==
    /\ DOMAIN t \subseteq keys
    /\ t \in [DOMAIN t -> Row]

EmptyTable == [k \in {} |-> k]

GetSessionStatus(t, k) ==
    IF k \in DOMAIN t THEN t[k].status ELSE Unknown

\* INSERT ... ON CONFLICT (name, path) DO UPDATE of status, updated_at and
\* waiting_since: a row that exists keeps its agent columns.
UpsertSessionStatus(t, k, status, waitingSince) ==
    [j \in DOMAIN t \cup {k} |->
        IF j # k THEN t[j]
        ELSE IF k \in DOMAIN t
             THEN [t[k] EXCEPT !.status = status, !.waitingSince = waitingSince]
             ELSE [status |-> status, waitingSince |-> waitingSince,
                   tool |-> UnknownTool, hasID |-> FALSE]]

\* UPDATE ... WHERE name = ? AND path = ? AND status = ?: the compare-and-swap
\* of the monitor.
UpdateSessionStatusIfUnchanged(t, k, status, waitingSince, expected) ==
    IF k \in DOMAIN t /\ t[k].status = expected
    THEN [t EXCEPT ![k].status = status, ![k].waitingSince = waitingSince]
    ELSE t

UpdateAgentTool(t, k, tool) ==
    IF k \in DOMAIN t THEN [t EXCEPT ![k].tool = tool] ELSE t

UpdateAgentSessionID(t, k) ==
    IF k \in DOMAIN t THEN [t EXCEPT ![k].hasID = TRUE] ELSE t

DeleteSession(t, k) == [j \in DOMAIN t \ {k} |-> t[j]]

-----------------------------------------------------------------------------
(* The statuses each tool's sync may move a row to that the monitor read.   *)
(* ClaudeSync and AgentSyncs have how the three decide.                     *)

ClaudeTargets(row) == IF row.hasID THEN Statuses \ {row.status} ELSE {}

CodexTargets(row) == IF row.status = "idle" THEN {} ELSE {"idle"}

\* A cancellation in the session file, or a prompt that went away.
GeminiTargets(row) ==
    (IF row.hasID /\ row.status # "idle" THEN {"idle"} ELSE {})
    \cup (IF row.status = "waiting" THEN {"running"} ELSE {})

SyncTargets(row) ==
    CASE row.tool = "claude" -> ClaudeTargets(row)
      [] row.tool = "codex"  -> CodexTargets(row)
      [] row.tool = "gemini" -> GeminiTargets(row)
      [] OTHER               -> {}
=============================================================================
