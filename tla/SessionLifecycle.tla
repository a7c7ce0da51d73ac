--------------------------- MODULE SessionLifecycle ---------------------------
(***************************************************************************)
(* What muxac promises about the rows of its table, whatever the processes *)
(* that share it do in which order.  Sessions, with every command, hook    *)
(* and listing, implements it; so do ClaudeSync and AgentSyncs, with what  *)
(* the monitor concludes about one session and why.                        *)
(***************************************************************************)
EXTENDS SessionTable

CONSTANTS
    Keys,     \* the (name, path) pairs an agent may report from
    Managed   \* those `muxac new` is run for

VARIABLES
    rows,    \* the sessions table
    live,    \* keys whose tmux session exists
    seen,    \* rows the monitor has read and not dealt with yet
    lapsed,  \* keys without a tmux session at some time since the monitor looked
    doomed   \* keys whose session a user killed and whose row is to go

vars == <<rows, live, seen, lapsed, doomed>>

Init ==
    /\ rows = EmptyTable
    /\ live = {}
    /\ seen = EmptyTable
    /\ lapsed = {}
    /\ doomed = {}

\* `new` or an agent's hook says what the status is.
Report(k, status) ==
    /\ rows' = UpsertSessionStatus(rows, k, status, status = "waiting")
    /\ UNCHANGED <<live, seen, lapsed, doomed>>

\* A hook says which agent a row belongs to.
Identify(k) ==
    /\ rows' \in {UpdateAgentTool(rows, k, tool) : tool \in Tools}
                   \cup {UpdateAgentSessionID(rows, k)}
    /\ UNCHANGED <<live, seen, lapsed, doomed>>

\* One tmux session is that of every key with its name.
Begin(K) ==
    /\ live' = live \cup K
    /\ UNCHANGED <<rows, seen, lapsed, doomed>>

\* It ends by itself, or a user kills it to remove the keys of D.
End(K, D) ==
    /\ live' = live \ K
    /\ lapsed' = lapsed \cup K
    /\ doomed' = doomed \cup D
    /\ UNCHANGED <<rows, seen>>

\* Another removal of the same key may be under way.
Remove(k) ==
    /\ k \in doomed
    /\ rows' = DeleteSession(rows, k)
    /\ doomed' \in {doomed, doomed \ {k}}
    /\ UNCHANGED <<live, seen, lapsed>>

GiveUp(k) ==
    /\ doomed' = doomed \ {k}
    /\ UNCHANGED <<rows, live, seen, lapsed>>

\* The monitor reads the table.
Look ==
    /\ seen' = rows
    /\ lapsed' = Keys \ live
    /\ UNCHANGED <<rows, live, doomed>>

\* It deals once with each row it has read: not at all, ...
Pass(k) ==
    /\ seen' = DeleteSession(seen, k)
    /\ UNCHANGED <<rows, live, lapsed, doomed>>

\* ... by deleting it, if its session was absent since, ...
Reap(k) ==
    /\ k \in DOMAIN seen
    /\ k \in lapsed
    /\ rows' = DeleteSession(rows, k)
    /\ seen' = DeleteSession(seen, k)
    /\ UNCHANGED <<live, lapsed, doomed>>

\* ... or by a status the row's agent may have, if nothing changed it since.
Conclude(k, target) ==
    /\ k \in DOMAIN seen
    /\ target \in SyncTargets(seen[k])
    /\ rows' = UpdateSessionStatusIfUnchanged(
                   rows, k, target, target = "waiting", seen[k].status)
    /\ seen' = DeleteSession(seen, k)
    /\ UNCHANGED <<live, lapsed, doomed>>

\* Its tick is over, or it dies.
Forget ==
    /\ seen' = EmptyTable
    /\ lapsed' = {}
    /\ UNCHANGED <<rows, live, doomed>>

Next ==
    \/ \E k \in Managed, status \in Statuses : Report(k, status)
    \/ \E k \in Keys : Identify(k)
    \/ \E K \in SUBSET Keys : Begin(K)
    \/ \E K \in SUBSET Keys : \E D \in SUBSET K : End(K, D)
    \/ \E k \in Keys : Remove(k)
    \/ \E k \in Keys : GiveUp(k)
    \/ Look
    \/ \E k \in Keys : Pass(k)
    \/ \E k \in Keys : Reap(k)
    \/ \E k \in Keys, target \in Statuses : Conclude(k, target)
    \/ Forget

Spec == Init /\ [][Next]_vars
=============================================================================
