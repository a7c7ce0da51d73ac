------------------------------ MODULE Sessions ------------------------------
(***************************************************************************)
(* The life of a session row.  Three kinds of processes share the sessions *)
(* table and the tmux server with no lock between them: the commands       *)
(* `muxac new` and `muxac remove`, the `muxac hook` processes the agents   *)
(* start, and the monitor, which every second lists the table, lists the   *)
(* tmux sessions, and then deletes or updates row by row.  One SQL query   *)
(* or one tmux call is one step; everything else interleaves between two.  *)
(***************************************************************************)
EXTENDS SessionTable, PathKey, FiniteSets

CONSTANTS
    Keys,       \* the (name, path) pairs, as records
    NewKeys,    \* those the user runs `muxac new` for; a nested agent reports the others
    Commands,   \* processes that run `muxac new` or `muxac remove`
    Hooks,      \* processes that run `muxac hook`
    HookInputs, \* what an agent may send a hook: [tool, event, notification, sessionID]
    TmuxFaults  \* may a tmux query fail while the server has the session?

ASSUME KeysAssumption == NewKeys \subseteq Keys

ASSUME HookInputsAssumption ==
    HookInputs \subseteq [tool         : Tools,
                          event        : HookEventNames,
                          notification : NotificationTypes,
                          sessionID    : BOOLEAN]

ASSUME TmuxFaultsAssumption == TmuxFaults \in BOOLEAN

VARIABLES
    sessions,  \* the sessions table
    tmux,      \* names of the tmux sessions that exist
    cmd,       \* cmd[c]: where the command c is
    hook,      \* hook[h]: where the hook process h is
    monPC,     \* where the monitor is
    snapshot,  \* dbSessions: the rows this tick listed
    alive,     \* the tmux names this tick listed
    pending,   \* rows of snapshot this tick has yet to sync
    lapsed     \* history: keys without a tmux session at some time since this
               \* tick listed the rows

monitorVars == <<monPC, snapshot, alive, pending>>
vars == <<sessions, tmux, cmd, hook, monitorVars, lapsed>>

Done == [pc |-> "done"]

Live(k) == TmuxSessionName(k) \in tmux

\* What has-session can answer: any failure of the tmux client reads as FALSE.
HasSession(k) == {Live(k)} \cup (IF TmuxFaults THEN {FALSE} ELSE {})

\* The tmux session of k is gone (again): every key of that name has lapsed.
NowWithout(name) == {k \in Keys : TmuxSessionName(k) = name}

-----------------------------------------------------------------------------
(* muxac new *)

NewStart(c, k) ==
    /\ cmd[c] = Done
    /\ FALSE \in HasSession(k)
    /\ cmd' = [cmd EXCEPT ![c] = [pc |-> "upsert", key |-> k]]
    /\ UNCHANGED <<sessions, tmux, hook, monitorVars, lapsed>>

NewUpsert(c) ==
    /\ cmd[c].pc = "upsert"
    /\ LET k == cmd[c].key IN
        /\ sessions' = UpsertSessionStatus(sessions, k, "idle", FALSE)
        /\ cmd' = [cmd EXCEPT ![c].pc = "create"]
    /\ UNCHANGED <<tmux, hook, monitorVars, lapsed>>

\* tmux new-session: fails on a duplicate name.  The command then stays
\* attached to the session and touches nothing more.
NewCreate(c) ==
    /\ cmd[c].pc = "create"
    /\ tmux' = tmux \cup {TmuxSessionName(cmd[c].key)}
    /\ cmd' = [cmd EXCEPT ![c] = Done]
    /\ UNCHANGED <<sessions, hook, monitorVars, lapsed>>

-----------------------------------------------------------------------------
(* muxac remove *)

\* The row goes first, and the session is never killed.
RemoveStartWithDelete(c, k) ==
    /\ cmd[c] = Done
    /\ TRUE \in HasSession(k)
    /\ cmd' = [cmd EXCEPT ![c] = [pc |-> "delete", key |-> k]]
    /\ UNCHANGED <<sessions, tmux, hook, monitorVars, lapsed>>

RemoveStart(c, k) ==
    /\ cmd[c] = Done
    /\ TRUE \in HasSession(k)
    /\ cmd' = [cmd EXCEPT ![c] = [pc |-> "kill", key |-> k]]
    /\ UNCHANGED <<sessions, tmux, hook, monitorVars, lapsed>>

RemoveKill(c) ==
    /\ cmd[c].pc = "kill"
    /\ Live(cmd[c].key)
    /\ LET name == TmuxSessionName(cmd[c].key) IN
        /\ tmux' = tmux \ {name}
        /\ lapsed' = lapsed \cup NowWithout(name)
    /\ cmd' = [cmd EXCEPT ![c].pc = "delete"]
    /\ UNCHANGED <<sessions, hook, monitorVars>>

RemoveDelete(c) ==
    /\ cmd[c].pc = "delete"
    /\ sessions' = DeleteSession(sessions, cmd[c].key)
    /\ cmd' = [cmd EXCEPT ![c] = Done]
    /\ UNCHANGED <<tmux, hook, monitorVars, lapsed>>

\* The command is interrupted, or its next query or tmux call fails: it
\* returns the error and undoes nothing.
CommandAborts(c) ==
    /\ cmd[c] # Done
    /\ cmd' = [cmd EXCEPT ![c] = Done]
    /\ UNCHANGED <<sessions, tmux, hook, monitorVars, lapsed>>

-----------------------------------------------------------------------------
(* muxac hook *)

\* Run without its HasSession check.
HookStartUnchecked(h, k, input) ==
    /\ hook[h] = Done
    /\ HookEvent(input) \in CanonicalEvents
    /\ hook' = [hook EXCEPT ![h] = [pc |-> "read", key |-> k, input |-> input]]
    /\ UNCHANGED <<sessions, tmux, cmd, monitorVars, lapsed>>

\* Up to the HasSession check.  The key is MUXAC_SESSION_NAME with the
\* agent's project directory, so any key: every process below the pane
\* inherits the variable, and one may outlive the tmux session.
HookStart(h, k, input) ==
    /\ hook[h] = Done
    /\ HookEvent(input) \in CanonicalEvents
    /\ TRUE \in HasSession(k)
    /\ hook' = [hook EXCEPT ![h] = [pc |-> "read", key |-> k, input |-> input]]
    /\ UNCHANGED <<sessions, tmux, cmd, monitorVars, lapsed>>

\* Where Run goes once the status is as the event wants it.
AfterStatus(h) ==
    IF HookEvent(hook[h].input) = "SessionStart"
    THEN [hook[h] EXCEPT !.pc = "tool"]
    ELSE Done

\* GetSessionStatus and the decision made on its result.
HookRead(h) ==
    /\ hook[h].pc = "read"
    /\ LET current == GetSessionStatus(sessions, hook[h].key)
           event   == HookEvent(hook[h].input)
           blocked == /\ hook[h].input.tool # "gemini"
                      /\ ~IsValidTransition(current, event)
       IN hook' = [hook EXCEPT ![h] =
                     IF blocked THEN Done
                     ELSE IF FromEvent[event] # current
                          THEN [hook[h] EXCEPT !.pc = "upsert"]
                          ELSE AfterStatus(h)]
    /\ UNCHANGED <<sessions, tmux, cmd, monitorVars, lapsed>>

\* waiting_since left for the monitor to fill in.
HookUpsertNoWaitingSince(h) ==
    /\ hook[h].pc = "upsert"
    /\ LET k == hook[h].key
           target == FromEvent[HookEvent(hook[h].input)]
       IN sessions' = UpsertSessionStatus(sessions, k, target, FALSE)
    /\ hook' = [hook EXCEPT ![h] = AfterStatus(h)]
    /\ UNCHANGED <<tmux, cmd, monitorVars, lapsed>>

HookUpsert(h) ==
    /\ hook[h].pc = "upsert"
    /\ LET k == hook[h].key
           target == FromEvent[HookEvent(hook[h].input)]
       IN sessions' = UpsertSessionStatus(sessions, k, target, target = "waiting")
    /\ hook' = [hook EXCEPT ![h] = AfterStatus(h)]
    /\ UNCHANGED <<tmux, cmd, monitorVars, lapsed>>

HookUpdateTool(h) ==
    /\ hook[h].pc = "tool"
    /\ sessions' = UpdateAgentTool(sessions, hook[h].key, hook[h].input.tool)
    /\ hook' = [hook EXCEPT ![h] =
                  IF hook[h].input.sessionID
                  THEN [hook[h] EXCEPT !.pc = "sessionID"]
                  ELSE Done]
    /\ UNCHANGED <<tmux, cmd, monitorVars, lapsed>>

HookUpdateSessionID(h) ==
    /\ hook[h].pc = "sessionID"
    /\ sessions' = UpdateAgentSessionID(sessions, hook[h].key)
    /\ hook' = [hook EXCEPT ![h] = Done]
    /\ UNCHANGED <<tmux, cmd, monitorVars, lapsed>>

\* The hook process dies, or its next query fails.
HookAborts(h) ==
    /\ hook[h] # Done
    /\ hook' = [hook EXCEPT ![h] = Done]
    /\ UNCHANGED <<sessions, tmux, cmd, monitorVars, lapsed>>

-----------------------------------------------------------------------------
(* The monitor.  A tick lists the rows, lists the tmux sessions, and syncs  *)
(* the rows one by one; "list" is also where it sleeps between two ticks.   *)

ForgetTick ==
    /\ snapshot' = EmptyTable
    /\ alive' = {}
    /\ pending' = {}
    /\ lapsed' = {}

\* EnsureRunning starts it, from any command; it syncs at once.
MonitorStart ==
    /\ monPC = "down"
    /\ monPC' = "list"
    /\ UNCHANGED <<sessions, tmux, cmd, hook, snapshot, alive, pending, lapsed>>

\* It is killed (EnsureRunning of another version, kill-server, a crash), at
\* any point of a tick.
MonitorStop ==
    /\ monPC # "down"
    /\ monPC' = "down"
    /\ ForgetTick
    /\ UNCHANGED <<sessions, tmux, cmd, hook>>

MonitorListSessions ==
    /\ monPC = "list"
    /\ snapshot' = sessions
    /\ lapsed' = {k \in Keys : ~Live(k)}
    /\ monPC' = "listTmux"
    /\ UNCHANGED <<sessions, tmux, cmd, hook, alive, pending>>

\* The rows to sync are not those listed.
MonitorListTmuxRelists ==
    /\ monPC = "listTmux"
    /\ alive' \in {tmux} \cup (IF TmuxFaults THEN {{}} ELSE {})
    /\ pending' = DOMAIN sessions
    /\ monPC' = "sync"
    /\ UNCHANGED <<sessions, tmux, cmd, hook, snapshot, lapsed>>

\* ListSessionNames never returns an error: a tmux client that fails reads as
\* a server without sessions.
MonitorListTmux ==
    /\ monPC = "listTmux"
    /\ alive' \in {tmux} \cup (IF TmuxFaults THEN {{}} ELSE {})
    /\ pending' = DOMAIN snapshot
    /\ monPC' = "sync"
    /\ UNCHANGED <<sessions, tmux, cmd, hook, snapshot, lapsed>>

ListedAlive(k) == TmuxSessionName(k) \in alive

\* Rows without an agent are left for `muxac remove`.
MonitorDeleteDeadAgents(k) ==
    /\ monPC = "sync"
    /\ k \in pending
    /\ ~ListedAlive(k)
    /\ snapshot[k].tool # UnknownTool
    /\ sessions' = DeleteSession(sessions, k)
    /\ pending' = pending \ {k}
    /\ UNCHANGED <<tmux, cmd, hook, monPC, snapshot, alive, lapsed>>

\* syncSession: the tmux session was not listed.
MonitorDeleteDead(k) ==
    /\ monPC = "sync"
    /\ k \in pending
    /\ ~ListedAlive(k)
    /\ sessions' = DeleteSession(sessions, k)
    /\ pending' = pending \ {k}
    /\ UNCHANGED <<tmux, cmd, hook, monPC, snapshot, alive, lapsed>>

\* UPDATE ... WHERE name = ? AND path = ?, without the status.
MonitorSyncUnguarded(k, target) ==
    /\ monPC = "sync"
    /\ k \in pending
    /\ ListedAlive(k)
    /\ target \in SyncTargets(snapshot[k])
    /\ sessions' = IF k \in DOMAIN sessions
                   THEN [sessions EXCEPT ![k].status = target,
                                         ![k].waitingSince = target = "waiting"]
                   ELSE sessions
    /\ pending' = pending \ {k}
    /\ UNCHANGED <<tmux, cmd, hook, monPC, snapshot, alive, lapsed>>

MonitorSync(k, target) ==
    /\ monPC = "sync"
    /\ k \in pending
    /\ ListedAlive(k)
    /\ target \in SyncTargets(snapshot[k])
    /\ sessions' = UpdateSessionStatusIfUnchanged(
                      sessions, k, target, target = "waiting", snapshot[k].status)
    /\ pending' = pending \ {k}
    /\ UNCHANGED <<tmux, cmd, hook, monPC, snapshot, alive, lapsed>>

\* Nothing to change, or an error: sync collects it and goes on.
MonitorSkip(k) ==
    /\ monPC = "sync"
    /\ k \in pending
    /\ pending' = pending \ {k}
    /\ UNCHANGED <<sessions, tmux, cmd, hook, monPC, snapshot, alive, lapsed>>

\* The tick starts over without listing anything again.
MonitorTickRepeats ==
    /\ monPC = "sync"
    /\ pending = {}
    /\ snapshot' = sessions
    /\ pending' = DOMAIN sessions
    /\ lapsed' = {k \in Keys : ~Live(k)}
    /\ UNCHANGED <<sessions, tmux, cmd, hook, monPC, alive>>

MonitorTickEnds ==
    /\ monPC = "sync"
    /\ pending = {}
    /\ monPC' = "list"
    /\ ForgetTick
    /\ UNCHANGED <<sessions, tmux, cmd, hook>>

-----------------------------------------------------------------------------
(* The world outside *)

\* The agent exits, or the user kills the tmux session.
SessionExits(name) ==
    /\ name \in tmux
    /\ tmux' = tmux \ {name}
    /\ lapsed' = lapsed \cup NowWithout(name)
    /\ UNCHANGED <<sessions, cmd, hook, monitorVars>>

-----------------------------------------------------------------------------
Init ==
    /\ sessions = EmptyTable
    /\ tmux = {}
    /\ cmd = [c \in Commands |-> Done]
    /\ hook = [h \in Hooks |-> Done]
    /\ monPC = "down"
    /\ snapshot = EmptyTable
    /\ alive = {}
    /\ pending = {}
    /\ lapsed = {}

CommandStep(c) ==
    \/ \E k \in NewKeys : NewStart(c, k)
    \/ NewUpsert(c)
    \/ NewCreate(c)
    \/ \E k \in Keys : RemoveStart(c, k)
    \/ RemoveKill(c)
    \/ RemoveDelete(c)
    \/ CommandAborts(c)

HookStep(h) ==
    \/ \E k \in Keys, input \in HookInputs : HookStart(h, k, input)
    \/ HookRead(h)
    \/ HookUpsert(h)
    \/ HookUpdateTool(h)
    \/ HookUpdateSessionID(h)
    \/ HookAborts(h)

\* What a running monitor does of its own accord.
MonitorStep ==
    \/ MonitorListSessions
    \/ MonitorListTmux
    \/ \E k \in Keys : MonitorDeleteDead(k)
    \/ \E k \in Keys, target \in Statuses : MonitorSync(k, target)
    \/ \E k \in Keys : MonitorSkip(k)
    \/ MonitorTickEnds

Next ==
    \/ \E c \in Commands : CommandStep(c)
    \/ \E h \in Hooks : HookStep(h)
    \/ MonitorStart
    \/ MonitorStop
    \/ MonitorStep
    \/ \E name \in tmux : SessionExits(name)

Spec == Init /\ [][Next]_vars

\* The monitor's ticker keeps firing while the process is up, and deleting a
\* row does not fail forever.  Nothing is assumed of users, agents and hooks.
Fairness ==
    /\ WF_vars(MonitorStep)
    /\ \A k \in Keys : SF_vars(MonitorDeleteDead(k))

FairSpec == Spec /\ Fairness

-----------------------------------------------------------------------------
(* Sessions implements SessionLifecycle.  A row the monitor has read counts *)
(* until its tick has dealt with it.                                        *)

Unsynced == [k \in (IF monPC = "sync" THEN pending ELSE DOMAIN snapshot) |-> snapshot[k]]

Doomed == {cmd[c].key : c \in {d \in Commands : cmd[d].pc = "delete"}}

Lifecycle == INSTANCE SessionLifecycle
    WITH Managed <- NewKeys,
         rows    <- sessions,
         live    <- {k \in Keys : Live(k)},
         seen    <- Unsynced,
         lapsed  <- lapsed,
         doomed  <- Doomed

\* What muxac promises of its table (SessionLifecycle): only a user's command,
\* or the monitor about a session that was absent since it read the row,
\* removes a row; the monitor concludes at most once from a row it has read,
\* only if its status stayed, and only what the row's agent allows.
ImplementsLifecycle == Lifecycle!Spec

-----------------------------------------------------------------------------
(* Properties *)

CommandStates ==
    {Done} \cup [pc : {"upsert", "create"}, key : NewKeys]
           \cup [pc : {"kill", "delete"}, key : Keys]

HookStates ==
    {Done} \cup [pc    : {"read", "upsert", "tool", "sessionID"},
                 key   : Keys,
                 input : {i \in HookInputs : HookEvent(i) \in CanonicalEvents}]

\* Every variable has its type; the rows still to sync are rows the tick
\* listed (what the queries of internal/database/sqlc may store and return).
TypeOK ==
    /\ IsTable(sessions, Keys)
    /\ tmux \subseteq {TmuxSessionName(k) : k \in NewKeys}
    /\ cmd \in [Commands -> CommandStates]
    /\ hook \in [Hooks -> HookStates]
    /\ monPC \in {"down", "list", "listTmux", "sync"}
    /\ IsTable(snapshot, Keys)
    /\ alive \subseteq {TmuxSessionName(k) : k \in NewKeys}
    /\ pending \subseteq (IF monPC = "sync" THEN DOMAIN snapshot ELSE {})
    /\ lapsed \subseteq Keys

\* A row has a waiting_since exactly while it is waiting, whichever of the
\* command, the hooks and the monitor wrote it last: the monitor's waiting
\* heuristics trust a non-empty waiting_since to be the current wait's.
WaitingSinceConsistent ==
    \A k \in DOMAIN sessions :
        sessions[k].waitingSince <=> sessions[k].status = "waiting"

\* hook.go:48-52: no row is ever created for a directory muxac made no
\* session for, however many nested agents report from there.
NoPhantomRows == DOMAIN sessions \subseteq NewKeys

\* The row of k disappears in a step of the monitor, the only process that
\* deletes rows without a command's request.
MonitorDeletes(k) ==
    /\ k \in DOMAIN sessions
    /\ k \notin DOMAIN sessions'
    /\ cmd' = cmd

\* The monitor deletes a row only if its tmux session was really absent at
\* some time since the tick read that row: the order of the two listings in
\* sync and their freshness matter.
DeletesOnlyLapsedSessions ==
    [][\A k \in Keys : MonitorDeletes(k) => k \in lapsed]_vars

\* While the monitor is the one to write, a row it changes still has the
\* status it listed, and no row it listed comes back after it was deleted.
MonitorRespectsHooks ==
    [][cmd' = cmd /\ hook' = hook =>
         \A k \in DOMAIN sessions' :
            \/ /\ k \in DOMAIN sessions
               /\ sessions'[k] = sessions[k]
            \/ /\ k \in DOMAIN sessions \cap DOMAIN snapshot
               /\ sessions[k].status = snapshot[k].status]_vars

MonitorStaysUp == <>[](monPC # "down")

\* monitor_test.go:105 "dead session is deleted": with the monitor up for
\* good, a row without a tmux session is deleted in the end, unless the
\* session comes (back) to life.
DeadRowsReaped ==
    MonitorStaysUp =>
        \A k \in Keys :
            (k \in DOMAIN sessions /\ ~Live(k)) ~> (k \notin DOMAIN sessions \/ Live(k))

AtKey(c, k) == cmd[c] # Done /\ cmd[c].key = k

\* Once the tmux session of a key is gone for good and no command works on the
\* key, its row stays away for good: hooks caught in the middle of their work
\* may bring it back a few times only, and the monitor reaps each of these.
DeadSessionsStayGone ==
    MonitorStaysUp =>
        \A k \in Keys :
            <>[](~Live(k) /\ \A c \in Commands : ~AtKey(c, k))
                => <>[](k \notin DOMAIN sessions)

\* The hooks of k that have passed their check and may still write a status.
Writers(k) == {h \in Hooks : hook[h].pc \in {"read", "upsert"} /\ hook[h].key = k}

\* hook.go:48-52: while the tmux session of a key is gone and no command works
\* on the key, no more hooks set out to write its row, and each of those that
\* have may bring it back once.
OnlyOldHooksRevive ==
    [][\A k \in Keys : ~Live(k) /\ (\A c \in Commands : ~AtKey(c, k)) =>
         /\ Writers(k)' \subseteq Writers(k)
         /\ k \in DOMAIN sessions' \ DOMAIN sessions => Writers(k)' # Writers(k)]_vars

\* README.md:296 "Lists all muxac sessions with their status": when nothing is
\* under way, a session that lives has a row to be listed.
LiveSessionsListed ==
    (/\ \A c \in Commands : cmd[c] = Done
     /\ \A h \in Hooks : hook[h] = Done
     /\ monPC = "list")
    => \A k \in NewKeys : Live(k) => k \in DOMAIN sessions
=============================================================================
