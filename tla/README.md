# muxac in TLA+

muxac keeps coding agents (Claude Code, Codex, Gemini CLI) in tmux sessions and shows which of them is
`running`, `waiting` for its user or `idle`. No process of it owns a session's status: commands, hook processes and a
monitor share a SQLite database and a tmux server, with no lock between them. This directory models that program,
checks the models with TLC and proves their safety properties with TLAPS. Paths below are relative to the
repository's root.

    tlc -config Sessions_one.cfg MCSessions.tla      # one run; PROJECT.json lists them all
    tlapm SessionsProofs.tla                         # one of the eight proof modules

## 1. The system

| Part | Source | State it keeps | Operations |
|---|---|---|---|
| commands | `main.go`, `internal/newcmd`, `remove`, `attach`, `list` | none of their own | `new`: check, insert the row, create the tmux session. `remove`: check, kill, delete the row. `list` reads, `attach` hands over the terminal |
| hook | `main.go`, `internal/hook`, `status`, `agent` | none | one process per agent event: find out the tool and the key, check the tmux session, read the status, write the new one; `SessionStart` also stores the agent's tool and session id |
| table | `internal/database/sqlc`, `db/` | `sessions`, `monitor_heartbeat`, `debug_log` | upsert, compare-and-swap on the status, delete |
| opening the database | `internal/database` | the file and its `_migrations` | every process: remove a file of before there were migrations, connect, migrate |
| tmux | `internal/tmux`, `internal/pathkey` | the sessions of the socket | has, new, kill and list sessions, capture a pane; a session is named after (name, directory) |
| monitor | `internal/monitor/monitor.go` | five counters per session, in memory | every second: heartbeat, list rows, list tmux sessions, delete dead rows, correct the status of live ones |
| Claude Code sync | `monitor.go` 419-755 | the counters | compares the row with the transcript tail (read backwards, 358-417) and the terminal |
| Codex, Gemini sync | `monitor.go` 877-1132 | two of the counters | the same from the terminal (and Gemini's session file) |
| supervision | `internal/monitor/ensure.go` | the heartbeat row | every command restarts a monitor that is missing, stale or of another build |

**How they interact.** The row of a session is written by `new` (idle), by hooks (what the agent reports), by the
monitor (what it concludes) and deleted by `remove` and by the monitor. Each write is one SQL statement; what a
process read before may be stale when it writes. The tmux server is a second shared state: its sessions come and go
with commands, agents and users. A third is the environment: a hook knows its session and its tool only from variables
that every process below the pane inherits.

**What is hard.** Two listings and many row updates make up a tick, and everything may happen between them. A hook
reads and writes in two statements, next to other hooks of the same agent. Hooks may be missing, late or out of order,
so the monitor infers the status from a transcript and a screen that lag the agent, with debounce counters that are
reset on different paths and lost on a restart. Commands that find the monitor stale act on what they found a while ago.
Processes open a database that others are creating, or die in the middle. `PROJECT.json` lists each hazard at its line.

**What makes each part correct.**

* rows and tmux sessions: a live session has a row, a dead one loses it and stays lost, nobody's row is invented;
* hooks against monitor: the monitor corrects only a status that is still the one it looked at (it cannot tell one that
  left and came back since, see §5);
* the syncs: no session that waits at a prompt is called anything else, no prose is taken for a prompt nor a
  pause in the work for its end, and the status ends up right whichever hooks were missed;
* supervision: never two monitors that go on, and in the end one of the build in use;
* the database: each migration once and in order, and no migrated database is lost;
* hooks: attributed to the agent that sent them and to its own row.

## 2. The modules

| Module | Models | Uses |
|---|---|---|
| `SessionStatus` | statuses, events, `FromEvent`, `IsValidTransition`, `NormalizeEvent` | |
| `SessionTable` | the table as a function from keys to rows, one operator per query; what each tool's sync may conclude from a row | `SessionStatus` |
| `PathKey` | `fromDir` and `TmuxSessionName` as rewritings of character sequences | |
| `SessionLifecycle` | abstract: what muxac promises about its rows | `SessionTable` |
| `Sessions` | commands, hooks, monitor tick and tmux server, interleaved query by query | `SessionTable`, `PathKey`; implements `SessionLifecycle` |
| `ClaudeSync` | `syncClaudeCodeSession` with the agent, its user, its hooks and its transcript | `SessionTable`; steps of `SessionLifecycle` |
| `AgentSyncs` | `syncCodexSession` and `syncGeminiSession`, one agent after the other in a pane | `SessionTable`; steps of `SessionLifecycle` |
| `Supervisor` | `EnsureRunning` from commands of several builds, the heartbeat, the monitor processes | |
| `DatabaseOpen` | `database.Open` from several processes | |
| `HookOrigin` | the pane's environment, `DetectTool`, `ProjectDir`, `main.go`'s hook command | |
| `TranscriptTail` | `readLastLines` | |
| `SessionsProofs`, `ClaudeSyncProofs`, `AgentSyncsProofs`, `SupervisorProofs`, `DatabaseOpenProofs`, `HookOriginProofs`, `TranscriptTailProofs` | theorems about the module they are named after | that module, TLAPS |
| `SessionsRefinement` | that `Sessions` does what `SessionLifecycle` allows | `SessionsProofs` |
| `MCSessions`, `MCClaudeSync`, `MCAgentSyncs`, `MCSupervisor`, `MCDatabaseOpen`, `MCHookOrigin` | instances for TLC | |
| `MCTranscriptTail` | an instance for TLC, and lines the way the code makes them | `TranscriptTail` |

Operators whose comment describes a deviation ("The debounce starts over on every tick", "The connection is not
closed") are not part of the specifications. They are plausible mistakes; substituting one for the definition next to it
must break the property `PROJECT.json` pairs with it.

### SessionLifecycle and how the modules compose

`SessionLifecycle` has the rows, the keys whose tmux session lives, the rows the monitor has read and not dealt with
(`seen`), the keys that had no session at some time since (`lapsed`) and those a user is removing (`doomed`). A status
comes from a report (`new`, a hook) or from a conclusion of the monitor; the monitor concludes at most once from
each row it has read, only a status that the row's agent may be given (`SyncTargets`), and only if the row's status
stayed. A row goes only when its session was killed for its removal, or was absent since the monitor read it.

`Sessions` implements it with every process and leaves open what a sync concludes: `MonitorSync` takes any
status of `SyncTargets`, so its properties hold whatever the heuristics say. `ClaudeSync` and `AgentSyncs` are
what it leaves open: one session each, since the counters are keyed by session. Both are shown to take only
steps of the same `SessionLifecycle` (`StaysWithinLifecycle`), with the abstract step `Conclude` being the `Apply` of
their tick. The statuses that `Sessions` allows a sync are in that sense all that the two real ones write.

`Sessions` lets the monitor come and go at any time (`MonitorStart`, `MonitorStop`), and hooks report any key with any
tool; `Supervisor` and `HookOrigin` say when and which. `DatabaseOpen` comes before every command.

### Sessions

`sessions` is the table, `tmux` the set of tmux session names. `cmd[c]` and `hook[h]` say which query or tmux call a
process makes next, with what it has read; the monitor has `monPC`, its `snapshot` of the rows, the names it listed
(`alive`) and the rows it has yet to sync (`pending`). One action is one SQL statement or one tmux call together with the
decisions made on its result: `HookRead` is `GetSessionStatus` and the branch on the status, `HookUpsert` the write and
what `Run` goes on to. Processes may die or fail before any step (`CommandAborts`, `HookAborts`, `MonitorStop`,
`MonitorSkip`). `lapsed` is a history variable: which keys had no tmux session at some time since the tick
listed the rows.

*Keys.* A hook's key is the inherited `MUXAC_SESSION_NAME` with the agent's own directory, so `Keys` may be larger than
`NewKeys`, the keys the user creates sessions for. Names and paths are sequences of characters, so two keys may really
collide in `TmuxSessionName`.

### ClaudeSync

One live session. `phase` is what the agent really
does. The code compares timestamps, and only in four ways; the model keeps the results, in `row` and in the copy the tick
works on: `stopped` (the last conversation line is an interruption or an API error and later than `updated_at`),
`lagStopped` (the same for a line stamped and not yet written), `late` (some line is more than two
seconds later than `waiting_since`) and `waitAge`; `convAge` is the age of the last conversation turn. Time
passes in ticks of a second. A screen is the set of marks the text patterns look for; `Screens[p]` has
what a capture in phase `p` may show. A tick is `TickBegins` (list), `ReadTranscript` (the tail; what the tick
keeps of it is `fresh` and the copy's `late`) or `ReadStop` (the tail ends with an interruption or an error), one
`Observe...` action (capture, decide; the counters change here) and `Apply` (the compare-and-swap), with anything in
between. `ticked` keeps a second from passing without a tick, which may fail; a restart may take longer. `lull` is
a history variable: how many captures in a row came with no sign of work, those included that the tick itself missed.

Environment: the user submits, approves, cancels, interrupts; the agent writes turns and bookkeeping lines, asks,
finishes, compacts, gives up. Each fires the hooks of `HookEvents` it would fire; they arrive later, in any order or never.
`settled` marks that user and agent leave the session as it is, which is what the liveness properties start from.

### AgentSyncs

One live session whose pane runs Codex and Gemini one after the other (`Restart`), in any order; `row.tool` and `row.id`
say which of them the row still names, since a hook sets the two in separate updates and may die in between. The tick is
as in `ClaudeSync`, with a step of its own for Gemini's session file (`ReadFile`). Of that file only one
thing matters: whether it ends with a cancellation newer than `updated_at` (`cancelled`). Both syncs share
`capturePaneClearCount` and `capturePromptSeen` of the session. `since` is a history variable: what the agent has been
doing since the last capture, which is what a capture can be right or wrong about. Torn frames (without the marks of
their phase, or blank) may come at any time, but not twice in a row.

### Supervisor

`session` is the process in tmux's `muxac-monitor`, `process[p]` what becomes of each monitor process, `heartbeat` the row
with the build that wrote it and its age. `cmd[c]` walks through `EnsureRunning`: has-session, read the heartbeat, kill,
start. Killing a session is not the end of its process: `dying` ones may write once more.
`GivesUp` is a `kill-session`, an `os.Executable` or a `new-session` that fails by itself, or a command that dies between
them. `beaten` makes every running monitor tick once per second. `disturbed[c]` is a history variable: whether anything came
between what `c` found and what it did. `calm` is the build that alone is in use from some moment on.

### DatabaseOpen

`link` is the file the path names, `content[f]` what is in it, and `file[p]` the file a process has open, which need
not be the linked one. The actions are the system calls and transactions of `Open`: `Begin` (stat), `Look` (is there
a `_migrations`?), `Remove`, `Connect`, `CreateTable`, `Check`, `Apply`. `Fails` is an error or a death at any of
them. `schema` records which migrations' statements were run in which order. Migrations 2 and 3 recreate `sessions` and
could succeed a second time; 4 drops a table and adds a column and could not; that is `Repeatable`.

### HookOrigin

`server` is the environment the tmux server was started in, `agents` the agents of a pane, each run by the one before it
with the variables that one adds. `Hook(i, cwd)` is the hook command of the i-th agent, from any directory; `last` records
what it reported. What the agents set is known only from `agent.go`'s comments and is marked external.

### TranscriptTail

`file` grows by one byte at a time while the reader goes backwards through what there was when it was opened. The
properties compare with the definition in the comment of `readLastLines`. `LastLines` says by where lines begin and end what the
code makes by splitting, filtering and slicing, so that it can be reasoned about without a fold; `MCTranscriptTail` has the code's
`Split`, `NonEmpty` and `LastOf` and compares the two on every file of the instance (`LinesAreSplit`).

## 3. What the runs show

| Run | Instance | Shows |
|---|---|---|
| `Sessions_one` | 1 key, 1 command, 2 hooks, Claude's events and a Codex that follows it in the pane | types; `waiting_since` belongs to the current wait; the monitor deletes only what had lapsed and changes only rows whose status is the one it listed; only a hook that had passed its check brings the row of a dead session back, and only once |
| `Sessions_nested` | 2 keys, sessions for one of them, 2 commands, 1 hook, Gemini events | no phantom rows; `Sessions` implements `SessionLifecycle`; dead rows are reaped and stay gone |
| `ClaudeSync_safety` | four hooks, torn frames, all faults, thresholds in the code's order | prompts and work are never imagined, an open prompt is never overlooked, and no pause shorter than the debounce is taken for the end of the work |
| `ClaudeSync_liveness` | thresholds of 2, three hooks, faults | a settled session is shown right in the end, for good, an idle one unless its closing lines keep looking like work; steps of `SessionLifecycle` |
| `AgentSyncs` | both agents, the code's threshold, three hooks, torn and blank frames, all faults | no working Codex called idle, no open Gemini prompt called answered; interruptions, cancellations and approvals show in the end; steps of `SessionLifecycle` |
| `Supervisor` | 3 commands of 2 builds, 2 monitor processes | never two monitors that go on; a hook's `EnsureRunning` fails only to a race or a failing call; a monitor in charge stays so; one build takes over for good |
| `DatabaseOpen` | 2 processes, the older build lacking one of 4 migrations, 3 files | migrations once and in order; ready means migrated; a migrated database is not removed; a lone process comes closer with every step and gets it ready, whoever died before |
| `HookOrigin` | 3 agents deep, 3 directories, 2 names | hooks are attributed to their agent and row, outside named exceptions |
| `TranscriptTail` | files of up to 8 bytes, chunks of 2, 2 lines | exactly the last lines at opening, without empty lines; with them a part of the end; `LastLines` is what the code's splitting gives |

Runs that find a counterexample, each to a sentence of the repository (quoted in `PROJECT.json`):

| Run | What happens |
|---|---|
| `Sessions_unlisted` | a tick between `new`'s insert and its `new-session` deletes the row of the session about to start |
| `ClaudeSync_cancel` | a prompt that goes away (cancelled, or approved and the work stopped) between capture and update leaves the session waiting for ever |
| `DatabaseOpen_shared` | a process that looks at a database another is just creating takes it for a legacy one and removes it; the other goes on, ready, with a file no path leads to |

**Bounds.** Every state space is finite and explored completely, except where TLC stops at a counterexample. Nothing in
`Sessions` counts, so one instance of each process that can interfere is the question: two hooks are needed for a hook to
be overtaken by another, two keys for a nested agent, two commands for a removal that meets a creation.
`HookSymmetry` is used in one run without liveness, where hook processes are interchangeable. In
`ClaudeSync` ages stop at the largest value the code compares them with, and the counters at their thresholds.
The safety run has the constants of `monitor.go` (5, 8, 2, 2, 3 ticks and a grace of 2) but for the quiet period and the
idle threshold, 3 and 5: still in their order, and the quiet period still longer than one tick. With the code's own it
has 8.2 million states instead of 3.4 and passes as well. The liveness run has 2 for all of them, so that every
debounce is two ticks long. There `Steady` lets a session settle idle on frames with an ellipsis in the tail, without or with
both by turns; the violation `ClaudeSync_cancel` uses `PlainSteady`, without one, and the constants of `monitor.go`. The
safety run's `TornScreens` excludes a blank frame at a prompt, for the reason given below; every prompt shows its footer.
`AgentSyncs` has the code's threshold; its three hooks are one for each status, and `SessionStart` also identifies the agent.
In `Supervisor` a heartbeat is stale after 2 seconds instead of 10, which is the least that tells a monitor that beats every
second from one that does not; two commands of one build race each other and a third of another build races both; two
processes are the one in the session and one that is dying. In `DatabaseOpen` the third file is for the moment when each
process holds one and a new one is created; four migrations are those there are. In `HookOrigin` an inner, a middle and an
outer agent are enough for a variable to be inherited, overridden and skipped. In `TranscriptTail` 8 bytes are four chunks,
and `N + 1` newlines fit in any place relative to the chunks.

**Exemptions stated in the properties.** `StaysWaitingWhilePrompted` exempts a failed capture on the late-line path, which the
code takes for a screen without a prompt. That no interruption is newer than the row while a prompt is up is part of what
it claims. `IdleOnlyAfterLull` exempts an interruption or
an API error in the transcript, which idle at once. A turn written between a tick's reading of the transcript and its capture counts
as a sign of work in `lull` though the tick misses it, and so does one that the next read finds. Only what shows work to a tick that
compares the two ends a lull: after a failed capture or tick, the late-line path, or a tail that has lost its turns, the
lull counts as long, because the code's count goes on there (§5). `WakesOnRealSignals`,
`CodexIdleIsReal` and `GeminiPromptKeepsWaiting` are about what
the monitor decides when it looks; the agent may have moved on when the update is applied. `IdleIsShown`
excludes rows that are waiting, which `ClaudeSync_cancel` shows may stay so, and has an alternative: the row is running and
the terminal gives signs of work again and again, which a settled idle frame does when its tail ends in an ellipsis (§5). On frames without
one the property holds without the alternative. `GeminiAnswerIsShown` starts from a
cancellation later than the row's last update, or from a prompt that the monitor has seen. `LostOnlyToRaces` names the
races and the failing calls instead of excluding them. `ToolIsRight` excepts agents nested in the same directory and a tmux server started below a
Gemini there; `KeyIsRight` excepts, for hooks without a directory, an enclosing Gemini. `GetsReady` is about a process
that is alone, and `TakesOver` about a build that is.

**Fairness.** `Sessions`: weak fairness of a monitor's own steps, because its ticker fires every second and its calls
return; strong fairness of deleting a dead row, because a delete does not fail on every tick (a tick that skips the row
disables the deletion again, hence strong). Commands, hooks, agents and even starting the monitor have none; the
liveness properties assume a monitor that stays up. `ClaudeSync`: weak fairness of the steps of a tick, the reading
one included, and a tick in every second (`ticked`) because the ticker fires every second; strong fairness of
`TimePasses`, which a tick in progress disables again and again although seconds do pass between ticks; weak fairness
of `LineLands`, since a stamped line is written; and of `Work` once settled, since an agent that works for ever writes turns
for ever. Hooks have none. A settled session sees no further faults: the properties are about recovering from earlier ones.
`AgentSyncs`: weak fairness of the three steps of a tick and nothing else.

`Supervisor`: weak fairness of the commands' steps (commands go on being run and their calls return), of a monitor's boot,
ticks and end, and of time. `TakesOver` is about what holds once `calm`: one build in use, no faults, and three assumptions
about speed, which are guards of `Begin` and `TimePasses`: a monitor boots within a second, no command begins
while it does, and a command that has decided to kill or start does it within a second. Without them two commands can
kill each other's booting monitor for ever (the first weakness below). Safety is checked without them.
`DatabaseOpen`: weak fairness of `Open` of each process; with `alone = p` the others have died and nothing fails any more.

## 4. What is proved

For all values of the constants, under the named ASSUMEs of the modules, which only say what the constants are:

| Theorem | Statement | Argument |
|---|---|---|
| `SessionsProofs`: `TypeCorrect` | `Spec => []TypeOK` | inductive as it stands, because `HookStates` and `CommandStates` carry which fields a process has at each step |
| `WaitingSinceAlwaysConsistent` | `Spec => []WaitingSinceConsistent` | each of the three writers sets status and `waiting_since` in one statement |
| `NoPhantomRowsEver` | `DistinctNames(Keys) => (Spec => []NoPhantomRows)` | strengthened to all the places a key may travel: a hook past its check, a command, the listed rows |
| `PlainKeysAreDistinct` | `DistinctNames(PlainKeys(characters))`, whatever the characters: names without `@`, absolute paths without `@` and `_` | `fromDir` is injective on such paths, and its `@` is where the name ends |
| `PlainKeysHaveNoPhantoms` | `Keys \subseteq PlainKeys(characters) => (Spec => []NoPhantomRows)` | from the two before |
| `OnlyOldHooksReviveRows` | `Spec => OnlyOldHooksRevive`; and with `[]Unattended(k)`, a row of `k` that is gone stays gone once `Writers(k)` is empty | a hook becomes a writer only by a check that finds the session, and every write ends its being one |
| `DeletesOnlyLapsed` | `~TmuxFaults => (Spec => DeletesOnlyLapsedSessions)` | once a tick has listed tmux, every key not listed has lapsed since the rows were listed: the rows are listed first |
| `MonitorAlwaysRespectsHooks` | `Spec => MonitorRespectsHooks` | of the monitor's steps only the compare-and-swap and the deletion touch the table |
| `SessionsRefinement`: `SessionsImplementLifecycle` | `DistinctNames(Keys) /\ ~TmuxFaults => (Spec => ImplementsLifecycle)` | one lemma per action, which maps to one abstract step or to none; needs the invariants of the two before |
| `ClaudeSyncProofs`: `TypeCorrect` | `Spec => []TypeOK` | the content is `counters \in Counters`: on every path, each counter stays below the threshold that resets it |
| `IdleNeedsALull` | `QuietPeriod > 1 => (Spec => IdleOnlyAfterLull)`, for any screens | `Debounced`: the clear counts have counted no capture before the last sign of work; or that sign is the one turn its tick has missed, and then it is still recent when the next tick reads (`TurnIsFresh`), which starts the counts over |
| `MarksAreEnough` | `MarksAreHonest => (Spec => WakesOnRealSignals)` | the assumption is about a prompt's marks and the status line only |
| `PromptKeepsWaiting` | `PromptsAreRendered => (Spec => StaysWaitingWhilePrompted)` | `PromptIsNewest`: while a prompt is up no interruption is newer than the row, on its way, or known to the tick |
| `ShownOnceIsForGood` | `SteadyIsHonest`: a settled session that is shown as what it does between two ticks is shown so for good | `StaysShown`: a tick under way listed just that row and decides on nothing |
| `ClaudeSyncWithinLifecycle` | `Spec => StaysWithinLifecycle` | `TargetIsNew`: a tick never writes the status it listed |
| `AgentSyncsProofs`: `TypeCorrect` | `Spec => []TypeOK` | `Typed` adds that a tick which is to apply a decision has one |
| `CodexIsIdleThen` | `CodexIsRendered`, threshold above 1: `Spec => CodexIdleIsReal` | `CodexIsCounted`: since a whole frame of a Codex that is not idle nothing is counted, and torn frames do not come twice |
| `GeminiPromptHolds` | `GeminiIsRendered`, threshold above 1: `Spec => GeminiPromptKeepsWaiting` | `GeminiIsCounted`, likewise |
| `RestIsForGood` | an idle row of a settled session stays idle, and a running one of an answered Gemini prompt running | `StaysAtRest`: a tick under way listed just that row, which no sync has a reason to write |
| `AgentSyncsWithinLifecycle` | `Spec => StaysWithinLifecycle` | `TargetIsSyncs` (what is decided is in `SyncTargets` of the listed row) with `CancelledHasID` |
| `SupervisorProofs`: `TypeCorrect` | `Spec => []TypeOK` | a start needs an empty session, and a kill empties it |
| `OnlyRacesLoseHooks` | `Spec => []LostOnlyToRaces` | `FindingsHold`: what an undisturbed command has found about the session still holds |
| `InChargeForGood` | `Spec => StaysInCharge` | `InCharge` is preserved by every other step, by cases |
| `InChargeOnceIsForGood` | `Spec => [](calm = b /\ InCharge(b) => []InCharge(b))` | once `calm`, no fault and no other build is left to end it |
| `DatabaseOpenProofs`: `TypeCorrect`, `MigratedOnce`, `ReadyFindsMigrations` | `[]TypeOK`, `[]MigratedOnceInOrder`, `[]ReadyIsMigrated` | one invariant `IInv`: types, that the migrations before the one a process looks at are recorded in its file (`LoopsKnow`), and the property itself |
| `MigratedStays` | `Spec => MigratedDatabaseStays` | `Lasts` is preserved: only `Remove` takes the path from a file, only `Look` leads there, and it sees the table |
| `LoneOpenIsBounded` | `StepsLeft(p)` is at most `4 * Known[p] + 7`, and `~StuckFiles => (Spec => LoneOpenAdvances)`: it decreases | what a lone process finds is never in its way: `LegacyUntouched` (a file of before is never opened and has no `_migrations`) and `NoLoopBeyond` (nobody looks at a migration beyond those its build knows and one) |
| `HookOriginProofs`: `TypeCorrect`, `ToolsAreRight`, `KeysAreRight` | `[]TypeOK`, `[]ToolIsRight`, `[]KeyIsRight` | `EnvsTraced`: every variable of an agent comes from itself, from an agent around it that sets it, or from the server |
| `TranscriptTailProofs`: `TypeCorrect` | `Spec => []TypeOK` | with `buf` always the part of `file` from `offset` to `size`, so appending does not matter |
| `LastLinesAreReturned`, `TheEndIsReturned` | `Spec => ReturnsLastLines`, `Spec => ReturnsTheEnd` | `IInv` adds that a reader about to split has everything or n + 1 newlines; `SamePieces`: counted from the last, the pieces of an end of a file are those of the file, but for a first one that may be cut; without empty lines n + 1 newlines begin n lines |

The instances satisfy the assumptions of the theorems: `TornScreens` and a quiet period above 1 those of `ClaudeSyncProofs`, `AgentScreens` those of
`AgentSyncsProofs`, and the two keys of `Sessions_nested` have distinct names. `MigratedStays` and the other theorems of
`DatabaseOpenProofs` hold with and without `StuckFiles`.

`SteadyIsHonest` holds of `Steady` and of `PlainSteady`. `DistinctNames` is not an empty hypothesis either: `PlainKeysAreDistinct`
proves it for every name and directory of a common form, and `/a.b` next to `/a_b` is where it fails.

Liveness is out of the proof system's reach (it needs fairness and ENABLED), but each of the liveness properties about what happens
in the end and stays so has a half that is safety, and that half is proved: nothing undoes the good state once it is there. What
is left to TLC is that it comes about.

| Property | Proved | Model-checked only |
|---|---|---|
| `PromptIsShown`, `WorkIsShown`, `IdleIsShown` | `ShownOnceIsForGood` | that the row is right once |
| `CodexInterruptIsShown`, `GeminiAnswerIsShown` | `RestIsForGood` | that the row is right once |
| `TakesOver` | `InChargeOnceIsForGood` | that a monitor of the build is in charge once |
| `GetsReady` | `LoneOpenIsBounded` | that a lone process that can take a step does |
| `DeadSessionsStayGone`, `DeadRowsReaped` | `OnlyOldHooksReviveRows` | that the monitor comes to delete the row |

The theorems that speak of `~>` take it as a hypothesis, which the instances satisfy, and derive the property from it.

Model-checked only, besides: the violations, and that `LastLines` is what splitting gives, since `Split` is a fold over the
file and a proof would be an induction over data. In `TranscriptTailProofs` the least-number principle, in the form that a
set of numbers that is not empty has a least one (from `WellFoundedInduction`'s theorem about sets), takes the place of induction.

## 5. Weaknesses met on the way

Behaviours of the code that the models have and that no property denies. None has a run of its own.

*Supervision.* Two commands that each find no heartbeat yet kill each other's booting monitor, for as long as commands keep
coming that fast. A command that read a stale heartbeat kills a monitor that has recovered or been replaced since. Two builds
in use side by side replace each other's monitor on every command. A heartbeat query that fails counts as no heartbeat.

*Rows and tmux.* A hook reads the status and writes later: if another hook stores `PermissionRequest` in
between, a `Stop` or `PreToolUse` that a waiting row ignores (`hook_test.go` 318, 330) takes it out of waiting. `/a.b` and
`/a_b` share a tmux session name (`pathkey.go` 6-10), so one gets the other's hooks; the theorems assume `DistinctNames`,
which such a pair does not have. A failing `list-sessions` is read as no sessions (`tmux.go` 89) and deletes every row; the
theorems assume `~TmuxFaults`. The compare-and-swap compares the status alone, so a status that leaves and comes back during
a tick is overwritten.

*Claude Code sync.* A single blank frame while a prompt is up counts as activity and moves the session to running
(`monitor.go` 714; only the branch to idle is debounced). A prompt cancelled soon after its tool call was written, with the
interruption line lagging, goes to running first, against 736-737. `capturePromptSeen` survives from one wait to the
next on some paths, so a new wait can end before its prompt was seen, against 699-701. Ticks that return
early do not reset `captureRunningClearCount`, so quiet ticks that were not consecutive add up. A failed capture or tick
does not start any count over either. A failed capture on the late-line path counts as
no prompt. A turn that is written after the tick has read the transcript (432) and before it captures the terminal (537, 688)
is missed by that tick. The debounce absorbs it, unless it falls into the last tick: then a working agent with a turn a moment old is
called idle until the terminal shows its status line on two ticks. A session that settled idle with an ellipsis after a
letter in its last eight lines, which 229-231 say happens, counts as busy on every tick (284, 579-584): if its Stop
hook was missed it is shown as running for ever. A `PermissionRequest` hook that arrives after the prompt was answered makes the row waiting.

*Codex and Gemini sync.* The clear count and "prompt seen" are kept per session, not per agent, so an agent may inherit those of the one
before it: a clear frame of the one and a torn frame of the other are two. A blank frame is clear to Gemini's sync and activity to
Codex's. A failed capture does not start a count over. A cancellation of an earlier turn that is newer than `updated_at`
idles a turn submitted while the row was still running, which writes nothing; one that falls between a tick's listing and
its update to running is older than that update and lost.

*Database.* The removal's errors are ignored: a legacy file that cannot be removed makes the first migration fail on every
start (`StuckFiles`; `GetsReady` assumes it does not happen).

*Hooks.* `GEMINI_PROJECT_DIR` is not among the variables `new` strips (`newcmd.go` 44), so a tmux server started below Gemini
makes a Claude in the same directory a Gemini. A Codex run by a Claude in the same directory is taken for Claude, and any agent's hook from
another directory than its project's for Codex. Windows opened by hand in a session do not get the stripped environment.

*Transcript tail.* Empty lines are dropped only after the reader has stopped at n + 1 newlines, so it may return fewer than the n
non-empty lines of its comment (`monitor.go` 358), or the first of them without its beginning (`ReturnsTheEnd` says no more).

## 6. What is not modelled

* parsing of arguments and usage text, `list`'s sorting and formatting, `attach`, the error log and its expiry, timestamps' format,
  `version`: they keep no state the properties speak of;
* `ClaudeProjectDir` and the builders of file paths, which name files; the models start from the file that is read;
* the wording of prompts and of JSON lines: screens and lines are abstract marks, and that a pattern matches what an agent really prints
  is assumed by the instances;
* SQLite and its locking: a statement or transaction is atomic. `-wal` and `-shm` are removed together with the file: between the three removals
  of `database.go` 83-85 another process may create a new database and lose its `-wal`, and what SQLite then makes of that
  database is not defined by the code, so the model would have to invent it;
* the clock: seconds pass one at a time, and stamps of different processes compare as if taken from one clock.
