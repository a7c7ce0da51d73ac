----------------------------- MODULE ClaudeSync -----------------------------
(***************************************************************************)
(* How the monitor decides the status of one live Claude Code session      *)
(* (syncClaudeCodeSession of internal/monitor).  The hooks are not always  *)
(* delivered, so every tick compares the listed row with two witnesses:    *)
(* the tail of the transcript and the text of the terminal.  Both lag the  *)
(* agent, so most decisions wait for several ticks to agree; the counters  *)
(* of monitorState remember them between ticks, in memory only.            *)
(*                                                                         *)
(* The monitor's counters are keyed by session and its sessions share      *)
(* nothing else, so the module models one session.  A tick is four steps:  *)
(* it lists the row, it reads the transcript, it captures the terminal and *)
(* decides, it applies the decision with a compare-and-swap.  The agent,   *)
(* the user and the hooks act in between.                                  *)
(***************************************************************************)
EXTENDS SessionTable, Naturals

CONSTANTS
    QuietPeriod,             \* claudeActiveQuietPeriod, 5 ticks of a second
    RunningIdleThreshold,    \* captureRunningIdleThreshold, 8
    WaitingPromptThreshold,  \* captureWaitingPromptThreshold, 2
    IdleRunningThreshold,    \* captureIdleRunningThreshold, 2
    WaitingIdleThreshold,    \* waitingIdleClearThreshold, 3
    WaitingGrace,            \* the 2 seconds of the waiting heuristic
    Screens,        \* Screens[p]: what a capture may show in phase p
    SteadyScreens,  \* the same once the session has settled in p
    HookEvents,     \* the canonical events whose hooks are configured
    TranscriptNoise,  \* {"lag", "scroll"}: may an interruption reach the transcript
                      \* late, may bookkeeping push it out of the tail?
    Faults          \* may a capture or an update fail, or the monitor restart?

Phases == {"idle", "working", "prompt"}

\* What the monitor's text patterns can tell apart on a terminal.  A screen
\* is the set of those present; the empty one is a blank capture.
Marks ==
    {"statusLine",   \* "esc to interrupt" or the token readout
     "spinner",      \* a word that ends in an ellipsis, in the last 8 lines
     "chrome",       \* a prompt's options or its "esc to cancel" footer
     "amend",        \* "tab to amend", "ctrl+e to explain"
     "prose",        \* "do you want", "would you like", ...
     "text"}         \* anything else

ASSUME ThresholdsAssumption ==
    /\ QuietPeriod \in Nat
    /\ WaitingGrace \in Nat
    /\ RunningIdleThreshold \in Nat \ {0}
    /\ WaitingPromptThreshold \in Nat \ {0}
    /\ IdleRunningThreshold \in Nat \ {0}
    /\ WaitingIdleThreshold \in Nat \ {0}

ASSUME ScreensAssumption ==
    /\ Screens \in [Phases -> SUBSET SUBSET Marks]
    /\ SteadyScreens \in [Phases -> SUBSET SUBSET Marks]

ASSUME HookEventsAssumption == HookEvents \subseteq CanonicalEvents

ASSUME FlagsAssumption == TranscriptNoise \subseteq {"lag", "scroll"} /\ Faults \in BOOLEAN

VARIABLES
    row,       \* the session's row, and how the transcript compares with it
    convAge,   \* ticks since the newest conversation line of the transcript
               \* tail, up to QuietPeriod
    lagging,   \* an interruption line is on its way to the transcript
    phase,     \* what the agent really does
    settled,   \* the user and the agent leave the session as it is
    due,       \* hooks the agent has fired that have not reached the row
    ticked,    \* a tick has begun in this second
    pc,        \* where the monitor's tick is
    snap,      \* the row as this tick listed it
    fresh,     \* the transcript this tick read has a recent conversation line
    target,    \* the status the tick has decided on
    capture,   \* what the tick captured
    counters,  \* monitorState
    lull       \* a history: how many captures in a row, up to LongLull, came
               \* with no sign of work; nothing reads it

transcript == <<convAge, lagging>>
agent == <<phase, settled, due>>
tick == <<pc, fresh, target, capture, counters>>
vars == <<row, transcript, agent, ticked, snap, tick, lull>>

LeastOf(a, b) == IF a < b THEN a ELSE b

\* No debounce lasts longer.
LongLull ==
    IF RunningIdleThreshold < WaitingIdleThreshold THEN WaitingIdleThreshold - 1
    ELSE RunningIdleThreshold - 1

-----------------------------------------------------------------------------
(* The row, and how it compares with the transcript *)

\* stopped: the last conversation line of the tail is an interruption or an
\* API error, and is after updated_at.  lagStopped: the line on its way will
\* be.  late: the tail has a line more than WaitingGrace after waiting_since.
\* waitAge: ticks since waiting_since, up to WaitingGrace.
RowState == [status     : Statuses,
             stopped    : BOOLEAN,
             lagStopped : BOOLEAN,
             late       : BOOLEAN,
             waitAge    : 0 .. WaitingGrace]

\* Every write of the status sets updated_at, and waiting_since when it is
\* "waiting", to the present.
Written(status) ==
    [status |-> status, stopped |-> FALSE, lagStopped |-> FALSE, late |-> FALSE, waitAge |-> 0]

NoSnap == Written("idle")

\* r once a line is appended, of any kind.
WithLine(r) ==
    [r EXCEPT !.late = @ \/ (r.status = "waiting" /\ r.waitAge = WaitingGrace)]

\* A conversation line; stop: it is an interruption or an API error.
WithTurn(r, stop) == [WithLine(r) EXCEPT !.stopped = stop]

\* The last turn is pushed out of the tail.
WithoutTurns(r) == [WithLine(r) EXCEPT !.stopped = FALSE]

\* An interruption is stamped now; it lands later.
WithStamp(r) == [r EXCEPT !.lagStopped = TRUE]
WithLanded(r) == [r EXCEPT !.stopped = r.lagStopped, !.lagStopped = FALSE]

\* What a tick keeps of r once it has read the transcript.
AsRead(r) == [Written(r.status) EXCEPT !.late = r.late]

\* The transcript compares in a new way with the row and, until a tick has
\* read it, with its copy.
Compared(newRow, newSnap) ==
    /\ row' = newRow
    /\ snap' = IF pc = "read" THEN newSnap ELSE snap

-----------------------------------------------------------------------------
(* The patterns matched against a capture *)

TerminalShowsPermissionPrompt(screen) == screen \cap {"chrome", "amend"} # {}

TerminalShowsWaitingPrompt(screen) == screen \cap {"chrome", "prose"} # {}

TerminalShowsClaudeRunning(screen) == "statusLine" \in screen

\* A blank capture counts as busy.
ClaudeShowsActivity(screen) ==
    \/ TerminalShowsClaudeRunning(screen)
    \/ "spinner" \in screen
    \/ screen = {}

ConversationRecentlyWritten == convAge < QuietPeriod

\* Without the transcript: a working agent is quiet between two frames.
BusyOnScreen(screen) == ClaudeShowsActivity(screen)

\* Either witness keeps the session running: the transcript as it was read,
\* the terminal as it is now.
Busy(screen) == fresh \/ ClaudeShowsActivity(screen)

\* The history goes on: a turn written since this tick read the transcript is
\* a sign of work too, though the tick misses it.
LullAfter(screen) ==
    IF fresh \/ convAge = 0 \/ ClaudeShowsActivity(screen) THEN 0
    ELSE LeastOf(lull + 1, LongLull)

-----------------------------------------------------------------------------
(* The agent and its user.  A hook the agent fires reaches the row later,   *)
(* after hooks fired after it, or never.                                    *)

\* A conversation line is appended now; stop says that it is an interruption
\* or an API error.  Lines keep their order, so none overtakes one that lags.
WriteConversation(stop) ==
    /\ ~lagging
    /\ convAge' = 0
    /\ Compared(WithTurn(row, stop), WithTurn(snap, stop))
    /\ UNCHANGED lagging

\* An interruption's line: written at once, or stamped now and written later.
WriteInterruption ==
    \/ WriteConversation(TRUE)
    \/ /\ "lag" \in TranscriptNoise
       /\ ~lagging
       /\ lagging' = TRUE
       /\ Compared(WithStamp(row), WithStamp(snap))
       /\ UNCHANGED convAge

NothingWritten == UNCHANGED <<transcript, row, snap>>

\* The monitor takes no part in a step.
Meanwhile == UNCHANGED <<ticked, tick, lull>>

MovesTo(p) ==
    /\ ~settled
    /\ phase' = p
    /\ UNCHANGED settled
    /\ Meanwhile

Fires(events) == due' = due \cup (events \cap HookEvents)

\* The prompt's echo is bookkeeping, or a user line.
Submit ==
    /\ phase = "idle"
    /\ MovesTo("working")
    /\ Fires({"UserPromptSubmit"})
    /\ NothingWritten \/ WriteConversation(FALSE)

\* A working agent that has settled keeps working.
Work ==
    /\ phase = "working"
    /\ WriteConversation(FALSE)
    /\ UNCHANGED agent
    /\ Meanwhile

\* The tool call that asks for permission is a conversation line, written
\* once its PreToolUse hook has run.
Ask ==
    /\ phase = "working"
    /\ MovesTo("prompt")
    /\ Fires({"PreToolUse", "PermissionRequest"})
    /\ WriteConversation(FALSE)

Approve ==
    /\ phase = "prompt"
    /\ MovesTo("working")
    /\ Fires({"PostToolUse"})
    /\ NothingWritten

\* Escape at the prompt.
Cancel ==
    /\ phase = "prompt"
    /\ MovesTo("idle")
    /\ UNCHANGED due
    /\ WriteInterruption

\* Escape while the agent works; right after a submit it leaves no trace.
Interrupt ==
    /\ phase = "working"
    /\ MovesTo("idle")
    /\ UNCHANGED due
    /\ WriteInterruption \/ NothingWritten

Finish ==
    /\ phase = "working"
    /\ MovesTo("idle")
    /\ Fires({"Stop"})
    /\ WriteConversation(FALSE)

\* A compaction starts the session anew in the middle of a turn.
Compact ==
    /\ phase = "working"
    /\ MovesTo("working")
    /\ Fires({"SessionStart"})
    /\ NothingWritten

\* Claude Code gives up after its retries; it fires no Stop hook.
ApiError ==
    /\ phase = "working"
    /\ MovesTo("idle")
    /\ UNCHANGED due
    /\ WriteConversation(TRUE)

\* The line that lags lands.  It is no older than the newest line before it.
LineLands ==
    /\ lagging
    /\ lagging' = FALSE
    /\ convAge' \in 0 .. convAge
    /\ Compared(WithLanded(row), WithLanded(snap))
    /\ UNCHANGED agent
    /\ Meanwhile

\* "ai-title", "mode", "file-history-snapshot", ...: a line, but no turn.
Bookkeep ==
    /\ ~settled
    /\ Compared(WithLine(row), WithLine(snap))
    /\ UNCHANGED <<transcript, agent>>
    /\ Meanwhile

\* Enough bookkeeping to push the last turn out of the ten lines read: a sign
\* of work no tick has seen is lost with it.
TailScrolls ==
    /\ ~settled
    /\ "scroll" \in TranscriptNoise
    /\ ~lagging
    /\ convAge' = QuietPeriod
    /\ Compared(WithoutTurns(row), WithoutTurns(snap))
    /\ lull' = LongLull
    /\ UNCHANGED <<lagging, agent, ticked, tick>>

\* A whole run of the hook (Sessions has its steps).  A SessionStart also
\* updates the agent's columns, and with them updated_at.
Hook(event) ==
    /\ ~settled
    /\ event \in due
    /\ due' = due \ {event}
    /\ row' = IF ~IsValidTransition(row.status, event) THEN row
              ELSE IF FromEvent[event] # row.status THEN Written(FromEvent[event])
              ELSE IF event = "SessionStart"
                   THEN [row EXCEPT !.stopped = FALSE, !.lagStopped = FALSE]
                   ELSE row
    /\ UNCHANGED <<transcript, phase, settled, snap>>
    /\ Meanwhile

Settle ==
    /\ ~settled
    /\ settled' = TRUE
    /\ UNCHANGED <<row, transcript, phase, due, snap>>
    /\ Meanwhile

\* A tick takes milliseconds, so time passes between ticks; a second does not
\* pass without one.
TimePasses ==
    /\ pc = "sleep"
    /\ ticked
    /\ ticked' = FALSE
    /\ convAge' = LeastOf(convAge + 1, QuietPeriod)
    /\ row' = IF row.status = "waiting"
              THEN [row EXCEPT !.waitAge = LeastOf(@ + 1, WaitingGrace)]
              ELSE row
    /\ UNCHANGED <<lagging, agent, snap, tick, lull>>

-----------------------------------------------------------------------------
(* The monitor's tick *)

\* paneClear: capturePaneClearCount.  promptSeen: capturePromptSeen.
\* runningClear, runningWaiting, idleRunning: captureRunningClearCount,
\* captureRunningWaitingCount, captureIdleRunningCount.  An absent entry of
\* these maps reads as 0 or FALSE.
Counters == [paneClear      : 0 .. WaitingIdleThreshold - 1,
             promptSeen     : BOOLEAN,
             runningClear   : 0 .. RunningIdleThreshold - 1,
             runningWaiting : 0 .. WaitingPromptThreshold - 1,
             idleRunning    : 0 .. IdleRunningThreshold - 1]

NoCounters == [paneClear |-> 0, promptSeen |-> FALSE, runningClear |-> 0,
               runningWaiting |-> 0, idleRunning |-> 0]

NoTarget == "none"

\* A capture not taken, or one that failed.
NoCapture == {"none"}

\* What capture-pane may return now.
Captures ==
    IF settled THEN SteadyScreens[phase]
    ELSE Screens[phase] \cup (IF Faults THEN {NoCapture} ELSE {})

\* The tick ends without a write.
Leave(next) ==
    /\ pc' = "sleep"
    /\ snap' = NoSnap
    /\ fresh' = FALSE
    /\ target' = NoTarget
    /\ capture' = NoCapture
    /\ counters' = next

\* The tick goes on to write the status.
Decide(status, screen, next) ==
    /\ pc' = "apply"
    /\ fresh' = FALSE
    /\ target' = status
    /\ capture' = screen
    /\ counters' = next
    /\ UNCHANGED snap

TickBegins ==
    /\ pc = "sleep"
    /\ pc' = "read"
    /\ ticked' = TRUE
    /\ snap' = row
    /\ UNCHANGED <<row, transcript, agent, fresh, target, capture, counters, lull>>

\* The transcript ends with an interruption or an API error newer than the
\* row: idle, whatever the terminal shows.
ReadStop ==
    /\ pc = "read"
    /\ snap.stopped
    /\ \/ snap.status = "idle" /\ Leave(counters)
       \/ snap.status # "idle" /\ Decide("idle", NoCapture, counters)
    /\ lull' = LongLull
    /\ UNCHANGED <<row, transcript, agent, ticked>>

\* The tail of the transcript is read, and the terminal captured only later:
\* the tick goes on with what it read.
ReadTranscript ==
    /\ pc = "read"
    /\ ~snap.stopped
    /\ pc' = "observe"
    /\ fresh' = ConversationRecentlyWritten
    /\ snap' = AsRead(snap)
    /\ UNCHANGED <<row, transcript, agent, ticked, target, capture, counters, lull>>

\* The terminal is captured on a row that was listed with this status.
Observing(status) ==
    /\ pc = "observe"
    /\ snap.status = status
    /\ UNCHANGED <<row, transcript, agent, ticked>>

\* The tick compares what it read and what it captured.
Weighs(screen) ==
    lull' = IF screen = NoCapture THEN LongLull ELSE LullAfter(screen)

\* A late line alone ends the wait.
ObserveLateLineBlindly(screen) ==
    /\ Observing("waiting")
    /\ snap.late
    /\ lull' = LongLull
    /\ Decide("running", screen, counters)

\* The transcript went on well after the wait began: the hook that ends the
\* wait was missed, unless a prompt is still on the terminal.
ObserveLateLine(screen) ==
    /\ Observing("waiting")
    /\ snap.late
    /\ lull' = LongLull
    /\ \/ /\ TerminalShowsWaitingPrompt(screen)
          /\ Leave(counters)
       \/ /\ ~TerminalShowsWaitingPrompt(screen)
          /\ Decide("running", screen, counters)

\* A question in the agent's prose is enough.
PromptAppearsInProse(screen, next) ==
    /\ TerminalShowsWaitingPrompt(screen)
    /\ IF next.runningWaiting + 1 < WaitingPromptThreshold
       THEN Leave([next EXCEPT !.runningWaiting = @ + 1])
       ELSE Decide("waiting", screen, [next EXCEPT !.runningWaiting = 0])

\* The debounce starts over on every tick.
PromptAppearsForgets(screen, next) ==
    /\ TerminalShowsPermissionPrompt(screen)
    /\ IF 1 < WaitingPromptThreshold
       THEN Leave([next EXCEPT !.runningWaiting = 1])
       ELSE Decide("waiting", screen, [next EXCEPT !.runningWaiting = 0])

\* A permission prompt on a row that is not waiting, debounced.
PromptAppears(screen, next) ==
    /\ TerminalShowsPermissionPrompt(screen)
    /\ IF next.runningWaiting + 1 < WaitingPromptThreshold
       THEN Leave([next EXCEPT !.runningWaiting = @ + 1])
       ELSE Decide("waiting", screen, [next EXCEPT !.runningWaiting = 0])

\* One tick too many.
FallsIdleLater(screen, next) ==
    IF next.runningClear < RunningIdleThreshold
    THEN Leave([next EXCEPT !.runningClear = @ + 1])
    ELSE Decide("idle", screen, [next EXCEPT !.runningClear = 0])

\* The debounce starts over on every tick.
FallsIdleForgets(screen, next) ==
    IF 1 < RunningIdleThreshold
    THEN Leave([next EXCEPT !.runningClear = 1])
    ELSE Decide("idle", screen, [next EXCEPT !.runningClear = 0])

\* Neither a recent turn nor anything on the terminal, debounced.
FallsIdle(screen, next) ==
    IF next.runningClear + 1 < RunningIdleThreshold
    THEN Leave([next EXCEPT !.runningClear = @ + 1])
    ELSE Decide("idle", screen, [next EXCEPT !.runningClear = 0])

ObserveRunning(screen) ==
    /\ Observing("running")
    /\ Weighs(screen)
    /\ LET c == [counters EXCEPT !.paneClear = 0, !.promptSeen = FALSE, !.idleRunning = 0]
           noPrompt == [c EXCEPT !.runningWaiting = 0]
       IN \/ screen = NoCapture /\ Leave(c)
          \/ screen # NoCapture /\ PromptAppears(screen, [c EXCEPT !.runningClear = 0])
          \/ /\ screen # NoCapture /\ ~TerminalShowsPermissionPrompt(screen)
             /\ \/ Busy(screen) /\ Leave([noPrompt EXCEPT !.runningClear = 0])
                \/ ~Busy(screen) /\ FallsIdle(screen, noPrompt)

\* The debounce starts over on every tick.
StartsRunningForgets(screen, next) ==
    IF 1 < IdleRunningThreshold
    THEN Leave([next EXCEPT !.idleRunning = 1])
    ELSE Decide("running", screen, [next EXCEPT !.idleRunning = 0])

\* The live status line on a row that is idle, debounced.
StartsRunning(screen, next) ==
    IF next.idleRunning + 1 < IdleRunningThreshold
    THEN Leave([next EXCEPT !.idleRunning = @ + 1])
    ELSE Decide("running", screen, [next EXCEPT !.idleRunning = 0])

ObserveIdle(screen) ==
    /\ Observing("idle")
    /\ Weighs(screen)
    /\ LET c == [counters EXCEPT !.paneClear = 0, !.promptSeen = FALSE, !.runningClear = 0]
           noPrompt == [c EXCEPT !.runningWaiting = 0]
       IN \/ screen = NoCapture /\ Leave(c)
          \/ screen # NoCapture /\ PromptAppears(screen, [c EXCEPT !.idleRunning = 0])
          \/ /\ screen # NoCapture /\ ~TerminalShowsPermissionPrompt(screen)
             /\ \/ TerminalShowsClaudeRunning(screen) /\ StartsRunning(screen, noPrompt)
                \/ /\ ~TerminalShowsClaudeRunning(screen)
                   /\ Leave([noPrompt EXCEPT !.idleRunning = 0])

\* A prompt that was seen is gone: running at the first sign of work, idle
\* after a sustained absence of any.
PromptGone(screen, next) ==
    LET over == [next EXCEPT !.paneClear = 0, !.promptSeen = FALSE]
    IN \/ Busy(screen) /\ Decide("running", screen, over)
       \/ /\ ~Busy(screen)
          /\ IF next.paneClear + 1 < WaitingIdleThreshold
             THEN Leave([next EXCEPT !.paneClear = @ + 1])
             ELSE Decide("idle", screen, over)

ObserveWaiting(screen) ==
    /\ Observing("waiting")
    /\ ~snap.late
    /\ Weighs(screen)
    /\ LET c == [counters EXCEPT !.runningClear = 0, !.runningWaiting = 0, !.idleRunning = 0]
       IN \/ screen = NoCapture /\ Leave(c)
          \/ /\ TerminalShowsWaitingPrompt(screen)
             /\ Leave([c EXCEPT !.paneClear = 0, !.promptSeen = TRUE])
          \/ /\ screen # NoCapture /\ ~TerminalShowsWaitingPrompt(screen)
             /\ \/ ~c.promptSeen /\ Leave(c)
                \/ c.promptSeen /\ PromptGone(screen, c)

\* A late line resets its counter only once the update has succeeded.
AfterUpdate ==
    IF snap.status = "waiting" /\ target = "running"
    THEN [counters EXCEPT !.paneClear = 0]
    ELSE counters

\* UPDATE ... without the status it expects.
ApplyUnguarded ==
    /\ pc = "apply"
    /\ row' = Written(target)
    /\ Leave(AfterUpdate)
    /\ UNCHANGED <<transcript, agent, ticked, lull>>

\* UpdateSessionStatusIfUnchanged: nothing happens if the status has moved on.
Apply ==
    /\ pc = "apply"
    /\ row' = IF row.status = snap.status THEN Written(target) ELSE row
    /\ Leave(AfterUpdate)
    /\ UNCHANGED <<transcript, agent, ticked, lull>>

\* The transcript cannot be read, or the update fails: the counters stay as
\* they are.
TickFails ==
    /\ Faults /\ ~settled
    /\ pc \in {"read", "apply"}
    /\ Leave(counters)
    /\ lull' = LongLull
    /\ UNCHANGED <<row, transcript, agent, ticked>>

\* Another version of muxac restarts the monitor, which starts afresh.  It may
\* be away for several seconds.
MonitorRestarts ==
    /\ Faults /\ ~settled
    /\ Leave(NoCounters)
    /\ ticked' = TRUE
    /\ UNCHANGED <<row, transcript, agent, lull>>

-----------------------------------------------------------------------------
Init ==
    /\ row = Written("idle")
    /\ convAge = QuietPeriod
    /\ lagging = FALSE
    /\ phase = "idle"
    /\ settled = FALSE
    /\ due = {}
    /\ ticked = FALSE
    /\ pc = "sleep"
    /\ snap = NoSnap
    /\ fresh = FALSE
    /\ target = NoTarget
    /\ capture = NoCapture
    /\ counters = NoCounters
    /\ lull = LongLull

AgentStep ==
    \/ Submit \/ Work \/ Ask \/ Approve \/ Cancel \/ Interrupt \/ Finish
    \/ Compact \/ ApiError \/ LineLands \/ Bookkeep \/ TailScrolls
    \/ \E event \in HookEvents : Hook(event)
    \/ Settle

Observe ==
    \E screen \in Captures :
       \/ ObserveLateLine(screen)
       \/ ObserveRunning(screen)
       \/ ObserveIdle(screen)
       \/ ObserveWaiting(screen)

TickStep ==
    \/ TickBegins \/ ReadStop \/ ReadTranscript \/ Observe \/ Apply
    \/ TickFails \/ MonitorRestarts

Next == AgentStep \/ TimePasses \/ TickStep

Spec == Init /\ [][Next]_vars

\* The monitor's ticker fires every second, time passes between two ticks
\* however many there are, a line that was stamped is written, and an agent
\* that has settled to work goes on writing turns.  Nothing is assumed of
\* hooks, or of an agent that has not settled.
Fairness ==
    /\ WF_vars(TickBegins)
    /\ WF_vars(ReadStop \/ ReadTranscript)
    /\ WF_vars(Observe)
    /\ WF_vars(Apply)
    /\ SF_vars(TimePasses)
    /\ WF_vars(LineLands)
    /\ WF_vars(settled /\ Work)

FairSpec == Spec /\ Fairness

-----------------------------------------------------------------------------
(* ClaudeSync takes the steps SessionLifecycle allows, with one session     *)
(* that lives and whose row has been identified.                            *)

AsRow(r) == [status |-> r.status, waitingSince |-> r.status = "waiting",
             tool |-> "claude", hasID |-> TRUE]

Lifecycle == INSTANCE SessionLifecycle
    WITH Keys    <- {"session"},
         Managed <- {"session"},
         rows    <- [k \in {"session"} |-> AsRow(row)],
         live    <- {"session"},
         seen    <- [k \in (IF pc = "sleep" THEN {} ELSE {"session"}) |-> AsRow(snap)],
         lapsed  <- {},
         doomed  <- {}

\* What Sessions leaves open, which status the monitor concludes, is decided
\* here within what SessionLifecycle allows: a tick concludes at most once,
\* never the status it listed, and only from that.
StaysWithinLifecycle == [][Lifecycle!Next]_(Lifecycle!vars)

-----------------------------------------------------------------------------
(* Properties *)

\* Every variable has its type; a tick that sleeps holds nothing over, and
\* every counter stays below the threshold that resets it.
TypeOK ==
    /\ row \in RowState
    /\ convAge \in 0 .. QuietPeriod
    /\ lagging \in BOOLEAN
    /\ phase \in Phases
    /\ settled \in BOOLEAN
    /\ due \subseteq HookEvents
    /\ ticked \in BOOLEAN
    /\ pc \in {"sleep", "read", "observe", "apply"}
    /\ snap \in RowState
    /\ fresh \in BOOLEAN
    /\ target \in Statuses \cup {NoTarget}
    /\ pc = "apply" <=> target # NoTarget
    /\ capture \in (SUBSET Marks) \cup {NoCapture}
    /\ counters \in Counters
    /\ lull \in 0 .. LongLull

Decides == pc # "apply" /\ pc' = "apply"

\* monitor.go:546-548, 772-778 and 651-659: a session is taken to wait only
\* while a prompt is really up, never because its prose asks a question, and
\* is taken out of idle to running only while the agent really works, never
\* because a settled frame ends in an ellipsis or is blank.
WakesOnRealSignals ==
    [][Decides => /\ target' = "waiting" => phase = "prompt"
                  /\ snap.status = "idle" /\ target' = "running" => phase = "working"]_vars

\* monitor.go:505-506 and 693-697: while the prompt is up and on every frame,
\* the monitor never takes the session out of waiting, whatever else the
\* transcript gains, unless the capture itself fails.
StaysWaitingWhilePrompted ==
    [][Decides /\ snap.status = "waiting" /\ phase = "prompt" =>
         capture' = NoCapture /\ ~snap.stopped]_vars

\* monitor.go:593-596, 703, 757-759: "need a sustained idle window, not a brief
\* gap".  A session the terminal alone shows as idle is written idle only when
\* the captures before this one, as many as the row's status asks for, came one
\* after another with no sign of work: no activity on the terminal, no turn
\* within the quiet period, and no turn between reading the transcript and
\* capturing the terminal, which the tick itself misses.  Ticks that could not
\* compare the two, and a tail that lost its turns, leave the window open.
IdleOnlyAfterLull ==
    [][Decides /\ target' = "idle" /\ ~snap.stopped =>
         lull >= (IF snap.status = "running" THEN RunningIdleThreshold
                  ELSE WaitingIdleThreshold) - 1]_vars

\* Once the session has settled at a prompt, it is shown as waiting and stays
\* so, whatever hooks were missed on the way.
PromptIsShown ==
    settled /\ phase = "prompt" ~> [](row.status = "waiting")

\* Once the session has settled to work, it is shown as running and stays so.
WorkIsShown ==
    settled /\ phase = "working" ~> [](row.status = "running")

\* A session that has settled idle while it is shown as running is shown as
\* idle in the end and stays so: the fallback for a missed Stop hook.  One whose
\* closing lines keep giving the sign of work, a word that ends in an ellipsis
\* (monitor.go:229-231), stays running.
IdleIsShown ==
    [](settled /\ phase = "idle" /\ row.status # "waiting" /\ pc = "sleep"
         => \/ <>[](row.status = "idle")
            \/ []<>(lull = 0 /\ row.status = "running"))

\* monitor.go:730-734: a session settled idle is shown as idle in the end, a
\* wait that was cancelled included; "sustained absence of any activity is
\* the fallback signal".
CancelledWaitEnds ==
    settled /\ phase = "idle" ~> row.status = "idle"
=============================================================================
