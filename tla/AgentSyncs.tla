------------------------------ MODULE AgentSyncs ------------------------------
(***************************************************************************)
(* How the monitor decides the status of one live Codex or Gemini session  *)
(* (syncCodexSession, syncGeminiSession of internal/monitor).  Codex fires *)
(* no hook when it is interrupted: the terminal is the only witness.       *)
(* Gemini writes a cancellation to its session file; that a prompt was     *)
(* approved shows on the terminal alone.  Both syncs use the counters      *)
(* capturePaneClearCount and capturePromptSeen of the same session, and a  *)
(* pane may run one agent after the other.                                 *)
(***************************************************************************)
EXTENDS SessionTable, Naturals

CONSTANTS
    Agents,          \* the agents the pane may run
    ClearThreshold,  \* clear frames in a row that end a status: 2
    Screens,         \* Screens[a][p]: what a capture may show of agent a in phase p
    TornScreens,     \* frames caught in the middle of a redraw
    HookEvents,      \* the canonical events whose hooks are configured
    Faults           \* may a capture or an update fail, a hook die, the monitor restart?

Phases == {"idle", "working", "prompt"}

\* What the two syncs can tell apart on a terminal; the empty screen is blank.
Marks ==
    {"busy",          \* "esc to interrupt"
     "codexPrompt",   \* codexPermissionPromptPatterns
     "geminiPrompt",  \* "allow once", "action required", ...
     "text"}          \* anything else

ASSUME AgentsAssumption == Agents \subseteq {"codex", "gemini"} /\ Agents # {}

ASSUME ThresholdAssumption == ClearThreshold \in Nat \ {0}

ASSUME ScreensAssumption ==
    /\ Screens \in [Agents -> [Phases -> SUBSET SUBSET Marks]]
    /\ TornScreens \subseteq SUBSET Marks

ASSUME HookEventsAssumption == HookEvents \subseteq CanonicalEvents

ASSUME FaultsAssumption == Faults \in BOOLEAN

VARIABLES
    row,       \* the session's row
    agent,     \* the agent that runs in the pane
    phase,     \* what it really does
    settled,   \* the user and the agent leave the session as it is
    due,       \* hooks the agent has fired that have not reached the row
    starting,  \* what a SessionStart hook has yet to write
    torn,      \* the last capture was torn
    since,     \* history: was it idle, did it work since the last capture, that
               \* moment included?  Both if it was made for another agent.
    pc,        \* where the monitor's tick is
    snap,      \* the row as this tick listed it
    target,    \* the status the tick has decided on
    counters   \* monitorState

world == <<agent, phase, settled, due, starting>>
camera == <<torn, since>>
tick == <<pc, target, counters>>
vars == <<row, world, camera, snap, tick>>

-----------------------------------------------------------------------------
(* The row *)

\* id: whose session id the row has, that of an agent which ran here before or
\* that of the running one.  cancelled: the session file of that id ends with
\* a cancellation newer than updated_at.
RowState == [status    : Statuses,
             tool      : Agents \cup {UnknownTool},
             id        : {"none", "old", "own"},
             cancelled : BOOLEAN]

\* Every write of the status sets updated_at to the present.
Written(r, status) == [r EXCEPT !.status = status, !.cancelled = FALSE]

\* `muxac new` has inserted it.
NewRow == [status |-> "idle", tool |-> UnknownTool, id |-> "none", cancelled |-> FALSE]

\* The session file or its owner changes: the row compares in a new way and,
\* during a tick, so does its copy.
Compared(newRow, newSnap) ==
    /\ row' = newRow
    /\ snap' = IF pc = "sleep" THEN snap ELSE newSnap

\* Gemini writes a cancellation to its file.
WithCancellation(r) == [r EXCEPT !.cancelled = @ \/ r.id = "own"]

\* What Gemini wrote since has pushed the cancellation out of the tail read.
WithoutCancellation(r) == [r EXCEPT !.cancelled = FALSE]

\* The agent ends.
WithoutAgent(r) == [r EXCEPT !.id = IF @ = "own" THEN "old" ELSE @]

-----------------------------------------------------------------------------
(* The agent, its user and its hooks, which arrive late, in any order or    *)
(* never.                                                                   *)

Unprompted(p) == {p} \ {"prompt"}

MovesTo(p) ==
    /\ ~settled
    /\ phase' = p
    /\ since' = since \cup Unprompted(p)
    /\ UNCHANGED <<agent, settled, starting, torn, tick>>

Fires(events) == due' = due \cup (events \cap HookEvents)

Submit ==
    /\ phase = "idle"
    /\ MovesTo("working")
    /\ Fires({"UserPromptSubmit"})
    /\ UNCHANGED <<row, snap>>

Ask ==
    /\ phase = "working"
    /\ MovesTo("prompt")
    /\ Fires({"PermissionRequest"})
    /\ UNCHANGED <<row, snap>>

\* Gemini runs its BeforeTool hook, Codex the one after the tool.
Approve ==
    /\ phase = "prompt"
    /\ MovesTo("working")
    /\ Fires({IF agent = "gemini" THEN "PreToolUse" ELSE "PostToolUse"})
    /\ UNCHANGED <<row, snap>>

Finish ==
    /\ phase = "working"
    /\ MovesTo("idle")
    /\ Fires({"Stop"})
    /\ UNCHANGED <<row, snap>>

\* Escape or Ctrl+C.
Interrupt ==
    /\ phase # "idle"
    /\ MovesTo("idle")
    /\ UNCHANGED due
    /\ \/ agent = "codex" /\ UNCHANGED <<row, snap>>
       \/ agent = "gemini" /\ Compared(WithCancellation(row), WithCancellation(snap))

FileScrolls ==
    /\ ~settled
    /\ agent = "gemini"
    /\ Compared(WithoutCancellation(row), WithoutCancellation(snap))
    /\ UNCHANGED <<world, camera, tick>>

\* The user quits the agent and starts another in the same pane.  Hooks of
\* the first that have not run by then never do.
Restart(a) ==
    /\ ~settled
    /\ phase' = "idle"
    /\ since' = since \cup {"idle"}
    /\ agent' = a
    /\ due' = {"SessionStart"} \cap HookEvents
    /\ starting' = "no"
    /\ Compared(WithoutAgent(row), WithoutAgent(snap))
    /\ UNCHANGED <<settled, torn, tick>>

Settle ==
    /\ ~settled
    /\ starting = "no"
    /\ settled' = TRUE
    /\ UNCHANGED <<row, agent, phase, due, starting, camera, snap, tick>>

\* A hook reads the status and writes the event's (Sessions has the race
\* between the two).  SessionStart goes on to identify its agent.
Hook(event) ==
    /\ ~settled
    /\ event \in due
    /\ due' = due \ {event}
    /\ LET blocked == agent # "gemini" /\ ~IsValidTransition(row.status, event) IN
        /\ row' = IF blocked \/ FromEvent[event] = row.status THEN row
                  ELSE Written(row, FromEvent[event])
        /\ starting' = IF event = "SessionStart" THEN "tool" ELSE starting
    /\ UNCHANGED <<agent, phase, settled, camera, snap, tick>>

HookTool ==
    /\ ~settled
    /\ starting = "tool"
    /\ row' = [row EXCEPT !.tool = agent, !.cancelled = FALSE]
    /\ starting' = "id"
    /\ UNCHANGED <<agent, phase, settled, due, camera, snap, tick>>

HookSessionID ==
    /\ ~settled
    /\ starting = "id"
    /\ row' = [row EXCEPT !.id = "own", !.cancelled = FALSE]
    /\ starting' = "no"
    /\ UNCHANGED <<agent, phase, settled, due, camera, snap, tick>>

\* The hook dies between its updates, or the second has no id to write.
HookEnds ==
    /\ Faults /\ ~settled
    /\ starting # "no"
    /\ starting' = "no"
    /\ UNCHANGED <<row, agent, phase, settled, due, camera, snap, tick>>

-----------------------------------------------------------------------------
(* The monitor's tick: it lists the row, for Gemini reads the session file, *)
(* captures the terminal and decides, and applies the decision.             *)

\* paneClear: capturePaneClearCount.  promptSeen: capturePromptSeen.
Counters == [paneClear : 0 .. ClearThreshold - 1, promptSeen : BOOLEAN]

NoCounters == [paneClear |-> 0, promptSeen |-> FALSE]

NoTarget == "none"

\* What capture-pane may return now.  A redraw is over by the next capture.
Captures == Screens[agent][phase] \cup (IF torn \/ settled THEN {} ELSE TornScreens)

Captured(screen) ==
    /\ torn' = (screen \notin Screens[agent][phase])
    /\ since' = IF snap.tool = agent THEN Unprompted(phase) ELSE Phases \ {"prompt"}

Leave(next) ==
    /\ pc' = "sleep"
    /\ snap' = NewRow
    /\ target' = NoTarget
    /\ counters' = next

Decide(status, next) ==
    /\ pc' = "apply"
    /\ target' = status
    /\ counters' = next
    /\ UNCHANGED snap

TickBegins ==
    /\ pc = "sleep"
    /\ pc' = IF row.tool = "gemini" THEN "file" ELSE "capture"
    /\ snap' = row
    /\ UNCHANGED <<row, world, camera, target, counters>>

\* detectGeminiCancellation, for a row with a session id.
ReadFile ==
    /\ pc = "file"
    /\ IF snap.cancelled /\ snap.status \in {"running", "waiting"}
       THEN Decide("idle", counters)
       ELSE pc' = "capture" /\ UNCHANGED <<snap, target, counters>>
    /\ UNCHANGED <<row, world, camera>>

\* The agent is not known, or its status is none a capture could end.
NotCaptured ==
    /\ pc = "capture"
    /\ \/ snap.tool = UnknownTool /\ Leave(counters)
       \/ /\ snap.tool = "codex" /\ snap.status \notin {"running", "waiting"}
          /\ Leave([counters EXCEPT !.paneClear = 0])
       \/ /\ snap.tool = "gemini" /\ snap.status # "waiting"
          /\ Leave(NoCounters)
    /\ UNCHANGED <<row, world, camera>>

\* A blank capture counts as busy.
CodexShowsActivity(screen) == screen = {} \/ screen \cap {"busy", "codexPrompt"} # {}

TerminalShowsGeminiWaitingPrompt(screen) == "geminiPrompt" \in screen

\* The first clear frame is enough.
ClearFrameAtOnce(status, over) == Decide(status, over)

\* The debounce starts over on every tick.
ClearFrameForgets(status, over) ==
    IF 1 < ClearThreshold
    THEN Leave([counters EXCEPT !.paneClear = 1])
    ELSE Decide(status, over)

\* One tick too many.
ClearFrameLater(status, over) ==
    IF counters.paneClear < ClearThreshold
    THEN Leave([counters EXCEPT !.paneClear = @ + 1])
    ELSE Decide(status, over)

\* A frame without the marks that would keep the status, debounced.
ClearFrame(status, over) ==
    IF counters.paneClear + 1 < ClearThreshold
    THEN Leave([counters EXCEPT !.paneClear = @ + 1])
    ELSE Decide(status, over)

CaptureCodex(screen) ==
    /\ pc = "capture"
    /\ snap.tool = "codex" /\ snap.status \in {"running", "waiting"}
    /\ \/ CodexShowsActivity(screen) /\ Leave([counters EXCEPT !.paneClear = 0])
       \/ ~CodexShowsActivity(screen) /\ ClearFrame("idle", [counters EXCEPT !.paneClear = 0])
    /\ Captured(screen)
    /\ UNCHANGED <<row, world>>

\* A prompt that is back does not start the debounce over.
CaptureGeminiKeepsCount(screen) ==
    /\ pc = "capture"
    /\ snap.tool = "gemini" /\ snap.status = "waiting"
    /\ \/ /\ TerminalShowsGeminiWaitingPrompt(screen)
          /\ Leave([counters EXCEPT !.promptSeen = TRUE])
       \/ /\ ~TerminalShowsGeminiWaitingPrompt(screen)
          /\ \/ ~counters.promptSeen /\ Leave(counters)
             \/ counters.promptSeen /\ ClearFrame("running", NoCounters)
    /\ Captured(screen)
    /\ UNCHANGED <<row, world>>

\* The prompt counts as seen only while it is there.
CaptureGeminiForgetsPrompt(screen) ==
    /\ pc = "capture"
    /\ snap.tool = "gemini" /\ snap.status = "waiting"
    /\ \/ /\ TerminalShowsGeminiWaitingPrompt(screen)
          /\ Leave([paneClear |-> 0, promptSeen |-> TRUE])
       \/ /\ ~TerminalShowsGeminiWaitingPrompt(screen)
          /\ Leave(NoCounters)
    /\ Captured(screen)
    /\ UNCHANGED <<row, world>>

CaptureGemini(screen) ==
    /\ pc = "capture"
    /\ snap.tool = "gemini" /\ snap.status = "waiting"
    /\ \/ /\ TerminalShowsGeminiWaitingPrompt(screen)
          /\ Leave([paneClear |-> 0, promptSeen |-> TRUE])
       \/ /\ ~TerminalShowsGeminiWaitingPrompt(screen)
          /\ \/ ~counters.promptSeen /\ Leave(counters)
             \/ counters.promptSeen /\ ClearFrame("running", NoCounters)
    /\ Captured(screen)
    /\ UNCHANGED <<row, world>>

\* UPDATE ... without the status it expects.
ApplyUnguarded ==
    /\ pc = "apply"
    /\ row' = Written(row, target)
    /\ Leave(IF snap.tool = "gemini" THEN NoCounters ELSE counters)
    /\ UNCHANGED <<world, camera>>

\* UpdateSessionStatusIfUnchanged.  A cancellation resets the counters once
\* the update has succeeded.
Apply ==
    /\ pc = "apply"
    /\ row' = IF row.status = snap.status THEN Written(row, target) ELSE row
    /\ Leave(IF snap.tool = "gemini" THEN NoCounters ELSE counters)
    /\ UNCHANGED <<world, camera>>

\* The file cannot be read, or the capture or the update fails.
TickFails ==
    /\ Faults /\ ~settled
    /\ pc # "sleep"
    /\ Leave(counters)
    /\ UNCHANGED <<row, world, camera>>

MonitorRestarts ==
    /\ Faults /\ ~settled
    /\ Leave(NoCounters)
    /\ UNCHANGED <<row, world, camera>>

-----------------------------------------------------------------------------
Init ==
    /\ row = NewRow
    /\ agent \in Agents
    /\ phase = "idle"
    /\ settled = FALSE
    /\ due = {"SessionStart"} \cap HookEvents
    /\ starting = "no"
    /\ torn = FALSE
    /\ since = {"idle"}
    /\ pc = "sleep"
    /\ snap = NewRow
    /\ target = NoTarget
    /\ counters = NoCounters

AgentStep ==
    \/ Submit \/ Ask \/ Approve \/ Finish \/ Interrupt \/ FileScrolls
    \/ \E a \in Agents : Restart(a)
    \/ Settle
    \/ \E event \in HookEvents : Hook(event)
    \/ HookTool \/ HookSessionID \/ HookEnds

Observe ==
    \/ ReadFile
    \/ NotCaptured
    \/ \E screen \in Captures : CaptureCodex(screen) \/ CaptureGemini(screen)

Next == AgentStep \/ TickBegins \/ Observe \/ Apply \/ TickFails \/ MonitorRestarts

Spec == Init /\ [][Next]_vars

\* The monitor's ticker fires every second.  Nothing is assumed of agents,
\* users and hooks.
FairSpec == Spec /\ WF_vars(TickBegins) /\ WF_vars(Observe) /\ WF_vars(Apply)

-----------------------------------------------------------------------------
(* AgentSyncs takes the steps SessionLifecycle allows, with one session     *)
(* that lives.                                                              *)

AsRow(r) == [status |-> r.status, waitingSince |-> r.status = "waiting",
             tool |-> r.tool, hasID |-> r.id # "none"]

Lifecycle == INSTANCE SessionLifecycle
    WITH Keys    <- {"session"},
         Managed <- {"session"},
         rows    <- [k \in {"session"} |-> AsRow(row)],
         live    <- {"session"},
         seen    <- [k \in (IF pc = "sleep" THEN {} ELSE {"session"}) |-> AsRow(snap)],
         lapsed  <- {},
         doomed  <- {}

\* Whatever agents follow each other in the pane, and whichever agent the
\* row says they are: a tick concludes at most once, a status that the listed
\* tool's sync may conclude from the listed row, and only if no hook changed
\* the status since (monitor.go:921-928, 1002-1009, 1086-1093).
StaysWithinLifecycle == [][Lifecycle!Next]_(Lifecycle!vars)

-----------------------------------------------------------------------------
(* Properties *)

\* Every variable has its type; a tick that sleeps holds nothing over, and
\* the count of clear frames stays below its threshold whichever sync counts.
TypeOK ==
    /\ row \in RowState
    /\ agent \in Agents
    /\ phase \in Phases
    /\ settled \in BOOLEAN
    /\ due \subseteq HookEvents
    /\ starting \in {"no", "tool", "id"}
    /\ torn \in BOOLEAN
    /\ since \subseteq Phases \ {"prompt"}
    /\ pc \in {"sleep", "file", "capture", "apply"}
    /\ snap \in RowState
    /\ target \in Statuses \cup {NoTarget}
    /\ counters \in Counters

Decides == pc # "apply" /\ pc' = "apply"

\* monitor.go:1077-1081 and 1107-1125: whatever agent ran in the pane before
\* and whatever counts it left behind, a Codex that worked or asked all the
\* time between two captures is never taken to be idle, one torn frame
\* included.
CodexIdleIsReal ==
    [][Decides /\ snap.tool = "codex" /\ agent = "codex" => "idle" \in since]_vars

\* monitor.go:905-915: a Gemini prompt that was up all the time between two
\* captures never ends its wait, one torn or blank frame included, whatever
\* count the wait before or another agent's sync left behind.
GeminiPromptKeepsWaiting ==
    [][Decides /\ snap.tool = "gemini" /\ agent = "gemini" /\ target' = "running" =>
         since # {}]_vars

\* monitor.go:1056-1063: Codex fires no hook when it is interrupted; once it
\* is left idle, the row is idle in the end, whatever was pending.
CodexInterruptIsShown ==
    settled /\ phase = "idle" /\ agent = "codex" /\ row.tool = "codex"
        ~> [](row.status = "idle")

\* monitor.go:861-876: once Gemini is left alone, a cancellation that a tick
\* has yet to see makes the row idle, and a prompt that was seen and then
\* approved makes it running, for good.
GeminiAnswerIsShown ==
    /\ settled /\ phase = "idle" /\ row.tool = "gemini" /\ row.cancelled
         /\ row.status # "idle" /\ pc = "sleep"
           ~> [](row.status = "idle")
    /\ settled /\ phase = "working" /\ agent = "gemini" /\ row.tool = "gemini"
         /\ ~row.cancelled /\ row.status = "waiting" /\ counters.promptSeen /\ pc = "sleep"
           ~> [](row.status = "running")
=============================================================================
