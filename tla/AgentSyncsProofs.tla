--------------------------- MODULE AgentSyncsProofs ---------------------------
(***************************************************************************)
(* Theorems about AgentSyncs, for any threshold, any hooks and any         *)
(* terminals that satisfy what a theorem assumes of them.                  *)
(***************************************************************************)
EXTENDS AgentSyncs, TLAPS

USE DEF Phases, Statuses, NoTarget

-----------------------------------------------------------------------------
(* The operators on rows keep their types. *)

LEMMA FromEventType == \A e \in CanonicalEvents : FromEvent[e] \in Statuses
  BY DEF FromEvent, CanonicalEvents, RunningEvents, WaitingEvents, IdleEvents

LEMMA RowTypes ==
    \A r \in RowState :
        /\ \A status \in Statuses : Written(r, status) \in RowState
        /\ WithCancellation(r) \in RowState
        /\ WithoutCancellation(r) \in RowState
        /\ WithoutAgent(r) \in RowState
<1> TAKE r \in RowState
<1>1. (r.cancelled \/ r.id = "own") \in BOOLEAN
  BY DEF RowState
<1> QED
  BY <1>1 DEF Written, WithCancellation, WithoutCancellation, WithoutAgent, RowState

LEMMA NewRowType == NewRow \in RowState
  BY DEF NewRow, RowState

LEMMA NoCountersType == NoCounters \in Counters
  BY ThresholdAssumption DEF NoCounters, Counters

LEMMA ResetTypes ==
    \A c \in Counters :
        /\ [c EXCEPT !.paneClear = 0] \in Counters
        /\ [paneClear |-> 0, promptSeen |-> TRUE] \in Counters
        /\ c.paneClear + 1 < ClearThreshold => [c EXCEPT !.paneClear = @ + 1] \in Counters
  BY ThresholdAssumption DEF Counters

LEMMA LeaveType ==
    ASSUME NEW next \in Counters, Leave(next)
    PROVE  pc' = "sleep" /\ snap' \in RowState /\ target' = NoTarget /\ counters' \in Counters
  BY NewRowType DEF Leave

-----------------------------------------------------------------------------
(* Type correctness. *)

WorldTypeOK ==
    /\ row \in RowState
    /\ agent \in Agents
    /\ phase \in Phases
    /\ settled \in BOOLEAN
    /\ due \subseteq HookEvents
    /\ starting \in {"no", "tool", "id"}
    /\ torn \in BOOLEAN
    /\ since \subseteq Phases \ {"prompt"}

TickTypeOK ==
    /\ pc \in {"sleep", "file", "capture", "apply"}
    /\ snap \in RowState
    /\ target \in Statuses \cup {NoTarget}
    /\ counters \in Counters
    /\ pc = "apply" => target \in Statuses

\* A tick that is to apply a decision has one.
Typed == WorldTypeOK /\ TickTypeOK

LEMMA AgentStepType == ASSUME Typed, AgentStep PROVE Typed'
<1>1. WorldTypeOK /\ TickTypeOK
  BY DEF Typed
<1>2. CASE Submit \/ Ask \/ Approve \/ Finish \/ Interrupt
  BY <1>1, <1>2, RowTypes
     DEF Submit, Ask, Approve, Finish, Interrupt, MovesTo, Fires, Unprompted, Compared, tick,
         WorldTypeOK, TickTypeOK, Typed
<1>3. CASE FileScrolls
  BY <1>1, <1>3, RowTypes
     DEF FileScrolls, Compared, world, camera, tick, WorldTypeOK, TickTypeOK, Typed
<1>4. CASE \E a \in Agents : Restart(a)
  BY <1>1, <1>4, RowTypes DEF Restart, Compared, tick, WorldTypeOK, TickTypeOK, Typed
<1>5. CASE Settle
  BY <1>1, <1>5 DEF Settle, camera, tick, WorldTypeOK, TickTypeOK, Typed
<1>6. CASE \E event \in HookEvents : Hook(event)
  <2>1. PICK event \in HookEvents : Hook(event)
    BY <1>6
  <2>2. FromEvent[event] \in Statuses
    BY HookEventsAssumption, FromEventType
  <2>3. row' \in RowState
    BY <1>1, <2>1, <2>2, RowTypes DEF Hook, WorldTypeOK
  <2> QED
    BY <1>1, <2>1, <2>3 DEF Hook, camera, tick, WorldTypeOK, TickTypeOK, Typed
<1>7. CASE HookTool \/ HookSessionID \/ HookEnds
  <2>1. row' \in RowState
    BY <1>1, <1>7 DEF HookTool, HookSessionID, HookEnds, WorldTypeOK, RowState
  <2> QED
    BY <1>1, <1>7, <2>1
       DEF HookTool, HookSessionID, HookEnds, camera, tick, WorldTypeOK, TickTypeOK, Typed
<1> QED
  BY <1>2, <1>3, <1>4, <1>5, <1>6, <1>7 DEF AgentStep

\* An observation goes on to a capture, leaves the tick or decides.
LEMMA ObserveType ==
    ASSUME Typed, Observe
    PROVE  /\ Typed'
           /\ pc # "sleep" /\ UNCHANGED <<row, world>>
           /\ \/ pc' = "capture" /\ UNCHANGED <<snap, target, counters>>
              \/ \E next \in Counters : Leave(next)
              \/ \E status \in Statuses, next \in Counters : Decide(status, next)
<1>1. WorldTypeOK /\ TickTypeOK
  BY DEF Typed
<1>2. ASSUME UNCHANGED <<row, world>>, torn' \in BOOLEAN, since' \subseteq Phases \ {"prompt"},
             \/ pc' = "capture" /\ UNCHANGED <<snap, target, counters>>
             \/ \E next \in Counters : Leave(next)
             \/ \E status \in Statuses, next \in Counters : Decide(status, next)
      PROVE  Typed'
  <2>1. WorldTypeOK'
    BY <1>1, <1>2 DEF world, WorldTypeOK
  <2>2. TickTypeOK'
    BY <1>1, <1>2, LeaveType DEF Decide, TickTypeOK
  <2> QED
    BY <2>1, <2>2 DEF Typed
<1>3. CASE ReadFile
  BY <1>1, <1>2, <1>3 DEF ReadFile, camera, WorldTypeOK, TickTypeOK
<1>4. CASE NotCaptured
  BY <1>1, <1>2, <1>4, NoCountersType, ResetTypes DEF NotCaptured, camera, WorldTypeOK, TickTypeOK
<1>5. ASSUME NEW screen, Captured(screen)
      PROVE  torn' \in BOOLEAN /\ since' \subseteq Phases \ {"prompt"}
  BY <1>1, <1>5 DEF Captured, Unprompted, WorldTypeOK
<1>6. ASSUME NEW status \in Statuses, NEW over \in Counters, ClearFrame(status, over)
      PROVE  (\E next \in Counters : Leave(next)) \/ (\E next \in Counters : Decide(status, next))
  BY <1>1, <1>6, ResetTypes DEF ClearFrame, TickTypeOK
<1>7. ASSUME NEW screen, CaptureCodex(screen)
      PROVE  /\ UNCHANGED <<row, world>> /\ Captured(screen)
             /\ \/ \E next \in Counters : Leave(next)
                \/ \E next \in Counters : Decide("idle", next)
  BY <1>1, <1>6, <1>7, ResetTypes DEF CaptureCodex, TickTypeOK
<1>8. ASSUME NEW screen, CaptureGemini(screen)
      PROVE  /\ UNCHANGED <<row, world>> /\ Captured(screen)
             /\ \/ \E next \in Counters : Leave(next)
                \/ \E next \in Counters : Decide("running", next)
  BY <1>1, <1>6, <1>8, ResetTypes, NoCountersType DEF CaptureGemini, TickTypeOK
<1>9. CASE \E screen \in Captures : CaptureCodex(screen) \/ CaptureGemini(screen)
  <2>1. pc = "capture"
    BY <1>9 DEF CaptureCodex, CaptureGemini
  <2> QED
    BY <1>2, <1>5, <1>7, <1>8, <1>9, <2>1
<1> QED
  BY <1>3, <1>4, <1>9 DEF Observe

LEMMA InitType == Init => Typed
  BY HookEventsAssumption, NewRowType, NoCountersType DEF Init, Typed, WorldTypeOK, TickTypeOK

LEMMA NextType == Typed /\ [Next]_vars => Typed'
<1> SUFFICES ASSUME Typed, [Next]_vars PROVE Typed'
  OBVIOUS
<1>1. WorldTypeOK /\ TickTypeOK
  BY DEF Typed
<1>2. CASE TickBegins
  BY <1>1, <1>2 DEF TickBegins, world, camera, WorldTypeOK, TickTypeOK, Typed
<1>3. CASE Apply
  <2>1. pc = "apply" /\ row' \in {row, Written(row, target)} /\ UNCHANGED <<world, camera>>
    BY <1>3 DEF Apply
  <2>2. \E next \in Counters : Leave(next)
    BY <1>1, <1>3, NoCountersType DEF Apply, TickTypeOK
  <2>3. TickTypeOK'
    BY <2>2, LeaveType DEF TickTypeOK
  <2>4. row' \in RowState
    BY <1>1, <2>1, RowTypes DEF WorldTypeOK, TickTypeOK
  <2> QED
    BY <1>1, <2>1, <2>3, <2>4 DEF world, camera, WorldTypeOK, Typed
<1>4. CASE TickFails \/ MonitorRestarts
  <2>1. \E next \in Counters : Leave(next)
    BY <1>1, <1>4, NoCountersType DEF TickFails, MonitorRestarts, TickTypeOK
  <2>2. TickTypeOK'
    BY <2>1, LeaveType DEF TickTypeOK
  <2> QED
    BY <1>1, <1>4, <2>2 DEF TickFails, MonitorRestarts, world, camera, WorldTypeOK, Typed
<1>5. CASE UNCHANGED vars
  BY <1>1, <1>5 DEF vars, world, camera, tick, WorldTypeOK, TickTypeOK, Typed
<1> QED
  BY <1>2, <1>3, <1>4, <1>5, AgentStepType, ObserveType DEF Next

LEMMA AlwaysTyped == Spec => []Typed
  BY InitType, NextType, PTL DEF Spec

\* Every variable keeps its type, for any threshold: the count of clear frames
\* stays below it, whichever of the two syncs counts.
THEOREM TypeCorrect == Spec => []TypeOK
<1>1. Typed => TypeOK
  BY DEF Typed, WorldTypeOK, TickTypeOK, TypeOK
<1> QED
  BY <1>1, AlwaysTyped, PTL

-----------------------------------------------------------------------------
(* The debounce: a whole frame that keeps the status starts it over, and two *)
(* torn frames in a row there are not.                                       *)

\* The history covers the present.
PresentIsSeen == Unprompted(phase) \subseteq since

FileIsGeminis == pc = "file" => snap.tool = "gemini"

\* Since a whole frame of a Codex at work or at a prompt nothing is counted.
CodexIsCounted ==
    agent = "codex" /\ "idle" \notin since /\ ~torn => counters.paneClear = 0

\* Nor since one of a Gemini prompt.
GeminiIsCounted ==
    agent = "gemini" /\ since = {} /\ ~torn => counters.paneClear = 0

\* A Codex at work or at a prompt shows it on every whole frame.
CodexIsRendered ==
    "codex" \in Agents =>
        \A p \in {"working", "prompt"} :
            \A screen \in Screens["codex"][p] : CodexShowsActivity(screen)

\* A Gemini prompt shows on every whole frame.
GeminiIsRendered ==
    "gemini" \in Agents =>
        \A screen \in Screens["gemini"]["prompt"] : TerminalShowsGeminiWaitingPrompt(screen)

\* No step but an observation counts, or shortens the history.
Uncounted ==
    /\ agent' = agent \/ "idle" \in since'
    /\ since \subseteq since'
    /\ torn' = torn
    /\ counters'.paneClear = counters.paneClear \/ counters'.paneClear = 0

LEMMA OtherStepsUncounted ==
    ASSUME Typed, [Next]_vars, ~Observe
    PROVE  /\ Uncounted
           /\ PresentIsSeen => PresentIsSeen'
           /\ FileIsGeminis => FileIsGeminis'
<1>0. snap \in RowState /\ counters \in Counters
  BY DEF Typed, TickTypeOK
<1>1. \A r \in RowState : /\ WithCancellation(r).tool = r.tool
                          /\ WithoutCancellation(r).tool = r.tool
                          /\ WithoutAgent(r).tool = r.tool
  BY DEF WithCancellation, WithoutCancellation, WithoutAgent, RowState
<1>2. CASE Submit \/ Ask \/ Approve \/ Finish \/ Interrupt
  BY <1>0, <1>1, <1>2
     DEF Submit, Ask, Approve, Finish, Interrupt, MovesTo, Unprompted, Compared, tick,
         Uncounted, PresentIsSeen, FileIsGeminis
<1>3. CASE FileScrolls
  BY <1>0, <1>1, <1>3
     DEF FileScrolls, world, camera, tick, Compared, Unprompted, Uncounted, PresentIsSeen,
         FileIsGeminis
<1>4. CASE \E a \in Agents : Restart(a)
  BY <1>0, <1>1, <1>4
     DEF Restart, tick, Compared, Unprompted, Uncounted, PresentIsSeen, FileIsGeminis
<1>5. CASE Settle \/ (\E event \in HookEvents : Hook(event))
           \/ HookTool \/ HookSessionID \/ HookEnds
  BY <1>5 DEF Settle, Hook, HookTool, HookSessionID, HookEnds, camera, tick, Unprompted,
     Uncounted, PresentIsSeen, FileIsGeminis
<1>6. CASE TickBegins \/ Apply \/ TickFails \/ MonitorRestarts
  BY <1>6 DEF TickBegins, Apply, TickFails, MonitorRestarts, Leave, NoCounters, world, camera,
     Unprompted, Uncounted, PresentIsSeen, FileIsGeminis
<1>7. CASE UNCHANGED vars
  BY <1>7 DEF vars, world, camera, tick, Unprompted, Uncounted, PresentIsSeen, FileIsGeminis
<1> QED
  BY <1>2, <1>3, <1>4, <1>5, <1>6, <1>7 DEF Next, AgentStep

\* A tick that does not capture counts nothing either.
LEMMA BlindStepsUncounted ==
    ASSUME Typed, ReadFile \/ NotCaptured
    PROVE  /\ Uncounted
           /\ PresentIsSeen => PresentIsSeen'
           /\ FileIsGeminis'
  BY DEF ReadFile, NotCaptured, Decide, Leave, NoCounters, Typed, TickTypeOK, Counters, world,
     camera, Unprompted, Uncounted, PresentIsSeen, FileIsGeminis

\* What a capture may be, given how the last one went.
LEMMA CaptureIsWhole ==
    ASSUME NEW screen \in Captures, torn \/ (Captured(screen) /\ ~torn')
    PROVE  screen \in Screens[agent][phase]
  BY DEF Captures, Captured

LEMMA CapturesCounted ==
    ASSUME Typed, NEW screen \in Captures, CaptureCodex(screen) \/ CaptureGemini(screen)
    PROVE  /\ PresentIsSeen' /\ FileIsGeminis'
           /\ CodexIsRendered => CodexIsCounted'
           /\ GeminiIsRendered => GeminiIsCounted'
<1>0. /\ agent \in Agents /\ phase \in Phases /\ counters \in Counters
      /\ snap.tool \in {"codex", "gemini"} /\ UNCHANGED <<agent, phase>> /\ pc' # "file"
      /\ Captured(screen)
  BY DEF Typed, WorldTypeOK, TickTypeOK, CaptureCodex, CaptureGemini, ClearFrame, Leave, Decide, world
<1>1. PresentIsSeen' /\ FileIsGeminis'
  BY <1>0 DEF Captured, Unprompted, PresentIsSeen, FileIsGeminis
<1>2. ASSUME CodexIsRendered, agent = "codex", "idle" \notin since', ~torn'
      PROVE  counters'.paneClear = 0
  <2>1. snap.tool = "codex" /\ phase # "idle"
    BY <1>0, <1>2 DEF Captured, Unprompted
  <2>2. CodexShowsActivity(screen)
    BY <1>0, <1>2, <2>1, CaptureIsWhole DEF CodexIsRendered
  <2> QED
    BY <1>0, <2>1, <2>2 DEF CaptureCodex, CaptureGemini, Leave, Counters
<1>3. ASSUME GeminiIsRendered, agent = "gemini", since' = {}, ~torn'
      PROVE  counters'.paneClear = 0
  <2>1. snap.tool = "gemini" /\ phase = "prompt"
    BY <1>0, <1>3 DEF Captured, Unprompted
  <2>2. TerminalShowsGeminiWaitingPrompt(screen)
    BY <1>0, <1>3, <2>1, CaptureIsWhole DEF GeminiIsRendered
  <2> QED
    BY <1>0, <2>1, <2>2 DEF CaptureCodex, CaptureGemini, Leave
<1> QED
  BY <1>0, <1>1, <1>2, <1>3 DEF CodexIsCounted, GeminiIsCounted

Seen == PresentIsSeen /\ FileIsGeminis

LEMMA SeenNext ==
    ASSUME Typed, [Next]_vars
    PROVE  /\ Seen => Seen'
           /\ CodexIsRendered /\ CodexIsCounted => CodexIsCounted'
           /\ GeminiIsRendered /\ GeminiIsCounted => GeminiIsCounted'
<1>0. agent \in Agents /\ since \subseteq Phases
  BY DEF Typed, WorldTypeOK
<1>1. CASE Uncounted
  <2>1. CodexIsCounted => CodexIsCounted'
    BY <1>1 DEF Uncounted, CodexIsCounted
  <2>2. GeminiIsCounted => GeminiIsCounted'
    BY <1>1 DEF Uncounted, GeminiIsCounted
  <2>3. CASE ~Observe
    BY <2>1, <2>2, <2>3, OtherStepsUncounted DEF Seen
  <2>4. CASE ReadFile \/ NotCaptured
    BY <2>1, <2>2, <2>4, BlindStepsUncounted DEF Seen
  <2>5. CASE \E screen \in Captures : CaptureCodex(screen) \/ CaptureGemini(screen)
    BY <2>5, CapturesCounted DEF Seen
  <2> QED
    BY <2>3, <2>4, <2>5 DEF Observe
<1>2. CASE ~Uncounted
  <2>1. \E screen \in Captures : CaptureCodex(screen) \/ CaptureGemini(screen)
    BY <1>2, OtherStepsUncounted, BlindStepsUncounted DEF Observe
  <2> QED
    BY <2>1, CapturesCounted DEF Seen
<1> QED
  BY <1>1, <1>2

LEMMA SeenInit == Init => Seen /\ CodexIsCounted /\ GeminiIsCounted
  BY DEF Init, Seen, PresentIsSeen, Unprompted, FileIsGeminis, NoCounters, CodexIsCounted,
     GeminiIsCounted

LEMMA DecidesOnlyInObserve == ASSUME [Next]_vars, Decides PROVE Observe
  BY DEF Next, AgentStep, Submit, Ask, Approve, Finish, Interrupt, MovesTo, FileScrolls, Restart,
     Settle, Hook, HookTool, HookSessionID, HookEnds, TickBegins, Apply, TickFails,
     MonitorRestarts, Leave, Decides, world, camera, tick, vars

\* The second clear frame that ends a status has a first one before it.
LEMMA ClearFrameIsSecond ==
    ASSUME NEW status, NEW over, ClearThreshold > 1, counters.paneClear = 0
    PROVE  ~(ClearFrame(status, over) /\ Decides)
  BY ThresholdAssumption DEF ClearFrame, Leave, Decides

\* If every whole frame of a Codex at work or at a prompt shows it, the monitor
\* takes none to be idle that was not since the last capture, whatever agent
\* ran in the pane before.
THEOREM CodexIsIdleThen ==
    ASSUME CodexIsRendered, ClearThreshold > 1
    PROVE  Spec => CodexIdleIsReal
<1> DEFINE Claim == Decides /\ snap.tool = "codex" /\ agent = "codex" => "idle" \in since
<1>1. ASSUME Typed, Seen, CodexIsCounted, [Next]_vars
      PROVE  Claim
  <2> SUFFICES ASSUME Decides, snap.tool = "codex", agent = "codex", "idle" \notin since
               PROVE  FALSE
    OBVIOUS
  <2>1. PICK screen \in Captures : CaptureCodex(screen) /\ Decides
    BY <1>1, DecidesOnlyInObserve
       DEF Observe, ReadFile, NotCaptured, CaptureGemini, Leave, Decides, Seen, FileIsGeminis
  <2>2. ~CodexShowsActivity(screen)
    BY <2>1 DEF CaptureCodex, Leave, Decides
  <2>3. phase \in {"working", "prompt"} /\ "codex" \in Agents
    BY <1>1 DEF Seen, PresentIsSeen, Unprompted, Typed, WorldTypeOK
  <2>4. CASE torn
    BY <2>2, <2>3, <2>4, CaptureIsWhole DEF CodexIsRendered
  <2>5. CASE ~torn
    BY <1>1, <2>1, <2>2, <2>5, ClearFrameIsSecond DEF CodexIsCounted, CaptureCodex
  <2> QED
    BY <2>4, <2>5
<1>2. Spec => [](Seen /\ CodexIsCounted)
  <2>1. Typed /\ [Next]_vars /\ Seen /\ CodexIsCounted => (Seen /\ CodexIsCounted)'
    BY SeenNext
  <2> QED
    BY <2>1, SeenInit, AlwaysTyped, PTL DEF Spec
<1> QED
  BY <1>1, <1>2, AlwaysTyped, PTL DEF Spec, CodexIdleIsReal

\* If every whole frame of a Gemini prompt shows it, the monitor never takes
\* one to be answered that was up since the last capture.
THEOREM GeminiPromptHolds ==
    ASSUME GeminiIsRendered, ClearThreshold > 1
    PROVE  Spec => GeminiPromptKeepsWaiting
<1> DEFINE Claim == Decides /\ snap.tool = "gemini" /\ agent = "gemini" /\ target' = "running"
                      => since # {}
<1>1. ASSUME Typed, Seen, GeminiIsCounted, [Next]_vars
      PROVE  Claim
  <2> SUFFICES ASSUME Decides, snap.tool = "gemini", agent = "gemini", target' = "running",
                      since = {}
               PROVE  FALSE
    OBVIOUS
  <2>1. PICK screen \in Captures : CaptureGemini(screen) /\ Decides
    BY <1>1, DecidesOnlyInObserve
       DEF Observe, ReadFile, NotCaptured, CaptureCodex, Leave, Decide, Decides
  <2>2. ~TerminalShowsGeminiWaitingPrompt(screen)
    BY <2>1 DEF CaptureGemini, Leave, Decides
  <2>3. phase = "prompt" /\ "gemini" \in Agents
    BY <1>1 DEF Seen, PresentIsSeen, Unprompted, Typed, WorldTypeOK
  <2>4. CASE torn
    BY <2>2, <2>3, <2>4, CaptureIsWhole DEF GeminiIsRendered
  <2>5. CASE ~torn
    BY <1>1, <2>1, <2>2, <2>5, ClearFrameIsSecond DEF GeminiIsCounted, CaptureGemini, Leave, Decides
  <2> QED
    BY <2>4, <2>5
<1>2. Spec => [](Seen /\ GeminiIsCounted)
  <2>1. Typed /\ [Next]_vars /\ Seen /\ GeminiIsCounted => (Seen /\ GeminiIsCounted)'
    BY SeenNext
  <2> QED
    BY <2>1, SeenInit, AlwaysTyped, PTL DEF Spec
<1> QED
  BY <1>1, <1>2, AlwaysTyped, PTL DEF Spec, GeminiPromptKeepsWaiting

-----------------------------------------------------------------------------
(* The steps of SessionLifecycle. *)

TheRows == [k \in {"session"} |-> AsRow(row)]

SeenRows == [k \in (IF pc = "sleep" THEN {} ELSE {"session"}) |-> AsRow(snap)]

\* Only a file that has an owner has a cancellation.
HasOwner(r) == r.cancelled => r.id # "none"

CancelledHasID == HasOwner(row) /\ HasOwner(snap)

\* What a tick has decided the listed tool's sync may conclude.
TargetIsSyncs == pc = "apply" => target \in SyncTargets(AsRow(snap))

\* What the lifecycle sees of a row.
LEMMA FileKeepsAsRow ==
    \A r \in RowState :
        \A s \in {WithCancellation(r), WithoutCancellation(r), WithoutAgent(r)} :
            /\ AsRow(s) = AsRow(r)
            /\ HasOwner(r) => HasOwner(s)
<1> TAKE r \in RowState
<1>1. AsRow(WithCancellation(r)) = AsRow(r) /\ (HasOwner(r) => HasOwner(WithCancellation(r)))
  BY DEF WithCancellation, RowState, AsRow, HasOwner
<1>2. AsRow(WithoutCancellation(r)) = AsRow(r) /\ HasOwner(WithoutCancellation(r))
  BY DEF WithoutCancellation, RowState, AsRow, HasOwner
<1>3. AsRow(WithoutAgent(r)) = AsRow(r) /\ (HasOwner(r) => HasOwner(WithoutAgent(r)))
  BY DEF WithoutAgent, RowState, AsRow, HasOwner
<1> QED
  BY <1>1, <1>2, <1>3

\* A step of the agent and its user leaves what the lifecycle sees alone, or is
\* a hook's write.
Unseen == UNCHANGED pc /\ AsRow(row') = AsRow(row) /\ (pc # "sleep" => AsRow(snap') = AsRow(snap))

Reports == UNCHANGED <<pc, snap>> /\ \E status \in Statuses : row' = Written(row, status)

Identifies ==
    /\ UNCHANGED <<pc, snap>>
    /\ \/ \E tool \in Agents : row' = [row EXCEPT !.tool = tool, !.cancelled = FALSE]
       \/ row' = [row EXCEPT !.id = "own", !.cancelled = FALSE]

LEMMA AgentStepSeen ==
    ASSUME Typed, CancelledHasID, AgentStep
    PROVE  CancelledHasID' /\ UNCHANGED target /\ (Unseen \/ Reports \/ Identifies)
<1>0. row \in RowState /\ snap \in RowState /\ agent \in Agents
  BY DEF Typed, WorldTypeOK, TickTypeOK
<1>1. CASE Submit \/ Ask \/ Approve \/ Finish \/ Interrupt
  BY <1>0, <1>1, FileKeepsAsRow
     DEF Submit, Ask, Approve, Finish, Interrupt, MovesTo, Compared, tick, CancelledHasID, Unseen
<1>2. CASE FileScrolls
  BY <1>0, <1>2, FileKeepsAsRow DEF FileScrolls, Compared, tick, CancelledHasID, Unseen
<1>3. CASE \E a \in Agents : Restart(a)
  BY <1>0, <1>3, FileKeepsAsRow DEF Restart, Compared, tick, CancelledHasID, Unseen
<1>4. CASE Settle \/ HookEnds
  BY <1>4 DEF Settle, HookEnds, tick, CancelledHasID, Unseen
<1>5. CASE \E event \in HookEvents : Hook(event)
  <2>1. PICK event \in HookEvents : Hook(event)
    BY <1>5
  <2>2. FromEvent[event] \in Statuses
    BY HookEventsAssumption, FromEventType
  <2>3. \A status \in Statuses : HasOwner(Written(row, status))
    BY <1>0 DEF Written, RowState, HasOwner
  <2> QED
    BY <2>1, <2>2, <2>3 DEF Hook, tick, CancelledHasID, Unseen, Reports
<1>6. CASE HookTool \/ HookSessionID
  BY <1>0, <1>6 DEF HookTool, HookSessionID, tick, RowState, HasOwner, CancelledHasID,
     Identifies
<1> QED
  BY <1>1, <1>2, <1>3, <1>4, <1>5, <1>6 DEF AgentStep

LEMMA TickConcludes ==
    ASSUME Typed, Seen, CancelledHasID, TargetIsSyncs, [Next]_vars
    PROVE  CancelledHasID' /\ TargetIsSyncs'
<1>0. row \in RowState /\ snap \in RowState
  BY DEF Typed, WorldTypeOK, TickTypeOK
<1>1. HasOwner(NewRow)
  BY DEF HasOwner, NewRow
<1>2. CASE AgentStep
  <2>1. UNCHANGED pc /\ (pc = "apply" => AsRow(snap') = AsRow(snap))
    BY <1>2, AgentStepSeen DEF Unseen, Reports, Identifies
  <2> QED
    BY <1>2, <2>1, AgentStepSeen DEF TargetIsSyncs
<1>3. CASE TickBegins
  BY <1>3 DEF TickBegins, CancelledHasID, TargetIsSyncs
<1>4. CASE Observe
  <2>1. CancelledHasID'
    BY <1>1, <1>4, ObserveType DEF Leave, Decide, CancelledHasID
  <2>2. ASSUME pc' = "apply"
        PROVE  UNCHANGED snap /\ target' \in SyncTargets(AsRow(snap))
    <3>1. CASE ReadFile
      BY <1>0, <2>2, <3>1
         DEF ReadFile, Decide, Seen, FileIsGeminis, CancelledHasID, HasOwner, AsRow, SyncTargets,
             GeminiTargets
    <3>2. CASE NotCaptured
      BY <2>2, <3>2 DEF NotCaptured, Leave
    <3>3. CASE \E screen \in Captures : CaptureCodex(screen)
      BY <2>2, <3>3 DEF CaptureCodex, ClearFrame, Leave, Decide, AsRow, SyncTargets, CodexTargets
    <3>4. CASE \E screen \in Captures : CaptureGemini(screen)
      BY <2>2, <3>4 DEF CaptureGemini, ClearFrame, Leave, Decide, AsRow, SyncTargets, GeminiTargets
    <3> QED
      BY <1>4, <3>1, <3>2, <3>3, <3>4 DEF Observe
  <2> QED
    BY <2>1, <2>2 DEF TargetIsSyncs
<1>5. CASE Apply
  <2>1. HasOwner(row')
    BY <1>0, <1>5 DEF Apply, Written, RowState, CancelledHasID, HasOwner
  <2> QED
    BY <1>1, <1>5, <2>1 DEF Apply, Leave, CancelledHasID, TargetIsSyncs
<1>6. CASE TickFails \/ MonitorRestarts
  BY <1>1, <1>6 DEF TickFails, MonitorRestarts, Leave, CancelledHasID, TargetIsSyncs
<1>7. CASE UNCHANGED vars
  BY <1>7 DEF vars, tick, CancelledHasID, TargetIsSyncs
<1> QED
  BY <1>2, <1>3, <1>4, <1>5, <1>6, <1>7 DEF Next

-----------------------------------------------------------------------------
(* Each step is one of the lifecycle's or none. *)

\* The writes as the lifecycle sees them.
RecordOf(status, w, tool, h) ==
    [status |-> status, waitingSince |-> w, tool |-> tool, hasID |-> h]

LEMMA RecordUpdates ==
    \A st, w, t, h, x :
        /\ [RecordOf(st, w, t, h) EXCEPT !.status = x] = RecordOf(x, w, t, h)
        /\ [RecordOf(st, w, t, h) EXCEPT !.waitingSince = x] = RecordOf(st, x, t, h)
        /\ [RecordOf(st, w, t, h) EXCEPT !.hasID = x] = RecordOf(st, w, t, x)
<1> TAKE st, w, t, h, x
<1>1. [RecordOf(st, w, t, h) EXCEPT !.status = x] = RecordOf(x, w, t, h)
  BY DEF RecordOf
<1>2. [RecordOf(st, w, t, h) EXCEPT !.waitingSince = x] = RecordOf(st, x, t, h)
  BY DEF RecordOf
<1>3. [RecordOf(st, w, t, h) EXCEPT !.hasID = x] = RecordOf(st, w, t, x)
  BY DEF RecordOf
<1> QED
  BY <1>1, <1>2, <1>3

LEMMA AsRowIsRecord ==
    \A r : AsRow(r) = RecordOf(r.status, r.status = "waiting", r.tool, r.id # "none")
  BY DEF AsRow, RecordOf

LEMMA StatusAsRow ==
    ASSUME NEW r, NEW s, s.tool = r.tool, s.id = r.id
    PROVE  AsRow(s) = [AsRow(r) EXCEPT !.status = s.status,
                                       !.waitingSince = (s.status = "waiting")]
<1>0. PICK w, x, h : w = (r.status = "waiting") /\ x = (s.status = "waiting") /\ h = (r.id # "none")
  OBVIOUS
<1>1. AsRow(r) = RecordOf(r.status, w, r.tool, h) /\ AsRow(s) = RecordOf(s.status, x, r.tool, h)
  BY <1>0, AsRowIsRecord
<1>2. [RecordOf(r.status, w, r.tool, h) EXCEPT !.status = s.status, !.waitingSince = x]
        = RecordOf(s.status, x, r.tool, h)
  <2>1. [RecordOf(r.status, w, r.tool, h) EXCEPT !.status = s.status]
          = RecordOf(s.status, w, r.tool, h)
    BY RecordUpdates
  <2>2. [RecordOf(s.status, w, r.tool, h) EXCEPT !.waitingSince = x]
          = RecordOf(s.status, x, r.tool, h)
    BY RecordUpdates
  <2> QED
    BY <2>1, <2>2
<1>3. AsRow(s) = [AsRow(r) EXCEPT !.status = s.status, !.waitingSince = x]
  BY <1>1, <1>2
<1> QED
  BY <1>0, <1>3

LEMMA IDAsRow ==
    ASSUME NEW r, NEW s, s.status = r.status, s.tool = r.tool, s.id = "own"
    PROVE  AsRow(s) = [AsRow(r) EXCEPT !.hasID = TRUE]
<1>0. PICK w, x, h : w = (r.status = "waiting") /\ x = TRUE /\ h = (r.id # "none")
  OBVIOUS
<1>1. AsRow(r) = RecordOf(r.status, w, r.tool, h) /\ AsRow(s) = RecordOf(r.status, w, r.tool, x)
  BY <1>0, AsRowIsRecord
<1>2. [RecordOf(r.status, w, r.tool, h) EXCEPT !.hasID = x] = RecordOf(r.status, w, r.tool, x)
  BY RecordUpdates
<1>3. AsRow(s) = [AsRow(r) EXCEPT !.hasID = x]
  BY <1>1, <1>2
<1> QED
  BY <1>0, <1>3

LEMMA StepStutters == ASSUME Unseen PROVE UNCHANGED Lifecycle!vars
<1>1. TheRows' = TheRows /\ SeenRows' = SeenRows
  BY DEF Unseen, TheRows, SeenRows
<1> QED
  BY <1>1 DEF Lifecycle!vars, TheRows, SeenRows

LEMMA StepReports == ASSUME Typed, Reports PROVE Lifecycle!Next
<1>1. PICK status \in Statuses : row' = Written(row, status)
  BY DEF Reports
<1>2. TheRows' = Lifecycle!UpsertSessionStatus(TheRows, "session", status, status = "waiting")
  <2>1. row \in RowState
    BY DEF Typed, WorldTypeOK
  <2>2. AsRow(row') = [AsRow(row) EXCEPT !.status = status, !.waitingSince = (status = "waiting")]
    <3>1. row'.status = status /\ row'.tool = row.tool /\ row'.id = row.id
      BY <1>1, <2>1 DEF Written, RowState
    <3> QED
      BY <3>1, StatusAsRow
  <2> QED
    BY <2>2 DEF TheRows, Lifecycle!UpsertSessionStatus
<1>3. SeenRows' = SeenRows
  BY DEF Reports, SeenRows
<1>4. Lifecycle!Report("session", status)
  BY <1>2, <1>3 DEF Lifecycle!Report, TheRows, SeenRows
<1> QED
  BY <1>4 DEF Lifecycle!Next, Lifecycle!Statuses

LEMMA StepIdentifies == ASSUME Typed, Identifies PROVE Lifecycle!Next
<1>0. row \in RowState
  BY DEF Typed, WorldTypeOK
<1>1. SeenRows' = SeenRows
  BY DEF Identifies, SeenRows
<1>2. TheRows' \in {Lifecycle!UpdateAgentTool(TheRows, "session", tool) : tool \in Tools}
                     \cup {Lifecycle!UpdateAgentSessionID(TheRows, "session")}
  <2>1. ASSUME NEW tool \in Agents, row' = [row EXCEPT !.tool = tool, !.cancelled = FALSE]
        PROVE  tool \in Tools /\ TheRows' = Lifecycle!UpdateAgentTool(TheRows, "session", tool)
    <3>1. AsRow(row') = [AsRow(row) EXCEPT !.tool = tool]
      BY <1>0, <2>1 DEF RowState, AsRow
    <3> QED
      BY <3>1, AgentsAssumption DEF TheRows, Lifecycle!UpdateAgentTool, Tools
  <2>2. ASSUME row' = [row EXCEPT !.id = "own", !.cancelled = FALSE]
        PROVE  TheRows' = Lifecycle!UpdateAgentSessionID(TheRows, "session")
    <3>1. AsRow(row') = [AsRow(row) EXCEPT !.hasID = TRUE]
      <4>1. row'.status = row.status /\ row'.tool = row.tool /\ row'.id = "own"
        BY <1>0, <2>2 DEF RowState
      <4> QED
        BY <4>1, IDAsRow
    <3> QED
      BY <3>1 DEF TheRows, Lifecycle!UpdateAgentSessionID
  <2> QED
    BY <2>1, <2>2 DEF Identifies
<1>3. Lifecycle!Identify("session")
  BY <1>1, <1>2 DEF Lifecycle!Identify, Lifecycle!Tools, Tools, TheRows, SeenRows
<1> QED
  BY <1>3 DEF Lifecycle!Next

\* The end of a tick, with or without a write.
LEMMA TickIsForgotten ==
    ASSUME NEW next, Leave(next), UNCHANGED row
    PROVE  Lifecycle!Next
<1>1. SeenRows' = Lifecycle!EmptyTable /\ TheRows' = TheRows
  BY DEF Leave, SeenRows, TheRows, Lifecycle!EmptyTable
<1>2. Lifecycle!Forget
  BY <1>1 DEF Lifecycle!Forget, SeenRows, TheRows
<1> QED
  BY <1>2 DEF Lifecycle!Next

\* The swap: the one conclusion of the tick.
LEMMA ApplyConcludes == ASSUME Typed, TargetIsSyncs, Apply PROVE Lifecycle!Next
<1>1. /\ row \in RowState /\ snap \in RowState /\ pc = "apply" /\ target \in Statuses
      /\ target \in SyncTargets(AsRow(snap))
  BY DEF Typed, WorldTypeOK, TickTypeOK, TargetIsSyncs, Apply
<1>2. SeenRows = [k \in {"session"} |-> AsRow(snap)] /\ SeenRows["session"] = AsRow(snap)
  BY <1>1 DEF SeenRows
<1>3. SeenRows' = Lifecycle!DeleteSession(SeenRows, "session")
  BY <1>2 DEF Apply, Leave, SeenRows, Lifecycle!DeleteSession
<1>4. target \in Lifecycle!SyncTargets(SeenRows["session"])
  BY <1>1, <1>2
     DEF SyncTargets, ClaudeTargets, CodexTargets, GeminiTargets, Lifecycle!SyncTargets,
         Lifecycle!ClaudeTargets, Lifecycle!CodexTargets, Lifecycle!GeminiTargets,
         Lifecycle!Statuses
<1>5. TheRows' = Lifecycle!UpdateSessionStatusIfUnchanged(
                    TheRows, "session", target, target = "waiting", SeenRows["session"].status)
  <2>1. SeenRows["session"].status = snap.status
    BY <1>2 DEF AsRow
  <2>2. CASE row.status = snap.status
    <3>1. AsRow(row') = [AsRow(row) EXCEPT !.status = target, !.waitingSince = (target = "waiting")]
      <4>1. row'.status = target /\ row'.tool = row.tool /\ row'.id = row.id
        BY <1>1, <2>2 DEF Apply, Written, RowState
      <4> QED
        BY <4>1, StatusAsRow
    <3> QED
      BY <2>1, <2>2, <3>1 DEF TheRows, AsRow, Lifecycle!UpdateSessionStatusIfUnchanged
  <2>3. CASE row.status # snap.status
    BY <2>1, <2>3 DEF Apply, TheRows, AsRow, Lifecycle!UpdateSessionStatusIfUnchanged
  <2> QED
    BY <2>2, <2>3
<1>6. "session" \in DOMAIN SeenRows
  BY <1>2
<1>7. Lifecycle!Conclude("session", target)
  BY <1>3, <1>4, <1>5, <1>6 DEF Lifecycle!Conclude, TheRows, SeenRows
<1> QED
  BY <1>1, <1>7 DEF Lifecycle!Next, Lifecycle!Statuses

LEMMA NextWithinLifecycle ==
    ASSUME Typed, CancelledHasID, TargetIsSyncs, [Next]_vars
    PROVE  Lifecycle!Next \/ UNCHANGED Lifecycle!vars
<1>1. CASE AgentStep
  BY <1>1, AgentStepSeen, StepStutters, StepReports, StepIdentifies
<1>2. CASE TickBegins
  <2>1. SeenRows' = TheRows /\ TheRows' = TheRows
    BY <1>2 DEF TickBegins, SeenRows, TheRows
  <2>2. Lifecycle!Look
    BY <2>1 DEF Lifecycle!Look, SeenRows, TheRows
  <2> QED
    BY <2>2 DEF Lifecycle!Next
<1>3. CASE Observe
  <2>1. ASSUME pc # "sleep", pc' # "sleep", UNCHANGED <<row, snap>>
        PROVE  UNCHANGED Lifecycle!vars
    <3>1. TheRows' = TheRows /\ SeenRows' = SeenRows
      BY <2>1 DEF TheRows, SeenRows
    <3> QED
      BY <3>1 DEF Lifecycle!vars, TheRows, SeenRows
  <2> QED
    BY <1>3, <2>1, ObserveType, TickIsForgotten DEF Decide
<1>4. CASE Apply
  BY <1>4, ApplyConcludes
<1>5. CASE TickFails \/ MonitorRestarts
  BY <1>5, TickIsForgotten DEF TickFails, MonitorRestarts
<1>6. CASE UNCHANGED vars
  BY <1>6, StepStutters DEF vars, tick, Unseen
<1> QED
  BY <1>1, <1>2, <1>3, <1>4, <1>5, <1>6 DEF Next

\* Whatever the session file and the terminal show, and whichever agents follow
\* each other in the pane, the monitor changes the row of a Codex or Gemini
\* session only as SessionLifecycle allows.
THEOREM AgentSyncsWithinLifecycle == Spec => StaysWithinLifecycle
<1>1. Init => CancelledHasID /\ TargetIsSyncs
  BY DEF Init, NewRow, CancelledHasID, HasOwner, TargetIsSyncs
<1>2. Typed /\ Seen /\ CancelledHasID /\ TargetIsSyncs /\ [Next]_vars
        => CancelledHasID' /\ TargetIsSyncs'
  BY TickConcludes
<1>3. Typed /\ CancelledHasID /\ TargetIsSyncs /\ [Next]_vars => [Lifecycle!Next]_(Lifecycle!vars)
  BY NextWithinLifecycle
<1>4. Typed /\ [Next]_vars /\ Seen => Seen'
  BY SeenNext
<1> QED
  BY <1>1, <1>2, <1>3, <1>4, SeenInit, AlwaysTyped, PTL DEF Spec, StaysWithinLifecycle

-----------------------------------------------------------------------------
(* Once a session is left alone, what its row shows at rest it shows for    *)
(* good: CodexInterruptIsShown and GeminiAnswerIsShown without their        *)
(* fairness.                                                                *)

\* No sync has a reason to write the row: an idle one has nothing to end and a
\* running Gemini ends by a cancellation or by a hook only.
AtRest(status) ==
    /\ settled
    /\ row.status = status
    /\ \/ status = "idle"
       \/ status = "running" /\ row.tool = "gemini" /\ ~row.cancelled

\* The inductive invariant: a tick that is under way listed just that row.
StaysAtRest(status) ==
    /\ AtRest(status)
    /\ pc # "apply"
    /\ pc # "sleep" => snap = row

LEMMA NextStaysAtRest ==
    ASSUME NEW status \in {"idle", "running"}, Typed, StaysAtRest(status), [Next]_vars
    PROVE  StaysAtRest(status)'
<1>0. settled /\ row.status = status /\ (pc # "sleep" => snap = row) /\ pc # "apply"
  BY DEF StaysAtRest, AtRest
<1>1. ASSUME UNCHANGED <<row, settled>>, pc' = "sleep" \/ (pc' = "capture" /\ UNCHANGED snap /\ pc # "sleep")
      PROVE  StaysAtRest(status)'
  BY <1>0, <1>1 DEF StaysAtRest, AtRest
<1>2. ~AgentStep
  BY <1>0 DEF AgentStep, Submit, Ask, Approve, Finish, Interrupt, FileScrolls, Restart, Settle,
              Hook, HookTool, HookSessionID, HookEnds, MovesTo
<1>3. CASE TickBegins
  BY <1>0, <1>3 DEF TickBegins, world, StaysAtRest, AtRest
<1>4. CASE Observe
  <2>1. CASE ReadFile
    <3>1. ~(snap.cancelled /\ snap.status \in {"running", "waiting"})
      BY <1>0, <2>1 DEF ReadFile, StaysAtRest, AtRest
    <3>. QED
      BY <1>1, <2>1, <3>1 DEF ReadFile, world
  <2>2. CASE NotCaptured
    BY <1>1, <2>2 DEF NotCaptured, Leave, world
  <2>3. ASSUME NEW screen, CaptureCodex(screen) \/ CaptureGemini(screen) PROVE FALSE
    BY <1>0, <2>3 DEF CaptureCodex, CaptureGemini, StaysAtRest, AtRest
  <2>. QED
    BY <1>4, <2>1, <2>2, <2>3 DEF Observe
<1>5. CASE Apply \/ TickFails \/ MonitorRestarts
  BY <1>0, <1>5 DEF Apply, TickFails, MonitorRestarts
<1>6. CASE UNCHANGED vars
  BY <1>6 DEF vars, world, tick, StaysAtRest, AtRest
<1>. QED
  BY <1>2, <1>3, <1>4, <1>5, <1>6 DEF Next

\* An idle row of any agent and a running one of Gemini without a cancellation
\* stay so between the ticks of a session that is left alone, whatever its
\* terminal shows and whatever the counters hold: CodexInterruptIsShown and
\* GeminiAnswerIsShown follow from the status being shown once.
THEOREM RestIsForGood ==
    /\ Spec => /\ [](AtRest("idle") /\ pc = "sleep" => [](row.status = "idle"))
               /\ [](AtRest("running") /\ pc = "sleep" => [](row.status = "running"))
    /\ Spec /\ (settled /\ phase = "idle" /\ agent = "codex" /\ row.tool = "codex"
                    ~> AtRest("idle") /\ pc = "sleep")
          => CodexInterruptIsShown
    /\ Spec /\ (settled /\ phase = "idle" /\ row.tool = "gemini" /\ row.cancelled
                    /\ row.status # "idle" /\ pc = "sleep"
                    ~> AtRest("idle") /\ pc = "sleep")
            /\ (settled /\ phase = "working" /\ agent = "gemini" /\ row.tool = "gemini"
                    /\ ~row.cancelled /\ row.status = "waiting" /\ counters.promptSeen /\ pc = "sleep"
                    ~> AtRest("running") /\ pc = "sleep")
          => GeminiAnswerIsShown
<1>1. /\ AtRest("idle") /\ pc = "sleep" => StaysAtRest("idle")
      /\ AtRest("running") /\ pc = "sleep" => StaysAtRest("running")
  BY DEF StaysAtRest
<1>2. /\ StaysAtRest("idle") => row.status = "idle"
      /\ StaysAtRest("running") => row.status = "running"
  BY DEF StaysAtRest, AtRest
<1>3. /\ Typed /\ StaysAtRest("idle") /\ [Next]_vars => StaysAtRest("idle")'
      /\ Typed /\ StaysAtRest("running") /\ [Next]_vars => StaysAtRest("running")'
  BY NextStaysAtRest
<1>. QED
  BY <1>1, <1>2, <1>3, AlwaysTyped, PTL DEF Spec, CodexInterruptIsShown, GeminiAnswerIsShown
=============================================================================
