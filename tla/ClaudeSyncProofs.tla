-------------------------- MODULE ClaudeSyncProofs --------------------------
(***************************************************************************)
(* Theorems about ClaudeSync, for every value of its thresholds, every set *)
(* of configured hooks and every terminal that satisfies what a theorem    *)
(* assumes of it.                                                          *)
(***************************************************************************)
EXTENDS ClaudeSync, TLAPS

USE DEF Phases, Statuses

-----------------------------------------------------------------------------
(* The operators on rows keep their types. *)

LEMMA LeastType == ASSUME NEW n \in Nat, NEW i \in 0 .. n PROVE LeastOf(i + 1, n) \in 0 .. n
  BY DEF LeastOf

LEMMA WrittenType == \A status \in Statuses : Written(status) \in RowState
  BY ThresholdsAssumption DEF Written, RowState

LEMMA WithLineType == \A r \in RowState : WithLine(r) \in RowState
<1> TAKE r \in RowState
<1>1. (r.late \/ (r.status = "waiting" /\ r.waitAge = WaitingGrace)) \in BOOLEAN
  BY DEF RowState
<1> QED
  BY <1>1 DEF WithLine, RowState

LEMMA WithTurnType ==
    \A r \in RowState, stop \in BOOLEAN :
        /\ WithTurn(r, stop) \in RowState
        /\ WithTurn(r, stop).stopped = stop
  BY WithLineType DEF WithTurn, RowState

LEMMA OtherLinesType ==
    \A r \in RowState :
        /\ WithoutTurns(r) \in RowState
        /\ WithStamp(r) \in RowState
        /\ WithLanded(r) \in RowState
  BY WithLineType DEF WithoutTurns, WithStamp, WithLanded, RowState

LEMMA AsReadType ==
    \A r \in RowState : /\ AsRead(r) \in RowState
                        /\ AsRead(r).status = r.status
                        /\ ~AsRead(r).stopped
<1> TAKE r \in RowState
<1>1. r.status \in Statuses /\ r.late \in BOOLEAN
  BY DEF RowState
<1>2. Written(r.status) \in RowState
  BY <1>1, WrittenType
<1>3. AsRead(r) \in RowState
  BY <1>1, <1>2 DEF AsRead, RowState
<1>4. AsRead(r).status = r.status /\ AsRead(r).stopped = FALSE
  BY DEF AsRead, Written
<1> QED
  BY <1>3, <1>4

\* The history holds every count a debounce may reach.
LEMMA LongLullType ==
    /\ LongLull \in Nat
    /\ RunningIdleThreshold - 1 <= LongLull
    /\ WaitingIdleThreshold - 1 <= LongLull
  BY ThresholdsAssumption DEF LongLull

LEMMA WeighsType ==
    ASSUME NEW screen, lull \in 0 .. LongLull, Weighs(screen)
    PROVE  lull' \in 0 .. LongLull
<1>1. LeastOf(lull + 1, LongLull) \in 0 .. LongLull
  BY LongLullType, LeastType
<1> QED
  BY <1>1, LongLullType DEF Weighs, LullAfter

LEMMA FromEventType == \A e \in CanonicalEvents : FromEvent[e] \in Statuses
  BY DEF FromEvent, CanonicalEvents, RunningEvents, WaitingEvents, IdleEvents

LEMMA NoCountersType == NoCounters \in Counters
  BY ThresholdsAssumption DEF NoCounters, Counters

\* A capture is a set of marks, or none.
LEMMA CapturesType == phase \in Phases => Captures \subseteq (SUBSET Marks) \cup {NoCapture}
  BY ScreensAssumption DEF Captures

\* A tick's end and a tick's decision have their types if their counters do.
LEMMA LeaveType ==
    ASSUME NEW next \in Counters, Leave(next)
    PROVE  /\ pc' = "sleep" /\ snap' \in RowState /\ fresh' = FALSE
           /\ target' = NoTarget /\ capture' = NoCapture /\ counters' \in Counters
  BY WrittenType DEF Leave, NoSnap

LEMMA DecideType ==
    ASSUME NEW status \in Statuses, NEW screen, NEW next \in Counters,
           Decide(status, screen, next)
    PROVE  /\ pc' = "apply" /\ snap' = snap /\ fresh' = FALSE /\ target' = status
           /\ capture' = screen /\ counters' \in Counters
  BY DEF Decide

\* A line that arrives during a tick keeps the types of the row and its copy.
LEMMA ComparedType ==
    ASSUME NEW newRow \in RowState, NEW newSnap \in RowState, snap \in RowState,
           Compared(newRow, newSnap)
    PROVE  row' \in RowState /\ snap' \in RowState
  BY DEF Compared

LEMMA WriteConversationType ==
    ASSUME TypeOK, NEW stop \in BOOLEAN, WriteConversation(stop)
    PROVE  /\ row' \in RowState /\ snap' \in RowState
           /\ convAge' \in 0 .. QuietPeriod /\ lagging' \in BOOLEAN
<1>1. row \in RowState /\ snap \in RowState /\ lagging \in BOOLEAN
  BY DEF TypeOK
<1>2. row' \in RowState /\ snap' \in RowState
  BY <1>1, ComparedType, WithTurnType DEF WriteConversation
<1>3. convAge' \in 0 .. QuietPeriod /\ lagging' \in BOOLEAN
  BY <1>1, ThresholdsAssumption DEF WriteConversation
<1> QED
  BY <1>2, <1>3

LEMMA WriteInterruptionType ==
    ASSUME TypeOK, WriteInterruption
    PROVE  /\ row' \in RowState /\ snap' \in RowState
           /\ convAge' \in 0 .. QuietPeriod /\ lagging' \in BOOLEAN
<1>1. CASE WriteConversation(TRUE)
  BY <1>1, WriteConversationType
<1>2. CASE /\ "lag" \in TranscriptNoise
           /\ ~lagging
           /\ lagging' = TRUE
           /\ Compared(WithStamp(row), WithStamp(snap))
           /\ UNCHANGED convAge
  BY <1>2, ComparedType, OtherLinesType DEF TypeOK
<1> QED
  BY <1>1, <1>2 DEF WriteInterruption

LEMMA NothingWrittenType ==
    ASSUME TypeOK, NothingWritten
    PROVE  /\ row' \in RowState /\ snap' \in RowState
           /\ convAge' \in 0 .. QuietPeriod /\ lagging' \in BOOLEAN
  BY DEF TypeOK, NothingWritten, transcript

\* The part of TypeOK that the agent's moves leave to the lemmas above.
TranscriptTypeOK ==
    /\ row \in RowState /\ snap \in RowState
    /\ convAge \in 0 .. QuietPeriod /\ lagging \in BOOLEAN

\* The part of TypeOK that is about the agent.
AgentTypeOK == phase \in Phases /\ settled \in BOOLEAN /\ due \subseteq HookEvents

\* The part of TypeOK that is about the tick.
TickTypeOK ==
    /\ pc \in {"sleep", "read", "observe", "apply"}
    /\ fresh \in BOOLEAN
    /\ target \in Statuses \cup {NoTarget}
    /\ pc = "apply" <=> target # NoTarget
    /\ capture \in (SUBSET Marks) \cup {NoCapture}
    /\ counters \in Counters

\* The part of TypeOK that is about what outlives a tick.
LullTypeOK == ticked \in BOOLEAN /\ lull \in 0 .. LongLull

LEMMA TypeParts == TypeOK <=> TranscriptTypeOK /\ AgentTypeOK /\ TickTypeOK /\ LullTypeOK
  BY DEF TypeOK, TranscriptTypeOK, AgentTypeOK, TickTypeOK, LullTypeOK

LEMMA MeanwhileType == ASSUME TypeOK, Meanwhile PROVE TickTypeOK' /\ LullTypeOK'
<1>1. TickTypeOK /\ LullTypeOK
  BY TypeParts
<1>2. TickTypeOK'
  BY <1>1 DEF Meanwhile, TickTypeOK, tick
<1>3. LullTypeOK'
  BY <1>1 DEF Meanwhile, LullTypeOK
<1> QED
  BY <1>2, <1>3

LEMMA MovesType ==
    ASSUME TypeOK, NEW p \in Phases, MovesTo(p), due' \subseteq HookEvents
    PROVE  AgentTypeOK' /\ TickTypeOK' /\ LullTypeOK'
<1>1. AgentTypeOK
  BY TypeParts
<1>2. AgentTypeOK'
  BY <1>1 DEF MovesTo, AgentTypeOK
<1> QED
  BY <1>2, MeanwhileType DEF MovesTo

LEMMA FiresType ==
    ASSUME TypeOK, NEW events, Fires(events)
    PROVE  due' \subseteq HookEvents
  BY DEF Fires, TypeOK

-----------------------------------------------------------------------------
(* Every step keeps the types. *)

LEMMA AgentStepType == ASSUME TypeOK, AgentStep PROVE TypeOK'
<1> USE DEF TranscriptTypeOK
<1>a. TranscriptTypeOK /\ AgentTypeOK /\ TickTypeOK /\ LullTypeOK
  BY TypeParts
<1>b. ASSUME due' = due PROVE due' \subseteq HookEvents
  BY <1>b, <1>a DEF AgentTypeOK
<1>c. ASSUME UNCHANGED agent, Meanwhile PROVE AgentTypeOK' /\ TickTypeOK' /\ LullTypeOK'
  <2>1. AgentTypeOK'
    BY <1>c, <1>a DEF AgentTypeOK, agent
  <2> QED
    BY <1>c, <2>1, MeanwhileType
<1>1. CASE Submit
  <2>1. AgentTypeOK' /\ TickTypeOK' /\ LullTypeOK'
    BY <1>1, FiresType, MovesType DEF Submit
  <2>2. TranscriptTypeOK'
    BY <1>1, NothingWrittenType, WriteConversationType DEF Submit
  <2> QED
    BY <2>1, <2>2 DEF TypeOK, AgentTypeOK, TickTypeOK, LullTypeOK
<1>2. CASE Work
  <2>1. TranscriptTypeOK'
    BY <1>2, WriteConversationType DEF Work
  <2> QED
    BY <1>2, <1>c, <2>1 DEF Work, TypeOK, AgentTypeOK, TickTypeOK, LullTypeOK
<1>3. CASE Ask
  <2>1. AgentTypeOK' /\ TickTypeOK' /\ LullTypeOK'
    BY <1>3, FiresType, MovesType DEF Ask
  <2>2. TranscriptTypeOK'
    BY <1>3, WriteConversationType DEF Ask
  <2> QED
    BY <2>1, <2>2 DEF TypeOK, AgentTypeOK, TickTypeOK, LullTypeOK
<1>4. CASE Approve
  <2>1. AgentTypeOK' /\ TickTypeOK' /\ LullTypeOK'
    BY <1>4, FiresType, MovesType DEF Approve
  <2>2. TranscriptTypeOK'
    BY <1>4, NothingWrittenType DEF Approve
  <2> QED
    BY <2>1, <2>2 DEF TypeOK, AgentTypeOK, TickTypeOK, LullTypeOK
<1>5. CASE Cancel
  <2>1. AgentTypeOK' /\ TickTypeOK' /\ LullTypeOK'
    BY <1>5, <1>b, MovesType DEF Cancel
  <2>2. TranscriptTypeOK'
    BY <1>5, WriteInterruptionType DEF Cancel
  <2> QED
    BY <2>1, <2>2 DEF TypeOK, AgentTypeOK, TickTypeOK, LullTypeOK
<1>6. CASE Interrupt
  <2>1. AgentTypeOK' /\ TickTypeOK' /\ LullTypeOK'
    BY <1>6, <1>b, MovesType DEF Interrupt
  <2>2. TranscriptTypeOK'
    BY <1>6, WriteInterruptionType, NothingWrittenType DEF Interrupt
  <2> QED
    BY <2>1, <2>2 DEF TypeOK, AgentTypeOK, TickTypeOK, LullTypeOK
<1>7. CASE Finish
  <2>1. AgentTypeOK' /\ TickTypeOK' /\ LullTypeOK'
    BY <1>7, FiresType, MovesType DEF Finish
  <2>2. TranscriptTypeOK'
    BY <1>7, WriteConversationType DEF Finish
  <2> QED
    BY <2>1, <2>2 DEF TypeOK, AgentTypeOK, TickTypeOK, LullTypeOK
<1>8. CASE Compact
  <2>1. AgentTypeOK' /\ TickTypeOK' /\ LullTypeOK'
    BY <1>8, FiresType, MovesType DEF Compact
  <2>2. TranscriptTypeOK'
    BY <1>8, NothingWrittenType DEF Compact
  <2> QED
    BY <2>1, <2>2 DEF TypeOK, AgentTypeOK, TickTypeOK, LullTypeOK
<1>9. CASE ApiError
  <2>1. AgentTypeOK' /\ TickTypeOK' /\ LullTypeOK'
    BY <1>9, <1>b, MovesType DEF ApiError
  <2>2. TranscriptTypeOK'
    BY <1>9, WriteConversationType DEF ApiError
  <2> QED
    BY <2>1, <2>2 DEF TypeOK, AgentTypeOK, TickTypeOK, LullTypeOK
<1>10. CASE LineLands
  <2>1. row' \in RowState /\ snap' \in RowState
    BY <1>10, <1>a, ComparedType, OtherLinesType DEF LineLands
  <2>2. convAge' \in 0 .. convAge /\ lagging' = FALSE
    BY <1>10 DEF LineLands
  <2>3. convAge' \in 0 .. QuietPeriod
    BY <2>2, <1>a, ThresholdsAssumption
  <2> QED
    BY <1>10, <1>c, <2>1, <2>2, <2>3 DEF LineLands, TypeOK, AgentTypeOK, TickTypeOK,
       LullTypeOK
<1>11. CASE Bookkeep
  <2>1. row' \in RowState /\ snap' \in RowState
    BY <1>11, <1>a, ComparedType, WithLineType DEF Bookkeep
  <2>2. convAge' \in 0 .. QuietPeriod /\ lagging' \in BOOLEAN
    BY <1>11, <1>a DEF Bookkeep, transcript
  <2> QED
    BY <1>11, <1>c, <2>1, <2>2 DEF Bookkeep, TypeOK, AgentTypeOK, TickTypeOK,
       LullTypeOK
<1>12. CASE TailScrolls
  <2>1. row' \in RowState /\ snap' \in RowState
    BY <1>12, <1>a, ComparedType, OtherLinesType DEF TailScrolls
  <2>2. convAge' \in 0 .. QuietPeriod /\ lagging' \in BOOLEAN
    BY <1>12, <1>a, ThresholdsAssumption DEF TailScrolls
  <2>3. AgentTypeOK' /\ TickTypeOK'
    BY <1>12, <1>a DEF TailScrolls, AgentTypeOK, TickTypeOK, agent, tick
  <2>4. LullTypeOK'
    BY <1>12, <1>a, LongLullType DEF TailScrolls, LullTypeOK
  <2> QED
    BY <2>1, <2>2, <2>3, <2>4 DEF TypeOK, AgentTypeOK, TickTypeOK, LullTypeOK
<1>13. ASSUME NEW event \in HookEvents, Hook(event) PROVE TypeOK'
  <2>1. Written(FromEvent[event]) \in RowState
    BY HookEventsAssumption, FromEventType, WrittenType
  <2>2. [row EXCEPT !.stopped = FALSE, !.lagStopped = FALSE] \in RowState
    BY <1>a DEF RowState
  <2>3. row' \in RowState
    BY <1>13, <1>a, <2>1, <2>2 DEF Hook
  <2>4. AgentTypeOK'
    BY <1>13, <1>a DEF Hook, AgentTypeOK
  <2>5. TickTypeOK' /\ LullTypeOK'
    BY <1>13, MeanwhileType DEF Hook
  <2> QED
    BY <1>13, <1>a, <2>3, <2>4, <2>5
       DEF Hook, TypeOK, AgentTypeOK, TickTypeOK, LullTypeOK, transcript
<1>14. CASE Settle
  <2>1. AgentTypeOK'
    BY <1>14, <1>a DEF Settle, AgentTypeOK
  <2>2. TickTypeOK' /\ LullTypeOK'
    BY <1>14, MeanwhileType DEF Settle
  <2> QED
    BY <1>14, <1>a, <2>1, <2>2
       DEF Settle, TypeOK, AgentTypeOK, TickTypeOK, LullTypeOK, transcript
<1> QED
  BY <1>1, <1>2, <1>3, <1>4, <1>5, <1>6, <1>7, <1>8, <1>9, <1>10, <1>11, <1>12,
     <1>13, <1>14 DEF AgentStep

\* The monitor's row stays typed when only the tick moves.
LEMMA TickStepType ==
    ASSUME TypeOK, UNCHANGED <<transcript, agent>>, row' \in RowState, snap' \in RowState,
           TickTypeOK', LullTypeOK'
    PROVE  TypeOK'
  BY DEF TypeOK, TickTypeOK, LullTypeOK, transcript, agent

LEMMA LeavingType ==
    ASSUME TypeOK, UNCHANGED <<transcript, agent>>, row' \in RowState, LullTypeOK',
           NEW next \in Counters, Leave(next)
    PROVE  TypeOK'
<1>1. TickTypeOK'
  BY LeaveType DEF TickTypeOK, NoTarget
<1> QED
  BY <1>1, LeaveType, TickStepType

LEMMA DecidingType ==
    ASSUME TypeOK, UNCHANGED <<row, transcript, agent>>, LullTypeOK',
           NEW status \in Statuses, NEW screen \in (SUBSET Marks) \cup {NoCapture},
           NEW next \in Counters, Decide(status, screen, next)
    PROVE  TypeOK'
<1>1. TickTypeOK'
  BY DecideType DEF TickTypeOK, NoTarget
<1>2. row' \in RowState /\ snap' \in RowState
  BY DecideType DEF TypeOK
<1> QED
  BY <1>1, <1>2, TickStepType

\* Each counter can be reset on its own.
LEMMA ResetType ==
    ASSUME NEW c \in Counters
    PROVE  /\ [c EXCEPT !.paneClear = 0] \in Counters
           /\ \A b \in BOOLEAN : [c EXCEPT !.promptSeen = b] \in Counters
           /\ [c EXCEPT !.runningClear = 0] \in Counters
           /\ [c EXCEPT !.runningWaiting = 0] \in Counters
           /\ [c EXCEPT !.idleRunning = 0] \in Counters
<1>1. /\ 0 \in 0 .. WaitingIdleThreshold - 1
      /\ 0 \in 0 .. RunningIdleThreshold - 1
      /\ 0 \in 0 .. WaitingPromptThreshold - 1
      /\ 0 \in 0 .. IdleRunningThreshold - 1
  BY ThresholdsAssumption
<1>2. [c EXCEPT !.paneClear = 0] \in Counters
  BY <1>1 DEF Counters
<1>3. \A b \in BOOLEAN : [c EXCEPT !.promptSeen = b] \in Counters
  BY DEF Counters
<1>4. [c EXCEPT !.runningClear = 0] \in Counters
  BY <1>1 DEF Counters
<1>5. [c EXCEPT !.runningWaiting = 0] \in Counters
  BY <1>1 DEF Counters
<1>6. [c EXCEPT !.idleRunning = 0] \in Counters
  BY <1>1 DEF Counters
<1> QED
  BY <1>2, <1>3, <1>4, <1>5, <1>6

\* The resets that the branches of a tick begin with.
LEMMA ResetsType ==
    ASSUME NEW c \in Counters
    PROVE  /\ [c EXCEPT !.paneClear = 0, !.promptSeen = FALSE, !.idleRunning = 0] \in Counters
           /\ [c EXCEPT !.paneClear = 0, !.promptSeen = FALSE, !.runningClear = 0] \in Counters
           /\ [c EXCEPT !.runningClear = 0, !.runningWaiting = 0, !.idleRunning = 0]
                 \in Counters
           /\ \A b \in BOOLEAN : [c EXCEPT !.paneClear = 0, !.promptSeen = b] \in Counters
<1> DEFINE cleared == [c EXCEPT !.paneClear = 0]
           forgotten == [cleared EXCEPT !.promptSeen = FALSE]
           running == [c EXCEPT !.runningClear = 0]
           both == [running EXCEPT !.runningWaiting = 0]
<1>1. cleared \in Counters /\ running \in Counters
  BY ResetType
<1>2. forgotten \in Counters /\ both \in Counters
  BY <1>1, ResetType
<1>3. [forgotten EXCEPT !.idleRunning = 0] \in Counters
  BY <1>2, ResetType
<1>4. [forgotten EXCEPT !.runningClear = 0] \in Counters
  BY <1>2, ResetType
<1>5. [both EXCEPT !.idleRunning = 0] \in Counters
  BY <1>2, ResetType
<1>6. \A b \in BOOLEAN : [cleared EXCEPT !.promptSeen = b] \in Counters
  BY <1>1, ResetType
<1> QED
  BY <1>3, <1>4, <1>5, <1>6

\* What every observation of a screen starts from.
Observes(screen) ==
    /\ TypeOK
    /\ UNCHANGED <<row, transcript, agent>>
    /\ LullTypeOK'
    /\ screen \in (SUBSET Marks) \cup {NoCapture}

LEMMA LeavesTyped ==
    ASSUME NEW screen, Observes(screen), NEW next \in Counters, Leave(next)
    PROVE  TypeOK'
  BY LeavingType DEF Observes, TypeOK

LEMMA DecidesTyped ==
    ASSUME NEW screen, Observes(screen), NEW status \in Statuses, NEW next \in Counters,
           Decide(status, screen, next)
    PROVE  TypeOK'
  BY DecidingType DEF Observes

LEMMA PromptAppearsType ==
    ASSUME NEW screen, Observes(screen), NEW c \in Counters, PromptAppears(screen, c)
    PROVE  TypeOK'
<1>1. CASE c.runningWaiting + 1 < WaitingPromptThreshold
  <2>1. [c EXCEPT !.runningWaiting = @ + 1] \in Counters
    BY <1>1, ThresholdsAssumption DEF Counters
  <2> QED
    BY <1>1, <2>1, LeavesTyped DEF PromptAppears
<1>2. CASE ~(c.runningWaiting + 1 < WaitingPromptThreshold)
  <2>1. [c EXCEPT !.runningWaiting = 0] \in Counters
    BY ThresholdsAssumption DEF Counters
  <2> QED
    BY <1>2, <2>1, DecidesTyped DEF PromptAppears
<1> QED
  BY <1>1, <1>2

LEMMA FallsIdleType ==
    ASSUME NEW screen, Observes(screen), NEW c \in Counters, FallsIdle(screen, c)
    PROVE  TypeOK'
<1>1. CASE c.runningClear + 1 < RunningIdleThreshold
  <2>1. [c EXCEPT !.runningClear = @ + 1] \in Counters
    BY <1>1, ThresholdsAssumption DEF Counters
  <2> QED
    BY <1>1, <2>1, LeavesTyped DEF FallsIdle
<1>2. CASE ~(c.runningClear + 1 < RunningIdleThreshold)
  <2>1. [c EXCEPT !.runningClear = 0] \in Counters
    BY ThresholdsAssumption DEF Counters
  <2> QED
    BY <1>2, <2>1, DecidesTyped DEF FallsIdle
<1> QED
  BY <1>1, <1>2

LEMMA StartsRunningType ==
    ASSUME NEW screen, Observes(screen), NEW c \in Counters, StartsRunning(screen, c)
    PROVE  TypeOK'
<1>1. CASE c.idleRunning + 1 < IdleRunningThreshold
  <2>1. [c EXCEPT !.idleRunning = @ + 1] \in Counters
    BY <1>1, ThresholdsAssumption DEF Counters
  <2> QED
    BY <1>1, <2>1, LeavesTyped DEF StartsRunning
<1>2. CASE ~(c.idleRunning + 1 < IdleRunningThreshold)
  <2>1. [c EXCEPT !.idleRunning = 0] \in Counters
    BY ThresholdsAssumption DEF Counters
  <2> QED
    BY <1>2, <2>1, DecidesTyped DEF StartsRunning
<1> QED
  BY <1>1, <1>2

LEMMA PromptGoneType ==
    ASSUME NEW screen, Observes(screen), NEW c \in Counters, PromptGone(screen, c)
    PROVE  TypeOK'
<1> DEFINE over == [c EXCEPT !.paneClear = 0, !.promptSeen = FALSE]
<1>1. over \in Counters
  BY ResetsType
<1>2. CASE Decide("running", screen, over)
  BY <1>1, <1>2, DecidesTyped
<1>3. CASE Decide("idle", screen, over)
  BY <1>1, <1>3, DecidesTyped
<1>4. CASE /\ c.paneClear + 1 < WaitingIdleThreshold
           /\ Leave([c EXCEPT !.paneClear = @ + 1])
  <2>1. [c EXCEPT !.paneClear = @ + 1] \in Counters
    BY <1>4, ThresholdsAssumption DEF Counters
  <2> QED
    BY <1>4, <2>1, LeavesTyped
<1> QED
  BY <1>2, <1>3, <1>4 DEF PromptGone

LEMMA ReadingType == ASSUME TypeOK, ReadStop \/ ReadTranscript PROVE TypeOK'
<1>0. counters \in Counters /\ LullTypeOK /\ row \in RowState /\ snap \in RowState
  BY TypeParts DEF TypeOK
<1>1. CASE ReadStop
  <2>1. LullTypeOK'
    BY <1>0, <1>1, LongLullType DEF ReadStop, LullTypeOK
  <2>2. CASE Leave(counters)
    BY <1>0, <1>1, <2>1, <2>2, LeavingType DEF ReadStop
  <2>3. CASE Decide("idle", NoCapture, counters)
    BY <1>0, <1>1, <2>1, <2>3, DecidingType DEF ReadStop
  <2> QED
    BY <1>1, <2>2, <2>3 DEF ReadStop
<1>2. CASE ReadTranscript
  <2>1. snap' \in RowState
    BY <1>0, <1>2, AsReadType DEF ReadTranscript
  <2>2. fresh' \in BOOLEAN
    BY <1>2 DEF ReadTranscript, ConversationRecentlyWritten
  <2> QED
    BY <1>2, <2>1, <2>2 DEF ReadTranscript, TypeOK, transcript, agent, NoTarget
<1> QED
  BY <1>1, <1>2

LEMMA ObserveType == ASSUME TypeOK, Observe PROVE TypeOK'
<1>0. counters \in Counters /\ LullTypeOK
  BY TypeParts DEF TypeOK
<1>1. ASSUME NEW screen, Weighs(screen), UNCHANGED ticked PROVE LullTypeOK'
  BY <1>0, <1>1, WeighsType DEF LullTypeOK
<1>2. ASSUME NEW screen \in Captures, NEW status, Observing(status), LullTypeOK'
      PROVE  Observes(screen)
  BY <1>2, CapturesType DEF Observing, Observes, TypeOK
<1>3. ASSUME NEW screen \in Captures, ObserveLateLine(screen) PROVE TypeOK'
  <2>1. Observes(screen)
    <3>1. LullTypeOK'
      BY <1>0, <1>3, LongLullType DEF ObserveLateLine, Observing, LullTypeOK
    <3> QED
      BY <1>2, <1>3, <3>1 DEF ObserveLateLine
  <2> QED
    BY <1>0, <1>3, <2>1, LeavesTyped, DecidesTyped DEF ObserveLateLine
<1>4. ASSUME NEW screen \in Captures, ObserveRunning(screen) PROVE TypeOK'
  <2> DEFINE c == [counters EXCEPT !.paneClear = 0, !.promptSeen = FALSE, !.idleRunning = 0]
             noPrompt == [c EXCEPT !.runningWaiting = 0]
  <2>1. Observes(screen)
    <3>1. LullTypeOK'
      BY <1>1, <1>4 DEF ObserveRunning, Observing
    <3> QED
      BY <1>2, <1>4, <3>1 DEF ObserveRunning
  <2>2. c \in Counters
    BY <1>0, ResetsType
  <2>3. noPrompt \in Counters
    BY <2>2, ResetType
  <2>4. [c EXCEPT !.runningClear = 0] \in Counters
    BY <2>2, ResetType
  <2>5. [noPrompt EXCEPT !.runningClear = 0] \in Counters
    BY <2>3, ResetType
  <2>6. \/ Leave(c)
        \/ PromptAppears(screen, [c EXCEPT !.runningClear = 0])
        \/ Leave([noPrompt EXCEPT !.runningClear = 0])
        \/ FallsIdle(screen, noPrompt)
    BY <1>4 DEF ObserveRunning
  <2> HIDE DEF c, noPrompt
  <2> QED
    BY <2>1, <2>2, <2>3, <2>4, <2>5, <2>6, LeavesTyped, PromptAppearsType, FallsIdleType
<1>5. ASSUME NEW screen \in Captures, ObserveIdle(screen) PROVE TypeOK'
  <2> DEFINE c == [counters EXCEPT !.paneClear = 0, !.promptSeen = FALSE, !.runningClear = 0]
             noPrompt == [c EXCEPT !.runningWaiting = 0]
  <2>1. Observes(screen)
    <3>1. LullTypeOK'
      BY <1>1, <1>5 DEF ObserveIdle, Observing
    <3> QED
      BY <1>2, <1>5, <3>1 DEF ObserveIdle
  <2>2. c \in Counters
    BY <1>0, ResetsType
  <2>3. noPrompt \in Counters
    BY <2>2, ResetType
  <2>4. [c EXCEPT !.idleRunning = 0] \in Counters
    BY <2>2, ResetType
  <2>5. [noPrompt EXCEPT !.idleRunning = 0] \in Counters
    BY <2>3, ResetType
  <2>6. \/ Leave(c)
        \/ PromptAppears(screen, [c EXCEPT !.idleRunning = 0])
        \/ StartsRunning(screen, noPrompt)
        \/ Leave([noPrompt EXCEPT !.idleRunning = 0])
    BY <1>5 DEF ObserveIdle
  <2> HIDE DEF c, noPrompt
  <2> QED
    BY <2>1, <2>2, <2>3, <2>4, <2>5, <2>6, LeavesTyped, PromptAppearsType, StartsRunningType
<1>6. ASSUME NEW screen \in Captures, ObserveWaiting(screen) PROVE TypeOK'
  <2> DEFINE c == [counters EXCEPT !.runningClear = 0, !.runningWaiting = 0, !.idleRunning = 0]
  <2>1. Observes(screen)
    <3>1. LullTypeOK'
      BY <1>1, <1>6 DEF ObserveWaiting, Observing
    <3> QED
      BY <1>2, <1>6, <3>1 DEF ObserveWaiting
  <2>2. c \in Counters
    BY <1>0, ResetsType
  <2>3. [c EXCEPT !.paneClear = 0, !.promptSeen = TRUE] \in Counters
    BY <2>2, ResetsType
  <2>4. \/ Leave(c)
        \/ Leave([c EXCEPT !.paneClear = 0, !.promptSeen = TRUE])
        \/ PromptGone(screen, c)
    BY <1>6 DEF ObserveWaiting
  <2> HIDE DEF c
  <2> QED
    BY <2>1, <2>2, <2>3, <2>4, LeavesTyped, PromptGoneType
<1> QED
  BY <1>3, <1>4, <1>5, <1>6 DEF Observe

LEMMA InitType == Init => TypeOK
<1> SUFFICES ASSUME Init PROVE TypeOK
  OBVIOUS
<1>1. row \in RowState /\ snap \in RowState
  BY WrittenType DEF Init, NoSnap
<1>2. convAge \in 0 .. QuietPeriod
  BY ThresholdsAssumption DEF Init
<1>3. counters \in Counters
  BY NoCountersType DEF Init
<1>4. lull \in 0 .. LongLull
  BY LongLullType DEF Init
<1> QED
  BY <1>1, <1>2, <1>3, <1>4 DEF Init, TypeOK, NoTarget

LEMMA NextType == TypeOK /\ [Next]_vars => TypeOK'
<1> SUFFICES ASSUME TypeOK, [Next]_vars PROVE TypeOK'
  OBVIOUS
<1>0. row \in RowState /\ counters \in Counters /\ LullTypeOK
  BY DEF TypeOK, LullTypeOK
<1>1. CASE AgentStep
  BY <1>1, AgentStepType
<1>2. CASE TimePasses
  <2>1. convAge' \in 0 .. QuietPeriod
    BY <1>2, ThresholdsAssumption, LeastType DEF TimePasses, TypeOK, LeastOf
  <2>2. LeastOf(row.waitAge + 1, WaitingGrace) \in 0 .. WaitingGrace
    BY <1>0, ThresholdsAssumption, LeastType DEF RowState
  <2>3. row' \in RowState
    BY <1>0, <1>2, <2>2 DEF TimePasses, RowState
  <2> QED
    BY <1>2, <2>1, <2>3 DEF TimePasses, TypeOK, agent, tick
<1>3. CASE TickBegins
  BY <1>3 DEF TickBegins, TypeOK, transcript, agent, NoTarget
<1>9. CASE ReadStop \/ ReadTranscript
  BY <1>9, ReadingType
<1>4. CASE Observe
  BY <1>4, ObserveType
<1>5. CASE Apply
  <2>1. target \in Statuses
    BY <1>5 DEF Apply, TypeOK
  <2>2. row' \in RowState
    BY <1>0, <1>5, <2>1, WrittenType DEF Apply
  <2>3. AfterUpdate \in Counters
    BY <1>0, ResetType DEF AfterUpdate
  <2>4. LullTypeOK'
    BY <1>0, <1>5 DEF Apply, LullTypeOK
  <2> QED
    BY <1>5, <2>2, <2>3, <2>4, LeavingType DEF Apply
<1>6. CASE TickFails
  <2>1. LullTypeOK'
    BY <1>0, <1>6, LongLullType DEF TickFails, LullTypeOK
  <2> QED
    BY <1>0, <1>6, <2>1, LeavingType DEF TickFails
<1>7. CASE MonitorRestarts
  <2>1. LullTypeOK'
    BY <1>0, <1>7 DEF MonitorRestarts, LullTypeOK
  <2> QED
    BY <1>0, <1>7, <2>1, NoCountersType, LeavingType DEF MonitorRestarts
<1>8. CASE UNCHANGED vars
  BY <1>8 DEF vars, transcript, agent, tick, TypeOK
<1> QED
  BY <1>1, <1>2, <1>3, <1>4, <1>5, <1>6, <1>7, <1>8, <1>9 DEF Next, TickStep

\* Every variable keeps its type; the counters of monitorState stay below the
\* thresholds that reset them, and a tick that sleeps holds no decision.
THEOREM TypeCorrect == Spec => []TypeOK
  BY InitType, NextType, PTL DEF Spec

-----------------------------------------------------------------------------
(* What a decision of a tick tells about the tick. *)

LEMMA DecidesOnlyThere == ASSUME [Next]_vars, Decides PROVE ReadStop \/ Observe
<1>1. ASSUME UNCHANGED tick PROVE FALSE
  BY <1>1 DEF Decides, tick
<1>2. CASE AgentStep
  BY <1>1, <1>2 DEF AgentStep, Submit, Work, Ask, Approve, Cancel, Interrupt, Finish, Compact,
     ApiError, LineLands, Bookkeep, TailScrolls, Hook, Settle, MovesTo, Meanwhile
<1>3. CASE TimePasses
  BY <1>1, <1>3 DEF TimePasses
<1>4. CASE TickBegins \/ ReadTranscript \/ Apply \/ TickFails \/ MonitorRestarts
  BY <1>4 DEF TickBegins, ReadTranscript, Apply, TickFails, MonitorRestarts, Leave, Decides
<1>5. CASE UNCHANGED vars
  BY <1>1, <1>5 DEF vars
<1> QED
  BY <1>2, <1>3, <1>4, <1>5 DEF Next, TickStep

\* The branches of the tick that write a status, and what each has seen.
LEMMA Decisions ==
    ASSUME [Next]_vars, Decides
    PROVE  \E screen \in Captures \cup {NoCapture} :
             /\ capture' = screen
             /\ pc = "observe" => screen \in Captures
             /\ UNCHANGED <<row, transcript, agent, snap>>
             /\ \/ pc = "read" /\ snap.stopped /\ snap.status # "idle" /\ target' = "idle"
                \/ /\ pc = "observe" /\ snap.status = "waiting"
                   /\ target' \in {"running", "idle"}
                   /\ target' = "idle" => ~Busy(screen)
                   /\ ~TerminalShowsWaitingPrompt(screen)
                \/ /\ pc = "observe" /\ snap.status = "running"
                   /\ target' = "idle" /\ ~Busy(screen)
                \/ /\ pc = "observe" /\ snap.status = "idle"
                   /\ target' = "running" /\ screen # NoCapture
                   /\ TerminalShowsClaudeRunning(screen)
                \/ /\ pc = "observe" /\ snap.status \in {"running", "idle"}
                   /\ target' = "waiting" /\ screen # NoCapture
                   /\ TerminalShowsPermissionPrompt(screen)
<1>0. pc' = "apply" /\ pc' # "sleep"
  BY DEF Decides
<1>a. ASSUME NEW status, NEW screen, NEW next, Decide(status, screen, next)
      PROVE  target' = status /\ capture' = screen /\ snap' = snap
  BY <1>a DEF Decide
<1>b. ASSUME NEW next, Leave(next) PROVE FALSE
  BY <1>b, <1>0 DEF Leave
<1>1. CASE ReadStop
  BY <1>1, <1>a, <1>b DEF ReadStop
<1>2. ASSUME NEW screen \in Captures, ObserveLateLine(screen)
      PROVE  /\ pc = "observe" /\ snap.status = "waiting" /\ target' = "running"
             /\ capture' = screen /\ UNCHANGED <<row, transcript, agent, snap>>
             /\ ~TerminalShowsWaitingPrompt(screen)
  BY <1>2, <1>a, <1>b DEF ObserveLateLine, Observing
<1>3. ASSUME NEW screen \in Captures, ObserveRunning(screen)
      PROVE  /\ pc = "observe" /\ snap.status = "running"
             /\ capture' = screen /\ UNCHANGED <<row, transcript, agent, snap>>
             /\ \/ target' = "idle" /\ ~Busy(screen)
                \/ /\ target' = "waiting" /\ screen # NoCapture
                   /\ TerminalShowsPermissionPrompt(screen)
  BY <1>3, <1>a, <1>b DEF ObserveRunning, Observing, PromptAppears, FallsIdle
<1>4. ASSUME NEW screen \in Captures, ObserveIdle(screen)
      PROVE  /\ pc = "observe" /\ snap.status = "idle" /\ screen # NoCapture
             /\ capture' = screen /\ UNCHANGED <<row, transcript, agent, snap>>
             /\ \/ target' = "running" /\ TerminalShowsClaudeRunning(screen)
                \/ target' = "waiting" /\ TerminalShowsPermissionPrompt(screen)
  BY <1>4, <1>a, <1>b DEF ObserveIdle, Observing, PromptAppears, StartsRunning
<1>5. ASSUME NEW screen \in Captures, ObserveWaiting(screen)
      PROVE  /\ pc = "observe" /\ snap.status = "waiting"
             /\ capture' = screen /\ UNCHANGED <<row, transcript, agent, snap>>
             /\ ~TerminalShowsWaitingPrompt(screen)
             /\ target' = "running" \/ (target' = "idle" /\ ~Busy(screen))
  BY <1>5, <1>a, <1>b DEF ObserveWaiting, Observing, PromptGone
<1> QED
  BY <1>1, <1>2, <1>3, <1>4, <1>5, DecidesOnlyThere DEF Observe

-----------------------------------------------------------------------------
(* What the terminal must show for the monitor to be right.  TornScreens     *)
(* satisfies both; a prompt that is not rendered yet would violate the first. *)

ScreensOf(p) == Screens[p] \cup SteadyScreens[p]

\* A prompt that is up is on every frame.
PromptsAreRendered == \A screen \in ScreensOf("prompt") : TerminalShowsWaitingPrompt(screen)

\* The prompt's own marks are only on its frames, the status line only on
\* those of a working agent.  Prose, ellipses and blanks may be on any.
MarksAreHonest ==
    \A p \in Phases : \A screen \in ScreensOf(p) :
        /\ TerminalShowsPermissionPrompt(screen) => p = "prompt"
        /\ TerminalShowsClaudeRunning(screen) => p = "working"

LEMMA CaptureIsAScreen ==
    \A screen \in Captures : screen # NoCapture => screen \in ScreensOf(phase)
  BY DEF Captures, ScreensOf

\* A session is taken to wait only for a prompt that is up, and out of idle to
\* running only while the agent works: prose and ellipses never do.
THEOREM MarksAreEnough == ASSUME MarksAreHonest PROVE Spec => WakesOnRealSignals
<1> DEFINE Real == /\ target' = "waiting" => phase = "prompt"
                   /\ snap.status = "idle" /\ target' = "running" => phase = "working"
<1>1. TypeOK /\ [Next]_vars => (Decides => Real)
  <2> SUFFICES ASSUME TypeOK, [Next]_vars, Decides PROVE Real
    OBVIOUS
  <2>1. phase \in Phases
    BY DEF TypeOK
  <2>2. ASSUME NEW screen \in Captures \cup {NoCapture}, screen # NoCapture
        PROVE  /\ TerminalShowsPermissionPrompt(screen) => phase = "prompt"
               /\ TerminalShowsClaudeRunning(screen) => phase = "working"
    BY <2>1, <2>2, CaptureIsAScreen, MarksAreHonest DEF MarksAreHonest
  <2> QED
    BY <2>2, Decisions
<1>2. TypeOK /\ [Next]_vars => [Decides => Real]_vars
  BY <1>1
<1> QED
  BY <1>2, TypeCorrect, PTL DEF Spec, WakesOnRealSignals

-----------------------------------------------------------------------------
(* While a prompt is up, the turn that asked for it is the newest one.  The  *)
(* inductive invariant: no interruption is newer than the row, none is on    *)
(* its way, a tick that is about to read the transcript will find none, and  *)
(* one that has read it found none.                                          *)

PromptIsNewest ==
    /\ phase = "prompt" => ~lagging /\ ~row.stopped /\ (pc = "read" => ~snap.stopped)
    /\ pc = "observe" => ~snap.stopped

LEMMA PromptIsNewestInit == Init => PromptIsNewest
  BY DEF Init, PromptIsNewest

LEMMA PromptIsNewestAgent ==
    ASSUME TypeOK, PromptIsNewest, AgentStep
    PROVE  PromptIsNewest'
<1>0. row \in RowState /\ snap \in RowState
  BY DEF TypeOK
<1>1. CASE Ask
  <2>1. lagging' = FALSE
    BY <1>1, <1>0 DEF Ask, WriteConversation, TypeOK
  <2>2. /\ row'.stopped = FALSE
        /\ pc = "read" => snap'.stopped = FALSE
        /\ pc # "read" => snap' = snap
    BY <1>1, <1>0, WithTurnType DEF Ask, WriteConversation, Compared
  <2>3. pc' = pc
    BY <1>1 DEF Ask, MovesTo, Meanwhile, tick
  <2> QED
    BY <2>1, <2>2, <2>3 DEF PromptIsNewest
<1>a. ASSUME NothingWritten \/ WriteInterruption \/ \E stop \in BOOLEAN : WriteConversation(stop)
      PROVE  pc # "read" => snap' = snap
  BY <1>a DEF NothingWritten, WriteInterruption, WriteConversation, Compared
<1>2. CASE Submit \/ Approve \/ Cancel \/ Interrupt \/ Finish \/ Compact \/ ApiError
  <2>1. phase' # "prompt" /\ pc' = pc
    BY <1>2 DEF Submit, Approve, Cancel, Interrupt, Finish, Compact, ApiError, MovesTo,
       Meanwhile, tick
  <2>2. pc # "read" => snap' = snap
    BY <1>2, <1>a DEF Submit, Approve, Cancel, Interrupt, Finish, Compact, ApiError
  <2> QED
    BY <2>1, <2>2 DEF PromptIsNewest
<1>3. CASE Work
  BY <1>3, <1>a DEF Work, agent, Meanwhile, tick, PromptIsNewest
<1>4. CASE LineLands
  BY <1>4 DEF LineLands, Compared, agent, Meanwhile, tick, PromptIsNewest
<1>5. CASE Bookkeep \/ TailScrolls
  <2>1. \A r \in RowState : WithLine(r).stopped = r.stopped /\ WithoutTurns(r).stopped = FALSE
    BY WithLineType DEF WithLine, WithoutTurns, RowState
  <2>2. /\ row' \in {WithLine(row), WithoutTurns(row)}
        /\ pc = "read" => snap' \in {WithLine(snap), WithoutTurns(snap)}
        /\ pc # "read" => snap' = snap
        /\ phase' = phase /\ lagging' = lagging /\ pc' = pc
    BY <1>5 DEF Bookkeep, TailScrolls, Compared, agent, Meanwhile, tick, transcript
  <2> QED
    BY <1>0, <2>1, <2>2 DEF PromptIsNewest
<1>6. ASSUME NEW event \in HookEvents, Hook(event) PROVE PromptIsNewest'
  <2>1. row' = row \/ row'.stopped = FALSE
    BY <1>0, <1>6 DEF Hook, Written, RowState
  <2> QED
    BY <1>6, <2>1 DEF Hook, Meanwhile, tick, transcript, PromptIsNewest
<1>7. CASE Settle
  BY <1>7 DEF Settle, Meanwhile, tick, transcript, PromptIsNewest
<1> QED
  BY <1>1, <1>2, <1>3, <1>4, <1>5, <1>6, <1>7 DEF AgentStep

\* A capture ends the tick or decides, and writes nothing.
LEMMA ObserveLeavesOrDecides ==
    ASSUME Observe
    PROVE  /\ pc = "observe" /\ UNCHANGED <<row, transcript, agent>>
           /\ \/ \E next : Leave(next)
              \/ \E status, screen, next : Decide(status, screen, next)
<1>2. ASSUME NEW screen, ObserveLateLine(screen)
      PROVE  /\ pc = "observe" /\ UNCHANGED <<row, transcript, agent>>
             /\ (\E next : Leave(next)) \/ (\E status, next : Decide(status, screen, next))
  BY <1>2 DEF ObserveLateLine, Observing
<1>3. ASSUME NEW screen, ObserveRunning(screen)
      PROVE  /\ pc = "observe" /\ UNCHANGED <<row, transcript, agent>>
             /\ (\E next : Leave(next)) \/ (\E status, next : Decide(status, screen, next))
  BY <1>3 DEF ObserveRunning, Observing, PromptAppears, FallsIdle
<1>4. ASSUME NEW screen, ObserveIdle(screen)
      PROVE  /\ pc = "observe" /\ UNCHANGED <<row, transcript, agent>>
             /\ (\E next : Leave(next)) \/ (\E status, next : Decide(status, screen, next))
  BY <1>4 DEF ObserveIdle, Observing, PromptAppears, StartsRunning
<1>5. ASSUME NEW screen, ObserveWaiting(screen)
      PROVE  /\ pc = "observe" /\ UNCHANGED <<row, transcript, agent>>
             /\ (\E next : Leave(next)) \/ (\E status, next : Decide(status, screen, next))
  BY <1>5 DEF ObserveWaiting, Observing, PromptGone
<1> QED
  BY <1>2, <1>3, <1>4, <1>5 DEF Observe

LEMMA PromptIsNewestNext ==
    TypeOK /\ PromptIsNewest /\ [Next]_vars => PromptIsNewest'
<1> SUFFICES ASSUME TypeOK, PromptIsNewest, [Next]_vars PROVE PromptIsNewest'
  OBVIOUS
<1>0. row \in RowState
  BY DEF TypeOK
<1>1. CASE AgentStep
  BY <1>1, PromptIsNewestAgent
<1>2. CASE TimePasses
  <2>1. row'.stopped = row.stopped
    BY <1>0, <1>2 DEF TimePasses, RowState
  <2> QED
    BY <1>2, <2>1 DEF TimePasses, agent, tick, PromptIsNewest
<1>3. CASE TickBegins
  BY <1>3 DEF TickBegins, transcript, agent, PromptIsNewest
<1>8. CASE ReadTranscript
  <2>1. ~snap'.stopped /\ pc' = "observe"
    BY <1>8, AsReadType DEF ReadTranscript, TypeOK
  <2> QED
    BY <1>8, <2>1 DEF ReadTranscript, transcript, agent, PromptIsNewest
<1>4. CASE ReadStop \/ Observe
  <2>1. UNCHANGED <<row, transcript, agent>>
    BY <1>4, ObserveLeavesOrDecides DEF ReadStop
  <2>2. pc' \in {"sleep", "apply"}
    BY <1>4, ObserveLeavesOrDecides DEF ReadStop, Leave, Decide
  <2> QED
    BY <2>1, <2>2 DEF transcript, agent, PromptIsNewest
<1>5. CASE Apply
  <2>1. pc' = "sleep"
    BY <1>5 DEF Apply, Leave
  <2>2. row' = row \/ row'.stopped = FALSE
    BY <1>5 DEF Apply, Written
  <2> QED
    BY <1>5, <2>1, <2>2 DEF Apply, transcript, agent, PromptIsNewest
<1>6. CASE TickFails \/ MonitorRestarts
  BY <1>6 DEF TickFails, MonitorRestarts, Leave, transcript, agent, PromptIsNewest
<1>7. CASE UNCHANGED vars
  BY <1>7 DEF vars, transcript, agent, tick, PromptIsNewest
<1> QED
  BY <1>1, <1>2, <1>3, <1>4, <1>5, <1>6, <1>7, <1>8 DEF Next, TickStep

\* While a prompt is up and on every frame, the monitor never takes the session
\* out of waiting; only a capture that failed may mislead it.
THEOREM PromptKeepsWaiting == ASSUME PromptsAreRendered PROVE Spec => StaysWaitingWhilePrompted
<1> DEFINE Kept == snap.status = "waiting" /\ phase = "prompt" =>
                     capture' = NoCapture /\ ~snap.stopped
<1>1. TypeOK /\ PromptIsNewest /\ [Next]_vars => (Decides => Kept)
  <2> SUFFICES ASSUME PromptIsNewest, [Next]_vars, Decides,
                      snap.status = "waiting", phase = "prompt"
               PROVE  capture' = NoCapture /\ ~snap.stopped
    OBVIOUS
  <2>1. ~snap.stopped
    BY Decisions DEF PromptIsNewest
  <2>2. ASSUME NEW screen \in Captures \cup {NoCapture}, ~TerminalShowsWaitingPrompt(screen)
        PROVE  screen = NoCapture
    BY <2>2, CaptureIsAScreen, PromptsAreRendered DEF PromptsAreRendered
  <2> QED
    BY <2>1, <2>2, Decisions
<1>2. TypeOK /\ PromptIsNewest /\ [Next]_vars =>
        [Decides /\ snap.status = "waiting" /\ phase = "prompt" =>
           capture' = NoCapture /\ ~snap.stopped]_vars
  BY <1>1
<1> QED
  BY <1>2, PromptIsNewestInit, PromptIsNewestNext, TypeCorrect, PTL
  DEF Spec, StaysWaitingWhilePrompted

-----------------------------------------------------------------------------
(* The debounce.  The inductive invariant: the counters that lead to idle    *)
(* have counted no capture before the last sign of work; or that sign was    *)
(* the capture's own, missed by its tick, and then the next transcript that  *)
(* is read has it fresh.                                                     *)

\* A turn missed by the tick before is still within the quiet period when this
\* one reads the transcript.
TurnIsFresh ==
    \/ pc = "sleep" /\ (convAge = 0 \/ (~ticked /\ convAge <= 1))
    \/ pc = "read" /\ convAge <= 1
    \/ pc = "observe" /\ fresh

Counted == counters.runningClear <= lull /\ counters.paneClear <= lull

Debounced ==
    /\ counters.paneClear > 0 => counters.promptSeen
    /\ Counted \/ (lull = 0 /\ TurnIsFresh)

\* A step that leaves the counts at 0, or the lull long, keeps it.
LEMMA DebouncedAnew ==
    ASSUME TypeOK', counters'.paneClear = 0, counters'.runningClear = 0
    PROVE  Debounced'
<1>1. lull' \in Nat
  BY LongLullType DEF TypeOK
<1> QED
  BY <1>1 DEF Debounced, Counted

LEMMA DebouncedLong ==
    ASSUME TypeOK', counters'.paneClear > 0 => counters'.promptSeen, lull' = LongLull
    PROVE  Debounced'
<1>1. counters'.runningClear <= LongLull /\ counters'.paneClear <= LongLull
  BY LongLullType, ThresholdsAssumption DEF TypeOK, Counters
<1> QED
  BY <1>1 DEF Debounced, Counted

\* The agent's steps only make the transcript fresher, or lose its turns.
LEMMA DebouncedAgent ==
    ASSUME TypeOK, Debounced, AgentStep
    PROVE  Debounced'
<1>0. convAge \in Nat /\ counters \in Counters
  BY ThresholdsAssumption DEF TypeOK
<1>1. CASE TailScrolls
  <2>1. counters' = counters /\ lull' = LongLull
    BY <1>1 DEF TailScrolls, tick
  <2> QED
    BY <2>1, AgentStepType, DebouncedLong DEF Debounced
<1>2. CASE ~TailScrolls
  <2>1. Meanwhile
    BY <1>2 DEF AgentStep, Submit, Work, Ask, Approve, Cancel, Interrupt, Finish, Compact,
       ApiError, LineLands, Bookkeep, Hook, Settle, MovesTo
  <2>2. ASSUME NEW stop \in BOOLEAN, WriteConversation(stop) PROVE convAge' = 0
    BY <2>2 DEF WriteConversation
  <2>3. WriteInterruption => convAge' \in {0, convAge}
    BY <2>2 DEF WriteInterruption
  <2>4. NothingWritten => convAge' = convAge
    BY DEF NothingWritten, transcript
  <2>5. convAge' \in 0 .. convAge
    <3>1. CASE Submit \/ Work \/ Ask \/ Approve \/ Cancel \/ Interrupt \/ Finish \/ Compact
               \/ ApiError
      <4>1. convAge' \in {0, convAge}
        BY <3>1, <2>2, <2>3, <2>4 DEF Submit, Work, Ask, Approve, Cancel, Interrupt, Finish,
           Compact, ApiError
      <4> QED
        BY <1>0, <4>1
    <3>2. CASE LineLands
      BY <3>2 DEF LineLands
    <3>3. CASE Bookkeep \/ (\E event \in HookEvents : Hook(event)) \/ Settle
      <4>1. convAge' = convAge
        BY <3>3 DEF Bookkeep, Hook, Settle, transcript
      <4> QED
        BY <1>0, <4>1
    <3> QED
      BY <1>2, <3>1, <3>2, <3>3 DEF AgentStep
  <2>6. TurnIsFresh => TurnIsFresh'
    BY <1>0, <2>1, <2>5 DEF TurnIsFresh, Meanwhile, tick
  <2> QED
    BY <2>1, <2>6 DEF Debounced, Counted, Meanwhile, tick
<1> QED
  BY <1>1, <1>2

\* What a decision to write idle has behind it.
AfterLull ==
    lull >= (IF snap.status = "running" THEN RunningIdleThreshold
             ELSE WaitingIdleThreshold) - 1

\* A capture with no sign the tick can see, when n counts went before: one more
\* is counted, unless a turn was written since the transcript was read.
LEMMA QuietCapture ==
    ASSUME TypeOK, Debounced, pc = "observe", UNCHANGED transcript,
           NEW screen, screen # NoCapture, Weighs(screen), ~Busy(screen)
    PROVE  /\ Counted
           /\ \/ lull' = 0 /\ convAge' = 0
              \/ \A n \in Nat : n <= lull /\ n + 1 <= LongLull => n + 1 <= lull'
<1>1. Counted
  BY DEF Debounced, TurnIsFresh, Busy
<1>2. lull' = IF convAge = 0 THEN 0 ELSE LeastOf(lull + 1, LongLull)
  BY DEF Weighs, LullAfter, Busy
<1>3. lull \in Nat
  BY LongLullType DEF TypeOK
<1> QED
  BY <1>1, <1>2, <1>3, LongLullType DEF LeastOf, transcript

LEMMA DebouncedRunning ==
    ASSUME TypeOK, TypeOK', Debounced, NEW screen, ObserveRunning(screen)
    PROVE  Debounced' /\ (pc' = "apply" /\ target' = "idle" => AfterLull)
<1> DEFINE c == [counters EXCEPT !.paneClear = 0, !.promptSeen = FALSE, !.idleRunning = 0]
           noPrompt == [c EXCEPT !.runningWaiting = 0]
<1>0. /\ counters \in Counters
      /\ pc = "observe" /\ snap.status = "running" /\ UNCHANGED transcript
      /\ Weighs(screen)
  BY DEF ObserveRunning, Observing, TypeOK
<1>1. CASE screen = NoCapture /\ Leave(c)
  <2>1. counters'.paneClear = 0 /\ lull' = LongLull /\ pc' = "sleep"
    BY <1>0, <1>1 DEF Leave, Counters, Weighs
  <2> QED
    BY <2>1, DebouncedLong
<1>2. CASE PromptAppears(screen, [c EXCEPT !.runningClear = 0])
  <2>1. counters'.paneClear = 0 /\ counters'.runningClear = 0
    BY <1>0, <1>2 DEF PromptAppears, Leave, Decide, Counters
  <2>2. pc' = "apply" => target' = "waiting"
    BY <1>2 DEF PromptAppears, Leave, Decide
  <2> QED
    BY <2>1, <2>2, DebouncedAnew
<1>3. CASE Leave([noPrompt EXCEPT !.runningClear = 0])
  <2>1. counters'.paneClear = 0 /\ counters'.runningClear = 0 /\ pc' = "sleep"
    BY <1>0, <1>3 DEF Leave, Counters
  <2> QED
    BY <2>1, DebouncedAnew
<1>4. CASE screen # NoCapture /\ ~Busy(screen) /\ FallsIdle(screen, noPrompt)
  <2> DEFINE n == counters.runningClear
  <2>0. n \in 0 .. RunningIdleThreshold - 1 /\ noPrompt.runningClear = n /\ lull \in Nat
    BY <1>0, LongLullType DEF Counters, TypeOK
  <2>1. /\ Counted
        /\ \/ lull' = 0 /\ convAge' = 0
           \/ n <= lull /\ n + 1 <= LongLull => n + 1 <= lull'
    BY <1>0, <1>4, <2>0, QuietCapture, ThresholdsAssumption
  <2>2. CASE n + 1 < RunningIdleThreshold
    <3>1. Leave([noPrompt EXCEPT !.runningClear = @ + 1])
      BY <1>4, <2>0, <2>2 DEF FallsIdle
    <3>2. counters'.runningClear = n + 1 /\ counters'.paneClear = 0 /\ pc' = "sleep"
      BY <1>0, <3>1 DEF Leave, Counters
    <3>3. lull' \in Nat /\ n + 1 <= LongLull
      BY <2>0, <2>2, LongLullType, ThresholdsAssumption DEF TypeOK
    <3> QED
      BY <2>0, <2>1, <3>2, <3>3 DEF Debounced, Counted, TurnIsFresh
  <2>3. CASE ~(n + 1 < RunningIdleThreshold)
    <3>1. Decide("idle", screen, [noPrompt EXCEPT !.runningClear = 0])
      BY <1>4, <2>0, <2>3 DEF FallsIdle
    <3>2. counters'.runningClear = 0 /\ counters'.paneClear = 0
      BY <1>0, <3>1 DEF Decide, Counters
    <3>3. AfterLull
      BY <1>0, <2>0, <2>1, <2>3, ThresholdsAssumption DEF AfterLull, Counted
    <3> QED
      BY <3>2, <3>3, DebouncedAnew
  <2> QED
    BY <2>2, <2>3
<1> QED
  BY <1>1, <1>2, <1>3, <1>4 DEF ObserveRunning

LEMMA DebouncedWaiting ==
    ASSUME TypeOK, TypeOK', Debounced, NEW screen, ObserveWaiting(screen)
    PROVE  Debounced' /\ (pc' = "apply" /\ target' = "idle" => AfterLull)
<1> DEFINE c == [counters EXCEPT !.runningClear = 0, !.runningWaiting = 0, !.idleRunning = 0]
           over == [c EXCEPT !.paneClear = 0, !.promptSeen = FALSE]
<1>0. /\ counters \in Counters
      /\ pc = "observe" /\ snap.status = "waiting" /\ UNCHANGED transcript
      /\ Weighs(screen)
  BY DEF ObserveWaiting, Observing, TypeOK
<1>1. CASE screen = NoCapture /\ Leave(c)
  <2>1. /\ counters'.paneClear = counters.paneClear
        /\ counters'.promptSeen = counters.promptSeen
        /\ lull' = LongLull /\ pc' = "sleep"
    BY <1>0, <1>1 DEF Leave, Counters, Weighs
  <2> QED
    BY <2>1, DebouncedLong DEF Debounced
<1>2. CASE Leave([c EXCEPT !.paneClear = 0, !.promptSeen = TRUE])
  <2>1. counters'.paneClear = 0 /\ counters'.runningClear = 0 /\ pc' = "sleep"
    BY <1>0, <1>2 DEF Leave, Counters
  <2> QED
    BY <2>1, DebouncedAnew
<1>3. CASE ~c.promptSeen /\ Leave(c)
  <2>1. counters.paneClear = 0
    BY <1>0, <1>3, ThresholdsAssumption DEF Debounced, Counters
  <2>2. counters'.paneClear = 0 /\ counters'.runningClear = 0 /\ pc' = "sleep"
    BY <1>0, <1>3, <2>1 DEF Leave, Counters
  <2> QED
    BY <2>2, DebouncedAnew
<1>4. CASE Decide("running", screen, over)
  <2>1. counters'.paneClear = 0 /\ counters'.runningClear = 0 /\ target' = "running"
    BY <1>0, <1>4 DEF Decide, Counters
  <2> QED
    BY <2>1, DebouncedAnew
<1>5. CASE screen # NoCapture /\ c.promptSeen /\ ~Busy(screen) /\ PromptGone(screen, c)
  <2> DEFINE n == counters.paneClear
  <2>0. n \in 0 .. WaitingIdleThreshold - 1 /\ c.paneClear = n /\ lull \in Nat
    BY <1>0, LongLullType DEF Counters, TypeOK
  <2>1. /\ Counted
        /\ \/ lull' = 0 /\ convAge' = 0
           \/ n <= lull /\ n + 1 <= LongLull => n + 1 <= lull'
    BY <1>0, <1>5, <2>0, QuietCapture, ThresholdsAssumption
  <2>2. CASE n + 1 < WaitingIdleThreshold
    <3>1. Leave([c EXCEPT !.paneClear = @ + 1])
      BY <1>5, <2>0, <2>2 DEF PromptGone
    <3>2. /\ counters'.runningClear = 0 /\ counters'.paneClear = n + 1
          /\ counters'.promptSeen /\ pc' = "sleep"
      BY <1>0, <1>5, <3>1 DEF Leave, Counters
    <3>3. lull' \in Nat /\ n + 1 <= LongLull
      BY <2>0, <2>2, LongLullType, ThresholdsAssumption DEF TypeOK
    <3> QED
      BY <2>0, <2>1, <3>2, <3>3 DEF Debounced, Counted, TurnIsFresh
  <2>3. CASE ~(n + 1 < WaitingIdleThreshold)
    <3>1. Decide("idle", screen, over)
      BY <1>5, <2>0, <2>3 DEF PromptGone
    <3>2. counters'.runningClear = 0 /\ counters'.paneClear = 0
      BY <1>0, <3>1 DEF Decide, Counters
    <3>3. AfterLull
      BY <1>0, <2>0, <2>1, <2>3, ThresholdsAssumption DEF AfterLull, Counted
    <3> QED
      BY <3>2, <3>3, DebouncedAnew
  <2> QED
    BY <2>2, <2>3
<1> QED
  BY <1>1, <1>2, <1>3, <1>4, <1>5 DEF ObserveWaiting, PromptGone

LEMMA DebouncedObserve ==
    ASSUME TypeOK, TypeOK', Debounced, Observe
    PROVE  Debounced' /\ (pc' = "apply" /\ target' = "idle" => AfterLull)
<1>0. counters \in Counters
  BY DEF TypeOK
<1>1. ASSUME NEW screen, ObserveLateLine(screen)
      PROVE  Debounced' /\ ~(pc' = "apply" /\ target' = "idle")
  <2>1. counters' = counters /\ lull' = LongLull /\ ~(pc' = "apply" /\ target' = "idle")
    BY <1>1 DEF ObserveLateLine, Leave, Decide
  <2> QED
    BY <2>1, DebouncedLong DEF Debounced
<1>2. ASSUME NEW screen, ObserveIdle(screen)
      PROVE  Debounced' /\ ~(pc' = "apply" /\ target' = "idle")
  <2>1. counters'.paneClear = 0 /\ counters'.runningClear = 0
    BY <1>0, <1>2 DEF ObserveIdle, PromptAppears, StartsRunning, Leave, Decide, Counters
  <2>2. ~(pc' = "apply" /\ target' = "idle")
    BY <1>2 DEF ObserveIdle, PromptAppears, StartsRunning, Leave, Decide
  <2> QED
    BY <2>1, <2>2, DebouncedAnew
<1> QED
  BY <1>1, <1>2, DebouncedRunning, DebouncedWaiting DEF Observe

LEMMA DebouncedNext ==
    ASSUME QuietPeriod > 1, TypeOK, TypeOK', Debounced, [Next]_vars
    PROVE  Debounced'
<1>0. convAge \in Nat /\ counters \in Counters
  BY ThresholdsAssumption DEF TypeOK
<1>1. CASE AgentStep
  BY <1>1, DebouncedAgent
<1>2. CASE TimePasses
  <2>1. /\ pc = "sleep" /\ pc' = "sleep" /\ ticked /\ ~ticked'
        /\ counters' = counters /\ lull' = lull
    BY <1>2 DEF TimePasses, tick
  <2>2. convAge = 0 => convAge' = 1
    BY <1>2, ThresholdsAssumption DEF TimePasses, LeastOf
  <2> QED
    BY <2>1, <2>2 DEF Debounced, Counted, TurnIsFresh
<1>3. CASE TickBegins
  BY <1>0, <1>3 DEF TickBegins, transcript, Debounced, Counted, TurnIsFresh
<1>4. CASE ReadTranscript
  <2>1. convAge <= 1 => fresh'
    <3>1. convAge <= 1 => ConversationRecentlyWritten
      BY <1>0, ThresholdsAssumption DEF ConversationRecentlyWritten
    <3>2. fresh' = ConversationRecentlyWritten
      BY <1>4 DEF ReadTranscript
    <3> QED
      BY <3>1, <3>2
  <2> QED
    BY <1>4, <2>1 DEF ReadTranscript, Debounced, Counted, TurnIsFresh
<1>5. CASE Observe
  BY <1>5, DebouncedObserve
<1>6. CASE ReadStop \/ TickFails
  <2>1. counters' = counters /\ lull' = LongLull
    BY <1>6 DEF ReadStop, TickFails, Leave, Decide
  <2> QED
    BY <2>1, DebouncedLong DEF Debounced
<1>7. CASE Apply
  <2>1. pc = "apply" /\ lull' = lull /\ counters' = AfterUpdate
    BY <1>7 DEF Apply, Leave
  <2>2. Counted
    BY <2>1 DEF Debounced, TurnIsFresh
  <2>3. AfterUpdate = counters \/ AfterUpdate = [counters EXCEPT !.paneClear = 0]
    BY DEF AfterUpdate
  <2>4. CASE counters' = counters
    BY <2>1, <2>2, <2>4 DEF Debounced, Counted
  <2>5. CASE counters' = [counters EXCEPT !.paneClear = 0]
    <3>1. counters'.paneClear = 0 /\ counters'.runningClear = counters.runningClear
      BY <1>0, <2>5 DEF Counters
    <3>2. 0 <= lull
      BY LongLullType DEF TypeOK
    <3> QED
      BY <2>1, <2>2, <3>1, <3>2 DEF Debounced, Counted
  <2> QED
    BY <2>1, <2>3, <2>4, <2>5
<1>8. CASE MonitorRestarts
  <2>1. counters'.paneClear = 0 /\ counters'.runningClear = 0
    BY <1>8 DEF MonitorRestarts, Leave, NoCounters
  <2> QED
    BY <2>1, DebouncedAnew
<1>9. CASE UNCHANGED vars
  BY <1>9 DEF vars, tick, transcript, Debounced, Counted, TurnIsFresh
<1> QED
  BY <1>1, <1>2, <1>3, <1>4, <1>5, <1>6, <1>7, <1>8, <1>9 DEF Next, TickStep

\* Whatever the terminal shows and however the agent's turns fall between a
\* tick's two reads: no session is written idle for what the terminal shows
\* unless the captures before showed no sign of work, as many in a row as the
\* debounce asks for (captureRunningIdleThreshold, waitingIdleClearThreshold).
\* The quiet period must outlast the second between two ticks: a turn the tick
\* misses is only seen by the next one.
THEOREM IdleNeedsALull == ASSUME QuietPeriod > 1 PROVE Spec => IdleOnlyAfterLull
<1>1. Init => Debounced
  <2> SUFFICES ASSUME Init PROVE Debounced
    OBVIOUS
  <2>1. counters.paneClear = 0 /\ counters.runningClear = 0 /\ lull \in Nat
    BY LongLullType DEF Init, NoCounters
  <2> QED
    BY <2>1 DEF Debounced, Counted
<1>2. TypeOK /\ TypeOK' /\ Debounced /\ [Next]_vars => Debounced'
  BY DebouncedNext
<1>3. TypeOK /\ TypeOK' /\ Debounced /\ [Next]_vars =>
        (Decides /\ target' = "idle" /\ ~snap.stopped => AfterLull)
  <2> SUFFICES ASSUME TypeOK, TypeOK', Debounced, [Next]_vars,
                      Decides, target' = "idle", ~snap.stopped
               PROVE  AfterLull
    OBVIOUS
  <2>1. Observe
    BY DecidesOnlyThere DEF ReadStop
  <2> QED
    BY <2>1, DebouncedObserve DEF Decides
<1>4. TypeOK /\ TypeOK' /\ Debounced /\ [Next]_vars =>
        [Decides /\ target' = "idle" /\ ~snap.stopped =>
           lull >= (IF snap.status = "running" THEN RunningIdleThreshold
                    ELSE WaitingIdleThreshold) - 1]_vars
  BY <1>3 DEF AfterLull
<1> QED
  BY <1>1, <1>2, <1>4, TypeCorrect, PTL DEF Spec, IdleOnlyAfterLull

-----------------------------------------------------------------------------
(* ClaudeSync takes only steps SessionLifecycle allows, for any thresholds, *)
(* screens and hooks.                                                       *)

-----------------------------------------------------------------------------
(* What the transcript gains leaves the status alone. *)

LEMMA LinesKeepStatus ==
    \A r \in RowState :
        /\ WithLine(r).status = r.status
        /\ \A stop \in BOOLEAN : WithTurn(r, stop).status = r.status
        /\ WithoutTurns(r).status = r.status
        /\ WithStamp(r).status = r.status
        /\ WithLanded(r).status = r.status
<1> TAKE r \in RowState
<1>1. WithLine(r).status = r.status /\ WithLine(r) \in RowState
  BY WithLineType DEF WithLine, RowState
<1> QED
  BY <1>1 DEF WithTurn, WithoutTurns, WithStamp, WithLanded, RowState

\* The row and a tick's copy of it have the status they had.
KeepsStatuses ==
    /\ row'.status = row.status
    /\ snap'.status = snap.status

LEMMA WritesKeepStatus ==
    ASSUME TypeOK
    PROVE  /\ \A stop \in BOOLEAN : WriteConversation(stop) => KeepsStatuses
           /\ WriteInterruption => KeepsStatuses
           /\ NothingWritten => KeepsStatuses
<1>1. row \in RowState /\ snap \in RowState
  BY DEF TypeOK
<1>2. ASSUME NEW stop \in BOOLEAN, WriteConversation(stop) PROVE KeepsStatuses
  BY <1>1, <1>2, LinesKeepStatus DEF WriteConversation, Compared, KeepsStatuses
<1>3. ASSUME WriteInterruption PROVE KeepsStatuses
  BY <1>1, <1>2, <1>3, LinesKeepStatus DEF WriteInterruption, Compared, KeepsStatuses
<1>4. ASSUME NothingWritten PROVE KeepsStatuses
  BY <1>4 DEF NothingWritten, KeepsStatuses
<1> QED
  BY <1>2, <1>3, <1>4

\* Of the steps of the agent and its user only a hook changes a status.
LEMMA AgentStepStatus ==
    ASSUME TypeOK, AgentStep
    PROVE  /\ UNCHANGED <<pc, target>>
           /\ KeepsStatuses \/ (row'.status \in Statuses /\ UNCHANGED snap)
<1>0. row \in RowState /\ snap \in RowState
  BY DEF TypeOK
<1>1. CASE Submit \/ Work \/ Ask \/ Approve \/ Cancel \/ Interrupt \/ Finish \/ Compact \/ ApiError
  BY <1>1, WritesKeepStatus
     DEF Submit, Work, Ask, Approve, Cancel, Interrupt, Finish, Compact, ApiError, MovesTo,
         Meanwhile, tick
<1>2. CASE LineLands \/ Bookkeep \/ TailScrolls
  BY <1>0, <1>2, LinesKeepStatus
     DEF LineLands, Bookkeep, TailScrolls, Compared, KeepsStatuses, Meanwhile, tick
<1>3. CASE \E event \in HookEvents : Hook(event)
  <2>1. PICK event \in HookEvents : Hook(event)
    BY <1>3
  <2>2. FromEvent[event] \in Statuses
    BY HookEventsAssumption, FromEventType
  <2>3. Written(FromEvent[event]).status = FromEvent[event]
    BY DEF Written
  <2> QED
    BY <1>0, <2>1, <2>2, <2>3 DEF Hook, RowState, Meanwhile, tick
<1>4. CASE Settle
  BY <1>4 DEF Settle, KeepsStatuses, Meanwhile, tick
<1> QED
  BY <1>1, <1>2, <1>3, <1>4 DEF AgentStep

-----------------------------------------------------------------------------
(* A tick never writes the status it listed. *)

TargetIsNew == pc = "apply" => target # snap.status

LEMMA NextTargetIsNew == TypeOK /\ TargetIsNew /\ [Next]_vars => TargetIsNew'
<1> SUFFICES ASSUME TypeOK, TargetIsNew, [Next]_vars PROVE TargetIsNew'
  OBVIOUS
<1>1. CASE AgentStep
  BY <1>1, AgentStepStatus DEF TargetIsNew, KeepsStatuses
<1>2. CASE Decides
  <2>1. UNCHANGED snap /\ target' # snap.status
    BY <1>2, Decisions
  <2> QED
    BY <2>1 DEF TargetIsNew
<1>3. CASE ~Decides /\ (ReadStop \/ Observe)
  BY <1>3, ObserveLeavesOrDecides DEF Decides, ReadStop, TargetIsNew
<1>4. CASE TickBegins \/ ReadTranscript \/ Apply \/ TickFails \/ MonitorRestarts
  BY <1>4 DEF TickBegins, ReadTranscript, Apply, TickFails, MonitorRestarts, Leave, TargetIsNew
<1>5. CASE TimePasses \/ UNCHANGED vars
  BY <1>5 DEF TimePasses, vars, tick, TargetIsNew
<1> QED
  BY <1>1, <1>2, <1>3, <1>4, <1>5 DEF Next, TickStep

-----------------------------------------------------------------------------
(* The steps. *)

TheRows == [k \in {"session"} |-> AsRow(row)]

Seen == [k \in (IF pc = "sleep" THEN {} ELSE {"session"}) |-> AsRow(snap)]

\* Nothing the lifecycle sees.
LEMMA StepStutters ==
    ASSUME KeepsStatuses, UNCHANGED pc
    PROVE  UNCHANGED Lifecycle!vars
<1>1. TheRows' = TheRows
  BY DEF TheRows, AsRow, KeepsStatuses
<1>2. Seen' = Seen
  BY DEF Seen, AsRow, KeepsStatuses
<1> QED
  BY <1>1, <1>2 DEF Lifecycle!vars, TheRows, Seen

\* A hook's write.
LEMMA StepReports ==
    ASSUME row'.status \in Statuses, UNCHANGED <<snap, pc>>
    PROVE  Lifecycle!Next
<1>1. TheRows' = Lifecycle!UpsertSessionStatus(
                    TheRows, "session", row'.status, row'.status = "waiting")
  BY DEF TheRows, AsRow, Lifecycle!UpsertSessionStatus
<1>2. Seen' = Seen
  BY DEF Seen
<1>3. Lifecycle!Report("session", row'.status)
  BY <1>1, <1>2 DEF Lifecycle!Report, TheRows, Seen
<1> QED
  BY <1>3 DEF Lifecycle!Next, Lifecycle!Statuses, Statuses

\* The end of a tick, with or without a write.
LEMMA TickIsForgotten ==
    ASSUME NEW next, Leave(next), UNCHANGED row
    PROVE  Lifecycle!Next
<1>1. Seen' = Lifecycle!EmptyTable
  BY DEF Leave, Seen, Lifecycle!EmptyTable
<1>2. TheRows' = TheRows
  BY DEF TheRows
<1>3. Lifecycle!Forget
  BY <1>1, <1>2 DEF Lifecycle!Forget, Seen, TheRows
<1> QED
  BY <1>3 DEF Lifecycle!Next

LEMMA DecidingStutters ==
    ASSUME NEW status, NEW screen, NEW next, pc # "sleep", Decide(status, screen, next),
           UNCHANGED row
    PROVE  UNCHANGED Lifecycle!vars
<1>1. TheRows' = TheRows
  BY DEF TheRows
<1>2. Seen' = Seen
  BY DEF Seen, Decide
<1> QED
  BY <1>1, <1>2 DEF Lifecycle!vars, TheRows, Seen

\* The status is all the lifecycle sees of the copy.
LEMMA ReadingStutters ==
    ASSUME TypeOK, ReadTranscript
    PROVE  UNCHANGED Lifecycle!vars
<1>1. TheRows' = TheRows
  BY DEF TheRows, ReadTranscript
<1>2. snap'.status = snap.status
  BY AsReadType DEF ReadTranscript, TypeOK
<1>3. Seen' = Seen
  BY <1>2 DEF Seen, AsRow, ReadTranscript
<1> QED
  BY <1>1, <1>3 DEF Lifecycle!vars, TheRows, Seen

\* The swap: the one conclusion of the tick.
LEMMA ApplyConcludes ==
    ASSUME TypeOK, TargetIsNew, Apply
    PROVE  Lifecycle!Next
<1>1. /\ row \in RowState /\ snap \in RowState /\ pc = "apply"
      /\ target \in Statuses \ {snap.status}
  BY DEF TypeOK, TargetIsNew, Apply
<1>2. Seen = [k \in {"session"} |-> AsRow(snap)] /\ Seen["session"] = AsRow(snap)
  BY <1>1 DEF Seen
<1>3. Seen' = Lifecycle!DeleteSession(Seen, "session")
  BY <1>2 DEF Apply, Leave, Seen, Lifecycle!DeleteSession
<1>4. target \in Lifecycle!SyncTargets(Seen["session"])
  BY <1>1, <1>2 DEF AsRow, Lifecycle!SyncTargets, Lifecycle!ClaudeTargets, Lifecycle!Statuses,
                    Statuses
<1>5. TheRows' = Lifecycle!UpdateSessionStatusIfUnchanged(
                    TheRows, "session", target, target = "waiting", Seen["session"].status)
  <2>1. Seen["session"].status = snap.status
    BY <1>2 DEF AsRow
  <2>2. CASE row.status = snap.status
    <3>1. row'.status = target
      BY <2>2 DEF Apply, Written
    <3> QED
      BY <2>1, <2>2, <3>1 DEF TheRows, AsRow, Lifecycle!UpdateSessionStatusIfUnchanged
  <2>3. CASE row.status # snap.status
    BY <2>1, <2>3 DEF Apply, TheRows, AsRow, Lifecycle!UpdateSessionStatusIfUnchanged
  <2> QED
    BY <2>2, <2>3
<1>6. "session" \in DOMAIN Seen
  BY <1>2
<1>7. Lifecycle!Conclude("session", target)
  BY <1>3, <1>4, <1>5, <1>6 DEF Lifecycle!Conclude, TheRows, Seen
<1> QED
  BY <1>1, <1>7 DEF Lifecycle!Next, Lifecycle!Statuses, Statuses

LEMMA NextWithinLifecycle ==
    TypeOK /\ TargetIsNew /\ [Next]_vars => [Lifecycle!Next]_(Lifecycle!vars)
<1> SUFFICES ASSUME TypeOK, TargetIsNew, [Next]_vars
             PROVE  Lifecycle!Next \/ UNCHANGED Lifecycle!vars
  OBVIOUS
<1>1. CASE AgentStep
  BY <1>1, AgentStepStatus, StepStutters, StepReports
<1>2. CASE TimePasses
  <2>1. row'.status = row.status
    <3>1. row \in RowState
      BY DEF TypeOK
    <3> QED
      BY <1>2, <3>1 DEF TimePasses, RowState
  <2> QED
    BY <1>2, <2>1, StepStutters DEF TimePasses, tick, KeepsStatuses
<1>3. CASE TickBegins
  <2>1. Seen' = TheRows /\ TheRows' = TheRows
    BY <1>3 DEF TickBegins, Seen, TheRows
  <2>2. Lifecycle!Look
    BY <2>1 DEF Lifecycle!Look, Seen, TheRows
  <2> QED
    BY <2>2 DEF Lifecycle!Next
<1>4. CASE ReadStop \/ Observe
  BY <1>4, ObserveLeavesOrDecides, TickIsForgotten, DecidingStutters DEF ReadStop
<1>8. CASE ReadTranscript
  BY <1>8, ReadingStutters
<1>5. CASE Apply
  BY <1>5, ApplyConcludes
<1>6. CASE TickFails \/ MonitorRestarts
  BY <1>6, TickIsForgotten DEF TickFails, MonitorRestarts
<1>7. CASE UNCHANGED vars
  BY <1>7, StepStutters DEF vars, tick, KeepsStatuses
<1> QED
  BY <1>1, <1>2, <1>3, <1>4, <1>5, <1>6, <1>7, <1>8 DEF Next, TickStep

\* Whatever the transcript and the terminal show, the monitor changes a Claude
\* session's status only as SessionLifecycle allows.
THEOREM ClaudeSyncWithinLifecycle == Spec => StaysWithinLifecycle
<1>1. Init => TargetIsNew
  BY DEF Init, TargetIsNew
<1> QED
  BY <1>1, NextTargetIsNew, NextWithinLifecycle, TypeCorrect, PTL
     DEF Spec, StaysWithinLifecycle

-----------------------------------------------------------------------------
(* What is shown once for a session that has settled is shown for good:     *)
(* PromptIsShown, WorkIsShown and IdleIsShown without their fairness.       *)

\* What the terminal must show of a settled session for its status to stay: a
\* prompt on every frame, a sign of work on every frame; when it is idle neither
\* the live status line nor a prompt (an ellipsis may be there).
SteadyIsHonest ==
    /\ \A screen \in SteadyScreens["prompt"] : TerminalShowsWaitingPrompt(screen)
    /\ \A screen \in SteadyScreens["working"] :
          ClaudeShowsActivity(screen) /\ ~TerminalShowsPermissionPrompt(screen)
    /\ \A screen \in SteadyScreens["idle"] :
          ~TerminalShowsClaudeRunning(screen) /\ ~TerminalShowsPermissionPrompt(screen)

StatusOf == [idle |-> "idle", working |-> "running", prompt |-> "waiting"]

\* The row shows what the settled session does and, at work, no interruption
\* is newer than the row or on its way.
Shown(p) ==
    /\ settled /\ phase = p
    /\ row.status = StatusOf[p]
    /\ p = "working" => ~lagging /\ ~row.stopped

\* The inductive invariant: a tick that is under way listed just that row, and
\* decides on nothing.
StaysShown(p) ==
    /\ Shown(p)
    /\ pc # "apply"
    /\ pc \in {"read", "observe"} => snap.status = StatusOf[p]
    /\ pc = "read" /\ p = "working" => ~snap.stopped

LEMMA AgentLeavesShown ==
    ASSUME NEW p \in Phases, TypeOK, PromptIsNewest, StaysShown(p), AgentStep
    PROVE  StaysShown(p)'
<1>0. settled /\ row \in RowState /\ snap \in RowState
  BY DEF StaysShown, Shown, TypeOK
<1>1. Work \/ LineLands
  BY <1>0 DEF AgentStep, Submit, Ask, Approve, Cancel, Interrupt, Finish, Compact, ApiError,
              Bookkeep, TailScrolls, Hook, Settle, MovesTo
<1>2. KeepsStatuses /\ pc' = pc /\ UNCHANGED agent
  <2>1. Work => KeepsStatuses
    BY WritesKeepStatus DEF Work
  <2>2. LineLands => KeepsStatuses
    BY <1>0, LinesKeepStatus DEF LineLands, Compared, KeepsStatuses
  <2>. QED
    BY <1>1, <2>1, <2>2 DEF Work, LineLands, Meanwhile, tick
<1>3. CASE Work
  <2>1. UNCHANGED lagging /\ row'.stopped = FALSE /\ (pc = "read" => snap'.stopped = FALSE)
    BY <1>0, <1>3, WithTurnType DEF Work, WriteConversation, Compared
  <2>. QED
    BY <1>2, <2>1 DEF StaysShown, Shown, KeepsStatuses, agent
<1>4. CASE LineLands
  <2>1. p = "idle"
    BY <1>4 DEF LineLands, PromptIsNewest, StaysShown, Shown
  <2>. QED
    BY <1>2, <2>1 DEF StaysShown, Shown, KeepsStatuses, agent
<1>. QED
  BY <1>1, <1>3, <1>4

\* No frame of the settled session makes the tick decide.
LEMMA ShownDecidesNothing ==
    ASSUME SteadyIsHonest, NEW p \in Phases, PromptIsNewest, StaysShown(p), [Next]_vars
    PROVE  ~Decides
<1>. SUFFICES ASSUME Decides PROVE FALSE
  OBVIOUS
<1>1. CASE pc = "read"
  BY <1>1, Decisions DEF PromptIsNewest, StaysShown, Shown, StatusOf
<1>2. CASE pc = "observe"
  <2>1. PICK screen \in SteadyScreens[p] :
          \/ snap.status = "waiting" /\ ~TerminalShowsWaitingPrompt(screen)
          \/ snap.status = "running" /\ ~Busy(screen)
          \/ snap.status = "idle" /\ TerminalShowsClaudeRunning(screen)
          \/ snap.status \in {"running", "idle"} /\ TerminalShowsPermissionPrompt(screen)
    <3>1. Captures = SteadyScreens[p]
      BY DEF Captures, StaysShown, Shown
    <3>. QED
      BY <1>2, <3>1, Decisions
  <2>2. snap.status = StatusOf[p]
    BY <1>2 DEF StaysShown
  <2>. QED
    BY <2>1, <2>2 DEF SteadyIsHonest, StatusOf, Busy
<1>. QED
  BY <1>1, <1>2, Decisions

LEMMA NextStaysShown ==
    ASSUME SteadyIsHonest, NEW p \in Phases, TypeOK, PromptIsNewest, StaysShown(p), [Next]_vars
    PROVE  StaysShown(p)'
<1>0. settled /\ row \in RowState /\ snap \in RowState
  BY DEF StaysShown, Shown, TypeOK
<1>1. CASE AgentStep
  BY <1>1, AgentLeavesShown
<1>2. CASE TimePasses
  <2>1. row'.status = row.status /\ row'.stopped = row.stopped
    BY <1>0, <1>2 DEF TimePasses, RowState
  <2>. QED
    BY <1>2, <2>1 DEF TimePasses, agent, tick, StaysShown, Shown
<1>3. CASE TickBegins
  BY <1>3 DEF TickBegins, transcript, agent, StaysShown, Shown
<1>4. CASE ReadStop \/ Observe
  <2>1. pc # "apply" /\ UNCHANGED <<row, transcript, agent>>
    BY <1>4, ObserveLeavesOrDecides DEF ReadStop
  <2>2. pc' # "apply"
    BY <2>1, ShownDecidesNothing DEF Decides
  <2>3. pc' = "sleep"
    BY <1>4, <2>2, ObserveLeavesOrDecides DEF ReadStop, Leave, Decide
  <2>. QED
    BY <2>1, <2>3 DEF transcript, agent, StaysShown, Shown
<1>7. CASE ReadTranscript
  <2>1. snap'.status = snap.status
    BY <1>0, <1>7, AsReadType DEF ReadTranscript
  <2>. QED
    BY <1>7, <2>1 DEF ReadTranscript, transcript, agent, StaysShown, Shown
<1>5. CASE Apply \/ TickFails \/ MonitorRestarts
  BY <1>0, <1>5 DEF Apply, TickFails, MonitorRestarts, StaysShown
<1>6. CASE UNCHANGED vars
  BY <1>6 DEF vars, transcript, agent, tick, StaysShown, Shown
<1>. QED
  BY <1>1, <1>2, <1>3, <1>4, <1>5, <1>6, <1>7 DEF Next, TickStep

LEMMA NextSettled ==
    ASSUME NEW p \in Phases, settled, phase = p, [Next]_vars
    PROVE  settled' /\ phase' = p
BY ObserveLeavesOrDecides
   DEF Next, AgentStep, Submit, Work, Ask, Approve, Cancel, Interrupt, Finish, Compact, ApiError,
       LineLands, Bookkeep, TailScrolls, Hook, Settle, MovesTo, TimePasses, TickStep, TickBegins,
       ReadStop, ReadTranscript, Apply, TickFails, MonitorRestarts, agent, vars

\* A settled session that is shown as what it does, between two ticks, stays
\* shown so, whatever the counters hold and whatever lines its work appends:
\* PromptIsShown, WorkIsShown and IdleIsShown follow from its being shown once,
\* the last but for a closing line that keeps giving the sign of work.
THEOREM ShownOnceIsForGood ==
    ASSUME SteadyIsHonest
    PROVE  /\ Spec => \A p \in Phases :
                        [](Shown(p) /\ pc = "sleep" => [](row.status = StatusOf[p]))
           /\ Spec /\ (settled /\ phase = "prompt" ~> Shown("prompt") /\ pc = "sleep")
                 => PromptIsShown
           /\ Spec /\ (settled /\ phase = "working" ~> Shown("working") /\ pc = "sleep")
                 => WorkIsShown
           /\ Spec /\ [](settled /\ phase = "idle" /\ row.status # "waiting" /\ pc = "sleep"
                         => \/ <>(Shown("idle") /\ pc = "sleep")
                            \/ []<>(lull = 0 /\ row.status = "running"))
                 => IdleIsShown
<1>1. ASSUME NEW p \in Phases
      PROVE  Spec => [](Shown(p) /\ pc = "sleep" => [](row.status = StatusOf[p]))
  <2>1. Shown(p) /\ pc = "sleep" => StaysShown(p)
    BY DEF StaysShown
  <2>2. StaysShown(p) => row.status = StatusOf[p]
    BY DEF StaysShown, Shown
  <2>3. TypeOK /\ PromptIsNewest /\ StaysShown(p) /\ [Next]_vars => StaysShown(p)'
    BY NextStaysShown
  <2>. QED
    BY <2>1, <2>2, <2>3, TypeCorrect, PromptIsNewestInit, PromptIsNewestNext, PTL DEF Spec
<1>2. Spec => [](Shown("prompt") /\ pc = "sleep" => [](row.status = "waiting"))
  <2>1. Shown("prompt") /\ pc = "sleep" => StaysShown("prompt")
    BY DEF StaysShown
  <2>2. StaysShown("prompt") => row.status = "waiting"
    BY DEF StaysShown, Shown, StatusOf
  <2>3. TypeOK /\ PromptIsNewest /\ StaysShown("prompt") /\ [Next]_vars => StaysShown("prompt")'
    BY NextStaysShown
  <2>. QED
    BY <2>1, <2>2, <2>3, TypeCorrect, PromptIsNewestInit, PromptIsNewestNext, PTL DEF Spec
<1>3. Spec => [](Shown("working") /\ pc = "sleep" => [](row.status = "running"))
  <2>1. Shown("working") /\ pc = "sleep" => StaysShown("working")
    BY DEF StaysShown
  <2>2. StaysShown("working") => row.status = "running"
    BY DEF StaysShown, Shown, StatusOf
  <2>3. TypeOK /\ PromptIsNewest /\ StaysShown("working") /\ [Next]_vars => StaysShown("working")'
    BY NextStaysShown
  <2>. QED
    BY <2>1, <2>2, <2>3, TypeCorrect, PromptIsNewestInit, PromptIsNewestNext, PTL DEF Spec
<1>4. Spec => [](Shown("idle") /\ pc = "sleep" => [](row.status = "idle"))
  <2>1. Shown("idle") /\ pc = "sleep" => StaysShown("idle")
    BY DEF StaysShown
  <2>2. StaysShown("idle") => row.status = "idle"
    BY DEF StaysShown, Shown, StatusOf
  <2>3. TypeOK /\ PromptIsNewest /\ StaysShown("idle") /\ [Next]_vars => StaysShown("idle")'
    BY NextStaysShown
  <2>. QED
    BY <2>1, <2>2, <2>3, TypeCorrect, PromptIsNewestInit, PromptIsNewestNext, PTL DEF Spec
<1>5. Spec => \A p \in Phases : [](Shown(p) /\ pc = "sleep" => [](row.status = StatusOf[p]))
  BY <1>1
<1>. QED
  BY <1>2, <1>3, <1>4, <1>5, PTL DEF PromptIsShown, WorkIsShown, IdleIsShown
=============================================================================
