-------------------------- MODULE SessionsRefinement --------------------------
(***************************************************************************)
(* Sessions implements SessionLifecycle, for any keys without a collision  *)
(* of session names and any processes, while no tmux query fails.          *)
(***************************************************************************)
EXTENDS SessionsProofs

LiveKeys == {k \in Keys : Live(k)}

-----------------------------------------------------------------------------
(* What a step that leaves a part of the state alone means for the          *)
(* lifecycle.                                                               *)

LEMMA SameTmux == UNCHANGED tmux => LiveKeys' = LiveKeys
  BY DEF LiveKeys, Live

LEMMA SameTick == UNCHANGED monitorVars => Unsynced' = Unsynced
  BY DEF monitorVars, Unsynced

LEMMA SameCommands == UNCHANGED cmd => Doomed' = Doomed
  BY DEF Doomed

\* A command that is not at its deletion before or after a step leaves the
\* doomed keys alone.
LEMMA OtherCommandStep ==
    ASSUME NEW c \in Commands, cmd \in [Commands -> CommandStates],
           NEW s, cmd' = [cmd EXCEPT ![c] = s],
           cmd[c].pc # "delete", s.pc # "delete"
    PROVE  Doomed' = Doomed
<1>1. \A d \in Commands : d # c => cmd'[d] = cmd[d]
  OBVIOUS
<1>2. cmd'[c] = s
  OBVIOUS
<1> QED
  BY <1>1, <1>2 DEF Doomed

LEMMA InitLifecycle == Init => Lifecycle!Init
<1> SUFFICES ASSUME Init PROVE Lifecycle!Init
  OBVIOUS
<1>1. LiveKeys = {}
  BY DEF Init, LiveKeys, Live
<1>2. Unsynced = EmptyTable
  BY EmptyIsTable DEF Init, Unsynced, EmptyTable
<1>3. Doomed = {}
  BY DoneIsDone DEF Init, Doomed
<1> QED
  BY <1>1, <1>2, <1>3 DEF Init, Lifecycle!Init, Lifecycle!EmptyTable, EmptyTable, LiveKeys

-----------------------------------------------------------------------------
(* One step. *)

Maps == Lifecycle!Next \/ UNCHANGED Lifecycle!vars

\* A step the lifecycle does not see.
LEMMA Stutters ==
    ASSUME UNCHANGED <<sessions, lapsed>>, LiveKeys' = LiveKeys,
           Unsynced' = Unsynced, Doomed' = Doomed
    PROVE  Maps
  BY DEF Maps, Lifecycle!vars, LiveKeys

\* A write of a managed key's status.
LEMMA MapsReport ==
    ASSUME NEW k \in NewKeys, NEW s \in Statuses, NEW w, w = (s = "waiting"),
           sessions' = UpsertSessionStatus(sessions, k, s, w),
           UNCHANGED lapsed, LiveKeys' = LiveKeys,
           Unsynced' = Unsynced, Doomed' = Doomed
    PROVE  Maps
<1>1. Lifecycle!Report(k, s)
  BY DEF Lifecycle!Report, Lifecycle!UpsertSessionStatus, UpsertSessionStatus, LiveKeys,
         Lifecycle!UnknownTool, UnknownTool
<1> QED
  BY <1>1 DEF Maps, Lifecycle!Next, Lifecycle!Statuses, Statuses

\* A tmux session ends, for every key of its name.
LEMMA MapsEnd ==
    ASSUME NEW name, tmux' = tmux \ {name}, lapsed' = lapsed \cup NowWithout(name),
           NEW D \in SUBSET NowWithout(name), Doomed' = Doomed \cup D,
           UNCHANGED sessions, Unsynced' = Unsynced
    PROVE  Maps
<1>1. NowWithout(name) \in SUBSET Keys
  BY DEF NowWithout
<1>2. LiveKeys' = LiveKeys \ NowWithout(name)
  BY DEF LiveKeys, Live, NowWithout
<1>3. Lifecycle!End(NowWithout(name), D)
  BY <1>2 DEF Lifecycle!End, LiveKeys
<1> QED
  BY <1>1, <1>3 DEF Maps, Lifecycle!Next

\* The commands: `new` reports idle and begins a session, `remove` ends one and
\* then removes its row.
LEMMA CommandMaps ==
    ASSUME TypeOK, NEW c \in Commands, CommandStep(c)
    PROVE  Maps
<1> USE DoneIsDone
<1>1. cmd \in [Commands -> CommandStates] /\ cmd[c] \in CommandStates
  BY DEF TypeOK
<1>2. CASE \E k \in NewKeys : NewStart(c, k)
  <2>1. PICK k \in NewKeys : NewStart(c, k)
    BY <1>2
  <2>2. Doomed' = Doomed
    <3> DEFINE s == [pc |-> "upsert", key |-> k]
    <3>1. cmd' = [cmd EXCEPT ![c] = s] /\ cmd[c].pc # "delete"
      BY <2>1 DEF NewStart
    <3>2. s.pc # "delete"
      OBVIOUS
    <3> HIDE DEF s
    <3> QED
      BY <1>1, <3>1, <3>2, OtherCommandStep
  <2> QED
    BY <2>1, <2>2, SameTmux, SameTick, Stutters DEF NewStart
<1>3. CASE NewUpsert(c)
  <2>1. cmd[c].key \in NewKeys
    BY <1>1, <1>3 DEF NewUpsert, CommandStates
  <2>2. [cmd[c] EXCEPT !.pc = "create"].pc = "create"
    BY <1>1, <1>3 DEF NewUpsert, CommandStates
  <2>3. Doomed' = Doomed
    BY <1>1, <1>3, <2>2, OtherCommandStep DEF NewUpsert
  <2> QED
    BY <1>3, <2>1, <2>3, SameTmux, SameTick, MapsReport DEF NewUpsert, Statuses
<1>4. CASE NewCreate(c)
  <2>1. Doomed' = Doomed
    BY <1>1, <1>4, OtherCommandStep DEF NewCreate
  <2> DEFINE K == NowWithout(TmuxSessionName(cmd[c].key))
  <2>2. LiveKeys' = LiveKeys \cup K
    BY <1>4 DEF NewCreate, LiveKeys, Live, NowWithout
  <2>3. Lifecycle!Begin(K)
    BY <1>4, <2>1, <2>2, SameTick DEF NewCreate, Lifecycle!Begin, LiveKeys
  <2>4. K \in SUBSET Keys
    BY DEF NowWithout
  <2> QED
    BY <2>3, <2>4 DEF Maps, Lifecycle!Next
<1>5. CASE \E k \in Keys : RemoveStart(c, k)
  <2>1. PICK k \in Keys : RemoveStart(c, k)
    BY <1>5
  <2>2. Doomed' = Doomed
    <3> DEFINE s == [pc |-> "kill", key |-> k]
    <3>1. cmd' = [cmd EXCEPT ![c] = s] /\ cmd[c].pc # "delete"
      BY <2>1 DEF RemoveStart
    <3>2. s.pc # "delete"
      OBVIOUS
    <3> HIDE DEF s
    <3> QED
      BY <1>1, <3>1, <3>2, OtherCommandStep
  <2> QED
    BY <2>1, <2>2, SameTmux, SameTick, Stutters DEF RemoveStart
<1>6. CASE RemoveKill(c)
  <2> DEFINE k == cmd[c].key
  <2>1. k \in Keys
    BY <1>1, <1>6 DEF RemoveKill, CommandStates
  <2>2. cmd'[c].pc = "delete" /\ cmd'[c].key = k /\ \A d \in Commands : d # c => cmd'[d] = cmd[d]
    BY <1>1, <1>6 DEF RemoveKill, CommandStates
  <2>3. Doomed' = Doomed \cup {k}
    BY <1>6, <2>2 DEF Doomed, RemoveKill
  <2>4. {k} \in SUBSET NowWithout(TmuxSessionName(k))
    BY <2>1 DEF NowWithout
  <2> HIDE DEF k
  <2> QED
    BY <1>6, <2>3, <2>4, SameTick, MapsEnd DEF RemoveKill, k
<1>7. ASSUME cmd' = [cmd EXCEPT ![c] = Done], cmd[c].pc = "delete"
      PROVE  /\ cmd[c].key \in Keys
             /\ cmd[c].key \in Doomed
             /\ Doomed' \in {Doomed, Doomed \ {cmd[c].key}}
  <2>1. cmd'[c].pc # "delete" /\ \A d \in Commands : d # c => cmd'[d] = cmd[d]
    BY <1>1, <1>7
  <2>2. cmd[c].key \in Keys
    BY <1>1, <1>7 DEF CommandStates
  <2> QED
    BY <1>7, <2>1, <2>2 DEF Doomed
<1>8. CASE RemoveDelete(c)
  <2>1. Lifecycle!Remove(cmd[c].key)
    BY <1>7, <1>8, SameTmux, SameTick
       DEF RemoveDelete, Lifecycle!Remove, Lifecycle!DeleteSession, DeleteSession, LiveKeys
  <2> QED
    BY <1>7, <1>8, <2>1 DEF RemoveDelete, Maps, Lifecycle!Next
<1>9. CASE CommandAborts(c)
  <2>1. CASE cmd[c].pc # "delete"
    <3>1. Doomed' = Doomed
      BY <1>1, <1>9, <2>1, OtherCommandStep DEF CommandAborts
    <3> QED
      BY <1>9, <3>1, SameTmux, SameTick, Stutters DEF CommandAborts
  <2>2. CASE cmd[c].pc = "delete"
    <3>1. Doomed' = Doomed \/ Lifecycle!GiveUp(cmd[c].key)
      BY <1>7, <1>9, <2>2, SameTmux, SameTick DEF CommandAborts, Lifecycle!GiveUp, LiveKeys
    <3>2. CASE Doomed' = Doomed
      BY <1>9, <3>2, SameTmux, SameTick, Stutters DEF CommandAborts
    <3> QED
      BY <1>7, <1>9, <2>2, <3>1, <3>2 DEF CommandAborts, Maps, Lifecycle!Next
  <2> QED
    BY <2>1, <2>2
<1> QED
  BY <1>2, <1>3, <1>4, <1>5, <1>6, <1>8, <1>9 DEF CommandStep

\* A hook reports a status, or identifies its agent.  It is past its check, so
\* its key is managed.
LEMMA HookMaps ==
    ASSUME TypeOK, ManagedKeysOnly, NEW h \in Hooks, HookStep(h)
    PROVE  Maps
<1> USE DoneIsDone
<1>1. CASE \/ \E k \in Keys, input \in HookInputs : HookStart(h, k, input)
           \/ HookRead(h)
           \/ HookAborts(h)
  BY <1>1, SameTmux, SameTick, SameCommands, Stutters DEF HookStart, HookRead, HookAborts
<1>2. CASE HookUpsert(h)
  <2>1. hook[h] # Done
    BY <1>2 DEF HookUpsert
  <2>2. hook[h].key \in NewKeys /\ FromEvent[HookEvent(hook[h].input)] \in Statuses
    BY <2>1, HookInFlight DEF ManagedKeysOnly
  <2> QED
    BY <1>2, <2>2, SameTmux, SameTick, SameCommands, MapsReport DEF HookUpsert
<1>3. CASE HookUpdateTool(h) \/ HookUpdateSessionID(h)
  <2>1. hook[h] # Done
    BY <1>3 DEF HookUpdateTool, HookUpdateSessionID
  <2>2. hook[h].key \in Keys /\ hook[h].input.tool \in Tools
    BY <2>1, HookInFlight
  <2>3. Lifecycle!Identify(hook[h].key)
    BY <1>3, <2>2, SameTmux, SameTick, SameCommands
       DEF HookUpdateTool, HookUpdateSessionID, Lifecycle!Identify, LiveKeys,
           Lifecycle!UpdateAgentTool, Lifecycle!UpdateAgentSessionID, Lifecycle!Tools,
           UpdateAgentTool, UpdateAgentSessionID, Tools
  <2> QED
    BY <2>2, <2>3 DEF Maps, Lifecycle!Next
<1> QED
  BY <1>1, <1>2, <1>3 DEF HookStep

\* Dealing with a row of the tick takes it from the rows the lifecycle counts.
LEMMA SyncsOne ==
    ASSUME TypeOK, NEW k, monPC = "sync", k \in pending, pending' = pending \ {k},
           UNCHANGED <<monPC, snapshot>>
    PROVE  /\ Unsynced' = Lifecycle!DeleteSession(Unsynced, k)
           /\ k \in DOMAIN Unsynced
           /\ Unsynced[k] = snapshot[k]
  BY DEF Unsynced, Lifecycle!DeleteSession

LEMMA MonitorMaps ==
    ASSUME TypeOK, TickKnowsLapses, MonitorStep
    PROVE  Maps
<1>1. CASE MonitorListSessions
  <2>1. Unsynced' = sessions
    <3>1. sessions \in [DOMAIN sessions -> Row]
      BY DEF TypeOK, IsTable
    <3> QED
      BY <1>1, <3>1 DEF MonitorListSessions, Unsynced
  <2>2. lapsed' = Keys \ LiveKeys
    BY <1>1 DEF MonitorListSessions, LiveKeys
  <2>3. Lifecycle!Look
    BY <1>1, <2>1, <2>2, SameTmux, SameCommands DEF MonitorListSessions, Lifecycle!Look, LiveKeys
  <2> QED
    BY <2>3 DEF Maps, Lifecycle!Next
<1>2. CASE MonitorListTmux
  <2>1. Unsynced' = Unsynced
    BY <1>2 DEF MonitorListTmux, Unsynced
  <2> QED
    BY <1>2, <2>1, SameTmux, SameCommands, Stutters DEF MonitorListTmux
<1>3. ASSUME NEW k \in Keys, MonitorDeleteDead(k) PROVE Maps
  <2>1. k \in lapsed
    BY <1>3 DEF MonitorDeleteDead, TickKnowsLapses
  <2>2. Lifecycle!Reap(k)
    BY <1>3, <2>1, SyncsOne, SameTmux, SameCommands
       DEF MonitorDeleteDead, Lifecycle!Reap, Lifecycle!DeleteSession, DeleteSession, LiveKeys
  <2> QED
    BY <2>2 DEF Maps, Lifecycle!Next
<1>4. ASSUME NEW k \in Keys, NEW target \in Statuses, MonitorSync(k, target) PROVE Maps
  <2>1. /\ Unsynced' = Lifecycle!DeleteSession(Unsynced, k)
        /\ k \in DOMAIN Unsynced
        /\ Unsynced[k] = snapshot[k]
    BY <1>4, SyncsOne DEF MonitorSync
  <2>2. target \in Lifecycle!SyncTargets(Unsynced[k])
    BY <1>4, <2>1
       DEF MonitorSync, SyncTargets, ClaudeTargets, CodexTargets, GeminiTargets, Statuses,
           Lifecycle!SyncTargets, Lifecycle!ClaudeTargets, Lifecycle!CodexTargets,
           Lifecycle!GeminiTargets, Lifecycle!Statuses
  <2>3. sessions' = Lifecycle!UpdateSessionStatusIfUnchanged(
                        sessions, k, target, target = "waiting", Unsynced[k].status)
    BY <1>4, <2>1
       DEF MonitorSync, UpdateSessionStatusIfUnchanged, Lifecycle!UpdateSessionStatusIfUnchanged
  <2>4. Lifecycle!Conclude(k, target)
    BY <1>4, <2>1, <2>2, <2>3, SameTmux, SameCommands
       DEF MonitorSync, Lifecycle!Conclude, LiveKeys
  <2> QED
    BY <2>4 DEF Maps, Lifecycle!Next, Lifecycle!Statuses, Statuses
<1>5. CASE \E k \in Keys : MonitorSkip(k)
  <2>1. PICK k \in Keys : MonitorSkip(k)
    BY <1>5
  <2>2. Lifecycle!Pass(k)
    BY <2>1, SyncsOne, SameTmux, SameCommands DEF MonitorSkip, Lifecycle!Pass, LiveKeys
  <2> QED
    BY <2>2 DEF Maps, Lifecycle!Next
<1>6. CASE MonitorTickEnds
  <2>1. Unsynced' = Lifecycle!EmptyTable
    BY <1>6, EmptyIsTable
       DEF MonitorTickEnds, ForgetTick, Unsynced, EmptyTable, Lifecycle!EmptyTable
  <2>2. Lifecycle!Forget
    BY <1>6, <2>1, SameTmux, SameCommands
       DEF MonitorTickEnds, ForgetTick, Lifecycle!Forget, LiveKeys
  <2> QED
    BY <2>2 DEF Maps, Lifecycle!Next
<1> QED
  BY <1>1, <1>2, <1>3, <1>4, <1>5, <1>6 DEF MonitorStep

LEMMA NextMaps ==
    TypeOK /\ ManagedKeysOnly /\ TickKnowsLapses /\ [Next]_vars
        => [Lifecycle!Next]_(Lifecycle!vars)
<1> SUFFICES ASSUME TypeOK, ManagedKeysOnly, TickKnowsLapses, [Next]_vars PROVE Maps
  BY DEF Maps
<1>1. CASE MonitorStart
  <2>1. Unsynced' = Unsynced
    BY <1>1 DEF MonitorStart, Unsynced
  <2> QED
    BY <1>1, <2>1, SameTmux, SameCommands, Stutters DEF MonitorStart
<1>2. CASE MonitorStop
  <2>1. Unsynced' = Lifecycle!EmptyTable
    BY <1>2, EmptyIsTable
       DEF MonitorStop, ForgetTick, Unsynced, EmptyTable, Lifecycle!EmptyTable
  <2>2. Lifecycle!Forget
    BY <1>2, <2>1, SameTmux, SameCommands DEF MonitorStop, ForgetTick, Lifecycle!Forget, LiveKeys
  <2> QED
    BY <2>2 DEF Maps, Lifecycle!Next
<1>3. CASE \E name \in tmux : SessionExits(name)
  <2>1. PICK name \in tmux : SessionExits(name)
    BY <1>3
  <2>2. {} \in SUBSET NowWithout(name) /\ Doomed' = Doomed \cup {}
    BY <2>1, SameCommands DEF SessionExits
  <2> QED
    BY <2>1, <2>2, SameTick, MapsEnd DEF SessionExits
<1>4. CASE UNCHANGED vars
  BY <1>4, SameTmux, SameTick, SameCommands, Stutters DEF vars
<1> QED
  BY <1>1, <1>2, <1>3, <1>4, CommandMaps, HookMaps, MonitorMaps DEF Next

\* While no two keys share a tmux session name and no tmux query fails,
\* whatever commands, hooks and monitor do to the table is what the lifecycle
\* of a session promises.
THEOREM SessionsImplementLifecycle ==
    DistinctNames(Keys) /\ ~TmuxFaults => (Spec => ImplementsLifecycle)
<1> SUFFICES ASSUME DistinctNames(Keys), ~TmuxFaults PROVE Spec => ImplementsLifecycle
  OBVIOUS
<1>1. Init => ManagedKeysOnly /\ TickKnowsLapses
  BY EmptyIsTable DEF Init, ManagedKeysOnly, NoPhantomRows, TickKnowsLapses
<1>2. TypeOK /\ ManagedKeysOnly /\ [Next]_vars => ManagedKeysOnly'
  BY NextManagedKeysOnly
<1>3. TypeOK /\ TickKnowsLapses /\ [Next]_vars => TickKnowsLapses'
  BY NextTickKnowsLapses
<1> QED
  BY <1>1, <1>2, <1>3, InitLifecycle, NextMaps, TypeCorrect, PTL
     DEF Spec, ImplementsLifecycle, Lifecycle!Spec
=============================================================================
