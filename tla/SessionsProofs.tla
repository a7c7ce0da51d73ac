--------------------------- MODULE SessionsProofs ---------------------------
(***************************************************************************)
(* Proofs about Sessions, for any keys, any number of processes and any    *)
(* inputs.                                                                 *)
(***************************************************************************)
EXTENDS Sessions, SequenceTheorems, TLAPS

-----------------------------------------------------------------------------
(* The queries keep a table a table. *)

\* An upsert stores a row of the right type and adds at most its own key.
LEMMA UpsertKeepsTable ==
    ASSUME NEW keys, NEW t, IsTable(t, keys), NEW k \in keys,
           NEW s \in Statuses, NEW w \in BOOLEAN
    PROVE  IsTable(UpsertSessionStatus(t, k, s, w), keys)
<1> DEFINE u == UpsertSessionStatus(t, k, s, w)
<1>1. DOMAIN u = DOMAIN t \cup {k}
  BY DEF UpsertSessionStatus
<1>2. ASSUME NEW j \in DOMAIN u
      PROVE  u[j] \in Row
  <2>1. CASE j # k
    BY <1>1, <2>1 DEF UpsertSessionStatus, IsTable
  <2>2. CASE j = k /\ k \in DOMAIN t
    <3>1. u[j] = [t[k] EXCEPT !.status = s, !.waitingSince = w]
      BY <1>1, <2>2 DEF UpsertSessionStatus
    <3>2. t[k] \in Row
      BY <2>2 DEF IsTable
    <3> QED
      BY <3>1, <3>2 DEF Row
  <2>3. CASE j = k /\ k \notin DOMAIN t
    <3>1. u[j] = [status |-> s, waitingSince |-> w, tool |-> UnknownTool, hasID |-> FALSE]
      BY <1>1, <2>3 DEF UpsertSessionStatus
    <3> QED
      BY <3>1 DEF Row
  <2> QED
    BY <2>1, <2>2, <2>3
<1>3. u \in [DOMAIN u -> Row]
  BY <1>2 DEF UpsertSessionStatus
<1> QED
  BY <1>1, <1>3 DEF IsTable

\* The compare-and-swap stores a row of the right type and adds no key.
LEMMA SwapKeepsTable ==
    ASSUME NEW keys, NEW t, IsTable(t, keys), NEW k,
           NEW s \in Statuses, NEW w \in BOOLEAN, NEW e
    PROVE  /\ IsTable(UpdateSessionStatusIfUnchanged(t, k, s, w, e), keys)
           /\ DOMAIN UpdateSessionStatusIfUnchanged(t, k, s, w, e) = DOMAIN t
  BY DEF UpdateSessionStatusIfUnchanged, IsTable, Row

\* The updates of the agent's columns likewise.
LEMMA AgentUpdatesKeepTable ==
    ASSUME NEW keys, NEW t, IsTable(t, keys), NEW k, NEW tool \in Tools,
           NEW u \in {UpdateAgentTool(t, k, tool), UpdateAgentSessionID(t, k)}
    PROVE  /\ IsTable(u, keys)
           /\ DOMAIN u = DOMAIN t
<1>1. CASE u = UpdateAgentTool(t, k, tool)
  BY <1>1 DEF UpdateAgentTool, IsTable, Row
<1>2. CASE u = UpdateAgentSessionID(t, k)
  BY <1>2 DEF UpdateAgentSessionID, IsTable, Row
<1> QED
  BY <1>1, <1>2

\* A delete keeps every other row.
LEMMA DeleteKeepsTable ==
    ASSUME NEW keys, NEW t, IsTable(t, keys), NEW k
    PROVE  /\ IsTable(DeleteSession(t, k), keys)
           /\ DOMAIN DeleteSession(t, k) = DOMAIN t \ {k}
  BY DEF DeleteSession, IsTable

LEMMA EmptyIsTable ==
    ASSUME NEW keys
    PROVE  IsTable(EmptyTable, keys) /\ DOMAIN EmptyTable = {}
  BY DEF EmptyTable, IsTable

\* What FromEvent returns is a status.
LEMMA FromEventType == \A e \in CanonicalEvents : FromEvent[e] \in Statuses
  BY DEF FromEvent, CanonicalEvents, RunningEvents, WaitingEvents, IdleEvents, Statuses

-----------------------------------------------------------------------------
(* Type correctness. *)

THEOREM InitTypeOK == Init => TypeOK
<1> SUFFICES ASSUME Init PROVE TypeOK
  OBVIOUS
<1>1. IsTable(EmptyTable, Keys) /\ DOMAIN EmptyTable = {}
  BY EmptyIsTable
<1> QED
  BY <1>1 DEF Init, TypeOK, CommandStates, HookStates

\* What a hook in the middle of its work carries.
LEMMA HookInFlight ==
    ASSUME TypeOK, NEW h \in Hooks, hook[h] # Done
    PROVE  /\ hook[h] \in HookStates
           /\ hook[h].key \in Keys
           /\ hook[h].input \in HookInputs
           /\ hook[h].input.tool \in Tools
           /\ HookEvent(hook[h].input) \in CanonicalEvents
           /\ FromEvent[HookEvent(hook[h].input)] \in Statuses
           /\ \A pc \in {"read", "upsert", "tool", "sessionID"} :
                 [hook[h] EXCEPT !.pc = pc] \in HookStates
<1>1. hook[h] \in [pc    : {"read", "upsert", "tool", "sessionID"},
                   key   : Keys,
                   input : {i \in HookInputs : HookEvent(i) \in CanonicalEvents}]
  BY DEF TypeOK, HookStates
<1>2. /\ hook[h].key \in Keys
      /\ hook[h].input \in HookInputs
      /\ HookEvent(hook[h].input) \in CanonicalEvents
  BY <1>1
<1>3. hook[h].input.tool \in Tools
  BY <1>2, HookInputsAssumption
<1>4. \A pc \in {"read", "upsert", "tool", "sessionID"} :
         [hook[h] EXCEPT !.pc = pc] \in HookStates
  BY <1>1 DEF HookStates
<1> QED
  BY <1>1, <1>2, <1>3, <1>4, FromEventType DEF HookStates

\* A process whose pc names a step is not done.
LEMMA DoneIsDone == Done.pc = "done"
  BY DEF Done

LEMMA NextTypeOK == TypeOK /\ [Next]_vars => TypeOK'
<1> SUFFICES ASSUME TypeOK, [Next]_vars PROVE TypeOK'
  OBVIOUS
<1> USE DoneIsDone
<1>1. ASSUME NEW c \in Commands, CommandStep(c) PROVE TypeOK'
  <2>1. CASE \E k \in NewKeys : NewStart(c, k)
    BY <2>1 DEF NewStart, TypeOK, CommandStates, monitorVars
  <2>2. CASE NewUpsert(c)
    <3>1. cmd[c].key \in NewKeys /\ [cmd[c] EXCEPT !.pc = "create"] \in CommandStates
      BY <2>2 DEF NewUpsert, TypeOK, CommandStates
    <3>2. cmd[c].key \in Keys
      BY <3>1, KeysAssumption
    <3>3. IsTable(sessions', Keys)
      BY <2>2, <3>2, UpsertKeepsTable DEF NewUpsert, TypeOK, Statuses
    <3> QED
      BY <2>2, <3>1, <3>2, <3>3 DEF NewUpsert, TypeOK, monitorVars
  <2>3. CASE NewCreate(c)
    <3>1. cmd[c].key \in NewKeys
      BY <2>3 DEF NewCreate, TypeOK, CommandStates
    <3> QED
      BY <2>3, <3>1 DEF NewCreate, TypeOK, CommandStates, monitorVars
  <2>4. CASE \E k \in Keys : RemoveStart(c, k)
    BY <2>4 DEF RemoveStart, TypeOK, CommandStates, monitorVars
  <2>5. CASE RemoveKill(c)
    <3>1. [cmd[c] EXCEPT !.pc = "delete"] \in CommandStates
      BY <2>5 DEF RemoveKill, TypeOK, CommandStates
    <3> QED
      BY <2>5, <3>1 DEF RemoveKill, TypeOK, NowWithout, monitorVars
  <2>6. CASE RemoveDelete(c)
    <3>1. cmd[c].key \in Keys
      BY <2>6 DEF RemoveDelete, TypeOK, CommandStates
    <3>2. IsTable(sessions', Keys)
      BY <2>6, DeleteKeepsTable DEF RemoveDelete, TypeOK
    <3> QED
      BY <2>6, <3>1, <3>2 DEF RemoveDelete, TypeOK, CommandStates, monitorVars
  <2>7. CASE CommandAborts(c)
    BY <2>7 DEF CommandAborts, TypeOK, CommandStates, monitorVars
  <2> QED
    BY <1>1, <2>1, <2>2, <2>3, <2>4, <2>5, <2>6, <2>7 DEF CommandStep
<1>2. ASSUME NEW h \in Hooks, HookStep(h) PROVE TypeOK'
  <2>1. CASE \E k \in Keys, input \in HookInputs : HookStart(h, k, input)
    BY <2>1 DEF HookStart, TypeOK, HookStates, monitorVars
  <2>2. ASSUME hook[h] # Done PROVE AfterStatus(h) \in HookStates
    BY <2>2, HookInFlight DEF AfterStatus, HookStates
  <2>3. CASE HookRead(h)
    <3>1. hook'[h] \in HookStates /\ hook' \in [Hooks -> HookStates]
      BY <2>2, <2>3, HookInFlight DEF HookRead, TypeOK, HookStates
    <3> QED
      BY <2>3, <3>1 DEF HookRead, TypeOK, monitorVars
  <2>4. CASE HookUpsert(h)
    <3>1. hook[h] # Done
      BY <2>4 DEF HookUpsert
    <3>2. IsTable(sessions', Keys)
      BY <2>4, <3>1, HookInFlight, UpsertKeepsTable DEF HookUpsert, TypeOK
    <3>3. hook' \in [Hooks -> HookStates]
      BY <2>2, <2>4, <3>1 DEF HookUpsert, TypeOK
    <3> QED
      BY <2>4, <3>2, <3>3 DEF HookUpsert, TypeOK, monitorVars
  <2>5. CASE HookUpdateTool(h)
    <3>1. hook[h] # Done
      BY <2>5 DEF HookUpdateTool
    <3>2. IsTable(sessions', Keys)
      BY <2>5, <3>1, HookInFlight, AgentUpdatesKeepTable DEF HookUpdateTool, TypeOK
    <3>3. hook' \in [Hooks -> HookStates]
      BY <2>5, <3>1, HookInFlight DEF HookUpdateTool, TypeOK, HookStates
    <3> QED
      BY <2>5, <3>2, <3>3 DEF HookUpdateTool, TypeOK, monitorVars
  <2>6. CASE HookUpdateSessionID(h)
    <3>1. hook[h] # Done
      BY <2>6 DEF HookUpdateSessionID
    <3>2. IsTable(sessions', Keys)
      BY <2>6, <3>1, HookInFlight, AgentUpdatesKeepTable DEF HookUpdateSessionID, TypeOK
    <3> QED
      BY <2>6, <3>2 DEF HookUpdateSessionID, TypeOK, HookStates, monitorVars
  <2>7. CASE HookAborts(h)
    BY <2>7 DEF HookAborts, TypeOK, HookStates, monitorVars
  <2> QED
    BY <1>2, <2>1, <2>3, <2>4, <2>5, <2>6, <2>7 DEF HookStep
<1>3. CASE MonitorStart
  BY <1>3 DEF MonitorStart, TypeOK
<1>4. IsTable(EmptyTable, Keys) /\ DOMAIN EmptyTable = {}
  BY EmptyIsTable
<1>5. CASE MonitorStop
  BY <1>4, <1>5 DEF MonitorStop, ForgetTick, TypeOK
<1>6. CASE MonitorStep
  <2>1. CASE MonitorListSessions
    BY <2>1 DEF MonitorListSessions, TypeOK
  <2>2. CASE MonitorListTmux
    BY <2>2 DEF MonitorListTmux, TypeOK
  <2>3. CASE \E k \in Keys : MonitorDeleteDead(k)
    <3>1. PICK k \in Keys : MonitorDeleteDead(k)
      BY <2>3
    <3>2. IsTable(sessions', Keys)
      BY <3>1, DeleteKeepsTable DEF MonitorDeleteDead, TypeOK
    <3> QED
      BY <3>1, <3>2 DEF MonitorDeleteDead, TypeOK
  <2>4. CASE \E k \in Keys, target \in Statuses : MonitorSync(k, target)
    <3>1. PICK k \in Keys, target \in Statuses : MonitorSync(k, target)
      BY <2>4
    <3>2. IsTable(sessions', Keys)
      BY <3>1, SwapKeepsTable DEF MonitorSync, TypeOK
    <3> QED
      BY <3>1, <3>2 DEF MonitorSync, TypeOK
  <2>5. CASE \E k \in Keys : MonitorSkip(k)
    BY <2>5 DEF MonitorSkip, TypeOK
  <2>6. CASE MonitorTickEnds
    BY <1>4, <2>6 DEF MonitorTickEnds, ForgetTick, TypeOK
  <2> QED
    BY <1>6, <2>1, <2>2, <2>3, <2>4, <2>5, <2>6 DEF MonitorStep
<1>7. CASE \E name \in tmux : SessionExits(name)
  BY <1>7 DEF SessionExits, NowWithout, TypeOK, monitorVars
<1>8. CASE UNCHANGED vars
  BY <1>8 DEF vars, monitorVars, TypeOK
<1> QED
  BY <1>1, <1>2, <1>3, <1>5, <1>6, <1>7, <1>8 DEF Next

\* Every reachable state is well typed.
THEOREM TypeCorrect == Spec => []TypeOK
  BY InitTypeOK, NextTypeOK, PTL DEF Spec

-----------------------------------------------------------------------------
(* A row has a waiting_since exactly while it is waiting. *)

LEMMA UpsertKeepsWaitingSince ==
    ASSUME TypeOK, WaitingSinceConsistent, NEW k \in Keys, NEW s \in Statuses,
           NEW w \in BOOLEAN, w <=> s = "waiting",
           sessions' = UpsertSessionStatus(sessions, k, s, w)
    PROVE  WaitingSinceConsistent'
<1> SUFFICES ASSUME NEW j \in DOMAIN sessions'
             PROVE  sessions'[j].waitingSince <=> sessions'[j].status = "waiting"
  BY DEF WaitingSinceConsistent
<1>1. CASE j # k
  BY <1>1 DEF UpsertSessionStatus, WaitingSinceConsistent
<1>2. CASE j = k /\ k \in DOMAIN sessions
  <2>1. sessions[k] \in Row
    BY <1>2 DEF TypeOK, IsTable
  <2>2. sessions'[k] = [sessions[k] EXCEPT !.status = s, !.waitingSince = w]
    BY <1>2 DEF UpsertSessionStatus
  <2> QED
    BY <1>2, <2>1, <2>2 DEF Row
<1>3. CASE j = k /\ k \notin DOMAIN sessions
  <2>1. sessions'[k] = [status |-> s, waitingSince |-> w,
                        tool |-> UnknownTool, hasID |-> FALSE]
    BY <1>3 DEF UpsertSessionStatus
  <2> QED
    BY <1>3, <2>1
<1> QED
  BY <1>1, <1>2, <1>3

LEMMA NextWaitingSince ==
    TypeOK /\ WaitingSinceConsistent /\ [Next]_vars => WaitingSinceConsistent'
<1> SUFFICES ASSUME TypeOK, WaitingSinceConsistent, [Next]_vars
             PROVE  WaitingSinceConsistent'
  OBVIOUS
<1> USE DoneIsDone
<1>1. CASE UNCHANGED sessions
  BY <1>1 DEF WaitingSinceConsistent
<1>2. ASSUME NEW k, sessions' = DeleteSession(sessions, k)
      PROVE  WaitingSinceConsistent'
  <2>1. /\ DOMAIN sessions' = DOMAIN sessions \ {k}
        /\ \A j \in DOMAIN sessions \ {k} : sessions'[j] = sessions[j]
    BY <1>2 DEF DeleteSession
  <2> QED
    BY <2>1 DEF WaitingSinceConsistent
<1>3. ASSUME NEW c \in Commands, NewUpsert(c) PROVE WaitingSinceConsistent'
  <2>1. cmd[c].key \in Keys
    BY <1>3, KeysAssumption DEF NewUpsert, TypeOK, CommandStates
  <2>2. sessions' = UpsertSessionStatus(sessions, cmd[c].key, "idle", FALSE)
    BY <1>3 DEF NewUpsert
  <2> QED
    BY <2>1, <2>2, UpsertKeepsWaitingSince DEF Statuses
<1>4. ASSUME NEW h \in Hooks, HookUpsert(h) PROVE WaitingSinceConsistent'
  <2>1. hook[h] # Done
    BY <1>4 DEF HookUpsert
  <2> DEFINE k == hook[h].key
             s == FromEvent[HookEvent(hook[h].input)]
             w == s = "waiting"
  <2>2. k \in Keys /\ s \in Statuses /\ w \in BOOLEAN /\ (w <=> s = "waiting")
    BY <2>1, HookInFlight
  <2>3. sessions' = UpsertSessionStatus(sessions, k, s, w)
    BY <1>4 DEF HookUpsert
  <2> HIDE DEF k, s, w
  <2> QED
    BY <2>2, <2>3, UpsertKeepsWaitingSince
<1>5. ASSUME NEW h \in Hooks, HookUpdateTool(h) \/ HookUpdateSessionID(h)
      PROVE  WaitingSinceConsistent'
  <2>1. hook[h] # Done
    BY <1>5 DEF HookUpdateTool, HookUpdateSessionID
  <2>2. /\ DOMAIN sessions' = DOMAIN sessions
        /\ \A j \in DOMAIN sessions : /\ sessions'[j].status = sessions[j].status
                                      /\ sessions'[j].waitingSince = sessions[j].waitingSince
    <3> DEFINE k == hook[h].key
               tool == hook[h].input.tool
    <3>1. IsTable(sessions, Keys) /\ tool \in Tools
      BY <2>1, HookInFlight DEF TypeOK
    <3>2. CASE sessions' = UpdateAgentTool(sessions, k, tool)
      BY <3>1, <3>2 DEF UpdateAgentTool, IsTable, Row
    <3>3. CASE sessions' = UpdateAgentSessionID(sessions, k)
      BY <3>1, <3>3 DEF UpdateAgentSessionID, IsTable, Row
    <3> QED
      BY <1>5, <3>2, <3>3 DEF HookUpdateTool, HookUpdateSessionID
  <2> QED
    BY <2>2 DEF WaitingSinceConsistent
<1>6. ASSUME NEW k \in Keys, NEW target \in Statuses, MonitorSync(k, target)
      PROVE  WaitingSinceConsistent'
  <2>1. CASE sessions' = sessions
    BY <1>1, <2>1
  <2>2. CASE sessions' # sessions
    <3>1. /\ k \in DOMAIN sessions
          /\ sessions' = [sessions EXCEPT ![k].status = target,
                                          ![k].waitingSince = (target = "waiting")]
      BY <1>6, <2>2 DEF MonitorSync, UpdateSessionStatusIfUnchanged
    <3>2. sessions[k] \in Row /\ DOMAIN sessions' = DOMAIN sessions
      BY <3>1 DEF TypeOK, IsTable
    <3>3. ASSUME NEW j \in DOMAIN sessions
          PROVE  sessions'[j].waitingSince <=> sessions'[j].status = "waiting"
      BY <3>1, <3>2, <3>3 DEF WaitingSinceConsistent, Row
    <3> QED
      BY <3>2, <3>3 DEF WaitingSinceConsistent
  <2> QED
    BY <2>1, <2>2
<1>7. ASSUME NEW c \in Commands, CommandStep(c) PROVE WaitingSinceConsistent'
  BY <1>1, <1>2, <1>3, <1>7
     DEF CommandStep, NewStart, NewCreate, RemoveStart, RemoveKill, RemoveDelete, CommandAborts
<1>8. ASSUME NEW h \in Hooks, HookStep(h) PROVE WaitingSinceConsistent'
  BY <1>1, <1>4, <1>5, <1>8 DEF HookStep, HookStart, HookRead, HookAborts
<1>9. CASE MonitorStep
  BY <1>1, <1>2, <1>6, <1>9
     DEF MonitorStep, MonitorListSessions, MonitorListTmux, MonitorDeleteDead, MonitorSkip,
         MonitorTickEnds
<1> QED
  BY <1>1, <1>7, <1>8, <1>9 DEF Next, MonitorStart, MonitorStop, SessionExits, vars

\* Whichever process wrote a row last, waiting_since is set exactly while the
\* row is waiting.
THEOREM WaitingSinceAlwaysConsistent == Spec => []WaitingSinceConsistent
<1>1. Init => WaitingSinceConsistent
  BY EmptyIsTable DEF Init, WaitingSinceConsistent
<1> QED
  BY <1>1, NextWaitingSince, TypeCorrect, PTL DEF Spec

-----------------------------------------------------------------------------
(* No phantom rows.  The rows alone are not inductive: a hook past its      *)
(* HasSession check will write one whatever happens to the session.  So the *)
(* keys of the hooks in flight are managed too; they are because tmux only  *)
(* has sessions of NewKeys (TypeOK) and no two keys share a session name.   *)

ManagedKeysOnly ==
    /\ NoPhantomRows
    /\ \A h \in Hooks : hook[h] # Done => hook[h].key \in NewKeys

\* A key whose tmux session exists is one of NewKeys.
LEMMA LiveIsManaged ==
    ASSUME DistinctNames(Keys), TypeOK, NEW k \in Keys, Live(k)
    PROVE  k \in NewKeys
<1>1. PICK j \in NewKeys : TmuxSessionName(k) = TmuxSessionName(j)
  BY DEF TypeOK, Live
<1> QED
  BY <1>1, KeysAssumption DEF DistinctNames

LEMMA NextManagedKeysOnly ==
    ASSUME DistinctNames(Keys)
    PROVE  TypeOK /\ ManagedKeysOnly /\ [Next]_vars => ManagedKeysOnly'
<1> SUFFICES ASSUME TypeOK, ManagedKeysOnly, [Next]_vars PROVE ManagedKeysOnly'
  OBVIOUS
<1> USE DoneIsDone
<1>1. CASE UNCHANGED hook /\ DOMAIN sessions' \subseteq DOMAIN sessions
  BY <1>1 DEF ManagedKeysOnly, NoPhantomRows
<1>2. ASSUME NEW c \in Commands, CommandStep(c) PROVE ManagedKeysOnly'
  <2>1. CASE NewUpsert(c)
    <3>1. cmd[c].key \in NewKeys
      BY <2>1 DEF NewUpsert, TypeOK, CommandStates
    <3>2. DOMAIN sessions' = DOMAIN sessions \cup {cmd[c].key}
      BY <2>1 DEF NewUpsert, UpsertSessionStatus
    <3> QED
      BY <2>1, <3>1, <3>2 DEF NewUpsert, ManagedKeysOnly, NoPhantomRows
  <2>2. CASE RemoveDelete(c)
    <3>1. DOMAIN sessions' \subseteq DOMAIN sessions
      BY <2>2 DEF RemoveDelete, DeleteSession
    <3> QED
      BY <1>1, <2>2, <3>1 DEF RemoveDelete
  <2> QED
    BY <1>1, <1>2, <2>1, <2>2
       DEF CommandStep, NewStart, NewCreate, RemoveStart, RemoveKill, CommandAborts
<1>3. ASSUME NEW h \in Hooks, HookStep(h) PROVE ManagedKeysOnly'
  <2>1. ASSUME NEW k \in Keys, NEW input \in HookInputs, HookStart(h, k, input)
        PROVE  ManagedKeysOnly'
    <3>1. Live(k)
      BY <2>1 DEF HookStart, HasSession
    <3>2. k \in NewKeys
      BY <3>1, LiveIsManaged
    <3>3. UNCHANGED sessions /\ \A g \in Hooks \ {h} : hook'[g] = hook[g]
      BY <2>1 DEF HookStart, TypeOK
    <3>4. hook'[h].key = k
      BY <2>1 DEF HookStart, TypeOK
    <3> QED
      BY <3>2, <3>3, <3>4 DEF ManagedKeysOnly, NoPhantomRows
  <2>2. CASE hook[h] # Done /\ (hook'[h] = Done \/ hook'[h].key = hook[h].key)
             /\ (\A g \in Hooks \ {h} : hook'[g] = hook[g])
             /\ DOMAIN sessions' \subseteq DOMAIN sessions \cup {hook[h].key}
    BY <2>2 DEF ManagedKeysOnly, NoPhantomRows
  <2>3. ASSUME hook[h] # Done
        PROVE  AfterStatus(h) = Done \/ AfterStatus(h).key = hook[h].key
    BY <2>3, HookInFlight DEF AfterStatus, HookStates
  <2>4. CASE HookRead(h)
    <3>1. hook[h] # Done /\ UNCHANGED sessions /\ \A g \in Hooks \ {h} : hook'[g] = hook[g]
      BY <2>4 DEF HookRead, TypeOK
    <3>2. [hook[h] EXCEPT !.pc = "upsert"].key = hook[h].key
      BY <3>1, HookInFlight DEF HookStates
    <3>3. hook'[h] = Done \/ hook'[h].key = hook[h].key
      BY <2>3, <2>4, <3>1, <3>2 DEF HookRead, TypeOK
    <3> QED
      BY <2>2, <3>1, <3>3
  <2>5. CASE HookUpsert(h)
    <3>1. hook[h] # Done /\ \A g \in Hooks \ {h} : hook'[g] = hook[g]
      BY <2>5 DEF HookUpsert, TypeOK
    <3>2. hook'[h] = Done \/ hook'[h].key = hook[h].key
      BY <2>3, <2>5, <3>1 DEF HookUpsert, TypeOK
    <3>3. DOMAIN sessions' = DOMAIN sessions \cup {hook[h].key}
      BY <2>5 DEF HookUpsert, UpsertSessionStatus
    <3> QED
      BY <2>2, <3>1, <3>2, <3>3
  <2>6. CASE HookUpdateTool(h)
    <3>1. hook[h] # Done /\ \A g \in Hooks \ {h} : hook'[g] = hook[g]
      BY <2>6 DEF HookUpdateTool, TypeOK
    <3>2. hook'[h] = Done \/ hook'[h].key = hook[h].key
      <4>1. [hook[h] EXCEPT !.pc = "sessionID"].key = hook[h].key
        BY <3>1, HookInFlight DEF HookStates
      <4> QED
        BY <2>6, <4>1 DEF HookUpdateTool, TypeOK
    <3>3. DOMAIN sessions' = DOMAIN sessions
      BY <2>6 DEF HookUpdateTool, UpdateAgentTool
    <3> QED
      BY <2>2, <3>1, <3>2, <3>3
  <2>7. CASE HookUpdateSessionID(h)
    <3>1. hook[h] # Done /\ hook'[h] = Done /\ \A g \in Hooks \ {h} : hook'[g] = hook[g]
      BY <2>7 DEF HookUpdateSessionID, TypeOK
    <3>2. DOMAIN sessions' = DOMAIN sessions
      BY <2>7 DEF HookUpdateSessionID, UpdateAgentSessionID
    <3> QED
      BY <2>2, <3>1, <3>2
  <2>8. CASE HookAborts(h)
    <3>1. hook[h] # Done /\ hook'[h] = Done /\ \A g \in Hooks \ {h} : hook'[g] = hook[g]
      BY <2>8 DEF HookAborts, TypeOK
    <3> QED
      BY <2>2, <2>8, <3>1 DEF HookAborts
  <2> QED
    BY <1>3, <2>1, <2>4, <2>5, <2>6, <2>7, <2>8 DEF HookStep
<1>4. CASE MonitorStep
  <2>1. ASSUME NEW k \in Keys, MonitorDeleteDead(k) PROVE ManagedKeysOnly'
    <3>1. DOMAIN sessions' \subseteq DOMAIN sessions
      BY <2>1 DEF MonitorDeleteDead, DeleteSession
    <3> QED
      BY <1>1, <2>1, <3>1 DEF MonitorDeleteDead
  <2>2. ASSUME NEW k \in Keys, NEW target \in Statuses, MonitorSync(k, target)
        PROVE  ManagedKeysOnly'
    <3>1. DOMAIN sessions' = DOMAIN sessions
      BY <2>2 DEF MonitorSync, UpdateSessionStatusIfUnchanged
    <3> QED
      BY <1>1, <2>2, <3>1 DEF MonitorSync
  <2> QED
    BY <1>1, <1>4, <2>1, <2>2
       DEF MonitorStep, MonitorListSessions, MonitorListTmux, MonitorSkip, MonitorTickEnds
<1> QED
  BY <1>1, <1>2, <1>3, <1>4 DEF Next, MonitorStart, MonitorStop, SessionExits, vars

\* While no two keys share a tmux session name, no row is ever created for a
\* directory muxac made no session for.
THEOREM NoPhantomRowsEver == DistinctNames(Keys) => (Spec => []NoPhantomRows)
<1> SUFFICES ASSUME DistinctNames(Keys) PROVE Spec => []NoPhantomRows
  OBVIOUS
<1>1. Init => ManagedKeysOnly
  BY EmptyIsTable DEF Init, ManagedKeysOnly, NoPhantomRows
<1>2. TypeOK /\ ManagedKeysOnly /\ [Next]_vars => ManagedKeysOnly'
  BY NextManagedKeysOnly
<1>3. ManagedKeysOnly => NoPhantomRows
  BY DEF ManagedKeysOnly
<1> QED
  BY <1>1, <1>2, <1>3, TypeCorrect, PTL DEF Spec

-----------------------------------------------------------------------------
(* The monitor deletes only rows of sessions that were absent.  The order   *)
(* of the two listings carries the argument: once the rows are listed every *)
(* key without a session is known to have lapsed, so a session missing from *)
(* the later tmux listing has lapsed since the rows were listed.            *)

TickKnowsLapses ==
    /\ monPC \in {"listTmux", "sync"} => \A k \in Keys : ~Live(k) => k \in lapsed
    /\ monPC = "sync" => \A k \in Keys : ~ListedAlive(k) => k \in lapsed

LEMMA NextTickKnowsLapses ==
    ASSUME ~TmuxFaults
    PROVE  TypeOK /\ TickKnowsLapses /\ [Next]_vars => TickKnowsLapses'
<1> SUFFICES ASSUME TypeOK, TickKnowsLapses, [Next]_vars PROVE TickKnowsLapses'
  OBVIOUS
<1>1. CASE UNCHANGED <<monPC, alive, lapsed>> /\ tmux \subseteq tmux'
  BY <1>1 DEF TickKnowsLapses, Live, ListedAlive
<1>2. ASSUME NEW name, tmux' = tmux \ {name}, lapsed' = lapsed \cup NowWithout(name),
             UNCHANGED <<monPC, alive>>
      PROVE  TickKnowsLapses'
  BY <1>2 DEF TickKnowsLapses, Live, ListedAlive, NowWithout
<1>3. ASSUME NEW c \in Commands, CommandStep(c) PROVE TickKnowsLapses'
  BY <1>1, <1>2, <1>3
     DEF CommandStep, NewStart, NewUpsert, NewCreate, RemoveStart, RemoveKill, RemoveDelete,
         CommandAborts, monitorVars
<1>4. ASSUME NEW h \in Hooks, HookStep(h) PROVE TickKnowsLapses'
  BY <1>1, <1>4
     DEF HookStep, HookStart, HookRead, HookUpsert, HookUpdateTool, HookUpdateSessionID,
         HookAborts, monitorVars
<1>5. CASE MonitorStart \/ MonitorStop \/ MonitorTickEnds
  BY <1>5 DEF MonitorStart, MonitorStop, MonitorTickEnds, TickKnowsLapses
<1>6. CASE MonitorListSessions
  BY <1>6 DEF MonitorListSessions, TickKnowsLapses, Live
<1>7. CASE MonitorListTmux
  BY <1>7 DEF MonitorListTmux, TickKnowsLapses, Live, ListedAlive
<1>8. CASE MonitorStep
  BY <1>1, <1>5, <1>6, <1>7, <1>8
     DEF MonitorStep, MonitorDeleteDead, MonitorSync, MonitorSkip
<1>9. CASE \E name \in tmux : SessionExits(name)
  BY <1>2, <1>9 DEF SessionExits, monitorVars
<1> QED
  BY <1>1, <1>3, <1>4, <1>5, <1>8, <1>9 DEF Next, vars, monitorVars

LEMMA DeletesLapsed ==
    ASSUME TypeOK, TickKnowsLapses, [Next]_vars, NEW k \in Keys, MonitorDeletes(k)
    PROVE  k \in lapsed
<1> USE DoneIsDone
<1>1. CASE DOMAIN sessions \subseteq DOMAIN sessions'
  BY <1>1 DEF MonitorDeletes
<1>2. CASE \E c \in Commands : CommandStep(c)
  <2>1. CASE \E c \in Commands : NewUpsert(c)
    BY <1>1, <2>1 DEF NewUpsert, UpsertSessionStatus
  <2>2. CASE \E c \in Commands : RemoveDelete(c)
    BY <2>2 DEF RemoveDelete, MonitorDeletes, TypeOK
  <2> QED
    BY <1>1, <1>2, <2>1, <2>2
       DEF CommandStep, NewStart, NewCreate, RemoveStart, RemoveKill, CommandAborts
<1>3. CASE \E h \in Hooks : HookStep(h)
  BY <1>1, <1>3
     DEF HookStep, HookStart, HookRead, HookUpsert, HookUpdateTool, HookUpdateSessionID,
         HookAborts, UpsertSessionStatus, UpdateAgentTool, UpdateAgentSessionID
<1>4. CASE MonitorStep
  <2>1. ASSUME NEW j \in Keys, MonitorDeleteDead(j) PROVE k \in lapsed
    <3>1. k = j
      BY <2>1 DEF MonitorDeleteDead, DeleteSession, MonitorDeletes
    <3> QED
      BY <2>1, <3>1 DEF MonitorDeleteDead, TickKnowsLapses
  <2>2. CASE \E j \in Keys, target \in Statuses : MonitorSync(j, target)
    BY <1>1, <2>2 DEF MonitorSync, UpdateSessionStatusIfUnchanged
  <2> QED
    BY <1>1, <1>4, <2>1, <2>2
       DEF MonitorStep, MonitorListSessions, MonitorListTmux, MonitorSkip, MonitorTickEnds
<1> QED
  BY <1>1, <1>2, <1>3, <1>4 DEF Next, MonitorStart, MonitorStop, SessionExits, vars

\* While no tmux query fails, the monitor deletes a row only if its tmux
\* session was absent at some time since the tick read the row.
THEOREM DeletesOnlyLapsed == ~TmuxFaults => (Spec => DeletesOnlyLapsedSessions)
<1> SUFFICES ASSUME ~TmuxFaults PROVE Spec => DeletesOnlyLapsedSessions
  OBVIOUS
<1>1. Init => TickKnowsLapses
  BY DEF Init, TickKnowsLapses
<1>2. TypeOK /\ TickKnowsLapses /\ [Next]_vars => TickKnowsLapses'
  BY NextTickKnowsLapses
<1>3. TypeOK /\ TickKnowsLapses /\ [Next]_vars
        => [\A k \in Keys : MonitorDeletes(k) => k \in lapsed]_vars
  BY DeletesLapsed
<1> QED
  BY <1>1, <1>2, <1>3, TypeCorrect, PTL DEF Spec, DeletesOnlyLapsedSessions

-----------------------------------------------------------------------------
(* The monitor respects hooks: commands and hooks that write a row move on  *)
(* in the same step, so a step of neither is the monitor's, which deletes   *)
(* or swaps.                                                                *)

\* A row the table has after a swap was there before it, and either is as it
\* was or had the status the swap expected.
LEMMA SwapRespects ==
    ASSUME NEW t, NEW j, NEW status, NEW since, NEW expected,
           t \in [DOMAIN t -> Row],
           NEW k \in DOMAIN UpdateSessionStatusIfUnchanged(t, j, status, since, expected)
    PROVE  /\ k \in DOMAIN t
           /\ \/ UpdateSessionStatusIfUnchanged(t, j, status, since, expected)[k] = t[k]
              \/ k = j /\ t[k].status = expected
  BY DEF UpdateSessionStatusIfUnchanged

LEMMA MonitorChanges ==
    ASSUME TypeOK, [Next]_vars, cmd' = cmd, hook' = hook, NEW k \in DOMAIN sessions'
    PROVE  \/ k \in DOMAIN sessions /\ sessions'[k] = sessions[k]
           \/ /\ k \in DOMAIN sessions \cap DOMAIN snapshot
              /\ sessions[k].status = snapshot[k].status
<1> USE DoneIsDone
<1>1. CASE sessions' = sessions
  BY <1>1
<1>2. CASE \E c \in Commands : CommandStep(c)
  <2> SUFFICES ASSUME NEW c \in Commands, CommandStep(c) PROVE sessions' = sessions
    BY <1>1, <1>2
  <2>1. ~NewUpsert(c)
    BY DEF NewUpsert, TypeOK, CommandStates
  <2>2. ~RemoveDelete(c)
    BY DEF RemoveDelete, TypeOK, CommandStates
  <2> QED
    BY <2>1, <2>2
       DEF CommandStep, NewStart, NewCreate, RemoveStart, RemoveKill, CommandAborts
<1>3. CASE \E h \in Hooks : HookStep(h)
  <2> SUFFICES ASSUME NEW h \in Hooks, HookStep(h) PROVE sessions' = sessions
    BY <1>1, <1>3
  <2>1. hook[h] = Done \/ hook[h] \in HookStates
    BY DEF TypeOK
  <2>2. ~HookUpsert(h)
    BY <2>1 DEF HookUpsert, AfterStatus, HookStates, TypeOK
  <2>3. ~HookUpdateTool(h)
    BY <2>1 DEF HookUpdateTool, HookStates, TypeOK
  <2>4. ~HookUpdateSessionID(h)
    BY <2>1 DEF HookUpdateSessionID, HookStates, TypeOK
  <2> QED
    BY <2>2, <2>3, <2>4 DEF HookStep, HookStart, HookRead, HookAborts
<1>4. ASSUME NEW j \in Keys, MonitorDeleteDead(j)
      PROVE  k \in DOMAIN sessions /\ sessions'[k] = sessions[k]
  BY <1>4 DEF MonitorDeleteDead, DeleteSession
<1>5. ASSUME NEW j \in Keys, NEW target \in Statuses, MonitorSync(j, target)
      PROVE  \/ k \in DOMAIN sessions /\ sessions'[k] = sessions[k]
             \/ /\ k \in DOMAIN sessions \cap DOMAIN snapshot
                /\ sessions[k].status = snapshot[k].status
  <2>1. j \in DOMAIN snapshot
    BY <1>5 DEF MonitorSync, TypeOK
  <2>2. sessions \in [DOMAIN sessions -> Row]
    BY DEF TypeOK, IsTable
  <2> QED
    BY <1>5, <2>1, <2>2, SwapRespects DEF MonitorSync
<1> QED
  BY <1>1, <1>2, <1>3, <1>4, <1>5
     DEF Next, MonitorStart, MonitorStop, MonitorStep, MonitorListSessions,
         MonitorListTmux, MonitorSkip, MonitorTickEnds, SessionExits, vars

\* A row the monitor changes still has the status the tick listed it with, and
\* the monitor never brings a deleted row back.
THEOREM MonitorAlwaysRespectsHooks == Spec => MonitorRespectsHooks
<1>1. TypeOK /\ [Next]_vars
        => [cmd' = cmd /\ hook' = hook =>
              \A k \in DOMAIN sessions' :
                 \/ /\ k \in DOMAIN sessions
                    /\ sessions'[k] = sessions[k]
                 \/ /\ k \in DOMAIN sessions \cap DOMAIN snapshot
                    /\ sessions[k].status = snapshot[k].status]_vars
  BY MonitorChanges
<1> QED
  BY <1>1, TypeCorrect, PTL DEF Spec, MonitorRespectsHooks

-----------------------------------------------------------------------------
(* Only hooks that have passed their check revive the dead.  A hook that    *)
(* writes a status is done with it, and the check itself fails while the    *)
(* tmux session is gone, so each of them revives a row at most once.        *)

\* Nobody but a hook that has passed its check may write a row of k.
Unattended(k) == ~Live(k) /\ \A c \in Commands : ~AtKey(c, k)

\* A hook h goes on, if at all, with its key; it is no writer unless it was.
GoesOn(h) ==
    /\ \A g \in Hooks \ {h} : hook'[g] = hook[g]
    /\ hook'[h].pc \in {"read", "upsert"} =>
          hook[h].pc \in {"read", "upsert"} /\ hook'[h].key = hook[h].key

LEMMA GoesOnWriters ==
    ASSUME NEW h \in Hooks, GoesOn(h), NEW k
    PROVE  Writers(k)' \subseteq Writers(k)
BY DEF GoesOn, Writers

\* Once the status is as the event wants it, a hook writes none any more.
LEMMA AfterStatusWritesNone ==
    ASSUME TypeOK, NEW h \in Hooks, hook[h] # Done
    PROVE  AfterStatus(h).pc \notin {"read", "upsert"}
<1>1. hook[h] \in HookStates
  BY DEF TypeOK
<1>. QED
  BY <1>1, DoneIsDone, HookInFlight DEF AfterStatus, HookStates

LEMMA HookStepRevives ==
    ASSUME TypeOK, NEW h \in Hooks, HookStep(h), NEW k \in Keys, Unattended(k)
    PROVE  /\ Writers(k)' \subseteq Writers(k)
           /\ k \in DOMAIN sessions' \ DOMAIN sessions => Writers(k)' # Writers(k)
<1>. USE DoneIsDone
<1>0. hook \in [Hooks -> HookStates]
  BY DEF TypeOK
<1>1. ASSUME NEW j \in Keys, NEW input \in HookInputs, HookStart(h, j, input)
      PROVE  Writers(k)' \subseteq Writers(k) /\ UNCHANGED sessions
  <2>1. j # k
    BY <1>1 DEF HookStart, HasSession, Unattended
  <2>2. hook'[h].key = j /\ \A g \in Hooks \ {h} : hook'[g] = hook[g]
    BY <1>0, <1>1 DEF HookStart
  <2>. QED
    BY <1>1, <2>1, <2>2 DEF HookStart, Writers
<1>2. CASE HookRead(h)
  <2>1. hook[h] # Done /\ hook[h].pc = "read"
    BY <1>2 DEF HookRead
  <2>2. [hook[h] EXCEPT !.pc = "upsert"].key = hook[h].key
    BY <1>0, <2>1, HookInFlight DEF HookStates
  <2>3. \/ hook'[h] = Done
        \/ hook'[h] = [hook[h] EXCEPT !.pc = "upsert"]
        \/ hook'[h] = AfterStatus(h)
    BY <1>0, <1>2 DEF HookRead
  <2>4. \A g \in Hooks \ {h} : hook'[g] = hook[g]
    BY <1>0, <1>2 DEF HookRead
  <2>5. GoesOn(h)
    BY <2>1, <2>2, <2>3, <2>4, AfterStatusWritesNone DEF GoesOn
  <2>. QED
    BY <1>2, <2>5, GoesOnWriters DEF HookRead
<1>3. CASE HookUpsert(h)
  <2>1. hook[h] # Done /\ hook[h].pc = "upsert"
    BY <1>3 DEF HookUpsert
  <2>2. hook'[h] = AfterStatus(h) /\ \A g \in Hooks \ {h} : hook'[g] = hook[g]
    BY <1>0, <1>3 DEF HookUpsert
  <2>3. h \notin Writers(k)' /\ GoesOn(h)
    BY <2>1, <2>2, AfterStatusWritesNone DEF GoesOn, Writers
  <2>4. DOMAIN sessions' = DOMAIN sessions \cup {hook[h].key}
    BY <1>3 DEF HookUpsert, UpsertSessionStatus
  <2>5. k \in DOMAIN sessions' \ DOMAIN sessions => h \in Writers(k)
    BY <2>1, <2>4 DEF Writers
  <2>. QED
    BY <2>3, <2>5, GoesOnWriters
<1>4. CASE HookUpdateTool(h)
  <2>1. hook'[h] = Done \/ hook'[h] = [hook[h] EXCEPT !.pc = "sessionID"]
    BY <1>0, <1>4 DEF HookUpdateTool
  <2>2. hook[h] # Done /\ [hook[h] EXCEPT !.pc = "sessionID"].pc = "sessionID"
    BY <1>0, <1>4, HookInFlight DEF HookUpdateTool, HookStates
  <2>3. \A g \in Hooks \ {h} : hook'[g] = hook[g]
    BY <1>0, <1>4 DEF HookUpdateTool
  <2>4. DOMAIN sessions' = DOMAIN sessions
    BY <1>4 DEF HookUpdateTool, UpdateAgentTool
  <2>. QED
    BY <2>1, <2>2, <2>3, <2>4, GoesOnWriters DEF GoesOn
<1>5. CASE HookUpdateSessionID(h) \/ HookAborts(h)
  <2>1. hook'[h] = Done /\ \A g \in Hooks \ {h} : hook'[g] = hook[g]
    BY <1>0, <1>5 DEF HookUpdateSessionID, HookAborts
  <2>2. DOMAIN sessions' = DOMAIN sessions
    BY <1>5 DEF HookUpdateSessionID, HookAborts, UpdateAgentSessionID
  <2>. QED
    BY <2>1, <2>2, GoesOnWriters DEF GoesOn
<1>. QED
  BY <1>1, <1>2, <1>3, <1>4, <1>5 DEF HookStep

LEMMA StepRevives ==
    ASSUME TypeOK, [Next]_vars, NEW k \in Keys, Unattended(k)
    PROVE  /\ Writers(k)' \subseteq Writers(k)
           /\ k \in DOMAIN sessions' \ DOMAIN sessions => Writers(k)' # Writers(k)
<1>1. CASE UNCHANGED hook /\ k \notin DOMAIN sessions' \ DOMAIN sessions
  BY <1>1 DEF Writers
<1>2. ASSUME NEW c \in Commands, CommandStep(c)
      PROVE  UNCHANGED hook /\ k \notin DOMAIN sessions' \ DOMAIN sessions
  <2>1. CASE NewUpsert(c)
    <3>1. cmd[c].key # k
      BY <2>1, DoneIsDone DEF NewUpsert, Unattended, AtKey
    <3>2. DOMAIN sessions' = DOMAIN sessions \cup {cmd[c].key}
      BY <2>1 DEF NewUpsert, UpsertSessionStatus
    <3>. QED
      BY <2>1, <3>1, <3>2 DEF NewUpsert
  <2>2. CASE RemoveDelete(c)
    BY <2>2 DEF RemoveDelete, DeleteSession
  <2>. QED
    BY <1>2, <2>1, <2>2
       DEF CommandStep, NewStart, NewCreate, RemoveStart, RemoveKill, CommandAborts
<1>3. CASE \E h \in Hooks : HookStep(h)
  BY <1>3, HookStepRevives
<1>4. CASE MonitorStep
  <2>1. ASSUME NEW j \in Keys, MonitorDeleteDead(j)
        PROVE  UNCHANGED hook /\ k \notin DOMAIN sessions' \ DOMAIN sessions
    BY <2>1 DEF MonitorDeleteDead, DeleteSession
  <2>2. ASSUME NEW j \in Keys, NEW target \in Statuses, MonitorSync(j, target)
        PROVE  UNCHANGED hook /\ k \notin DOMAIN sessions' \ DOMAIN sessions
    BY <2>2 DEF MonitorSync, UpdateSessionStatusIfUnchanged
  <2>. QED
    BY <1>1, <1>4, <2>1, <2>2
       DEF MonitorStep, MonitorListSessions, MonitorListTmux, MonitorSkip, MonitorTickEnds
<1>. QED
  BY <1>1, <1>2, <1>3, <1>4 DEF Next, MonitorStart, MonitorStop, SessionExits, vars

\* While the tmux session of a key is gone and no command works on the key, the
\* hooks that may still write its row only get fewer, and each brings it back
\* at most once; without them a row that is gone stays gone.
THEOREM OnlyOldHooksReviveRows ==
    /\ Spec => OnlyOldHooksRevive
    /\ \A k \in Keys :
          Spec /\ []Unattended(k) =>
            [](k \notin DOMAIN sessions /\ Writers(k) = {} => [](k \notin DOMAIN sessions))
<1>1. TypeOK /\ [Next]_vars =>
        [\A k \in Keys : ~Live(k) /\ (\A c \in Commands : ~AtKey(c, k)) =>
           /\ Writers(k)' \subseteq Writers(k)
           /\ k \in DOMAIN sessions' \ DOMAIN sessions => Writers(k)' # Writers(k)]_vars
  BY StepRevives DEF Unattended
<1>2. Spec => OnlyOldHooksRevive
  BY <1>1, TypeCorrect, PTL DEF Spec, OnlyOldHooksRevive
<1>3. ASSUME NEW k \in Keys
      PROVE  Spec /\ []Unattended(k) =>
               [](k \notin DOMAIN sessions /\ Writers(k) = {} => [](k \notin DOMAIN sessions))
  <2>1. TypeOK /\ Unattended(k) /\ [Next]_vars /\ (k \notin DOMAIN sessions /\ Writers(k) = {})
          => (k \notin DOMAIN sessions /\ Writers(k) = {})'
    BY StepRevives
  <2>. QED
    BY <2>1, TypeCorrect, PTL DEF Spec
<1>. QED
  BY <1>2, <1>3

-----------------------------------------------------------------------------
(* Which keys share no tmux session name: fromDir is undone where a path    *)
(* has neither of the characters it writes, and the name ends at the first  *)
(* "@" where it has none.  Other keys may still be distinct; "/a.b" and     *)
(* "/a_b" are not.                                                          *)

\* Names without "@" and absolute paths without "@" and "_".
PlainKeys(characters) ==
    [name : Seq(characters \ {"@"}),
     path : {p \in Seq(characters \ {"@", "_"}) : p # <<>> /\ p[1] = "/"}]

LEMMA SeqElements ==
    ASSUME NEW S, NEW s \in Seq(S)
    PROVE  Len(s) \in Nat /\ \A i \in 1 .. Len(s) : s[i] \in S
OBVIOUS

LEMMA SeqNotEmpty ==
    ASSUME NEW S, NEW s \in Seq(S)
    PROVE  s # <<>> <=> Len(s) >= 1
OBVIOUS

LEMMA WiderSeq ==
    ASSUME NEW S, NEW T, S \subseteq T, NEW s \in Seq(S)
    PROVE  s \in Seq(T)
<1>1. Len(s) \in Nat /\ s = [i \in 1 .. Len(s) |-> s[i]] /\ \A i \in 1 .. Len(s) : s[i] \in T
  OBVIOUS
<1>. QED
  BY <1>1

LEMMA FromDirAt ==
    ASSUME NEW S, NEW dir \in Seq(S), NEW i \in 1 .. Len(dir)
    PROVE  /\ dir[i] = "/" => FromDir(dir)[i] = "@"
           /\ dir[i] = "." => FromDir(dir)[i] = "_"
           /\ dir[i] \notin {"/", "."} => FromDir(dir)[i] = dir[i]
<1>1. i \in DOMAIN dir
  OBVIOUS
<1>2. FromDir(dir)[i] = CASE dir[i] = "/" -> "@" [] dir[i] = "." -> "_" [] OTHER -> dir[i]
  BY <1>1 DEF FromDir
<1>3. "/" # "."
  OBVIOUS
<1>. QED
  BY <1>2, <1>3, Zenon

LEMMA FromDirSeq ==
    ASSUME NEW S, NEW dir \in Seq(S)
    PROVE  FromDir(dir) \in Seq(S \cup {"@", "_"}) /\ Len(FromDir(dir)) = Len(dir)
<1>. DEFINE n == Len(dir)
            T == S \cup {"@", "_"}
<1>1. n \in Nat /\ DOMAIN dir = 1 .. n /\ \A i \in 1 .. n : dir[i] \in S
  OBVIOUS
<1>2. ASSUME NEW i \in 1 .. n PROVE FromDir(dir)[i] \in T
  <2>1. /\ dir[i] = "/" => FromDir(dir)[i] = "@"
        /\ dir[i] = "." => FromDir(dir)[i] = "_"
        /\ dir[i] \notin {"/", "."} => FromDir(dir)[i] = dir[i]
    BY FromDirAt
  <2>2. dir[i] \in S
    BY <1>1
  <2>. QED
    BY <2>1, <2>2
<1>3. FromDir(dir) = [i \in 1 .. n |-> FromDir(dir)[i]]
  BY <1>1, Zenon DEF FromDir
<1>. HIDE DEF n, T
<1>4. [i \in 1 .. n |-> FromDir(dir)[i]] \in Seq(T)
  BY <1>1, <1>2
<1>5. Len([i \in 1 .. n |-> FromDir(dir)[i]]) = n
  BY <1>1
<1>. QED
  BY <1>3, <1>4, <1>5 DEF n, T

\* What fromDir makes of a character that is not one of those it writes.
LEMMA SameCharacter ==
    ASSUME NEW a, NEW b, NEW x, NEW y, x = y,
           a \notin {"@", "_"}, b \notin {"@", "_"},
           a = "/" => x = "@", a = "." => x = "_", a \notin {"/", "."} => x = a,
           b = "/" => y = "@", b = "." => y = "_", b \notin {"/", "."} => y = b
    PROVE  a = b
OBVIOUS

\* On paths without the characters it writes, fromDir is injective.
LEMMA FromDirInjective ==
    ASSUME NEW S, "@" \notin S, "_" \notin S, NEW p \in Seq(S), NEW q \in Seq(S),
           FromDir(p) = FromDir(q)
    PROVE  p = q
<1>1. Len(p) = Len(q)
  <2>1. Len(FromDir(p)) = Len(p) /\ Len(FromDir(q)) = Len(q)
    BY FromDirSeq
  <2>. QED
    BY <2>1, Zenon
<1>2. ASSUME NEW i \in 1 .. Len(p) PROVE p[i] = q[i]
  <2>1. i \in 1 .. Len(q)
    BY <1>1, Zenon
  <2>2. FromDir(p)[i] = FromDir(q)[i] /\ p[i] \in S /\ q[i] \in S
    BY <2>1, SeqElements, Zenon
  <2>3. /\ p[i] = "/" => FromDir(p)[i] = "@"
        /\ p[i] = "." => FromDir(p)[i] = "_"
        /\ p[i] \notin {"/", "."} => FromDir(p)[i] = p[i]
    BY FromDirAt
  <2>4. /\ q[i] = "/" => FromDir(q)[i] = "@"
        /\ q[i] = "." => FromDir(q)[i] = "_"
        /\ q[i] \notin {"/", "."} => FromDir(q)[i] = q[i]
    BY <2>1, FromDirAt
  <2>5. p[i] \notin {"@", "_"} /\ q[i] \notin {"@", "_"}
    BY <2>2, Zenon
  <2>. QED
    BY <2>2, <2>3, <2>4, <2>5, SameCharacter, Zenon
<1>. QED
  BY <1>1, <1>2, SeqEqual, Zenon

\* A name without "@" ends where the first "@" of the session name is.
LEMMA NameEndsAtPath ==
    ASSUME NEW S, NEW m \in Seq(S), NEW n \in Seq(S), NEW p \in Seq(S), NEW q \in Seq(S),
           \A i \in 1 .. Len(n) : n[i] # "@",
           p # <<>>, p[1] = "@", m \o p = n \o q
    PROVE  Len(n) <= Len(m)
<1>1. Len(m) \in Nat /\ Len(n) \in Nat /\ Len(p) \in Nat /\ Len(q) \in Nat /\ Len(p) >= 1
  OBVIOUS
<1>2. ASSUME Len(m) < Len(n) PROVE FALSE
  <2>1. (m \o p)[Len(m) + 1] = p[1]
    <3>1. \A i \in 1 .. Len(m) + Len(p) :
             (m \o p)[i] = IF i <= Len(m) THEN m[i] ELSE p[i - Len(m)]
      BY ConcatProperties, Zenon
    <3>2. /\ Len(m) + 1 \in 1 .. Len(m) + Len(p)
          /\ ~(Len(m) + 1 <= Len(m)) /\ (Len(m) + 1) - Len(m) = 1
      BY <1>1
    <3>. QED
      BY <3>1, <3>2
  <2>2. (n \o q)[Len(m) + 1] = n[Len(m) + 1]
    <3>1. \A i \in 1 .. Len(n) + Len(q) :
             (n \o q)[i] = IF i <= Len(n) THEN n[i] ELSE q[i - Len(n)]
      BY ConcatProperties, Zenon
    <3>2. Len(m) + 1 \in 1 .. Len(n) + Len(q) /\ Len(m) + 1 <= Len(n)
      BY <1>1, <1>2
    <3>. QED
      BY <3>1, <3>2
  <2>3. n[Len(m) + 1] # "@"
    BY <1>1, <1>2
  <2>. QED
    BY <2>1, <2>2, <2>3
<1>. QED
  BY <1>1, <1>2

\* No two plain keys share a tmux session name, whatever their characters.
THEOREM PlainKeysAreDistinct == ASSUME NEW characters PROVE DistinctNames(PlainKeys(characters))
<1>. DEFINE N == characters \ {"@"}
            P == characters \ {"@", "_"}
            S == characters \cup {"@", "_"}
<1>. SUFFICES ASSUME NEW j \in PlainKeys(characters), NEW k \in PlainKeys(characters),
                     TmuxSessionName(j) = TmuxSessionName(k)
              PROVE  j = k
  BY DEF DistinctNames
<1>. DEFINE m == j.name
            n == k.name
            p == FromDir(j.path)
            q == FromDir(k.path)
<1>1. /\ j = [name |-> m, path |-> j.path] /\ k = [name |-> n, path |-> k.path]
      /\ m \in Seq(N) /\ n \in Seq(N)
      /\ j.path \in Seq(P) /\ k.path \in Seq(P)
      /\ j.path # <<>> /\ k.path # <<>> /\ j.path[1] = "/" /\ k.path[1] = "/"
  BY DEF PlainKeys
<1>2. N \subseteq S /\ P \subseteq S /\ P \cup {"@", "_"} \subseteq S
      /\ "@" \notin N /\ "@" \notin P /\ "_" \notin P
  OBVIOUS
<1>3. m \o p = n \o q
  BY DEF TmuxSessionName
<1>. HIDE DEF N, P, S, m, n
<1>4. ASSUME NEW path \in Seq(P), path # <<>>, path[1] = "/"
      PROVE  FromDir(path) \in Seq(S) /\ FromDir(path) # <<>> /\ FromDir(path)[1] = "@"
  <2>1. FromDir(path) \in Seq(P \cup {"@", "_"}) /\ Len(FromDir(path)) = Len(path)
    BY FromDirSeq
  <2>2. Len(path) \in Nat /\ Len(path) >= 1
    BY <1>4, SeqElements, SeqNotEmpty
  <2>3. FromDir(path)[1] = "@"
    <3>1. 1 \in 1 .. Len(path)
      BY <2>2
    <3>. QED
      BY <1>4, <3>1, FromDirAt
  <2>4. FromDir(path) \in Seq(S)
    BY <1>2, <2>1, WiderSeq
  <2>5. FromDir(path) # <<>>
    BY <2>1, <2>2, <2>4, SeqNotEmpty, Zenon
  <2>. QED
    BY <2>3, <2>4, <2>5
<1>5. /\ p \in Seq(S) /\ p # <<>> /\ p[1] = "@"
      /\ q \in Seq(S) /\ q # <<>> /\ q[1] = "@"
  BY <1>1, <1>4
<1>. HIDE DEF p, q
<1>6. m \in Seq(S) /\ n \in Seq(S) /\ Len(m) \in Nat /\ Len(n) \in Nat
      /\ (\A i \in 1 .. Len(m) : m[i] # "@") /\ (\A i \in 1 .. Len(n) : n[i] # "@")
  <2>1. m \in Seq(S) /\ n \in Seq(S)
    BY <1>1, <1>2, WiderSeq
  <2>. QED
    BY <1>1, <1>2, <2>1, SeqElements, Zenon
<1>7. Len(m) = Len(n)
  <2>1. Len(n) <= Len(m)
    BY <1>3, <1>5, <1>6, NameEndsAtPath
  <2>2. Len(m) <= Len(n)
    BY <1>3, <1>5, <1>6, NameEndsAtPath
  <2>. QED
    BY <1>6, <2>1, <2>2
<1>8. m = n
  <2>1. ASSUME NEW i \in 1 .. Len(m) PROVE m[i] = n[i]
    <3>1. Len(p) \in Nat /\ Len(q) \in Nat
      BY <1>5
    <3>2. (m \o p)[i] = m[i]
      BY <1>5, <1>6, <3>1, ConcatProperties, SMTT(30)
    <3>3. (n \o q)[i] = n[i]
      BY <1>5, <1>6, <1>7, <3>1, ConcatProperties, SMTT(30)
    <3>. QED
      BY <1>3, <3>2, <3>3
  <2>. QED
    BY <1>6, <1>7, <2>1
<1>9. p = q
  BY <1>3, <1>5, <1>6, <1>8, ConcatSimplifications
<1>10. j.path = k.path
  BY <1>1, <1>2, <1>9, FromDirInjective DEF p, q
<1>. QED
  BY <1>1, <1>8, <1>10

\* So where all keys are plain, no phantom rows need no further assumption.
COROLLARY PlainKeysHaveNoPhantoms ==
    ASSUME NEW characters, Keys \subseteq PlainKeys(characters)
    PROVE  Spec => []NoPhantomRows
<1>1. DistinctNames(Keys)
  BY PlainKeysAreDistinct DEF DistinctNames
<1>. QED
  BY <1>1, NoPhantomRowsEver
=============================================================================
