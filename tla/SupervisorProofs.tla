--------------------------- MODULE SupervisorProofs ---------------------------
(***************************************************************************)
(* Proofs about Supervisor: there is one monitor that goes on, a command   *)
(* fails only because of a race or a failing call, and a monitor in charge *)
(* stays in charge, for any number of commands, builds and processes.      *)
(***************************************************************************)
EXTENDS Supervisor, TLAPS

\* What a command that nobody disturbed has found about the session still
\* holds, and so its tmux call succeeds.
FindingsHold ==
    \A c \in Commands : ~disturbed[c] =>
        /\ cmd[c] \in {"read", "kill"} => session # None
        /\ cmd[c] = "start" => session = None
        /\ cmd[c] # "failed"

LEMMA InitType == Init => TypeOK
BY BuildAssumption, StaleAssumption, NamesAssumption
   DEF Init, TypeOK, Process, ProcessStates, Gone, Heartbeat, Living

LEMMA BeginType == ASSUME TypeOK, NEW c \in Commands, Begin(c) PROVE TypeOK'
BY DEF TypeOK, Begin, Goes, UnderWay, monitor, Living

LEMMA ReadType ==
    ASSUME TypeOK, NEW c \in Commands, ReadHeartbeat(c) \/ ReadFails(c) \/ GivesUp(c)
    PROVE  TypeOK'
BY DEF TypeOK, ReadHeartbeat, ReadFails, GivesUp, Goes, monitor, Living

LEMMA KillType == ASSUME TypeOK, NEW c \in Commands, Kill(c) PROVE TypeOK'
<1>1. CASE session = None
  BY <1>1 DEF TypeOK, Kill, Goes, monitor, Living
<1>2. CASE session # None
  <2>. session \in Processes /\ process[session].state \in {"boot", "run", "hung"}
    BY <1>2 DEF TypeOK, Living
  <2>1. process' = [process EXCEPT ![session].state = "dying"] /\ session' = None
    BY <1>2 DEF Kill
  <2>2. process' \in [Processes -> Process]
    BY <2>1 DEF TypeOK, Process, ProcessStates
  <2>3. Living' = {}
    BY <1>2, <2>1 DEF TypeOK, Living
  <2>. QED
    BY <1>2, <2>1, <2>2, <2>3 DEF TypeOK, Kill, Goes, Disturbs, UnderWay
<1>. QED
  BY <1>1, <1>2

LEMMA StartType == ASSUME TypeOK, NEW c \in Commands, Start(c) PROVE TypeOK'
<1>1. CASE session # None
  BY <1>1 DEF TypeOK, Start, Goes, monitor, Living
<1>2. CASE session = None
  <2>1. PICK p \in Processes :
            /\ process[p] = Gone
            /\ session' = p
            /\ process' = [process EXCEPT ![p] = [state |-> "boot", build |-> Build[c]]]
    BY <1>2 DEF Start
  <2>2. process' \in [Processes -> Process]
    BY <2>1, BuildAssumption DEF TypeOK, Process, ProcessStates
  <2>3. Living' = {p}
    BY <1>2, <2>1 DEF TypeOK, Living
  <2>4. session' # None
    BY <2>1, NamesAssumption
  <2>. QED
    BY <1>2, <2>1, <2>2, <2>3, <2>4 DEF TypeOK, Start, Goes, Disturbs, UnderWay
<1>. QED
  BY <1>1, <1>2

LEMMA BeatType ==
    ASSUME TypeOK, NEW p \in Processes, Boot(p) \/ Beat(p) PROVE TypeOK'
<1>1. process[p].build \in Builds \cup {None} /\ 0 \in 0 .. Stale
  BY StaleAssumption DEF TypeOK, Process
<1>2. heartbeat' \in Heartbeat
  BY <1>1 DEF Boot, Beat, UpsertMonitorHeartbeat, Heartbeat
<1>3. process' \in [Processes -> Process] /\ Living' = Living
  BY DEF TypeOK, Boot, Beat, Process, ProcessStates, Living
<1>. QED
  BY <1>2, <1>3 DEF TypeOK, Boot, Beat

LEMMA EndsType == ASSUME TypeOK, NEW p \in Processes, Ends(p) PROVE TypeOK'
<1>1. process[p].build \in Builds \cup {None} /\ 0 \in 0 .. Stale
  BY StaleAssumption DEF TypeOK, Process
<1>2. heartbeat' \in Heartbeat
  BY <1>1 DEF TypeOK, Ends, UpsertMonitorHeartbeat, Heartbeat
<1>3. process' \in [Processes -> Process] /\ Living' = Living
  BY DEF TypeOK, Ends, Gone, Process, ProcessStates, Living
<1>. QED
  BY <1>2, <1>3 DEF TypeOK, Ends

LEMMA DiesType == ASSUME TypeOK, NEW p \in Processes, Dies(p) PROVE TypeOK'
<1>1. Living = {p}
  BY DEF TypeOK, Dies
<1>2. process' \in [Processes -> Process] /\ Living' = {}
  BY <1>1 DEF TypeOK, Dies, Gone, Process, ProcessStates, Living
<1>. QED
  BY <1>2 DEF TypeOK, Dies, Disturbs, UnderWay

LEMMA HangsType ==
    ASSUME TypeOK, NEW p \in Processes, Hangs(p) \/ Resumes(p) PROVE TypeOK'
<1>1. process' \in [Processes -> Process] /\ Living' = Living
  BY DEF TypeOK, Hangs, Resumes, Process, ProcessStates, Living
<1>. QED
  BY <1>1 DEF TypeOK, Hangs, Resumes

LEMMA TimeType == ASSUME TypeOK, TimePasses PROVE TypeOK'
<1>1. heartbeat' \in Heartbeat
  BY StaleAssumption DEF TypeOK, TimePasses, Heartbeat
<1>. QED
  BY <1>1 DEF TypeOK, TimePasses, Living

LEMMA CalmType == ASSUME TypeOK, NEW b \in Builds, BecomesCalm(b) PROVE TypeOK'
BY DEF TypeOK, BecomesCalm, monitor, Living

LEMMA NextType == TypeOK /\ [Next]_vars => TypeOK'
<1>. SUFFICES ASSUME TypeOK, [Next]_vars PROVE TypeOK'
  OBVIOUS
<1>1. ASSUME NEW c \in Commands, EnsureRunning(c) \/ GivesUp(c) PROVE TypeOK'
  BY <1>1, BeginType, ReadType, KillType, StartType DEF EnsureRunning
<1>2. ASSUME NEW p \in Processes, MonitorStep(p) \/ Resumes(p) PROVE TypeOK'
  BY <1>2, BeatType, EndsType, HangsType DEF MonitorStep
<1>3. CASE Fault
  BY <1>3, ReadType, DiesType, HangsType DEF Fault
<1>4. CASE TimePasses
  BY <1>4, TimeType
<1>5. ASSUME NEW b \in Builds, BecomesCalm(b) PROVE TypeOK'
  BY <1>5, CalmType
<1>6. CASE UNCHANGED vars
  BY <1>6 DEF TypeOK, vars, monitor, Living
<1>. QED
  BY <1>1, <1>2, <1>3, <1>4, <1>5, <1>6 DEF Next

\* Every variable keeps its type, and at most one monitor is not on its way
\* out, for any commands, builds and faults.
THEOREM TypeCorrect == Spec => []TypeOK
<1>. QED
  BY InitType, NextType, PTL DEF Spec

-----------------------------------------------------------------------------
(* A command fails only because of a race. *)

LEMMA InitFindings == Init => FindingsHold
BY DEF Init, FindingsHold

\* Commands that are under way and not in C come out disturbed.
LEMMA Disturbed ==
    ASSUME TypeOK, NEW C, Disturbs(C), NEW c \in Commands
    PROVE  /\ disturbed[c] => disturbed'[c]
           /\ UnderWay(c) /\ c \notin C => disturbed'[c]
BY DEF TypeOK, Disturbs

LEMMA KillFindings ==
    ASSUME TypeOK, FindingsHold, NEW c \in Commands, Kill(c) PROVE FindingsHold'
<1>. SUFFICES ASSUME NEW d \in Commands, ~disturbed'[d]
              PROVE  /\ cmd'[d] \in {"read", "kill"} => session' # None
                     /\ cmd'[d] = "start" => session' = None
                     /\ cmd'[d] # "failed"
  BY DEF FindingsHold
<1>1. CASE session = None
  BY <1>1 DEF TypeOK, FindingsHold, Kill, Goes, monitor
<1>2. CASE session # None
  <2>1. Disturbs({c}) /\ session' = None /\ cmd' = [cmd EXCEPT ![c] = "start"]
    BY <1>2 DEF Kill, Goes
  <2>2. ~disturbed[d] /\ (UnderWay(d) => d = c)
    BY <2>1, Disturbed
  <2>. QED
    BY <2>1, <2>2 DEF TypeOK, FindingsHold, UnderWay
<1>. QED
  BY <1>1, <1>2

LEMMA StartFindings ==
    ASSUME TypeOK, FindingsHold, NEW c \in Commands, Start(c) PROVE FindingsHold'
<1>. SUFFICES ASSUME NEW d \in Commands, ~disturbed'[d]
              PROVE  /\ cmd'[d] \in {"read", "kill"} => session' # None
                     /\ cmd'[d] = "start" => session' = None
                     /\ cmd'[d] # "failed"
  BY DEF FindingsHold
<1>1. CASE session # None
  BY <1>1 DEF TypeOK, FindingsHold, Start, Goes, monitor
<1>2. CASE session = None
  <2>1. Disturbs({c}) /\ cmd' = [cmd EXCEPT ![c] = "done"]
    BY <1>2 DEF Start, Goes
  <2>2. ~disturbed[d] /\ (UnderWay(d) => d = c)
    BY <2>1, Disturbed
  <2>. QED
    BY <2>1, <2>2 DEF TypeOK, FindingsHold, UnderWay
<1>. QED
  BY <1>1, <1>2

LEMMA DiesFindings ==
    ASSUME TypeOK, FindingsHold, NEW p \in Processes, Dies(p) PROVE FindingsHold'
<1>. SUFFICES ASSUME NEW d \in Commands, ~disturbed'[d]
              PROVE  ~UnderWay(d) /\ cmd'[d] = cmd[d] /\ ~disturbed[d]
  BY DEF FindingsHold, UnderWay
<1>. QED
  BY Disturbed DEF Dies

LEMMA NextFindings == TypeOK /\ FindingsHold /\ [Next]_vars => FindingsHold'
<1>. SUFFICES ASSUME TypeOK, FindingsHold, [Next]_vars PROVE FindingsHold'
  OBVIOUS
<1>1. ASSUME NEW c \in Commands, Begin(c) PROVE FindingsHold'
  BY <1>1 DEF TypeOK, FindingsHold, Begin, Goes, monitor
<1>2. ASSUME NEW c \in Commands, ReadHeartbeat(c) \/ ReadFails(c) \/ GivesUp(c)
      PROVE  FindingsHold'
  BY <1>2 DEF TypeOK, FindingsHold, ReadHeartbeat, ReadFails, GivesUp, Goes, monitor
<1>3. ASSUME NEW c \in Commands, EnsureRunning(c) \/ GivesUp(c) PROVE FindingsHold'
  BY <1>1, <1>2, <1>3, KillFindings, StartFindings DEF EnsureRunning
<1>4. ASSUME NEW p \in Processes, MonitorStep(p) \/ Resumes(p) \/ Hangs(p) PROVE FindingsHold'
  BY <1>4 DEF FindingsHold, MonitorStep, Boot, Beat, Ends, Resumes, Hangs
<1>5. CASE Fault
  BY <1>2, <1>4, <1>5, DiesFindings DEF Fault
<1>6. CASE TimePasses
  BY <1>6 DEF FindingsHold, TimePasses
<1>7. ASSUME NEW b \in Builds, BecomesCalm(b) PROVE FindingsHold'
  BY <1>7 DEF FindingsHold, BecomesCalm, monitor
<1>8. CASE UNCHANGED vars
  BY <1>8 DEF FindingsHold, vars, monitor
<1>. QED
  BY <1>3, <1>4, <1>5, <1>6, <1>7, <1>8 DEF Next

\* EnsureRunning fails, and a hook with it, only if another command or the
\* monitor's death came between two of its steps, or a call of its own failed.
THEOREM OnlyRacesLoseHooks == Spec => []LostOnlyToRaces
<1>1. FindingsHold => LostOnlyToRaces
  BY DEF FindingsHold, LostOnlyToRaces
<1>. QED
  BY <1>1, InitType, NextType, InitFindings, NextFindings, PTL DEF Spec

-----------------------------------------------------------------------------
(* A monitor in charge stays in charge. *)

Challenged(b) == Fault \/ \E c \in Commands : Build[c] # b /\ Begin(c)

LEMMA CommandLeavesInCharge ==
    ASSUME TypeOK, NEW b \in Builds, InCharge(b),
           NEW c \in Commands, EnsureRunning(c) \/ GivesUp(c)
    PROVE  InCharge(b)' \/ Challenged(b)
<1>1. ASSUME Begin(c), Build[c] = b PROVE InCharge(b)'
  BY <1>1 DEF TypeOK, InCharge, Begin, Goes, monitor
<1>2. ASSUME ReadHeartbeat(c) PROVE InCharge(b)'
  <2>1. Build[c] = b
    BY <1>2 DEF InCharge, ReadHeartbeat
  <2>2. IsMonitorAliveAndCurrent(c)
    BY <2>1, StaleAssumption DEF TypeOK, Heartbeat, InCharge, IsMonitorAliveAndCurrent
  <2>. QED
    BY <1>2, <2>2 DEF TypeOK, InCharge, ReadHeartbeat, Goes, monitor
<1>3. ~Kill(c)
  BY DEF InCharge, Kill
<1>4. ASSUME Start(c) PROVE InCharge(b)'
  BY <1>4 DEF TypeOK, InCharge, Start, Goes, monitor
<1>5. ASSUME GivesUp(c) PROVE InCharge(b)'
  BY <1>5 DEF TypeOK, InCharge, GivesUp, Goes, monitor
<1>. QED
  BY <1>1, <1>2, <1>3, <1>4, <1>5 DEF EnsureRunning, Challenged

\* The only process that goes on is the one in the session.
LEMMA OnlyOne ==
    ASSUME TypeOK, NEW b \in Builds, InCharge(b), NEW p \in Processes,
           process[p].state \in {"boot", "run", "hung"}
    PROVE  p = session /\ process[p].state = "run"
BY DEF TypeOK, InCharge, Living

LEMMA MonitorLeavesInCharge ==
    ASSUME TypeOK, NEW b \in Builds, InCharge(b),
           NEW p \in Processes, MonitorStep(p) \/ Resumes(p)
    PROVE  InCharge(b)'
<1>1. ~Boot(p) /\ ~Resumes(p)
  BY OnlyOne DEF Boot, Resumes
<1>2. CASE Beat(p)
  <2>1. p = session
    BY <1>2, OnlyOne DEF Beat
  <2>. QED
    BY <1>2, <2>1 DEF TypeOK, InCharge, Beat, UpsertMonitorHeartbeat
<1>3. CASE Ends(p)
  <2>1. p # session /\ process[p].build = b
    BY <1>3 DEF InCharge, Ends
  <2>2. process'[session] = process[session] /\ (session \in beaten' <=> session \in beaten)
    BY <1>3, <2>1 DEF TypeOK, InCharge, Ends
  <2>3. \A q \in Processes : process'[q].state = "dying" => process'[q] = process[q]
    BY <1>3 DEF TypeOK, Ends, Gone
  <2>4. heartbeat'.build = b /\ heartbeat'.age <= IF session \in beaten THEN 0 ELSE 1
    BY <1>3, <2>1 DEF Ends, InCharge, UpsertMonitorHeartbeat
  <2>. QED
    BY <1>3, <2>2, <2>3, <2>4 DEF InCharge, Ends
<1>. QED
  BY <1>1, <1>2, <1>3 DEF MonitorStep

LEMMA TimeLeavesInCharge ==
    ASSUME TypeOK, NEW b \in Builds, InCharge(b), TimePasses PROVE InCharge(b)'
<1>1. session \in Processes /\ session \in beaten
  BY DEF TypeOK, InCharge, TimePasses
<1>2. heartbeat.age = 0
  BY <1>1 DEF TypeOK, Heartbeat, InCharge
<1>3. heartbeat'.age = 1 /\ heartbeat'.build = heartbeat.build
  BY <1>2, StaleAssumption DEF TypeOK, Heartbeat, TimePasses
<1>. QED
  BY <1>3 DEF InCharge, TimePasses

LEMMA NextLeavesInCharge ==
    ASSUME TypeOK, [Next]_vars, NEW b \in Builds, InCharge(b)
    PROVE  InCharge(b)' \/ Challenged(b)
<1>1. ASSUME NEW a \in Builds, BecomesCalm(a) PROVE InCharge(b)'
  BY <1>1 DEF InCharge, BecomesCalm, monitor
<1>2. CASE UNCHANGED vars
  BY <1>2 DEF InCharge, vars, monitor
<1>. QED
  BY <1>1, <1>2, CommandLeavesInCharge, MonitorLeavesInCharge, TimeLeavesInCharge
     DEF Next, Challenged

\* A monitor that is up, has beaten in this second or the last and has no
\* killer on its way keeps running under any interleaving of its own build's
\* commands.
THEOREM InChargeForGood == Spec => StaysInCharge
<1>1. TypeOK /\ [Next]_vars =>
        [\A b \in Builds : InCharge(b) =>
           \/ InCharge(b)'
           \/ Fault
           \/ \E c \in Commands : Build[c] # b /\ Begin(c)]_vars
  BY NextLeavesInCharge DEF Challenged
<1>. QED
  BY <1>1, InitType, NextType, PTL DEF Spec, StaysInCharge

-----------------------------------------------------------------------------
(* Once calm, for good. *)

\* Nothing goes wrong any more and no other build comes into use.
LEMMA CalmLeavesInCharge ==
    ASSUME TypeOK, [Next]_vars, NEW b \in Builds, calm = b, InCharge(b)
    PROVE  (calm = b /\ InCharge(b))'
<1>1. b # None
  BY NamesAssumption
<1>2. ~Challenged(b)
  BY <1>1 DEF Challenged, Fault, ReadFails, Dies, Hangs, Begin
<1>3. calm' = b
  BY <1>1 DEF Next, EnsureRunning, GivesUp, Begin, ReadHeartbeat, Kill, Start, MonitorStep, Boot, Beat,
              Ends, Resumes, Fault, ReadFails, Dies, Hangs, TimePasses, BecomesCalm, vars
<1>. QED
  BY <1>2, <1>3, NextLeavesInCharge

\* ensure.go:21-30 and 43-55, the safe half of TakesOver: when one build alone
\* is in use, the first moment at which its monitor is in charge is the last
\* of the struggle, and nothing takes the session from it again.  So TakesOver
\* only asks that the monitor gets in charge once.
THEOREM InChargeOnceIsForGood ==
    ASSUME NEW b \in Builds
    PROVE  /\ Spec => [](calm = b /\ InCharge(b) => []InCharge(b))
           /\ Spec /\ (calm = b ~> InCharge(b)) => (calm = b ~> []InCharge(b))
<1>1. TypeOK /\ [Next]_vars /\ calm = b /\ InCharge(b) => (calm = b /\ InCharge(b))'
  BY CalmLeavesInCharge
<1>2. TypeOK /\ [Next]_vars /\ calm = b => (calm = b)'
  BY NamesAssumption
  DEF Next, EnsureRunning, GivesUp, Begin, ReadHeartbeat, Kill, Start, MonitorStep, Boot, Beat,
      Ends, Resumes, Fault, ReadFails, Dies, Hangs, TimePasses, BecomesCalm, vars
<1>. QED
  BY <1>1, <1>2, InitType, NextType, PTL DEF Spec
=============================================================================
