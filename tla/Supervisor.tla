------------------------------ MODULE Supervisor ------------------------------
(***************************************************************************)
(* How commands keep one monitor running (EnsureRunning of internal/       *)
(* monitor/ensure.go, called by main.go before new, attach, remove, list   *)
(* and hook).  The monitor is whatever process runs in the tmux session    *)
(* "muxac-monitor"; it writes a heartbeat with the identity of its build   *)
(* on every tick.  Nothing locks the commands, each of which looks at the  *)
(* session, then at the heartbeat, then acts.  Commands of two builds may  *)
(* be in use at once.  What the monitor does besides is in Sessions, which *)
(* lets it come and go at any time.                                        *)
(***************************************************************************)
EXTENDS Naturals

CONSTANTS
    Builds,     \* what monitorBuildID may be
    Commands,   \* command processes; one that has ended may be run again
    Build,      \* Build[c]: the build of command c
    Processes,  \* monitor processes; one that is gone may be started again
    Stale,      \* age in seconds at which a heartbeat no longer counts: 10
    Faults      \* may a monitor die, hang or fall asleep, a call fail?

ASSUME BuildAssumption == Build \in [Commands -> Builds]

ASSUME StaleAssumption == Stale \in Nat /\ Stale >= 2

ASSUME FaultsAssumption == Faults \in BOOLEAN

None == "none"

ASSUME NamesAssumption == None \notin Builds \cup Processes

VARIABLES
    session,    \* the process in the tmux session muxac-monitor, or None
    process,    \* the monitor processes
    beaten,     \* those that have written a heartbeat in this second
    heartbeat,  \* the row of monitor_heartbeat
    cmd,        \* where each command is
    disturbed,  \* history: has a command, since it began, met another that acted
                \* on the monitor, a monitor's death or a failing call of its own?
    calm        \* the build that alone is in use from now on, or None

monitor == <<session, process, beaten, heartbeat>>
vars == <<monitor, cmd, disturbed, calm>>

\* gone: there is no such process.  boot: it has not written a heartbeat yet.
\* dying: its session was killed, but it may be in the middle of a write.
ProcessStates == {"gone", "boot", "run", "hung", "dying"}

Process == [state : ProcessStates, build : Builds \cup {None}]

Gone == [state |-> "gone", build |-> None]

\* No row yet, or the build that wrote last and how long ago.
Heartbeat == [build : Builds \cup {None}, age : 0 .. Stale]

Living == {p \in Processes : process[p].state \in {"boot", "run", "hung"}}

UnderWay(c) == cmd[c] \in {"read", "kill", "start"}

Goes(c, step) == cmd' = [cmd EXCEPT ![c] = step]

\* What a command other than those of C finds is no longer what it found.
Disturbs(C) == disturbed' = [c \in Commands |-> disturbed[c] \/ (UnderWay(c) /\ c \notin C)]

-----------------------------------------------------------------------------
(* EnsureRunning *)

\* A monitor has been started and has not written a heartbeat yet.  Once calm,
\* that takes less than a second, and no command begins in the meantime.
Booting == \E p \in Processes : process[p].state = "boot"

\* HasSession, which takes a failing client for a missing session.
Begin(c) ==
    /\ ~UnderWay(c)
    /\ calm # None => Build[c] = calm /\ ~Booting
    /\ \/ /\ Goes(c, IF session = None THEN "start" ELSE "read")
          /\ disturbed' = [disturbed EXCEPT ![c] = FALSE]
       \/ /\ Faults /\ calm = None
          /\ Goes(c, "start")
          /\ disturbed' = [disturbed EXCEPT ![c] = TRUE]
    /\ UNCHANGED <<monitor, calm>>

\* Any heartbeat that is fresh will do.
IsMonitorAlive(c) == heartbeat.build # None /\ heartbeat.age < Stale

\* isMonitorAliveAndCurrent.
IsMonitorAliveAndCurrent(c) ==
    /\ heartbeat.build = Build[c]
    /\ heartbeat.age < Stale

ReadHeartbeat(c) ==
    /\ cmd[c] = "read"
    /\ Goes(c, IF IsMonitorAliveAndCurrent(c) THEN "done" ELSE "kill")
    /\ UNCHANGED <<monitor, disturbed, calm>>

\* A query that fails counts as no heartbeat.
ReadFails(c) ==
    /\ Faults /\ calm = None
    /\ cmd[c] = "read"
    /\ Goes(c, "kill")
    /\ UNCHANGED <<monitor, disturbed, calm>>

\* A stale session is left to NewDetachedSession.
KillForgotten(c) ==
    /\ cmd[c] = "kill"
    /\ Goes(c, "start")
    /\ UNCHANGED <<monitor, disturbed, calm>>

\* KillSession fails if there is no session any more.
Kill(c) ==
    /\ cmd[c] = "kill"
    /\ IF session = None
       THEN Goes(c, "failed") /\ UNCHANGED <<monitor, disturbed>>
       ELSE /\ Goes(c, "start")
            /\ session' = None
            /\ process' = [process EXCEPT ![session].state = "dying"]
            /\ Disturbs({c})
            /\ UNCHANGED <<beaten, heartbeat>>
    /\ UNCHANGED calm

\* A session of its own for every command.
StartBeside(c) ==
    /\ cmd[c] = "start"
    /\ Goes(c, "done")
    /\ \E p \in Processes :
          /\ process[p] = Gone
          /\ session' = p
          /\ process' = [process EXCEPT ![p] = [state |-> "boot", build |-> Build[c]]]
    /\ Disturbs({c})
    /\ UNCHANGED <<beaten, heartbeat, calm>>

\* NewDetachedSession fails if there is a session already.
Start(c) ==
    /\ cmd[c] = "start"
    /\ IF session # None
       THEN Goes(c, "failed") /\ UNCHANGED <<monitor, disturbed>>
       ELSE /\ Goes(c, "done")
            /\ \E p \in Processes :
                  /\ process[p] = Gone
                  /\ session' = p
                  /\ process' = [process EXCEPT ![p] = [state |-> "boot", build |-> Build[c]]]
            /\ Disturbs({c})
            /\ UNCHANGED <<beaten, heartbeat>>
    /\ UNCHANGED calm

\* kill-session, os.Executable or new-session fails by itself, or the command
\* is killed before its next call: a session that is killed is then not
\* replaced before another command runs.
GivesUp(c) ==
    /\ Faults /\ calm = None
    /\ UnderWay(c)
    /\ Goes(c, "failed")
    /\ disturbed' = [disturbed EXCEPT ![c] = TRUE]
    /\ UNCHANGED <<monitor, calm>>

-----------------------------------------------------------------------------
(* The monitor *)

\* ON CONFLICT DO UPDATE of the version alone.
UpsertKeepsTime(p) ==
    heartbeat' = [build |-> process[p].build,
                  age   |-> IF heartbeat.build = None THEN 0 ELSE heartbeat.age]

UpsertMonitorHeartbeat(p) == heartbeat' = [build |-> process[p].build, age |-> 0]

\* It opens the database and ticks for the first time.
Boot(p) ==
    /\ process[p].state = "boot"
    /\ process' = [process EXCEPT ![p].state = "run"]
    /\ UpsertMonitorHeartbeat(p)
    /\ beaten' = beaten \cup {p}
    /\ UNCHANGED <<session, cmd, disturbed, calm>>

\* A tick, one per second.
Beat(p) ==
    /\ process[p].state = "run"
    /\ p \notin beaten
    /\ UpsertMonitorHeartbeat(p)
    /\ beaten' = beaten \cup {p}
    /\ UNCHANGED <<session, process, cmd, disturbed, calm>>

\* A process that was killed ends, with or without a last heartbeat.
Ends(p) ==
    /\ process[p].state = "dying"
    /\ process' = [process EXCEPT ![p] = Gone]
    /\ beaten' = beaten \ {p}
    /\ UpsertMonitorHeartbeat(p) \/ UNCHANGED heartbeat
    /\ UNCHANGED <<session, cmd, disturbed, calm>>

\* Its database cannot be opened, it crashes, the tmux server goes down.
Dies(p) ==
    /\ Faults /\ calm = None
    /\ p \in Living
    /\ process' = [process EXCEPT ![p] = Gone]
    /\ beaten' = beaten \ {p}
    /\ session' = None
    /\ Disturbs({})
    /\ UNCHANGED <<heartbeat, cmd, calm>>

\* It blocks, its heartbeat fails, the machine sleeps; that may pass.
Hangs(p) ==
    /\ Faults /\ calm = None
    /\ process[p].state = "run"
    /\ process' = [process EXCEPT ![p].state = "hung"]
    /\ UNCHANGED <<session, beaten, heartbeat, cmd, disturbed, calm>>

Resumes(p) ==
    /\ process[p].state = "hung"
    /\ process' = [process EXCEPT ![p].state = "run"]
    /\ UNCHANGED <<session, beaten, heartbeat, cmd, disturbed, calm>>

\* A second passes.  Once calm, a command takes less to replace a monitor.
TimePasses ==
    /\ calm # None => ~Booting /\ \A c \in Commands : cmd[c] \notin {"kill", "start"}
    /\ \A p \in Processes : process[p].state = "run" => p \in beaten
    /\ beaten' = {}
    /\ heartbeat' = [heartbeat EXCEPT !.age = IF @ < Stale THEN @ + 1 ELSE @]
    /\ UNCHANGED <<session, process, cmd, disturbed, calm>>

\* From now on build b alone is in use and nothing fails.
BecomesCalm(b) ==
    /\ calm = None
    /\ \A c \in Commands : UnderWay(c) => Build[c] = b
    /\ calm' = b
    /\ UNCHANGED <<monitor, cmd, disturbed>>

-----------------------------------------------------------------------------
Init ==
    /\ session = None
    /\ process = [p \in Processes |-> Gone]
    /\ beaten = {}
    /\ heartbeat \in {[build |-> b, age |-> Stale] : b \in Builds \cup {None}}
    /\ cmd = [c \in Commands |-> "done"]
    /\ disturbed = [c \in Commands |-> FALSE]
    /\ calm = None

EnsureRunning(c) == Begin(c) \/ ReadHeartbeat(c) \/ Kill(c) \/ Start(c)

MonitorStep(p) == Boot(p) \/ Beat(p) \/ Ends(p)

\* What goes wrong by itself and concerns the monitor.
Fault ==
    \/ \E c \in Commands : ReadFails(c)
    \/ \E p \in Processes : Dies(p) \/ Hangs(p)

Next ==
    \/ \E c \in Commands : EnsureRunning(c) \/ GivesUp(c)
    \/ \E p \in Processes : MonitorStep(p) \/ Resumes(p)
    \/ Fault
    \/ TimePasses
    \/ \E b \in Builds : BecomesCalm(b)

Spec == Init /\ [][Next]_vars

\* Commands go on being run, their calls return, a monitor that runs ticks,
\* one that was killed ends, and time passes.
Fairness ==
    /\ \A c \in Commands : WF_vars(EnsureRunning(c))
    /\ \A p \in Processes : WF_vars(MonitorStep(p))
    /\ WF_vars(TimePasses)

FairSpec == Spec /\ Fairness

-----------------------------------------------------------------------------
(* Properties *)

\* Every variable has its type, and the processes that are not on their way
\* out are the one in the tmux session: never two monitors that go on.
TypeOK ==
    /\ session \in Processes \cup {None}
    /\ process \in [Processes -> Process]
    /\ beaten \subseteq Processes
    /\ heartbeat \in Heartbeat
    /\ cmd \in [Commands -> {"read", "kill", "start", "done", "failed"}]
    /\ disturbed \in [Commands -> BOOLEAN]
    /\ calm \in Builds \cup {None}
    /\ Living = IF session = None THEN {} ELSE {session}

\* main.go:318-320: a hook whose EnsureRunning fails returns before it records
\* its event.  That happens only if another command or the death of the
\* monitor came in between, or a call of its own failed: has-session taken for
\* a missing session, kill-session, os.Executable, new-session.
LostOnlyToRaces ==
    \A c \in Commands : cmd[c] = "failed" => disturbed[c]

\* The monitor of build b is up, its heartbeat is fresh, and nobody is about
\* to kill it or to write over its heartbeat.
InCharge(b) ==
    /\ session # None
    /\ process[session] = [state |-> "run", build |-> b]
    /\ heartbeat.build = b
    /\ heartbeat.age <= IF session \in beaten THEN 0 ELSE 1
    /\ \A c \in Commands : cmd[c] # "kill" /\ (cmd[c] = "read" => Build[c] = b)
    /\ \A p \in Processes : process[p].state = "dying" => process[p].build = b

\* ensure.go:46-55: a monitor in charge stays in charge whatever commands of
\* its build do in whatever order, however late, and wherever they give up:
\* only a fault or a command of another build ends it.
StaysInCharge ==
    [][\A b \in Builds : InCharge(b) =>
         \/ InCharge(b)'
         \/ Fault
         \/ \E c \in Commands : Build[c] # b /\ Begin(c)]_vars

\* ensure.go:21-30 and 43-55: once one build alone is in use, its monitor
\* takes over for good, whatever ran, hung or was being killed before.
TakesOver ==
    \A b \in Builds : calm = b ~> []InCharge(b)
=============================================================================
