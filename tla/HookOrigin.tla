------------------------------ MODULE HookOrigin ------------------------------
(***************************************************************************)
(* Which agent a hook is taken to come from, and which row it is for       *)
(* (DetectTool and ProjectDir of internal/agent, the hook command of       *)
(* main.go).  A hook knows no more than its environment and the cwd of its *)
(* payload; the environment comes down from the tmux server through the    *)
(* pane that `muxac new` sets up and through every agent that runs another *)
(* one below it.                                                           *)
(***************************************************************************)
EXTENDS Naturals, Sequences

CONSTANTS
    Names,     \* session names
    Dirs,      \* directories
    None,      \* an unset variable, an absent field, no tool, no report
    MaxDepth   \* bound: agents run below each other

Tools == {"claude", "codex", "gemini"}

ASSUME MaxDepthAssumption == MaxDepth \in Nat \ {0}

\* What hook.Run is called with.
Reports == [name : Names, dir : Dirs, tool : Tools]

ASSUME NoneAssumption == None \notin Names \cup Dirs \cup Tools \cup Reports

VARIABLES
    server,   \* the environment the tmux server was started in
    session,  \* the session of the pane
    agents,   \* the agents in the pane, each run by the one before it
    last      \* the last hook: its agent's place, its cwd and what it reports

vars == <<server, session, agents, last>>

\* session: MUXAC_SESSION_NAME.  gemini: GEMINI_PROJECT_DIR.  claude:
\* CLAUDE_PROJECT_DIR.
Environment == [session : Names \cup {None},
                gemini  : Dirs \cup {None},
                claude  : Dirs \cup {None}]

Agent == [tool : Tools, dir : Dirs, env : Environment]

-----------------------------------------------------------------------------
(* Environments *)

\* A name the server was started with stays.
PaneEnvOfServer(env, name) ==
    [env EXCEPT !.session = IF @ = None THEN name ELSE @, !.claude = None]

\* newcmd.Run: tmux adds the session name to the server's environment, and
\* stripInheritedAgentSessionEnv unsets what an outer Claude Code left in it.
PaneEnv(env, name) == [env EXCEPT !.session = name, !.claude = None]

\* What an agent adds for its hooks and everything else it runs: Gemini CLI
\* sets both variables, Codex neither.
Below(env, tool, dir) ==
    [env EXCEPT !.gemini = IF tool = "gemini" THEN dir ELSE @,
                !.claude = IF tool \in {"gemini", "claude"} THEN dir ELSE @]

Started(env, tool, dir) == [tool |-> tool, dir |-> dir, env |-> Below(env, tool, dir)]

-----------------------------------------------------------------------------
(* The hook command *)

\* A variable counts if it names the hook's own directory.
Matches(variable, cwd) == variable # None /\ cwd \in {None, variable}

\* Claude Code's variable is looked at first.
DetectToolClaudeFirst(gemini, claude, cwd) ==
    CASE Matches(claude, cwd) -> "claude"
      [] ~Matches(claude, cwd) /\ Matches(gemini, cwd) -> "gemini"
      [] ~Matches(claude, cwd) /\ ~Matches(gemini, cwd) /\ cwd # None -> "codex"
      [] OTHER -> None

DetectTool(gemini, claude, cwd) ==
    CASE Matches(gemini, cwd) -> "gemini"
      [] ~Matches(gemini, cwd) /\ Matches(claude, cwd) -> "claude"
      [] ~Matches(gemini, cwd) /\ ~Matches(claude, cwd) /\ cwd # None -> "codex"
      [] OTHER -> None

ProjectDir(tool, gemini, claude, cwd) ==
    CASE cwd # None -> cwd
      [] cwd = None /\ tool = "gemini" -> gemini
      [] cwd = None /\ tool = "claude" -> claude
      [] OTHER -> None

\* case "hook" of run: whether hook.Run is called and with what.
Report(env, cwd) ==
    LET tool == DetectTool(env.gemini, env.claude, cwd)
        dir == ProjectDir(tool, env.gemini, env.claude, cwd)
    IN  IF None \in {env.session, tool, dir} THEN None
        ELSE [name |-> env.session, dir |-> dir, tool |-> tool]

-----------------------------------------------------------------------------
(* Steps *)

NoSession == [name |-> None, dir |-> None]

NoHook == [agent |-> 0, cwd |-> None, report |-> None]

\* `muxac new`, with an agent for a command.
New(name, dir, tool) ==
    /\ agents = <<>>
    /\ session' = [name |-> name, dir |-> dir]
    /\ agents' = <<Started(PaneEnv(server, name), tool, dir)>>
    /\ last' = NoHook
    /\ UNCHANGED server

\* The innermost agent runs another, in any directory.
Nest(tool, dir) ==
    /\ agents # <<>>
    /\ Len(agents) < MaxDepth
    /\ agents' = Append(agents, Started(agents[Len(agents)].env, tool, dir))
    /\ last' = NoHook
    /\ UNCHANGED <<server, session>>

\* The session outlives its agents.
ExitKeepsSession ==
    /\ agents # <<>>
    /\ agents' = SubSeq(agents, 1, Len(agents) - 1)
    /\ last' = NoHook
    /\ UNCHANGED <<server, session>>

\* The innermost agent ends, and with the outermost one its session.
Exit ==
    /\ agents # <<>>
    /\ agents' = SubSeq(agents, 1, Len(agents) - 1)
    /\ session' = IF Len(agents) = 1 THEN NoSession ELSE session
    /\ last' = NoHook
    /\ UNCHANGED server

\* The i-th agent runs `muxac hook`.  Its cwd is where the agent is now, which
\* need not be its project directory; Codex always sends one.
Hook(i, cwd) ==
    /\ i \in DOMAIN agents
    /\ agents[i].tool = "codex" => cwd # None
    /\ last' = [agent |-> i, cwd |-> cwd, report |-> Report(agents[i].env, cwd)]
    /\ UNCHANGED <<server, session, agents>>

\* The tmux server may have been started by hand or by any agent.
Init ==
    /\ server \in Environment
    /\ session = NoSession
    /\ agents = <<>>
    /\ last = NoHook

Next ==
    \/ \E name \in Names, dir \in Dirs, tool \in Tools : New(name, dir, tool)
    \/ \E tool \in Tools, dir \in Dirs : Nest(tool, dir)
    \/ Exit
    \/ \E i \in 1 .. MaxDepth, cwd \in Dirs \cup {None} : Hook(i, cwd)

Spec == Init /\ [][Next]_vars

-----------------------------------------------------------------------------
(* Properties *)

\* Every variable has its type.
TypeOK ==
    /\ server \in Environment
    /\ session \in [name : Names, dir : Dirs] \cup {NoSession}
    /\ agents \in Seq(Agent)
    /\ Len(agents) <= MaxDepth
    /\ agents = <<>> <=> session = NoSession
    /\ last \in [agent : 0 .. Len(agents),
                 cwd : Dirs \cup {None},
                 report : Reports \cup {None}]

Hooked == last.agent # 0

Sender == agents[last.agent]

\* The agents the sender runs below.
Enclosing == {agents[i] : i \in 1 .. last.agent - 1}

\* agent.go:21-30: whatever started the tmux server and whatever agents run
\* each other, a hook sent from its agent's own directory is taken for that
\* agent's, unless an agent it runs below works in the same directory or the
\* server was started below a Gemini that does.
ToolIsRight ==
    Hooked /\ last.cwd = Sender.dir =>
        \/ last.report # None /\ last.report.tool = Sender.tool
        \/ \E a \in Enclosing : a.dir = Sender.dir
        \/ server.gemini = Sender.dir

\* newcmd.go:32, agent.go:51-53: a hook goes to the session of the pane its
\* agent runs in, and there to the row of the directory its agent is in; one
\* that sends no directory to that of its agent's project, unless a Gemini
\* encloses it.
KeyIsRight ==
    Hooked /\ last.report # None =>
        /\ last.report.name = session.name
        /\ last.cwd # None => last.report.dir = last.cwd
        /\ \/ last.report.dir \in {last.cwd, Sender.dir}
           \/ \E a \in Enclosing : a.tool = "gemini" /\ last.report.dir = a.dir
           \/ last.report.dir = server.gemini
=============================================================================
