--------------------------- MODULE HookOriginProofs ---------------------------
(***************************************************************************)
(* Proofs about HookOrigin: for any names, directories and depth, a hook   *)
(* goes to the row of its own session and directory, and only an agent or  *)
(* a tmux server of the same directory makes it pass for another tool's.   *)
(* What carries both is where the variables of an environment come from.   *)
(***************************************************************************)
EXTENDS HookOrigin, SequenceTheorems, TLAPS

\* The agents from the outermost to the i-th whose tool is one of T.
Above(i, T) == {agents[j] : j \in {k \in 1 .. i : agents[k].tool \in T}}

DirsOf(A) == {a.dir : a \in A}

\* Where the i-th agent has its variables from.
EnvTraced(i) ==
    /\ agents[i].env.session = session.name
    /\ agents[i].env.gemini \in {None, server.gemini} \cup DirsOf(Above(i, {"gemini"}))
    /\ agents[i].env.claude \in {None} \cup DirsOf(Above(i, {"gemini", "claude"}))
    /\ agents[i].tool = "gemini" => agents[i].env.gemini = agents[i].dir
    /\ agents[i].tool \in {"gemini", "claude"} => agents[i].env.claude = agents[i].dir

EnvsTraced == \A i \in DOMAIN agents : EnvTraced(i)

-----------------------------------------------------------------------------
(* Types *)

LEMMA InitType == Init => TypeOK
BY MaxDepthAssumption DEF Init, TypeOK, NoHook, NoSession

LEMMA StartedType ==
    ASSUME NEW env \in Environment, NEW tool \in Tools, NEW dir \in Dirs
    PROVE  /\ Started(env, tool, dir) \in Agent
           /\ \A name \in Names : PaneEnv(env, name) \in Environment
BY DEF Started, Below, PaneEnv, Environment, Agent

LEMMA ReportType ==
    ASSUME NEW env \in Environment, NEW cwd \in Dirs \cup {None}
    PROVE  Report(env, cwd) \in Reports \cup {None}
<1>. DEFINE tool == DetectTool(env.gemini, env.claude, cwd)
            dir == ProjectDir(tool, env.gemini, env.claude, cwd)
<1>1. tool \in Tools \cup {None}
  BY DEF DetectTool, Tools
<1>2. dir \in Dirs \cup {None}
  BY DEF ProjectDir, Environment
<1>3. env.session \in Names \cup {None}
  BY DEF Environment
<1>. QED
  BY <1>1, <1>2, <1>3 DEF Report, Reports

LEMMA AgentsType ==
    ASSUME TypeOK
    PROVE  /\ Len(agents) \in Nat /\ DOMAIN agents = 1 .. Len(agents)
           /\ agents # <<>> => Len(agents) \in Nat \ {0}
           /\ \A i \in 1 .. Len(agents) : agents[i] \in Agent /\ agents[i].env \in Environment
<1>1. agents \in Seq(Agent)
  BY DEF TypeOK
<1>2. \A i \in 1 .. Len(agents) : agents[i] \in Agent
  BY <1>1, ElementOfSeq
<1>3. \A a \in Agent : a.env \in Environment
  BY DEF Agent
<1>. QED
  BY <1>1, <1>2, <1>3, EmptySeq, LenProperties

LEMMA NewType ==
    ASSUME TypeOK, NEW name \in Names, NEW dir \in Dirs, NEW tool \in Tools, New(name, dir, tool)
    PROVE  TypeOK'
<1>1. Started(PaneEnv(server, name), tool, dir) \in Agent
  BY StartedType DEF TypeOK
<1>2. agents' \in Seq(Agent) /\ Len(agents') = 1 /\ agents' # <<>>
  BY <1>1 DEF New
<1>3. session' \in [name : Names, dir : Dirs] /\ session' # NoSession
  BY NoneAssumption DEF New, NoSession
<1>. QED
  BY <1>2, <1>3, MaxDepthAssumption DEF TypeOK, New, NoHook

LEMMA NestType ==
    ASSUME TypeOK, NEW tool \in Tools, NEW dir \in Dirs, Nest(tool, dir) PROVE TypeOK'
<1>1. agents[Len(agents)].env \in Environment
  BY AgentsType DEF Nest
<1>2. Started(agents[Len(agents)].env, tool, dir) \in Agent
  BY <1>1, StartedType
<1>3. agents' \in Seq(Agent) /\ Len(agents') = Len(agents) + 1 /\ agents' # <<>>
  BY <1>2, AppendProperties DEF TypeOK, Nest
<1>. QED
  BY <1>3, AgentsType, MaxDepthAssumption DEF TypeOK, Nest, NoHook

LEMMA ExitType == ASSUME TypeOK, Exit PROVE TypeOK'
<1>1. Len(agents) \in Nat /\ Len(agents) >= 1
  BY AgentsType DEF Exit
<1>2. agents' \in Seq(Agent) /\ Len(agents') = Len(agents) - 1
  BY <1>1, AgentsType, SubSeqProperties DEF Exit
<1>3. agents' = <<>> <=> Len(agents) = 1
  BY <1>1, <1>2, EmptySeq
<1>. QED
  BY <1>1, <1>2, <1>3, MaxDepthAssumption DEF TypeOK, Exit, NoHook

LEMMA HookType ==
    ASSUME TypeOK, NEW i \in 1 .. MaxDepth, NEW cwd \in Dirs \cup {None}, Hook(i, cwd)
    PROVE  TypeOK'
<1>1. i \in 1 .. Len(agents) /\ agents[i].env \in Environment
  BY AgentsType DEF Hook
<1>2. Report(agents[i].env, cwd) \in Reports \cup {None}
  BY <1>1, ReportType
<1>. QED
  BY <1>1, <1>2 DEF TypeOK, Hook

LEMMA NextType == TypeOK /\ [Next]_vars => TypeOK'
<1>1. TypeOK /\ UNCHANGED vars => TypeOK'
  BY DEF TypeOK, vars
<1>. QED
  BY <1>1, NewType, NestType, ExitType, HookType DEF Next

\* Every variable keeps its type; a pane has agents exactly while it has a
\* session.
THEOREM TypeCorrect == Spec => []TypeOK
BY InitType, NextType, PTL DEF Spec

-----------------------------------------------------------------------------
(* Where the variables come from *)

LEMMA InitTraced == Init => EnvsTraced
BY DEF Init, EnvsTraced

LEMMA NewTraced ==
    ASSUME TypeOK, NEW name \in Names, NEW dir \in Dirs, NEW tool \in Tools, New(name, dir, tool)
    PROVE  EnvsTraced'
<1>. DEFINE a == Started(PaneEnv(server, name), tool, dir)
<1>1. agents' = <<a>> /\ session'.name = name /\ server' = server
  BY DEF New
<1>2. /\ a.tool = tool /\ a.dir = dir
      /\ a.env.session = name
      /\ a.env.gemini = IF tool = "gemini" THEN dir ELSE server.gemini
      /\ a.env.claude = IF tool \in {"gemini", "claude"} THEN dir ELSE None
  BY DEF TypeOK, Environment, Started, Below, PaneEnv
<1>3. ASSUME NEW T, tool \in T PROVE dir \in DirsOf(Above(1, T))'
  BY <1>1, <1>2, <1>3 DEF DirsOf, Above
<1>. QED
  BY <1>1, <1>2, <1>3 DEF EnvsTraced, EnvTraced

\* An agent's own environment does not depend on those it runs.
LEMMA StillTraced ==
    ASSUME TypeOK, EnvsTraced, NEW i \in DOMAIN agents,
           \A j \in 1 .. i : agents'[j] = agents[j],
           session'.name = session.name, server' = server
    PROVE  EnvTraced(i)'
<1>1. i \in Nat /\ agents'[i] = agents[i]
  BY DEF TypeOK
<1>2. \A T : Above(i, T)' = Above(i, T)
  BY DEF Above
<1>. QED
  BY <1>1, <1>2 DEF EnvsTraced, EnvTraced, DirsOf

LEMMA NestTraced ==
    ASSUME TypeOK, EnvsTraced, NEW tool \in Tools, NEW dir \in Dirs, Nest(tool, dir)
    PROVE  EnvsTraced'
<1>0. PICK n : n = Len(agents)
  OBVIOUS
<1>. DEFINE e == agents[n].env
            a == Started(e, tool, dir)
<1>1. /\ n \in Nat \ {0} /\ n \in DOMAIN agents
      /\ agents' = Append(agents, a)
      /\ session' = session /\ server' = server
      /\ e \in Environment
  BY <1>0, AgentsType DEF Nest
<1>2. /\ DOMAIN agents' = 1 .. n + 1
      /\ agents'[n + 1] = a
      /\ \A j \in 1 .. n : agents'[j] = agents[j]
  BY <1>0, <1>1 DEF TypeOK
<1>. DEFINE b == agents'[n + 1]
<1>3. /\ b.tool = tool /\ b.dir = dir
      /\ b.env.session = e.session
      /\ b.env.gemini = IF tool = "gemini" THEN dir ELSE e.gemini
      /\ b.env.claude = IF tool \in {"gemini", "claude"} THEN dir ELSE e.claude
  BY <1>1, <1>2 DEF Environment, Started, Below
<1>4. ASSUME NEW T PROVE DirsOf(Above(n, T)) \subseteq DirsOf(Above(n + 1, T))'
  BY <1>1, <1>2 DEF DirsOf, Above
<1>5. ASSUME NEW T, tool \in T PROVE dir \in DirsOf(Above(n + 1, T))'
  BY <1>1, <1>2, <1>3, <1>5 DEF DirsOf, Above
<1>6. EnvTraced(n)
  BY <1>1 DEF EnvsTraced
<1>7. EnvTraced(n + 1)'
  <2>1. b.env.gemini \in {None, server.gemini} \cup DirsOf(Above(n + 1, {"gemini"}))'
    BY <1>3, <1>4, <1>5, <1>6 DEF EnvTraced
  <2>2. b.env.claude \in {None} \cup DirsOf(Above(n + 1, {"gemini", "claude"}))'
    BY <1>3, <1>4, <1>5, <1>6 DEF EnvTraced
  <2>. QED
    BY <1>1, <1>3, <1>6, <2>1, <2>2 DEF EnvTraced
<1>8. ASSUME NEW i \in 1 .. n PROVE EnvTraced(i)'
  <2>1. i \in DOMAIN agents /\ \A j \in 1 .. i : agents'[j] = agents[j]
    BY <1>0, <1>1, <1>2, AgentsType
  <2>. QED
    BY <1>1, <2>1, StillTraced
<1>. QED
  <2>. SUFFICES ASSUME NEW i \in 1 .. n + 1 PROVE EnvTraced(i)'
    BY <1>2 DEF EnvsTraced
  <2>1. CASE i = n + 1
    BY <1>7, <2>1
  <2>2. CASE i # n + 1
    BY <1>1, <1>8, <2>2
  <2>. QED
    BY <2>1, <2>2

LEMMA ExitTraced == ASSUME TypeOK, EnvsTraced, Exit PROVE EnvsTraced'
<1>1. Len(agents) \in Nat \ {0} /\ server' = server
  BY DEF TypeOK, Exit
<1>2. CASE Len(agents) = 1
  <2>1. DOMAIN agents' = {}
    BY <1>2 DEF TypeOK, Exit
  <2>. QED
    BY <2>1 DEF EnvsTraced
<1>3. CASE Len(agents) # 1
  <2>1. /\ DOMAIN agents' = 1 .. Len(agents) - 1
        /\ \A j \in 1 .. Len(agents) - 1 : agents'[j] = agents[j]
        /\ session' = session
    BY <1>1, <1>3 DEF TypeOK, Exit
  <2>. QED
    BY <1>1, <2>1, StillTraced DEF TypeOK, EnvsTraced
<1>. QED
  BY <1>2, <1>3

LEMMA NextTraced == TypeOK /\ EnvsTraced /\ [Next]_vars => EnvsTraced'
<1>. SUFFICES ASSUME TypeOK, EnvsTraced, [Next]_vars PROVE EnvsTraced'
  OBVIOUS
<1>1. ASSUME UNCHANGED <<server, session, agents>> PROVE EnvsTraced'
  BY <1>1, StillTraced DEF EnvsTraced
<1>2. ASSUME NEW i \in 1 .. MaxDepth, NEW cwd \in Dirs \cup {None}, Hook(i, cwd) PROVE EnvsTraced'
  BY <1>1, <1>2 DEF Hook
<1>3. CASE UNCHANGED vars
  BY <1>1, <1>3 DEF vars
<1>. QED
  BY <1>2, <1>3, NewTraced, NestTraced, ExitTraced DEF Next

LEMMA AlwaysTraced == Spec => [](TypeOK /\ EnvsTraced)
BY InitType, NextType, InitTraced, NextTraced, PTL DEF Spec

-----------------------------------------------------------------------------
(* Hooks *)

\* What a hook knows of its agent.
LEMMA Knows ==
    ASSUME TypeOK, EnvsTraced, NEW i \in 1 .. MaxDepth, NEW cwd \in Dirs \cup {None}, Hook(i, cwd)
    PROVE  /\ i \in 1 .. Len(agents)
           /\ agents[i].tool \in Tools /\ agents[i].dir \in Dirs
           /\ agents[i].env \in Environment
           /\ agents[i].env.session = session.name /\ session.name # None
           /\ EnvTraced(i)
           /\ Hooked' /\ Sender' = agents[i] /\ last'.cwd = cwd
           /\ last'.report = Report(agents[i].env, cwd)
           /\ Enclosing' = {agents[j] : j \in 1 .. i - 1}
           /\ agents[i].tool = "codex" => cwd # None
<1>1. i \in 1 .. Len(agents) /\ agents[i] \in Agent
  BY DEF TypeOK, Hook
<1>2. session \in [name : Names, dir : Dirs]
  BY <1>1 DEF TypeOK
<1>3. EnvTraced(i)
  BY <1>1 DEF TypeOK, EnvsTraced
<1>. QED
  BY <1>1, <1>2, <1>3, NoneAssumption DEF Hook, Agent, EnvTraced, Hooked, Sender, Enclosing

\* A directory above an agent of another tool is one of an agent it runs below.
LEMMA AboveEncloses ==
    ASSUME TypeOK, NEW i \in 1 .. Len(agents), NEW T, NEW d \in DirsOf(Above(i, T)),
           agents[i].tool \notin T
    PROVE  \E a \in {agents[j] : j \in 1 .. i - 1} : a.dir = d /\ a.tool \in T
BY DEF TypeOK, DirsOf, Above

LEMMA HookToolRight ==
    ASSUME TypeOK, EnvsTraced, NEW i \in 1 .. MaxDepth, NEW cwd \in Dirs \cup {None}, Hook(i, cwd)
    PROVE  ToolIsRight'
<1>. DEFINE a == agents[i]
            tool == DetectTool(a.env.gemini, a.env.claude, cwd)
<1>. SUFFICES ASSUME cwd = a.dir,
                     ~ \E b \in Enclosing' : b.dir = a.dir,
                     server.gemini # a.dir
              PROVE  last'.report # None /\ last'.report.tool = a.tool
  BY Knows DEF ToolIsRight, Hook
<1>1. cwd # None
  BY Knows, NoneAssumption
<1>2. a.tool # "gemini" => ~Matches(a.env.gemini, cwd)
  BY <1>1, Knows, AboveEncloses DEF EnvTraced, Matches
<1>3. a.tool = "codex" => ~Matches(a.env.claude, cwd)
  BY <1>1, Knows, AboveEncloses DEF EnvTraced, Matches
<1>4. tool = a.tool
  <2>1. CASE a.tool = "gemini"
    BY <1>1, <2>1, Knows DEF EnvTraced, Matches, DetectTool
  <2>2. CASE a.tool = "claude"
    BY <1>1, <1>2, <2>2, Knows DEF EnvTraced, Matches, DetectTool
  <2>3. CASE a.tool = "codex"
    BY <1>1, <1>2, <1>3, <2>3, Knows DEF DetectTool
  <2>. QED
    BY <2>1, <2>2, <2>3, Knows DEF Tools
<1>. QED
  <2>1. ProjectDir(tool, a.env.gemini, a.env.claude, cwd) = cwd
    BY <1>1 DEF ProjectDir
  <2>2. tool # None
    BY <1>4, Knows, NoneAssumption
  <2>3. last'.report = [name |-> session.name, dir |-> cwd, tool |-> a.tool]
    <3>0. last'.report = Report(a.env, cwd)
      BY Knows
    <3>1. last'.report = IF None \in {a.env.session, tool, ProjectDir(tool, a.env.gemini, a.env.claude, cwd)}
                         THEN None
                         ELSE [name |-> a.env.session, tool |-> tool,
                               dir |-> ProjectDir(tool, a.env.gemini, a.env.claude, cwd)]
      BY <3>0, SMTT(30) DEF Report
    <3>. QED
      BY <1>1, <1>4, <2>1, <2>2, <3>1, Knows
  <2>. QED
    BY <2>3, Knows, NoneAssumption DEF TypeOK, Reports, NoSession

LEMMA HookKeyRight ==
    ASSUME TypeOK, EnvsTraced, NEW i \in 1 .. MaxDepth, NEW cwd \in Dirs \cup {None}, Hook(i, cwd)
    PROVE  KeyIsRight'
<1>. DEFINE a == agents[i]
<1>. SUFFICES ASSUME last'.report # None
              PROVE  /\ last'.report.name = session.name
                     /\ cwd # None => last'.report.dir = cwd
                     /\ \/ last'.report.dir \in {cwd, a.dir}
                        \/ \E b \in Enclosing' : b.tool = "gemini" /\ last'.report.dir = b.dir
                        \/ last'.report.dir = server.gemini
  BY Knows DEF KeyIsRight, Hook
<1>1. PICK tool, dir :
         /\ tool = DetectTool(a.env.gemini, a.env.claude, cwd)
         /\ dir = ProjectDir(tool, a.env.gemini, a.env.claude, cwd)
         /\ last'.report = [name |-> session.name, dir |-> dir, tool |-> tool]
         /\ dir # None
  <2>1. last'.report = LET tool == DetectTool(a.env.gemini, a.env.claude, cwd)
                           dir == ProjectDir(tool, a.env.gemini, a.env.claude, cwd)
                       IN  IF None \in {session.name, tool, dir} THEN None
                           ELSE [name |-> session.name, dir |-> dir, tool |-> tool]
    <3>1. last'.report = Report(a.env, cwd) /\ a.env.session = session.name
      BY Knows
    <3>. QED
      BY <3>1, SMTT(30) DEF Report
  <2>. QED
    BY <2>1
<1>2. last'.report.name = session.name /\ last'.report.dir = dir
  BY <1>1
<1>3. /\ a.tool = "gemini" => a.env.gemini = a.dir
      /\ a.tool = "claude" => a.env.claude = a.dir
      /\ i \in 1 .. Len(agents)
      /\ Enclosing' = {agents[j] : j \in 1 .. i - 1}
  BY Knows DEF EnvTraced
<1>4. CASE cwd # None
  BY <1>2, <1>1, <1>4 DEF ProjectDir
<1>5. CASE cwd = None
  <2>1. \/ tool = "gemini" /\ dir = a.env.gemini
        \/ tool = "claude" /\ dir = a.env.claude /\ a.env.gemini = None
    BY <1>1, <1>5, NoneAssumption DEF ProjectDir, DetectTool, Matches, Tools
  <2>2. CASE dir = a.env.gemini
    <3>1. CASE a.tool = "gemini"
      <4>1. last'.report.dir = a.dir
        BY <1>2, <1>3, <2>2, <3>1
      <4>. QED
        BY <1>2, <1>5, <4>1
    <3>2. CASE a.tool # "gemini"
      <4>1. dir \in {server.gemini} \cup DirsOf(Above(i, {"gemini"}))
        BY <1>1, <2>2, Knows DEF EnvTraced
      <4>. QED
        BY <1>2, <1>3, <1>5, <3>2, <4>1, AboveEncloses
    <3>. QED
      BY <3>1, <3>2
  <2>3. CASE dir = a.env.claude /\ a.env.gemini = None
    <3>1. a.tool = "claude"
      BY <1>5, <2>3, Knows, NoneAssumption DEF EnvTraced, Tools
    <3>. QED
      BY <1>2, <1>3, <1>5, <2>3, <3>1
  <2>. QED
    BY <1>5, <2>1, <2>2, <2>3
<1>. QED
  BY <1>4, <1>5

\* In every other step there is no hook to speak of.
LEMMA OtherStep ==
    ASSUME TypeOK, ToolIsRight, KeyIsRight, [Next]_vars,
           ~ \E i \in 1 .. MaxDepth, cwd \in Dirs \cup {None} : Hook(i, cwd)
    PROVE  ToolIsRight' /\ KeyIsRight'
<1>1. CASE last' = NoHook
  BY <1>1 DEF NoHook, Hooked, ToolIsRight, KeyIsRight
<1>2. CASE UNCHANGED vars
  BY <1>2 DEF vars, Hooked, Sender, Enclosing, ToolIsRight, KeyIsRight
<1>. QED
  BY <1>1, <1>2 DEF Next, New, Nest, Exit

LEMMA NextRight ==
    TypeOK /\ EnvsTraced /\ ToolIsRight /\ KeyIsRight /\ [Next]_vars => ToolIsRight' /\ KeyIsRight'
BY HookToolRight, HookKeyRight, OtherStep

LEMMA InitRight == Init => ToolIsRight /\ KeyIsRight
BY DEF Init, NoHook, Hooked, ToolIsRight, KeyIsRight

\* Unless a Gemini or a Claude Code it runs below, or the Gemini the tmux
\* server was started below, works in the same directory, an agent's hook is
\* taken for that agent's, however deep agents run each other.
THEOREM ToolsAreRight == Spec => []ToolIsRight
BY AlwaysTraced, InitRight, NextRight, PTL DEF Spec

\* A hook reports for the session of its pane and for the directory it is in,
\* or for its agent's own, unless a Gemini encloses it.
THEOREM KeysAreRight == Spec => []KeyIsRight
BY AlwaysTraced, InitRight, NextRight, PTL DEF Spec
=============================================================================
