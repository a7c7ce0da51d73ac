----------------------------- MODULE MCSessions -----------------------------
(***************************************************************************)
(* Instances of Sessions for TLC.  Paths are a few characters long, enough *)
(* to keep the "/" and the "." that fromDir rewrites.                      *)
(***************************************************************************)
EXTENDS Sessions, TLC

CONSTANTS c1, c2, h1, h2

\* `muxac new --dir /a`, and an agent that a pane of it starts in /a/b.
Session == [name |-> <<"d">>, path |-> <<"/", "a">>]
Nested  == [name |-> <<"d">>, path |-> <<"/", "a", "/", "b">>]

OneKey   == {Session}
TwoKeys  == {Session, Nested}

Input(tool, event) ==
    [tool |-> tool, event |-> event, notification |-> "", sessionID |-> event = "SessionStart"]

PermissionNotice(tool, type) ==
    [tool |-> tool, event |-> "Notification", notification |-> type, sessionID |-> FALSE]

\* One event for each status, and SessionStart, which also fills in the
\* agent's columns.
ClaudeInputs == {Input("claude", e) : e \in {"UserPromptSubmit", "PermissionRequest", "Stop", "SessionStart"}}

\* A turn of Claude: prompt, end of turn, start.
TurnInputs == {Input("claude", e) : e \in {"UserPromptSubmit", "SessionStart"}}

\* A start, an event muxac ignores, and notifications of Gemini that are and
\* are not about a permission.
GeminiInputs ==
    {Input("gemini", e) : e \in {"SessionStart", "PreCompact"}}
    \cup {PermissionNotice("gemini", t) : t \in {"ToolPermission", "idle_prompt"}}

\* The same pane runs Claude and then Codex, whose rows the monitor only ever
\* moves to idle.
AgentInputs == ClaudeInputs \cup {Input("codex", "SessionStart")}

HookSymmetry == Permutations(Hooks)
=============================================================================
