---------------------------- MODULE MCAgentSyncs ----------------------------
(***************************************************************************)
(* Instances of AgentSyncs for TLC: what the terminal may show.            *)
(***************************************************************************)
EXTENDS AgentSyncs

CodexScreens ==
    [working |-> {{"busy", "text"}},
     prompt  |-> {{"codexPrompt", "text"}},
     idle    |-> {{"text"}}]

GeminiScreens ==
    [working |-> {{"text"}},
     prompt  |-> {{"geminiPrompt", "text"}},
     idle    |-> {{"text"}}]

AgentScreens == [a \in {"codex", "gemini"} |->
                   IF a = "codex" THEN CodexScreens ELSE GeminiScreens]

\* A frame without its marks, and a blank one.
Torn == {{"text"}, {}}

\* A hook for each status; SessionStart also identifies the agent.
TurnHooks == {"SessionStart", "UserPromptSubmit", "PermissionRequest"}
=============================================================================
