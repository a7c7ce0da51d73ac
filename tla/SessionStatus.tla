---------------------------- MODULE SessionStatus ----------------------------
(***************************************************************************)
(* The status of a coding-agent session and how a hook event changes it:   *)
(* internal/status, and the event normalisation of internal/agent and of   *)
(* internal/hook.  Pure definitions, used by every module that reads or    *)
(* writes a session's status.                                              *)
(***************************************************************************)

Statuses == {"running", "waiting", "idle"}

\* What a hook that finds no row uses in place of a stored status.
Unknown == "unknown"

\* agent.Unknown is the empty string: what a row's agent_tool holds before
\* the first SessionStart, and what DetectTool returns outside an agent.
UnknownTool == ""

Tools == {"claude", "codex", "gemini"}

\* The event names an agent's hook configuration can send, those muxac
\* does not know included ("PreCompact" stands for them).
HookEventNames ==
    {"UserPromptSubmit", "PreToolUse", "PostToolUse", "PermissionRequest",
     "Stop", "SessionStart", "SessionEnd", "Notification",
     "BeforeAgent", "BeforeTool", "AfterAgent", "PreCompact"}

\* "" when the event carries no notification_type; "idle_prompt" stands for
\* the types that are not about a permission.
NotificationTypes == {"", "permission_prompt", "ToolPermission", "idle_prompt"}

RunningEvents == {"UserPromptSubmit", "PreToolUse", "PostToolUse"}
WaitingEvents == {"PermissionRequest"}
IdleEvents    == {"Stop", "SessionStart", "SessionEnd"}

\* The events FromEvent recognises; a hook with any other does nothing.
CanonicalEvents == RunningEvents \cup WaitingEvents \cup IdleEvents

FromEvent ==
    [e \in CanonicalEvents |->
        CASE e \in RunningEvents -> "running"
          [] e \in WaitingEvents -> "waiting"
          [] e \in IdleEvents    -> "idle"]

IsValidTransition(current, event) ==
    ~(current = "waiting" /\ event \in {"Stop", "PreToolUse"})

\* Gemini's own names for the events Claude and Codex already send in
\* canonical form.
GeminiCanonical ==
    [BeforeAgent |-> "UserPromptSubmit",
     BeforeTool  |-> "PreToolUse",
     AfterAgent  |-> "Stop"]

NormalizeEvent(tool, event) ==
    IF tool = "gemini" /\ event \in DOMAIN GeminiCanonical
    THEN GeminiCanonical[event]
    ELSE event

\* A Notification about a permission counts as a PermissionRequest, whatever
\* the tool.
PermissionNotification(event, notification) ==
    /\ event = "Notification"
    /\ notification \in {"permission_prompt", "ToolPermission"}

\* The canonical event a hook process acts on.
HookEvent(input) ==
    NormalizeEvent(input.tool,
        IF PermissionNotification(input.event, input.notification)
        THEN "PermissionRequest"
        ELSE input.event)
=============================================================================
