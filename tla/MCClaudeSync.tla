---------------------------- MODULE MCClaudeSync ----------------------------
(***************************************************************************)
(* Instances of ClaudeSync for TLC: what the terminal may show.            *)
(***************************************************************************)
EXTENDS ClaudeSync

\* Every frame that is not torn: work may show no sign for a beat, a turn may
\* end with a question or an ellipsis, and a prompt shows its footer.
CleanScreens ==
    [working |-> {{"statusLine", "text"}, {"spinner", "text"}, {"text"}},
     prompt  |-> {{"chrome", "text"}, {"chrome", "amend", "prose", "text"}},
     idle    |-> {{"text"}, {"prose", "text"}, {"spinner", "text"}}]

\* The same, but no turn ends with a question or an ellipsis.
PlainScreens == [CleanScreens EXCEPT !["idle"] = {{"text"}}]

\* CleanScreens with the blank frames of a redraw, except at a prompt.
TornScreens ==
    [CleanScreens EXCEPT !["working"] = @ \cup {{}}, !["idle"] = @ \cup {{}}]

\* What the terminal shows once nothing moves any more; a closing line that ends
\* in an ellipsis may stay for ever, or scroll out of the lines searched for it.
Steady ==
    [working |-> {{"statusLine", "text"}, {"statusLine", "spinner", "text"}},
     prompt  |-> {{"chrome", "text"}, {"chrome", "amend", "prose", "text"}},
     idle    |-> {{"text"}, {"spinner", "text"}}]

\* The same, but no turn ends with an ellipsis.
PlainSteady == [Steady EXCEPT !["idle"] = {{"text"}}]

\* A hook for each status; Stop is the one a waiting row ignores.
TurnHooks == {"UserPromptSubmit", "PermissionRequest", "Stop"}

\* The hooks around a permission request, a compaction's SessionStart, and the
\* end of the turn.  PreToolUse does less than PostToolUse.
ToolHooks == {"PermissionRequest", "PostToolUse", "SessionStart", "Stop"}
=============================================================================
