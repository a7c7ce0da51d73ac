SPECIFICATION FairSpec
CONSTANTS
    Agents = {"codex", "gemini"}
    ClearThreshold = 2
    Screens <- AgentScreens
    TornScreens <- Torn
    HookEvents <- TurnHooks
    Faults = TRUE
INVARIANT TypeOK
PROPERTIES CodexIdleIsReal GeminiPromptKeepsWaiting StaysWithinLifecycle CodexInterruptIsShown GeminiAnswerIsShown
