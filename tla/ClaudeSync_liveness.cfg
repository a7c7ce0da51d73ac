SPECIFICATION FairSpec
CONSTANTS
    QuietPeriod = 2
    RunningIdleThreshold = 2
    WaitingPromptThreshold = 2
    IdleRunningThreshold = 2
    WaitingIdleThreshold = 2
    WaitingGrace = 2
    Screens <- CleanScreens
    SteadyScreens <- Steady
    HookEvents <- TurnHooks
    TranscriptNoise = {"lag"}
    Faults = TRUE
PROPERTIES PromptIsShown WorkIsShown IdleIsShown StaysWithinLifecycle
