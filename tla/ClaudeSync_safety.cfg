SPECIFICATION Spec
CONSTANTS
    QuietPeriod = 3
    RunningIdleThreshold = 5
    WaitingPromptThreshold = 2
    IdleRunningThreshold = 2
    WaitingIdleThreshold = 3
    WaitingGrace = 2
    Screens <- TornScreens
    SteadyScreens <- Steady
    HookEvents <- ToolHooks
    TranscriptNoise = {"lag", "scroll"}
    Faults = TRUE
INVARIANTS TypeOK
PROPERTIES WakesOnRealSignals StaysWaitingWhilePrompted IdleOnlyAfterLull
