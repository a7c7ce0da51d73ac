SPECIFICATION FairSpec
CONSTANTS
    QuietPeriod = 5
    RunningIdleThreshold = 8
    WaitingPromptThreshold = 2
    IdleRunningThreshold = 2
    WaitingIdleThreshold = 3
    WaitingGrace = 2
    Screens <- PlainScreens
    SteadyScreens <- PlainSteady
    HookEvents = {}
    TranscriptNoise = {}
    Faults = FALSE
PROPERTIES CancelledWaitEnds
