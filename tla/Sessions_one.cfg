SPECIFICATION Spec
CONSTANTS
    c1 = c1
    c2 = c2
    h1 = h1
    h2 = h2
    Keys <- OneKey
    NewKeys <- OneKey
    Commands = {c1}
    Hooks = {h1, h2}
    HookInputs <- AgentInputs
    TmuxFaults = FALSE
SYMMETRY HookSymmetry
INVARIANTS TypeOK WaitingSinceConsistent
PROPERTIES DeletesOnlyLapsedSessions MonitorRespectsHooks OnlyOldHooksRevive
