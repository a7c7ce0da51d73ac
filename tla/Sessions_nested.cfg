SPECIFICATION FairSpec
CONSTANTS
    c1 = c1
    c2 = c2
    h1 = h1
    h2 = h2
    Keys <- TwoKeys
    NewKeys <- OneKey
    Commands = {c1, c2}
    Hooks = {h1}
    HookInputs <- GeminiInputs
    TmuxFaults = FALSE
INVARIANTS NoPhantomRows
PROPERTIES ImplementsLifecycle DeadRowsReaped DeadSessionsStayGone
