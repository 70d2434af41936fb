SPECIFICATION FairSpec
CONSTANTS
    Unset = Unset
    Text = Text
    MaxInt = 7
    Retries <- MCRetries
    Sizes <- MCSizes
    Timeouts <- MCTimeouts
    Concurrencies <- MCConcurrencies
    MinSize = 5
    MaxSize = 9
    DefaultSize = 6
    MaxConcurrency = 4
    DefaultConcurrency = 2
    MaxRetries = 1
    Keys <- MCKeys
    Prefixes <- MCPrefixes
    Limits <- MCLimits
    PageSizes <- MCPageSizes
    MaxInt32 = 3
    Cap = 2
INVARIANTS
    TypeOK
    AnswerIsOfAMoment
    RetriesAsConfigured
    WalkIsComplete
PROPERTY WalkEnds
CHECK_DEADLOCK FALSE
