CONSTANTS
    Users = {u1}
    MaxTokens = 3
    Browsers = {b1}
    Scripts = {}
    Requests = {r1}
    RefreshTTL = 2
    AccessTTL = 1
    None = None
    Keep = Keep
    Never = Never
    RedisMayLose = TRUE
    Prompt = TRUE
SPECIFICATION FairAccessSpec
INVARIANTS OneLiveToken LogoutEndsSession CutoffIsBounded
PROPERTIES OnlyDeadCookiesCleared StoreDrains
