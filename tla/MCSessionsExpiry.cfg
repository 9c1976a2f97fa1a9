CONSTANTS
    Users = {u1}
    MaxTokens = 2
    Browsers = {}
    Scripts = {s1}
    Requests = {r1, r2}
    RefreshTTL = 2
    None = None
    Keep = Keep
    RedisMayLose = FALSE
    Prompt = FALSE
SPECIFICATION Spec
PROPERTIES WithdrawnNeverRenewed
