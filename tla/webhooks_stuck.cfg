SPECIFICATION FairSpec
CONSTANTS
    h1 = h1
    h2 = h2
    p1 = p1
    p2 = p2
    success = success
    breaking = breaking
    nohook = nohook
    Hooks = {h1, h2}
    Malformed = {}
    Callers = {p1}
    Settings <- OnOnly
    MaxRetries = 2
    QueueCap = 1
    MaxTriggers = 1
    Events = {success, breaking}
    Success = success
    Breaking = breaking
    NoHook = nohook
PROPERTY RetriesTaken
CHECK_DEADLOCK FALSE
