SPECIFICATION Spec
CONSTANTS
    h1 = h1
    h2 = h2
    p1 = p1
    p2 = p2
    success = success
    breaking = breaking
    nohook = nohook
    Hooks = {h1, h2}
    Malformed = {h2}
    Callers = {p1, p2}
    Settings <- Everything
    MaxRetries = 2
    QueueCap = 1
    MaxTriggers = 3
    Events = {success, breaking}
    Success = success
    Breaking = breaking
    NoHook = nohook
SYMMETRY Symmetry
INVARIANTS
    TypeOK
    NoneLostOrDoubled
    AnswersHonest
    HeldUpByWorkerOnly
PROPERTY
    ImplementsDelivery
CHECK_DEADLOCK FALSE
