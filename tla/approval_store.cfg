SPECIFICATION FairSpec
CONSTANTS
    i1 = i1
    i2 = i2
    a1 = a1
    a2 = a2
    noagent = noagent
    t1 = t1
    t2 = t2
    o1 = o1
    o2 = o2
    nobody = nobody
    Ids = {i1}
    Agents = {a1}
    NoAgent = noagent
    Tools = {t1, t2}
    TTLSeconds = {0, 1, 2, 5}
    DefaultTTL = 1
    Second = 2
    MaxDuration = 3
    Operators = {o1, o2}
    Nobody = nobody
    MaxTime = 3
    MaxCalls = 2
INVARIANTS
    TypeOK
    DecidedOnce
PROPERTIES
    Final
    DecisionAudited
    ImplementsGate
CHECK_DEADLOCK FALSE
