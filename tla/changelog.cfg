SPECIFICATION FairSpec
CONSTANTS
    p1 = p1
    p2 = p2
    s1 = s1
    s2 = s2
    Publishers = {p1, p2}
    Subs = {s1}
    Enabled = TRUE
    EmailEnabled = TRUE
    WebhooksEnabled = TRUE
    InitialEntries = 1
    MaxReleases = 2
    Counts = {0, 2}
INVARIANTS
    TypeOK
    ToldOnce
    AloneRecorded
    NothingTwice
PROPERTIES
    PublishReturns
CHECK_DEADLOCK FALSE
