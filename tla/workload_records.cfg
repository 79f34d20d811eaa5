SPECIFICATION FairSpec
CONSTANTS
    r1 = r1
    r2 = r2
    w1 = w1
    w2 = w2
    n1 = n1
    n2 = n2
    Requests = {r1, r2}
    Offered = {"deploy", "delete", "restart", "rollback", "bulk", "setQuota", "deleteQuota", "checkpoint", "restore", "migrate", "drain"}
    Workloads = {w1}
    Namespaces = {n1}
    Home <- HomeOf
    Empty = empty
    NoFilter = nofilter
    MaxChanges = 2
    SSEEnabled = TRUE
INVARIANTS
    TypeOK
    AuditTruthful
    AnswerMatchesRecords
    PreviewsPure
PROPERTIES
    Answered
CHECK_DEADLOCK FALSE
