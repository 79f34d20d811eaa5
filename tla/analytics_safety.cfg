SPECIFICATION Spec
CONSTANTS
    Resources <- TwoResources
    Workload <- WorkloadType
    Ids <- PlainIds
    Kinds = {"error", "latency", "deploy", "deploy_success", "deploy_failure"}
    Causes = {"timeout"}
    NoCause = ""
    Values <- SmallDurations
    MaxDuration = 5
    Posted <- SmallMetrics
    Queries <- SmallQueries
    MaxMetrics = 2
    MaxClock = 2
INVARIANTS
    TypeOK
    PageExact
    ReportsAgree
CHECK_DEADLOCK FALSE
