SPECIFICATION FairSpec
CONSTANTS
    c1 = c1
    c2 = c2
    p1 = p1
    p2 = p2
    red = red
    blue = blue
    all = all
    nofilter = nofilter
    none = none
    Clients = {c1, c2}
    Publishers = {p1}
    Namespaces = {red, blue}
    Requests = {{red}}
    Wildcard = all
    NoFilter = nofilter
    NoMessage = none
    BufCap = 1
    QueueCap = 1
    MaxBroadcasts = 3
    Unencodable = {2}
    Unflushable = {c2}
INVARIANTS
    TypeOK
    ChannelsOpen
    NamespaceIsolation
    InOrder
    LossOnlyByOverflow
PROPERTIES
    PublisherProceeds
    DisconnectUnregisters
CHECK_DEADLOCK FALSE
