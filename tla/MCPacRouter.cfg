SPECIFICATION FairSpec
CONSTANTS
    Conn = {c1, c2}
    Host = {h}
    Path = {a, b}
    Proxy = {p1}
    Direct = Direct
    Err = Err
    Nobody = Nobody
    NoJob = NoJob
    ResolveTimeout = 1
    CacheTtl = 1
    CacheMaxEntries = 1
    MaxUpstreams = 1
    MaxQueue = 2
INVARIANTS RoutedAsDecided DecisionsAreRecent JobsBelong
PROPERTY NothingIsStuck
CHECK_DEADLOCK FALSE
