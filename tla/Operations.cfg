SPECIFICATION AllParts
CONSTANTS
    Databases = {"empty", "legacy", "constrained", "partial", "created"}
    DowngradeGoals = {0, 13}
    MaxCommands = 3
    MaxCrashes = 1
    Titles = {t1, t2}
    Refreshes = {r1, r2}
    Readers = {c1}
    Nobody = Nobody
    Fresh = 1
    Stale = 2
    Keep = 1
    Enough = 1
    CatalogTicks = 1
    Questions = {q1, q2, q3}
    Places = 2
    Pauses = {1, 2}
    Ticks = 4
    Matches = {"a", "b"}
    SiteOf <- MCSiteOf
    Offers <- MCOffers
    Kind <- MCKind
    Concurrency = 1
    MaxHops = 2
    MaxDepth = 2
    Accounts = {a1, a2}
    Anonymous = Anonymous
    Players = {p1, p2}
    Episodes = {e1, e2}
    DanmakuPage = 1
    Patience = 1
    KeepComments = 2
    KeepNothing = 1
    Capacity = 1
    MaxPosts = 3
    NetworkTicks = 3
    Keys = {"k1", "k2", "k3"}
    Allowed = 2
    Window = 2
    MaxKeys = 2
    Workers = 2
    Jobs = {j1, j2, j3}
    Users = {u1, u2}
    Targets = {"comment", "title"}
    KindOf <- MCKindOf
    Types = {"wish"}
    Requests = {x1, x2}
    MaxMarks = 2
    PageSize = 2
    MaxComments = 4
    Loops <- MCLoops
    AtOnce = {"precache", "metadata", "site_index"}
    ProvidersAreOn = TRUE
    Series <- MCSeries
    Entries <- MCEntries
    Importer = Importer
    Viewers = {v1, v2}
    OneViewer = {v1}
    CacheSize = 1
    MaxCues = 2
    Total = 2
    MaxMishaps = 1
INVARIANTS
    SchemaIsWhole
    SourcesAreTrue
    CommunityHolds
    LimitsHold
    ShutdownHolds
    SubtitlesHold
PROPERTIES
    RankingMovesForward
    ProvidersAreSpared
CHECK_DEADLOCK FALSE
