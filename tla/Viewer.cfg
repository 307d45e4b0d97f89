SPECIFICATION ForOne
CONSTANTS
    h1 = h1
    h2 = h2
    Handlers = {h1, h2}
    NoHandler = NoHandler
    SessionLimit = 2
    MaxCredential = 3
    MaxPassword = 3
    MaxRequest = 1
    MaxFailures = 1
    Items <- MCItems
    Length = 3
    Weights <- MCWeights
    Limit = 2
    Routes <- MCRoutes
    Managed <- MCManaged
    Providers <- MCProviders
    Longest = 3
    LineCount = 2
    PerishableLife = 1
    Horizon = 4
    Playlists <- MCPlaylists
    Webs <- MCWebs
    First = "u1"
    MaxRedirects = 2
    ShortTime = 2
    EdgeTime = 8
    OddCount = 1
    Searched = {"maccms", "age", "yhdm", "tvbox"}
    Offered <- MCOffered
    Maccms = "maccms"
    SitePriority <- MCPriority
    Cap <- MCCap
    MaxResults = 7
INVARIANTS
    AuthorityHolds
    SessionsFollowPassword
    PendingMeansSignedOut
    OneLiveToken
    ReplayEndsSession
    ListsAreFair
    StreamsAreServed
PROPERTIES
    EndedStaysEnded
    DueIsErased
CHECK_DEADLOCK FALSE
