SPECIFICATION AllParts
CONSTANTS
    s1 = s1
    s2 = s2
    c1 = c1
    c2 = c2
    f1 = f1
    f2 = f2
    q1 = q1
    q2 = q2
    Collector = Collector
    m1 = m1
    m2 = m2
    m3 = m3
    p1 = p1
    p2 = p2
    Sources = {s1, s2}
    Callers = {c1, c2}
    FullTasks = {f1, f2}
    QuickTasks = {q1, q2}
    NoTask = NoTask
    Slots = 1
    Attempts = 2
    OrderedSources <- MCOrder
    Preferred = {s1}
    AliasCount = 2
    QueryBudget = 4
    MaxConcurrency = 2
    Matches = {m1, m2, m3}
    Sites = {s1, s2}
    SiteOf <- MCSiteOf
    BoundMatches <- MCBound
    Producers = {p1, p2}
    Finds <- MCFinds
    MaxInFlight = 2
    LineCount = 2
    Threshold = 3
    Failing = {s1}
    h1 = h1
    h2 = h2
    w1 = w1
    w2 = w2
    Handlers = {h1, h2}
    Workers = {w1, w2}
    NoWorker = NoWorker
    GuessLimit = 1
    MaxAttempts = 2
    BatchSize = 2
    MaxCodes = 2
    MaxCrashes = 1
    MaxSlow = 1
INVARIANTS
    TypesOK
    RunningIsTracked
    ScansAreTrue
    CodesAreSafe
PROPERTIES
    WhatIsDoneStands
    EveryoneIsAnswered
    CircuitIsProviders
    EverythingEnds
CHECK_DEADLOCK FALSE
