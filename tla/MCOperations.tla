---------------------------- MODULE MCOperations ----------------------------
(***************************************************************************)
(* What the server does for one request or one command, each part in its   *)
(* own environment: the parts share no state, and `part` says which one a  *)
(* behaviour is about; the others stay as they are.  Modules that model    *)
(* two things (comments of the accounts and of the other network, attempts *)
(* and hashes, marks and lists) have a part for each.                      *)
(***************************************************************************)
EXTENDS Migrations, TLC

CONSTANTS Titles, Refreshes, Readers, Nobody, Fresh, Stale, Keep, Enough,
          CatalogTicks                                            \* Catalog
CONSTANTS Questions, Places, Pauses, Ticks                        \* ProviderGate
CONSTANTS Matches, SiteOf, Offers, Kind, Concurrency, MaxHops,
          MaxDepth                                                \* Resolution
CONSTANTS Accounts, Anonymous, Players, Episodes, DanmakuPage, Patience,
          KeepComments, KeepNothing, Capacity, MaxPosts, NetworkTicks\* Danmaku
CONSTANTS Keys, Allowed, Window, MaxKeys, Workers, Jobs           \* RateLimit
CONSTANTS Users, Targets, KindOf, Types, Requests, MaxMarks, PageSize,
          MaxComments                                             \* Community
CONSTANTS Loops, AtOnce, ProvidersAreOn                           \* Lifecycle
CONSTANTS Series                                                  \* Aliases
CONSTANTS Entries, Importer, Viewers, OneViewer, CacheSize, MaxCues, Total,
          MaxMishaps                                              \* SubtitleLibrary

VARIABLES
    part,
    now, row, refresh, current, reader, closed,
    clock, question, cooldown,
    verify, match, check, merged, healthOf,
    tick, comment, posted, view, kept, flight, player,
    instant, shared, bucket, granted, refused, slots, hash,
    mark, inserted, likes, request, erased, overlapped, thread, visitor,
    program, stage, task, open,
    tmdb, names, asking,
    remote, object, cached, drive, uploads, private, late, index, remoteId, errand,
    mishaps

Catalogue == INSTANCE Catalog WITH Ticks <- CatalogTicks
Gate == INSTANCE ProviderGate
Resolved == INSTANCE Resolution
Danmaku == INSTANCE Danmaku WITH PageSize <- DanmakuPage, Keep <- KeepComments,
                                Ticks <- NetworkTicks
Limiter == INSTANCE RateLimit WITH work <- hash
Legacy == INSTANCE Community
Process == INSTANCE Lifecycle WITH server <- program
Known == INSTANCE Aliases WITH request <- asking
Library == INSTANCE SubtitleLibrary WITH task <- errand, Readers <- Viewers, MaxMishaps <- 0
Spoiled == INSTANCE SubtitleLibrary WITH task <- errand, Readers <- OneViewer

\* A refresh is somebody.
ASSUME CatalogAssumption == Nobody \notin Refreshes /\ Stale \in Nat

\* Retry-After is a number of seconds.
ASSUME PauseAssumption == Pauses \subseteq Nat

\* There is room for one thing at least.
ASSUME NetworkAssumption ==
    Capacity \in Nat \ {0} /\ KeepComments \in Nat /\ KeepNothing \in Nat

\* "rate limit capacity and window must be positive" (rate_limit.py); the
\* requests are finitely many.
ASSUME LimitAssumption ==
    /\ Allowed \in Nat \ {0} /\ Window \in Nat \ {0} /\ Workers \in Nat
    /\ IsFiniteSet(Jobs) /\ "none" \notin Keys

\* The command of the operator is no request of a viewer.
ASSUME LibraryAssumption == Importer \notin Viewers \cup OneViewer

\* A page has one comment at least (ge=1 in routers/danmaku.py, 20 and 30 in
\* legacy_comments.py), and "none" is no account.
ASSUME CommunityAssumption ==
    PageSize \in Nat \ {0} /\ DanmakuPage \in Nat \ {0} /\ "none" \notin Users

\* The scheduler's loops have names of their own (scheduler.py, start).
ASSUME LoopAssumption ==
    /\ Loops \in Seq(Process!LoopSet)
    /\ Process!LoopSet \cap (Process!Services \cup Process!Detached \cup {"outbox"}) = {}

\* What TMDB finds: series and their seasons, of which those without a number are
\* left out (catalog.py, _season_specific_playback_aliases).
ASSUME SeriesAssumption ==
    \A found \in Series :
        found \in Seq([same : BOOLEAN,
                      seasons : Seq([number : Nat \ {0}, name : BOOLEAN, year : BOOLEAN,
                                     episodes : BOOLEAN])])

catalogueVars == <<now, row, refresh, current, reader, closed>>
gateVars == <<clock, question, cooldown>>
resolvedVars == <<verify, match, check, merged, healthOf>>
danmakuVars == <<tick, comment, posted, view, kept, flight, player>>
limiterVars == <<instant, shared, bucket, granted, refused, slots, hash>>
legacyVars == <<mark, inserted, likes, request, erased, overlapped, thread, visitor>>
processVars == <<program, stage, task, open>>
knownVars == <<tmdb, names, asking>>
libraryVars == <<remote, object, cached, drive, uploads, private, late, index, remoteId,
                 errand, mishaps>>

Everything ==
    <<part, vars, catalogueVars, gateVars, resolvedVars, danmakuVars, limiterVars,
      legacyVars, processVars, knownVars, libraryVars>>

Parts == {"schema", "catalog", "gate", "resolution", "danmaku", "network", "limiter",
          "passwords", "marks", "comments", "lifecycle", "aliases", "library", "mishaps"}

-----------------------------------------------------------------------------
(***************************************************************************)
(* Values                                                                  *)
(***************************************************************************)
\* Two matches of one site that have an address in common.
MCSiteOf == "a" :> "site" @@ "b" :> "site"
MCOffers == "a" :> {"u", "w"} @@ "b" :> {"u", "v"}
MCKind == "u" :> "direct" @@ "v" :> "opaque" @@ "w" :> "unlisted"

MCKindOf == "comment" :> "counted" @@ "title" :> "typed"

MCLoops == <<"precache", "cache_refresh", "metadata", "health", "privacy", "site_index">>

\* No series, one of another name first, the right one first, three wrong ones.
MCSeason(number, name, year, episodes) ==
    [number |-> number, name |-> name, year |-> year, episodes |-> episodes]
MCSeries ==
    LET two == <<MCSeason(1, FALSE, FALSE, TRUE), MCSeason(2, FALSE, TRUE, TRUE),
                 MCSeason(3, TRUE, FALSE, FALSE)>>
        firsts == <<MCSeason(1, TRUE, FALSE, TRUE), MCSeason(2, FALSE, TRUE, TRUE)>>
        other == [same |-> FALSE, seasons |-> two]
        right == [same |-> TRUE, seasons |-> two]
    IN  {<<>>, <<other, right>>, <<[same |-> TRUE, seasons |-> firsts], other>>,
         <<other, other, other, right>>}

\* Two episodes with a file each, a file that may not be given, one without cues.
MCEntry(digest, episode, allowed, cues) ==
    [digest |-> digest, episode |-> episode, reviewed |-> TRUE, allowed |-> allowed,
     cues |-> cues]
MCEntries ==
    {MCEntry("d1", 1, TRUE, 1), MCEntry("d2", 2, TRUE, 1), MCEntry("d1", 2, FALSE, 1),
     MCEntry("d2", 1, TRUE, 0)}

-----------------------------------------------------------------------------
\* What may vary varies in the part that it is about.
Start ==
    /\ part \in Parts
    /\ part # "aliases" => tmdb = <<>>
    /\ part # "limiter" => shared = FALSE
    /\ part # "resolution" => verify = TRUE
    /\ part # "catalog" => row = [t \in Titles |-> Catalogue!NoRow]
    /\ Init /\ Catalogue!Init /\ Gate!Init /\ Resolved!Init /\ Danmaku!Init
    /\ Limiter!Init /\ Legacy!Init /\ Process!Init /\ Known!Init
    /\ IF part = "mishaps" THEN Spoiled!Init ELSE Library!Init
    /\ part \notin {"library", "mishaps"} => remote = FALSE
    /\ part # "schema" => store.schema = {}

Still(here) ==
    /\ UNCHANGED part
    /\ "schema" # here => UNCHANGED vars
    /\ "catalog" # here => UNCHANGED catalogueVars
    /\ "gate" # here => UNCHANGED gateVars
    /\ "resolution" # here => UNCHANGED resolvedVars
    /\ here \notin {"danmaku", "network"} => UNCHANGED danmakuVars
    /\ here \notin {"limiter", "passwords"} => UNCHANGED limiterVars
    /\ here \notin {"marks", "comments"} => UNCHANGED legacyVars
    /\ "lifecycle" # here => UNCHANGED processVars
    /\ "aliases" # here => UNCHANGED knownVars
    /\ here \notin {"library", "mishaps"} => UNCHANGED libraryVars

Step ==
    \/ part = "schema" /\ Next /\ Still("schema")
    \/ part = "catalog" /\ Catalogue!Next /\ Still("catalog")
    \/ part = "gate" /\ Gate!Next /\ Still("gate")
    \/ part = "resolution" /\ Resolved!Next /\ Still("resolution")
    \/ part = "danmaku" /\ Danmaku!Community /\ Still("danmaku")
    \/ part = "network" /\ Danmaku!Network /\ Still("network")
    \/ part = "limiter" /\ Limiter!LimitAttempts /\ Still("limiter")
    \/ part = "passwords" /\ Limiter!Hash /\ Still("passwords")
    \/ part = "marks" /\ Legacy!Marks /\ Still("marks")
    \/ part = "comments" /\ Legacy!Lists /\ Still("comments")
    \/ part = "lifecycle" /\ Process!Next /\ Still("lifecycle")
    \/ part = "aliases" /\ Known!Next /\ Still("aliases")
    \/ part = "library" /\ Library!Next /\ Still("library")
    \/ part = "mishaps" /\ Spoiled!Next /\ Still("mishaps")

AllParts == Start /\ [][Step]_Everything

-----------------------------------------------------------------------------
\* A command leaves a schema that is well formed, a database at the head
\* revision has what the program's models declare (database.py,
\* verify_database_schema), and an upgrade that was cut short can be repeated.
SchemaIsWhole == part = "schema" => TypeOK /\ HeadIsComplete /\ UpgradeCanBeRepeated

\* A search or a detail never makes a title look freshly ranked, and no refresh
\* puts a rank back to an older one (catalog.py).
RankingMovesForward == Catalogue!RankingMovesForward

\* A provider that complains is left in peace (catalog.py, _provider_request),
\* the other network is asked once for all players, and what it said is kept
\* in a bounded table (dandanplay.py).
ProvidersAreSpared ==
    Gate!CooldownIsKept /\ Danmaku!AskedOnce /\ []Danmaku!CacheIsBounded

\* A title is searched by names of its own (catalog.py), and a line is verified
\* only after what a player would read was read (aggregator.py).
SourcesAreTrue == Known!AliasesAreTrue /\ Resolved!ResolutionIsTrue

\* Reading page by page misses nothing, by number (routers/danmaku.py) or by
\* offset (legacy_comments.py), and a mark is single unless two requests of one
\* account met.
CommunityHolds ==
    Danmaku!PagesCover /\ Legacy!PagesSkipNothing /\ Legacy!MarksAreSingle

\* Attempts and hashes are limited, and refused for no other reason
\* (rate_limit.py, auth.py).
LimitsHold == Limiter!LimitsHold

\* No task works with a service that the shutdown has closed (main.py).
ShutdownHolds == Process!NothingOutlivesItsServices

\* A subtitle that was stored can be read, what is read is what was stored, and
\* it is downloaded once for all who wait (subtitle_library.py).
SubtitlesHold ==
    /\ part = "library" => Library!LibraryHolds
    /\ part = "mishaps" => Spoiled!LibraryHolds
=============================================================================
