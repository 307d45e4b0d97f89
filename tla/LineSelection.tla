--------------------------- MODULE LineSelection ---------------------------
(***************************************************************************)
(* Which lines of an episode a viewer is given: what server/server/        *)
(* playback.py does with the lines of a scan from the order in which they  *)
(* are shown to the inventory of all sources, the cache and the few lines  *)
(* of a quick answer.                                                      *)
(*                                                                         *)
(* How a scan finds its lines is the subject of Playback and QuickScan.    *)
(* The name of a source is the sequence of its parts, which the code       *)
(* writes with colons between them.                                        *)
(***************************************************************************)
EXTENDS Naturals, SequencesExt, FiniteSets

CONSTANTS
    Routes,         \* what a scan may find: [url, host, source, status,
                    \* startup, latency, signed]
    Managed,        \* playback_lines of the managed line service, as items
    Providers,      \* source_inventory: the names of the sources, in order
    Longest,        \* bound: of what a scan finds
    LineCount,      \* PLAYBACK_QUICK_LINE_COUNT
    PerishableLife, \* PLAYBACK_ANICH_LINE_TTL_HOURS
    Horizon         \* bound: how long a behaviour lasts

VARIABLES
    time,       \* the clock
    routes,     \* what the scan has found, in the order of its sources
    stored,     \* the cache row of the episode
    answer,     \* the last answer with all lines
    few         \* the last quick answer

vars == <<time, routes, stored, answer, few>>

Init ==
    /\ time = 1
    /\ routes \in {r \in SeqOf(Routes, Longest) : IsInjective(r)}
    /\ stored = <<>> /\ answer = <<>> /\ few = <<>>

-----------------------------------------------------------------------------
\* The name of the collection that is not shown, and what is shown for it.
Anich == "anich"
Collection == "collection"

\* public_source_label
PublicLabel(source) ==
    IF source \in {<<Anich>>, <<"crawler", Anich>>} THEN <<Collection>>
    ELSE IF Len(source) = 3 /\ source[2] = Anich THEN <<source[3]>>
    ELSE source

\* _site_name
SiteName(source) == IF Len(source) >= 2 THEN source[2] ELSE ""

\* ANICH_LINE_SOURCE
AnichLineSource == <<"crawler.anich">>

\* _stamped_line_expiry: when the address says so, or a while for a source
\* whose addresses do not say and do not last.
StampedLineExpiry(route) ==
    IF route.signed = 0 /\ route.source = AnichLineSource
      THEN time + PerishableLife ELSE route.signed

\* _line_dict
LineDict(route) ==
    [url |-> route.url, host |-> route.host, status |-> route.status,
     source |-> PublicLabel(route.source),
     catalog |-> PublicLabel(<<SiteName(route.source)>>),
     startup |-> route.startup, latency |-> route.latency,
     expires |-> StampedLineExpiry(route), managed |-> FALSE]

\* A row for a source that has no line.
Placeholder(provider) ==
    [url |-> "", host |-> "", status |-> "unavailable",
     source |-> <<"source", PublicLabel(<<provider>>)[1]>>, catalog |-> <<>>,
     startup |-> "unknown", latency |-> 0, expires |-> 0, managed |-> FALSE]

Tier(route) ==
    CASE route.status = "verified" -> 0 [] route.status = "probe" -> 1 [] OTHER -> 2

\* _ordered_for_display: the fastest of the verified lines first; the others
\* have no latency to go by.
OrderedForDisplay(found) ==
    LET indexes == [i \in DOMAIN found |-> i]
        latency(i) == IF Tier(found[i]) = 0 THEN found[i].latency ELSE 0
        before(i, j) ==
            \/ Tier(found[i]) < Tier(found[j])
            \/ /\ Tier(found[i]) = Tier(found[j])
               /\ latency(i) < latency(j) \/ (latency(i) = latency(j) /\ i < j)
        order == SortSeq(indexes, before)
    IN  [i \in DOMAIN found |-> found[order[i]]]

\* Mutant: an item is of the source its own label names.
MutantRepresents(item) == PublicLabel(<<SiteName(item.source)>>)

\* The source an item stands for: "Route labels can differ from their catalog
\* provider (AniCh)."
Represents(item) ==
    IF item.catalog # <<>> THEN item.catalog ELSE PublicLabel(<<SiteName(item.source)>>)

\* _complete_site_inventory: a row for each source that has none.
CompleteSiteInventory(items) ==
    LET represented == {Represents(items[i]) : i \in DOMAIN items}
        absent == SelectSeq(Providers, LAMBDA p : PublicLabel(<<p>>) \notin represented)
    IN  items \o [i \in DOMAIN absent |-> Placeholder(absent[i])]

Startable(item) == item.url # "" /\ item.status \in {"verified", "probe"}
Startables(items) == SelectSeq(items, Startable)

\* What is left of the cache row at this time.
Unexpired(items) == SelectSeq(items, LAMBDA i : i.expires = 0 \/ i.expires > time)

\* _cache_lookup: nothing if there were lines and none of them is left.
Cached ==
    IF Startables(stored) # <<>> /\ Startables(Unexpired(stored)) = <<>>
      THEN <<>> ELSE CompleteSiteInventory(Unexpired(stored))

\* _merge_managed_lines: no address twice.
MergeManagedLines(items) ==
    LET add(result, item) ==
            IF item.url # "" /\ \E i \in DOMAIN result : result[i].url = item.url
              THEN result ELSE Append(result, item)
    IN  FoldLeft(add, <<>>, Managed \o items)

-----------------------------------------------------------------------------
(***************************************************************************)
(* _select_quick_lines                                                     *)
(***************************************************************************)
Slow(item) == item.status = "verified" /\ item.startup = "tail"

\* The sample of a file whose index is at its end is no use for a start; it is
\* left out if there is a better line.
Candidates(items) ==
    LET better == \E i \in DOMAIN items :
                     items[i].status = "verified" /\ items[i].startup # "tail"
    IN  SelectSeq(Startables(items), LAMBDA i : ~(better /\ Slow(i)))

StartupRank(item) ==
    CASE item.startup = "faststart" -> 0 [] item.startup = "hls" -> 1
      [] item.startup = "tail" -> 3 [] OTHER -> 2

\* Verified, managed, quick to start, quick to answer; no latency is the worst.
Key(item) ==
    <<IF item.status = "verified" THEN 0 ELSE 1, IF item.managed THEN 0 ELSE 1,
      StartupRank(item), IF item.latency > 0 THEN item.latency ELSE 1000>>

Precedes(a, b) == \E k \in DOMAIN a : a[k] < b[k] /\ \A j \in 1..(k - 1) : a[j] = b[j]

\* One line of a host.
SelectQuickLines(items) ==
    LET candidates == Candidates(items)
        order == SortSeq([i \in DOMAIN candidates |-> i], LAMBDA i, j :
                    \/ Precedes(Key(candidates[i]), Key(candidates[j]))
                    \/ Key(candidates[i]) = Key(candidates[j]) /\ i < j)
        add(result, i) ==
            IF \/ Len(result) >= LineCount
               \/ \E k \in DOMAIN result : result[k].host = candidates[i].host
              THEN result ELSE Append(result, candidates[i])
    IN  FoldLeft(add, <<>>, order)

-----------------------------------------------------------------------------
\* A full scan is over, and the clock starts: its lines are stored if one of
\* them can be tried (what becomes of the others is the subject of Playback).
StoreScan ==
    /\ time = 1 /\ stored = <<>>
    /\ LET found == OrderedForDisplay(routes)
           data == CompleteSiteInventory([i \in DOMAIN found |-> LineDict(found[i])]) IN
       /\ Startables(data) # <<>>
       /\ stored' = data /\ answer' = MergeManagedLines(data)
    /\ UNCHANGED <<time, routes, few>>

\* lines and quick_lines of a row that is fresh or stale.
ServeLines ==
    /\ stored # <<>> /\ Cached # <<>>
    /\ answer' = MergeManagedLines(Cached)
    /\ UNCHANGED <<time, routes, stored, few>>

ServeQuickLines ==
    /\ stored # <<>> /\ Cached # <<>>
    /\ few' = SelectQuickLines(Managed \o Cached)
    /\ UNCHANGED <<time, routes, stored, answer>>

Later ==
    /\ stored # <<>> /\ time < Horizon
    /\ time' = time + 1 /\ answer' = <<>> /\ few' = <<>>
    /\ UNCHANGED <<routes, stored>>

Next == StoreScan \/ ServeLines \/ ServeQuickLines \/ Later

-----------------------------------------------------------------------------
Lines(items) == SelectSeq(items, LAMBDA i : ~i.managed /\ i.url # "")

\* An answer, from the scan or from the cache: each source is represented, by
\* its lines or by one row that says it has none ("otherwise every cache hit
\* adds another false source placeholder"), no address is given twice, and a
\* viewer who takes the first line of a scan takes a verified one if there is
\* one.
AnswerIsWhole ==
    answer # <<>> =>
        /\ \A p \in ToSet(Providers) :
              LET urls == {r.url : r \in {r \in ToSet(routes) : SiteName(r.source) = p}}
                  lines == {i \in DOMAIN answer : answer[i].url \in urls}
                  pads == {i \in DOMAIN answer : answer[i].url = "" /\
                              answer[i].source[2] = PublicLabel(<<p>>)[1]} IN
              IF lines # {} /\ \E i \in lines : ~answer[i].managed
                THEN pads = {} ELSE Cardinality(pads) <= 1 /\ pads \cup lines # {}
        /\ \A i, j \in DOMAIN answer :
              i # j /\ answer[i].url = answer[j].url => answer[i].url = ""
        /\ \A i, j \in DOMAIN Lines(answer) :
              i < j => Tier(Lines(answer)[i]) <= Tier(Lines(answer)[j])

\* A quick answer: as many lines as there are hosts to choose from, each of a
\* host of its own, none that could not be tried, and none whose start is slow
\* beside one whose start is not.
FewAreGood ==
    few # <<>> =>
        LET from == Candidates(Managed \o Cached)
            hosts(items) == {items[i].host : i \in DOMAIN items} IN
        /\ Cardinality(hosts(few)) = Len(few)
        /\ Len(few) = IF Cardinality(hosts(from)) < LineCount
                        THEN Cardinality(hosts(from)) ELSE LineCount
        /\ \A i \in DOMAIN few : Startable(few[i])
        /\ \A i, j \in DOMAIN few : Slow(few[i]) /\ few[j].status = "verified" => Slow(few[j])
        /\ \A i \in DOMAIN few : \A c \in ToSet(from) :
              c.host = few[i].host => ~Precedes(Key(c), Key(few[i]))

\* A line from the cache has not expired, as far as its address says so.
ServedHasNotExpired ==
    \A i \in ToSet(answer) \cup ToSet(few) : ~i.managed /\ i.expires # 0 => i.expires > time

LinesAreServed == AnswerIsWhole /\ FewAreGood /\ ServedHasNotExpired
=============================================================================
