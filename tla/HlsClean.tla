------------------------------ MODULE HlsClean ------------------------------
(***************************************************************************)
(* The playlist that leaves the advertisements of a stream out             *)
(* (scrapers/hls_clean.py, served by routers/playback.py): fetching it     *)
(* through redirects and a master playlist, and cutting it.                *)
(*                                                                         *)
(* A line is a pair of a tag and its value: "inf" with a duration, "uri"   *)
(* with the segment behind it, "key", "gap" (DISCONTINUITY) and "end".     *)
(***************************************************************************)
EXTENDS Integers, SequencesExt, FiniteSets

CONSTANTS
    Playlists,      \* media playlists: sequences of segments
                    \* [time, host, gap, key], see Lines
    Webs,           \* what the addresses answer: functions to [kind, to]
    First,          \* the address that the token was signed for
    MaxRedirects,
    ShortTime,      \* _MIN_SHORT_THRESHOLD_SECONDS
    EdgeTime,       \* _EDGE_CLUSTER_MAX_SECONDS
    OddCount        \* _ODD_HOST_MIN_COUNT

VARIABLES
    web,        \* what the addresses answer
    original,   \* the media playlist
    fetch,      \* the request: where it is, by how many hops, behind a master
    served      \* the lines that are sent

vars == <<web, original, fetch, served>>

NoTime == -1    \* a duration that cannot be read

-----------------------------------------------------------------------------
(***************************************************************************)
(* The lines of a playlist                                                 *)
(***************************************************************************)
\* A segment as it is written: DISCONTINUITY and KEY come before it.
SegmentLines(s, n) ==
    (IF s.gap THEN <<<<"gap", 0>>>> ELSE <<>>)
      \o (IF s.key # 0 THEN <<<<"key", s.key>>>> ELSE <<>>)
      \o <<<<"inf", s.time>>, <<"uri", [id |-> n, host |-> s.host]>>>>

Lines(playlist) ==
    FlattenSeq([n \in 1..Len(playlist) |-> SegmentLines(playlist[n], n)]) \o <<<<"end", 0>>>>

NoEntry == [time |-> NoTime, tags |-> <<>>, uris |-> <<>>, none |-> TRUE]
NewEntry(time) == [NoEntry EXCEPT !.time = time, !.none = FALSE]

FlushEntry(p) ==
    IF p.entry.none THEN p
                    ELSE [p EXCEPT !.group = Append(@, p.entry), !.entry = NoEntry]

FlushGroup(p) ==
    LET q == FlushEntry(p) IN
    IF q.group = <<>> THEN q ELSE [q EXCEPT !.groups = Append(@, q.group), !.group = <<>>]

Parsed(p, line) ==
    CASE line[1] = "gap" -> FlushGroup(p)
      [] line[1] = "end" -> [p EXCEPT !.ended = TRUE]
      [] line[1] = "inf" -> [FlushEntry(p) EXCEPT !.entry = NewEntry(line[2])]
      [] OTHER -> IF p.entry.none THEN [p EXCEPT !.header = Append(@, line)]
                  ELSE IF line[1] = "uri" THEN [p EXCEPT !.entry.uris = Append(@, line)]
                  ELSE [p EXCEPT !.entry.tags = Append(@, line)]

\* _parse: a tag that follows a segment is kept with that segment.
Parse(lines) ==
    FlushGroup(FoldLeft(Parsed,
        [header |-> <<>>, groups |-> <<>>, group |-> <<>>, entry |-> NoEntry, ended |-> FALSE],
        lines))

-----------------------------------------------------------------------------
(***************************************************************************)
(* What is cut (clean_playlist)                                            *)
(***************************************************************************)
\* The durations that count for a median: neither unreadable nor zero.
Times(entries) == SelectSeq([i \in 1..Len(entries) |-> entries[i].time], LAMBDA t : t > 0)
Hosts(entries) ==
    FlattenSeq([i \in 1..Len(entries) |->
        [j \in 1..Len(entries[i].uris) |-> entries[i].uris[j][2].host]])
Count(s, x) == Cardinality({i \in 1..Len(s) : s[i] = x})

\* Twice the median; 0 where there is none.
Median2(times) ==
    LET sorted == SortSeq(times, <)
        n == Len(times)
        half == (n + 1) \div 2 IN
    IF n = 0 THEN 0
    ELSE IF n % 2 = 1 THEN 2 * sorted[half]
    ELSE sorted[half] + sorted[half + 1]

\* At most ShortTime or a third of the median, of twice the duration.
IsShort(twice, median2) ==
    median2 # 0 /\ (twice <= 2 * ShortTime \/ 3 * twice <= median2)

\* The host with the most segments, the first of them if there are several.
Dominant(hosts) ==
    hosts[CHOOSE i \in 1..Len(hosts) :
             /\ \A j \in 1..Len(hosts) : Count(hosts, hosts[j]) <= Count(hosts, hosts[i])
             /\ \A j \in 1..(i - 1) : Count(hosts, hosts[j]) < Count(hosts, hosts[i])]

\* Few segments come from such a host: OddCount, or one in twenty.
IsOdd(host, hosts) ==
    /\ host # Dominant(hosts)
    /\ LET n == Count(hosts, host) IN n <= OddCount \/ 20 * n <= Len(hosts)

ShortCluster(group, median2) ==
    Len(group) >= 2 /\ Times(group) # <<>> /\ IsShort(Median2(Times(group)), median2)

EdgeCluster(groups, i, median2) ==
    LET times == Times(groups[i]) IN
    /\ Len(groups) > 1 /\ i \in {1, Len(groups)}
    /\ times # <<>> /\ FoldLeft(+, 0, times) < EdgeTime
    /\ 10 * Median2(times) < 7 * median2

IsAdvertisement(groups, i) ==
    LET all == FlattenSeq(groups)
        median2 == Median2(Times(all)) IN
    \/ ShortCluster(groups[i], median2)
    \/ EdgeCluster(groups, i, median2)
    \/ \E host \in ToSet(Hosts(groups[i])) : IsOdd(host, Hosts(all))

\* Mutant: a short segment is cut although it stands alone.
MutantInStreak(entries, i, short) == short[i]

\* A short segment next to another one, in what is left of the groups.
InStreak(entries, i, short) ==
    /\ short[i]
    /\ \E j \in {i - 1, i + 1} : j \in 1..Len(entries) /\ short[j]

Cut(parsed) ==
    LET groups == parsed.groups
        median2 == Median2(Times(FlattenSeq(groups)))
        left == FlattenSeq([i \in 1..Len(groups) |->
                    IF IsAdvertisement(groups, i) THEN <<>> ELSE groups[i]])
        short == [i \in 1..Len(left) |->
                     left[i].time # NoTime /\ IsShort(2 * left[i].time, median2)]
        written(i) == <<<<"inf", left[i].time>>>> \o left[i].tags \o left[i].uris
        body == FlattenSeq([i \in 1..Len(left) |->
                    IF InStreak(left, i, short) THEN <<>> ELSE written(i)])
        changed == \/ Len(left) < Len(FlattenSeq(groups))
                   \/ \E i \in 1..Len(left) : InStreak(left, i, short) IN
    parsed.header \o body \o (IF parsed.ended \/ changed THEN <<<<"end", 0>>>> ELSE <<>>)

Clean(lines) ==
    LET parsed == Parse(lines) IN
    IF parsed.groups = <<>> THEN lines ELSE Cut(parsed)

-----------------------------------------------------------------------------
(***************************************************************************)
(* The request                                                             *)
(***************************************************************************)
Init ==
    /\ web \in Webs /\ original \in Playlists
    /\ fetch = [at |-> "line", url |-> First, hop |-> 0, behind |-> FALSE, status |-> 0]
    /\ served = <<>>

Answers(status, lines) ==
    /\ fetch' = [fetch EXCEPT !.at = "over", !.status = status]
    /\ served' = lines
    /\ UNCHANGED <<web, original>>

\* _playable_url: an HLS line from a host that is known for advertisements gets
\* a token; any other, or a server without a public address or a key, keeps
\* the address of the line.
KeepAddress == fetch.at = "line" /\ Answers(0, <<>>)
IssueToken ==
    /\ fetch.at = "line" /\ fetch' = [fetch EXCEPT !.at = "asked"]
    /\ UNCHANGED <<web, original, served>>

Goes(url, hop, behind) ==
    /\ fetch' = [fetch EXCEPT !.at = "fetch", !.url = url, !.hop = hop, !.behind = behind]
    /\ UNCHANGED <<web, original, served>>

\* parse_playlist_token: a token that is damaged, badly signed or too old is
\* refused, as is an address that is not public.
AcceptToken ==
    fetch.at = "asked" /\ web[First].kind # "private" /\ Goes(First, 0, FALSE)
RefuseToken == fetch.at = "asked" /\ Answers(400, <<>>)

Answer == web[fetch.url]

\* _fetch_playlist: every hop is looked at again.
Redirected ==
    /\ fetch.at = "fetch" /\ Answer.kind = "redirect" /\ fetch.hop < MaxRedirects
    /\ Goes(Answer.to, fetch.hop + 1, fetch.behind)

\* pick_variant: the one with the highest bandwidth, the first of several.
Variant(variants) ==
    variants[CHOOSE i \in 1..Len(variants) :
                /\ \A j \in 1..Len(variants) : variants[j][1] <= variants[i][1]
                /\ \A j \in 1..(i - 1) : variants[j][1] < variants[i][1]][2]

ReadMaster ==
    /\ fetch.at = "fetch" /\ Answer.kind = "master"
    /\ ~fetch.behind /\ Answer.to # <<>>
    /\ Goes(Variant(Answer.to), 0, TRUE)

ReadMedia ==
    /\ fetch.at = "fetch" /\ Answer.kind = "media"
    /\ Answers(200, Clean(Lines(original)))

\* An address that is not public, one redirect too many, an answer that is not
\* a playlist or is too long, a master behind a master; and the timeout of the
\* whole chain.
FallBack == fetch.at = "fetch" /\ Answers(502, <<>>)

Next ==
    \/ KeepAddress \/ IssueToken \/ AcceptToken \/ RefuseToken
    \/ Redirected \/ ReadMaster \/ ReadMedia \/ FallBack

-----------------------------------------------------------------------------
(***************************************************************************)
(* What the client gets                                                    *)
(***************************************************************************)
Segments(lines) == {line[2].id : line \in {l \in ToSet(lines) : l[1] = "uri"}}
Served == Segments(served)

LastBefore(lines, tag, i) ==
    LET earlier == SelectSeq(SubSeq(lines, 1, i), LAMBDA l : l[1] = tag) IN
    IF earlier = <<>> THEN 0 ELSE Last(earlier)[2]

\* The segments with the duration and the key a player gives them.
Played(lines) ==
    {<<lines[i][2].id, LastBefore(lines, "inf", i), LastBefore(lines, "key", i)>> :
        i \in {i \in 1..Len(lines) : lines[i][1] = "uri"}}

SameGroup(m, n) == \A i \in 1..Len(original) : original[i].gap => (i <= m <=> i <= n)

AllTimes == Times(original)
ShortSegment(n) ==
    original[n].time # NoTime /\ IsShort(2 * original[n].time, Median2(AllTimes))

\* A playlist from one host whose usual segment is longer than a short one is
\* never cut down to nothing.
SomethingIsServed ==
    fetch.status = 200
      /\ Cardinality({original[i].host : i \in DOMAIN original}) = 1
      /\ Median2(AllTimes) > 2 * ShortTime
      => Served # {}

\* A segment is cut with its whole group, or as one of several short ones with
\* nothing left between them.
NothingIsCutAlone ==
    fetch.status = 200 =>
        \A n \in DOMAIN original \ Served :
            \/ \A m \in DOMAIN original : SameGroup(m, n) => m \notin Served
            \/ \E m \in DOMAIN original \ (Served \cup {n}) :
                  /\ ShortSegment(m) /\ ShortSegment(n)
                  /\ \A i \in Served : i < m <=> i < n

\* With one key for the whole playlist every segment keeps its duration and
\* its key, and the list is closed after the last of them.
PlayedAsWritten ==
    fetch.status = 200 /\ (\A i \in DOMAIN original : i > 1 => original[i].key = 0) =>
        /\ Played(served) \subseteq Played(Lines(original))
        /\ Last(served)[1] = "end" /\ \A i \in 1..(Len(served) - 1) : served[i][1] # "end"
=============================================================================
