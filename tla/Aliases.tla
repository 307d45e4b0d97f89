------------------------------ MODULE Aliases ------------------------------
(***************************************************************************)
(* The names a title is searched by (catalog.py, playback_aliases): an     *)
(* anime without a Chinese title gets those of the series on TMDB that     *)
(* shares a name with it, and the names of its season.  What was learned   *)
(* is cached as long as the process lives.                                 *)
(***************************************************************************)
EXTENDS Naturals, Sequences, FiniteSets

CONSTANTS
    Series,     \* what TMDB finds: sequences of [same, seasons], where same
                \* says that the series and the title share a name
    Requests    \* for the title at the same time

VARIABLES
    tmdb,       \* what TMDB finds
    names,      \* _playback_alias_cache at this title
    request     \* how far each request is, and what it was answered

vars == <<tmdb, names, request>>

\* The names: those of the catalog, with those of the i-th series (0: of none)
\* and of its season (0: of none).  `answered` are the details that were read.
NoNames == [series |-> 0, season |-> 0, answered |-> {}, known |-> FALSE]
Base == [NoNames EXCEPT !.known = TRUE]
Idle == [at |-> "idle", next |-> 1, answered |-> {}, answer |-> NoNames]

Init ==
    /\ tmdb \in Series /\ names = NoNames
    /\ request = [r \in Requests |-> Idle]

-----------------------------------------------------------------------------
\* _season_specific_playback_aliases: a season counts if it has a name of the
\* title, or its year and its number of episodes.
Fits(s) == s.name \/ (s.year /\ s.episodes)
Points(s) ==
    (IF s.name THEN 20 ELSE 0) + (IF s.year THEN 8 ELSE 0) + (IF s.episodes THEN 6 ELSE 0)

\* The first of the best ones; nothing is added for the first season.
Season(seasons) ==
    LET best == {i \in 1..Len(seasons) :
                    /\ Fits(seasons[i])
                    /\ \A j \in 1..Len(seasons) :
                          Fits(seasons[j]) => Points(seasons[j]) <= Points(seasons[i])}
        first == CHOOSE i \in best : \A j \in best : i <= j IN
    IF best = {} \/ seasons[first].number <= 1 THEN 0 ELSE seasons[first].number

Enriched(i, answered) ==
    [Base EXCEPT !.series = i, !.season = Season(tmdb[i].seasons), !.answered = answered]

Goes(r, at) ==
    request' = [request EXCEPT ![r] = at] /\ UNCHANGED <<tmdb, names>>
Answered(r, answer) ==
    request' = [request EXCEPT ![r] = [Idle EXCEPT !.at = "over", !.answer = answer]]

Ask(r) ==
    /\ request[r].at \in {"idle", "over"}
    /\ IF names.known THEN Answered(r, names) /\ UNCHANGED <<tmdb, names>>
                      ELSE Goes(r, [Idle EXCEPT !.at = "search"])

\* An answer that is no success, or an exception: nothing is remembered.
SearchFails(r) ==
    request[r].at = "search" /\ Answered(r, Base) /\ UNCHANGED <<tmdb, names>>
Found(r) ==
    request[r].at = "search" /\ Goes(r, [request[r] EXCEPT !.at = "detail"])

HasNext(r) ==
    request[r].at = "detail" /\ request[r].next <= Len(tmdb) /\ request[r].next <= 3
Stores(r, found) == names' = found /\ Answered(r, found) /\ UNCHANGED tmdb

\* A series that has no name in common is passed over.
Reads(r) ==
    LET i == request[r].next
        answered == request[r].answered \cup {i} IN
    /\ HasNext(r)
    /\ IF tmdb[i].same THEN Stores(r, Enriched(i, answered))
       ELSE Goes(r, [request[r] EXCEPT !.next = i + 1, !.answered = answered])

\* A detail that cannot be read is passed over too.
DetailFails(r) == HasNext(r) /\ Goes(r, [request[r] EXCEPT !.next = @ + 1])

\* An exception ends the search.
Breaks(r) == HasNext(r) /\ Answered(r, Base) /\ UNCHANGED <<tmdb, names>>

\* Mutant: that no detail could be read is remembered as well.
MutantTeaches(answered) == TRUE

\* That there is nothing is remembered if TMDB found nothing, or one detail
\* could be read.
Teaches(answered) == answered # {} \/ tmdb = <<>>

Exhausted(r) ==
    LET answered == request[r].answered IN
    /\ request[r].at = "detail" /\ ~HasNext(r)
    /\ IF Teaches(answered) THEN Stores(r, [Base EXCEPT !.answered = answered])
       ELSE Answered(r, Base) /\ UNCHANGED <<tmdb, names>>

Next ==
    \E r \in Requests :
        \/ Ask(r) \/ SearchFails(r) \/ Found(r)
        \/ Reads(r) \/ DetailFails(r) \/ Breaks(r) \/ Exhausted(r)

-----------------------------------------------------------------------------
\* Names are only taken from a series that shares one, the first that could be
\* read, and a season only on evidence.  That a title has no others is believed
\* if TMDB has answered for one series at least and for none that shares a name.
AliasesAreTrue ==
    /\ names.series # 0 =>
          /\ tmdb[names.series].same
          /\ \A i \in names.answered : tmdb[i].same => i = names.series
          /\ names.season # 0 =>
                \E i \in DOMAIN tmdb[names.series].seasons :
                    LET s == tmdb[names.series].seasons[i] IN
                    s.number = names.season /\ (s.name \/ s.year)
    /\ names.known /\ names.series = 0 =>
          /\ names.answered # {} \/ tmdb = <<>>
          /\ \A i \in names.answered : ~tmdb[i].same
=============================================================================
