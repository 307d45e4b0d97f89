------------------------------- MODULE Search -------------------------------
(***************************************************************************)
(* The search of the older clients (aggregator.py): every provider is      *)
(* asked at the same time, and what they find is brought into one list in  *)
(* which no site hides the others.                                         *)
(***************************************************************************)
EXTENDS Naturals, SequencesExt, FiniteSets

CONSTANTS
    Providers,      \* the tasks: maccms, crawlers, tvbox, intl
    Offers,         \* of a provider, in its order: [title, id, site]
    Maccms,         \* the provider whose results are told apart by their ids
    SitePriority,   \* site_priority
    Cap,            \* how many results of a provider are taken
    MaxResults

VARIABLES
    waiting,    \* providers that have not answered
    results,    \* all_results
    list        \* what the client gets, and where the search is

vars == <<waiting, results, list>>

Init ==
    /\ waiting = Providers /\ results = <<>>
    /\ list = [at |-> "searching", items |-> <<>>]

-----------------------------------------------------------------------------
\* dedup_key: a title is given once by a provider, and by every site of maccms.
DedupKey(p, o) == IF p = Maccms THEN <<"maccms", o.id>> ELSE <<p, o.title>>

\* add_results
Add(all, p, offers) ==
    FoldLeft(LAMBDA s, o :
                LET r == [key |-> DedupKey(p, o), site |-> o.site] IN
                IF \E i \in 1..Len(s) : s[i].key = r.key THEN s ELSE Append(s, r),
             all, SubSeq(offers, 1, IF Len(offers) < Cap[p] THEN Len(offers) ELSE Cap[p]))

Found(p) ==
    /\ p \in waiting /\ waiting' = waiting \ {p}
    /\ results' = Add(results, p, Offers[p])
    /\ UNCHANGED list

\* A provider that fails is logged and left out.
Failed(p) == p \in waiting /\ waiting' = waiting \ {p} /\ UNCHANGED <<results, list>>

\* Stable, the highest priority first; no result carries a rating here.
ByPriority(s, Site(_)) ==
    LET ranks == {SitePriority[Site(s[i])] : i \in 1..Len(s)}
        best(k) == CHOOSE r \in ranks : Cardinality({q \in ranks : q > r}) = k - 1 IN
    FlattenSeq([k \in 1..Cardinality(ranks) |->
        SelectSeq(s, LAMBDA x : SitePriority[Site(x)] = best(k))])

OfSite(s, site) == SelectSeq(s, LAMBDA r : r.site = site)

\* Mutant: a site that is trusted comes with all it has.
MutantRounds(sorted, sites) ==
    FlattenSeq([k \in 1..Len(sites) |-> OfSite(sorted, sites[k])])

\* Round k takes the k-th result of each site.
Rounds(sorted, sites) ==
    FlattenSeq([n \in 1..Len(sorted) |->
        FlattenSeq([k \in 1..Len(sites) |->
            LET own == OfSite(sorted, sites[k]) IN
            IF n <= Len(own) THEN <<own[n]>> ELSE <<>>])])

\* The tail of search.
Finish ==
    /\ list.at = "searching" /\ waiting = {}
    /\ LET sorted == ByPriority(results, LAMBDA r : r.site)
           seen == FoldLeft(LAMBDA s, r : IF r.site \in ToSet(s) THEN s ELSE Append(s, r.site),
                            <<>>, sorted)
           rounds == Rounds(sorted, ByPriority(seen, LAMBDA s : s)) IN
       list' = [at |-> "over",
                items |-> SubSeq(rounds, 1,
                              IF Len(rounds) < MaxResults THEN Len(rounds) ELSE MaxResults)]
    /\ UNCHANGED <<waiting, results>>

Next == (\E p \in Providers : Found(p) \/ Failed(p)) \/ Finish

-----------------------------------------------------------------------------
Given(site) == {i \in 1..Len(list.items) : list.items[i].site = site}
Held(site) == {i \in 1..Len(results) : results[i].site = site}
SitesFound == {results[i].site : i \in 1..Len(results)}

\* The list is full unless everything is in it, nothing is in it twice, and a
\* site has two results more than another one only if that one has no more.
SearchIsFair ==
    list.at = "over" =>
        /\ Len(list.items) = MaxResults \/ Len(list.items) = Len(results)
        /\ \A i, j \in 1..Len(list.items) : i # j => list.items[i] # list.items[j]
        /\ \A s, t \in SitesFound :
              Cardinality(Given(s)) > Cardinality(Given(t)) + 1 =>
                  Cardinality(Given(t)) = Cardinality(Held(t))

\* Where priorities differ, it is not the speed of a provider that decides
\* what comes first.
OrderIsOurs ==
    list.at = "over" =>
        \A i, j \in 1..Len(list.items) :
            i < j /\ SitePriority[list.items[i].site] < SitePriority[list.items[j].site] =>
                \E k \in 1..(i - 1) : list.items[k].site = list.items[j].site
=============================================================================
