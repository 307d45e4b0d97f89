------------------------------ MODULE MCViewer ------------------------------
(***************************************************************************)
(* What the server does for one viewer, each part in its own environment:  *)
(* the account (Accounts: two requests at a time, sessions for one device  *)
(* more than the limit, every way in which a session can end), the home    *)
(* page (Ranking), the results of a search (Search), the lines of an       *)
(* episode (LineSelection) and the playlist without advertisements         *)
(* (HlsClean).  The parts share no state; `part` says which one a          *)
(* behaviour is about, the others stay as they are.                        *)
(***************************************************************************)
EXTENDS Accounts, Integers, Sequences, TLC

CONSTANTS h1, h2                                                  \* Accounts
CONSTANTS Items, Length, Weights, Limit                           \* Ranking
CONSTANTS Searched, Offered, Maccms, SitePriority, Cap, MaxResults  \* Search
CONSTANTS Routes, Managed, Providers, Longest, LineCount, PerishableLife,
          Horizon                                                 \* LineSelection
CONSTANTS Playlists, Webs, First, MaxRedirects, ShortTime, EdgeTime,
          OddCount                                                \* HlsClean

VARIABLES
    part,
    lists, mixed, order, scores, page,
    waiting, results, list,
    time, routes, stored, answer, few,
    web, original, fetch, served

Home == INSTANCE Ranking
Searching == INSTANCE Search WITH Providers <- Searched, Offers <- Offered
Shown == INSTANCE LineSelection
Cleaned == INSTANCE HlsClean

homeVars == <<lists, mixed, order, scores, page>>
searchingVars == <<waiting, results, list>>
shownVars == <<time, routes, stored, answer, few>>
cleanedVars == <<web, original, fetch, served>>

Everything == <<part, vars, homeVars, searchingVars, shownVars, cleanedVars>>

-----------------------------------------------------------------------------
(***************************************************************************)
(* Values                                                                  *)
(***************************************************************************)
\* Two titles, one with two descriptions of different quality.
MCItem(id, quality, popularity) == [id |-> id, quality |-> quality, popularity |-> popularity]
MCItems == {MCItem(1, 1, 1), MCItem(1, 2, 2), MCItem(2, 1, 1), MCItem(3, 1, 2)}
MCWeights == <<125, 110>>

\* Two sources, one of which hides its name, and a line of both that expires.
MCRoute(url, host, source, status, startup, latency, signed) ==
    [url |-> url, host |-> host, source |-> source, status |-> status,
     startup |-> startup, latency |-> latency, signed |-> signed]
MCRoutes ==
    {MCRoute("u1", "h1", <<"crawler", "age">>, "verified", "hls", 2, 0),
     MCRoute("u2", "h2", <<"crawler", "anich", "hb">>, "verified", "tail", 1, 0),
     MCRoute("u3", "h1", <<"crawler", "anich", "jk">>, "probe", "unknown", 0, 3),
     MCRoute("u4", "h3", <<"maccms", "vod">>, "unavailable", "unknown", 0, 0),
     MCRoute("u5", "h2", <<"maccms", "vod">>, "verified", "faststart", 3, 3),
     MCRoute("u6", "h4", <<"crawler", "age">>, "probe", "hls", 0, 2)}
MCProviders == <<"vod", "age", "anich">>
MCManaged ==
    <<[url |-> "u6", host |-> "h4", status |-> "verified", source |-> <<"managed">>,
       catalog |-> <<>>, startup |-> "tail", latency |-> 0, expires |-> 0,
       managed |-> TRUE]>>

\* Media playlists with unreadable (-1), zero, short and usual durations, two hosts,
\* a key.
MCSegments(times, hosts, keys) == [time : times, host : hosts, gap : BOOLEAN, key : keys]
MCLists(n, segments) == UNION {[1..k -> segments] : k \in 1..n}
MCPlain == <<[time |-> 8, host |-> "a", gap |-> FALSE, key |-> 0]>>
MCPlaylists ==
    MCLists(4, MCSegments({0, 2, 5, 8}, {"a"}, {0}))
      \cup MCLists(3, MCSegments({-1, 0, 2, 8}, {"a"}, {0}))
      \cup MCLists(5, MCSegments({2, 8}, {"a"}, {0}))
      \cup MCLists(4, MCSegments({2, 8}, {"a", "b"}, {0}))
      \cup {<<s>> \o r : s \in MCSegments({2, 8}, {"a"}, {1}),
                         r \in MCLists(3, MCSegments({2, 8}, {"a"}, {0, 1}))}

\* The address is a playlist, or leads to one through a redirect and a master.
MCMedia == [kind |-> "media", to |-> ""]
MCPlainWeb == [u \in {"u1", "u2", "u3"} |-> MCMedia]
MCWebs ==
    {MCPlainWeb}
      \cup [{"u1", "u2", "u3"} ->
               {MCMedia, [kind |-> "bad", to |-> ""], [kind |-> "private", to |-> ""],
                [kind |-> "redirect", to |-> "u1"], [kind |-> "redirect", to |-> "u3"],
                [kind |-> "master", to |-> <<<<1, "u1">>, <<2, "u2">>, <<2, "u3">>>>]}]

MCOffered ==
    LET R(title, id, site) == [title |-> title, id |-> id, site |-> site] IN
    "maccms" :> <<R("x", 1, "good"), R("x", 2, "bad"), R("x", 2, "bad"), R("y", 3, "bad"),
                  R("y", 4, "good"), R("z", 5, "bad")>>
      @@ "age" :> <<R("x", 1, "crawler"), R("x", 2, "crawler"), R("y", 3, "crawler"),
                    R("z", 4, "crawler")>>
      @@ "yhdm" :> <<R("x", 1, "crawler")>>
      @@ "tvbox" :> <<R("x", 1, "tvbox"), R("y", 2, "tvbox")>>
MCPriority == "good" :> 9 @@ "bad" :> 2 @@ "crawler" :> 0 @@ "tvbox" :> 0
MCCap == "maccms" :> 6 @@ "age" :> 3 @@ "yhdm" :> 3 @@ "tvbox" :> 3

-----------------------------------------------------------------------------
\* What may vary varies in the part that it is about.
Start ==
    /\ part \in {"account", "home", "search", "lines", "hls"}
    /\ part # "account" => user = NoAccount
    /\ part # "home" => lists = <<<<>>, <<>>>>
    /\ part # "lines" => routes = <<>>
    /\ part # "hls" => original = MCPlain /\ web = MCPlainWeb
    /\ part = "hls" => original = MCPlain \/ web = MCPlainWeb
    /\ Init /\ Home!Init /\ Searching!Init /\ Shown!Init /\ Cleaned!Init
    /\ Len(lists[2]) < Length

Still(here) ==
    /\ UNCHANGED part
    /\ "account" # here => UNCHANGED vars
    /\ "home" # here => UNCHANGED homeVars
    /\ "search" # here => UNCHANGED searchingVars
    /\ "lines" # here => UNCHANGED shownVars
    /\ "hls" # here => UNCHANGED cleanedVars

Step ==
    \/ part = "account" /\ Next /\ Still("account")
    \/ part = "home" /\ Home!Next /\ Still("home")
    \/ part = "search" /\ Searching!Next /\ Still("search")
    \/ part = "lines" /\ Shown!Next /\ Still("lines")
    \/ part = "hls" /\ Cleaned!Next /\ Still("hls")

\* The fairness of Accounts, while the behaviour is about the account.
FairStep ==
    /\ \A h \in Handlers : WF_vars(part = "account" /\ (Rollback(h) \/ Commit(h)))
    /\ SF_vars(part = "account" /\ CleanUp) /\ WF_vars(part = "account" /\ Recheck)
    /\ SF_vars(part = "account" /\ Erase)

ForOne == Start /\ [][Step]_Everything /\ FairStep

-----------------------------------------------------------------------------
\* Neither the home page (catalog.py) nor the search (aggregator.py) lets one
\* list or one site crowd out the others, whoever answers first.
ListsAreFair == Home!RankingIsFair /\ Searching!SearchIsFair /\ Searching!OrderIsOurs

\* The viewer is given every source, no line twice and none that expired
\* (playback.py), and the playlist without advertisements is not empty, loses
\* no single segment, and plays the others as they were written (hls_clean.py).
StreamsAreServed ==
    /\ Shown!LinesAreServed
    /\ Cleaned!SomethingIsServed /\ Cleaned!NothingIsCutAlone /\ Cleaned!PlayedAsWritten
=============================================================================
