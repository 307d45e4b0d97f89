----------------------------- MODULE Resolution -----------------------------
(***************************************************************************)
(* What becomes of the matches of a scan: resolve_source_matches and       *)
(* _line_verification_status of server/server/aggregator.py.  A few at a   *)
(* time are asked for their lines, all lines of a match are checked at the *)
(* same time, by asking for what a player would ask for, and the results   *)
(* are merged as they come.                                                *)
(*                                                                         *)
(* How matches are found is the subject of AliasSearch, and what is done   *)
(* with the lines of LineSelection.                                        *)
(***************************************************************************)
EXTENDS Naturals, FiniteSets

CONSTANTS
    Matches,
    SiteOf,         \* source_name of a match
    Offers,         \* the addresses a match may have
    Kind,           \* of an address: "direct", "opaque" (classify_media_url) or
                    \* "unlisted": no media, or a local one
    Concurrency,    \* SOURCE_MAX_CONCURRENCY
    MaxHops,        \* requests for one thing, of which the last may redirect
    MaxDepth        \* playlists in playlists

VARIABLES
    verify,     \* is it a full scan
    match,      \* how far each match is, and its outcome
    check,      \* the check of each address of each match
    merged,     \* what is kept of each address
    healthOf    \* what is kept of each site

vars == <<verify, match, check, merged, healthOf>>

Addresses == UNION {Offers[m] : m \in Matches}
Sites == {SiteOf[m] : m \in Matches}
Pairs == {p \in Matches \X Addresses : p[2] \in Offers[p[1]]}
Statuses == {"verified", "probe", "unavailable"}

\* From the weakest to the strongest, _ERROR_CATEGORY_PRIORITY.
Categories == <<"blocked", "limited", "restricted", "local", "unknown", "stale",
                "empty", "malformed", "parser">>
Priority(category) == CHOOSE i \in DOMAIN Categories : Categories[i] = category

Unasked == [step |-> "queued", raw |-> {}, status |-> "none", category |-> ""]
Unchecked == [at |-> "none", depth |-> 0, hops |-> 0, keyed |-> FALSE, read |-> {},
              status |-> "none", category |-> ""]

Init ==
    /\ verify \in BOOLEAN
    /\ match = [m \in Matches |-> Unasked]
    /\ check = [p \in Pairs |-> Unchecked]
    /\ merged = [u \in Addresses |-> "none"]
    /\ healthOf = [s \in Sites |-> "none"]

-----------------------------------------------------------------------------
(***************************************************************************)
(* A match                                                                 *)
(***************************************************************************)
Asked == {m \in Matches : match[m].step \in {"asking", "checking"}}

\* A place of the semaphore is free.
AskForLines(m) ==
    /\ match[m].step = "queued" /\ Cardinality(Asked) < Concurrency
    /\ match' = [match EXCEPT ![m].step = "asking"]
    /\ UNCHANGED <<verify, check, merged, healthOf>>

\* "none": an address that is not in the outcome.
Results(m, status, category, listed) ==
    /\ match' = [match EXCEPT ![m] = [@ EXCEPT !.step = "resolved", !.status = status,
                                                 !.category = category]]
    /\ check' = [p \in Pairs |->
          IF p[1] = m THEN [Unchecked EXCEPT !.at = "done", !.status = listed[p[2]]]
                      ELSE check[p]]
    /\ UNCHANGED <<verify, merged, healthOf>>

\* get_video_urls fails.
NoAnswer(m) ==
    /\ match[m].step = "asking"
    /\ Results(m, "unavailable", "unknown", [u \in Addresses |-> "none"])

\* Without verification an address of a media file is left to the player.
Unverified(m) ==
    /\ match[m].step = "asking" /\ ~verify
    /\ \E raw \in SUBSET Offers[m] :
          LET direct == {u \in raw : Kind[u] = "direct"} IN
          Results(m, IF direct # {} THEN "probe" ELSE "unavailable",
                     IF direct # {} THEN "" ELSE "empty",
                     [u \in Addresses |-> IF u \in direct THEN "probe" ELSE "none"])

\* The checks begin; an address that cannot be media is not asked for.
BeginChecks(m) ==
    /\ match[m].step = "asking" /\ verify
    /\ \E raw \in SUBSET Offers[m], page \in BOOLEAN :
          /\ match' = [match EXCEPT ![m].step = "checking", ![m].raw = raw]
          /\ check' = [p \in Pairs |->
                IF p[1] # m \/ p[2] \notin raw THEN check[p]
                ELSE IF Kind[p[2]] = "unlisted"
                  THEN [Unchecked EXCEPT !.at = "done", !.status = "unavailable",
                            !.category = IF page THEN "parser" ELSE "stale"]
                ELSE [Unchecked EXCEPT !.at = "manifest"]]
    /\ UNCHANGED <<verify, merged, healthOf>>

-----------------------------------------------------------------------------
(***************************************************************************)
(* A check                                                                 *)
(***************************************************************************)
Becomes(p, next) ==
    /\ check' = [check EXCEPT ![p] = next]
    /\ UNCHANGED <<verify, match, merged, healthOf>>

Finish(p, status, category) ==
    Becomes(p, [Unchecked EXCEPT !.at = "done", !.status = status, !.category = category])

\* What ends the check of an address, whatever is asked for: the name of a
\* local host, the server's own resolver, no location, the status, an error.
Failures == {<<"unavailable", "local">>, <<"probe", "blocked">>, <<"unavailable", "stale">>,
             <<"probe", "limited">>, <<"probe", "restricted">>, <<"unavailable", "unknown">>}

Fails(p) ==
    /\ check[p].at \in {"manifest", "key", "media"}
    /\ \E f \in Failures : Finish(p, f[1], f[2])

\* fetch follows a few redirects, each to a public address.
Redirect(p) ==
    /\ check[p].at \in {"manifest", "key", "media"}
    /\ IF check[p].hops + 1 < MaxHops
         THEN Becomes(p, [check[p] EXCEPT !.hops = @ + 1])
         ELSE Finish(p, "unavailable", "stale")

\* A page of a player, a text that should be a playlist, nothing to play.
NoMedia(p) ==
    \/ check[p].at = "manifest"
       /\ \E why \in {"parser", "malformed", "empty"} : Finish(p, "unavailable", why)
    \/ check[p].at = "key" /\ Finish(p, "unavailable", "malformed")
    \/ check[p].at = "media" /\ Finish(p, "unavailable", "empty")

\* The first bytes of a file.
ReadFile(p) ==
    /\ check[p].at = "manifest"
    /\ Becomes(p, [check[p] EXCEPT !.at = "done", !.status = "verified", !.read = {"file"},
                                    !.depth = 0, !.hops = 0])

\* A playlist of playlists: the first of them is the next.
ReadVariants(p) ==
    /\ check[p].at = "manifest"
    /\ IF check[p].depth + 1 < MaxDepth
         THEN Becomes(p, [check[p] EXCEPT !.depth = @ + 1, !.hops = 0])
         ELSE Finish(p, "unavailable", "malformed")

Then(p, at, what) ==
    Becomes(p, [check[p] EXCEPT !.at = at, !.read = @ \cup {what}, !.hops = 0])

\* A playlist of segments, whose first key, if there is one, comes first.
ReadManifest(p) ==
    /\ check[p].at = "manifest"
    /\ \E keyed \in BOOLEAN :
          Becomes(p, [check[p] EXCEPT !.at = IF keyed THEN "key" ELSE "media",
                         !.keyed = keyed, !.read = {"manifest"}, !.hops = 0])

\* Mutant: a key that is too short will do.
MutantReadKey(p) ==
    /\ check[p].at = "key"
    /\ Then(p, "media", "key") \/ Becomes(p, [check[p] EXCEPT !.at = "media", !.hops = 0])

ReadKey(p) == check[p].at = "key" /\ Then(p, "media", "key")

ReadSegment(p) ==
    /\ check[p].at = "media"
    /\ Becomes(p, [check[p] EXCEPT !.at = "done", !.status = "verified",
                                    !.read = @ \cup {"segment"}, !.depth = 0, !.hops = 0])

-----------------------------------------------------------------------------
(***************************************************************************)
(* The outcomes                                                            *)
(***************************************************************************)
Raw(m) == {p \in Pairs : p[1] = m /\ p[2] \in match[m].raw}

\* "Visibility is not playability": an address whose check failed is listed,
\* but not one that leads to a local host.
Listed(p) ==
    IF check[p].status = "verified" THEN "verified"
    ELSE IF check[p].status = "probe" /\ Kind[p[2]] = "direct" THEN "probe"
    ELSE IF check[p].category # "local" /\ Kind[p[2]] # "unlisted" THEN "unavailable"
    ELSE "none"

\* _strongest_error_category
Strongest(categories, fallback) ==
    IF categories = {} THEN fallback
    ELSE CHOOSE c \in categories : \A d \in categories : Priority(c) >= Priority(d)

\* All checks are done.
Resolve(m) ==
    /\ match[m].step = "checking" /\ \A p \in Raw(m) : check[p].at = "done"
    /\ LET listed == {Listed(p) : p \in Raw(m)}
           why(status) == {check[p].category : p \in {p \in Raw(m) : check[p].status = status}}
           status == IF "verified" \in listed THEN "verified"
                     ELSE IF "probe" \in listed THEN "probe" ELSE "unavailable"
       IN  match' = [match EXCEPT ![m].step = "resolved", ![m].status = status,
                 ![m].category =
                    IF status = "verified" THEN ""
                    ELSE IF status = "probe" THEN Strongest(why("probe"), "blocked")
                    ELSE Strongest(why("unavailable"),
                                   IF Raw(m) = {} THEN "empty" ELSE "unknown")]
    /\ check' = [p \in Pairs |->
          IF p \in Raw(m) THEN [check[p] EXCEPT !.status = Listed(p)] ELSE check[p]]
    /\ UNCHANGED <<verify, merged, healthOf>>

\* What the outcome said of the reasons is for the diagnostics.
Done(outcome) == [Unasked EXCEPT !.step = "merged", !.status = outcome.status]
Forget(m) ==
    check' = [p \in Pairs |-> IF p[1] = m THEN [check[p] EXCEPT !.category = ""] ELSE check[p]]

\* In the order in which they are done; the last of a site speaks for it.
Merge(m) ==
    /\ match[m].step = "resolved"
    /\ match' = [match EXCEPT ![m] = Done(@)]
    /\ healthOf' = [healthOf EXCEPT ![SiteOf[m]] = match[m].status]
    /\ merged' = [u \in Addresses |->
          LET new == IF <<m, u>> \in Pairs THEN check[<<m, u>>].status ELSE "none" IN
          IF \/ merged[u] = "none" /\ new \in Statuses
             \/ merged[u] # "verified" /\ new = "verified"
            THEN new ELSE merged[u]]
    /\ Forget(m) /\ UNCHANGED verify

\* Nobody waits for the scan any more: what is under way is cancelled.
Cancel ==
    /\ \E m \in Matches : match[m].step # "merged"
    /\ match' = [m \in Matches |-> [Unasked EXCEPT !.step = "merged"]]
    /\ check' = [p \in Pairs |-> Unchecked]
    /\ merged' = [u \in Addresses |-> "none"]
    /\ healthOf' = [s \in Sites |-> "none"]
    /\ UNCHANGED verify

Next ==
    \/ Cancel
    \/ \E m \in Matches :
          \/ AskForLines(m) \/ NoAnswer(m) \/ Unverified(m) \/ BeginChecks(m)
          \/ Resolve(m) \/ Merge(m)
    \/ \E p \in Pairs :
          \/ Fails(p) \/ Redirect(p) \/ NoMedia(p) \/ ReadFile(p) \/ ReadVariants(p)
          \/ ReadManifest(p) \/ ReadKey(p) \/ ReadSegment(p)

-----------------------------------------------------------------------------
\* A verified line has been read as far as a player reads to begin: a file, or
\* the playlist, its key and its first segment.
PlayableRead(p) ==
    \/ check[p].read = {"file"}
    \/ check[p].read = {"manifest", "segment"} \cup (IF check[p].keyed THEN {"key"} ELSE {})

\* However the checks of all lines of all matches interleave: nothing counts as
\* verified that could not be read, nothing that leads to a local host is
\* listed, the outcome of a match is that of its best line, and of two copies
\* of an address the one that is verified is kept.
ResolutionIsTrue ==
    /\ \A p \in Pairs :
          /\ check[p].status = "verified" => verify /\ PlayableRead(p)
          /\ check[p].category = "local" /\ match[p[1]].step = "resolved" =>
                check[p].status = "none"
    /\ \A m \in Matches : match[m].step = "resolved" =>
          \A s \in {"verified", "probe"} :
             match[m].status = s =>
                /\ \E p \in Pairs : p[1] = m /\ check[p].status = s
                /\ s = "probe" => \A p \in Pairs : p[1] = m => check[p].status # "verified"
    /\ \A u \in Addresses :
          merged[u] = "verified" <=>
             \E p \in Pairs : p[2] = u /\ match[p[1]].step = "merged"
                                        /\ check[p].status = "verified"
=============================================================================
