----------------------------- MODULE QuickScan -----------------------------
(***************************************************************************)
(* One quick scan of an episode: _refresh_quick of server/server/playback, *)
(* the producers of aggregator.py that find matches for it, and the        *)
(* health of the sources it reads at the start and records at the end.     *)
(*                                                                         *)
(* The loop of the scan runs without an await from the clearing of its     *)
(* event to the wait for it, so a pass is one step.  A candidate that has  *)
(* ended calls back later: `ended` and `called` tell the two apart.        *)
(***************************************************************************)
EXTENDS Naturals, Sequences, FiniteSets, SequencesExt

CONSTANTS
    Matches, Sites, SiteOf,     \* a match is one page of a site
    BoundMatches,               \* those of earlier scans, best first
    Producers, Finds,           \* what each search may find
    MaxInFlight,                \* PLAYBACK_QUICK_MAX_IN_FLIGHT_CANDIDATES
    LineCount,                  \* PLAYBACK_QUICK_LINE_COUNT
    Failing,                    \* sites whose circuit may be open
    Threshold                   \* SOURCE_CIRCUIT_FAILURE_THRESHOLD

VARIABLES
    health,     \* the row of source_health of each site
    evidence,   \* matches whose title, season and year are certain
    trusted,    \* bound matches whose last attempt was a success
    producer,   \* what each search has found, and is it under way
    queue,      \* between the searches and the producer task
    finder,     \* the producer task: searches left, sites seen
    found,      \* what `discovered_queue` has had, also those taken from it
    existing,   \* what `existing_queue` began with, in the order of BoundMatches
    attempted,  \* `attempted_source_ids`
    candidate,  \* the task of each match
    seen,       \* `health`: the last result of each site
    wake,       \* the event
    scan        \* where the scan is, and why its loop ended

vars == <<health, evidence, trusted, producer, queue, finder, found, existing,
          attempted, candidate, seen, wake, scan>>

\* resolve_source_matches_progressively, verify=False: routes to try; none,
\* or none that may be shown; the source could not be asked.
Results == {"lines", "route", "source"}

\* A cooldown follows the last observation of a source that has failed too
\* often; `cooling` says that it has not passed.
IsOpen(row) == row.failures >= Threshold /\ row.cooling

\* Without evidence of its own a discovered match may not try a source whose
\* circuit is open; a binding needs a success that was its last word, too.
CanProbe(m) == IsOpen(health[SiteOf[m]]) => m \in evidence
CanBind(m) == IsOpen(health[SiteOf[m]]) => m \in evidence \cap trusted

Init ==
    /\ \E open \in SUBSET Failing :
          health = [s \in Sites |-> IF s \in open
                     THEN [failures |-> Threshold, cooling |-> TRUE]
                     ELSE [failures |-> Threshold - 1, cooling |-> FALSE]]
    /\ evidence \in SUBSET {m \in Matches : IsOpen(health[SiteOf[m]])}
    /\ trusted \in SUBSET (evidence \cap ToSet(BoundMatches))
    /\ producer = [p \in Producers |-> [found |-> {}, runs |-> TRUE]]
    /\ queue = <<>>
    /\ finder = [left |-> Cardinality(Producers), sites |-> {}]
    /\ found = <<>>
    /\ existing = {m \in ToSet(BoundMatches) : CanBind(m)}
    /\ attempted = {}
    /\ candidate = [m \in Matches |-> [at |-> "none", result |-> "none"]]
    /\ seen = [s \in Sites |-> "none"]
    /\ wake = TRUE
    /\ scan = [at |-> "loop", reason |-> "none"]

-----------------------------------------------------------------------------
(***************************************************************************)
(* The searches, and the task that takes what they find.                   *)
(***************************************************************************)
Produce(p) ==
    /\ producer[p].runs /\ scan.at = "loop"
    /\ \E m \in Finds[p] \ producer[p].found :
          /\ producer' = [producer EXCEPT ![p].found = @ \cup {m}]
          /\ queue' = Append(queue, m)
    /\ UNCHANGED <<health, evidence, trusted, finder, found, existing, attempted,
                   candidate, seen, wake, scan>>

\* It found all, failed, or its time is up; a cancelled one ends here too.
ProducerEnds(p) ==
    /\ producer[p].runs
    /\ producer' = [producer EXCEPT ![p].runs = FALSE]
    /\ queue' = IF scan.at = "loop" THEN Append(queue, p) ELSE queue
    /\ UNCHANGED <<health, evidence, trusted, finder, found, existing, attempted,
                   candidate, seen, wake, scan>>

\* Mutant: the end of the last search wakes nobody.
MutantFind ==
    /\ scan.at = "loop" /\ finder.left > 0 /\ queue # <<>>
    /\ queue' = Tail(queue)
    /\ LET m == Head(queue) IN
         IF m \in Producers
         THEN /\ finder' = [finder EXCEPT !.left = @ - 1]
              /\ UNCHANGED <<found, wake>>
         ELSE /\ finder' = [finder EXCEPT !.sites = @ \cup {SiteOf[m]}]
              /\ IF SiteOf[m] \in finder.sites \/ ~CanProbe(m)
                 THEN UNCHANGED <<found, wake>>
                 ELSE /\ found' = Append(found, m)
                      /\ wake' = TRUE
    /\ UNCHANGED <<health, evidence, trusted, producer, existing, attempted,
                   candidate, seen, scan>>

\* A site is yielded once, whichever search finds it first.
Find ==
    /\ scan.at = "loop" /\ finder.left > 0 /\ queue # <<>>
    /\ queue' = Tail(queue)
    /\ LET m == Head(queue) IN
         IF m \in Producers
         THEN /\ finder' = [finder EXCEPT !.left = @ - 1]
              /\ wake' = (wake \/ finder.left = 1)
              /\ UNCHANGED found
         ELSE /\ finder' = [finder EXCEPT !.sites = @ \cup {SiteOf[m]}]
              /\ IF SiteOf[m] \in finder.sites \/ ~CanProbe(m)
                 THEN UNCHANGED <<found, wake>>
                 ELSE /\ found' = Append(found, m)
                      /\ wake' = TRUE
    /\ UNCHANGED <<health, evidence, trusted, producer, existing, attempted,
                   candidate, seen, scan>>

-----------------------------------------------------------------------------
(***************************************************************************)
(* The candidates.                                                         *)
(***************************************************************************)

Resolve(m) ==
    /\ candidate[m].at = "runs" /\ scan.at = "loop"
    /\ \E result \in Results :
          candidate' = [candidate EXCEPT ![m] = [at |-> "ended", result |-> result]]
    /\ UNCHANGED <<health, evidence, trusted, producer, queue, finder, found, existing,
                   attempted, seen, wake, scan>>

CallBack(m) ==
    /\ candidate[m].at = "ended" /\ scan.at = "loop"
    /\ candidate' = [candidate EXCEPT ![m].at = "called"]
    /\ wake' = TRUE
    /\ UNCHANGED <<health, evidence, trusted, producer, queue, finder, found, existing,
                   attempted, seen, scan>>

-----------------------------------------------------------------------------
(***************************************************************************)
(* The loop.                                                               *)
(***************************************************************************)

At(steps) == {m \in Matches : candidate[m].at \in steps}
InFlight == At({"runs", "ended"})
Finding == finder.left > 0

\* The results of ended candidates; of two matches of a site either may come
\* last.
Remembered(ms) ==
    {after \in [Sites -> Results \cup {"none"}] :
        \A s \in Sites :
            LET mine == {m \in ms : SiteOf[m] = s} IN
                IF mine = {} THEN after[s] = seen[s]
                ELSE \E m \in mine : after[s] = candidate[m].result}

Usable(ms) == {m \in ms : candidate[m].result = "lines"}

\* What is left of the two queues: an attempted match is passed over.  Matches
\* that have been discovered come before those of earlier scans.
Waiting == (ToSet(found) \cup existing) \ attempted
Line == found \o BoundMatches
Turns == {i \in DOMAIN Line :
            Line[i] \in Waiting /\ \A j \in 1..(i - 1) : Line[j] # Line[i]}
Started(free) == {Line[i] : i \in {k \in Turns :
                     Cardinality({j \in Turns : j < k}) < free}}

\* Mutant: the loop ends when no match is left, though a search goes on.
MutantExhausted(starts) ==
    Waiting \subseteq starts /\ InFlight \cup starts = {}

Exhausted(starts) ==
    ~Finding /\ Waiting \subseteq starts /\ InFlight \cup starts = {}

Pass ==
    /\ scan.at = "loop" /\ wake
    /\ seen' \in Remembered(At({"called"}))
    /\ LET counted == At({"called", "counted"})
           enough == Cardinality(Usable(counted)) >= LineCount
           free == MaxInFlight - Cardinality(InFlight)
           starts == IF enough THEN {} ELSE Started(free)
       IN  /\ candidate' = [m \in Matches |->
                 IF m \in At({"called"}) THEN [candidate[m] EXCEPT !.at = "counted"]
                 ELSE IF m \in starts THEN [candidate[m] EXCEPT !.at = "runs"]
                 ELSE candidate[m]]
           /\ attempted' = attempted \cup starts
           /\ wake' = FALSE
           /\ scan' = IF enough THEN [at |-> "closing", reason |-> "enough"]
                      ELSE IF Exhausted(starts) THEN [at |-> "closing", reason |-> "exhausted"]
                      ELSE scan
    /\ UNCHANGED <<health, evidence, trusted, producer, queue, finder, found, existing>>

Deadline ==
    /\ scan.at = "loop"
    /\ scan' = [at |-> "closing", reason |-> "deadline"]
    /\ UNCHANGED <<health, evidence, trusted, producer, queue, finder, found, existing,
                   attempted, candidate, seen, wake>>

-----------------------------------------------------------------------------
(***************************************************************************)
(* The end: searches and candidates are cancelled, and awaited.            *)
(***************************************************************************)

Cancel(m) ==
    /\ scan.at = "closing" /\ candidate[m].at = "runs"
    /\ candidate' = [candidate EXCEPT ![m].at = "cancelled"]
    /\ UNCHANGED <<health, evidence, trusted, producer, queue, finder, found, existing,
                   attempted, seen, wake, scan>>

\* A result that came with the deadline is still counted.
LeftOver == At({"ended", "called"})

Gathered ==
    /\ scan.at = "closing" /\ At({"runs"}) = {}
    /\ \A p \in Producers : ~producer[p].runs
    /\ seen' \in Remembered(LeftOver)
    /\ candidate' = [m \in Matches |->
          IF m \in LeftOver THEN [candidate[m] EXCEPT !.at = "counted"] ELSE candidate[m]]
    /\ scan' = [scan EXCEPT !.at = "gathered"]
    /\ UNCHANGED <<health, evidence, trusted, producer, queue, finder, found, existing,
                   attempted, wake>>

\* A failure that leaves no doubt counts twice.
Failed(row) ==
    {[failures |-> row.failures + n, cooling |-> row.failures + n >= Threshold] : n \in 1..2}

\* Mutant: the scope of a failure is not looked at.
MutantObserved(row, result) ==
    CASE result = "none" -> {row}
      [] result = "lines" -> {[failures |-> 0, cooling |-> FALSE]}
      [] OTHER -> Failed(row)

\* A route that fails belongs to its work alone.
Observed(row, result) ==
    CASE result \in {"none", "route"} -> {row}
      [] result = "lines" -> {[failures |-> 0, cooling |-> FALSE]}
      [] result = "source" -> Failed(row)

\* Nothing is recorded of a scan that has used its time up by now.
Record ==
    /\ scan.at = "gathered"
    /\ \/ UNCHANGED health
       \/ /\ scan.reason # "deadline"
          /\ health' \in [Sites -> UNION {Observed(health[s], seen[s]) : s \in Sites}]
          /\ \A s \in Sites : health'[s] \in Observed(health[s], seen[s])
    /\ scan' = [scan EXCEPT !.at = "over"]
    /\ UNCHANGED <<evidence, trusted, producer, queue, finder, found, existing, attempted,
                   candidate, seen, wake>>

-----------------------------------------------------------------------------
Run == Pass \/ Deadline \/ Gathered \/ Record \/ \E m \in Matches : Cancel(m)

Next ==
    \/ Run \/ Find
    \/ \E p \in Producers : Produce(p) \/ ProducerEnds(p)
    \/ \E m \in Matches : Resolve(m) \/ CallBack(m)

\* The loop and the cleaning up go on, and every search ends by its timeout.
\* Candidates need not: the deadline is enough.
Progress == Run \/ \E p \in Producers : ProducerEnds(p)

Spec == Init /\ [][Next]_vars /\ WF_vars(Progress)

-----------------------------------------------------------------------------
\* The tasks, and their number; nothing of a scan outlives it.
TypeOK ==
    /\ \A m \in Matches : candidate[m].at \in
          {"none", "runs", "ended", "called", "counted", "cancelled"}
    /\ Cardinality(InFlight \cup At({"called"})) <= MaxInFlight
    /\ \A m \in Matches : candidate[m].at # "none" <=> m \in attempted
    /\ scan.at \in {"loop", "closing", "gathered", "over"}
    /\ scan.at \in {"gathered", "over"} =>
          InFlight = {} /\ \A p \in Producers : ~producer[p].runs

\* The scan sleeps only while something it waits for can still happen: with
\* its event clear there is no result to count, no match to start within the
\* limit, and a search or a candidate under way.
NoLostWakeUp ==
    scan.at = "loop" /\ ~wake =>
        /\ At({"called"}) = {}
        /\ Waiting = {} \/ Cardinality(InFlight) = MaxInFlight
        /\ Finding \/ InFlight # {}

\* A scan that ends for want of candidates has tried every bound match it may
\* try and every site its searches have found, and every result it has is
\* counted, also one that came with the end.
EndsWithAReason ==
    LET discovered == UNION {producer[p].found : p \in Producers} IN
    scan.at = "gathered" =>
        /\ At({"ended", "called"}) = {}
        /\ scan.reason = "exhausted" =>
              /\ \A m \in ToSet(BoundMatches) : CanBind(m) => m \in attempted
              /\ \A m \in discovered : \E n \in discovered :
                    SiteOf[n] = SiteOf[m] /\ (CanProbe(n) => n \in attempted)

\* The circuit of a source opens on failures of the source itself: a route of
\* one work that does not play never takes the source from other works.
CircuitIsProviders ==
    [][\A s \in Sites : IsOpen(health'[s]) /\ ~IsOpen(health[s]) =>
          \E m \in Matches : SiteOf[m] = s /\ candidate[m].result = "source"]_vars

\* Every scan ends.
Ends == <>(scan.at = "over")
=============================================================================
