----------------------------- MODULE MCServices -----------------------------
(***************************************************************************)
(* What the server does in the background and must come to an end, each in *)
(* its own environment: the refresh tasks and the cache row of one episode *)
(* (Playback: two sources, two requests, two full and two quick tasks),    *)
(* the search a full refresh makes (AliasSearch: one site of the first     *)
(* wave and two of the second, two names, four queries), the scan a quick  *)
(* one makes (QuickScan: three matches of two sites, one of them bound)    *)
(* and the codes of one address with the mail that carries them            *)
(* (Verification: two codes, two requests, two workers).                   *)
(*                                                                         *)
(* `part` says what a behaviour is about; the rest stays as it is.  After  *)
(* RequestCode, trying a code and sending its mail share no table.         *)
(***************************************************************************)
EXTENDS Playback, FiniteSets, Sequences

CONSTANTS s1, s2, c1, c2, f1, f2, q1, q2,   \* values of Playback
          m1, m2, m3, p1, p2,               \* values of QuickScan
          h1, h2, w1, w2                    \* values of Verification

CONSTANTS OrderedSources, Preferred, Collector, AliasCount, QueryBudget,
          MaxConcurrency                    \* of AliasSearch

CONSTANTS Matches, Sites, SiteOf, BoundMatches, Producers, Finds,
          MaxInFlight, LineCount, Threshold, Failing    \* of QuickScan

CONSTANTS Handlers, Workers, NoWorker, GuessLimit, MaxAttempts, BatchSize,
          MaxCodes, MaxCrashes, MaxSlow                 \* of Verification

\* A site is asked by one worker and the iterator is none of them; a search
\* yields matches, and the limits leave room for one of each.
ASSUME ScanAssumption ==
    /\ OrderedSources \in Seq({OrderedSources[i] : i \in DOMAIN OrderedSources})
    /\ \A i, j \in DOMAIN OrderedSources : OrderedSources[i] = OrderedSources[j] => i = j
    /\ \A i \in DOMAIN OrderedSources : OrderedSources[i] # Collector
    /\ IsFiniteSet(Matches) /\ IsFiniteSet(Producers) /\ Matches \cap Producers = {}
    /\ Finds \in [Producers -> SUBSET Matches] /\ BoundMatches \in Seq(Matches)
    /\ QueryBudget \in Nat /\ MaxInFlight \in Nat \ {0}

MCOrder == <<s1, f1, f2>>
MCSiteOf == [m \in {m1, m2, m3} |-> IF m = m2 THEN s2 ELSE s1]
MCBound == <<m1>>
MCFinds == [p \in {p1, p2} |-> IF p = p1 THEN {m2} ELSE {m3}]

VARIABLES
    part,
    loop, search, gate, wave, answers, collector, status,
    health, evidence, trusted, producer, queue, finder, found, existing,
    attempted, candidate, seen, wake, quick,
    code, issued, handler, accepted, mail, worker, faults

Alias == INSTANCE AliasSearch WITH results <- answers
Quick == INSTANCE QuickScan WITH scan <- quick
Mail == INSTANCE Verification

aliasVars == <<loop, search, gate, wave, answers, collector, status>>
quickVars == <<health, evidence, trusted, producer, queue, finder, found,
               existing, attempted, candidate, seen, wake, quick>>

mailVars == <<code, issued, handler, accepted, mail, worker, faults>>

otherVars == <<aliasVars, quickVars, mailVars>>

Start ==
    /\ part \in {"playback", "alias", "quick", "codes", "mail"}
    /\ Init /\ Alias!Init /\ Quick!Init /\ Mail!Init
    /\ part # "alias" => wave = "none"
    /\ part # "quick" => \A s \in Sites : health[s].failures < Threshold
    /\ Cardinality(evidence) <= 1 /\ trusted = evidence \cap {BoundMatches[i] : i \in DOMAIN BoundMatches}

Step ==
    \/ part = "playback" /\ Next /\ UNCHANGED <<part, otherVars>>
    \/ part = "alias" /\ Alias!Next /\ UNCHANGED <<part, vars, quickVars, mailVars>>
    \/ part = "quick" /\ Quick!Next /\ UNCHANGED <<part, vars, aliasVars, mailVars>>
    \/ /\ part \in {"codes", "mail"}
       /\ UNCHANGED <<part, vars, aliasVars, quickVars>>
       /\ \/ Mail!RequestCode
          \/ part = "codes" /\ Mail!TryCode
          \/ part = "mail" /\ Mail!SendMail

\* The fairness of each module, while the behaviour is about it.
FairStep ==
    /\ \A t \in Tasks : WF_vars(part = "playback" /\ Run(t))
    /\ \A c \in Callers : WF_vars(part = "playback" /\ Serve(c))
    /\ WF_otherVars(\/ part = "alias" /\ Alias!Progress /\ UNCHANGED <<quickVars, mailVars>>
                    \/ part = "quick" /\ Quick!Progress /\ UNCHANGED <<aliasVars, mailVars>>
                    \/ part = "mail" /\ Mail!Progress /\ UNCHANGED <<aliasVars, quickVars>>)

AllParts == Start /\ [][Step]_<<part, vars, otherVars>> /\ FairStep

-----------------------------------------------------------------------------
\* The rows, tasks, semaphores and workers of the modules.
TypesOK ==
    CASE part = "playback" -> TypeOK
      [] part = "alias" -> Alias!TypeOK
      [] part = "quick" -> Quick!TypeOK
      [] OTHER -> Mail!TypeOK

\* No site of a full scan is asked for a second name before every site of its
\* wave has been asked for the first, and what the scan says of a site is true
\* of its queries, although worker and collector both write it (strategy.py,
\* aggregator.py).  The loop of a quick scan sleeps only while something can
\* still wake it, and if it ends for want of candidates it has tried them all
\* (playback.py, _refresh_quick).
ScansAreTrue ==
    /\ part = "alias" => Alias!FirstAliasForAll /\ Alias!StatusIsTrue
    /\ part = "quick" => Quick!NoLostWakeUp /\ Quick!EndsWithAReason

\* The circuit of a source opens on failures of the source alone
\* (repositories/playback.py, record_health).
CircuitIsProviders == Quick!CircuitIsProviders

\* However many requests try the same code at once, one of them succeeds
\* (account_api.py, _consume_code), and two workers send one message at the same
\* time only if a lease was too short for the worker that had it
\* (email_outbox.py).
CodesAreSafe == Mail!CodeWorksOnce /\ Mail!OneSender

\* A quick scan never takes the place of a full one (playback.py), and a message
\* that was delivered or given up is not taken up again (email_outbox.py).
WhatIsDoneStands == FullStands /\ Mail!EndStands

\* Whatever is under way comes to its end: the search of a full scan, the loop
\* of a quick one and, through crashes, lost claims and failures, every message
\* (aggregator.py, playback.py, email_outbox.py).
UnderWay ==
    \/ part = "alias" /\ collector \notin {"ended", "closed"}
    \/ part = "quick" /\ quick.at # "over"
    \/ part = "mail" /\ \E m \in Mail!Codes : mail[m].status \notin Mail!Terminal \cup {"none"}

EverythingEnds == UnderWay ~> ~UnderWay
=============================================================================
