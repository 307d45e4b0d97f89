---------------------------- MODULE ProviderGate ----------------------------
(***************************************************************************)
(* How the catalog asks a provider: _provider_request of server/server/    *)
(* catalog.py.  Questions wait for the cooldown, then for one of a few     *)
(* places, and look at the cooldown again.                                 *)
(***************************************************************************)
EXTENDS Naturals, FiniteSets

CONSTANTS
    Questions,      \* requests of lists, searches and details at a time
    Places,         \* _PROVIDER_MAX_CONCURRENCY
    Pauses,         \* what Retry-After may say
    Ticks           \* bound: how long a behaviour lasts

VARIABLES
    clock,
    question,       \* how far each question is
    cooldown        \* _provider_cooldown_until

vars == <<clock, question, cooldown>>

Idle == [step |-> "idle", wake |-> 0]

Init ==
    /\ clock = 1
    /\ question = [q \in Questions |-> Idle]
    /\ cooldown = 0

Tick ==
    /\ clock < Ticks
    /\ clock' = clock + 1
    /\ UNCHANGED <<question, cooldown>>

Moves(q, from, to) ==
    /\ question[q].step = from
    /\ question' = [question EXCEPT ![q] = to]
    /\ UNCHANGED <<clock, cooldown>>

\* _wait_for_provider_cooldown: it sleeps until the moment it has read.
Sleeping(step, next) ==
    IF cooldown > clock THEN [step |-> step, wake |-> cooldown]
                        ELSE [Idle EXCEPT !.step = next]

Ask(q) == Moves(q, "idle", Sleeping("cooling", "queued"))

Queue(q) ==
    /\ clock >= question[q].wake
    /\ Moves(q, "cooling", [Idle EXCEPT !.step = "queued"])

HasPlace == {q \in Questions : question[q].step \in {"inside", "sent"}}

\* Mutant: a question that was queued does not look at the cooldown again.
MutantEnter(q) ==
    /\ Cardinality(HasPlace) < Places
    /\ Moves(q, "queued", [Idle EXCEPT !.step = "sent"])

\* "A queued request may have observed the old cooldown before a preceding
\* request received 429, so check again inside the gate."
Enter(q) ==
    /\ Cardinality(HasPlace) < Places
    /\ Moves(q, "queued", Sleeping("inside", "sent"))

\* It does not look a third time.
Send(q) ==
    /\ clock >= question[q].wake
    /\ Moves(q, "inside", [Idle EXCEPT !.step = "sent"])

\* An answer, an error, or a refresh that is cancelled.
Leave(q) == Moves(q, question[q].step, Idle) /\ question[q].step # "idle"

\* 429: at least a second, at most five minutes.
TooMany(q, pause) ==
    /\ question[q].step = "sent"
    /\ question' = [question EXCEPT ![q] = Idle]
    /\ cooldown' = IF clock + pause > cooldown THEN clock + pause ELSE cooldown
    /\ UNCHANGED clock

Next ==
    \/ Tick
    \/ \E q \in Questions :
          \/ Ask(q) \/ Queue(q) \/ Enter(q) \/ Send(q) \/ Leave(q)
          \/ \E pause \in Pauses : TooMany(q, pause)

-----------------------------------------------------------------------------

\* During a cooldown a question is sent only if it was inside when the provider
\* complained, so at most Places - 1 are sent before the cooldown is over.
CooldownIsKept ==
    [][\A q \in Questions :
          question[q].step # "sent" /\ question'[q].step = "sent" /\ clock < cooldown =>
              question[q].step = "inside" /\ question[q].wake < cooldown]_vars
=============================================================================
