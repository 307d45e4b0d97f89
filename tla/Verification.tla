---------------------------- MODULE Verification ----------------------------
(***************************************************************************)
(* Verification codes and the mail that carries them: request_code and     *)
(* _consume_code of server/server/account_api.py, and the outbox worker of *)
(* email_outbox.py.  One address; a message has the number of its code.    *)
(*                                                                         *)
(* Every UPDATE, INSERT and DELETE here names the state it expects and is  *)
(* committed at once, so it is one step; what a handler or a worker read   *)
(* before it may have changed.  A worker claims a message with a new token *)
(* and a lease; the model names the worker instead.  One whose lease ends  *)
(* while it is still claiming may take its own message again and send it   *)
(* twice.  Only its later token stores a result, so one item stands for    *)
(* both.                                                                   *)
(***************************************************************************)
EXTENDS Naturals, FiniteSets

CONSTANTS
    Handlers,       \* requests that try a code at the same time
    Workers,        \* outbox workers, one in each process
    NoWorker,       \* nobody has claimed the message
    GuessLimit,     \* _MAX_CODE_FAILURES
    MaxAttempts,    \* EMAIL_OUTBOX_MAX_ATTEMPTS
    BatchSize,      \* EMAIL_OUTBOX_BATCH_SIZE
    MaxCodes,       \* bound: codes requested
    MaxCrashes,     \* bound: workers that die
    MaxSlow         \* bound: leases that end under a worker still at work

Codes == 1..MaxCodes

VARIABLES
    code,       \* the row of verify_codes
    issued,     \* how many codes there have been
    handler,    \* the code each handler has read; 0: none
    accepted,   \* how often each code has been accepted
    mail,       \* the rows of email_outbox
    worker,     \* what each worker is doing
    faults      \* workers that died, leases that were too short

codeVars == <<code, issued, handler, accepted>>
mailVars == <<mail, worker, faults>>
vars == <<codeVars, mailVars>>

NoCode == [id |-> 0, wrong |-> 0]
NoMail == [status |-> "none", payload |-> FALSE, attempts |-> 0,
           claim |-> NoWorker, due |-> FALSE, stale |-> FALSE]
NewMail == [NoMail EXCEPT !.status = "pending", !.payload = TRUE, !.due = TRUE]

Terminal == {"delivered", "failed"}
Mail ==
    [status   : {"none", "pending", "processing", "retry"} \cup Terminal,
     payload  : BOOLEAN,                    \* the encrypted code is there
     attempts : 0..MaxAttempts,
     claim    : Workers \cup {NoWorker},    \* claim_token
     due      : BOOLEAN,                    \* next_attempt_at has come
     stale    : BOOLEAN]                    \* locked_at is too long ago

\* run_once: the batch is claimed message by message, then delivered.
Worker ==
    [step  : {"claiming", "delivering"},
     items : SUBSET Codes]              \* claimed, without a result

Resting == [step |-> "claiming", items |-> {}]

Init ==
    /\ code = NoCode /\ issued = 0
    /\ handler = [h \in Handlers |-> 0]
    /\ accepted = [c \in Codes |-> 0]
    /\ mail = [m \in Codes |-> NoMail]
    /\ worker = [w \in Workers |-> Resting]
    /\ faults = [crashes |-> 0, slow |-> 0]

-----------------------------------------------------------------------------
(***************************************************************************)
(* Codes                                                                   *)
(***************************************************************************)
\* request_code: the code replaces every earlier one of the address and is
\* stored together with its message.
RequestCode ==
    /\ issued < MaxCodes
    /\ issued' = issued + 1
    /\ code' = [NoCode EXCEPT !.id = issued + 1]
    /\ mail' = [mail EXCEPT ![issued + 1] = NewMail]
    /\ UNCHANGED <<handler, accepted, worker, faults>>

\* _consume_code, the SELECT and the checks on what it finds.
ReadCode(h) ==
    /\ handler[h] = 0
    /\ code.id # 0 /\ code.wrong < GuessLimit
    /\ handler' = [handler EXCEPT ![h] = code.id]
    /\ UNCHANGED <<code, issued, accepted, mailVars>>

\* The WHERE clause of the DELETE, which names the digest of the code too.  Its
\* time is that of the SELECT: a code that has run out in between still counts.
StillThere(h) == code.id = handler[h] /\ code.wrong < GuessLimit

\* The WHERE clause of the UPDATE, which names the row alone.  SQLite may have
\* given the number of the row that was read to the one of a newer code.
MeetsRow(h) == code.id >= handler[h] /\ code.wrong < GuessLimit

Answer(h) ==
    /\ handler[h] # 0
    /\ handler' = [handler EXCEPT ![h] = 0]
    /\ UNCHANGED <<issued, mailVars>>

\* Mutant: the row is deleted by its id, whether or not it is still there.
MutantAccept(h) ==
    /\ Answer(h)
    /\ code' = IF code.id = handler[h] THEN NoCode ELSE code
    /\ accepted' = [accepted EXCEPT ![handler[h]] = @ + 1]

AcceptCode(h) ==
    /\ Answer(h) /\ StillThere(h)
    /\ code' = NoCode
    /\ accepted' = [accepted EXCEPT ![handler[h]] = @ + 1]

\* A wrong guess counts against whichever code the row holds now.
WrongCode(h) ==
    /\ Answer(h) /\ MeetsRow(h)
    /\ code' = [code EXCEPT !.wrong = @ + 1]
    /\ UNCHANGED accepted

\* The row has gone, holds another code, or has had all its guesses.
RejectCode(h) ==
    /\ Answer(h) /\ ~StillThere(h)
    /\ UNCHANGED <<code, accepted>>

\* purge_expired_auth_artifacts, the part about codes.  One that has run out
\* and is still there differs from a valid one only in not being read.
PurgeCode ==
    /\ code.id # 0
    /\ code' = NoCode
    /\ UNCHANGED <<issued, handler, accepted, mailVars>>

-----------------------------------------------------------------------------
(***************************************************************************)
(* Mail                                                                    *)
(***************************************************************************)
\* Mutant: a message that is being processed can be claimed at any time.
MutantEligible(m) ==
    \/ mail[m].status \in {"pending", "retry"} /\ mail[m].due
    \/ mail[m].status = "processing"

\* Mutant: a claim that has ended without a result is not taken over.
MutantNoRecovery(m) == mail[m].status \in {"pending", "retry"} /\ mail[m].due

Eligible(m) ==
    \/ mail[m].status \in {"pending", "retry"} /\ mail[m].due
    \/ mail[m].status = "processing" /\ mail[m].stale

\* _claim_one: the first of the eligible messages; which one that is by
\* time is left open.
Claim(w, m) ==
    /\ worker[w].step = "claiming"
    /\ Cardinality(worker[w].items) < BatchSize
    /\ Eligible(m)
    /\ mail' = [mail EXCEPT ![m].status = "processing", ![m].claim = w,
                            ![m].due = FALSE, ![m].stale = FALSE]
    /\ worker' = [worker EXCEPT ![w].items = @ \cup {m}]
    /\ UNCHANGED <<codeVars, faults>>

\* _claim_batch ends: the batch is full or nothing is left to claim.
StartDelivery(w) ==
    /\ worker[w].step = "claiming"
    /\ worker[w].items # {}
    /\ Cardinality(worker[w].items) = BatchSize \/ \A m \in Codes : ~Eligible(m)
    /\ worker' = [worker EXCEPT ![w].step = "delivering"]
    /\ UNCHANGED <<codeVars, mail, faults>>

\* Mutant: the result is stored by the message's id.
MutantHoldsClaim(w, m) == mail[m].status # "none"

\* The WHERE clause of the result.
HoldsClaim(w, m) == mail[m].claim = w /\ mail[m].status = "processing"

Delivered(row) ==
    [row EXCEPT !.status = "delivered", !.payload = FALSE,
                !.attempts = @ + 1, !.claim = NoWorker, !.stale = FALSE]

Undelivered(row) ==
    LET tried == [row EXCEPT !.attempts = @ + 1, !.stale = FALSE]
    IN  IF tried.attempts < MaxAttempts
          THEN [tried EXCEPT !.status = "retry"]
          ELSE [tried EXCEPT !.status = "failed", !.payload = FALSE]

\* _deliver: the mail is sent, or the sender fails, and the result stored;
\* without the claim nothing is.  The attempts a worker read with its claim
\* are those of the row while it holds it.
Deliver(w, m) ==
    LET rest == worker[w].items \ {m} IN
    /\ worker[w].step = "delivering" /\ m \in worker[w].items
    /\ IF HoldsClaim(w, m)
         THEN \E row \in {Delivered(mail[m]), Undelivered(mail[m])} :
                 mail' = [mail EXCEPT ![m] = row]
         ELSE UNCHANGED mail
    /\ worker' = [worker EXCEPT
           ![w] = IF rest = {} THEN Resting ELSE [@ EXCEPT !.items = rest]]
    /\ UNCHANGED <<codeVars, faults>>

RetryTime(m) ==
    /\ mail[m].status = "retry" /\ ~mail[m].due
    /\ mail' = [mail EXCEPT ![m].due = TRUE]
    /\ UNCHANGED <<codeVars, worker, faults>>

AtWork(m) == mail[m].claim \in Workers /\ m \in worker[mail[m].claim].items

\* A lease ends: of a worker that died, or of one that is too slow.
LeaseEnds(m) ==
    /\ mail[m].status = "processing" /\ ~mail[m].stale
    /\ AtWork(m) => faults.slow < MaxSlow
    /\ faults' = IF AtWork(m) THEN [faults EXCEPT !.slow = @ + 1] ELSE faults
    /\ mail' = [mail EXCEPT ![m].stale = TRUE]
    /\ UNCHANGED <<codeVars, worker>>

\* The process of a worker dies and a new one starts.
Crash(w) ==
    /\ worker[w].items # {}
    /\ faults.crashes < MaxCrashes
    /\ faults' = [faults EXCEPT !.crashes = @ + 1]
    /\ worker' = [worker EXCEPT ![w] = Resting]
    /\ UNCHANGED <<codeVars, mail>>

-----------------------------------------------------------------------------
Run(w) ==
    \/ StartDelivery(w)
    \/ \E m \in Codes : Claim(w, m) \/ Deliver(w, m)

\* What requests do after the first, which is the only step that touches both
\* tables, and what the workers do.
TryCode ==
    \/ PurgeCode
    \/ \E h \in Handlers :
          ReadCode(h) \/ AcceptCode(h) \/ WrongCode(h) \/ RejectCode(h)

SendMail ==
    \/ \E w \in Workers : Run(w) \/ Crash(w)
    \/ \E m \in Codes : RetryTime(m) \/ LeaseEnds(m)

Next == RequestCode \/ TryCode \/ SendMail

\* The workers' loop survives every error (run_forever), and time passes.
Progress ==
    \/ \E w \in Workers : Run(w)
    \/ \E m \in Codes : RetryTime(m) \/ LeaseEnds(m)

Fairness == WF_vars(Progress)

Spec == Init /\ [][Next]_vars /\ Fairness

-----------------------------------------------------------------------------
(***************************************************************************)
(* Properties                                                              *)
(***************************************************************************)
\* The rows and what handlers and workers hold; no code has more wrong
\* guesses than it allows.
TypeOK ==
    /\ code \in [id : 0..MaxCodes, wrong : 0..GuessLimit]
    /\ issued \in 0..MaxCodes
    /\ handler \in [Handlers -> 0..MaxCodes]
    /\ accepted \in [Codes -> Nat]
    /\ mail \in [Codes -> Mail]
    /\ worker \in [Workers -> Worker]
    /\ faults \in [crashes : 0..MaxCrashes, slow : 0..MaxSlow]

\* However many requests try the same code at once, one of them succeeds.
CodeWorksOnce == \A c \in Codes : accepted[c] <= 1

\* Two workers send one message at the same time only if a lease was too
\* short for the worker that had it (F3.2: two-worker single-send).
OneSender ==
    \A v, w \in Workers :
        v # w /\ worker[v].items \cap worker[w].items # {} => faults.slow > 0

\* A message that was delivered or given up is not taken up again, by a
\* result that comes after the claim was lost least of all.
EndStands ==
    [][\A m \in Codes : mail[m].status \in Terminal =>
          mail'[m].status = mail[m].status]_vars

=============================================================================
