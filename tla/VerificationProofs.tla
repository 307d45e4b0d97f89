------------------------- MODULE VerificationProofs -------------------------
(***************************************************************************)
(* Theorems about Verification, for any number of requests, workers, codes *)
(* and faults and every limit: at least one guess and one attempt.         *)
(***************************************************************************)
EXTENDS Verification, TLAPS

Limits ==
    /\ MaxCodes \in Nat /\ MaxCrashes \in Nat /\ MaxSlow \in Nat
    /\ GuessLimit \in Nat \ {0} /\ MaxAttempts \in Nat \ {0}
    /\ NoWorker \notin Workers

-----------------------------------------------------------------------------
(***************************************************************************)
(* The invariant                                                           *)
(***************************************************************************)

\* The code that is there has not been used, and no later one has been.
Unused ==
    \A c \in Codes :
        /\ accepted[c] <= 1
        /\ code.id = c \/ c > issued => accepted[c] = 0

Issued == code.id <= issued /\ \A m \in Codes : m > issued => mail[m].status = "none"

\* A message without a result has attempts left.
MayBeTried ==
    \A m \in Codes :
        mail[m].status \in {"pending", "processing", "retry"} => mail[m].attempts < MaxAttempts

\* While no lease was too short, what a worker has is its own.
Own ==
    faults.slow = 0 =>
        \A w \in Workers : \A m \in worker[w].items :
            mail[m].status = "processing" /\ mail[m].claim = w /\ ~mail[m].stale

IInv == TypeOK /\ Unused /\ Issued /\ MayBeTried /\ Own

-----------------------------------------------------------------------------
LEMMA InitHolds ==
    ASSUME Limits, Init
    PROVE  IInv
<1>1. NoMail \in Mail /\ NoMail.status = "none"
  BY DEF Limits, NoMail, Mail
<1>2. Resting \in Worker /\ Resting.items = {}
  BY DEF Resting, Worker
<1>3. TypeOK
  BY <1>1, <1>2 DEF Limits, Init, TypeOK, NoCode, Codes
<1>4. Unused
  BY DEF Init, Unused, Codes
<1>5. Issued
  BY <1>1 DEF Init, Issued, NoCode
<1>6. MayBeTried
  BY <1>1 DEF Init, MayBeTried
<1>7. Own
  BY <1>2 DEF Init, Own
<1> QED
  BY <1>3, <1>4, <1>5, <1>6, <1>7 DEF IInv

-----------------------------------------------------------------------------
(***************************************************************************)
(* Codes                                                                   *)
(***************************************************************************)
CodeTypes ==
    /\ code \in [id : 0..MaxCodes, wrong : 0..GuessLimit]
    /\ issued \in 0..MaxCodes
    /\ handler \in [Handlers -> 0..MaxCodes]
    /\ accepted \in [Codes -> Nat]

MailTypes ==
    /\ mail \in [Codes -> Mail]
    /\ worker \in [Workers -> Worker]
    /\ faults \in [crashes : 0..MaxCrashes, slow : 0..MaxSlow]

LEMMA RequestCodeKeeps ==
    ASSUME Limits, IInv, RequestCode
    PROVE  IInv'
<1> DEFINE n == issued + 1
<1>1. /\ n \in Codes /\ n \in Nat /\ issued' = n
      /\ code' = [NoCode EXCEPT !.id = n] /\ mail' = [mail EXCEPT ![n] = NewMail]
      /\ UNCHANGED <<handler, accepted, worker, faults>>
  BY DEF RequestCode, IInv, TypeOK, Codes, Limits
<1>2. code' \in [id : 0..MaxCodes, wrong : 0..GuessLimit] /\ code'.id = n
  BY <1>1 DEF NoCode, Limits, Codes
<1>3. /\ NewMail \in Mail /\ NewMail.status = "pending" /\ NewMail.attempts = 0
  <2>1. NoMail \in Mail /\ NoMail.attempts = 0
    BY DEF NoMail, Mail, Limits
  <2> QED
    BY <2>1 DEF NewMail, Mail
<1>4. /\ mail' \in [Codes -> Mail] /\ mail'[n] = NewMail
      /\ \A m \in Codes \ {n} : mail'[m] = mail[m]
  BY <1>1, <1>3 DEF IInv, TypeOK
<1>5. TypeOK'
  BY <1>1, <1>2, <1>4 DEF IInv, TypeOK, Codes
<1>6. Unused'
  BY <1>1, <1>2 DEF IInv, TypeOK, Unused, Codes
<1>7. Issued'
  BY <1>1, <1>2, <1>4 DEF IInv, TypeOK, Issued, Codes
<1>8. MayBeTried'
  BY <1>3, <1>4 DEF IInv, MayBeTried, Limits
<1>9. Own'
  <2>1. mail[n].status = "none"
    BY <1>1 DEF IInv, TypeOK, Issued
  <2>2. \A w \in Workers : worker[w].items \subseteq Codes
    BY DEF IInv, TypeOK, Worker
  <2> QED
    BY <1>1, <1>4, <2>1, <2>2 DEF IInv, Own
<1> QED
  BY <1>5, <1>6, <1>7, <1>8, <1>9 DEF IInv

\* A step of the codes leaves the mail alone.
LEMMA CodeStep ==
    ASSUME IInv, CodeTypes', Unused', code'.id <= issued', UNCHANGED <<issued, mailVars>>
    PROVE  IInv'
<1>1. TypeOK'
  BY DEF IInv, TypeOK, CodeTypes, mailVars
<1>2. Issued' /\ MayBeTried' /\ Own'
  BY DEF IInv, Issued, MayBeTried, Own, mailVars
<1> QED
  BY <1>1, <1>2 DEF IInv

LEMMA TryCodeKeeps ==
    ASSUME Limits, IInv, TryCode
    PROVE  IInv'
<1> USE DEF IInv, TypeOK, CodeTypes, Issued, Limits
<1>0. /\ NoCode \in [id : 0..MaxCodes, wrong : 0..GuessLimit] /\ NoCode.id = 0
      /\ 0 \notin Codes
  BY DEF NoCode, Codes
<1>1. CASE PurgeCode
  <2>1. CodeTypes' /\ code'.id <= issued'
    BY <1>0, <1>1 DEF PurgeCode
  <2>2. Unused'
    BY <1>0, <1>1 DEF PurgeCode, Unused, Codes
  <2> QED
    BY <1>1, <2>1, <2>2, CodeStep DEF PurgeCode
<1>2. ASSUME NEW h \in Handlers, ReadCode(h)
      PROVE  IInv'
  BY <1>2, CodeStep DEF ReadCode, Unused
<1>3. ASSUME NEW h \in Handlers, AcceptCode(h)
      PROVE  IInv'
  <2>1. code.id \in Codes /\ code.id = handler[h]
    BY <1>3 DEF AcceptCode, Answer, StillThere, Codes
  <2>2. /\ code' = NoCode /\ accepted' = [accepted EXCEPT ![code.id] = @ + 1]
        /\ handler' = [handler EXCEPT ![h] = 0] /\ UNCHANGED <<issued, mailVars>>
    BY <1>3, <2>1 DEF AcceptCode, Answer
  <2>3. accepted[code.id] = 0
    BY <2>1 DEF Unused
  <2>4. /\ accepted' \in [Codes -> Nat] /\ accepted'[code.id] = 1
        /\ \A c \in Codes \ {code.id} : accepted'[c] = accepted[c]
    BY <2>1, <2>2, <2>3
  <2>5. CodeTypes' /\ code'.id <= issued'
    BY <1>0, <2>2, <2>4
  <2>6. Unused'
    BY <1>0, <2>1, <2>2, <2>4 DEF Unused, Codes
  <2> QED
    BY <2>2, <2>5, <2>6, CodeStep
<1>4. ASSUME NEW h \in Handlers, WrongCode(h)
      PROVE  IInv'
  <2>1. /\ code' \in [id : 0..MaxCodes, wrong : 0..GuessLimit] /\ code'.id = code.id
        /\ handler' \in [Handlers -> 0..MaxCodes] /\ UNCHANGED <<issued, accepted, mailVars>>
    BY <1>4 DEF WrongCode, Answer, MeetsRow
  <2> QED
    BY <2>1, CodeStep DEF Unused
<1>5. ASSUME NEW h \in Handlers, RejectCode(h)
      PROVE  IInv'
  BY <1>5, CodeStep DEF RejectCode, Answer, Unused
<1> QED
  BY <1>1, <1>2, <1>3, <1>4, <1>5 DEF TryCode

-----------------------------------------------------------------------------
(***************************************************************************)
(* Mail                                                                    *)
(***************************************************************************)

\* What a step of the workers may do with a message.
Allowed(old, new) ==
    /\ new \in Mail
    /\ old.status = "none" => new.status = "none"
    /\ old.status \in Terminal => new.status = old.status
    /\ new.status \in {"pending", "processing", "retry"} => new.attempts < MaxAttempts

LEMMA MailStep ==
    ASSUME Limits, IInv, UNCHANGED codeVars, MailTypes', Own',
           \A m \in Codes : Allowed(mail[m], mail'[m])
    PROVE  IInv'
<1>1. TypeOK'
  BY DEF IInv, TypeOK, MailTypes, codeVars
<1>2. Unused' /\ Issued' /\ MayBeTried'
  BY DEF IInv, Unused, Issued, MayBeTried, Allowed, codeVars
<1> QED
  BY <1>1, <1>2 DEF IInv

LEMMA Same ==
    ASSUME IInv, NEW m \in Codes
    PROVE  Allowed(mail[m], mail[m])
BY DEF IInv, TypeOK, Allowed, MayBeTried

\* One message changes, or none.
LEMMA OneMail ==
    ASSUME IInv, NEW m \in Codes, NEW row, mail' = [mail EXCEPT ![m] = row],
           Allowed(mail[m], row)
    PROVE  /\ mail' \in [Codes -> Mail] /\ mail'[m] = row
           /\ \A n \in Codes \ {m} : mail'[n] = mail[n]
           /\ \A n \in Codes : Allowed(mail[n], mail'[n])
<1>1. mail' \in [Codes -> Mail] /\ mail'[m] = row /\ \A n \in Codes \ {m} : mail'[n] = mail[n]
  BY DEF IInv, TypeOK, Allowed
<1>2. \A n \in Codes : Allowed(mail[n], mail'[n])
  BY <1>1, Same
<1> QED
  BY <1>1, <1>2

LEMMA Holdings ==
    ASSUME IInv, NEW w \in Workers
    PROVE  /\ worker[w].items \subseteq Codes
           /\ worker[w].step \in {"claiming", "delivering"}
           /\ worker[w] = [step |-> worker[w].step, items |-> worker[w].items]
BY DEF IInv, TypeOK, Worker

\* A worker is changed by its new record.
LEMMA OneWorker ==
    ASSUME IInv, NEW w \in Workers, NEW k \in Worker, worker' = [worker EXCEPT ![w] = k]
    PROVE  /\ worker' \in [Workers -> Worker] /\ worker'[w] = k
           /\ \A v \in Workers \ {w} : worker'[v] = worker[v]
BY DEF IInv, TypeOK

\* A message that can be claimed is nobody's, while no lease was too short.
LEMMA EligibleIsFree ==
    ASSUME IInv, NEW m \in Codes, Eligible(m), faults.slow = 0, NEW w \in Workers
    PROVE  m \notin worker[w].items
BY DEF IInv, Own, Eligible

LEMMA ClaimKeeps ==
    ASSUME Limits, IInv, NEW w \in Workers, NEW m \in Codes, Claim(w, m)
    PROVE  IInv'
<1> DEFINE row == [mail[m] EXCEPT !.status = "processing", !.claim = w,
                                  !.due = FALSE, !.stale = FALSE]
<1> DEFINE k == [worker[w] EXCEPT !.items = @ \cup {m}]
<1>1. /\ mail[m] \in Mail /\ mail[m].status \in {"pending", "retry", "processing"}
      /\ mail[m].attempts < MaxAttempts
  BY DEF IInv, TypeOK, MayBeTried, Claim, Eligible
<1>2. /\ row \in Mail /\ row.status = "processing" /\ row.claim = w /\ ~row.stale
      /\ row.attempts = mail[m].attempts
  BY <1>1 DEF Mail
<1>3. Allowed(mail[m], row)
  <2> HIDE DEF row
  <2> QED
    BY <1>1, <1>2 DEF Allowed, Terminal
<1>4. /\ mail' = [mail EXCEPT ![m] = row] /\ UNCHANGED <<codeVars, faults>>
  BY DEF Claim, IInv, TypeOK
<1>5. /\ worker' = [worker EXCEPT ![w] = k] /\ k \in Worker
      /\ k.items = worker[w].items \cup {m}
  BY Holdings DEF Claim, Worker, IInv, TypeOK
<1> HIDE DEF row, k
<1>6. /\ mail' \in [Codes -> Mail] /\ mail'[m] = row
      /\ \A n \in Codes \ {m} : mail'[n] = mail[n]
      /\ \A n \in Codes : Allowed(mail[n], mail'[n])
  BY <1>3, <1>4, OneMail
<1>7. /\ worker' \in [Workers -> Worker] /\ worker'[w].items = worker[w].items \cup {m}
      /\ \A v \in Workers \ {w} : worker'[v] = worker[v]
  BY <1>5, OneWorker
<1>8. MailTypes'
  BY <1>4, <1>6, <1>7 DEF MailTypes, IInv, TypeOK
<1>9. Own'
  <2> SUFFICES ASSUME faults.slow = 0, NEW v \in Workers, NEW n \in worker'[v].items
               PROVE  mail'[n].status = "processing" /\ mail'[n].claim = v /\ ~mail'[n].stale
    BY <1>4 DEF Own
  <2>1. CASE n = m
    <3>1. v = w
      BY <1>7, <2>1, EligibleIsFree DEF Claim
    <3> QED
      BY <1>2, <1>6, <2>1, <3>1
  <2>2. CASE n # m
    <3>1. n \in worker[v].items /\ n \in Codes
      BY <1>7, <2>2, Holdings
    <3> QED
      BY <1>6, <2>2, <3>1 DEF IInv, Own
  <2> QED
    BY <2>1, <2>2
<1> QED
  BY <1>4, <1>6, <1>8, <1>9, MailStep

LEMMA StartDeliveryKeeps ==
    ASSUME Limits, IInv, NEW w \in Workers, StartDelivery(w)
    PROVE  IInv'
<1> DEFINE k == [worker[w] EXCEPT !.step = "delivering"]
<1>1. UNCHANGED <<codeVars, mail, faults>> /\ \A n \in Codes : Allowed(mail[n], mail'[n])
  BY Same DEF StartDelivery
<1>2. /\ k \in Worker /\ worker' = [worker EXCEPT ![w] = k]
      /\ k.items = worker[w].items
  BY DEF StartDelivery, Worker, IInv, TypeOK
<1> HIDE DEF k
<1>3. /\ worker' \in [Workers -> Worker] /\ worker'[w].items = worker[w].items
      /\ \A v \in Workers \ {w} : worker'[v] = worker[v]
  BY <1>2, OneWorker
<1>4. MailTypes' /\ Own'
  BY <1>1, <1>3 DEF MailTypes, IInv, TypeOK, Own
<1> QED
  BY <1>1, <1>4, MailStep

LEMMA Results ==
    ASSUME Limits, IInv, NEW m \in Codes, mail[m].status = "processing",
           NEW row \in {Delivered(mail[m]), Undelivered(mail[m])}
    PROVE  Allowed(mail[m], row)
<1> DEFINE old == mail[m]
<1> DEFINE n == old.attempts + 1
<1>1. old \in Mail /\ old.attempts < MaxAttempts /\ n \in 0..MaxAttempts
  BY DEF IInv, TypeOK, MayBeTried, Mail, Limits
<1>2. CASE row = Delivered(old)
  <2>1. row \in Mail /\ row.status = "delivered"
    BY <1>1, <1>2 DEF Delivered, Mail, Terminal
  <2> QED
    BY <1>1, <2>1 DEF Allowed, Terminal
<1>3. CASE row = Undelivered(old)
  <2> DEFINE tried == [old EXCEPT !.attempts = n, !.stale = FALSE]
  <2>1. tried \in Mail /\ tried.attempts = n
    BY <1>1 DEF Mail
  <2>2. row = IF tried.attempts < MaxAttempts
                THEN [tried EXCEPT !.status = "retry"]
                ELSE [tried EXCEPT !.status = "failed", !.payload = FALSE]
    BY <1>3 DEF Undelivered
  <2> HIDE DEF tried, n
  <2>3. CASE n < MaxAttempts
    <3>1. row \in Mail /\ row.status = "retry" /\ row.attempts = n
      BY <2>1, <2>2, <2>3 DEF Mail
    <3> QED
      BY <1>1, <2>3, <3>1 DEF Allowed, Terminal
  <2>4. CASE ~(n < MaxAttempts)
    <3>1. row \in Mail /\ row.status = "failed"
      BY <2>1, <2>2, <2>4 DEF Mail, Terminal
    <3> QED
      BY <1>1, <3>1 DEF Allowed, Terminal
  <2> QED
    BY <2>3, <2>4
<1> QED
  BY <1>2, <1>3

LEMMA DeliverKeeps ==
    ASSUME Limits, IInv, NEW w \in Workers, NEW m \in Codes, Deliver(w, m)
    PROVE  IInv'
<1> DEFINE rest == worker[w].items \ {m}
<1>1. m \in worker[w].items /\ UNCHANGED <<codeVars, faults>>
  BY DEF Deliver
<1>2. /\ mail' \in [Codes -> Mail]
      /\ \A n \in Codes \ {m} : mail'[n] = mail[n]
      /\ \A n \in Codes : Allowed(mail[n], mail'[n])
  <2>1. CASE HoldsClaim(w, m)
    <3>1. PICK row \in {Delivered(mail[m]), Undelivered(mail[m])} :
              mail' = [mail EXCEPT ![m] = row]
      BY <2>1 DEF Deliver
    <3>2. Allowed(mail[m], row)
      BY <2>1, Results DEF HoldsClaim
    <3> QED
      BY <3>1, <3>2, OneMail
  <2>2. CASE ~HoldsClaim(w, m)
    BY <2>2, Same DEF Deliver, IInv, TypeOK
  <2> QED
    BY <2>1, <2>2
<1>3. PICK k \in Worker : worker' = [worker EXCEPT ![w] = k] /\ k.items = rest
  <2>1. CASE rest = {}
    <3>1. Resting \in Worker /\ Resting.items = {}
      BY DEF Resting, Worker
    <3>2. worker' = [worker EXCEPT ![w] = Resting]
      BY <2>1 DEF Deliver
    <3> QED
      BY <2>1, <3>1, <3>2
  <2>2. CASE rest # {}
    <3> DEFINE k == [worker[w] EXCEPT !.items = rest]
    <3>1. worker[w] \in Worker /\ rest \in SUBSET Codes
      BY Holdings DEF IInv, TypeOK
    <3>2. k \in Worker /\ k.items = rest
      BY <3>1 DEF Worker
    <3>3. worker' = [worker EXCEPT ![w] = k]
      BY <2>2 DEF Deliver
    <3> QED
      BY <3>2, <3>3
  <2> QED
    BY <2>1, <2>2
<1>4. /\ worker' \in [Workers -> Worker] /\ worker'[w].items = rest
      /\ \A v \in Workers \ {w} : worker'[v] = worker[v]
  BY <1>3, OneWorker
<1>5. MailTypes'
  BY <1>1, <1>2, <1>4 DEF MailTypes, IInv, TypeOK
<1>6. Own'
  <2> SUFFICES ASSUME faults.slow = 0, NEW v \in Workers, NEW n \in worker'[v].items
               PROVE  mail'[n].status = "processing" /\ mail'[n].claim = v /\ ~mail'[n].stale
    BY <1>1 DEF Own
  <2>1. n \in worker[v].items /\ n \in Codes
    BY <1>4, Holdings
  <2>2. n # m
    BY <1>1, <1>4, <2>1 DEF IInv, Own
  <2> QED
    BY <1>2, <2>1, <2>2 DEF IInv, Own
<1> QED
  BY <1>1, <1>2, <1>5, <1>6, MailStep

LEMMA RetryTimeKeeps ==
    ASSUME Limits, IInv, NEW m \in Codes, RetryTime(m)
    PROVE  IInv'
<1> DEFINE row == [mail[m] EXCEPT !.due = TRUE]
<1>1. /\ mail[m] \in Mail /\ mail[m].status = "retry" /\ mail[m].attempts < MaxAttempts
      /\ mail' = [mail EXCEPT ![m] = row] /\ UNCHANGED <<codeVars, worker, faults>>
  BY DEF IInv, TypeOK, MayBeTried, RetryTime
<1>2. Allowed(mail[m], row)
  BY <1>1 DEF Allowed, Mail, Terminal
<1> HIDE DEF row
<1>3. /\ mail' \in [Codes -> Mail]
      /\ \A n \in Codes \ {m} : mail'[n] = mail[n]
      /\ \A n \in Codes : Allowed(mail[n], mail'[n])
  BY <1>1, <1>2, OneMail
<1>4. MailTypes'
  BY <1>1, <1>3 DEF MailTypes, IInv, TypeOK
<1>5. Own'
  BY <1>1, <1>3, Holdings DEF IInv, Own
<1> QED
  BY <1>1, <1>3, <1>4, <1>5, MailStep

LEMMA LeaseEndsKeeps ==
    ASSUME Limits, IInv, NEW m \in Codes, LeaseEnds(m)
    PROVE  IInv'
<1> DEFINE row == [mail[m] EXCEPT !.stale = TRUE]
<1>1. /\ mail[m] \in Mail /\ mail[m].status = "processing" /\ mail[m].attempts < MaxAttempts
      /\ mail' = [mail EXCEPT ![m] = row] /\ UNCHANGED <<codeVars, worker>>
  BY DEF IInv, TypeOK, MayBeTried, LeaseEnds
<1>2. Allowed(mail[m], row)
  BY <1>1 DEF Allowed, Mail, Terminal
<1> HIDE DEF row
<1>3. /\ mail' \in [Codes -> Mail]
      /\ \A n \in Codes \ {m} : mail'[n] = mail[n]
      /\ \A n \in Codes : Allowed(mail[n], mail'[n])
  BY <1>1, <1>2, OneMail
<1>4. /\ faults' \in [crashes : 0..MaxCrashes, slow : 0..MaxSlow]
      /\ faults'.slow = 0 => faults.slow = 0 /\ ~AtWork(m)
  BY DEF LeaseEnds, IInv, TypeOK, Limits
<1>5. MailTypes'
  BY <1>1, <1>3, <1>4 DEF MailTypes, IInv, TypeOK
<1>6. Own'
  <2> SUFFICES ASSUME faults'.slow = 0, NEW v \in Workers, NEW n \in worker[v].items
               PROVE  mail'[n].status = "processing" /\ mail'[n].claim = v /\ ~mail'[n].stale
    BY <1>1 DEF Own
  <2>1. mail[n].status = "processing" /\ mail[n].claim = v /\ ~mail[n].stale
    BY <1>4 DEF IInv, Own
  <2>2. n \in Codes /\ n # m
    BY <1>4, <2>1, Holdings DEF AtWork
  <2> QED
    BY <1>3, <2>1, <2>2
<1> QED
  BY <1>1, <1>3, <1>5, <1>6, MailStep

LEMMA CrashKeeps ==
    ASSUME Limits, IInv, NEW w \in Workers, Crash(w)
    PROVE  IInv'
<1>1. UNCHANGED <<codeVars, mail>> /\ \A n \in Codes : Allowed(mail[n], mail'[n])
  BY Same DEF Crash
<1>2. Resting \in Worker /\ Resting.items = {}
  BY DEF Resting, Worker
<1>3. /\ worker' \in [Workers -> Worker] /\ worker'[w].items = {}
      /\ \A v \in Workers \ {w} : worker'[v] = worker[v]
  BY <1>2, OneWorker DEF Crash
<1>4. /\ faults' \in [crashes : 0..MaxCrashes, slow : 0..MaxSlow] /\ faults'.slow = faults.slow
  BY DEF Crash, IInv, TypeOK, Limits
<1>5. MailTypes' /\ Own'
  BY <1>1, <1>3, <1>4 DEF MailTypes, IInv, TypeOK, Own
<1> QED
  BY <1>1, <1>5, MailStep

-----------------------------------------------------------------------------
LEMMA NextKeeps ==
    ASSUME Limits, IInv, [Next]_vars
    PROVE  IInv'
<1>1. CASE UNCHANGED vars
  BY <1>1 DEF vars, codeVars, mailVars, IInv, TypeOK, Unused, Issued, MayBeTried, Own
<1>2. CASE RequestCode
  BY <1>2, RequestCodeKeeps
<1>3. CASE TryCode
  BY <1>3, TryCodeKeeps
<1>4. CASE SendMail
  BY <1>4, ClaimKeeps, StartDeliveryKeeps, DeliverKeeps, RetryTimeKeeps, LeaseEndsKeeps,
     CrashKeeps DEF SendMail, Run
<1> QED
  BY <1>1, <1>2, <1>3, <1>4 DEF Next

LEMMA Invariance ==
    ASSUME Limits
    PROVE  Spec => []IInv
<1>1. Init => IInv
  BY InitHolds
<1>2. IInv /\ [Next]_vars => IInv'
  BY NextKeeps
<1> QED
  BY <1>1, <1>2, PTL DEF Spec

\* The rows of verify_codes and email_outbox are well formed; no code has more
\* wrong guesses, and no message more attempts, than it may have.
THEOREM TypeCorrect ==
    ASSUME Limits
    PROVE  Spec => []TypeOK
<1>1. IInv => TypeOK
  BY DEF IInv
<1> QED
  BY <1>1, Invariance, PTL

\* However many requests try a code (_consume_code), at most one succeeds.
THEOREM CodeCorrect ==
    ASSUME Limits
    PROVE  Spec => []CodeWorksOnce
<1>1. IInv => CodeWorksOnce
  BY DEF IInv, Unused, CodeWorksOnce
<1> QED
  BY <1>1, Invariance, PTL

\* However many workers there are (run_once), two send one message at a time only
\* if a lease was too short.
THEOREM SenderCorrect ==
    ASSUME Limits
    PROVE  Spec => []OneSender
<1>1. IInv => OneSender
  BY DEF IInv, TypeOK, Own, OneSender
<1> QED
  BY <1>1, Invariance, PTL

LEMMA EndStep ==
    ASSUME Limits, IInv, [Next]_vars, NEW m \in Codes, mail[m].status \in Terminal
    PROVE  mail'[m].status = mail[m].status
<1> USE DEF IInv, TypeOK
<1>1. CASE RequestCode
  <2>1. m # issued + 1
    BY DEF Issued, Terminal
  <2> QED
    BY <1>1, <2>1 DEF RequestCode
<1>2. CASE TryCode \/ UNCHANGED vars
  BY <1>2 DEF TryCode, PurgeCode, ReadCode, AcceptCode, WrongCode, RejectCode, Answer,
     mailVars, vars
<1>3. ASSUME NEW w \in Workers, Run(w) \/ Crash(w)
      PROVE  mail'[m] = mail[m]
  <2>1. ASSUME NEW n \in Codes, Claim(w, n)
        PROVE  mail'[m] = mail[m]
    BY <2>1 DEF Claim, Eligible, Terminal
  <2>2. ASSUME NEW n \in Codes, Deliver(w, n)
        PROVE  mail'[m] = mail[m]
    BY <2>2 DEF Deliver, HoldsClaim, Terminal
  <2>3. CASE StartDelivery(w) \/ Crash(w)
    BY <2>3 DEF StartDelivery, Crash
  <2> QED
    BY <1>3, <2>1, <2>2, <2>3 DEF Run
<1>4. ASSUME NEW n \in Codes, RetryTime(n) \/ LeaseEnds(n)
      PROVE  mail'[m] = mail[m]
  BY <1>4 DEF RetryTime, LeaseEnds, Terminal
<1> QED
  BY <1>1, <1>2, <1>3, <1>4 DEF Next, SendMail

\* A message that has been delivered or given up keeps its status: no worker whose
\* claim was taken over, and no claim, changes it again (_claim_one, _deliver).
THEOREM EndCorrect ==
    ASSUME Limits
    PROVE  Spec => EndStands
<1>1. IInv /\ [Next]_vars =>
        [\A m \in Codes : mail[m].status \in Terminal =>
            mail'[m].status = mail[m].status]_vars
  BY EndStep
<1> QED
  BY <1>1, Invariance, PTL DEF Spec, EndStands
=============================================================================
