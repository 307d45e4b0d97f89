------------------------------ MODULE Accounts ------------------------------
(***************************************************************************)
(* One account of the server and its sessions: server/server/auth.py,      *)
(* account_api.py and the delayed deletion of privacy.py.                  *)
(*                                                                         *)
(* Passwords are hashed and compared in a thread pool, between what a      *)
(* handler has read of the account and what it writes: it reads the row,   *)
(* awaits the pool, and then "fences" itself with a conditional UPDATE     *)
(* that repeats everything it read and takes SQLite's write lock until the *)
(* commit.  A SELECT before that sees the last committed state and locks   *)
(* nothing (SELECT ... FOR UPDATE has no effect in SQLite).  The steps of  *)
(* a transaction after it has the lock are one action, since nobody else   *)
(* can see or change anything in between.                                  *)
(*                                                                         *)
(* Time is the moment at which it matters: GraceEnds and Expire.           *)
(***************************************************************************)
EXTENDS Naturals, FiniteSets

CONSTANTS
    Handlers,           \* request handlers that may run at the same time
    NoHandler,          \* the write lock is free
    SessionLimit,       \* session rows kept by a login (4 in the code)
    MaxCredential,      \* bound: credentials issued
    MaxPassword,        \* bound: passwords the account has had
    MaxRequest,         \* bound: deletions requested
    MaxFailures         \* bound: erasures that fail

ASSUME HandlerAssumption == NoHandler \notin Handlers
ASSUME BoundAssumption ==
    /\ MaxCredential \in Nat /\ MaxPassword \in Nat \ {0}
    /\ MaxRequest \in Nat /\ MaxFailures \in Nat
    /\ SessionLimit \in Nat \ {0}

(***************************************************************************)
(* A credential is what one login or refresh hands out: an access token,   *)
(* known by its jti, and a refresh token, known by its digest.  They are   *)
(* numbered in the order of issue, and a session, with its token family,   *)
(* has the number of its first credential.                                 *)
(***************************************************************************)
Credential == 1..MaxCredential
RowId == 1..MaxCredential

AccountRow ==
    [password  : 0..MaxPassword,    \* which password the hash is of
     legacy    : BOOLEAN,           \* the hash has the old format
     requested : 0..MaxRequest,     \* the pending deletion; 0: none
     due       : BOOLEAN]           \* its grace period is over

SessionRow ==
    [session  : {0} \cup Credential,
     cred     : {0} \cup Credential,    \* the credential it accepts
     password : 0..MaxPassword,         \* the one it was opened under
     revoked  : BOOLEAN,
     expired  : BOOLEAN]

HistoryRow ==
    [session  : {0} \cup Credential,
     used     : BOOLEAN,
     reused   : BOOLEAN,                \* `reuse_detected_at`
     replaced : {0} \cup Credential]    \* `replaced_by_digest`

NoAccount == [password |-> 0, legacy |-> FALSE, requested |-> 0, due |-> FALSE]
NoSession == [session |-> 0, cred |-> 0, password |-> 0,
              revoked |-> FALSE, expired |-> FALSE]
NoHistory == [session |-> 0, used |-> FALSE, reused |-> FALSE, replaced |-> 0]

VARIABLES
    user,       \* the row of `users`, or NoAccount
    sessions,   \* the rows of `user_tokens` by their id
    history,    \* the rows of `refresh_token_history` by credential
    lock,       \* the handler that holds SQLite's write lock
    handler,    \* what each request handler is doing
    finalizer,  \* what the privacy job is doing
    minted      \* how many credentials, passwords, requests, failures

vars == <<user, sessions, history, lock, handler, finalizer, minted>>

(***************************************************************************)
(* Which route a handler serves only matters when it writes: what it has   *)
(* read until then is the same for all the routes that start like it.      *)
(***************************************************************************)
Handler ==
    [step     : {"idle", "token", "checked", "fenced"},
     route    : {"", "login", "register", "cancel", "reset", "change",
                 "delete"},
     expected : AccountRow,             \* PasswordAccountState
     row      : {0} \cup RowId,         \* PasswordSessionState: the id ...
     cred     : {0} \cup Credential]    \* ... and the credential

Idle == [step |-> "idle", route |-> "", expected |-> NoAccount,
         row |-> 0, cred |-> 0]

Init ==
    /\ user \in {NoAccount, [NoAccount EXCEPT !.password = 1, !.legacy = TRUE]}
    /\ sessions = [i \in RowId |-> NoSession]
    /\ history = [c \in Credential |-> NoHistory]
    /\ lock = NoHandler
    /\ handler = [h \in Handlers |-> Idle]
    /\ finalizer = "idle"
    /\ minted = [cred |-> 0, password |-> 1, request |-> 0, failures |-> 0]

-----------------------------------------------------------------------------
Exists(row) == row.session # 0
Live(row) == Exists(row) /\ ~row.revoked /\ ~row.expired

\* What the fence compares: the hash and the two deletion times.
Captured(account) == [account EXCEPT !.due = FALSE]

\* purge_expired_auth_artifacts, the part about sessions.
Purged(rows) == [i \in RowId |-> IF rows[i].expired THEN NoSession ELSE rows[i]]

\* The id SQLite gives to a new row: one more than the largest in use.
IsNextId(i, rows) ==
    /\ \A j \in RowId : Exists(rows[j]) => j < i
    /\ i > 1 => Exists(rows[i - 1])

\* The newest rows, by creation.
Newest(rows) ==
    {i \in RowId :
        Cardinality({j \in RowId : rows[j].session >= rows[i].session})
            <= SessionLimit}

Kept(rows) ==
    [i \in RowId |-> IF i \in Newest(rows) THEN rows[i] ELSE NoSession]

\* The number of the next credential.
Fresh == minted.cred + 1

OpenedSession(password) ==
    [session |-> Fresh, cred |-> Fresh, password |-> password,
     revoked |-> FALSE, expired |-> FALSE]

\* issue_session_credentials, after this password has been verified.
IssueSession(password) ==
    /\ Fresh <= MaxCredential
    /\ \E i \in RowId :
          /\ IsNextId(i, Purged(sessions))
          /\ sessions' =
                Kept([Purged(sessions) EXCEPT ![i] = OpenedSession(password)])
    /\ history' = [history EXCEPT ![Fresh] = [NoHistory EXCEPT !.session = Fresh]]

NewPassword == minted.password + 1

Finish(h) == handler' = [handler EXCEPT ![h] = Idle]

-----------------------------------------------------------------------------
(***************************************************************************)
(* What a request reads before its password work.                          *)
(***************************************************************************)
\* login, cancel_account_deletion, and reset_password after its code.
ReadByEmail(h) ==
    /\ handler[h].step = "idle"
    /\ user # NoAccount
    /\ handler' = [handler EXCEPT ![h] =
           [Idle EXCEPT !.step = "checked", !.expected = Captured(user)]]
    /\ UNCHANGED <<user, sessions, history, lock, finalizer, minted>>

\* register after its code: nobody has the address.
ReadUnregistered(h) ==
    /\ handler[h].step = "idle"
    /\ user = NoAccount
    /\ handler' = [handler EXCEPT ![h] = [Idle EXCEPT !.step = "checked"]]
    /\ UNCHANGED <<user, sessions, history, lock, finalizer, minted>>

\* current_account, first query: the session of the access token.
ReadSession(h, i) ==
    /\ handler[h].step = "idle"
    /\ Live(sessions[i])
    /\ handler' = [handler EXCEPT ![h] =
           [Idle EXCEPT !.step = "token", !.row = i, !.cred = sessions[i].cred]]
    /\ UNCHANGED <<user, sessions, history, lock, finalizer, minted>>

\* current_account, second query: the account of that session.
ReadAccount(h) ==
    /\ handler[h].step = "token"
    /\ user # NoAccount /\ user.requested = 0
    /\ handler' = [handler EXCEPT ![h].step = "checked",
                                  ![h].expected = Captured(user)]
    /\ UNCHANGED <<user, sessions, history, lock, finalizer, minted>>

\* current_account: no account any more, or one that waits for deletion.
TurnAway(h) ==
    /\ handler[h].step = "token"
    /\ user = NoAccount \/ user.requested # 0
    /\ lock = NoHandler
    /\ sessions' = [sessions EXCEPT ![handler[h].row] = NoSession]
    /\ Finish(h)
    /\ UNCHANGED <<user, history, lock, finalizer, minted>>

\* A wrong password, a fence that fails, a check that succeeds and changes
\* nothing, a client that hangs up.
Refuse(h) ==
    /\ handler[h].step \in {"token", "checked"}
    /\ Finish(h)
    /\ UNCHANGED <<user, sessions, history, lock, finalizer, minted>>

-----------------------------------------------------------------------------
(***************************************************************************)
(* The fence, and the transactions behind it.                              *)
(***************************************************************************)
\* Mutant: only the deletion times are compared, not the hash.
MutantAccountUnchanged(h) == user.requested = handler[h].expected.requested

AccountUnchanged(h) == Captured(user) = handler[h].expected

\* Mutant: the session is found by its row id alone.
MutantSessionUnchanged(h) == Exists(sessions[handler[h].row])

SessionUnchanged(h) ==
    LET row == sessions[handler[h].row] IN
    Live(row) /\ row.cred = handler[h].cred

\* revalidate_password_account and the checks that follow it at once; for
\* register, the INSERT, which fails when the address is taken by now.
Fence(h, route) ==
    /\ handler[h].step = "checked"
    /\ lock = NoHandler
    /\ AccountUnchanged(h)
    /\ \/ route = "register" /\ handler[h].row = 0 /\ user = NoAccount
       \/ route = "login" /\ handler[h].row = 0 /\ user # NoAccount
             /\ user.requested = 0
       \/ route = "cancel" /\ handler[h].row = 0 /\ user # NoAccount /\ ~user.due
       \/ route = "reset" /\ handler[h].row = 0 /\ user # NoAccount
       \/ route \in {"change", "delete"} /\ handler[h].row # 0
             /\ SessionUnchanged(h)
    /\ lock' = h
    /\ handler' = [handler EXCEPT ![h].step = "fenced", ![h].route = route]
    /\ UNCHANGED <<user, sessions, history, finalizer, minted>>

\* A handler that fails before its commit leaves nothing.
\* Mutant: the connection goes back to the pool with its transaction open.
MutantRollback(h) ==
    /\ handler[h].step = "fenced"
    /\ Finish(h)
    /\ UNCHANGED <<user, sessions, history, lock, finalizer, minted>>

Rollback(h) ==
    /\ handler[h].step = "fenced"
    /\ lock' = NoHandler
    /\ Finish(h)
    /\ UNCHANGED <<user, sessions, history, finalizer, minted>>

Committing(h, route) ==
    /\ handler[h].step = "fenced" /\ handler[h].route = route
    /\ lock' = NoHandler
    /\ Finish(h)
    /\ UNCHANGED finalizer

\* login: the hash is upgraded, a session opened.
CommitLogin(h) ==
    /\ Committing(h, "login")
    /\ user' = [user EXCEPT !.legacy = FALSE]
    /\ IssueSession(handler[h].expected.password)
    /\ minted' = [minted EXCEPT !.cred = Fresh]

CommitRegister(h) ==
    /\ Committing(h, "register")
    /\ NewPassword <= MaxPassword
    /\ user' = [NoAccount EXCEPT !.password = NewPassword]
    /\ IssueSession(NewPassword)
    /\ minted' = [minted EXCEPT !.cred = Fresh, !.password = NewPassword]

CommitCancel(h) ==
    /\ Committing(h, "cancel")
    /\ user' = [NoAccount EXCEPT !.password = user.password]
    /\ UNCHANGED <<sessions, history, minted>>

\* reset_password: every session ends.
CommitReset(h) ==
    /\ Committing(h, "reset")
    /\ NewPassword <= MaxPassword
    /\ user' = [user EXCEPT !.password = NewPassword, !.legacy = FALSE]
    /\ sessions' = [i \in RowId |-> NoSession]
    /\ minted' = [minted EXCEPT !.password = NewPassword]
    /\ UNCHANGED history

\* change_password: every other session ends.
CommitChange(h) ==
    /\ Committing(h, "change")
    /\ NewPassword <= MaxPassword
    /\ user' = [user EXCEPT !.password = NewPassword, !.legacy = FALSE]
    /\ sessions' = [i \in RowId |->
           IF i = handler[h].row
             THEN [sessions[i] EXCEPT !.password = NewPassword]
             ELSE NoSession]
    /\ minted' = [minted EXCEPT !.password = NewPassword]
    /\ UNCHANGED history

\* Mutant: the session that asks for the deletion stays.
MutantDelete(h) ==
    /\ Committing(h, "delete")
    /\ minted.request < MaxRequest
    /\ user' = [user EXCEPT !.requested = minted.request + 1, !.due = FALSE]
    /\ sessions' = [i \in RowId |->
           IF i = handler[h].row THEN sessions[i] ELSE NoSession]
    /\ minted' = [minted EXCEPT !.request = @ + 1]
    /\ UNCHANGED history

\* request_account_deletion: every session ends.
CommitDelete(h) ==
    /\ Committing(h, "delete")
    /\ minted.request < MaxRequest
    /\ user' = [user EXCEPT !.requested = minted.request + 1, !.due = FALSE]
    /\ sessions' = [i \in RowId |-> NoSession]
    /\ minted' = [minted EXCEPT !.request = @ + 1]
    /\ UNCHANGED history

-----------------------------------------------------------------------------
(***************************************************************************)
(* logout, revoke_session and revoke_other_sessions write by the row id    *)
(* they have read, with no fence; an id may be in use again by then.       *)
(***************************************************************************)
Revoked(row) == IF Exists(row) THEN [row EXCEPT !.revoked = TRUE] ELSE row

Revoke(h, rows) ==
    /\ handler[h].step = "checked" /\ handler[h].row # 0
    /\ lock = NoHandler
    /\ sessions' = [i \in RowId |->
           IF i \in rows THEN Revoked(sessions[i]) ELSE sessions[i]]
    /\ Finish(h)
    /\ UNCHANGED <<user, history, lock, finalizer, minted>>

Logout(h) == Revoke(h, {handler[h].row})
RevokeSession(h) == \E i \in RowId : Exists(sessions[i]) /\ Revoke(h, {i})
RevokeOthers(h) == Revoke(h, RowId \ {handler[h].row})

-----------------------------------------------------------------------------
(***************************************************************************)
(* rotate_refresh_token: its first statement claims the token and takes    *)
(* the write lock, so each of its three endings is one step; the third,    *)
(* a token that is unknown or whose session is over, changes nothing.      *)
(***************************************************************************)
SessionOf(c, i) ==
    /\ sessions[i].session = history[c].session
    /\ sessions[i].cred = c
    /\ Live(sessions[i])

\* Mutant: the claim does not ask whether the token was used.
MutantExchange(c) ==
    /\ lock = NoHandler
    /\ history[c].session # 0
    /\ Fresh <= MaxCredential
    /\ \E i \in RowId :
          /\ sessions[i].session = history[c].session /\ Live(sessions[i])
          /\ sessions' = [sessions EXCEPT ![i].cred = Fresh]
    /\ history' = [history EXCEPT
           ![c].used = TRUE, ![c].replaced = Fresh,
           ![Fresh] = [NoHistory EXCEPT !.session = history[c].session]]
    /\ minted' = [minted EXCEPT !.cred = Fresh]
    /\ UNCHANGED <<user, lock, handler, finalizer>>

\* Mutant: a refresh renews its session without asking if it was revoked.
MutantRenew(c) ==
    /\ lock = NoHandler
    /\ history[c].session # 0 /\ ~history[c].used
    /\ Fresh <= MaxCredential
    /\ \E i \in RowId :
          /\ sessions[i].session = history[c].session
          /\ sessions' = [sessions EXCEPT ![i].cred = Fresh, ![i].revoked = FALSE]
    /\ history' = [history EXCEPT
           ![c].used = TRUE, ![c].replaced = Fresh,
           ![Fresh] = [NoHistory EXCEPT !.session = history[c].session]]
    /\ minted' = [minted EXCEPT !.cred = Fresh]
    /\ UNCHANGED <<user, lock, handler, finalizer>>

Exchange(c) ==
    /\ lock = NoHandler
    /\ history[c].session # 0 /\ ~history[c].used
    /\ Fresh <= MaxCredential
    /\ \E i \in RowId :
          /\ SessionOf(c, i)
          /\ sessions' = [sessions EXCEPT ![i].cred = Fresh]
    /\ history' = [history EXCEPT
           ![c].used = TRUE, ![c].replaced = Fresh,
           ![Fresh] = [NoHistory EXCEPT !.session = history[c].session]]
    /\ minted' = [minted EXCEPT !.cred = Fresh]
    /\ UNCHANGED <<user, lock, handler, finalizer>>

\* Mutant: only the row that still accepts the replayed token is revoked.
MutantDetectReplay(c) ==
    /\ lock = NoHandler
    /\ history[c].session # 0 /\ history[c].used
    /\ history' = [history EXCEPT ![c].reused = TRUE]
    /\ sessions' = [i \in RowId |->
           IF sessions[i].cred = c THEN Revoked(sessions[i]) ELSE sessions[i]]
    /\ UNCHANGED <<user, lock, handler, finalizer, minted>>

DetectReplay(c) ==
    /\ lock = NoHandler
    /\ history[c].session # 0 /\ history[c].used
    /\ history' = [history EXCEPT ![c].reused = TRUE]
    /\ sessions' = [i \in RowId |->
           IF sessions[i].session = history[c].session
             THEN Revoked(sessions[i]) ELSE sessions[i]]
    /\ UNCHANGED <<user, lock, handler, finalizer, minted>>

-----------------------------------------------------------------------------
(***************************************************************************)
(* run_privacy_cleanup: one job, with a transaction for each due account.  *)
(***************************************************************************)
CleanUp ==
    /\ finalizer = "idle"
    /\ lock = NoHandler
    /\ sessions' = Purged(sessions)
    /\ finalizer' = IF user.due THEN "picked" ELSE "idle"
    /\ UNCHANGED <<user, history, lock, handler, minted>>

\* The SELECT of the account's own transaction; SQLite locks no row.
Recheck ==
    /\ finalizer = "picked"
    /\ finalizer' = IF user.due THEN "found" ELSE "idle"
    /\ UNCHANGED <<user, sessions, history, lock, handler, minted>>

\* _finalize_account_deletion; its statements name the account by its id.
Erase ==
    /\ finalizer = "found"
    /\ lock = NoHandler
    /\ user' = NoAccount
    /\ sessions' = [i \in RowId |-> NoSession]
    /\ history' = [c \in Credential |-> NoHistory]
    /\ finalizer' = "idle"
    /\ UNCHANGED <<lock, handler, minted>>

\* The transaction fails and is counted; the next run finds the account again.
EraseFails ==
    /\ finalizer = "found"
    /\ minted.failures < MaxFailures
    /\ finalizer' = "idle"
    /\ minted' = [minted EXCEPT !.failures = @ + 1]
    /\ UNCHANGED <<user, sessions, history, lock, handler>>

GraceEnds ==
    /\ user.requested # 0 /\ ~user.due
    /\ user' = [user EXCEPT !.due = TRUE]
    /\ UNCHANGED <<sessions, history, lock, handler, finalizer, minted>>

Expire(i) ==
    /\ Exists(sessions[i]) /\ ~sessions[i].expired
    /\ sessions' = [sessions EXCEPT ![i].expired = TRUE]
    /\ UNCHANGED <<user, history, lock, handler, finalizer, minted>>

-----------------------------------------------------------------------------
Commit(h) ==
    \/ CommitLogin(h) \/ CommitRegister(h) \/ CommitCancel(h)
    \/ CommitReset(h) \/ CommitChange(h) \/ CommitDelete(h)

Request(h) ==
    \/ ReadByEmail(h) \/ ReadUnregistered(h) \/ ReadAccount(h) \/ TurnAway(h)
    \/ \E i \in RowId : ReadSession(h, i)
    \/ Refuse(h) \/ Rollback(h) \/ Commit(h)
    \/ \E route \in {"login", "register", "cancel", "reset", "change", "delete"} :
          Fence(h, route)
    \/ Logout(h) \/ RevokeSession(h) \/ RevokeOthers(h)

Next ==
    \/ \E h \in Handlers : Request(h)
    \/ \E c \in Credential : Exchange(c) \/ DetectReplay(c)
    \/ CleanUp \/ Recheck \/ Erase \/ EraseFails
    \/ GraceEnds \/ \E i \in RowId : Expire(i)

(***************************************************************************)
(* A handler that holds the lock ends, and the job comes back for what it  *)
(* has not finished: its loop runs for ever (scheduler.py, _privacy_loop), *)
(* and SQLite's busy timeout lets it have the lock at last.                *)
(***************************************************************************)
Fairness ==
    /\ \A h \in Handlers : WF_vars(Rollback(h) \/ Commit(h))
    /\ SF_vars(CleanUp) /\ WF_vars(Recheck) /\ SF_vars(Erase)

Spec == Init /\ [][Next]_vars /\ Fairness

-----------------------------------------------------------------------------
(***************************************************************************)
(* Properties                                                              *)
(***************************************************************************)
\* A deleted row leaves nothing, and only a requested deletion comes due.
TypeOK ==
    /\ user \in AccountRow
    /\ user.due => user.requested # 0
    /\ sessions \in [RowId -> SessionRow]
    /\ \A i \in RowId : Exists(sessions[i]) \/ sessions[i] = NoSession
    /\ history \in [Credential -> HistoryRow]
    /\ lock \in Handlers \cup {NoHandler}
    /\ handler \in [Handlers -> Handler]
    /\ finalizer \in {"idle", "picked", "found"}
    /\ minted \in [cred : 0..MaxCredential, password : 0..MaxPassword,
                   request : 0..MaxRequest, failures : 0..MaxFailures]

\* Between its fence and its commit a handler holds the lock, and the
\* account and session it acts for are still those it has authenticated:
\* nothing slips in after the check (auth.py, revalidate_password_account).
AuthorityHolds ==
    \A h \in Handlers : handler[h].step = "fenced" =>
        /\ lock = h
        /\ Captured(user) = handler[h].expected
        /\ handler[h].row # 0 =>
              /\ sessions[handler[h].row].cred = handler[h].cred
              /\ ~sessions[handler[h].row].revoked

\* Every session was opened under the password the account has now, or has
\* itself changed it: a login whose password was replaced while bcrypt ran
\* leaves no session.
SessionsFollowPassword ==
    \A i \in RowId :
        Exists(sessions[i]) => sessions[i].password = user.password

\* From the request of a deletion until it is cancelled nobody is signed in,
\* and an erased account leaves neither sessions nor refresh history.
PendingMeansSignedOut ==
    /\ user.requested # 0 => \A i \in RowId : ~Exists(sessions[i])
    /\ user = NoAccount =>
          /\ \A i \in RowId : ~Exists(sessions[i])
          /\ \A c \in Credential : history[c].session = 0

\* A session has one refresh token that can be redeemed: the one its row
\* accepts; every other one of its family counts as a replay.
OneLiveToken ==
    \A i \in RowId, c \in Credential :
        Exists(sessions[i]) /\ history[c].session = sessions[i].session =>
            (~history[c].used <=> sessions[i].cred = c)

\* Once a token has been replayed its session is over, also for whoever
\* holds the newest token of the family.
ReplayEndsSession ==
    \A c \in Credential, i \in RowId :
        /\ history[c].reused
        /\ sessions[i].session = history[c].session
        => sessions[i].revoked

\* A session that has ended, by logout, replay, password or deletion, is
\* never live again, whatever request was under way.
Ended(s) ==
    s <= minted.cred /\ \A i \in RowId : sessions[i].session = s =>
                                            sessions[i].revoked

EndedStaysEnded == [][\A s \in Credential : Ended(s) => Ended(s)']_vars

\* A refresh token is exchanged at most once: what replaced it is never
\* written again, it is only erased with the account.
RedeemedOnce ==
    [][\A c \in Credential : history[c].used =>
          \/ history'[c].used /\ history'[c].replaced = history[c].replaced
          \/ history'[c] = NoHistory]_vars

\* A deletion that has come due ends, in the erasure of the account, unless
\* a cancellation that was checked in time is committed after all.
DueIsErased == user.due ~> ~user.due

=============================================================================
