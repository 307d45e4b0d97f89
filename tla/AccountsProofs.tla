--------------------------- MODULE AccountsProofs ---------------------------
(***************************************************************************)
(* Theorems about Accounts, for every set of handlers and every bound.     *)
(***************************************************************************)
EXTENDS Accounts, TLAPS

-----------------------------------------------------------------------------
(***************************************************************************)
(* Types.                                                                  *)
(***************************************************************************)

LEMMA ConstantTypes ==
    /\ NoAccount \in AccountRow /\ NoSession \in SessionRow
    /\ NoHistory \in HistoryRow /\ Idle \in Handler
BY BoundAssumption DEF NoAccount, AccountRow, NoSession, SessionRow, NoHistory,
   HistoryRow, Idle, Handler

LEMMA CapturedType ==
    ASSUME NEW account \in AccountRow
    PROVE  Captured(account) \in AccountRow
BY DEF Captured, AccountRow

\* A handler that ends.
LEMMA FinishType ==
    ASSUME TypeOK, NEW h \in Handlers, Finish(h)
    PROVE  handler' \in [Handlers -> Handler]
BY ConstantTypes DEF TypeOK, Finish

(***************************************************************************)
(* Most steps leave of each session what was there, or nothing.            *)
(***************************************************************************)
Shrunk(old, new) ==
    /\ new \in SessionRow
    /\ \/ new = NoSession
       \/ /\ Exists(old)
          /\ new.session = old.session /\ new.cred = old.cred
          /\ old.revoked => new.revoked

Shrinks ==
    /\ sessions' \in [RowId -> SessionRow]
    /\ \A i \in RowId : Shrunk(sessions[i], sessions'[i])

SamePasswords ==
    \A i \in RowId :
        sessions'[i] = NoSession \/ sessions'[i].password = sessions[i].password

Written == \A i \in RowId : Exists(sessions[i]) \/ sessions[i] = NoSession

LEMMA ShrunkRows ==
    ASSUME NEW row \in SessionRow, Exists(row) \/ row = NoSession
    PROVE  /\ Shrunk(row, row) /\ Shrunk(row, NoSession)
           /\ Shrunk(row, Revoked(row))
<1>1. Revoked(row) \in SessionRow
  BY DEF Revoked, SessionRow
<1> QED
  BY <1>1, ConstantTypes DEF Shrunk, Revoked, SessionRow, NoSession, Exists

LEMMA ShrinksType ==
    ASSUME TypeOK, Shrinks
    PROVE  sessions' \in [RowId -> SessionRow] /\ Written'
<1>1. \A i \in RowId : Exists(sessions'[i]) \/ sessions'[i] = NoSession
  BY DEF Shrinks, Shrunk, Exists
<1> QED
  BY <1>1 DEF Shrinks, Written

LEMMA UnchangedShrinks ==
    ASSUME TypeOK, sessions' = sessions
    PROVE  Shrinks
BY ShrunkRows DEF TypeOK, Shrinks

LEMMA PurgedShrinks ==
    ASSUME TypeOK, NEW i \in RowId
    PROVE  Shrunk(sessions[i], Purged(sessions)[i])
BY ShrunkRows DEF TypeOK, Purged

LEMMA CleanUpShrinks ==
    ASSUME TypeOK, CleanUp
    PROVE  Shrinks
<1>1. sessions' = Purged(sessions)
  BY DEF CleanUp
<1>2. \A i \in RowId : Shrunk(sessions[i], sessions'[i])
  BY <1>1, PurgedShrinks
<1>3. sessions' = [i \in RowId |-> sessions'[i]]
  BY <1>1 DEF Purged
<1> QED
  BY <1>2, <1>3 DEF Shrinks, Shrunk

LEMMA NothingShrinks ==
    ASSUME TypeOK, sessions' = [i \in RowId |-> NoSession]
    PROVE  Shrinks
BY ShrunkRows, ConstantTypes DEF TypeOK, Shrinks

LEMMA TurnAwayShrinks ==
    ASSUME TypeOK, NEW h \in Handlers, TurnAway(h)
    PROVE  Shrinks
BY ShrunkRows, ConstantTypes DEF TypeOK, Shrinks, TurnAway

LEMMA RevokeShrinks ==
    ASSUME TypeOK, NEW h \in Handlers, NEW rows, Revoke(h, rows)
    PROVE  Shrinks
<1>1. sessions' = [i \in RowId |->
           IF i \in rows THEN Revoked(sessions[i]) ELSE sessions[i]]
  BY DEF Revoke
<1>2. \A i \in RowId : Shrunk(sessions[i], sessions'[i])
  BY <1>1, ShrunkRows DEF TypeOK
<1> QED
  BY <1>1, <1>2 DEF Shrinks, Shrunk

LEMMA ReplayShrinks ==
    ASSUME TypeOK, NEW c \in Credential, DetectReplay(c)
    PROVE  Shrinks
<1>1. sessions' = [i \in RowId |->
           IF sessions[i].session = history[c].session
             THEN Revoked(sessions[i]) ELSE sessions[i]]
  BY DEF DetectReplay
<1>2. \A i \in RowId : Shrunk(sessions[i], sessions'[i])
  BY <1>1, ShrunkRows DEF TypeOK
<1> QED
  BY <1>1, <1>2 DEF Shrinks, Shrunk

LEMMA ExpireShrinks ==
    ASSUME TypeOK, NEW i \in RowId, Expire(i)
    PROVE  Shrinks
<1>1. sessions[i] \in SessionRow /\ Exists(sessions[i])
  BY DEF TypeOK, Expire
<1>2. /\ [sessions[i] EXCEPT !.expired = TRUE] \in SessionRow
      /\ Shrunk(sessions[i], [sessions[i] EXCEPT !.expired = TRUE])
  BY <1>1 DEF SessionRow, Shrunk
<1>3. sessions' = [sessions EXCEPT ![i] = [sessions[i] EXCEPT !.expired = TRUE]]
  BY DEF Expire
<1> QED
  BY <1>2, <1>3, ShrunkRows DEF TypeOK, Shrinks

LEMMA ChangeShrinks ==
    ASSUME TypeOK, NEW h \in Handlers, CommitChange(h),
           handler[h].row \in RowId, Exists(sessions[handler[h].row])
    PROVE  Shrinks
<1> DEFINE row == handler[h].row
           changed == [sessions[row] EXCEPT !.password = NewPassword]
<1>1. sessions' = [i \in RowId |-> IF i = row THEN changed ELSE NoSession]
      /\ NewPassword \in 0..MaxPassword
  BY DEF CommitChange, NewPassword, TypeOK
<1>2. sessions[row] \in SessionRow
  BY DEF TypeOK
<1>3. changed \in SessionRow /\ Shrunk(sessions[row], changed)
  BY <1>1, <1>2 DEF Shrunk, SessionRow
<1>4. \A i \in RowId : Shrunk(sessions[i], sessions'[i])
  <2> SUFFICES ASSUME NEW i \in RowId
               PROVE  Shrunk(sessions[i], sessions'[i])
    OBVIOUS
  <2>1. CASE i = row
    BY <1>1, <1>3, <2>1
  <2>2. CASE i # row
    BY <1>1, <2>2, ConstantTypes DEF Shrunk
  <2> QED
    BY <2>1, <2>2
<1> QED
  BY <1>1, <1>4 DEF Shrinks, Shrunk

-----------------------------------------------------------------------------
(***************************************************************************)
(* A login or registration opens one session and leaves of the others what *)
(* was there, or nothing.                                                  *)
(***************************************************************************)
SamePassword(old, new) == new = NoSession \/ new.password = old.password

Opens(password) ==
    /\ Fresh \in Credential
    /\ sessions' \in [RowId -> SessionRow]
    /\ \E i \in RowId :
          /\ sessions'[i] \in {NoSession, OpenedSession(password)}
          /\ \A j \in RowId \ {i} :
                /\ Shrunk(sessions[j], sessions'[j])
                /\ SamePassword(sessions[j], sessions'[j])
    /\ history' =
          [history EXCEPT ![Fresh] = [NoHistory EXCEPT !.session = Fresh]]

LEMMA FreshType ==
    ASSUME TypeOK, Fresh <= MaxCredential
    PROVE  Fresh \in Credential
BY BoundAssumption DEF TypeOK, Fresh, Credential

LEMMA OpenedType ==
    ASSUME TypeOK, Fresh <= MaxCredential, NEW password \in 0..MaxPassword
    PROVE  OpenedSession(password) \in SessionRow
BY FreshType DEF OpenedSession, SessionRow

LEMMA IssueOpens ==
    ASSUME TypeOK, NEW password \in 0..MaxPassword, IssueSession(password)
    PROVE  Opens(password)
<1>1. Fresh <= MaxCredential /\ Fresh \in Credential
  BY FreshType DEF IssueSession
<1>2. OpenedSession(password) \in SessionRow
  BY <1>1, OpenedType
<1>3. PICK i \in RowId :
        sessions' = Kept([Purged(sessions) EXCEPT ![i] = OpenedSession(password)])
  BY DEF IssueSession
<1> DEFINE rows == [Purged(sessions) EXCEPT ![i] = OpenedSession(password)]
<1>4. /\ Purged(sessions) = [j \in RowId |-> Purged(sessions)[j]]
      /\ rows[i] = OpenedSession(password)
      /\ \A j \in RowId \ {i} : rows[j] = Purged(sessions)[j]
  BY DEF Purged
<1>5. sessions' = [j \in RowId |-> IF j \in Newest(rows) THEN rows[j] ELSE NoSession]
  BY <1>3 DEF Kept
<1>6. sessions'[i] \in {NoSession, OpenedSession(password)}
  BY <1>4, <1>5
<1>7. ASSUME NEW j \in RowId \ {i}
      PROVE  /\ Shrunk(sessions[j], sessions'[j])
             /\ SamePassword(sessions[j], sessions'[j])
  <2>1. sessions'[j] \in {NoSession, Purged(sessions)[j]}
    BY <1>4, <1>5
  <2>2. Purged(sessions)[j] \in {NoSession, sessions[j]}
    BY DEF Purged
  <2> QED
    BY <2>1, <2>2, ShrunkRows DEF TypeOK, SamePassword
<1>8. \A j \in RowId : sessions'[j] \in SessionRow
  BY <1>2, <1>6, <1>7, ConstantTypes DEF Shrunk
<1>9. sessions' \in [RowId -> SessionRow]
  BY <1>5, <1>8
<1> QED
  BY <1>1, <1>6, <1>7, <1>9 DEF Opens, IssueSession

-----------------------------------------------------------------------------
(***************************************************************************)
(* Refresh tokens.                                                         *)
(***************************************************************************)

\* Sessions and tokens have the numbers of credentials that were issued.
Numbered ==
    /\ \A i \in RowId : sessions[i].session <= minted.cred
    /\ \A c \in Credential :
          /\ history[c].session <= minted.cred
          /\ c > minted.cred => history[c] = NoHistory
          /\ history[c].session = 0 => history[c] = NoHistory

\* No two rows are the same session.
Distinct ==
    \A i, j \in RowId :
        Exists(sessions[i]) /\ sessions[i].session = sessions[j].session => i = j

Tokens == Numbered /\ Distinct /\ OneLiveToken /\ ReplayEndsSession

\* What a step does to sessions that have ended and to tokens that were used.
EndedKept == \A s \in Credential : Ended(s) => Ended(s)'
RedeemedKept ==
    \A c \in Credential : history[c].used =>
        \/ history'[c].used /\ history'[c].replaced = history[c].replaced
        \/ history'[c] = NoHistory
TokensKept == Tokens' /\ EndedKept /\ RedeemedKept

LEMMA ShrinksKeepsTokens ==
    ASSUME TypeOK, Tokens, Shrinks, history' = history,
           minted' \in [cred : 0..MaxCredential, password : 0..MaxPassword,
                        request : 0..MaxRequest, failures : 0..MaxFailures],
           minted'.cred = minted.cred
    PROVE  TokensKept
<1>1. /\ \A i \in RowId : sessions[i] \in SessionRow /\ sessions'[i] \in SessionRow
      /\ \A c \in Credential : history[c] \in HistoryRow
      /\ minted.cred \in Nat
      /\ NoSession.session = 0 /\ NoHistory.session = 0 /\ ~NoHistory.reused
  BY BoundAssumption DEF TypeOK, Shrinks, NoSession, NoHistory
<1>2. \A i \in RowId :
        \/ sessions'[i].session = 0
        \/ /\ sessions'[i].session = sessions[i].session
           /\ sessions'[i].cred = sessions[i].cred
           /\ sessions[i].revoked => sessions'[i].revoked
           /\ Exists(sessions[i])
  BY <1>1 DEF Shrinks, Shrunk
<1>3. Numbered'
  BY <1>1, <1>2 DEF Tokens, Numbered
<1>4. Distinct'
  BY <1>1, <1>2 DEF Tokens, Distinct, Exists
<1>5. OneLiveToken'
  BY <1>1, <1>2 DEF Tokens, OneLiveToken, Exists
<1>6. ReplayEndsSession'
  BY <1>1, <1>2 DEF Tokens, ReplayEndsSession, Numbered
<1>7. EndedKept
  BY <1>1, <1>2 DEF EndedKept, Ended, Credential
<1> QED
  BY <1>3, <1>4, <1>5, <1>6, <1>7 DEF Tokens, TokensKept, RedeemedKept

LEMMA ReplayKeepsTokens ==
    ASSUME TypeOK, Tokens, NEW c \in Credential, DetectReplay(c)
    PROVE  TokensKept
<1>1. /\ \A i \in RowId : sessions[i] \in SessionRow
      /\ \A d \in Credential : history[d] \in HistoryRow
      /\ minted' = minted /\ minted.cred \in Nat
      /\ NoSession.session = 0 /\ NoHistory.session = 0 /\ ~NoHistory.reused
  BY BoundAssumption DEF TypeOK, DetectReplay, NoSession, NoHistory
<1>2. history' = [history EXCEPT ![c] = [history[c] EXCEPT !.reused = TRUE]]
  BY DEF DetectReplay
<1>3. /\ \A d \in Credential :
            /\ history'[d].session = history[d].session
            /\ history'[d].used = history[d].used
            /\ history'[d].replaced = history[d].replaced
            /\ d # c => history'[d] = history[d]
  BY <1>1, <1>2 DEF TypeOK, HistoryRow
<1>4. history[c].session # 0
  BY DEF DetectReplay
<1>5. \A i \in RowId :
        /\ sessions'[i].session = sessions[i].session
        /\ sessions'[i].cred = sessions[i].cred
        /\ sessions[i].revoked => sessions'[i].revoked
        /\ sessions[i].session = history[c].session => sessions'[i].revoked
  BY <1>1, <1>4 DEF DetectReplay, Revoked, Exists, SessionRow
<1>6. Numbered'
  BY <1>1, <1>3, <1>4, <1>5 DEF Tokens, Numbered
<1>7. Distinct'
  BY <1>5 DEF Tokens, Distinct, Exists
<1>8. OneLiveToken'
  BY <1>3, <1>5 DEF Tokens, OneLiveToken, Exists
<1>9. ReplayEndsSession'
  <2> SUFFICES ASSUME NEW d \in Credential, NEW i \in RowId,
                      history'[d].reused,
                      sessions'[i].session = history'[d].session
               PROVE  sessions'[i].revoked
    BY DEF ReplayEndsSession
  <2>1. CASE d = c
    BY <2>1, <1>3, <1>5
  <2>2. CASE d # c
    BY <2>2, <1>3, <1>5 DEF Tokens, ReplayEndsSession
  <2> QED
    BY <2>1, <2>2
<1>10. EndedKept
  BY <1>1, <1>5 DEF EndedKept, Ended
<1>11. RedeemedKept
  BY <1>3 DEF RedeemedKept
<1> QED
  BY <1>6, <1>7, <1>8, <1>9, <1>10, <1>11 DEF Tokens, TokensKept

LEMMA EraseKeepsTokens ==
    ASSUME TypeOK, Erase
    PROVE  TokensKept
<1>1. /\ \A i \in RowId : sessions'[i] = NoSession
      /\ \A c \in Credential : history'[c] = NoHistory
      /\ minted' = minted /\ minted.cred \in Nat
      /\ NoSession.session = 0 /\ NoHistory.session = 0 /\ ~NoHistory.reused
  BY BoundAssumption DEF TypeOK, Erase, NoSession, NoHistory
<1>2. Numbered' /\ Distinct' /\ OneLiveToken' /\ ReplayEndsSession'
  BY <1>1 DEF Numbered, Distinct, OneLiveToken, ReplayEndsSession, Exists
<1>3. EndedKept
  BY <1>1 DEF EndedKept, Ended, Credential
<1>4. RedeemedKept
  BY <1>1 DEF RedeemedKept
<1> QED
  BY <1>2, <1>3, <1>4 DEF Tokens, TokensKept

\* The first token of a session: both are new.
LEMMA OpensKeepsTokens ==
    ASSUME TypeOK, Tokens, NEW password, Opens(password), minted'.cred = Fresh
    PROVE  TokensKept
<1>1. PICK i \in RowId :
        /\ sessions'[i] \in {NoSession, OpenedSession(password)}
        /\ \A j \in RowId \ {i} : Shrunk(sessions[j], sessions'[j])
  BY DEF Opens
<1>2. /\ \A j \in RowId : sessions[j] \in SessionRow
      /\ \A c \in Credential : history[c] \in HistoryRow
      /\ minted.cred \in Nat /\ Fresh \in Credential /\ Fresh > minted.cred
      /\ Fresh = minted.cred + 1 /\ Fresh # 0
      /\ NoSession.session = 0 /\ NoHistory.session = 0
      /\ ~NoHistory.reused /\ ~NoHistory.used
  BY BoundAssumption DEF TypeOK, NoSession, NoHistory, Opens, Fresh, Credential
<1>3. /\ history'[Fresh].session = Fresh
      /\ ~history'[Fresh].used /\ ~history'[Fresh].reused
      /\ \A c \in Credential \ {Fresh} : history'[c] = history[c]
  BY <1>2 DEF TypeOK, Opens, NoHistory
<1>4. history[Fresh] = NoHistory
  BY <1>2 DEF Tokens, Numbered
<1>5. /\ OpenedSession(password).session = Fresh
      /\ OpenedSession(password).cred = Fresh
  BY DEF OpenedSession
<1>6. /\ \/ sessions'[i].session = 0
         \/ sessions'[i].session = Fresh /\ sessions'[i].cred = Fresh
      /\ \A j \in RowId \ {i} :
            \/ sessions'[j].session = 0
            \/ /\ sessions'[j].session = sessions[j].session
               /\ sessions'[j].session <= minted.cred
               /\ sessions'[j].cred = sessions[j].cred
               /\ sessions[j].revoked => sessions'[j].revoked
               /\ Exists(sessions[j])
  BY <1>1, <1>2, <1>5 DEF Shrunk, Tokens, Numbered
<1>7. \A c \in Credential \ {Fresh} :
        history[c].session <= minted.cred
  BY DEF Tokens, Numbered
<1>8. Numbered'
  <2>1. \A j \in RowId : sessions'[j].session <= minted'.cred
    BY <1>2, <1>6 DEF TypeOK, SessionRow, Credential
  <2>2. \A c \in Credential : /\ history'[c].session <= minted'.cred
                              /\ c > minted'.cred => history'[c] = NoHistory
                              /\ history'[c].session = 0 => history'[c] = NoHistory
    BY <1>2, <1>3 DEF Tokens, Numbered, Credential, HistoryRow
  <2> QED
    BY <2>1, <2>2 DEF Numbered
<1>9. Distinct'
  BY <1>2, <1>6 DEF Tokens, Distinct, Exists
<1>10. OneLiveToken'
  <2> SUFFICES ASSUME NEW j \in RowId, NEW c \in Credential,
                      sessions'[j].session # 0,
                      history'[c].session = sessions'[j].session
               PROVE  ~history'[c].used <=> sessions'[j].cred = c
    BY DEF OneLiveToken, Exists
  <2>1. CASE c = Fresh
    BY <2>1, <1>2, <1>3, <1>6
  <2>2. CASE c # Fresh
    <3>1. j # i /\ history'[c] = history[c] /\ Exists(sessions[j])
      BY <2>2, <1>2, <1>3, <1>6, <1>7 DEF HistoryRow, Credential
    <3> QED
      BY <3>1, <1>6 DEF Tokens, OneLiveToken
  <2> QED
    BY <2>1, <2>2
<1>11. ReplayEndsSession'
  <2> SUFFICES ASSUME NEW c \in Credential, NEW j \in RowId,
                      history'[c].reused,
                      sessions'[j].session = history'[c].session
               PROVE  sessions'[j].revoked
    BY DEF ReplayEndsSession
  <2>1. c # Fresh /\ history'[c] = history[c]
    BY <1>3
  <2>2. history[c].session # 0
    BY <2>1, <1>2 DEF Tokens, Numbered
  <2>3. j # i /\ Exists(sessions[j])
    BY <2>1, <2>2, <1>2, <1>6, <1>7 DEF HistoryRow, Credential
  <2> QED
    BY <2>1, <2>2, <2>3, <1>6 DEF Tokens, ReplayEndsSession
<1>12. EndedKept
  BY <1>2, <1>6 DEF EndedKept, Ended, Credential
<1>13. RedeemedKept
  BY <1>2, <1>3, <1>4 DEF RedeemedKept
<1> QED
  BY <1>8, <1>9, <1>10, <1>11, <1>12, <1>13 DEF Tokens, TokensKept

\* The next token of a session takes the place of the one it accepted.
LEMMA ExchangeKeepsTokens ==
    ASSUME TypeOK, Tokens, NEW c \in Credential, Exchange(c)
    PROVE  TokensKept
<1>1. PICK i \in RowId :
        SessionOf(c, i) /\ sessions' = [sessions EXCEPT ![i].cred = Fresh]
  BY DEF Exchange
<1>2. /\ \A j \in RowId : sessions[j] \in SessionRow
      /\ \A d \in Credential : history[d] \in HistoryRow
      /\ minted.cred \in Nat /\ Fresh \in Credential
      /\ Fresh = minted.cred + 1 /\ Fresh > minted.cred /\ minted'.cred = Fresh
      /\ ~NoHistory.reused /\ ~NoHistory.used
      /\ history[c].session # 0 /\ ~history[c].used
  BY BoundAssumption, FreshType DEF TypeOK, NoHistory, Exchange, Fresh
<1>3. history[Fresh] = NoHistory /\ c # Fresh
  BY <1>2 DEF Tokens, Numbered, NoHistory
<1>4. /\ history'[c].used /\ history'[c].session = history[c].session
      /\ history'[c].reused = history[c].reused
      /\ ~history'[Fresh].used /\ ~history'[Fresh].reused
      /\ history'[Fresh].session = history[c].session
      /\ \A d \in Credential \ {c, Fresh} : history'[d] = history[d]
  BY <1>2, <1>3 DEF TypeOK, Exchange, NoHistory, HistoryRow
<1>5. /\ sessions'[i].cred = Fresh
      /\ sessions[i].cred = c /\ ~sessions[i].revoked /\ Exists(sessions[i])
      /\ sessions[i].session = history[c].session
      /\ \A j \in RowId \ {i} : sessions'[j] = sessions[j]
      /\ \A j \in RowId : /\ sessions'[j].session = sessions[j].session
                          /\ sessions'[j].revoked = sessions[j].revoked
  BY <1>1, <1>2 DEF SessionOf, Live, TypeOK, SessionRow
<1>6. \A j \in RowId \ {i} : sessions[j].session # history[c].session
  BY <1>5 DEF Tokens, Distinct
<1>7. ~history[c].reused
  BY <1>5 DEF Tokens, ReplayEndsSession
<1>8. Numbered'
  <2>1. \A j \in RowId : sessions'[j].session <= minted'.cred
    BY <1>2, <1>5 DEF Tokens, Numbered, SessionRow, Credential
  <2>2. \A d \in Credential : /\ history'[d].session <= minted'.cred
                              /\ d > minted'.cred => history'[d] = NoHistory
                              /\ history'[d].session = 0 => history'[d] = NoHistory
    <3> SUFFICES ASSUME NEW d \in Credential
                 PROVE  /\ history'[d].session <= minted'.cred
                        /\ d > minted'.cred => history'[d] = NoHistory
                        /\ history'[d].session = 0 => history'[d] = NoHistory
      OBVIOUS
    <3>0. \A e \in Credential : /\ history[e].session <= minted.cred
                                /\ history[e].session \in Nat
                                /\ e > minted.cred => history[e] = NoHistory
                                /\ history[e].session = 0 => history[e] = NoHistory
                                /\ e \in Nat
      BY <1>2 DEF Tokens, Numbered, HistoryRow, Credential
    <3>1. CASE d \in {c, Fresh}
      <4>1. history'[d].session = history[c].session
        BY <3>1, <1>4
      <4>2. d <= Fresh
        BY <3>0, <3>1, <1>2, <1>3 DEF NoHistory
      <4> QED
        BY <4>1, <4>2, <3>0, <1>2
    <3>2. CASE d \notin {c, Fresh}
      BY <3>2, <1>2, <1>4, <3>0
    <3> QED
      BY <3>1, <3>2
  <2> QED
    BY <2>1, <2>2 DEF Numbered
<1>9. Distinct'
  BY <1>5 DEF Tokens, Distinct, Exists
<1>10. OneLiveToken'
  <2> SUFFICES ASSUME NEW j \in RowId, NEW d \in Credential,
                      sessions'[j].session # 0,
                      history'[d].session = sessions'[j].session
               PROVE  ~history'[d].used <=> sessions'[j].cred = d
    BY DEF OneLiveToken, Exists
  <2>1. CASE j = i /\ d \in {c, Fresh}
    BY <2>1, <1>3, <1>4, <1>5
  <2>2. CASE j = i /\ d \notin {c, Fresh}
    BY <2>2, <1>4, <1>5 DEF Tokens, OneLiveToken
  <2>3. CASE j # i /\ d \in {c, Fresh}
    BY <2>3, <1>4, <1>5, <1>6
  <2>4. CASE j # i /\ d \notin {c, Fresh}
    BY <2>4, <1>4, <1>5 DEF Tokens, OneLiveToken, Exists
  <2> QED
    BY <2>1, <2>2, <2>3, <2>4
<1>11. ReplayEndsSession'
  BY <1>4, <1>5, <1>7 DEF Tokens, ReplayEndsSession
<1>12. EndedKept
  BY <1>2, <1>5 DEF EndedKept, Ended, Credential
<1>13. RedeemedKept
  BY <1>2, <1>3, <1>4 DEF RedeemedKept
<1> QED
  BY <1>8, <1>9, <1>10, <1>11, <1>12, <1>13 DEF Tokens, TokensKept

-----------------------------------------------------------------------------
(***************************************************************************)
(* Passwords and pending deletions.                                        *)
(***************************************************************************)

\* Every account has a password.
Registered == user.password = 0 => user = NoAccount

AccountInv == Registered /\ SessionsFollowPassword /\ PendingMeansSignedOut

LEMMA SamePasswordSteps ==
    ASSUME TypeOK,
           \/ sessions' = sessions
           \/ sessions' = Purged(sessions)
           \/ \E h \in Handlers : TurnAway(h)
           \/ \E h \in Handlers, rows \in SUBSET RowId : Revoke(h, rows)
           \/ \E c \in Credential : DetectReplay(c)
           \/ \E i \in RowId : Expire(i)
    PROVE  SamePasswords
<1>1. \A i \in RowId : sessions[i] \in SessionRow
  BY DEF TypeOK
<1>2. \A i \in RowId : Revoked(sessions[i]).password = sessions[i].password
  BY <1>1 DEF Revoked, SessionRow
<1>3. CASE sessions' = sessions
  BY <1>3 DEF SamePasswords
<1>4. CASE sessions' = Purged(sessions)
  BY <1>4 DEF SamePasswords, Purged
<1>5. CASE \E h \in Handlers : TurnAway(h)
  BY <1>5 DEF SamePasswords, TurnAway, TypeOK
<1>6. CASE \E h \in Handlers, rows \in SUBSET RowId : Revoke(h, rows)
  BY <1>2, <1>6 DEF SamePasswords, Revoke
<1>7. CASE \E c \in Credential : DetectReplay(c)
  BY <1>2, <1>7 DEF SamePasswords, DetectReplay
<1>8. CASE \E i \in RowId : Expire(i)
  BY <1>1, <1>8 DEF SamePasswords, Expire, TypeOK, SessionRow
<1> QED
  BY <1>3, <1>4, <1>5, <1>6, <1>7, <1>8

LEMMA ShrinksKeepsAccount ==
    ASSUME TypeOK, AccountInv, Shrinks, SamePasswords,
           user'.password = user.password,
           user'.requested # 0 => user.requested # 0,
           user' = NoAccount <=> user = NoAccount,
           \A c \in Credential : history'[c].session = history[c].session
    PROVE  AccountInv'
<1>1. \A i \in RowId : Exists(sessions'[i]) =>
        Exists(sessions[i]) /\ sessions'[i].password = sessions[i].password
  BY DEF Shrinks, Shrunk, SamePasswords, Exists, NoSession
<1>2. Registered'
  BY DEF AccountInv, Registered
<1>3. SessionsFollowPassword'
  BY <1>1 DEF AccountInv, SessionsFollowPassword, Exists
<1>4. PendingMeansSignedOut'
  BY <1>1 DEF AccountInv, PendingMeansSignedOut, Exists
<1> QED
  BY <1>2, <1>3, <1>4 DEF AccountInv

LEMMA NothingKeepsAccount ==
    ASSUME sessions' = [i \in RowId |-> NoSession],
           \/ user' # NoAccount /\ user'.password # 0
           \/ user' = NoAccount /\ history' = [c \in Credential |-> NoHistory]
    PROVE  AccountInv'
<1>1. \A i \in RowId : ~Exists(sessions'[i])
  BY DEF Exists, NoSession
<1>2. NoHistory.session = 0
  BY DEF NoHistory
<1> QED
  BY <1>1, <1>2 DEF AccountInv, Registered, SessionsFollowPassword,
     PendingMeansSignedOut, Exists

LEMMA OpensKeepsAccount ==
    ASSUME TypeOK, AccountInv, Opens(user'.password), user'.requested = 0,
           user'.password # 0,
           user = NoAccount \/ user'.password = user.password
    PROVE  AccountInv'
<1>1. PICK i \in RowId :
        /\ sessions'[i] \in {NoSession, OpenedSession(user'.password)}
        /\ \A j \in RowId \ {i} :
              /\ Shrunk(sessions[j], sessions'[j])
              /\ SamePassword(sessions[j], sessions'[j])
  BY DEF Opens
<1>2. user' # NoAccount
  BY DEF NoAccount
<1>3. \A j \in RowId : Exists(sessions'[j]) =>
        sessions'[j].password = user'.password
  <2> SUFFICES ASSUME NEW j \in RowId, Exists(sessions'[j])
               PROVE  sessions'[j].password = user'.password
    OBVIOUS
  <2>1. CASE j = i
    BY <1>1, <2>1 DEF Exists, NoSession, OpenedSession
  <2>2. CASE j # i
    <3>1. Exists(sessions[j]) /\ sessions'[j].password = sessions[j].password
      BY <1>1, <2>2 DEF Shrunk, SamePassword, Exists, NoSession
    <3>2. user # NoAccount /\ sessions[j].password = user.password
      BY <3>1 DEF AccountInv, PendingMeansSignedOut, SessionsFollowPassword
    <3> QED
      BY <3>1, <3>2
  <2> QED
    BY <2>1, <2>2
<1> QED
  BY <1>2, <1>3 DEF AccountInv, Registered, SessionsFollowPassword,
     PendingMeansSignedOut, Exists

LEMMA ExchangeKeepsAccount ==
    ASSUME TypeOK, AccountInv, NEW c \in Credential, Exchange(c)
    PROVE  AccountInv'
<1>1. PICK i \in RowId :
        SessionOf(c, i) /\ sessions' = [sessions EXCEPT ![i].cred = Fresh]
  BY DEF Exchange
<1>2. \A j \in RowId : /\ Exists(sessions'[j]) => Exists(sessions[j])
                       /\ sessions'[j].password = sessions[j].password
  BY <1>1 DEF TypeOK, SessionRow, Exists
<1>3. Exists(sessions[i])
  BY <1>1 DEF SessionOf, Live
<1>4. user' = user /\ user # NoAccount /\ user.requested = 0
  BY <1>3 DEF Exchange, AccountInv, PendingMeansSignedOut
<1> QED
  BY <1>2, <1>4 DEF AccountInv, Registered, SessionsFollowPassword,
     PendingMeansSignedOut, Exists

-----------------------------------------------------------------------------
(***************************************************************************)
(* The fence.                                                              *)
(***************************************************************************)

\* What a fenced handler may rely on, by the route it serves.
Routes ==
    \A h \in Handlers : handler[h].step = "fenced" =>
        \/ handler[h].route = "register" /\ user = NoAccount
        \/ handler[h].route = "login" /\ user # NoAccount /\ user.requested = 0
        \/ handler[h].route \in {"cancel", "reset"} /\ user # NoAccount
        \/ /\ handler[h].route \in {"change", "delete"}
           /\ handler[h].row # 0 /\ Exists(sessions[handler[h].row])

AuthorityInv == AuthorityHolds /\ Routes

LEMMA NobodyFenced ==
    ASSUME TypeOK, AuthorityInv, lock = NoHandler
    PROVE  \A h \in Handlers : handler[h].step # "fenced"
BY HandlerAssumption DEF AuthorityInv, AuthorityHolds

LEMMA UnfencedKeepsAuthority ==
    ASSUME \A h \in Handlers : handler'[h].step # "fenced"
    PROVE  AuthorityInv'
BY DEF AuthorityInv, AuthorityHolds, Routes

\* A step that takes the lock for itself and ends without it.
LEMMA AloneKeepsAuthority ==
    ASSUME TypeOK, AuthorityInv, lock = NoHandler,
           handler' = handler \/ \E h \in Handlers : Finish(h)
    PROVE  AuthorityInv'
<1>1. \A g \in Handlers : handler[g].step # "fenced"
  BY NobodyFenced
<1>2. CASE handler' = handler
  BY <1>1, <1>2, UnfencedKeepsAuthority
<1>3. CASE \E h \in Handlers : Finish(h)
  <2>1. PICK h \in Handlers : handler' = [handler EXCEPT ![h] = Idle]
    BY <1>3 DEF Finish
  <2>2. \A g \in Handlers : handler'[g].step # "fenced"
    BY <1>1, <2>1 DEF Idle, TypeOK
  <2> QED
    BY <2>2, UnfencedKeepsAuthority
<1> QED
  BY <1>2, <1>3

\* A handler that has the lock ends.
LEMMA EndKeepsAuthority ==
    ASSUME TypeOK, AuthorityInv, NEW h \in Handlers,
           handler[h].step = "fenced", Finish(h)
    PROVE  AuthorityInv'
<1>1. \A g \in Handlers : handler[g].step = "fenced" => g = h
  BY DEF AuthorityInv, AuthorityHolds
<1>2. \A g \in Handlers : handler'[g].step # "fenced"
  BY <1>1 DEF Finish, Idle, TypeOK
<1> QED
  BY <1>2, UnfencedKeepsAuthority

\* A step that needs no lock disturbs nobody who has it.
LEMMA BystanderKeepsAuthority ==
    ASSUME TypeOK, AuthorityInv, lock' = lock,
           \A g \in Handlers :
              handler'[g].step = "fenced" => handler'[g] = handler[g],
           Captured(user') = Captured(user),
           user' = NoAccount <=> user = NoAccount,
           user'.requested = user.requested,
           \A i \in RowId : /\ sessions'[i].session = sessions[i].session
                            /\ sessions'[i].cred = sessions[i].cred
                            /\ sessions'[i].revoked = sessions[i].revoked
    PROVE  AuthorityInv'
<1> SUFFICES ASSUME NEW g \in Handlers, handler'[g].step = "fenced"
             PROVE  /\ lock' = g
                    /\ Captured(user') = handler'[g].expected
                    /\ handler'[g].row # 0 =>
                          /\ sessions'[handler'[g].row].cred = handler'[g].cred
                          /\ ~sessions'[handler'[g].row].revoked
                    /\ \/ handler'[g].route = "register" /\ user' = NoAccount
                       \/ /\ handler'[g].route = "login" /\ user' # NoAccount
                          /\ user'.requested = 0
                       \/ handler'[g].route \in {"cancel", "reset"} /\ user' # NoAccount
                       \/ /\ handler'[g].route \in {"change", "delete"}
                          /\ handler'[g].row # 0
                          /\ Exists(sessions'[handler'[g].row])
  BY DEF AuthorityInv, AuthorityHolds, Routes, Captured, Exists
<1>1. handler'[g] = handler[g] /\ handler[g].step = "fenced"
  BY Zenon
<1>2. handler[g].row # 0 => handler[g].row \in RowId
  BY DEF TypeOK, Handler
<1>3. /\ lock = g /\ Captured(user) = handler[g].expected
      /\ handler[g].row # 0 =>
            /\ sessions[handler[g].row].cred = handler[g].cred
            /\ ~sessions[handler[g].row].revoked
  BY <1>1 DEF AuthorityInv, AuthorityHolds
<1>4. \/ handler[g].route = "register" /\ user = NoAccount
      \/ handler[g].route = "login" /\ user # NoAccount /\ user.requested = 0
      \/ handler[g].route \in {"cancel", "reset"} /\ user # NoAccount
      \/ /\ handler[g].route \in {"change", "delete"}
         /\ handler[g].row # 0 /\ Exists(sessions[handler[g].row])
  BY <1>1 DEF AuthorityInv, Routes
<1> QED
  BY <1>1, <1>2, <1>3, <1>4 DEF Exists

LEMMA FenceKeepsAuthority ==
    ASSUME TypeOK, AuthorityInv, NEW h \in Handlers,
           NEW route \in {"login", "register", "cancel", "reset", "change", "delete"},
           Fence(h, route)
    PROVE  AuthorityInv'
<1>1. \A g \in Handlers : handler[g].step # "fenced"
  BY NobodyFenced DEF Fence
<1>2. handler[h] \in Handler
  BY DEF TypeOK
<1>3. /\ handler'[h].route = route
      /\ handler'[h].expected = handler[h].expected
      /\ handler'[h].row = handler[h].row /\ handler'[h].cred = handler[h].cred
      /\ \A g \in Handlers \ {h} : handler'[g] = handler[g]
  BY <1>2 DEF TypeOK, Fence, Handler
<1>4. user' = user /\ sessions' = sessions /\ lock' = h
  BY DEF Fence
<1>5. AuthorityHolds'
  <2>1. Captured(user) = handler[h].expected
    BY DEF Fence, AccountUnchanged
  <2>2. handler[h].row # 0 => /\ sessions[handler[h].row].cred = handler[h].cred
                              /\ ~sessions[handler[h].row].revoked
    BY DEF Fence, SessionUnchanged, Live
  <2>3. Captured(user)' = Captured(user)
    BY <1>4 DEF Captured
  <2> SUFFICES ASSUME NEW g \in Handlers, handler'[g].step = "fenced"
               PROVE  /\ lock' = g
                      /\ Captured(user)' = handler'[g].expected
                      /\ handler'[g].row # 0 =>
                            /\ sessions'[handler'[g].row].cred = handler'[g].cred
                            /\ ~sessions'[handler'[g].row].revoked
    BY Zenon DEF AuthorityHolds
  <2>4. g = h
    BY <1>1, <1>3
  <2> QED
    BY <1>3, <1>4, <2>1, <2>2, <2>3, <2>4
<1>6. Routes'
  BY <1>1, <1>3, <1>4 DEF Routes, Fence, SessionUnchanged, Live, Exists
<1> QED
  BY <1>5, <1>6 DEF AuthorityInv

-----------------------------------------------------------------------------
(***************************************************************************)
(* The inductive invariant.                                                *)
(***************************************************************************)
IInv == TypeOK /\ Tokens /\ AccountInv /\ AuthorityInv

\* The invariant holds again, and no ended session or used token came back.
Preserved == TypeOK' /\ TokensKept /\ AccountInv' /\ AuthorityInv'

LEMMA InitEstablishes ==
    ASSUME Init
    PROVE  IInv
<1>1. \/ user = NoAccount
      \/ user = [password |-> 1, legacy |-> TRUE, requested |-> 0, due |-> FALSE]
  BY DEF Init, NoAccount
<1>2. /\ user \in AccountRow /\ user.requested = 0 /\ ~user.due
      /\ user.password = 0 => user = NoAccount
  <2>1. CASE user = NoAccount
    BY <2>1, ConstantTypes DEF NoAccount
  <2>2. CASE user = [password |-> 1, legacy |-> TRUE, requested |-> 0, due |-> FALSE]
    BY <2>2, BoundAssumption DEF AccountRow
  <2> QED
    BY <1>1, <2>1, <2>2
<1>3. minted \in [cred : 0..MaxCredential, password : 0..MaxPassword,
                  request : 0..MaxRequest, failures : 0..MaxFailures]
  BY BoundAssumption DEF Init
<1>4. TypeOK
  BY <1>2, <1>3, ConstantTypes DEF Init, TypeOK
<1>5. Tokens
  BY DEF Init, Tokens, Numbered, Distinct, OneLiveToken, ReplayEndsSession,
     Exists, NoSession, NoHistory, RowId, Credential
<1>6. AccountInv
  <2>1. /\ \A i \in RowId : ~Exists(sessions[i])
        /\ \A c \in Credential : history[c].session = 0
    BY DEF Init, Exists, NoSession, NoHistory
  <2> QED
    BY <1>2, <2>1 DEF AccountInv, Registered, SessionsFollowPassword,
       PendingMeansSignedOut
<1>7. AuthorityInv
  BY DEF Init, AuthorityInv, AuthorityHolds, Routes, Idle
<1> QED
  BY <1>4, <1>5, <1>6, <1>7 DEF IInv

\* Steps that write nothing but what a handler, the job or the clock knows.
LEMMA QuietPreserves ==
    ASSUME IInv, sessions' = sessions, history' = history,
           user' \in AccountRow, user'.due => user'.requested # 0,
           Captured(user') = Captured(user),
           user' = NoAccount <=> user = NoAccount,
           lock' = lock, finalizer' \in {"idle", "picked", "found"},
           handler' \in [Handlers -> Handler],
           \A g \in Handlers :
              handler'[g].step = "fenced" => handler'[g] = handler[g],
           minted' \in [cred : 0..MaxCredential, password : 0..MaxPassword,
                        request : 0..MaxRequest, failures : 0..MaxFailures],
           minted'.cred = minted.cred
    PROVE  Preserved
<1>1. Shrinks /\ SamePasswords
  BY UnchangedShrinks DEF IInv, SamePasswords
<1>2. user'.password = user.password /\ user'.requested = user.requested
  <2>1. \A account \in AccountRow :
          /\ Captured(account).password = account.password
          /\ Captured(account).requested = account.requested
    BY DEF Captured, AccountRow
  <2> QED
    BY <2>1 DEF IInv, TypeOK
<1>3. TypeOK'
  BY <1>1, ShrinksType DEF IInv, TypeOK, Written, Exists
<1>4. TokensKept
  BY <1>1, ShrinksKeepsTokens DEF IInv
<1>5. AccountInv'
  BY <1>1, <1>2, ShrinksKeepsAccount DEF IInv
<1>6. AuthorityInv'
  BY <1>2, BystanderKeepsAuthority DEF IInv
<1> QED
  BY <1>3, <1>4, <1>5, <1>6 DEF Preserved

\* What a handler has read.
LEMMA ReadsPreserve ==
    ASSUME IInv, NEW h \in Handlers,
           \/ ReadByEmail(h) \/ ReadUnregistered(h) \/ ReadAccount(h)
           \/ Refuse(h) \/ \E i \in RowId : ReadSession(h, i)
    PROVE  Preserved
<1>1. /\ UNCHANGED <<user, sessions, history, lock, finalizer, minted>>
      /\ TypeOK
  BY DEF IInv, ReadByEmail, ReadUnregistered, ReadAccount, Refuse, ReadSession
<1>2. PICK new \in Handler :
        new.step # "fenced" /\ handler' = [handler EXCEPT ![h] = new]
  <2>1. CASE ReadByEmail(h)
    <3>1. [Idle EXCEPT !.step = "checked", !.expected = Captured(user)] \in Handler
      BY <1>1, ConstantTypes, CapturedType DEF TypeOK, Idle, Handler
    <3> QED
      BY <2>1, <3>1 DEF ReadByEmail, Idle
  <2>2. CASE ReadUnregistered(h)
    <3>1. [Idle EXCEPT !.step = "checked"] \in Handler
      BY ConstantTypes DEF Idle, Handler
    <3> QED
      BY <2>2, <3>1 DEF ReadUnregistered, Idle
  <2>3. CASE ReadAccount(h)
    <3>1. [handler[h] EXCEPT !.step = "checked", !.expected = Captured(user)]
            \in Handler
      BY <1>1, CapturedType DEF TypeOK, Handler
    <3>2. handler' = [handler EXCEPT ![h] =
            [handler[h] EXCEPT !.step = "checked", !.expected = Captured(user)]]
      BY <2>3 DEF ReadAccount
    <3>3. [handler[h] EXCEPT !.step = "checked", !.expected = Captured(user)].step
            # "fenced"
      BY <1>1 DEF TypeOK, Handler
    <3> QED
      BY <3>1, <3>2, <3>3
  <2>4. CASE Refuse(h)
    BY <2>4, ConstantTypes DEF Refuse, Finish, Idle
  <2>5. CASE \E i \in RowId : ReadSession(h, i)
    <3>1. PICK i \in RowId : ReadSession(h, i)
      BY <2>5
    <3>2. [Idle EXCEPT !.step = "token", !.row = i, !.cred = sessions[i].cred]
            \in Handler
      BY <1>1, ConstantTypes DEF TypeOK, SessionRow, Idle, Handler
    <3> QED
      BY <3>1, <3>2 DEF ReadSession, Idle
  <2> QED
    BY <2>1, <2>2, <2>3, <2>4, <2>5
<1>3. /\ handler' \in [Handlers -> Handler]
      /\ \A g \in Handlers :
            handler'[g].step = "fenced" => handler'[g] = handler[g]
  BY <1>1, <1>2 DEF TypeOK
<1> QED
  BY <1>1, <1>3, QuietPreserves DEF TypeOK

LEMMA FencePreserves ==
    ASSUME IInv, NEW h \in Handlers,
           NEW route \in {"login", "register", "cancel", "reset", "change", "delete"},
           Fence(h, route)
    PROVE  Preserved
<1>1. Shrinks /\ SamePasswords
  BY UnchangedShrinks DEF IInv, Fence, SamePasswords
<1>2. handler' \in [Handlers -> Handler]
  <2>1. [handler[h] EXCEPT !.step = "fenced", !.route = route] \in Handler
    BY DEF IInv, TypeOK, Handler
  <2>2. handler' = [handler EXCEPT ![h] =
          [handler[h] EXCEPT !.step = "fenced", !.route = route]]
    BY DEF Fence
  <2> QED
    BY <2>1, <2>2 DEF IInv, TypeOK
<1>3. TypeOK'
  BY <1>2 DEF IInv, TypeOK, Fence, Exists
<1>4. TokensKept
  BY <1>1, ShrinksKeepsTokens DEF IInv, TypeOK, Fence
<1>5. AccountInv'
  BY <1>1, ShrinksKeepsAccount DEF IInv, Fence
<1>6. AuthorityInv'
  BY FenceKeepsAuthority DEF IInv
<1> QED
  BY <1>3, <1>4, <1>5, <1>6 DEF Preserved

LEMMA RollbackPreserves ==
    ASSUME IInv, NEW h \in Handlers, Rollback(h)
    PROVE  Preserved
<1>1. Shrinks /\ SamePasswords
  BY UnchangedShrinks DEF IInv, Rollback, SamePasswords
<1>2. TypeOK'
  BY FinishType DEF IInv, TypeOK, Rollback, Exists
<1>3. TokensKept
  BY <1>1, ShrinksKeepsTokens DEF IInv, TypeOK, Rollback
<1>4. AccountInv'
  BY <1>1, ShrinksKeepsAccount DEF IInv, Rollback
<1>5. AuthorityInv'
  BY EndKeepsAuthority DEF IInv, Rollback
<1> QED
  BY <1>2, <1>3, <1>4, <1>5 DEF Preserved

-----------------------------------------------------------------------------
(***************************************************************************)
(* The transactions behind the fence.                                      *)
(***************************************************************************)
LEMMA CommittingKeeps ==
    ASSUME IInv, NEW h \in Handlers, NEW route, Committing(h, route)
    PROVE  /\ handler' \in [Handlers -> Handler] /\ AuthorityInv'
           /\ lock' = NoHandler /\ finalizer' = finalizer
           /\ handler[h].expected = Captured(user)
           /\ route = "register" => user = NoAccount
           /\ route = "login" => user # NoAccount /\ user.requested = 0
           /\ route \in {"cancel", "reset"} => user # NoAccount
           /\ route \in {"change", "delete"} =>
                 /\ handler[h].row \in RowId
                 /\ Exists(sessions[handler[h].row])
                 /\ user # NoAccount /\ user.requested = 0
<1>1. handler[h].step = "fenced" /\ handler[h].route = route /\ Finish(h)
  BY DEF Committing
<1>2. handler' \in [Handlers -> Handler] /\ AuthorityInv'
  BY <1>1, FinishType, EndKeepsAuthority DEF IInv
<1>3. handler[h].expected = Captured(user)
  BY <1>1 DEF IInv, AuthorityInv, AuthorityHolds
<1>4. \/ route = "register" /\ user = NoAccount
      \/ route = "login" /\ user # NoAccount /\ user.requested = 0
      \/ route \in {"cancel", "reset"} /\ user # NoAccount
      \/ /\ route \in {"change", "delete"}
         /\ handler[h].row # 0 /\ Exists(sessions[handler[h].row])
  BY <1>1 DEF IInv, AuthorityInv, Routes
<1>5. handler[h].row # 0 => handler[h].row \in RowId
  BY DEF IInv, TypeOK, Handler
<1>6. ASSUME NEW i \in RowId, Exists(sessions[i])
      PROVE  user # NoAccount /\ user.requested = 0
  BY <1>6 DEF IInv, AccountInv, PendingMeansSignedOut
<1> QED
  BY <1>2, <1>3, <1>4, <1>5, <1>6 DEF Committing

\* The account of a commit that ends the sessions it writes.
LEMMA WrittenType ==
    ASSUME IInv, sessions' \in [RowId -> SessionRow] /\ Written',
           user' \in AccountRow, user'.due => user'.requested # 0,
           handler' \in [Handlers -> Handler],
           lock' = NoHandler, finalizer' = finalizer,
           history' \in [Credential -> HistoryRow],
           minted' \in [cred : 0..MaxCredential, password : 0..MaxPassword,
                        request : 0..MaxRequest, failures : 0..MaxFailures]
    PROVE  TypeOK'
BY DEF IInv, TypeOK, Written, Exists

LEMMA OpensType ==
    ASSUME TypeOK, NEW password, Opens(password)
    PROVE  /\ sessions' \in [RowId -> SessionRow] /\ Written'
           /\ history' \in [Credential -> HistoryRow]
<1>1. Fresh \in Credential /\ Fresh # 0
  BY BoundAssumption DEF Opens, Credential
<1>2. PICK i \in RowId :
        /\ sessions'[i] \in {NoSession, OpenedSession(password)}
        /\ \A j \in RowId \ {i} : Shrunk(sessions[j], sessions'[j])
  BY DEF Opens
<1>3. \A j \in RowId : Exists(sessions'[j]) \/ sessions'[j] = NoSession
  BY <1>1, <1>2 DEF Shrunk, Exists, OpenedSession
<1>4. [NoHistory EXCEPT !.session = Fresh] \in HistoryRow
  BY <1>1 DEF NoHistory, HistoryRow
<1> QED
  BY <1>1, <1>3, <1>4 DEF Opens, Written, TypeOK

LEMMA CommitLoginPreserves ==
    ASSUME IInv, NEW h \in Handlers, CommitLogin(h)
    PROVE  Preserved
<1>1. /\ handler' \in [Handlers -> Handler] /\ AuthorityInv'
      /\ lock' = NoHandler /\ finalizer' = finalizer
      /\ handler[h].expected = Captured(user)
      /\ user # NoAccount /\ user.requested = 0
  BY CommittingKeeps DEF CommitLogin
<1>2. user \in AccountRow /\ TypeOK
  BY DEF IInv, TypeOK
<1>3. /\ user' \in AccountRow /\ user'.password = user.password
      /\ user'.requested = user.requested /\ user'.due = user.due
      /\ handler[h].expected.password = user.password
  BY <1>1, <1>2 DEF CommitLogin, AccountRow, Captured
<1>4. Opens(user.password)
  BY <1>2, <1>3, IssueOpens DEF CommitLogin, AccountRow
<1>5. /\ minted'.cred = Fresh
      /\ minted' \in [cred : 0..MaxCredential, password : 0..MaxPassword,
                      request : 0..MaxRequest, failures : 0..MaxFailures]
  BY <1>2, <1>4 DEF CommitLogin, TypeOK, Opens, Credential
<1>6. TypeOK'
  BY <1>1, <1>2, <1>3, <1>4, <1>5, OpensType, WrittenType DEF TypeOK
<1>7. TokensKept
  BY <1>4, <1>5, OpensKeepsTokens DEF IInv
<1>8. AccountInv'
  BY <1>1, <1>3, <1>4, OpensKeepsAccount DEF IInv, AccountInv, Registered
<1> QED
  BY <1>1, <1>6, <1>7, <1>8 DEF Preserved

LEMMA CommitRegisterPreserves ==
    ASSUME IInv, NEW h \in Handlers, CommitRegister(h)
    PROVE  Preserved
<1>1. /\ handler' \in [Handlers -> Handler] /\ AuthorityInv'
      /\ lock' = NoHandler /\ finalizer' = finalizer
      /\ user = NoAccount /\ TypeOK
  BY CommittingKeeps DEF CommitRegister, IInv
<1>2. NewPassword \in 0..MaxPassword /\ NewPassword # 0
  BY <1>1, BoundAssumption DEF TypeOK, NewPassword, CommitRegister
<1>3. user' = [password |-> NewPassword, legacy |-> FALSE,
               requested |-> 0, due |-> FALSE]
  BY DEF CommitRegister, NoAccount
<1>4. /\ user' \in AccountRow /\ user'.password = NewPassword
      /\ user'.requested = 0 /\ ~user'.due
  BY <1>2, <1>3, BoundAssumption DEF AccountRow
<1>5. Opens(user'.password)
  BY <1>1, <1>2, <1>4, IssueOpens DEF CommitRegister
<1>6. /\ minted'.cred = Fresh
      /\ minted' \in [cred : 0..MaxCredential, password : 0..MaxPassword,
                      request : 0..MaxRequest, failures : 0..MaxFailures]
  <2>1. minted' = [minted EXCEPT !.cred = Fresh, !.password = NewPassword]
    BY DEF CommitRegister
  <2>2. Fresh \in 0..MaxCredential
    BY <1>5 DEF Opens, Credential
  <2> QED
    BY <1>1, <1>2, <2>1, <2>2 DEF TypeOK
<1>7. TypeOK'
  BY <1>1, <1>4, <1>5, <1>6, OpensType, WrittenType
<1>8. TokensKept
  BY <1>5, <1>6, OpensKeepsTokens DEF IInv
<1>9. AccountInv'
  BY <1>1, <1>2, <1>4, <1>5, OpensKeepsAccount DEF IInv
<1> QED
  BY <1>1, <1>7, <1>8, <1>9 DEF Preserved

LEMMA CommitCancelPreserves ==
    ASSUME IInv, NEW h \in Handlers, CommitCancel(h)
    PROVE  Preserved
<1>1. /\ handler' \in [Handlers -> Handler] /\ AuthorityInv'
      /\ lock' = NoHandler /\ finalizer' = finalizer
      /\ user # NoAccount /\ TypeOK
      /\ UNCHANGED <<sessions, history, minted>>
  BY CommittingKeeps DEF CommitCancel, IInv
<1>2. user' = [password |-> user.password, legacy |-> FALSE,
               requested |-> 0, due |-> FALSE]
  BY DEF CommitCancel, NoAccount
<1>3. /\ user' \in AccountRow /\ user'.password = user.password
      /\ user'.requested = 0 /\ ~user'.due
  BY <1>1, <1>2, BoundAssumption DEF TypeOK, AccountRow
<1>4. user' # NoAccount
  BY <1>1, <1>3 DEF IInv, AccountInv, Registered, NoAccount
<1>5. Shrinks /\ SamePasswords
  BY <1>1, UnchangedShrinks DEF SamePasswords
<1>6. TypeOK'
  BY <1>1, <1>3 DEF TypeOK, Exists
<1>7. TokensKept
  BY <1>1, <1>5, ShrinksKeepsTokens DEF IInv, TypeOK
<1>8. AccountInv'
  BY <1>1, <1>3, <1>4, <1>5, ShrinksKeepsAccount DEF IInv
<1> QED
  BY <1>1, <1>6, <1>7, <1>8 DEF Preserved

\* A reset, a change and a deletion empty the rows of the others.
LEMMA CommitResetPreserves ==
    ASSUME IInv, NEW h \in Handlers, CommitReset(h)
    PROVE  Preserved
<1>1. /\ handler' \in [Handlers -> Handler] /\ AuthorityInv'
      /\ lock' = NoHandler /\ finalizer' = finalizer
      /\ user # NoAccount /\ TypeOK /\ history' = history
  BY CommittingKeeps DEF CommitReset, IInv
<1>2. NewPassword \in 0..MaxPassword /\ NewPassword # 0
  BY <1>1, BoundAssumption DEF TypeOK, NewPassword, CommitReset
<1>3. user' = [user EXCEPT !.password = NewPassword, !.legacy = FALSE]
  BY DEF CommitReset
<1>4. /\ user' \in AccountRow /\ user'.password = NewPassword
      /\ user'.due => user'.requested # 0
  BY <1>1, <1>2, <1>3 DEF TypeOK, AccountRow
<1>5. Shrinks
  BY <1>1, NothingShrinks DEF CommitReset
<1>6. /\ minted'.cred = minted.cred
      /\ minted' \in [cred : 0..MaxCredential, password : 0..MaxPassword,
                      request : 0..MaxRequest, failures : 0..MaxFailures]
  BY <1>1, <1>2 DEF CommitReset, TypeOK
<1>7. TypeOK'
  BY <1>1, <1>4, <1>5, <1>6, ShrinksType, WrittenType DEF TypeOK
<1>8. TokensKept
  BY <1>1, <1>5, <1>6, ShrinksKeepsTokens DEF IInv
<1>9. AccountInv'
  <2>1. user' # NoAccount
    BY <1>2, <1>4 DEF NoAccount
  <2> QED
    BY <1>2, <1>4, <2>1, NothingKeepsAccount DEF CommitReset
<1> QED
  BY <1>1, <1>7, <1>8, <1>9 DEF Preserved

LEMMA CommitDeletePreserves ==
    ASSUME IInv, NEW h \in Handlers, CommitDelete(h)
    PROVE  Preserved
<1>1. /\ handler' \in [Handlers -> Handler] /\ AuthorityInv'
      /\ lock' = NoHandler /\ finalizer' = finalizer
      /\ user # NoAccount /\ TypeOK /\ history' = history
  BY CommittingKeeps DEF CommitDelete, IInv
<1>2. minted.request + 1 \in 0..MaxRequest /\ minted.request + 1 # 0
  BY <1>1, BoundAssumption DEF TypeOK, CommitDelete
<1>3. user' = [user EXCEPT !.requested = minted.request + 1, !.due = FALSE]
  BY DEF CommitDelete
<1>4. /\ user' \in AccountRow /\ user'.password = user.password
      /\ ~user'.due
  BY <1>1, <1>2, <1>3 DEF TypeOK, AccountRow
<1>5. Shrinks
  BY <1>1, NothingShrinks DEF CommitDelete
<1>6. /\ minted'.cred = minted.cred
      /\ minted' \in [cred : 0..MaxCredential, password : 0..MaxPassword,
                      request : 0..MaxRequest, failures : 0..MaxFailures]
  BY <1>1, <1>2 DEF CommitDelete, TypeOK
<1>7. TypeOK'
  BY <1>1, <1>4, <1>5, <1>6, ShrinksType, WrittenType DEF TypeOK
<1>8. TokensKept
  BY <1>1, <1>5, <1>6, ShrinksKeepsTokens DEF IInv
<1>9. AccountInv'
  <2>1. user.password # 0
    BY <1>1 DEF IInv, AccountInv, Registered
  <2>2. user' # NoAccount
    BY <1>4, <2>1 DEF NoAccount
  <2> QED
    BY <1>4, <2>1, <2>2, NothingKeepsAccount DEF CommitDelete
<1> QED
  BY <1>1, <1>7, <1>8, <1>9 DEF Preserved

LEMMA CommitChangePreserves ==
    ASSUME IInv, NEW h \in Handlers, CommitChange(h)
    PROVE  Preserved
<1>1. /\ handler' \in [Handlers -> Handler] /\ AuthorityInv'
      /\ lock' = NoHandler /\ finalizer' = finalizer
      /\ handler[h].row \in RowId /\ Exists(sessions[handler[h].row])
      /\ user # NoAccount /\ user.requested = 0
      /\ TypeOK /\ history' = history
  BY CommittingKeeps DEF CommitChange, IInv
<1>2. NewPassword \in 0..MaxPassword /\ NewPassword # 0
  BY <1>1, BoundAssumption DEF TypeOK, NewPassword, CommitChange
<1>3. user' = [user EXCEPT !.password = NewPassword, !.legacy = FALSE]
  BY DEF CommitChange
<1>4. /\ user' \in AccountRow /\ user'.password = NewPassword
      /\ user'.requested = 0 /\ ~user'.due
  BY <1>1, <1>2, <1>3 DEF TypeOK, AccountRow
<1>5. Shrinks
  BY <1>1, ChangeShrinks
<1>6. /\ minted'.cred = minted.cred
      /\ minted' \in [cred : 0..MaxCredential, password : 0..MaxPassword,
                      request : 0..MaxRequest, failures : 0..MaxFailures]
  BY <1>1, <1>2 DEF CommitChange, TypeOK
<1>7. TypeOK'
  BY <1>1, <1>4, <1>5, <1>6, ShrinksType, WrittenType DEF TypeOK
<1>8. TokensKept
  BY <1>1, <1>5, <1>6, ShrinksKeepsTokens DEF IInv
<1>9. AccountInv'
  <2>1. user' # NoAccount
    BY <1>2, <1>4 DEF NoAccount
  <2>2. \A i \in RowId : Exists(sessions'[i]) =>
          sessions'[i].password = NewPassword
    BY <1>1 DEF CommitChange, TypeOK, SessionRow, Exists, NoSession
  <2> QED
    BY <1>2, <1>4, <2>1, <2>2 DEF AccountInv, Registered,
       SessionsFollowPassword, PendingMeansSignedOut, Exists
<1> QED
  BY <1>1, <1>7, <1>8, <1>9 DEF Preserved

-----------------------------------------------------------------------------
(***************************************************************************)
(* The other steps.                                                        *)
(***************************************************************************)

\* Steps that take the lock for themselves and end or revoke sessions.
LEMMA ShrinkingPreserves ==
    ASSUME IInv, Shrinks, SamePasswords, lock = NoHandler,
           handler' = handler \/ \E h \in Handlers : Finish(h),
           UNCHANGED <<user, history, lock, minted>>,
           finalizer' \in {"idle", "picked", "found"}
    PROVE  Preserved
<1>1. handler' \in [Handlers -> Handler]
  BY FinishType DEF IInv, TypeOK
<1>2. TypeOK'
  BY <1>1, ShrinksType DEF IInv, TypeOK, Written, Exists
<1>3. TokensKept
  BY ShrinksKeepsTokens DEF IInv, TypeOK
<1>4. AccountInv'
  BY ShrinksKeepsAccount DEF IInv
<1>5. AuthorityInv'
  BY AloneKeepsAuthority DEF IInv
<1> QED
  BY <1>2, <1>3, <1>4, <1>5 DEF Preserved

LEMMA TurnAwayPreserves ==
    ASSUME IInv, NEW h \in Handlers, TurnAway(h)
    PROVE  Preserved
<1>1. Shrinks /\ SamePasswords
  BY TurnAwayShrinks, SamePasswordSteps DEF IInv
<1>2. Finish(h) /\ lock = NoHandler /\ UNCHANGED <<user, history, lock, minted>>
      /\ finalizer' \in {"idle", "picked", "found"}
  BY DEF TurnAway, IInv, TypeOK
<1> QED
  BY <1>1, <1>2, ShrinkingPreserves

LEMMA RevokePreserves ==
    ASSUME IInv, NEW h \in Handlers, NEW rows \in SUBSET RowId, Revoke(h, rows)
    PROVE  Preserved
<1>1. Shrinks /\ SamePasswords
  BY RevokeShrinks, SamePasswordSteps DEF IInv
<1>2. Finish(h) /\ lock = NoHandler /\ UNCHANGED <<user, history, lock, minted>>
      /\ finalizer' \in {"idle", "picked", "found"}
  BY DEF Revoke, IInv, TypeOK
<1> QED
  BY <1>1, <1>2, ShrinkingPreserves

LEMMA RevocationsPreserve ==
    ASSUME IInv, NEW h \in Handlers,
           Logout(h) \/ RevokeSession(h) \/ RevokeOthers(h)
    PROVE  Preserved
<1>1. CASE Logout(h)
  <2>1. {handler[h].row} \in SUBSET RowId
    BY <1>1 DEF Logout, Revoke, IInv, TypeOK, Handler
  <2> QED
    BY <1>1, <2>1, RevokePreserves DEF Logout
<1>2. CASE RevokeSession(h)
  BY <1>2, RevokePreserves DEF RevokeSession
<1>3. CASE RevokeOthers(h)
  <2>1. RowId \ {handler[h].row} \in SUBSET RowId
    OBVIOUS
  <2> QED
    BY <1>3, <2>1, RevokePreserves DEF RevokeOthers
<1> QED
  BY <1>1, <1>2, <1>3

LEMMA CleanUpPreserves ==
    ASSUME IInv, CleanUp
    PROVE  Preserved
<1>1. Shrinks /\ SamePasswords
  BY CleanUpShrinks, SamePasswordSteps DEF IInv, CleanUp
<1>2. handler' = handler /\ lock = NoHandler
      /\ UNCHANGED <<user, history, lock, minted>>
      /\ finalizer' \in {"idle", "picked", "found"}
  BY DEF CleanUp
<1> QED
  BY <1>1, <1>2, ShrinkingPreserves

LEMMA ExchangePreserves ==
    ASSUME IInv, NEW c \in Credential, Exchange(c)
    PROVE  Preserved
<1>1. PICK i \in RowId :
        SessionOf(c, i) /\ sessions' = [sessions EXCEPT ![i].cred = Fresh]
  BY DEF Exchange
<1>2. TypeOK /\ Fresh \in Credential /\ lock = NoHandler
  BY FreshType DEF IInv, Exchange
<1>3. sessions' \in [RowId -> SessionRow] /\ Written'
  <2>1. [sessions[i] EXCEPT !.cred = Fresh] \in SessionRow
    BY <1>2 DEF TypeOK, SessionRow
  <2>2. sessions' = [sessions EXCEPT ![i] = [sessions[i] EXCEPT !.cred = Fresh]]
    BY <1>1
  <2>3. sessions[i] \in SessionRow /\ Exists(sessions[i])
    BY <1>1, <1>2 DEF TypeOK, SessionOf, Live
  <2> QED
    BY <1>2, <2>1, <2>2, <2>3 DEF TypeOK, Written, SessionRow, Exists
<1>4. history' \in [Credential -> HistoryRow]
  <2>1. history[c] \in HistoryRow
    BY <1>2 DEF TypeOK
  <2>2. /\ [history[c] EXCEPT !.used = TRUE] \in HistoryRow
        /\ [[history[c] EXCEPT !.used = TRUE] EXCEPT !.replaced = Fresh]
              \in HistoryRow
    BY <1>2, <2>1 DEF HistoryRow
  <2>3. history[c].session \in {0} \cup Credential
    BY <2>1 DEF HistoryRow
  <2>4. [NoHistory EXCEPT !.session = history[c].session] \in HistoryRow
    BY <2>3 DEF HistoryRow, NoHistory
  <2>5. history' = [history EXCEPT
           ![c].used = TRUE, ![c].replaced = Fresh,
           ![Fresh] = [NoHistory EXCEPT !.session = history[c].session]]
    BY DEF Exchange
  <2> QED
    BY <1>2, <2>2, <2>4, <2>5 DEF TypeOK
<1>5. /\ UNCHANGED <<user, lock, handler, finalizer>>
      /\ minted' \in [cred : 0..MaxCredential, password : 0..MaxPassword,
                      request : 0..MaxRequest, failures : 0..MaxFailures]
  BY <1>2 DEF Exchange, TypeOK, Credential
<1>6. TypeOK'
  BY <1>2, <1>3, <1>4, <1>5 DEF TypeOK, Written, Exists
<1>7. TokensKept
  BY ExchangeKeepsTokens DEF IInv
<1>8. AccountInv'
  BY ExchangeKeepsAccount DEF IInv
<1>9. AuthorityInv'
  BY <1>2, <1>5, AloneKeepsAuthority DEF IInv
<1> QED
  BY <1>6, <1>7, <1>8, <1>9 DEF Preserved

LEMMA DetectReplayPreserves ==
    ASSUME IInv, NEW c \in Credential, DetectReplay(c)
    PROVE  Preserved
<1>1. Shrinks /\ SamePasswords
  BY ReplayShrinks, SamePasswordSteps DEF IInv
<1>2. /\ UNCHANGED <<user, lock, handler, finalizer, minted>>
      /\ lock = NoHandler /\ TypeOK
  BY DEF DetectReplay, IInv
<1>3. /\ history' \in [Credential -> HistoryRow]
      /\ \A d \in Credential : history'[d].session = history[d].session
  <2>1. history[c] \in HistoryRow
    BY <1>2 DEF TypeOK
  <2>2. /\ [history[c] EXCEPT !.reused = TRUE] \in HistoryRow
        /\ [history[c] EXCEPT !.reused = TRUE].session = history[c].session
    BY <2>1 DEF HistoryRow
  <2>3. history' = [history EXCEPT ![c] = [history[c] EXCEPT !.reused = TRUE]]
    BY DEF DetectReplay
  <2> QED
    BY <1>2, <2>2, <2>3 DEF TypeOK
<1>4. TypeOK'
  BY <1>1, <1>2, <1>3, ShrinksType DEF TypeOK, Written, Exists
<1>5. TokensKept
  BY ReplayKeepsTokens DEF IInv
<1>6. AccountInv'
  BY <1>1, <1>2, <1>3, ShrinksKeepsAccount DEF IInv
<1>7. AuthorityInv'
  BY <1>2, AloneKeepsAuthority DEF IInv
<1> QED
  BY <1>4, <1>5, <1>6, <1>7 DEF Preserved

LEMMA ErasePreserves ==
    ASSUME IInv, Erase
    PROVE  Preserved
<1>1. /\ user' = NoAccount /\ sessions' = [i \in RowId |-> NoSession]
      /\ history' = [c \in Credential |-> NoHistory]
      /\ finalizer' = "idle" /\ lock = NoHandler
      /\ UNCHANGED <<lock, handler, minted>> /\ TypeOK
  BY DEF Erase, IInv
<1>2. sessions' \in [RowId -> SessionRow] /\ Written'
  BY <1>1, NothingShrinks, ShrinksType
<1>3. TypeOK'
  BY <1>1, <1>2, ConstantTypes DEF TypeOK, Written, NoAccount, Exists
<1>4. TokensKept
  BY <1>1, EraseKeepsTokens
<1>5. AccountInv'
  BY <1>1, NothingKeepsAccount
<1>6. AuthorityInv'
  BY <1>1, AloneKeepsAuthority DEF IInv
<1> QED
  BY <1>3, <1>4, <1>5, <1>6 DEF Preserved

LEMMA JobPreserves ==
    ASSUME IInv, Recheck \/ EraseFails
    PROVE  Preserved
<1>1. /\ UNCHANGED <<user, sessions, history, lock, handler>> /\ TypeOK
      /\ finalizer' \in {"idle", "picked", "found"}
  BY DEF Recheck, EraseFails, IInv
<1>2. /\ minted'.cred = minted.cred
      /\ minted' \in [cred : 0..MaxCredential, password : 0..MaxPassword,
                      request : 0..MaxRequest, failures : 0..MaxFailures]
  <2>1. CASE Recheck
    BY <1>1, <2>1 DEF Recheck, TypeOK
  <2>2. CASE EraseFails
    BY <1>1, <2>2, BoundAssumption DEF EraseFails, TypeOK
  <2> QED
    BY <2>1, <2>2
<1> QED
  BY <1>1, <1>2, QuietPreserves DEF TypeOK

LEMMA GraceEndsPreserves ==
    ASSUME IInv, GraceEnds
    PROVE  Preserved
<1>1. /\ UNCHANGED <<sessions, history, lock, handler, finalizer, minted>>
      /\ user' = [user EXCEPT !.due = TRUE] /\ user.requested # 0 /\ TypeOK
  BY DEF GraceEnds, IInv
<1>2. /\ user' \in AccountRow /\ user'.requested # 0
      /\ Captured(user') = Captured(user)
  BY <1>1 DEF TypeOK, AccountRow, Captured
<1>3. user # NoAccount /\ user' # NoAccount
  BY <1>1, <1>2 DEF NoAccount
<1> QED
  BY <1>1, <1>2, <1>3, QuietPreserves DEF TypeOK

LEMMA ExpirePreserves ==
    ASSUME IInv, NEW i \in RowId, Expire(i)
    PROVE  Preserved
<1>1. Shrinks /\ SamePasswords
  BY ExpireShrinks, SamePasswordSteps DEF IInv
<1>2. UNCHANGED <<user, history, lock, handler, finalizer, minted>> /\ TypeOK
  BY DEF Expire, IInv
<1>3. TypeOK'
  BY <1>1, <1>2, ShrinksType DEF TypeOK, Written, Exists
<1>4. TokensKept
  BY <1>1, <1>2, ShrinksKeepsTokens DEF IInv, TypeOK
<1>5. AccountInv'
  BY <1>1, <1>2, ShrinksKeepsAccount DEF IInv
<1>6. \A j \in RowId : /\ sessions'[j].session = sessions[j].session
                       /\ sessions'[j].cred = sessions[j].cred
                       /\ sessions'[j].revoked = sessions[j].revoked
  BY <1>2 DEF Expire, TypeOK, SessionRow
<1>7. AuthorityInv'
  BY <1>2, <1>6, BystanderKeepsAuthority DEF IInv
<1> QED
  BY <1>3, <1>4, <1>5, <1>7 DEF Preserved

-----------------------------------------------------------------------------
(***************************************************************************)
(* Every step.                                                             *)
(***************************************************************************)
LEMMA RequestPreserves ==
    ASSUME IInv, NEW h \in Handlers, Request(h)
    PROVE  Preserved
<1>1. CASE \/ ReadByEmail(h) \/ ReadUnregistered(h) \/ ReadAccount(h)
           \/ Refuse(h) \/ \E i \in RowId : ReadSession(h, i)
  BY <1>1, ReadsPreserve
<1>2. CASE TurnAway(h)
  BY <1>2, TurnAwayPreserves
<1>3. CASE Rollback(h)
  BY <1>3, RollbackPreserves
<1>4. CASE Commit(h)
  BY <1>4, CommitLoginPreserves, CommitRegisterPreserves, CommitCancelPreserves,
     CommitResetPreserves, CommitChangePreserves, CommitDeletePreserves DEF Commit
<1>5. CASE \E route \in {"login", "register", "cancel", "reset", "change", "delete"} :
              Fence(h, route)
  BY <1>5, FencePreserves
<1>6. CASE Logout(h) \/ RevokeSession(h) \/ RevokeOthers(h)
  BY <1>6, RevocationsPreserve
<1> QED
  BY <1>1, <1>2, <1>3, <1>4, <1>5, <1>6 DEF Request

LEMMA NextPreserves ==
    ASSUME IInv, [Next]_vars
    PROVE  Preserved
<1>1. CASE \E h \in Handlers : Request(h)
  BY <1>1, RequestPreserves
<1>2. CASE \E c \in Credential : Exchange(c) \/ DetectReplay(c)
  BY <1>2, ExchangePreserves, DetectReplayPreserves
<1>3. CASE CleanUp \/ Recheck \/ Erase \/ EraseFails
  BY <1>3, CleanUpPreserves, JobPreserves, ErasePreserves
<1>4. CASE GraceEnds \/ \E i \in RowId : Expire(i)
  BY <1>4, GraceEndsPreserves, ExpirePreserves
<1>5. CASE UNCHANGED vars
  <2>1. UNCHANGED <<user, sessions, history, lock, handler, finalizer, minted>>
        /\ TypeOK
    BY <1>5 DEF vars, IInv
  <2> QED
    BY <2>1, QuietPreserves DEF TypeOK
<1> QED
  BY <1>1, <1>2, <1>3, <1>4, <1>5 DEF Next

LEMMA PreservedKeeps ==
    ASSUME Preserved
    PROVE  IInv' /\ EndedKept /\ RedeemedKept
BY DEF Preserved, TokensKept, IInv

LEMMA Invariance == Spec => []IInv
<1>1. Init => IInv
  BY InitEstablishes
<1>2. IInv /\ [Next]_vars => IInv'
  BY NextPreserves, PreservedKeeps
<1> QED
  BY <1>1, <1>2, PTL DEF Spec

\* What the handlers and the job know and write has its type: a deleted row
\* leaves nothing behind, and only a deletion that was requested comes due.
THEOREM TypeCorrect == Spec => []TypeOK
<1>1. IInv => TypeOK
  BY DEF IInv
<1> QED
  BY <1>1, Invariance, PTL

\* Whatever runs at the same time, what a handler has authenticated before
\* its password work is still so when its transaction commits: the
\* conditional UPDATE of auth.py's revalidate functions holds until then.
THEOREM AuthorityCorrect == Spec => []AuthorityHolds
<1>1. IInv => AuthorityHolds
  BY DEF IInv, AuthorityInv
<1> QED
  BY <1>1, Invariance, PTL

\* No session outlives the password it was opened under, except the one that
\* changed it: for any number of logins, resets and changes under way.
THEOREM PasswordCorrect == Spec => []SessionsFollowPassword
<1>1. IInv => SessionsFollowPassword
  BY DEF IInv, AccountInv
<1> QED
  BY <1>1, Invariance, PTL

\* Nobody is signed in to an account that waits for its deletion, and an
\* erased one leaves neither sessions nor refresh history.
THEOREM PendingCorrect == Spec => []PendingMeansSignedOut
<1>1. IInv => PendingMeansSignedOut
  BY DEF IInv, AccountInv
<1> QED
  BY <1>1, Invariance, PTL

\* A session accepts one refresh token, and every other token of its family
\* counts as a replay.
THEOREM TokenCorrect == Spec => []OneLiveToken
<1>1. IInv => OneLiveToken
  BY DEF IInv, Tokens
<1> QED
  BY <1>1, Invariance, PTL

\* A token that was replayed has ended its session.
THEOREM ReplayCorrect == Spec => []ReplayEndsSession
<1>1. IInv => ReplayEndsSession
  BY DEF IInv, Tokens
<1> QED
  BY <1>1, Invariance, PTL

\* No request, however late it writes, revives a session that has ended.
THEOREM EndedCorrect == Spec => EndedStaysEnded
<1>1. IInv /\ [Next]_vars => [\A s \in Credential : Ended(s) => Ended(s)']_vars
  BY NextPreserves, PreservedKeeps DEF EndedKept
<1> QED
  BY <1>1, Invariance, PTL DEF Spec, EndedStaysEnded

\* Of all the refreshes that present a token, one exchanges it.
THEOREM RedeemedCorrect == Spec => RedeemedOnce
<1>1. IInv /\ [Next]_vars =>
        [\A c \in Credential : history[c].used =>
          \/ history'[c].used /\ history'[c].replaced = history[c].replaced
          \/ history'[c] = NoHistory]_vars
  BY NextPreserves, PreservedKeeps DEF RedeemedKept
<1> QED
  BY <1>1, Invariance, PTL DEF Spec, RedeemedOnce

=============================================================================
