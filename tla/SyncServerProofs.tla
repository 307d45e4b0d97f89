-------------------------- MODULE SyncServerProofs --------------------------
(***************************************************************************)
(* Theorems about SyncServer, for every set of records, mutations,         *)
(* handlers and batches.                                                   *)
(***************************************************************************)
EXTENDS SyncServer, SyncRequestsProofs

Working == {"receipt", "replay", "record", "write"}

-----------------------------------------------------------------------------
(***************************************************************************)
(* TypeOK is inductive together with the fact that the loop of the service *)
(* always has a mutation at hand.                                          *)
(***************************************************************************)

HasCurrent ==
    \A h \in Handlers :
        handler[h].pc \in Working =>
            handler[h].todo # <<>> /\ handler[h].batch \in Batches

Typed == TypeOK /\ HasCurrent

LEMMA BatchType == \A b \in Batches : b \in Seq(Mutation) /\ b # <<>>
BY BatchAssumption

LEMMA CurrentType ==
    ASSUME Typed, NEW h \in Handlers, handler[h].pc \in Working
    PROVE  /\ Current(h) \in Mutation
           /\ handler[h].todo \in Seq(Mutation) /\ handler[h].todo # <<>>
           /\ Tail(handler[h].todo) \in Seq(Mutation)
<1>1. handler[h].todo \in Seq(Mutation) /\ handler[h].todo # <<>>
  BY DEF Typed, TypeOK, HasCurrent, Handler
<1> QED
  BY <1>1 DEF Current

LEMMA ViewType ==
    ASSUME TypeOK, NEW h \in Handlers
    PROVE  View(h) \in Database
BY DEF TypeOK, View

LEMMA AcknowledgeType ==
    ASSUME Typed, NEW h \in Handlers, handler[h].pc \in Working,
           NEW row \in Row, Acknowledge(h, row)
    PROVE  handler' \in [Handlers -> Handler] /\ HasCurrent'
<1>1. /\ Current(h) \in Mutation
      /\ Tail(handler[h].todo) \in Seq(Mutation)
  BY CurrentType
<1>2. [mutation |-> Current(h), row |-> row] \in Ack
  BY <1>1 DEF Ack
<1>3. handler \in [Handlers -> Handler]
  BY DEF Typed, TypeOK
<1>4. handler' \in [Handlers -> Handler]
  <2>1. handler[h] \in Handler
    BY <1>3
  <2>2. handler'[h] \in Handler
    BY <1>1, <1>2, <1>3, <2>1 DEF Acknowledge, Handler
  <2> QED
    BY <1>3, <2>2 DEF Acknowledge
<1>5. HasCurrent'
  BY <1>1, <1>3 DEF Acknowledge, Handler, HasCurrent, Typed, Working
<1> QED
  BY <1>4, <1>5

LEMMA AnswerType ==
    ASSUME Typed, NEW h \in Handlers, NEW outcome \in Outcomes,
           Answer(h, outcome)
    PROVE  handler' \in [Handlers -> Handler] /\ HasCurrent'
<1>1. handler \in [Handlers -> Handler]
  BY DEF Typed, TypeOK
<1>2. handler' \in [Handlers -> Handler]
  <2>1. handler[h] \in Handler /\ <<>> \in Seq(Mutation)
    BY <1>1
  <2>2. handler'[h] \in Handler
    BY <1>1, <2>1 DEF Answer, Handler
  <2> QED
    BY <1>1, <2>2 DEF Answer
<1>3. HasCurrent'
  BY <1>1 DEF Answer, HasCurrent, Typed, Working
<1> QED
  BY <1>2, <1>3

LEMMA EndTransactionType ==
    ASSUME TypeOK, NEW h \in Handlers, EndTransaction(h)
    PROVE  lock' \in Handlers \cup {NoHandler} /\ tx' \in Database
BY EmptyDatabaseType DEF EndTransaction, TypeOK

LEMMA TypedInit == Init => Typed
<1> SUFFICES ASSUME Init PROVE Typed
  OBVIOUS
<1>1. Idle \in Handler
  BY EmptyDatabaseType DEF Idle, Handler, Outcomes
<1> QED
  BY <1>1, EmptyDatabaseType DEF Init, Typed, TypeOK, HasCurrent, Idle, Working

LEMMA TypedStep == Typed /\ [Next]_vars => Typed'
<1> SUFFICES ASSUME Typed, [Next]_vars PROVE Typed'
  OBVIOUS
<1> USE DEF Working
<1>t. /\ db \in Database /\ tx \in Database
      /\ lock \in Handlers \cup {NoHandler}
      /\ handler \in [Handlers -> Handler]
  BY DEF Typed, TypeOK
<1>i. Idle \in Handler
  BY EmptyDatabaseType DEF Idle, Handler, Outcomes
<1>1. ASSUME NEW h \in Handlers, NEW batch \in Batches, Accept(h, batch)
      PROVE  Typed'
  <2>1. batch \in Seq(Mutation) /\ batch # <<>>
    BY BatchType
  <2>2. handler' \in [Handlers -> Handler]
    BY <1>1, <1>t, <1>i, <2>1 DEF Accept, Handler, Idle
  <2>3. HasCurrent'
    BY <1>1, <1>t, <2>1 DEF Accept, HasCurrent, Typed, Idle
  <2> QED
    BY <1>1, <1>t, <2>2, <2>3 DEF Accept, Typed, TypeOK
<1>2. ASSUME NEW h \in Handlers, LookupMisses(h)
      PROVE  Typed'
  <2>1. handler' \in [Handlers -> Handler]
    <3>1. handler[h] \in Handler
      BY <1>t
    <3>2. [handler[h] EXCEPT !.pc = "record"] \in Handler
      BY <3>1 DEF Handler
    <3> QED
      BY <1>2, <1>t, <3>2 DEF LookupMisses
  <2>2. HasCurrent'
    BY <1>2, <1>t DEF LookupMisses, HasCurrent, Typed
  <2> QED
    BY <1>2, <1>t, <2>1, <2>2 DEF LookupMisses, Typed, TypeOK
<1>3. ASSUME NEW h \in Handlers, LookupFindsReplay(h)
      PROVE  Typed'
  <2>1. handler' \in [Handlers -> Handler]
    <3>1. handler[h] \in Handler
      BY <1>t
    <3>2. [handler[h] EXCEPT !.pc = "replay"] \in Handler
      BY <3>1 DEF Handler
    <3> QED
      BY <1>3, <1>t, <3>2 DEF LookupFindsReplay
  <2>2. HasCurrent'
    BY <1>3, <1>t DEF LookupFindsReplay, HasCurrent, Typed
  <2> QED
    BY <1>3, <1>t, <2>1, <2>2 DEF LookupFindsReplay, Typed, TypeOK
<1>4. ASSUME NEW h \in Handlers, AcknowledgeReplay(h)
      PROVE  Typed'
  <2>1. View(h).rows[Current(h).rec] \in Row
    BY <1>4, CurrentType, ViewType
       DEF AcknowledgeReplay, Database, Mutation, Typed
  <2>2. handler' \in [Handlers -> Handler] /\ HasCurrent'
    BY <1>4, <2>1, AcknowledgeType DEF AcknowledgeReplay
  <2> QED
    BY <1>4, <1>t, <2>2 DEF AcknowledgeReplay, Typed, TypeOK
<1>5. ASSUME NEW h \in Handlers, LookupFindsConflict(h)
      PROVE  Typed'
  <2>1. handler' \in [Handlers -> Handler] /\ HasCurrent'
    BY <1>5, AnswerType DEF LookupFindsConflict, Outcomes
  <2> QED
    BY <1>5, <1>t, <2>1, EndTransactionType
       DEF LookupFindsConflict, Rollback, Typed, TypeOK
<1>6. ASSUME NEW h \in Handlers, LoadRecord(h)
      PROVE  Typed'
  <2>1. View(h).rows[Current(h).rec] \in Row
    BY <1>6, CurrentType, ViewType DEF LoadRecord, Database, Mutation, Typed
  <2>2. handler' \in [Handlers -> Handler]
    <3>1. handler[h] \in Handler
      BY <1>t
    <3>2. [handler[h] EXCEPT !.pc = "write",
                             !.loaded = View(h).rows[Current(h).rec]]
            \in Handler
      BY <2>1, <3>1 DEF Handler
    <3> QED
      BY <1>6, <1>t, <3>2 DEF LoadRecord
  <2>3. HasCurrent'
    BY <1>6, <1>t DEF LoadRecord, HasCurrent, Typed
  <2> QED
    BY <1>6, <1>t, <2>2, <2>3 DEF LoadRecord, Typed, TypeOK
<1>7. ASSUME NEW h \in Handlers, WriteMutation(h)
      PROVE  Typed'
  <2>1. handler[h].pc = "write"
    BY <1>7 DEF WriteMutation, CanWrite
  <2>2. /\ Current(h) \in Mutation /\ View(h) \in Database
        /\ handler[h].loaded \in Row
    BY <1>t, <2>1, CurrentType, ViewType DEF Typed, Handler
  <2>3. tx' \in Database
    BY <1>7, <2>2, WithMutationType DEF WriteMutation
  <2>4. handler' \in [Handlers -> Handler] /\ HasCurrent'
    BY <1>7, <2>1, <2>2, AcknowledgedRowType, AcknowledgeType
       DEF WriteMutation
  <2> QED
    BY <1>7, <1>t, <2>3, <2>4 DEF WriteMutation, Typed, TypeOK
<1>8. ASSUME NEW h \in Handlers, RetryPush(h)
      PROVE  Typed'
  <2>1. handler[h].pc = "write" /\ handler[h].batch \in Batches \cup {<<>>}
    BY <1>8, <1>t DEF RetryPush, CanWrite, Handler
  <2>2. handler[h].batch \in Batches /\ handler[h].batch \in Seq(Mutation)
    BY <2>1, BatchType DEF Typed, HasCurrent
  <2>3. handler' \in [Handlers -> Handler]
    BY <1>8, <1>t, <1>i, <2>1, <2>2 DEF RetryPush, Handler, Idle
  <2>4. HasCurrent'
    BY <1>8, <1>t, BatchType
       DEF RetryPush, CanWrite, HasCurrent, Typed, Idle
  <2> QED
    BY <1>8, <1>t, <2>3, <2>4, EndTransactionType
       DEF RetryPush, Rollback, Typed, TypeOK
<1>9. ASSUME NEW h \in Handlers, GiveUpPush(h)
      PROVE  Typed'
  <2>1. handler' \in [Handlers -> Handler] /\ HasCurrent'
    BY <1>9, AnswerType DEF GiveUpPush, Outcomes
  <2> QED
    BY <1>9, <1>t, <2>1, EndTransactionType
       DEF GiveUpPush, Rollback, Typed, TypeOK
<1>10. ASSUME NEW h \in Handlers, Fail(h)
       PROVE  Typed'
  <2>1. handler' \in [Handlers -> Handler] /\ HasCurrent'
    BY <1>10, AnswerType DEF Fail, Outcomes
  <2> QED
    BY <1>10, <1>t, <2>1, EndTransactionType
       DEF Fail, Rollback, Typed, TypeOK
<1>11. ASSUME NEW h \in Handlers, Commit(h)
       PROVE  Typed'
  <2>1. handler' \in [Handlers -> Handler] /\ HasCurrent'
    BY <1>11, AnswerType DEF Commit, Outcomes
  <2> QED
    BY <1>11, <1>t, <2>1, ViewType, EndTransactionType
       DEF Commit, Typed, TypeOK
<1>12. ASSUME NEW h \in Handlers, Respond(h)
       PROVE  Typed'
  <2>1. handler' \in [Handlers -> Handler] /\ HasCurrent'
    BY <1>12, <1>t, <1>i DEF Respond, HasCurrent, Typed, Idle
  <2> QED
    BY <1>12, <1>t, <2>1 DEF Respond, Typed, TypeOK
<1>13. CASE Restart
  BY <1>13, <1>i, EmptyDatabaseType
     DEF Restart, Typed, TypeOK, HasCurrent, Idle
<1>14. CASE UNCHANGED vars
  BY <1>14 DEF vars, Typed, TypeOK, HasCurrent
<1> QED
  BY <1>1, <1>2, <1>3, <1>4, <1>5, <1>6, <1>7, <1>8, <1>9, <1>10, <1>11,
     <1>12, <1>13, <1>14 DEF Next

\* Every reachable state of the push endpoint is well typed: the tables hold
\* rows, receipts and a revision, a handler runs a push at most twice.
THEOREM TypeCorrect == Spec => []TypeOK
<1>1. Typed => TypeOK
  BY DEF Typed
<1> QED
  BY <1>1, TypedInit, TypedStep, PTL DEF Spec
-----------------------------------------------------------------------------
(***************************************************************************)
(* The invariant is inductive.                                             *)
(***************************************************************************)

\* The part of Inductive that is about the tables, and that about a handler.
Tables == Sound(db) /\ (lock # NoHandler => Sound(tx) /\ Extends(tx, db))

Accounts(h) ==
    /\ ReadsStay(h)
    /\ LoopAccounts(h)
    /\ handler[h].pc = "commit" => handler[h].todo = <<>>
    /\ AnswerAccounts(h)

LEMMA Parts == Inductive <=> Tables /\ \A h \in Handlers : Accounts(h)
BY DEF Inductive, Tables, Accounts

Strong == Typed /\ Tables /\ \A h \in Handlers : Accounts(h)

LEMMA ViewIsSound ==
    ASSUME Typed, Tables, NEW h \in Handlers
    PROVE  /\ View(h) \in Database
           /\ Sound(View(h))
           /\ Extends(View(h), db)
<1>1. db \in Database /\ h # NoHandler
  BY HandlerAssumption DEF Typed, TypeOK
<1> QED
  BY <1>1, ViewType, ExtendsItself DEF Typed, Tables, View

\* What another handler does to the tables leaves the facts about g alone.
LEMMA OthersKeep ==
    ASSUME Typed, Typed', NEW g \in Handlers, Accounts(g),
           handler'[g] = handler[g],
           Extends(db', db), Extends(View(g)', View(g))
    PROVE  Accounts(g)'
<1>1. /\ View(g) \in Database /\ View(g)' \in Database
      /\ db \in Database /\ db' \in Database
  BY DEF Typed, TypeOK, View
<1>2. ReadsStay(g)'
  <2>1. ASSUME handler[g].pc = "replay"
        PROVE  Current(g) \in (View(g)').receipts
    BY <2>1 DEF Accounts, ReadsStay, Extends
  <2>2. ASSUME handler[g].pc = "write", Exists(handler[g].loaded)
        PROVE  Exists((View(g)').rows[Current(g).rec])
    <3>1. Exists(View(g).rows[Current(g).rec])
      BY <2>2 DEF Accounts, ReadsStay
    <3>2. Current(g).rec \in RecordIds
      BY <2>2, CurrentType DEF Working, Mutation
    <3> QED
      BY <1>1, <3>1, <3>2, ExtendsKeepsRows
  <2>3. Current(g)' = Current(g)
    BY DEF Current
  <2> QED
    BY <2>1, <2>2, <2>3 DEF ReadsStay, Exists
<1>3. /\ View(g).receipts \subseteq (View(g)').receipts
      /\ db.receipts \subseteq (db').receipts
  BY DEF Extends
<1>4. LoopAccounts(g)'
  BY <1>3 DEF Accounts, LoopAccounts, Accounted
<1>5. AnswerAccounts(g)'
  BY <1>3 DEF Accounts, AnswerAccounts, Accounted
<1> QED
  BY <1>2, <1>4, <1>5 DEF Accounts

\* A handler that starts a push has everything before it.
LEMMA StartAccounts ==
    ASSUME NEW h \in Handlers,
           handler'[h].pc = "receipt", handler'[h].outcome # "ok",
           handler'[h].todo = handler'[h].batch
    PROVE  Accounts(h)'
BY DEF Accounts, ReadsStay, LoopAccounts, AnswerAccounts

\* A handler at rest, or one that has answered with an error, owes nothing.
LEMMA RestAccounts ==
    ASSUME NEW h \in Handlers,
           handler'[h].pc \in {"idle", "done"}, handler'[h].outcome # "ok"
    PROVE  Accounts(h)'
BY DEF Accounts, ReadsStay, LoopAccounts, AnswerAccounts

\* An acknowledgement accounts for the current mutation.
LEMMA AcknowledgeAccounts ==
    ASSUME Typed, NEW h \in Handlers, Accounts(h),
           handler[h].pc \in Working, NEW row, Acknowledge(h, row),
           Current(h) \in (View(h)').receipts,
           View(h).receipts \subseteq (View(h)').receipts
    PROVE  Accounts(h)'
<1> DEFINE todo == handler[h].todo
<1>1. /\ handler \in [Handlers -> Handler]
      /\ todo \in Seq(Mutation) /\ todo # <<>>
  BY CurrentType DEF Typed, TypeOK
<1>2. /\ handler'[h].todo = Tail(todo)
      /\ handler'[h].batch = handler[h].batch
      /\ handler'[h].outcome = handler[h].outcome
      /\ handler'[h].pc = IF Tail(todo) = <<>> THEN "commit" ELSE "receipt"
      /\ handler'[h].acks =
            handler[h].acks \cup {[mutation |-> Current(h), row |-> row]}
  <2>1. handler[h] \in Handler
    BY <1>1
  <2> QED
    BY <1>1, <2>1 DEF Acknowledge, Handler
<1>3. handler[h].outcome # "ok"
  BY DEF Accounts, AnswerAccounts, Working
<1>4. LoopAccounts(h)'
  <2>1. SUFFICES ASSUME NEW i \in 1..Len(handler[h].batch)
                 PROVE  \/ \E j \in 1..Len(Tail(todo)) :
                              Tail(todo)[j] = handler[h].batch[i]
                        \/ Accounted(h, handler[h].batch[i], View(h))'
    BY <1>2 DEF LoopAccounts
  <2>2. CASE Accounted(h, handler[h].batch[i], View(h))
    BY <1>2, <2>2 DEF Accounted
  <2>3. CASE \E j \in 1..Len(todo) : todo[j] = handler[h].batch[i]
    <3>1. PICK j \in 1..Len(todo) : todo[j] = handler[h].batch[i]
      BY <2>3
    <3>2. CASE j = 1
      <4>1. handler[h].batch[i] = Current(h)
        BY <1>1, <3>1, <3>2 DEF Current
      <4>2. \E a \in handler'[h].acks : a.mutation = Current(h)
        <5>1. [mutation |-> Current(h), row |-> row] \in handler'[h].acks
          BY <1>2
        <5> QED
          BY <5>1
      <4> QED
        BY <1>2, <4>1, <4>2 DEF Accounted
    <3>3. CASE j # 1
      <4>1. /\ j - 1 \in 1..Len(Tail(todo))
            /\ Tail(todo)[j - 1] = todo[j]
        BY <1>1, <3>1, <3>3
      <4> QED
        BY <3>1, <4>1
    <3> QED
      BY <3>2, <3>3
  <2> QED
    BY <2>2, <2>3 DEF Accounts, LoopAccounts, Working
<1>5. ReadsStay(h)' /\ AnswerAccounts(h)'
  BY <1>2, <1>3 DEF ReadsStay, AnswerAccounts
<1> QED
  BY <1>2, <1>4, <1>5 DEF Accounts

\* What a step of handler h must leave alone for everyone else to go on.
Respects(h) ==
    /\ Extends(db', db)
    /\ \A g \in Handlers \ {h} :
          handler'[g] = handler[g] /\ Extends(View(g)', View(g))

LEMMA StepOf ==
    ASSUME Strong, Typed', NEW h \in Handlers,
           Tables', Respects(h), Accounts(h)'
    PROVE  Strong'
<1>1. ASSUME NEW g \in Handlers \ {h}
      PROVE  Accounts(g)'
  BY <1>1, OthersKeep DEF Strong, Respects
<1> QED
  BY <1>1 DEF Strong

\* A step that changes no table.
LEMMA TablesStay ==
    ASSUME Strong, NEW h \in Handlers, UNCHANGED <<db, lock, tx>>
    PROVE  /\ Tables' /\ Extends(db', db)
           /\ \A g \in Handlers : View(g)' = View(g) /\ Extends(View(g)', View(g))
<1>1. ASSUME NEW g \in Handlers
      PROVE  View(g)' = View(g) /\ Extends(View(g)', View(g))
  <2>1. View(g)' = View(g)
    BY DEF View
  <2>2. View(g) \in Database
    BY ViewType DEF Strong, Typed
  <2> QED
    BY <2>1, <2>2, ExtendsItself
<1>2. Extends(db', db)
  BY ExtendsItself DEF Strong, Typed, TypeOK
<1> QED
  BY <1>1, <1>2 DEF Strong, Tables

\* A handler that rolls back gives up what only it could see.
LEMMA RollbackRespects ==
    ASSUME Strong, NEW h \in Handlers, Rollback(h),
           \A g \in Handlers \ {h} : handler'[g] = handler[g]
    PROVE  Tables' /\ Respects(h)
<1>1. db' = db /\ db \in Database
  BY DEF Rollback, Strong, Typed, TypeOK
<1>2. Tables'
  BY <1>1 DEF Rollback, EndTransaction, Strong, Tables
<1>3. ASSUME NEW g \in Handlers \ {h}
      PROVE  Extends(View(g)', View(g))
  <2>1. View(g)' = View(g)
    BY <1>1, HandlerAssumption DEF Rollback, EndTransaction, View
  <2>2. View(g) \in Database
    BY ViewType DEF Strong, Typed
  <2> QED
    BY <2>1, <2>2, ExtendsItself
<1> QED
  BY <1>1, <1>2, <1>3, ExtendsItself DEF Respects

LEMMA AnswerRespects ==
    ASSUME Typed, NEW h \in Handlers, NEW outcome, Answer(h, outcome)
    PROVE  /\ \A g \in Handlers \ {h} : handler'[g] = handler[g]
           /\ handler'[h].pc = "done" /\ handler'[h].outcome = outcome
           /\ handler'[h].batch = handler[h].batch
           /\ handler'[h].acks = handler[h].acks
<1>1. handler \in [Handlers -> Handler] /\ handler[h] \in Handler
  BY DEF Typed, TypeOK
<1> QED
  BY <1>1 DEF Answer, Handler

\* A handler whose push fails with an error answer.
LEMMA AbortStep ==
    ASSUME Strong, Typed', NEW h \in Handlers,
           NEW outcome \in {"conflict", "unavailable"},
           Answer(h, outcome), Rollback(h)
    PROVE  Strong'
<1>1. /\ \A g \in Handlers \ {h} : handler'[g] = handler[g]
      /\ handler'[h].pc = "done" /\ handler'[h].outcome = outcome
  BY AnswerRespects DEF Strong
<1>2. Tables' /\ Respects(h)
  BY <1>1, RollbackRespects
<1>3. Accounts(h)'
  BY <1>1, RestAccounts
<1> QED
  BY <1>2, <1>3, StepOf

\* A handler that only goes on to its next statement.
LEMMA AdvanceStep ==
    ASSUME Strong, Typed', NEW h \in Handlers, UNCHANGED <<db, lock, tx>>,
           handler[h].pc \in Working, handler'[h].pc \in Working,
           handler'[h].batch = handler[h].batch,
           handler'[h].todo = handler[h].todo,
           handler'[h].acks = handler[h].acks,
           handler'[h].outcome = handler[h].outcome,
           \A g \in Handlers \ {h} : handler'[g] = handler[g],
           ReadsStay(h)'
    PROVE  Strong'
<1>1. /\ Tables' /\ Extends(db', db)
      /\ \A g \in Handlers :
            View(g)' = View(g) /\ Extends(View(g)', View(g))
  BY TablesStay
<1>2. Accounts(h)
  BY DEF Strong
<1>3. LoopAccounts(h)'
  BY <1>1, <1>2 DEF Accounts, LoopAccounts, Accounted, Working
<1>4. AnswerAccounts(h)'
  BY <1>2 DEF Accounts, AnswerAccounts, Working
<1>5. Accounts(h)'
  BY <1>3, <1>4 DEF Accounts, Working
<1> QED
  BY <1>1, <1>5, StepOf DEF Respects

LEMMA StrongInit == Init => Strong
<1> SUFFICES ASSUME Init PROVE Strong
  OBVIOUS
<1>1. Sound(db)
  BY DEF Init, Sound, EmptyDatabase, Exists, NoRow
<1>2. ASSUME NEW h \in Handlers
      PROVE  Accounts(h)
  BY DEF Init, Idle, Accounts, ReadsStay, LoopAccounts, AnswerAccounts
<1> QED
  BY <1>1, <1>2, TypedInit DEF Strong, Tables, Init

LEMMA AcceptStep ==
    ASSUME Strong, Typed', NEW h \in Handlers, NEW batch \in Batches,
           Accept(h, batch)
    PROVE  Strong'
<1>1. handler \in [Handlers -> Handler] /\ UNCHANGED <<db, lock, tx>>
  BY DEF Strong, Typed, TypeOK, Accept
<1>2. /\ \A g \in Handlers \ {h} : handler'[g] = handler[g]
      /\ handler'[h].pc = "receipt" /\ handler'[h].outcome # "ok"
      /\ handler'[h].todo = handler'[h].batch
  BY <1>1 DEF Accept, Idle
<1>3. Accounts(h)'
  BY <1>2, StartAccounts
<1> QED
  BY <1>1, <1>2, <1>3, TablesStay, StepOf DEF Respects

LEMMA LookupStep ==
    ASSUME Strong, Typed', NEW h \in Handlers,
           LookupMisses(h) \/ LookupFindsReplay(h)
    PROVE  Strong'
<1>1. handler \in [Handlers -> Handler] /\ handler[h] \in Handler
  BY DEF Strong, Typed, TypeOK
<1>2. /\ UNCHANGED <<db, lock, tx>>
      /\ handler[h].pc = "receipt" /\ handler'[h].pc \in {"record", "replay"}
      /\ handler'[h].batch = handler[h].batch
      /\ handler'[h].todo = handler[h].todo
      /\ handler'[h].acks = handler[h].acks
      /\ handler'[h].outcome = handler[h].outcome
      /\ \A g \in Handlers \ {h} : handler'[g] = handler[g]
  BY <1>1 DEF LookupMisses, LookupFindsReplay, Handler
<1>3. View(h)' = View(h) /\ Current(h)' = Current(h)
  BY <1>2 DEF View, Current
<1>4. CASE LookupMisses(h)
  <2>1. handler'[h].pc = "record"
    BY <1>1, <1>4 DEF LookupMisses, Handler
  <2>2. ReadsStay(h)'
    BY <2>1 DEF ReadsStay
  <2> QED
    BY <1>2, <2>2, AdvanceStep DEF Working
<1>5. CASE LookupFindsReplay(h)
  <2>1. Current(h) \in View(h).receipts
    BY <1>5 DEF LookupFindsReplay
  <2>2. ReadsStay(h)'
    BY <1>2, <1>3, <2>1 DEF ReadsStay
  <2> QED
    BY <1>2, <2>2, AdvanceStep DEF Working
<1> QED
  BY <1>4, <1>5

LEMMA LoadStep ==
    ASSUME Strong, Typed', NEW h \in Handlers, LoadRecord(h)
    PROVE  Strong'
<1>1. handler \in [Handlers -> Handler] /\ handler[h] \in Handler
  BY DEF Strong, Typed, TypeOK
<1>2. /\ UNCHANGED <<db, lock, tx>>
      /\ handler[h].pc = "record" /\ handler'[h].pc = "write"
      /\ handler'[h].loaded = View(h).rows[Current(h).rec]
      /\ handler'[h].batch = handler[h].batch
      /\ handler'[h].todo = handler[h].todo
      /\ handler'[h].acks = handler[h].acks
      /\ handler'[h].outcome = handler[h].outcome
      /\ \A g \in Handlers \ {h} : handler'[g] = handler[g]
  BY <1>1 DEF LoadRecord, Handler
<1>3. ReadsStay(h)'
  BY <1>2 DEF ReadsStay, View, Current
<1> QED
  BY <1>2, <1>3, AdvanceStep DEF Working

LEMMA ReplayStep ==
    ASSUME Strong, Typed', NEW h \in Handlers, AcknowledgeReplay(h)
    PROVE  Strong'
<1>1. /\ handler[h].pc = "replay" /\ UNCHANGED <<db, lock, tx>>
      /\ Acknowledge(h, View(h).rows[Current(h).rec])
  BY DEF AcknowledgeReplay
<1>2. \A g \in Handlers \ {h} : handler'[g] = handler[g]
  BY <1>1 DEF Strong, Typed, TypeOK, Acknowledge
<1>3. Current(h) \in View(h).receipts
  BY <1>1 DEF Strong, Accounts, ReadsStay
<1>4. Accounts(h)'
  BY <1>1, <1>3, TablesStay, AcknowledgeAccounts DEF Strong, Working
<1> QED
  BY <1>1, <1>2, <1>4, TablesStay, StepOf DEF Respects

LEMMA WriteStep ==
    ASSUME Strong, Typed', NEW h \in Handlers, WriteMutation(h)
    PROVE  Strong'
<1> DEFINE m == Current(h)
           loaded == handler[h].loaded
           before == View(h)
           after == WithMutation(before, loaded, m)
<1>1. /\ handler[h].pc = "write" /\ lock \in {NoHandler, h}
      /\ ~ViolatesUniqueness(before, loaded, m)
      /\ tx' = after /\ lock' = h /\ db' = db
      /\ Acknowledge(h, AcknowledgedRow(before, loaded, m))
  BY DEF WriteMutation, CanWrite
<1>2. /\ handler \in [Handlers -> Handler] /\ db \in Database
      /\ loaded \in Row /\ h # NoHandler /\ tx' \in Database
  BY HandlerAssumption DEF Strong, Typed, TypeOK, Handler
<1>3. m \in Mutation
  BY <1>1, CurrentType DEF Strong, Working
<1>4. before \in Database /\ Sound(before) /\ Extends(before, db)
  BY ViewIsSound DEF Strong
<1>5. Exists(loaded) => Exists(before.rows[m.rec])
  BY <1>1 DEF Strong, Accounts, ReadsStay
<1> HIDE DEF m, loaded, before
<1>6. Sound(after) /\ Extends(after, before) /\ m \in after.receipts
  BY <1>1, <1>2, <1>3, <1>4, <1>5, WriteKeepsSound
<1>7. after \in Database
  BY <1>1, <1>2
<1> HIDE DEF after
<1>8. Extends(after, db)
  BY <1>2, <1>4, <1>6, <1>7, ExtendsTransitive
<1>9. Tables'
  BY <1>1, <1>6, <1>8 DEF Strong, Tables
<1>10. View(h)' = after
  BY <1>1 DEF View
<1>11. Respects(h)
  <2>1. ASSUME NEW g \in Handlers \ {h}
        PROVE  View(g)' = db /\ View(g) = db /\ handler'[g] = handler[g]
    BY <1>1, <1>2, HandlerAssumption DEF View, Acknowledge
  <2> QED
    BY <2>1, <1>1, <1>2, ExtendsItself DEF Respects
<1>12. Accounts(h)'
  <2>1. Current(h) \in (View(h)').receipts
    BY <1>6, <1>10 DEF m
  <2>2. View(h).receipts \subseteq (View(h)').receipts
    BY <1>6, <1>10 DEF Extends, before
  <2> QED
    BY <2>1, <2>2, <1>1, AcknowledgeAccounts DEF Strong, Working
<1> QED
  BY <1>9, <1>11, <1>12, StepOf

LEMMA RetryStep ==
    ASSUME Strong, Typed', NEW h \in Handlers, RetryPush(h)
    PROVE  Strong'
<1>1. handler \in [Handlers -> Handler] /\ Rollback(h)
  BY DEF Strong, Typed, TypeOK, RetryPush
<1>2. /\ \A g \in Handlers \ {h} : handler'[g] = handler[g]
      /\ handler'[h].pc = "receipt" /\ handler'[h].outcome # "ok"
      /\ handler'[h].todo = handler'[h].batch
  BY <1>1 DEF RetryPush, Idle
<1> QED
  BY <1>1, <1>2, RollbackRespects, StartAccounts, StepOf

LEMMA CommitStep ==
    ASSUME Strong, Typed', NEW h \in Handlers, Commit(h)
    PROVE  Strong'
<1>1. /\ handler[h].pc = "commit" /\ handler[h].todo = <<>>
      /\ db' = View(h) /\ EndTransaction(h) /\ Answer(h, "ok")
  BY DEF Commit, Strong, Accounts
<1>2. /\ db \in Database /\ h # NoHandler
      /\ View(h) \in Database /\ Sound(View(h)) /\ Extends(View(h), db)
  BY HandlerAssumption, ViewIsSound DEF Strong, Typed, TypeOK
<1>3. /\ \A g \in Handlers \ {h} : handler'[g] = handler[g]
      /\ handler'[h].pc = "done" /\ handler'[h].outcome = "ok"
      /\ handler'[h].batch = handler[h].batch
      /\ handler'[h].acks = handler[h].acks
  BY <1>1, AnswerRespects DEF Strong
<1>4. lock # h => db' = db
  BY <1>1 DEF View
<1>5. Tables'
  BY <1>1, <1>2, <1>4 DEF EndTransaction, Strong, Tables
<1>6. ASSUME NEW g \in Handlers \ {h}
      PROVE  Extends(View(g)', View(g))
  <2>1. CASE lock = h
    <3>1. View(g)' = db' /\ View(g) = db
      BY <2>1, <1>1, HandlerAssumption DEF EndTransaction, View
    <3> QED
      BY <3>1, <1>1, <1>2
  <2>2. CASE lock # h
    <3>1. View(g)' = View(g)
      BY <2>2, <1>1, <1>4 DEF EndTransaction, View
    <3>2. View(g) \in Database
      BY ViewType DEF Strong, Typed
    <3> QED
      BY <3>1, <3>2, ExtendsItself
  <2> QED
    BY <2>1, <2>2
<1>7. Accounts(h)'
  <2>1. \A i \in 1..Len(handler[h].batch) :
            Accounted(h, handler[h].batch[i], View(h))
    BY <1>1 DEF Strong, Accounts, LoopAccounts
  <2>2. AnswerAccounts(h)'
    BY <2>1, <1>1, <1>3 DEF AnswerAccounts, Accounted
  <2> QED
    BY <2>2, <1>3 DEF Accounts, ReadsStay, LoopAccounts
<1> QED
  BY <1>1, <1>2, <1>3, <1>5, <1>6, <1>7, StepOf DEF Respects

LEMMA RespondStep ==
    ASSUME Strong, Typed', NEW h \in Handlers, Respond(h)
    PROVE  Strong'
<1>1. handler \in [Handlers -> Handler] /\ UNCHANGED <<db, lock, tx>>
  BY DEF Strong, Typed, TypeOK, Respond
<1>2. /\ \A g \in Handlers \ {h} : handler'[g] = handler[g]
      /\ handler'[h].pc = "idle" /\ handler'[h].outcome # "ok"
  BY <1>1 DEF Respond, Idle
<1> QED
  BY <1>1, <1>2, RestAccounts, TablesStay, StepOf DEF Respects

LEMMA RestartStep ==
    ASSUME Strong, Typed', Restart
    PROVE  Strong'
<1>1. ASSUME NEW h \in Handlers
      PROVE  Accounts(h)'
  BY RestAccounts DEF Restart, Idle
<1> QED
  BY <1>1 DEF Restart, Strong, Tables

LEMMA StrongStep == Strong /\ [Next]_vars => Strong'
<1> SUFFICES ASSUME Strong, [Next]_vars PROVE Strong'
  OBVIOUS
<1>1. Typed'
  BY TypedStep DEF Strong
<1>2. ASSUME NEW h \in Handlers,
             \/ LookupFindsConflict(h)
             \/ GiveUpPush(h)
             \/ Fail(h)
      PROVE  Strong'
  BY <1>1, <1>2, AbortStep DEF LookupFindsConflict, GiveUpPush, Fail
<1>3. CASE UNCHANGED vars
  BY <1>3 DEF vars, Strong, Typed, TypeOK, HasCurrent, Tables, Accounts,
              ReadsStay, LoopAccounts, AnswerAccounts, Accounted, View,
              Current
<1> QED
  BY <1>1, <1>2, <1>3, AcceptStep, LookupStep, ReplayStep, LoadStep,
     WriteStep, RetryStep, CommitStep, RespondStep, RestartStep DEF Next

-----------------------------------------------------------------------------
(***************************************************************************)
(* The theorems.                                                           *)
(***************************************************************************)

LEMMA Invariance == Spec => []Strong
BY StrongInit, StrongStep, PTL DEF Spec

\* The committed tables and those of the transaction in progress are sound, the
\* transaction only adds, and no handler loses sight of a mutation, whatever
\* requests overlap, fail or die.
THEOREM InductiveInvariant == Spec => []Inductive
<1>1. Strong => Inductive
  BY Parts DEF Strong
<1> QED
  BY <1>1, Invariance, PTL

\* The service never finds a receipt without its record
\* (sync_service.py:58-59).
THEOREM ReceiptsHaveRecords == Spec => []ReceiptHasRecord
<1>1. Strong => ReceiptHasRecord
  BY ViewIsSound DEF Strong, ReceiptHasRecord, Sound
<1> QED
  BY <1>1, Invariance, PTL

\* Pages that are cut by revision lose no record: two rows never have the same
\* revision.
THEOREM RevisionsAreUnique == Spec => []RevisionsIdentifyRows
<1>1. Strong => RevisionsIdentifyRows
  BY DEF Strong, Tables, Sound, RevisionsIdentifyRows
<1> QED
  BY <1>1, Invariance, PTL

\* What an answer 200 acknowledges is committed, every mutation of it.
THEOREM AnswersAreDurable == Spec => []AcknowledgedIsDurable
<1>1. Strong => AcknowledgedIsDurable
  BY DEF Strong, Accounts, AnswerAccounts, Accounted, AcknowledgedIsDurable
<1> QED
  BY <1>1, Invariance, PTL

\* The only step that changes committed tables is a commit, which extends them.
LEMMA CommittedGrows == Strong /\ [Next]_vars => Extends(db', db)
<1> SUFFICES ASSUME Strong, [Next]_vars PROVE Extends(db', db)
  OBVIOUS
<1>1. db \in Database /\ Extends(db, db)
  BY ExtendsItself DEF Strong, Typed, TypeOK
<1>2. ASSUME NEW h \in Handlers, Commit(h)
      PROVE  Extends(db', db)
  BY <1>2, ViewIsSound DEF Commit, Strong
<1>3. CASE \E h \in Handlers : Commit(h)
  BY <1>2, <1>3
<1>4. CASE ~\E h \in Handlers : Commit(h)
  <2>1. db' = db
    BY <1>4 DEF Next, vars, Accept, LookupMisses, LookupFindsReplay,
       AcknowledgeReplay, LookupFindsConflict, LoadRecord, WriteMutation,
       RetryPush, GiveUpPush, Fail, Respond, Restart, Rollback
  <2> QED
    BY <1>1, <2>1
<1> QED
  BY <1>3, <1>4

\* A device that has pulled up to a revision misses nothing that is committed
\* later: every changed row is above all that was visible.
THEOREM CommitsGoForward == Spec => CommitsAdvance
<1>1. Strong /\ [Next]_vars =>
        [\A r \in RecordIds :
            db'.rows[r] # db.rows[r] => db'.rows[r].revision > db.revision]_vars
  BY CommittedGrows DEF Extends
<1> QED
  BY <1>1, Invariance, PTL DEF Spec, CommitsAdvance

\* However often a mutation is sent, and whatever runs at the same time, it
\* changes a row once.
THEOREM MutationsApplyOnce == Spec => AppliedOnce
<1>1. Strong /\ [Next]_vars =>
        [\A r \in RecordIds :
            db'.rows[r].revision # db.rows[r].revision
              => ReceiptsOf(db, db'.rows[r].last) = {}]_vars
  BY CommittedGrows DEF Extends
<1> QED
  BY <1>1, Invariance, PTL DEF Spec, AppliedOnce
-----------------------------------------------------------------------------
(***************************************************************************)
(* A request is accepted whole or not at all.  Every receipt belongs to a  *)
(* request that has all of them, and the transaction in progress adds only *)
(* receipts of its own request.                                            *)
(***************************************************************************)

Busy == Working \cup {"commit"}

Whole(m, tables) ==
    \E b \in Batches : m \in ToSet(b) /\ ToSet(b) \subseteq tables.receipts

Owns(h) ==
    /\ handler[h].pc \in Working =>
          ToSet(handler[h].todo) \subseteq ToSet(handler[h].batch)
    /\ lock = h =>
          /\ handler[h].pc \in Busy
          /\ \A m \in tx.receipts :
                Whole(m, db) \/ m \in ToSet(handler[h].batch)

Atomic == (\A m \in db.receipts : Whole(m, db)) /\ \A h \in Handlers : Owns(h)

LEMMA AtomicInit == Init => Atomic
BY HandlerAssumption DEF Init, Atomic, Owns, EmptyDatabase, Idle, Working

\* A step that changes no table: the holder of the lock stays at its request.
LEMMA AtomicStays ==
    ASSUME Atomic, NEW h \in Handlers, UNCHANGED <<db, lock, tx>>,
           \A g \in Handlers \ {h} : handler'[g] = handler[g],
           lock = h => /\ handler'[h].pc \in Busy
                       /\ handler'[h].batch = handler[h].batch,
           handler'[h].pc \in Working =>
              ToSet(handler'[h].todo) \subseteq ToSet(handler'[h].batch)
    PROVE  Atomic'
<1>1. Owns(h)'
  BY DEF Atomic, Owns, Whole
<1>2. ASSUME NEW g \in Handlers \ {h}
      PROVE  Owns(g)'
  BY <1>2 DEF Atomic, Owns, Whole
<1> QED
  BY <1>1, <1>2 DEF Atomic, Whole

\* A step that gives up what it had written.
LEMMA AtomicRollback ==
    ASSUME Atomic, NEW h \in Handlers, Rollback(h),
           \A g \in Handlers \ {h} : handler'[g] = handler[g],
           handler'[h].pc \in Working =>
              ToSet(handler'[h].todo) \subseteq ToSet(handler'[h].batch)
    PROVE  Atomic'
<1>1. lock' # h /\ db' = db
  BY HandlerAssumption DEF Rollback, EndTransaction
<1>2. Owns(h)'
  BY <1>1 DEF Owns
<1>3. ASSUME NEW g \in Handlers \ {h}
      PROVE  Owns(g)'
  <2>1. lock' = g => lock = g /\ tx' = tx
    BY HandlerAssumption DEF Rollback, EndTransaction
  <2> QED
    BY <1>1, <2>1 DEF Atomic, Owns, Whole
<1> QED
  BY <1>1, <1>2, <1>3 DEF Atomic, Whole

LEMMA AtomicAbort ==
    ASSUME Strong, Atomic, NEW h \in Handlers, NEW outcome,
           Answer(h, outcome), Rollback(h)
    PROVE  Atomic'
BY AnswerRespects, AtomicRollback DEF Strong, Working

\* The mutation that has been acknowledged leaves the list, the others stay.
LEMMA AcknowledgeTodo ==
    ASSUME Strong, NEW h \in Handlers, handler[h].pc \in Working,
           NEW row, Acknowledge(h, row)
    PROVE  /\ \A g \in Handlers \ {h} : handler'[g] = handler[g]
           /\ handler'[h].pc \in Busy
           /\ handler'[h].batch = handler[h].batch
           /\ ToSet(handler'[h].todo) \subseteq ToSet(handler[h].todo)
           /\ Current(h) \in ToSet(handler[h].todo)
<1>1. /\ handler \in [Handlers -> Handler] /\ handler[h] \in Handler
      /\ handler[h].todo \in Seq(Mutation) /\ handler[h].todo # <<>>
  BY CurrentType DEF Strong, Typed, TypeOK
<1>2. /\ \A g \in Handlers \ {h} : handler'[g] = handler[g]
      /\ handler'[h].pc \in Busy
      /\ handler'[h].batch = handler[h].batch
      /\ handler'[h].todo = Tail(handler[h].todo)
  BY <1>1 DEF Acknowledge, Handler, Busy, Working
<1>3. \A i \in 1..Len(Tail(handler[h].todo)) :
          /\ i + 1 \in 1..Len(handler[h].todo)
          /\ Tail(handler[h].todo)[i] = handler[h].todo[i + 1]
  BY <1>1
<1>4. ToSet(Tail(handler[h].todo)) \subseteq ToSet(handler[h].todo)
  BY <1>1, <1>3 DEF ToSet
<1>5. Current(h) \in ToSet(handler[h].todo)
  BY <1>1 DEF Current, ToSet
<1> QED
  BY <1>2, <1>4, <1>5

LEMMA AtomicWrite ==
    ASSUME Strong, Atomic, NEW h \in Handlers, WriteMutation(h)
    PROVE  Atomic'
<1> DEFINE m == Current(h)
           loaded == handler[h].loaded
<1>1. /\ handler[h].pc = "write" /\ lock \in {NoHandler, h}
      /\ tx' = WithMutation(View(h), loaded, m) /\ lock' = h /\ db' = db
      /\ Acknowledge(h, AcknowledgedRow(View(h), loaded, m))
  BY DEF WriteMutation, CanWrite
<1>2. View(h) \in Database
  BY ViewType DEF Strong, Typed
<1>3. tx'.receipts = View(h).receipts \cup {m}
  BY <1>1, <1>2 DEF WithMutation, Database
<1>4. /\ \A g \in Handlers \ {h} : handler'[g] = handler[g]
      /\ handler'[h].pc \in Busy /\ handler'[h].batch = handler[h].batch
      /\ ToSet(handler'[h].todo) \subseteq ToSet(handler[h].todo)
      /\ m \in ToSet(handler[h].todo)
  BY <1>1, AcknowledgeTodo DEF Working
<1> HIDE DEF m
<1>5. ToSet(handler[h].todo) \subseteq ToSet(handler[h].batch)
  BY <1>1 DEF Atomic, Owns, Working
<1>6. ASSUME NEW n \in View(h).receipts
      PROVE  Whole(n, db) \/ n \in ToSet(handler[h].batch)
  BY <1>6 DEF View, Atomic, Owns
<1>7. Owns(h)'
  BY <1>1, <1>3, <1>4, <1>5, <1>6 DEF Owns, Whole
<1>8. ASSUME NEW g \in Handlers \ {h}
      PROVE  Owns(g)'
  BY <1>1, <1>4, <1>8 DEF Atomic, Owns
<1> QED
  BY <1>1, <1>7, <1>8 DEF Atomic, Whole

LEMMA AtomicCommit ==
    ASSUME Strong, Atomic, NEW h \in Handlers, Commit(h)
    PROVE  Atomic'
<1>1. /\ handler[h].pc = "commit" /\ handler[h].todo = <<>>
      /\ db' = View(h) /\ EndTransaction(h) /\ Answer(h, "ok")
  BY DEF Commit, Strong, Accounts
<1>2. /\ \A g \in Handlers \ {h} : handler'[g] = handler[g]
      /\ handler'[h].pc = "done"
  BY <1>1, AnswerRespects DEF Strong
<1>3. db.receipts \subseteq db'.receipts
  BY <1>1, ViewIsSound DEF Strong, Extends
<1>4. \A m : Whole(m, db) => Whole(m, db')
  BY <1>3 DEF Whole
<1>5. ToSet(handler[h].batch) \subseteq db'.receipts
  <2>1. handler[h].batch \in Seq(Mutation)
    <3>1. handler[h] \in Handler /\ <<>> \in Seq(Mutation)
      BY DEF Strong, Typed, TypeOK
    <3> QED
      BY <3>1, BatchType DEF Handler
  <2>2. \A i \in 1..Len(handler[h].batch) : handler[h].batch[i] \in View(h).receipts
    BY <1>1 DEF Strong, Accounts, LoopAccounts, Accounted
  <2> QED
    BY <1>1, <2>1, <2>2 DEF ToSet
<1>6. ASSUME NEW m \in ToSet(handler[h].batch)
      PROVE  Whole(m, db')
  <2>1. handler[h].batch \in Batches
    BY <1>6 DEF Strong, Typed, TypeOK, Handler, ToSet
  <2> QED
    BY <1>5, <1>6, <2>1 DEF Whole
<1>7. ASSUME NEW m \in db'.receipts
      PROVE  Whole(m, db')
  BY <1>1, <1>4, <1>6, <1>7 DEF View, Atomic, Owns
<1>8. ASSUME NEW g \in Handlers
      PROVE  Owns(g)'
  <2>1. CASE g = h
    BY <1>1, <1>2, <2>1, HandlerAssumption DEF Owns, EndTransaction, Working
  <2>2. CASE g # h
    <3>1. lock' = g => lock = g /\ tx' = tx
      BY <1>1, HandlerAssumption DEF EndTransaction
    <3>2. \A m : Whole(m, db) => Whole(m, db)'
      BY <1>4 DEF Whole
    <3> QED
      BY <1>2, <2>2, <3>1, <3>2 DEF Atomic, Owns
  <2> QED
    BY <2>1, <2>2
<1> QED
  BY <1>7, <1>8 DEF Atomic, Whole

LEMMA AtomicStep == Strong /\ Atomic /\ [Next]_vars => Atomic'
<1> SUFFICES ASSUME Strong, Atomic, [Next]_vars PROVE Atomic'
  OBVIOUS
<1>t. handler \in [Handlers -> Handler] /\ \A h \in Handlers : handler[h] \in Handler
  BY DEF Strong, Typed, TypeOK
<1>1. ASSUME NEW h \in Handlers, NEW batch \in Batches, Accept(h, batch)
      PROVE  Atomic'
  <2>1. /\ UNCHANGED <<db, lock, tx>> /\ handler[h].pc = "idle"
        /\ \A g \in Handlers \ {h} : handler'[g] = handler[g]
        /\ handler'[h].todo = handler'[h].batch
    BY <1>1, <1>t DEF Accept, Idle
  <2>2. lock # h
    BY <2>1 DEF Atomic, Owns, Busy, Working
  <2> QED
    BY <2>1, <2>2, AtomicStays
<1>2. ASSUME NEW h \in Handlers,
             LookupMisses(h) \/ LookupFindsReplay(h) \/ LoadRecord(h)
      PROVE  Atomic'
  <2>1. /\ UNCHANGED <<db, lock, tx>> /\ handler[h].pc \in Working
        /\ \A g \in Handlers \ {h} : handler'[g] = handler[g]
        /\ handler'[h].todo = handler[h].todo
        /\ handler'[h].batch = handler[h].batch
        /\ handler'[h].pc \in Working
    BY <1>2, <1>t DEF LookupMisses, LookupFindsReplay, LoadRecord, Handler, Working
  <2>2. ToSet(handler[h].todo) \subseteq ToSet(handler[h].batch)
    BY <2>1 DEF Atomic, Owns
  <2> QED
    BY <2>1, <2>2, AtomicStays DEF Busy
<1>3. ASSUME NEW h \in Handlers, AcknowledgeReplay(h)
      PROVE  Atomic'
  <2>1. /\ UNCHANGED <<db, lock, tx>> /\ handler[h].pc \in Working
        /\ Acknowledge(h, View(h).rows[Current(h).rec])
    BY <1>3 DEF AcknowledgeReplay, Working
  <2>2. ToSet(handler[h].todo) \subseteq ToSet(handler[h].batch)
    BY <2>1 DEF Atomic, Owns
  <2>3. /\ \A g \in Handlers \ {h} : handler'[g] = handler[g]
        /\ handler'[h].pc \in Busy /\ handler'[h].batch = handler[h].batch
        /\ ToSet(handler'[h].todo) \subseteq ToSet(handler[h].todo)
    BY <2>1, AcknowledgeTodo
  <2> QED
    BY <2>1, <2>2, <2>3, AtomicStays
<1>4. ASSUME NEW h \in Handlers,
             LookupFindsConflict(h) \/ GiveUpPush(h) \/ Fail(h)
      PROVE  Atomic'
  BY <1>4, AtomicAbort DEF LookupFindsConflict, GiveUpPush, Fail
<1>5. ASSUME NEW h \in Handlers, RetryPush(h)
      PROVE  Atomic'
  <2>1. /\ Rollback(h)
        /\ \A g \in Handlers \ {h} : handler'[g] = handler[g]
        /\ handler'[h].todo = handler'[h].batch
    BY <1>5, <1>t DEF RetryPush, Idle
  <2> QED
    BY <2>1, AtomicRollback
<1>6. ASSUME NEW h \in Handlers, Respond(h)
      PROVE  Atomic'
  <2>1. /\ UNCHANGED <<db, lock, tx>> /\ handler[h].pc = "done"
        /\ \A g \in Handlers \ {h} : handler'[g] = handler[g]
        /\ handler'[h].pc = "idle"
    BY <1>6, <1>t DEF Respond, Idle
  <2>2. lock # h
    BY <2>1 DEF Atomic, Owns, Busy, Working
  <2> QED
    BY <2>1, <2>2, AtomicStays DEF Working
<1>7. CASE Restart
  BY <1>7, HandlerAssumption DEF Restart, Atomic, Owns, Whole, Idle, Working
<1>8. CASE UNCHANGED vars
  BY <1>8 DEF vars, Atomic, Owns, Whole
<1> QED
  BY <1>1, <1>2, <1>3, <1>4, <1>5, <1>6, <1>7, <1>8, AtomicWrite, AtomicCommit
     DEF Next

\* A mutation that only one request carries is never committed without the rest
\* of the request, whatever requests overlap, fail or die.
THEOREM RequestsAreAtomic == Spec => []BatchIsAtomic
<1>1. Atomic => BatchIsAtomic
  <2> SUFFICES ASSUME Atomic, NEW b \in Batches, NEW i \in 1..Len(b), NEW j \in 1..Len(b),
                      b[i] \in db.receipts,
                      \A c \in Batches \ {b} : \A k \in 1..Len(c) : c[k] # b[i]
               PROVE  ReceiptsOf(db, b[j].id) # {}
    BY DEF BatchIsAtomic
  <2>1. PICK c \in Batches : b[i] \in ToSet(c) /\ ToSet(c) \subseteq db.receipts
    BY DEF Atomic, Whole
  <2>2. b \in Seq(Mutation) /\ c \in Seq(Mutation)
    BY BatchType
  <2>3. c = b
    BY <2>1, <2>2 DEF ToSet
  <2>4. b[j] \in db.receipts
    BY <2>1, <2>2, <2>3 DEF ToSet
  <2> QED
    BY <2>4 DEF ReceiptsOf
<1> QED
  BY <1>1, AtomicInit, AtomicStep, Invariance, PTL DEF Spec
-----------------------------------------------------------------------------
(***************************************************************************)
(* One request at a time, the endpoint is SyncStore: what a busy handler   *)
(* sees is what PushOne has made of the committed tables for the mutations *)
(* that the handler has dealt with.                                        *)
(***************************************************************************)

OneAtATime == \A g, h \in Handlers : g = h

Chained(f, tables, batch) ==
    /\ f \in [0..Len(batch) -> Served]
    /\ f[0] = Unserved(tables)
    /\ \A n \in 1..Len(batch) : f[n] = PushOne(f[n - 1], batch[n])
    /\ Push(tables, batch) = f[Len(batch)]

Follows(h, f, n) ==
    /\ n \in 0..Len(handler[h].batch)
    /\ Len(handler[h].todo) = Len(handler[h].batch) - n
    /\ \A j \in 1..Len(handler[h].todo) :
          handler[h].todo[j] = handler[h].batch[n + j]
    /\ f[n].db = View(h) /\ ~f[n].rejected

\* What has been read in this request is still what the handler sees.
ReadsHold(h) ==
    /\ handler[h].pc \in {"record", "write"} =>
          ReceiptsOf(View(h), Current(h).id) = {}
    /\ handler[h].pc = "write" =>
          handler[h].loaded = View(h).rows[Current(h).rec]

Serves(h) ==
    handler[h].pc \in Busy =>
        /\ \E f : Chained(f, db, handler[h].batch) /\ \E n : Follows(h, f, n)
        /\ ReadsHold(h)

Serving == \A h \in Handlers : Serves(h)

\* What the proofs about one request at a time rest on.
InStep == Strong /\ Atomic /\ Serving

LEMMA ServingInit == Init => Serving
BY DEF Init, Serving, Serves, Idle, Busy, Working

\* A handler that starts a request sees the committed tables.
LEMMA ServingStarts ==
    ASSUME Strong, Strong', NEW h \in Handlers, handler'[h].pc = "receipt",
           handler'[h].todo = handler'[h].batch, View(h)' = db'
    PROVE  Serves(h)'
<1>1. db' \in Database /\ handler'[h].batch \in Seq(Mutation)
  BY BatchType DEF Strong, Typed, TypeOK, HasCurrent, Working
<1> DEFINE batch == handler'[h].batch
<1>2. PICK f \in [0..Len(batch) -> Served] :
          /\ f[0] = Unserved(db')
          /\ \A n \in 1..Len(batch) : f[n] = PushOne(f[n - 1], batch[n])
          /\ Push(db', batch) = f[Len(batch)]
  <2> HIDE DEF batch
  <2> QED
    BY <1>1, PushIsAChain DEF batch
<1>3. Chained(f, db', batch)
  BY <1>2 DEF Chained
<1>4. f[0].db = db' /\ ~f[0].rejected
  BY <1>2 DEF Unserved
<1>5. Len(batch) \in Nat
  BY <1>1
<1>6. Follows(h, f, 0)'
  BY <1>4, <1>5 DEF Follows
<1> QED
  BY <1>3, <1>6 DEF Serves, ReadsHold

\* A handler that goes on to its next statement has dealt with as many.
LEMMA ServingGoesOn ==
    ASSUME Serving, NEW h \in Handlers, handler[h].pc \in Busy,
           UNCHANGED <<db, lock, tx>>,
           handler'[h].batch = handler[h].batch,
           handler'[h].todo = handler[h].todo, ReadsHold(h)'
    PROVE  Serves(h)'
<1>1. View(h)' = View(h)
  BY DEF View
<1>2. PICK f : Chained(f, db, handler[h].batch) /\ \E n : Follows(h, f, n)
  BY DEF Serving, Serves
<1>3. PICK n : Follows(h, f, n)
  BY <1>2
<1>4. Follows(h, f, n)'
  BY <1>1, <1>3 DEF Follows
<1>5. Chained(f, db', handler'[h].batch)
  BY <1>2
<1> QED
  BY <1>4, <1>5 DEF Serves

\* An acknowledgement deals with one mutation more.
LEMMA ServingAcknowledges ==
    ASSUME Strong, Serving, NEW h \in Handlers, handler[h].pc \in Working,
           NEW row, Acknowledge(h, row), db' = db,
           \A p \in Served : p.db = View(h) /\ ~p.rejected =>
              /\ PushOne(p, Current(h)).db = View(h)'
              /\ ~PushOne(p, Current(h)).rejected
    PROVE  Serves(h)'
<1> DEFINE todo == handler[h].todo
           batch == handler[h].batch
<1>1. /\ handler \in [Handlers -> Handler] /\ handler[h] \in Handler
      /\ todo \in Seq(Mutation) /\ todo # <<>>
      /\ batch \in Seq(Mutation)
  BY CurrentType, BatchType DEF Strong, Typed, TypeOK, HasCurrent
<1>2. /\ handler'[h].batch = batch
      /\ handler'[h].todo = Tail(todo)
      /\ handler'[h].pc \in {"commit", "receipt"}
  BY <1>1 DEF Acknowledge, Handler
<1>3. PICK f : Chained(f, db, batch) /\ \E n : Follows(h, f, n)
  BY DEF Serving, Serves, Busy
<1>4. PICK n : Follows(h, f, n)
  BY <1>3
<1>5. /\ n \in 0..Len(batch) /\ Len(todo) = Len(batch) - n
      /\ Len(todo) \in Nat \ {0} /\ Len(batch) \in Nat
      /\ \A j \in 1..Len(todo) : todo[j] = batch[n + j]
      /\ f[n].db = View(h) /\ ~f[n].rejected
  BY <1>1, <1>4 DEF Follows
<1> HIDE DEF todo, batch
<1>6. /\ n + 1 \in 1..Len(batch) /\ (n + 1) - 1 = n
      /\ n + 1 \in 0..Len(batch)
  BY <1>5
<1>7. batch[n + 1] = Current(h)
  BY <1>1, <1>5 DEF Current, todo
<1>8. f[n] \in Served /\ f[n + 1] = PushOne(f[n], Current(h))
  BY <1>3, <1>5, <1>6, <1>7 DEF Chained
<1>9. f[n + 1].db = View(h)' /\ ~f[n + 1].rejected
  BY <1>5, <1>8
<1>10. /\ Len(Tail(todo)) = Len(batch) - (n + 1)
       /\ \A j \in 1..Len(Tail(todo)) : Tail(todo)[j] = batch[(n + 1) + j]
  <2>1. Len(Tail(todo)) = Len(todo) - 1
    BY <1>1
  <2>2. ASSUME NEW j \in 1..Len(Tail(todo))
        PROVE  Tail(todo)[j] = batch[(n + 1) + j]
    <3>1. Tail(todo)[j] = todo[j + 1] /\ j + 1 \in 1..Len(todo)
      BY <1>1, <2>1
    <3>2. n + (j + 1) = (n + 1) + j
      BY <1>5
    <3> QED
      BY <1>5, <3>1, <3>2
  <2> QED
    BY <1>5, <2>1, <2>2
<1>11. Follows(h, f, n + 1)'
  BY <1>2, <1>6, <1>9, <1>10 DEF Follows
<1>12. ReadsHold(h)'
  BY <1>2 DEF ReadsHold
<1> QED
  BY <1>2, <1>3, <1>11, <1>12 DEF Serves

\* A replay changes nothing but the acknowledgements.
LEMMA ServingReplays ==
    ASSUME Strong, Serving, NEW h \in Handlers, AcknowledgeReplay(h)
    PROVE  Serves(h)'
<1>1. /\ handler[h].pc = "replay" /\ UNCHANGED <<db, lock, tx>>
      /\ Acknowledge(h, View(h).rows[Current(h).rec])
  BY DEF AcknowledgeReplay
<1>2. Current(h) \in View(h).receipts
  BY <1>1 DEF Strong, Accounts, ReadsStay
<1>3. ASSUME NEW p \in Served, p.db = View(h), ~p.rejected
      PROVE  /\ PushOne(p, Current(h)).db = View(h)'
             /\ ~PushOne(p, Current(h)).rejected
  <2>1. View(h)' = View(h)
    BY <1>1 DEF View
  <2>2. Current(h) \in ReceiptsOf(p.db, Current(h).id)
    BY <1>2, <1>3 DEF ReceiptsOf
  <2> QED
    BY <1>3, <2>1, <2>2 DEF PushOne, Served
<1> QED
  BY <1>1, <1>3, ServingAcknowledges DEF Working

\* A mutation is written from the row that is there.
LEMMA ServingWrites ==
    ASSUME Strong, Serving, NEW h \in Handlers, WriteMutation(h)
    PROVE  Serves(h)'
<1> DEFINE m == Current(h)
<1>1. /\ handler[h].pc = "write"
      /\ tx' = WithMutation(View(h), handler[h].loaded, m) /\ lock' = h /\ db' = db
      /\ Acknowledge(h, AcknowledgedRow(View(h), handler[h].loaded, m))
  BY DEF WriteMutation, CanWrite
<1>2. /\ ReceiptsOf(View(h), m.id) = {}
      /\ handler[h].loaded = View(h).rows[m.rec]
  BY <1>1 DEF Serving, Serves, ReadsHold, Busy, Working
<1>3. View(h)' = tx'
  BY <1>1 DEF View
<1>4. ASSUME NEW p \in Served, p.db = View(h), ~p.rejected
      PROVE  /\ PushOne(p, m).db = View(h)'
             /\ ~PushOne(p, m).rejected
  <2> HIDE DEF m
  <2> QED
    BY <1>1, <1>2, <1>3, <1>4 DEF PushOne, Served
<1> QED
  BY <1>1, <1>4, ServingAcknowledges DEF Working

LEMMA ServingStep ==
    ASSUME OneAtATime
    PROVE  InStep /\ [Next]_vars => Serving'
<1> SUFFICES ASSUME InStep, [Next]_vars PROVE Serving'
  OBVIOUS
<1>s. Strong /\ Strong' /\ Atomic /\ Serving
  BY StrongStep DEF InStep
<1>t. handler \in [Handlers -> Handler] /\ \A h \in Handlers : handler[h] \in Handler
  BY <1>s DEF Strong, Typed, TypeOK
<1>o. ASSUME NEW h \in Handlers, Serves(h)' PROVE Serving'
  BY <1>o DEF OneAtATime, Serving
<1>1. ASSUME NEW h \in Handlers, NEW batch \in Batches, Accept(h, batch)
      PROVE  Serving'
  <2>1. /\ UNCHANGED <<db, lock, tx>> /\ handler[h].pc = "idle"
        /\ handler'[h].pc = "receipt" /\ handler'[h].todo = handler'[h].batch
    BY <1>1, <1>t DEF Accept, Idle
  <2>2. View(h)' = db'
    BY <1>s, <2>1 DEF Atomic, Owns, Busy, Working, View
  <2> QED
    BY <1>s, <1>o, <2>1, <2>2, ServingStarts
<1>2. ASSUME NEW h \in Handlers,
             LookupMisses(h) \/ LookupFindsReplay(h) \/ LoadRecord(h)
      PROVE  Serving'
  <2>1. /\ UNCHANGED <<db, lock, tx>> /\ handler[h].pc \in {"receipt", "record"}
        /\ handler'[h].todo = handler[h].todo
        /\ handler'[h].batch = handler[h].batch
    BY <1>2, <1>t DEF LookupMisses, LookupFindsReplay, LoadRecord, Handler
  <2>2. View(h)' = View(h) /\ Current(h)' = Current(h)
    BY <2>1 DEF View, Current
  <2>3. ReadsHold(h)'
    <3>1. CASE LookupMisses(h)
      BY <3>1, <1>t, <2>2 DEF LookupMisses, ReadsHold, Handler
    <3>2. CASE LookupFindsReplay(h)
      BY <3>2, <1>t DEF LookupFindsReplay, ReadsHold, Handler
    <3>3. CASE LoadRecord(h)
      <4>1. ReceiptsOf(View(h), Current(h).id) = {}
        BY <3>3, <1>s DEF LoadRecord, Serving, Serves, ReadsHold, Busy, Working
      <4>2. handler'[h].loaded = View(h).rows[Current(h).rec]
        BY <3>3, <1>t DEF LoadRecord, Handler
      <4> QED
        BY <4>1, <4>2, <2>2 DEF ReadsHold
    <3> QED
      BY <1>2, <3>1, <3>2, <3>3
  <2> QED
    BY <1>s, <1>o, <2>1, <2>3, ServingGoesOn DEF Busy, Working
<1>3. ASSUME NEW h \in Handlers, AcknowledgeReplay(h) \/ WriteMutation(h)
      PROVE  Serving'
  BY <1>s, <1>o, <1>3, ServingReplays, ServingWrites
<1>4. ASSUME NEW h \in Handlers, NEW outcome, Answer(h, outcome)
      PROVE  Serving'
  <2>1. handler'[h].pc = "done"
    BY <1>4, <1>s, AnswerRespects DEF Strong
  <2> QED
    BY <1>o, <2>1 DEF Serves, Busy, Working
<1>5. ASSUME NEW h \in Handlers,
             \/ LookupFindsConflict(h) \/ GiveUpPush(h)
             \/ Fail(h) \/ Commit(h)
      PROVE  Serving'
  BY <1>4, <1>5 DEF LookupFindsConflict, GiveUpPush, Fail, Commit
<1>6. ASSUME NEW h \in Handlers, RetryPush(h)
      PROVE  Serving'
  <2>1. /\ Rollback(h) /\ handler'[h].pc = "receipt"
        /\ handler'[h].todo = handler'[h].batch
    BY <1>6, <1>t DEF RetryPush, Idle
  <2>2. View(h)' = db'
    BY <2>1, HandlerAssumption DEF Rollback, EndTransaction, View
  <2> QED
    BY <1>s, <1>o, <2>1, <2>2, ServingStarts
<1>7. ASSUME NEW h \in Handlers, Respond(h)
      PROVE  Serving'
  <2>1. handler'[h].pc = "idle"
    BY <1>7, <1>t DEF Respond, Idle
  <2> QED
    BY <1>o, <2>1 DEF Serves, Busy, Working
<1>8. CASE Restart
  BY <1>8 DEF Restart, Serving, Serves, Idle, Busy, Working
<1>9. CASE UNCHANGED vars
  <2>1. ASSUME NEW h \in Handlers, handler[h].pc \in Busy
        PROVE  Serves(h)'
    <3>1. ReadsHold(h)
      BY <1>s, <2>1 DEF Serving, Serves
    <3>2. ReadsHold(h)'
      BY <1>9, <3>1 DEF vars, ReadsHold, View, Current
    <3> QED
      BY <1>s, <1>9, <2>1, <3>2, ServingGoesOn DEF vars
  <2> QED
    BY <1>9, <2>1 DEF vars, Serving, Serves
<1> QED
  BY <1>1, <1>2, <1>3, <1>5, <1>6, <1>7, <1>8, <1>9 DEF Next

LEMMA ServedInvariance ==
    ASSUME OneAtATime
    PROVE  Spec => []InStep
<1>1. Init => InStep
  BY StrongInit, AtomicInit, ServingInit DEF InStep
<1>2. InStep /\ [Next]_vars => InStep'
  BY StrongStep, AtomicStep, ServingStep DEF InStep
<1> QED
  BY <1>1, <1>2, PTL DEF Spec

\* What changes the tables is a request that Push accepts.
LEMMA CommitServes ==
    ASSUME OneAtATime, InStep, [Next]_vars, db' # db
    PROVE  \E batch \in Batches :
              ~Push(db, batch).rejected /\ db' = Push(db, batch).db
<1>1. PICK h \in Handlers : Commit(h)
  BY DEF Next, vars, Accept, LookupMisses, LookupFindsReplay,
     AcknowledgeReplay, LookupFindsConflict, LoadRecord, WriteMutation,
     RetryPush, GiveUpPush, Fail, Respond, Restart, Rollback
<1> DEFINE batch == handler[h].batch
<1>2. handler[h].pc = "commit" /\ handler[h].todo = <<>> /\ db' = View(h)
  BY <1>1 DEF Commit, InStep, Strong, Accounts
<1>3. batch \in Batches \cup {<<>>}
  BY DEF InStep, Strong, Typed, TypeOK, Handler
<1>4. batch \in Seq(Mutation) /\ Len(batch) \in Nat
  <2>1. <<>> \in Seq(Mutation)
    OBVIOUS
  <2>2. batch \in Seq(Mutation)
    BY <1>3, <2>1, BatchType
  <2> QED
    BY <2>2
<1>5. PICK f : Chained(f, db, batch) /\ \E n : Follows(h, f, n)
  BY <1>2 DEF InStep, Serving, Serves, Busy
<1>6. PICK n : Follows(h, f, n)
  BY <1>5
<1>7. n = Len(batch) /\ f[n].db = db' /\ ~f[n].rejected
  BY <1>2, <1>4, <1>6 DEF Follows
<1>8. Push(db, batch) = f[n]
  BY <1>5, <1>7 DEF Chained
<1>9. batch # <<>>
  <2> SUFFICES ASSUME batch = <<>> PROVE FALSE
    OBVIOUS
  <2>1. f[0].db = db /\ n = 0
    BY <1>5, <1>7 DEF Chained, Unserved
  <2> QED
    BY <1>7, <2>1
<1> QED
  BY <1>3, <1>7, <1>8, <1>9

\* The service of SyncServer is the store of SyncStore.
LEMMA SameStore ==
    /\ Store!EmptyDatabase = EmptyDatabase
    /\ \A tables, batch : Store!Push(tables, batch) = Push(tables, batch)
BY DEF Store!EmptyDatabase, EmptyDatabase, Store!Push, Push, Store!PushOne, PushOne,
   Store!ReceiptsOf, ReceiptsOf, Store!WithMutation, WithMutation,
   Store!AcknowledgedRow, AcknowledgedRow, Store!Changes, Changes,
   Store!SavedObject, SavedObject, Store!FlushedRow, FlushedRow,
   Store!NoRow, NoRow, Store!NoPayload, NoPayload, Store!Exists, Exists,
   Store!TakesIncoming, TakesIncoming, Store!PositionIsStale, PositionIsStale,
   Store!ResolvedPayload, ResolvedPayload, Store!MergeHistory, MergeHistory,
   Store!MergePosition, MergePosition, Store!Larger, Larger

\* One request at a time, the push endpoint implements the atomic store that the
\* devices of CloudSync rely on, whatever fails in the middle of a request.
THEOREM StoreIsServed ==
    ASSUME OneAtATime
    PROVE  Spec => ServesStore
<1>1. Init => Store!Init
  BY SameStore DEF Init, Store!Init
<1>2. InStep /\ [Next]_vars => [Store!Next]_db
  <2> SUFFICES ASSUME InStep, [Next]_vars, db' # db PROVE Store!Next
    OBVIOUS
  <2>1. PICK batch \in Batches :
            ~Push(db, batch).rejected /\ db' = Push(db, batch).db
    BY CommitServes
  <2> QED
    BY <2>1, SameStore DEF Store!Next, Store!Serve
<1> QED
  BY <1>1, <1>2, ServedInvariance, PTL DEF Spec, ServesStore, Store!Spec
-----------------------------------------------------------------------------
(***************************************************************************)
(* What one request makes of a row: nothing, or what the rules make of the *)
(* row that was there and one of its mutations.                            *)
(***************************************************************************)

Resolved(old, new, m) ==
    /\ Changes(old, m)
    /\ new.payload = ResolvedPayload(old, m)
    /\ new.deleted = m.deleted /\ new.last = m.id

Resolves(tables, batch, n, p) ==
    \A r \in RecordIds :
        \/ p.rows[r] = tables.rows[r]
        \/ \E i \in 1..n :
              /\ batch[i].rec = r /\ batch[i] \in p.receipts
              /\ Resolved(tables.rows[r], p.rows[r], batch[i])

LEMMA PushOneResolves ==
    ASSUME NEW tables \in Database, NEW batch \in Seq(Mutation),
           \A i, j \in 1..Len(batch) : i # j => batch[i].rec # batch[j].rec,
           NEW n \in 1..Len(batch), NEW p \in Served,
           Resolves(tables, batch, n - 1, p.db)
    PROVE  Resolves(tables, batch, n, PushOne(p, batch[n]).db)
<1> DEFINE m == batch[n]
           row == p.db.rows[m.rec]
           q == PushOne(p, m)
<1>1. m \in Mutation /\ n \in Nat \ {0}
  OBVIOUS
<1>2. /\ p.db \in Database /\ m.rec \in RecordIds /\ row \in Row
      /\ p.db.rows \in [RecordIds -> Row] /\ p.db.revision + 1 \in Nat
  BY <1>1 DEF Served, Mutation, Database
<1>3. \A i \in 1..(n - 1) : i \in 1..n /\ i \in 1..Len(batch) /\ i # n
  BY <1>1
<1>4. CASE q.db = p.db
  BY <1>3, <1>4 DEF Resolves
<1>5. CASE q.db = WithMutation(p.db, row, m)
  <2> DEFINE saved == SavedObject(row, m, p.db.revision + 1)
  <2>1. FlushedRow(row, row, saved) = saved
    BY <1>1, <1>2, SavedObjectType, FlushedAsLoaded
  <2>2. CASE ~Changes(row, m)
    <3>1. q.db.rows = p.db.rows /\ p.db.receipts \subseteq q.db.receipts
      BY <1>2, <1>5, <2>2 DEF WithMutation, Database
    <3> HIDE DEF q
    <3>2. Resolves(tables, batch, n, q.db)
      BY <1>3, <3>1 DEF Resolves
    <3> QED
      BY <3>2 DEF q
  <2>3. CASE Changes(row, m)
    <3>1. /\ q.db.rows = [p.db.rows EXCEPT ![m.rec] = saved]
          /\ q.db.receipts = p.db.receipts \cup {m}
      BY <1>2, <1>5, <2>1, <2>3 DEF WithMutation
    <3>2. row = tables.rows[m.rec]
      BY <1>2, <1>3 DEF Resolves
    <3>3. Resolved(row, saved, m)
      BY <2>3 DEF Resolved, SavedObject
    <3> HIDE DEF q, saved, row
    <3>4. q.db.rows[m.rec] = saved /\ m \in q.db.receipts
      BY <1>2, <3>1
    <3>5. ASSUME NEW r \in RecordIds, r # m.rec
          PROVE  q.db.rows[r] = p.db.rows[r]
      BY <1>2, <3>1, <3>5
    <3>6. Resolves(tables, batch, n, q.db)
      <4>1. ASSUME NEW r \in RecordIds
            PROVE  \/ q.db.rows[r] = tables.rows[r]
                   \/ \E i \in 1..n :
                         /\ batch[i].rec = r /\ batch[i] \in q.db.receipts
                         /\ Resolved(tables.rows[r], q.db.rows[r], batch[i])
        <5>1. CASE r = m.rec
          BY <1>1, <3>2, <3>3, <3>4, <5>1
        <5>2. CASE r # m.rec
          BY <1>3, <3>1, <3>5, <5>2 DEF Resolves
        <5> QED
          BY <5>1, <5>2
      <4> QED
        BY <4>1 DEF Resolves
    <3> QED
      BY <3>6 DEF q
  <2> QED
    BY <2>2, <2>3
<1> QED
  BY <1>2, <1>4, <1>5 DEF PushOne, Served

LEMMA PushResolves ==
    ASSUME NEW tables \in Database, NEW batch \in Seq(Mutation),
           \A i, j \in 1..Len(batch) : i # j => batch[i].rec # batch[j].rec
    PROVE  Resolves(tables, batch, Len(batch), Push(tables, batch).db)
<1>1. PICK after \in [0..Len(batch) -> Served] :
          /\ after[0] = Unserved(tables)
          /\ \A n \in 1..Len(batch) : after[n] = PushOne(after[n - 1], batch[n])
          /\ Push(tables, batch) = after[Len(batch)]
  BY PushIsAChain
<1> DEFINE S == {k \in Nat : k <= Len(batch) => Resolves(tables, batch, k, after[k].db)}
<1>2. Len(batch) \in Nat
  OBVIOUS
<1>3. 0 \in S
  BY <1>1 DEF Unserved, Resolves
<1>4. ASSUME NEW k \in S PROVE k + 1 \in S
  <2> SUFFICES ASSUME k + 1 <= Len(batch)
               PROVE  Resolves(tables, batch, k + 1, after[k + 1].db)
    OBVIOUS
  <2>1. /\ k + 1 \in 1..Len(batch) /\ (k + 1) - 1 = k
        /\ after[k] \in Served /\ Resolves(tables, batch, k, after[k].db)
    BY <1>1, <1>2, <1>4
  <2>2. after[k + 1] = PushOne(after[k], batch[k + 1])
    BY <1>1, <2>1
  <2> QED
    BY <2>1, <2>2, PushOneResolves
<1>5. S = Nat
  <2> HIDE DEF S
  <2> QED
    BY <1>3, <1>4, InductiveSet DEF S
<1> QED
  BY <1>1, <1>2, <1>5

\* The three rules of _resolve, for a row that is there before and after.
LEMMA RulesOfResolve ==
    ASSUME NEW r \in RecordIds, NEW old \in Row, NEW new \in Row,
           NEW m \in Mutation, m.rec = r, Resolved(old, new, m)
    PROVE  /\ KindOf[r] = "register" => new.payload = m.payload
           /\ KindOf[r] = "history" /\ Live(old) /\ Live(new) =>
                /\ new.payload.progress >= old.payload.progress
                /\ new.payload.at >= old.payload.at
           /\ KindOf[r] = "position" /\ Live(old) /\ Live(new) =>
                /\ new.payload.at >= old.payload.at
                /\ new.payload.at = old.payload.at /\ old.payload.completed
                      => new.payload.completed
<1>1. /\ old.payload \in Payload /\ m.payload \in Payload
      /\ new.payload = ResolvedPayload(old, m) /\ new.deleted = m.deleted
      /\ Changes(old, m)
  BY DEF Row, Mutation, Resolved
<1>2. ASSUME KindOf[r] = "register" PROVE new.payload = m.payload
  <2>1. CASE TakesIncoming(old, m)
    BY <1>1, <2>1 DEF ResolvedPayload
  <2>2. CASE ~TakesIncoming(old, m)
    BY <1>1, <1>2, <2>2 DEF ResolvedPayload
  <2> QED
    BY <2>1, <2>2
<1>3. ASSUME Live(old), Live(new) PROVE ~TakesIncoming(old, m)
  BY <1>1, <1>3 DEF Live, TakesIncoming
<1>4. ASSUME KindOf[r] = "history", Live(old), Live(new)
      PROVE  /\ new.payload.progress >= old.payload.progress
             /\ new.payload.at >= old.payload.at
  <2>1. new.payload = MergeHistory(old.payload, m.payload)
    BY <1>1, <1>3, <1>4 DEF ResolvedPayload
  <2> QED
    BY <1>1, <2>1 DEF MergeHistory, Larger, Payload
<1>5. ASSUME KindOf[r] = "position", Live(old), Live(new)
      PROVE  /\ new.payload.at >= old.payload.at
             /\ new.payload.at = old.payload.at /\ old.payload.completed
                   => new.payload.completed
  <2>1. new.payload = MergePosition(old.payload, m.payload)
    BY <1>1, <1>3, <1>5 DEF ResolvedPayload
  <2>2. ~PositionIsStale(old.payload, m.payload)
    BY <1>1, <1>3, <1>5 DEF Changes
  <2>3. new.payload.at = m.payload.at /\ new.payload.completed = m.payload.completed
    BY <1>1, <2>1 DEF MergePosition, Payload
  <2>4. old.payload.at \in Nat /\ m.payload.at \in Nat
        /\ old.payload.completed \in BOOLEAN /\ m.payload.completed \in BOOLEAN
    BY <1>1 DEF Payload
  <2> QED
    BY <2>2, <2>3, <2>4 DEF PositionIsStale
<1> QED
  BY <1>2, <1>4, <1>5

\* One request at a time, a row changes as the rules say.
LEMMA RowsFollowRules ==
    ASSUME OneAtATime, InStep, [Next]_vars, NEW r \in RecordIds
    PROVE  /\ db.rows[r] \in Row /\ db'.rows[r] \in Row
           /\ \/ db'.rows[r] = db.rows[r]
              \/ \E m \in db'.receipts :
                    /\ m \in Mutation /\ m.rec = r
                    /\ Resolved(db.rows[r], db'.rows[r], m)
<1>1. db \in Database /\ db' \in Database
  BY StrongStep DEF InStep, Strong, Typed, TypeOK
<1>2. db.rows[r] \in Row /\ db'.rows[r] \in Row
  BY <1>1 DEF Database
<1>3. ASSUME db' # db
      PROVE  \/ db'.rows[r] = db.rows[r]
             \/ \E m \in db'.receipts :
                   /\ m \in Mutation /\ m.rec = r
                   /\ Resolved(db.rows[r], db'.rows[r], m)
  <2>1. PICK batch \in Batches :
            ~Push(db, batch).rejected /\ db' = Push(db, batch).db
    BY <1>3, CommitServes
  <2>2. /\ batch \in Seq(Mutation)
        /\ \A i, j \in 1..Len(batch) : i # j => batch[i].rec # batch[j].rec
    BY BatchAssumption
  <2>3. Resolves(db, batch, Len(batch), db')
    BY <1>1, <2>1, <2>2, PushResolves
  <2> QED
    BY <2>2, <2>3 DEF Resolves
<1> QED
  BY <1>2, <1>3

\* A position never goes back in time, and "completed" wins an equal timestamp,
\* while requests run one after the other (two that overlap can break it).
THEOREM PositionsStayLatest ==
    ASSUME OneAtATime
    PROVE  Spec => PositionKeepsLatest
<1>1. InStep /\ [Next]_vars =>
        [\A r \in RecordIds :
          (KindOf[r] = "position" /\ Live(db.rows[r]) /\ Live(db'.rows[r])) =>
              LET old == db.rows[r].payload
                  new == db'.rows[r].payload
              IN  /\ new.at >= old.at
                  /\ new.at = old.at /\ old.completed => new.completed]_vars
  <2> SUFFICES ASSUME InStep, [Next]_vars, NEW r \in RecordIds,
                      KindOf[r] = "position", Live(db.rows[r]), Live(db'.rows[r])
               PROVE  /\ db'.rows[r].payload.at >= db.rows[r].payload.at
                      /\ db'.rows[r].payload.at = db.rows[r].payload.at
                         /\ db.rows[r].payload.completed
                            => db'.rows[r].payload.completed
    OBVIOUS
  <2>1. db.rows[r] \in Row /\ db'.rows[r] \in Row
    BY RowsFollowRules
  <2>2. CASE db'.rows[r] = db.rows[r]
    BY <2>1, <2>2 DEF Row, Payload
  <2>3. CASE db'.rows[r] # db.rows[r]
    BY <2>1, <2>3, RowsFollowRules, RulesOfResolve
  <2> QED
    BY <2>2, <2>3
<1> QED
  BY <1>1, ServedInvariance, PTL DEF Spec, PositionKeepsLatest

\* A register is what the mutation it names asked for.
Asked(tables) ==
    \A r \in RecordIds : KindOf[r] = "register" /\ Exists(tables.rows[r]) =>
        \E m \in tables.receipts :
            /\ m.id = tables.rows[r].last
            /\ m.payload = tables.rows[r].payload
            /\ m.deleted = tables.rows[r].deleted

LEMMA AskedStep ==
    ASSUME OneAtATime
    PROVE  InStep /\ Asked(db) /\ [Next]_vars => Asked(db)'
<1> SUFFICES ASSUME InStep, Asked(db), [Next]_vars, NEW r \in RecordIds,
                    KindOf[r] = "register", Exists(db'.rows[r])
             PROVE  \E m \in db'.receipts :
                       /\ m.id = db'.rows[r].last
                       /\ m.payload = db'.rows[r].payload
                       /\ m.deleted = db'.rows[r].deleted
  BY DEF Asked
<1>1. db.receipts \subseteq db'.receipts
  BY CommittedGrows DEF InStep, Extends
<1>2. CASE db'.rows[r] = db.rows[r]
  BY <1>1, <1>2 DEF Asked
<1>3. CASE db'.rows[r] # db.rows[r]
  <2>1. PICK m \in db'.receipts :
            m \in Mutation /\ m.rec = r /\ Resolved(db.rows[r], db'.rows[r], m)
    BY <1>3, RowsFollowRules
  <2>2. db'.rows[r].payload = m.payload
    BY <2>1, RowsFollowRules, RulesOfResolve
  <2> QED
    BY <2>1, <2>2 DEF Resolved
<1> QED
  BY <1>2, <1>3

\* Progress and time of a history record never go back, and a register is what
\* the mutation it names asked for, while requests run one after the other.
THEOREM RulesAreKept ==
    ASSUME OneAtATime
    PROVE  Spec => RulesStand
<1> DEFINE Kept(r) ==
              /\ (KindOf[r] = "history" /\ Live(db.rows[r]) /\ Live(db'.rows[r])) =>
                    /\ db'.rows[r].payload.progress >= db.rows[r].payload.progress
                    /\ db'.rows[r].payload.at >= db.rows[r].payload.at
              /\ (KindOf[r] = "register" /\ Exists(db'.rows[r])) =>
                    \E m \in db'.receipts :
                        /\ m.id = db'.rows[r].last
                        /\ m.payload = db'.rows[r].payload
                        /\ m.deleted = db'.rows[r].deleted
<1>1. Init => Asked(db)
  BY DEF Init, Asked, EmptyDatabase, NoRow, Exists
<1>2. InStep /\ Asked(db) /\ [Next]_vars => Asked(db)'
  BY AskedStep
<1>3. InStep /\ Asked(db) /\ [Next]_vars => [\A r \in RecordIds : Kept(r)]_vars
  <2> SUFFICES ASSUME InStep, Asked(db), [Next]_vars, NEW r \in RecordIds
               PROVE  Kept(r)
    OBVIOUS
  <2>1. db.rows[r] \in Row /\ db'.rows[r] \in Row
    BY RowsFollowRules
  <2>2. ASSUME KindOf[r] = "history", Live(db.rows[r]), Live(db'.rows[r])
        PROVE  /\ db'.rows[r].payload.progress >= db.rows[r].payload.progress
               /\ db'.rows[r].payload.at >= db.rows[r].payload.at
    <3>1. CASE db'.rows[r] = db.rows[r]
      BY <2>1, <3>1 DEF Row, Payload
    <3>2. CASE db'.rows[r] # db.rows[r]
      BY <2>1, <2>2, <3>2, RowsFollowRules, RulesOfResolve
    <3> QED
      BY <3>1, <3>2
  <2>3. Asked(db')
    BY <1>2 DEF Asked
  <2> QED
    BY <2>2, <2>3 DEF Asked
<1> QED
  BY <1>1, <1>2, <1>3, ServedInvariance, PTL DEF Spec, RulesStand
=============================================================================
