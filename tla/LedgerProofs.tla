---------------------------- MODULE LedgerProofs ----------------------------
(***************************************************************************)
(* Proofs about the ledger, for every set of requests, inputs and accounts,*)
(* every seed, pool size, integer and column width, faults included.       *)
(***************************************************************************)
EXTENDS Ledger, SequenceTheorems, TLAPS

InSession == {"build", "commit"} \cup Statements

\* Where a request stands tells what the database has of it.
SessionFollowsPc ==
  \A r \in Requests :
    /\ pc[r] \in {"idle", "begin"} \cup Reading => session[r] = "none"
    /\ pc[r] \in InSession => session[r] = "open"
    /\ pc[r] = "rollback" => session[r] \in {"open", "failed"}
    /\ pc[r] \in Returned => session[r] \in {"none", "abandoned", "committing"}

\* The aggregate that Build leaves.
Built(r) == [id |-> r, key |-> Key(r), status |-> "COMPLETED",
             entries |-> <<DebitEntry(r).val, CreditEntry(r).val>>]

WrittenWhole(r) == /\ work[r].transactions = {PostingRow(r)}
                   /\ work[r].entries = EntryRows(r)
                   /\ work[r].outbox = {OutboxRow(r)}

\* ... and what the transaction has written so far.
WorkFollowsPc ==
  \A r \in Requests :
    /\ session[r] \in {"none", "failed"} => work[r] = NoWork
    /\ pc[r] \in {"build", "saveTransaction"} => work[r] = NoWork
    /\ pc[r] \in Statements \cup {"commit"} =>
         posting[r] = Built(r) /\ DebitEntry(r).err = NoError
    /\ pc[r] \in {"updateDebit", "updateCredit", "saveOutbox"} =>
         /\ work[r].transactions = {PostingRow(r)}
         /\ work[r].entries = EntryRows(r)
    /\ pc[r] = "commit" \/ session[r] = "committing" => WrittenWhole(r)
    /\ work[r].transactions \subseteq {PostingRow(r)}
    /\ work[r].transactions # {} => DebitEntry(r).err = NoError
    /\ \A a \in Accounts \ {input[r].debit, input[r].credit} : work[r].balances[a] = NoMoney

\* A key that some transaction has inserted is nobody else's, committed or not.
KeysAreExclusive ==
  \A q, r \in Requests :
    work[r].transactions # {} =>
      /\ ~ KeyIsKnown(Key(r))
      /\ q # r /\ Key(q) = Key(r) => work[q].transactions = {}

\* A posting ends the transaction that made it.
PostedAreFinished ==
  \A r \in Posted : pc[r] \in Returned /\ session[r] = "none"

\* What a request is about to return, or has returned.
ResultFollowsPc ==
  \A r \in Requests :
    /\ pc[r] \notin {"rollback", "crashed"} \cup Returned => result[r] = NoError
    /\ pc[r] = "rollback" =>
         result[r] \notin {NoError, "ErrCommitTransaction", "ErrTransactionExists"}
    /\ pc[r] = "returned" /\ session[r] = "committing" => result[r] = "ErrCommitTransaction"
    /\ result[r] = "unique_violation" /\ pc[r] # "crashed" =>
         \E q \in Posted \ {r} : Key(q) = Key(r)

\* Together, what every step of Execute, every fault and every action of the
\* database preserves (create_transaction.go:55-211, uow.go:26-44): the safety
\* properties of Ledger with what they rest on.
IndInv ==
  /\ TypeOK /\ SessionFollowsPc /\ WorkFollowsPc /\ KeysAreExclusive
  /\ OnePostingPerKey /\ PostedAreFinished /\ WholePostings
  /\ ResultFollowsPc /\ ResultTellsOutcome

----------------------------------------------------------------------------
\* Money.

\* Whatever two int64 values are added or subtracted, the wrapped result is an
\* int64 (money.go:54-67): the arithmetic never leaves the column's type.
LEMMA WrapType ==
  ASSUME NEW a \in Int64, NEW b \in Int64
  PROVE  /\ Wrap(a + b) \in Int64
         /\ Wrap(a - b) \in Int64
  BY IntMaxAssumption, SMT DEF Wrap, Int64

\* NewMoney gives a Money or an error (money.go:35-44).
LEMMA NewMoneyType ==
  ASSUME NEW n \in Int64, NEW c
  PROVE  /\ NewMoney(n, c).val \in Money \cup {NoMoney}
         /\ NewMoney(n, c).err \in Errors
         /\ NewMoney(n, c).err # "ErrTransactionExists"
         /\ NewMoney(n, c).err # "unique_violation"
<1>1. CASE n < 0
  BY <1>1 DEF NewMoney, MoneyError, Errors
<1>2. CASE ~ n < 0 /\ c \notin Currencies
  BY <1>2 DEF NewMoney, MoneyError, Errors
<1>3. CASE ~ n < 0 /\ c \in Currencies
  BY <1>3 DEF NewMoney, Returns, Money, Errors, NoError
<1> QED BY <1>1, <1>2, <1>3

\* Subtract and Add give a Money or an error (money.go:54-67).
LEMMA ArithmeticType ==
  ASSUME NEW m \in Money \cup {NoMoney}, NEW other \in Money \cup {NoMoney}
  PROVE  /\ Subtract(m, other).val \in Money \cup {NoMoney}
         /\ Add(m, other).val \in Money \cup {NoMoney}
<1>1. m.amount \in Int64 /\ other.amount \in Int64
  <2>1. 0 \in Int64
    BY IntMaxAssumption DEF Int64
  <2>2. \A x \in Money : x.amount \in Int64
    BY DEF Money
  <2>3. NoMoney.amount = 0
    BY DEF NoMoney
  <2> QED BY <2>1, <2>2, <2>3
<1>2. /\ Wrap(m.amount - other.amount) \in Int64
      /\ Wrap(m.amount + other.amount) \in Int64
  BY <1>1, WrapType
<1>3. CASE m.currency # other.currency
  BY <1>3 DEF Subtract, Add, MoneyError
<1>4. CASE m.currency = other.currency /\ m \in Money
  BY <1>2, <1>4 DEF Subtract, Add, Returns, Money
<1>5. CASE m.currency = other.currency /\ m = NoMoney
  <2>1. other = NoMoney
    BY <1>5 DEF NoMoney, Money, Currencies
  <2>2. Wrap(0 - 0) = 0 /\ Wrap(0 + 0) = 0
    BY IntMaxAssumption, SMT DEF Wrap
  <2> QED BY <1>5, <2>1, <2>2 DEF Subtract, Add, Returns, NoMoney
<1> QED BY <1>3, <1>4, <1>5

----------------------------------------------------------------------------
\* Rows.

\* A request's input is its argument: no step assigns it, so that the rows it
\* stands for are the same in every state.
LEMMA InputIsFixed ==
  ASSUME [Next]_vars
  PROVE  input' = input
<1>1. ASSUME NEW r \in Requests, Arrive(r) \/ DeadlockVictim(r) PROVE input' = input
  BY <1>1 DEF Arrive, DeadlockVictim
<1>2. ASSUME NEW r \in Requests, Handle(r) PROVE input' = input
  <2>1. CASE \/ ExistsByIdempotencyKey(r) \/ FindDebitAccount(r) \/ FindCreditAccount(r)
             \/ CheckFunds(r) \/ Begin(r) \/ BuildFails(r) \/ Build(r)
    BY <2>1 DEF ExistsByIdempotencyKey, FindDebitAccount, FindCreditAccount, CheckFunds,
       Begin, BuildFails, Build
  <2>2. CASE \/ SaveTransaction(r) \/ UpdateDebit(r) \/ UpdateCredit(r)
             \/ SaveOutbox(r) \/ Commit(r) \/ Rollback(r)
    BY <2>2 DEF SaveTransaction, UpdateDebit, UpdateCredit, UpdateBalance, SaveOutbox,
       Commit, Rollback
  <2> QED
    BY <1>2, <2>1, <2>2 DEF Handle
<1>3. ASSUME NEW r \in Requests, Fault(r) \/ Resolve(r) PROVE input' = input
  BY <1>3 DEF Fault, CancelRead, CancelInTransaction, CancelCommit, Resolve,
     ServerAborts, ServerCommits, request
<1>4. CASE Crash \/ Quiescent \/ UNCHANGED vars
  BY <1>4 DEF Crash, Quiescent, vars, request
<1> QED
  BY <1>1, <1>2, <1>3, <1>4 DEF Next, Step

LEMMA RowsAreFixed ==
  ASSUME [Next]_vars, NEW r
  PROVE  /\ Key(r)' = Key(r)
         /\ Amount(r)' = Amount(r)
         /\ PostingRow(r)' = PostingRow(r)
         /\ EntryRows(r)' = EntryRows(r)
         /\ OutboxRow(r)' = OutboxRow(r)
         /\ Built(r)' = Built(r)
         /\ Completed(r)' = Completed(r)
         /\ DebitEntry(r)' = DebitEntry(r)
  BY InputIsFixed DEF Key, Amount, PostingRow, EntryRows, OutboxRow, NewOutbox, Built,
     DebitEntry, CreditEntry, Completed, WithBoth, WithDebit

LEMMA RowOfPosting ==
  ASSUME NEW r
  PROVE  PostingRow(r).id = r /\ PostingRow(r).key = Key(r)
  BY DEF PostingRow

\* What is inserted for the aggregate that Build leaves (model.ToTransactionModel,
\* ToEntryModel, ToOutboxModel).
LEMMA RowsOfBuilt ==
  ASSUME NEW r
  PROVE  /\ ToTransactionModel(Built(r)) = PostingRow(r)
         /\ ToEntryModels(Built(r)) = EntryRows(r)
         /\ NewOutbox(r, Built(r)) = OutboxRow(r)
<1>1. ToTransactionModel(Built(r)) = PostingRow(r)
  BY DEF ToTransactionModel, Built, PostingRow
<1>2. ToEntryModels(Built(r)) = EntryRows(r)
  <2>1. DOMAIN Built(r).entries = {1, 2}
    BY DEF Built
  <2>2. Built(r).entries[1] = DebitEntry(r).val /\ Built(r).entries[2] = CreditEntry(r).val
    BY DEF Built
  <2> QED BY <2>1, <2>2 DEF ToEntryModels, EntryRows
<1>3. NewOutbox(r, Built(r)) = OutboxRow(r)
  BY DEF NewOutbox, OutboxRow, Built, PostingRow
<1> QED BY <1>1, <1>2, <1>3

\* Append, on the two entries of AddEntry.
LEMMA AppendSecond ==
  ASSUME NEW a, NEW b
  PROVE  Append(<<a>>, b) = <<a, b>>
<1> DEFINE s == Append(<<a>>, b)
           t == <<a, b>>
<1>1. <<a>> \in Seq({a, b})
  OBVIOUS
<1>2. s \in Seq({a, b}) /\ Len(s) = 2 /\ s[1] = a /\ s[2] = b
  BY <1>1
<1>3. t \in Seq({a, b}) /\ Len(t) = 2 /\ t[1] = a /\ t[2] = b
  OBVIOUS
<1>4. \A i \in 1 .. Len(s) : s[i] = t[i]
  BY <1>2, <1>3
<1> HIDE DEF s, t
<1>5. s = t
  BY <1>2, <1>3, <1>4, SeqEqual, Zenon
<1> QED BY <1>5 DEF s, t

\* When no local call fails, Build leaves the completed double entry
\* (transaction.go:53-82).
LEMMA BuildMakesBuilt ==
  ASSUME NEW r, \A i \in DOMAIN BuildErrors(r) : BuildErrors(r)[i] = NoError
  PROVE  Completed(r).val = Built(r) /\ DebitEntry(r).err = NoError
<1>1. /\ DebitEntry(r).err = NoError
      /\ WithDebit(r).err = NoError
      /\ WithBoth(r).err = NoError
      /\ Completed(r).err = NoError
  <2>1. DOMAIN BuildErrors(r) = 1 .. 7
    BY DEF BuildErrors
  <2>2. BuildErrors(r)[1] = NoError /\ BuildErrors(r)[5] = NoError /\ BuildErrors(r)[6] = NoError /\ BuildErrors(r)[7] = NoError
    BY <2>1
  <2> QED BY <2>2 DEF BuildErrors
<1> DEFINE empty == NewTransaction(r, Key(r))
<1>2. WithDebit(r).val = [empty EXCEPT !.entries = <<DebitEntry(r).val>>]
  <2>1. AddEntryError(empty, DebitEntry(r).val) = NoError
    BY <1>1 DEF WithDebit, AddEntry
  <2>2. Append(<< >>, DebitEntry(r).val) = <<DebitEntry(r).val>>
    OBVIOUS
  <2> QED BY <2>1, <2>2 DEF WithDebit, AddEntry, NewTransaction
<1>3. WithBoth(r).val = [empty EXCEPT !.entries = <<DebitEntry(r).val, CreditEntry(r).val>>]
  <2>1. AddEntryError(WithDebit(r).val, CreditEntry(r).val) = NoError
    BY <1>1 DEF WithBoth, AddEntry
  <2>2. Append(<<DebitEntry(r).val>>, CreditEntry(r).val)
          = <<DebitEntry(r).val, CreditEntry(r).val>>
    BY AppendSecond
  <2> QED BY <1>2, <2>1, <2>2 DEF WithBoth, AddEntry, NewTransaction
<1>4. Completed(r).val = [WithBoth(r).val EXCEPT !.status = "COMPLETED"]
  BY <1>3 DEF Completed, Complete, Transition, CanTransition, Returns, NewTransaction
<1> QED BY <1>1, <1>3, <1>4 DEF Built, NewTransaction


----------------------------------------------------------------------------
\* Control: one case per action.

LEMMA SessionStep ==
  ASSUME TypeOK, SessionFollowsPc, [Next]_vars
  PROVE  SessionFollowsPc'
<1> USE DEF TypeOK, SessionFollowsPc, InSession, Reading, Statements, InTransaction, Returned
<1>1. ASSUME NEW r \in Requests, Arrive(r) PROVE SessionFollowsPc'
  BY <1>1 DEF Arrive
<1>2. ASSUME NEW r \in Requests, ExistsByIdempotencyKey(r) PROVE SessionFollowsPc'
  BY <1>2 DEF ExistsByIdempotencyKey, ProceedOrReturn
<1>3. ASSUME NEW r \in Requests, FindDebitAccount(r) PROVE SessionFollowsPc'
  BY <1>3 DEF FindDebitAccount, ProceedOrReturn
<1>4. ASSUME NEW r \in Requests, FindCreditAccount(r) PROVE SessionFollowsPc'
  BY <1>4 DEF FindCreditAccount, ProceedOrReturn
<1>5. ASSUME NEW r \in Requests, CheckFunds(r) PROVE SessionFollowsPc'
  BY <1>5 DEF CheckFunds, ProceedOrReturn
<1>6. ASSUME NEW r \in Requests, Begin(r) PROVE SessionFollowsPc'
  BY <1>6 DEF Begin
<1>7. ASSUME NEW r \in Requests, BuildFails(r) PROVE SessionFollowsPc'
  BY <1>7 DEF BuildFails, ProceedOrRollback
<1>8. ASSUME NEW r \in Requests, Build(r) PROVE SessionFollowsPc'
  BY <1>8 DEF Build
<1>9. ASSUME NEW r \in Requests, SaveTransaction(r) PROVE SessionFollowsPc'
  BY <1>9 DEF SaveTransaction, StatementFails, ProceedOrRollback, NoError
<1>10. ASSUME NEW r \in Requests, UpdateDebit(r) PROVE SessionFollowsPc'
  BY <1>10 DEF UpdateDebit, UpdateBalance, ProceedOrRollback
<1>11. ASSUME NEW r \in Requests, UpdateCredit(r) PROVE SessionFollowsPc'
  BY <1>11 DEF UpdateCredit, UpdateBalance, ProceedOrRollback
<1>12. ASSUME NEW r \in Requests, SaveOutbox(r) PROVE SessionFollowsPc'
  BY <1>12 DEF SaveOutbox, StatementFails, ProceedOrRollback, NoError
<1>13. ASSUME NEW r \in Requests, Commit(r) PROVE SessionFollowsPc'
  BY <1>13 DEF Commit, EndSession
<1>14. ASSUME NEW r \in Requests, Rollback(r) PROVE SessionFollowsPc'
  BY <1>14 DEF Rollback, EndSession
<1>15. ASSUME NEW r \in Requests, DeadlockVictim(r) PROVE SessionFollowsPc'
  BY <1>15 DEF DeadlockVictim, StatementFails, ProceedOrRollback, NoError
<1>16. ASSUME NEW r \in Requests, CancelRead(r) PROVE SessionFollowsPc'
  BY <1>16 DEF CancelRead, ProceedOrReturn, NoError
<1>17. ASSUME NEW r \in Requests, CancelInTransaction(r) PROVE SessionFollowsPc'
  BY <1>17 DEF CancelInTransaction, Abandon
<1>18. ASSUME NEW r \in Requests, CancelCommit(r) PROVE SessionFollowsPc'
  BY <1>18 DEF CancelCommit
<1>19. ASSUME NEW r \in Requests, ServerAborts(r) PROVE SessionFollowsPc'
  BY <1>19 DEF ServerAborts, EndSession, request
<1>20. ASSUME NEW r \in Requests, ServerCommits(r) PROVE SessionFollowsPc'
  BY <1>20 DEF ServerCommits, EndSession, request
<1>21. CASE Crash
  BY <1>21 DEF Crash
<1>22. CASE UNCHANGED vars
  BY <1>22 DEF vars, request
<1> QED
  BY <1>1, <1>2, <1>3, <1>4, <1>5, <1>6, <1>7, <1>8, <1>9, <1>10, <1>11, <1>12, <1>13,
     <1>14, <1>15, <1>16, <1>17, <1>18, <1>19, <1>20, <1>21, <1>22
     DEF Next, Step, Handle, Fault, Resolve, Quiescent


\* What the database has of a transaction: one case per action.
LEMMA WorkStep ==
  ASSUME TypeOK, SessionFollowsPc, WorkFollowsPc, [Next]_vars
  PROVE  WorkFollowsPc'
<1> USE DEF WorkFollowsPc, WrittenWhole, SessionFollowsPc, InSession, Reading, Statements,
            InTransaction, Returned
<1>1. \A r : /\ PostingRow(r)' = PostingRow(r)
             /\ EntryRows(r)' = EntryRows(r)
             /\ OutboxRow(r)' = OutboxRow(r)
             /\ Built(r)' = Built(r)
             /\ DebitEntry(r)' = DebitEntry(r)
             /\ input' = input
  BY RowsAreFixed, InputIsFixed
<1>2. /\ pc \in [Requests -> {"idle", "begin"} \cup Reading \cup InTransaction \cup Returned]
      /\ work \in [Requests -> Written]
      /\ posting \in [Requests -> PostingType]
      /\ session \in [Requests -> {"none", "open", "failed", "abandoned", "committing"}]
  BY DEF TypeOK
<1>3. NoWork.transactions = {} /\ \A a \in Accounts : NoWork.balances[a] = NoMoney
  BY DEF NoWork, Unwritten
<1>4. \A r \in Requests : work[r] = [transactions |-> work[r].transactions,
                                     entries |-> work[r].entries,
                                     balances |-> work[r].balances,
                                     outbox |-> work[r].outbox]
  BY <1>2 DEF Written
<1>5. ASSUME NEW r \in Requests, Arrive(r) PROVE WorkFollowsPc'
  BY <1>1, <1>2, <1>5 DEF Arrive
<1>6. ASSUME NEW r \in Requests, ExistsByIdempotencyKey(r) PROVE WorkFollowsPc'
  BY <1>1, <1>2, <1>6 DEF ExistsByIdempotencyKey, ProceedOrReturn
<1>7. ASSUME NEW r \in Requests, FindDebitAccount(r) PROVE WorkFollowsPc'
  BY <1>1, <1>2, <1>7 DEF FindDebitAccount, ProceedOrReturn
<1>8. ASSUME NEW r \in Requests, FindCreditAccount(r) PROVE WorkFollowsPc'
  BY <1>1, <1>2, <1>8 DEF FindCreditAccount, ProceedOrReturn
<1>9. ASSUME NEW r \in Requests, CheckFunds(r) PROVE WorkFollowsPc'
  BY <1>1, <1>2, <1>9 DEF CheckFunds, ProceedOrReturn
<1>10. ASSUME NEW r \in Requests, Begin(r) PROVE WorkFollowsPc'
  BY <1>1, <1>2, <1>10 DEF Begin
<1>11. ASSUME NEW r \in Requests, BuildFails(r) PROVE WorkFollowsPc'
  BY <1>1, <1>2, <1>11 DEF BuildFails, ProceedOrRollback
<1>12. ASSUME NEW r \in Requests, Build(r) PROVE WorkFollowsPc'
  <2>1. Completed(r).val = Built(r) /\ DebitEntry(r).err = NoError
    BY <1>12, BuildMakesBuilt DEF Build
  <2> QED BY <1>1, <1>2, <1>12, <2>1 DEF Build
<1>13. ASSUME NEW r \in Requests, SaveTransaction(r) PROVE WorkFollowsPc'
  <2>1. /\ ToTransactionModel(posting[r]) = PostingRow(r)
        /\ ToEntryModels(posting[r]) = EntryRows(r)
    BY <1>13, RowsOfBuilt DEF SaveTransaction
  <2>2. CASE KeyIsKnown(Key(r)) /\ StatementFails(r, "unique_violation")
    BY <1>1, <1>2, <1>3, <1>13, <2>2
       DEF SaveTransaction, StatementFails, ProceedOrRollback, NoError
  <2>3. CASE ~ KeyIsKnown(Key(r))
    BY <1>1, <1>2, <1>4, <1>13, <2>1, <2>3 DEF SaveTransaction, ProceedOrRollback
  <2> QED BY <1>13, <2>2, <2>3 DEF SaveTransaction
<1>14. ASSUME NEW r \in Requests, UpdateDebit(r) PROVE WorkFollowsPc'
  BY <1>1, <1>2, <1>4, <1>14 DEF UpdateDebit, UpdateBalance, ProceedOrRollback
<1>15. ASSUME NEW r \in Requests, UpdateCredit(r) PROVE WorkFollowsPc'
  BY <1>1, <1>2, <1>4, <1>15 DEF UpdateCredit, UpdateBalance, ProceedOrRollback
<1>16. ASSUME NEW r \in Requests, SaveOutbox(r) PROVE WorkFollowsPc'
  <2>1. NewOutbox(r, posting[r]) = OutboxRow(r)
    BY <1>16, RowsOfBuilt DEF SaveOutbox
  <2>2. CASE ~ EventFitsColumns /\ StatementFails(r, "value_too_long")
    BY <1>1, <1>2, <1>3, <1>16, <2>2
       DEF SaveOutbox, StatementFails, ProceedOrRollback, NoError
  <2>3. CASE EventFitsColumns
    BY <1>1, <1>2, <1>4, <1>16, <2>1, <2>3 DEF SaveOutbox, ProceedOrRollback
  <2> QED BY <1>16, <2>2, <2>3 DEF SaveOutbox
<1>17. ASSUME NEW r \in Requests, Commit(r) PROVE WorkFollowsPc'
  BY <1>1, <1>2, <1>3, <1>17 DEF Commit, EndSession
<1>18. ASSUME NEW r \in Requests, Rollback(r) PROVE WorkFollowsPc'
  BY <1>1, <1>2, <1>3, <1>18 DEF Rollback, EndSession
<1>19. ASSUME NEW r \in Requests, DeadlockVictim(r) PROVE WorkFollowsPc'
  BY <1>1, <1>2, <1>3, <1>19 DEF DeadlockVictim, StatementFails, ProceedOrRollback, NoError
<1>20. ASSUME NEW r \in Requests, CancelRead(r) PROVE WorkFollowsPc'
  <2>1. pc' = [pc EXCEPT ![r] = "returned"]
    BY <1>20 DEF CancelRead, ProceedOrReturn, NoError
  <2> QED BY <1>1, <1>2, <1>20, <2>1 DEF CancelRead
<1>21. ASSUME NEW r \in Requests, CancelInTransaction(r) PROVE WorkFollowsPc'
  BY <1>1, <1>2, <1>21 DEF CancelInTransaction, Abandon
<1>22. ASSUME NEW r \in Requests, CancelCommit(r) PROVE WorkFollowsPc'
  BY <1>1, <1>2, <1>22 DEF CancelCommit
<1>23. ASSUME NEW r \in Requests, ServerAborts(r) PROVE WorkFollowsPc'
  BY <1>1, <1>2, <1>3, <1>23 DEF ServerAborts, EndSession, request
<1>24. ASSUME NEW r \in Requests, ServerCommits(r) PROVE WorkFollowsPc'
  BY <1>1, <1>2, <1>3, <1>24 DEF ServerCommits, EndSession, request
<1>25. CASE Crash
  BY <1>1, <1>2, <1>25 DEF Crash
<1>26. CASE UNCHANGED vars
  BY <1>1, <1>2, <1>26 DEF vars, request
<1> QED
  BY <1>5, <1>6, <1>7, <1>8, <1>9, <1>10, <1>11, <1>12, <1>13, <1>14, <1>15, <1>16, <1>17,
     <1>18, <1>19, <1>20, <1>21, <1>22, <1>23, <1>24, <1>25, <1>26
     DEF Next, Step, Handle, Fault, Resolve, Quiescent


----------------------------------------------------------------------------
\* Tables: a step inserts a transaction, or publishes one, or does neither.

Inserts(r) == /\ ~ KeyIsClaimed(r) /\ ~ KeyIsKnown(Key(r))
              /\ work'[r].transactions = {PostingRow(r)}
              /\ \A q \in Requests \ {r} : work'[q].transactions = work[q].transactions
              /\ UNCHANGED tables

Publishes(r) == /\ WrittenWhole(r)
                /\ Publish(r)
                /\ EndSession(r)
                /\ pc'[r] \in Returned
                /\ \A q \in Requests \ {r} : pc'[q] = pc[q]

InsertsNothing == /\ \A q \in Requests : work'[q].transactions \subseteq work[q].transactions
                  /\ UNCHANGED tables

LEMMA TableStep ==
  ASSUME TypeOK, SessionFollowsPc, WorkFollowsPc, [Next]_vars
  PROVE  \/ InsertsNothing
         \/ \E r \in Requests : Inserts(r) \/ Publishes(r)
<1>1. work \in [Requests -> Written] /\ pc \in [Requests -> {"idle", "begin"} \cup Reading \cup InTransaction \cup Returned]
  BY DEF TypeOK
<1>2. NoWork.transactions = {}
  BY DEF NoWork
<1>3. \A r \in Requests : work[r] = [transactions |-> work[r].transactions,
                                     entries |-> work[r].entries,
                                     balances |-> work[r].balances,
                                     outbox |-> work[r].outbox]
  BY <1>1 DEF Written
<1>4. ASSUME NEW r \in Requests,
             \/ Arrive(r) \/ ExistsByIdempotencyKey(r) \/ FindDebitAccount(r)
             \/ FindCreditAccount(r) \/ CheckFunds(r) \/ Begin(r) \/ BuildFails(r)
             \/ Build(r) \/ Fault(r)
      PROVE  InsertsNothing
  BY <1>4 DEF InsertsNothing, Arrive, ExistsByIdempotencyKey, FindDebitAccount,
     FindCreditAccount, CheckFunds, Begin, BuildFails, Build, Fault, CancelRead,
     CancelInTransaction, CancelCommit, tables
<1>5. ASSUME NEW r \in Requests, SaveTransaction(r)
      PROVE  InsertsNothing \/ Inserts(r)
  <2>1. posting[r] = Built(r)
    BY <1>5 DEF SaveTransaction, WorkFollowsPc, Statements
  <2>2. ToTransactionModel(posting[r]) = PostingRow(r)
    BY <2>1, RowsOfBuilt
  <2>3. CASE KeyIsKnown(Key(r)) /\ StatementFails(r, "unique_violation")
    BY <1>1, <1>2, <1>5, <2>3 DEF SaveTransaction, StatementFails, InsertsNothing
  <2>4. CASE ~ KeyIsKnown(Key(r))
    BY <1>1, <1>3, <1>5, <2>2, <2>4 DEF SaveTransaction, Inserts
  <2> QED BY <1>5, <2>3, <2>4 DEF SaveTransaction
<1>6. ASSUME NEW r \in Requests, UpdateDebit(r) \/ UpdateCredit(r)
      PROVE  InsertsNothing
  BY <1>1, <1>3, <1>6 DEF UpdateDebit, UpdateCredit, UpdateBalance, InsertsNothing
<1>7. ASSUME NEW r \in Requests, SaveOutbox(r)
      PROVE  InsertsNothing
  <2>1. CASE StatementFails(r, "value_too_long")
    BY <1>1, <1>2, <1>7, <2>1 DEF SaveOutbox, StatementFails, InsertsNothing
  <2>2. CASE work' = [work EXCEPT ![r].outbox = {NewOutbox(r, posting[r])}]
    BY <1>1, <1>3, <1>7, <2>2 DEF SaveOutbox, InsertsNothing
  <2> QED BY <1>7, <2>1, <2>2 DEF SaveOutbox
<1>8. ASSUME NEW r \in Requests, Commit(r) \/ ServerCommits(r)
      PROVE  Publishes(r)
  BY <1>1, <1>8 DEF Commit, ServerCommits, Publishes, WorkFollowsPc, SessionFollowsPc,
     request, Returned, InSession, Statements, Reading, InTransaction
<1>9. ASSUME NEW r \in Requests, Rollback(r) \/ ServerAborts(r)
      PROVE  InsertsNothing
  BY <1>1, <1>2, <1>9 DEF Rollback, ServerAborts, EndSession, InsertsNothing
<1>10. ASSUME NEW r \in Requests, DeadlockVictim(r)
       PROVE  InsertsNothing
  BY <1>1, <1>2, <1>10 DEF DeadlockVictim, StatementFails, InsertsNothing
<1>11. CASE Crash \/ UNCHANGED vars
  BY <1>11 DEF Crash, vars, InsertsNothing, tables
<1> QED
  BY <1>4, <1>5, <1>6, <1>7, <1>8, <1>9, <1>10, <1>11
     DEF Next, Step, Handle, Resolve, Quiescent

\* A key inserted by one request stays out of every other's reach until its
\* transaction ends (the unique index of db/transactions.pg.hcl:33-36).
LEMMA KeysStep ==
  ASSUME TypeOK, SessionFollowsPc, WorkFollowsPc, KeysAreExclusive, [Next]_vars
  PROVE  KeysAreExclusive'
<1>1. \A r : Key(r)' = Key(r)
  BY RowsAreFixed
<1>2. \A r : PostingRow(r).key = Key(r)
  BY DEF PostingRow
<1>3. \A r \in Requests : work[r].transactions \subseteq {PostingRow(r)}
  BY DEF WorkFollowsPc
<1>4. CASE InsertsNothing
  BY <1>1, <1>4 DEF InsertsNothing, KeysAreExclusive, KeyIsKnown, tables
<1>5. ASSUME NEW r \in Requests, Inserts(r)
      PROVE  KeysAreExclusive'
  <2>1. \A q \in Requests \ {r} : Key(q) = Key(r) => work[q].transactions = {}
    BY <1>2, <1>3, <1>5 DEF Inserts, KeyIsClaimed
  <2>2. ~ KeyIsKnown(Key(r)) /\ transactions' = transactions
    BY <1>5 DEF Inserts, tables
  <2>3. /\ \A q \in Requests \ {r} : work'[q].transactions = work[q].transactions
        /\ work'[r].transactions = {PostingRow(r)}
    BY <1>5 DEF Inserts
  <2> QED BY <1>1, <2>1, <2>2, <2>3 DEF KeysAreExclusive, KeyIsKnown
<1>6. ASSUME NEW r \in Requests, Publishes(r)
      PROVE  KeysAreExclusive'
  <2>1. /\ work[r].transactions = {PostingRow(r)}
        /\ transactions' = transactions \cup {PostingRow(r)}
    BY <1>6 DEF Publishes, WrittenWhole, Publish
  <2>2. /\ work'[r].transactions = {}
        /\ \A q \in Requests \ {r} : work'[q] = work[q]
    BY <1>6 DEF Publishes, EndSession, TypeOK, NoWork
  <2>3. \A q \in Requests \ {r} : work[q].transactions # {} => Key(q) # Key(r)
    BY <2>1 DEF KeysAreExclusive
  <2> QED BY <1>1, <1>2, <2>1, <2>2, <2>3 DEF KeysAreExclusive, KeyIsKnown
<1> QED BY <1>4, <1>5, <1>6, TableStep


\* The victim of a deadlock is at one of the statements that wait.
LEMMA VictimWaits ==
  ASSUME NEW r \in Requests, DeadlockVictim(r)
  PROVE  pc[r] \in {"saveTransaction", "updateDebit", "updateCredit"}
<1>1. \E q : WaitsFor(r, q)
  BY DEF DeadlockVictim, InDeadlock
<1> QED
  BY <1>1 DEF WaitsFor

\* A read that is cancelled returns its error, before there is a transaction.
LEMMA CancelledRead ==
  ASSUME NEW r \in Requests, CancelRead(r)
  PROVE  \E err \in {"ErrBeginTransaction", "context canceled"} :
           /\ pc' = [pc EXCEPT ![r] = "returned"]
           /\ result' = [result EXCEPT ![r] = err]
<1> DEFINE e == IF pc[r] = "begin" THEN "ErrBeginTransaction" ELSE "context canceled"
<1>1. /\ pc' = [pc EXCEPT ![r] = IF e = NoError THEN "" ELSE "returned"]
      /\ result' = [result EXCEPT ![r] = e]
  BY DEF CancelRead, ProceedOrReturn
<1>2. e \in {"ErrBeginTransaction", "context canceled"} /\ e # NoError
  BY DEF NoError
<1> HIDE DEF e
<1> QED
  BY <1>1, <1>2

\* A request that has returned and whose transaction has ended takes no more steps.
LEMMA FinishedStays ==
  ASSUME TypeOK, SessionFollowsPc, [Next]_vars,
         NEW q \in Requests, pc[q] \in Returned, session[q] = "none"
  PROVE  pc'[q] = pc[q] /\ session'[q] = "none" /\ result'[q] = result[q]
<1> USE DEF TypeOK, SessionFollowsPc, InSession, Reading, Statements, InTransaction, Returned
<1>1. ASSUME NEW r \in Requests, Arrive(r) \/ CheckFunds(r) \/ Begin(r) \/ BuildFails(r) \/ Build(r)
      PROVE  pc'[q] = pc[q] /\ session'[q] = "none" /\ result'[q] = result[q]
  BY <1>1 DEF Arrive, CheckFunds, Begin, BuildFails, Build, ProceedOrReturn, ProceedOrRollback
<1>2. ASSUME NEW r \in Requests,
             ExistsByIdempotencyKey(r) \/ FindDebitAccount(r) \/ FindCreditAccount(r)
      PROVE  pc'[q] = pc[q] /\ session'[q] = "none" /\ result'[q] = result[q]
  BY <1>2 DEF ExistsByIdempotencyKey, FindDebitAccount, FindCreditAccount, ProceedOrReturn
<1>3. ASSUME NEW r \in Requests,
             SaveTransaction(r) \/ UpdateDebit(r) \/ UpdateCredit(r) \/ SaveOutbox(r)
      PROVE  pc'[q] = pc[q] /\ session'[q] = "none" /\ result'[q] = result[q]
  BY <1>3 DEF SaveTransaction, UpdateDebit, UpdateCredit, UpdateBalance, SaveOutbox,
     StatementFails, ProceedOrRollback
<1>4. ASSUME NEW r \in Requests, DeadlockVictim(r)
      PROVE  pc'[q] = pc[q] /\ session'[q] = "none" /\ result'[q] = result[q]
  <2>1. r # q
    BY <1>4, VictimWaits
  <2> QED
    BY <1>4, <2>1 DEF DeadlockVictim, StatementFails, ProceedOrRollback
<1>5. ASSUME NEW r \in Requests, Commit(r) \/ Rollback(r) \/ Resolve(r)
      PROVE  pc'[q] = pc[q] /\ session'[q] = "none" /\ result'[q] = result[q]
  BY <1>5 DEF Commit, Rollback, Resolve, ServerAborts, ServerCommits, EndSession, request
<1>6. ASSUME NEW r \in Requests, Fault(r)
      PROVE  pc'[q] = pc[q] /\ session'[q] = "none" /\ result'[q] = result[q]
  BY <1>6 DEF Fault, CancelRead, CancelInTransaction, CancelCommit, Abandon, ProceedOrReturn
<1>7. CASE Crash \/ UNCHANGED vars
  BY <1>7 DEF Crash, vars, request
<1> QED
  BY <1>1, <1>2, <1>3, <1>4, <1>5, <1>6, <1>7 DEF Next, Step, Handle, Quiescent

\* The postings are those made before, and the one that a Publish adds.
LEMMA PostedStep ==
  ASSUME TypeOK, SessionFollowsPc, WorkFollowsPc, [Next]_vars
  PROVE  \/ UNCHANGED tables /\ Posted' = Posted
         \/ \E r \in Requests : /\ Publishes(r)
                                /\ Posted' = Posted \cup {r}
                                /\ transactions' = transactions \cup {PostingRow(r)}
<1>1. CASE UNCHANGED tables
  BY <1>1 DEF tables, Posted
<1>2. ASSUME NEW r \in Requests, Publishes(r)
      PROVE  /\ transactions' = transactions \cup {PostingRow(r)}
             /\ Posted' = Posted \cup {r}
  <2>1. transactions' = transactions \cup {PostingRow(r)}
    BY <1>2 DEF Publishes, WrittenWhole, Publish
  <2>2. PostingRow(r).id = r
    BY DEF PostingRow
  <2> QED BY <2>1, <2>2 DEF Posted
<1> QED BY <1>1, <1>2, TableStep DEF InsertsNothing, Inserts

LEMMA PostedAreRequests ==
  ASSUME TypeOK
  PROVE  Posted \subseteq Requests
  BY DEF TypeOK, Posted, PostingRow

LEMMA FinishedStep ==
  ASSUME TypeOK, SessionFollowsPc, WorkFollowsPc, PostedAreFinished, [Next]_vars
  PROVE  PostedAreFinished'
<1>1. ASSUME NEW q \in Posted
      PROVE  pc'[q] \in Returned /\ session'[q] = "none"
  BY <1>1, PostedAreRequests, FinishedStays DEF PostedAreFinished
<1>2. ASSUME NEW r \in Requests, Publishes(r)
      PROVE  pc'[r] \in Returned /\ session'[r] = "none"
  BY <1>2 DEF Publishes, EndSession, TypeOK
<1> QED BY <1>1, <1>2, PostedStep DEF PostedAreFinished, Returned

LEMMA OnePostingStep ==
  ASSUME TypeOK, SessionFollowsPc, WorkFollowsPc, KeysAreExclusive, OnePostingPerKey, [Next]_vars
  PROVE  OnePostingPerKey'
<1>1. CASE UNCHANGED tables
  BY <1>1 DEF tables, OnePostingPerKey
<1>2. ASSUME NEW r \in Requests, Publishes(r), transactions' = transactions \cup {PostingRow(r)}
      PROVE  OnePostingPerKey'
  <2>1. \A t \in transactions : t.key # PostingRow(r).key
    BY <1>2 DEF Publishes, WrittenWhole, KeysAreExclusive, KeyIsKnown, PostingRow
  <2> QED BY <1>2, <2>1 DEF OnePostingPerKey
<1> QED BY <1>1, <1>2, PostedStep

LEMMA WholeStep ==
  ASSUME TypeOK, SessionFollowsPc, WorkFollowsPc, WholePostings, [Next]_vars
  PROVE  WholePostings'
<1>1. \A r : /\ PostingRow(r)' = PostingRow(r)
             /\ EntryRows(r)' = EntryRows(r)
             /\ OutboxRow(r)' = OutboxRow(r)
  BY RowsAreFixed
<1>2. CASE UNCHANGED tables /\ Posted' = Posted
  BY <1>1, <1>2 DEF tables, WholePostings
<1>3. ASSUME NEW r \in Requests, Publishes(r), Posted' = Posted \cup {r}
      PROVE  WholePostings'
  <2>1. /\ transactions' = transactions \cup {PostingRow(r)}
        /\ entries' = entries \cup EntryRows(r)
        /\ outbox' = outbox \cup {OutboxRow(r)}
    BY <1>3 DEF Publishes, WrittenWhole, Publish
  <2>2. transactions' = {PostingRow(q)' : q \in Posted'}
    BY <1>1, <1>3, <2>1 DEF WholePostings
  <2>3. entries' = UNION {EntryRows(q)' : q \in Posted'}
    BY <1>1, <1>3, <2>1 DEF WholePostings
  <2>4. outbox' = {OutboxRow(q)' : q \in Posted'}
    BY <1>1, <1>3, <2>1 DEF WholePostings
  <2> QED BY <2>2, <2>3, <2>4 DEF WholePostings
<1> QED BY <1>2, <1>3, PostedStep


----------------------------------------------------------------------------
\* Results.

LocalErrors == Errors \ {"ErrCommitTransaction", "ErrTransactionExists", "unique_violation"}

\* The errors of the calls before and inside the transaction are their own: none
\* is mistaken for a known key or an unknown commit.
LEMMA LocalErrorsType ==
  ASSUME TypeOK, NEW r \in Requests
  PROVE  /\ FindByID(input[r].debit).err \in LocalErrors
         /\ FindByID(input[r].credit).err \in LocalErrors
         /\ FundsError(r) \in LocalErrors
         /\ \A i \in DOMAIN BuildErrors(r) : BuildErrors(r)[i] \in LocalErrors
<1> USE DEF LocalErrors, Errors, NoError
<1>1. \A n, c : NewMoney(n, c).err \in LocalErrors
  BY DEF NewMoney, MoneyError, Returns
<1>2. \A a : FindByID(a).err \in LocalErrors
  BY <1>1 DEF FindByID, MoneyError
<1>3. FundsError(r) \in LocalErrors
  BY <1>1 DEF FundsError, Amount, AmountOf
<1>4. \A d, m : NewEntryError(d, m) \in LocalErrors
  BY DEF NewEntryError
<1>5. \A t, e : AddEntryError(t, e) \in LocalErrors
  BY DEF AddEntryError
<1>6. \A t : Complete(t).err \in LocalErrors
  BY DEF Complete, Transition, Returns
<1>7. \A m, other : Add(m, other).err \in LocalErrors /\ Subtract(m, other).err \in LocalErrors
  BY DEF Add, Subtract, MoneyError, Returns
<1>8. DebitEntry(r).err \in LocalErrors /\ CreditEntry(r).err \in LocalErrors
  BY <1>4 DEF DebitEntry, CreditEntry, DebitEntryOf, CreditEntryOf, NewEntry
<1>9. WithDebit(r).err \in LocalErrors /\ WithBoth(r).err \in LocalErrors
  BY <1>5 DEF WithDebit, WithBoth, AddEntry
<1>10. Completed(r).err \in LocalErrors
  BY <1>6 DEF Completed
<1>11. \A i \in DOMAIN BuildErrors(r) : BuildErrors(r)[i] \in LocalErrors
  <2> HIDE DEF LocalErrors
  <2> QED BY <1>7, <1>8, <1>9, <1>10 DEF BuildErrors
<1> QED BY <1>2, <1>3, <1>11

\* A key that the database knows was posted by another request.
LEMMA KnownKeyIsAnothers ==
  ASSUME TypeOK, PostedAreFinished, NEW r \in Requests,
         KeyIsKnown(Key(r)), pc[r] \notin Returned
  PROVE  \E q \in Posted \ {r} : Key(q) = Key(r)
<1>1. PICK t \in transactions : t.key = Key(r)
  BY DEF KeyIsKnown
<1>2. PICK q \in Requests : t = PostingRow(q)
  BY DEF TypeOK
<1>3. q \in Posted /\ Key(q) = Key(r)
  BY <1>1, <1>2 DEF Posted, PostingRow
<1> QED BY <1>3 DEF PostedAreFinished


\* It finds nothing of its request posted, and says nothing of the key.
LEMMA ResultOfCancelledRead ==
  ASSUME TypeOK, SessionFollowsPc, PostedAreFinished, ResultFollowsPc, ResultTellsOutcome,
         NEW r \in Requests, CancelRead(r)
  PROVE  ResultFollowsPc' /\ ResultTellsOutcome'
<1>1. PICK err \in {"ErrBeginTransaction", "context canceled"} :
        /\ pc' = [pc EXCEPT ![r] = "returned"]
        /\ result' = [result EXCEPT ![r] = err]
  BY CancelledRead
<1>2. /\ pc[r] \in {"exists", "findDebit", "findCredit", "begin"}
      /\ session' = session /\ Posted' = Posted /\ \A q : Key(q)' = Key(q)
  BY DEF CancelRead, tables, Posted, Key
<1>3. r \notin Posted
  BY <1>2 DEF PostedAreFinished, Returned
<1>4. pc'[r] = "returned" /\ result'[r] = err
  BY <1>1 DEF TypeOK
<1>5. \A q \in Requests \ {r} : pc'[q] = pc[q] /\ result'[q] = result[q]
  BY <1>1 DEF TypeOK
<1>6. session[r] = "none"
  BY <1>2 DEF SessionFollowsPc, Reading
<1>7. ResultFollowsPc'
  BY <1>2, <1>4, <1>5, <1>6 DEF ResultFollowsPc, Returned
<1>8. ResultTellsOutcome'
  BY <1>2, <1>3, <1>4, <1>5 DEF ResultTellsOutcome, NoError
<1> QED
  BY <1>7, <1>8

LEMMA ResultStep ==
  ASSUME TypeOK, SessionFollowsPc, WorkFollowsPc, PostedAreFinished,
         ResultFollowsPc, ResultTellsOutcome, [Next]_vars
  PROVE  ResultFollowsPc' /\ ResultTellsOutcome'
<1> DEFINE Goal == ResultFollowsPc' /\ ResultTellsOutcome'
<1>1. \A r : Key(r)' = Key(r)
  BY RowsAreFixed
<1>2. /\ pc \in [Requests -> {"idle", "begin"} \cup Reading \cup InTransaction \cup Returned]
      /\ result \in [Requests -> Errors]
      /\ session \in [Requests -> {"none", "open", "failed", "abandoned", "committing"}]
  BY DEF TypeOK
<1>3. UNCHANGED tables => Posted' = Posted
  BY DEF tables, Posted
<1>4. Posted \subseteq Requests /\ \A r \in Posted : pc[r] \in Returned
  BY PostedAreRequests DEF PostedAreFinished
<1> USE <1>1, <1>2, <1>3, <1>4
    DEF SessionFollowsPc, ResultFollowsPc, ResultTellsOutcome, InSession, Reading,
        Statements, InTransaction, Returned, NoError
<1>5. ASSUME NEW r \in Requests, Arrive(r) \/ Begin(r) \/ Build(r) PROVE Goal
  BY <1>5 DEF Arrive, Begin, Build
<1>6. ASSUME NEW r \in Requests, ExistsByIdempotencyKey(r) PROVE Goal
  <2>1. CASE KeyIsKnown(Key(r))
    <3>1. \E q \in Posted \ {r} : Key(q) = Key(r)
      BY <1>6, <2>1, KnownKeyIsAnothers DEF ExistsByIdempotencyKey
    <3> QED BY <1>6, <2>1, <3>1 DEF ExistsByIdempotencyKey, ProceedOrReturn
  <2>2. CASE ~ KeyIsKnown(Key(r))
    BY <1>6, <2>2 DEF ExistsByIdempotencyKey, ProceedOrReturn
  <2> QED BY <2>1, <2>2
<1>7. ASSUME NEW r \in Requests, FindDebitAccount(r) \/ FindCreditAccount(r) \/ CheckFunds(r)
      PROVE  Goal
  BY <1>7, LocalErrorsType
     DEF FindDebitAccount, FindCreditAccount, CheckFunds, ProceedOrReturn, LocalErrors
<1>8. ASSUME NEW r \in Requests, BuildFails(r) PROVE Goal
  BY <1>8, LocalErrorsType DEF BuildFails, ProceedOrRollback, LocalErrors
<1>9. ASSUME NEW r \in Requests, SaveTransaction(r) PROVE Goal
  <2>1. CASE KeyIsKnown(Key(r))
    <3>1. \E q \in Posted \ {r} : Key(q) = Key(r)
      BY <1>9, <2>1, KnownKeyIsAnothers DEF SaveTransaction
    <3> QED BY <1>9, <2>1, <3>1 DEF SaveTransaction, StatementFails, ProceedOrRollback
  <2>2. CASE ~ KeyIsKnown(Key(r))
    BY <1>9, <2>2 DEF SaveTransaction, ProceedOrRollback
  <2> QED BY <2>1, <2>2
<1>10. ASSUME NEW r \in Requests, UpdateDebit(r) \/ UpdateCredit(r) PROVE Goal
  BY <1>10 DEF UpdateDebit, UpdateCredit, UpdateBalance, ProceedOrRollback
<1>11. ASSUME NEW r \in Requests, SaveOutbox(r) PROVE Goal
  BY <1>11 DEF SaveOutbox, StatementFails, ProceedOrRollback
<1>12. ASSUME NEW r \in Requests, Commit(r) PROVE Goal
  <2>1. transactions' = transactions \cup {PostingRow(r)}
    BY <1>12 DEF Commit, WorkFollowsPc, WrittenWhole, Publish
  <2>2. Posted' = Posted \cup {r}
    BY <2>1, RowOfPosting DEF Posted
  <2> QED BY <1>12, <2>2 DEF Commit, EndSession
<1>13. ASSUME NEW r \in Requests, ServerCommits(r) PROVE Goal
  <2>1. transactions' = transactions \cup {PostingRow(r)}
    BY <1>13 DEF ServerCommits, WorkFollowsPc, WrittenWhole, Publish
  <2>2. Posted' = Posted \cup {r}
    BY <2>1, RowOfPosting DEF Posted
  <2> QED BY <1>13, <2>2 DEF ServerCommits, EndSession, request
<1>14. ASSUME NEW r \in Requests, Rollback(r) PROVE Goal
  BY <1>14 DEF Rollback, EndSession
<1>15. ASSUME NEW r \in Requests, ServerAborts(r) PROVE Goal
  BY <1>15 DEF ServerAborts, EndSession, request
<1>16. ASSUME NEW r \in Requests, DeadlockVictim(r) PROVE Goal
  <2>1. pc[r] \in Statements
    BY <1>16, VictimWaits
  <2> QED
    BY <1>16, <2>1 DEF DeadlockVictim, StatementFails, ProceedOrRollback
<1>17. ASSUME NEW r \in Requests, Fault(r) PROVE Goal
  <2>1. CASE CancelRead(r)
    BY <2>1, ResultOfCancelledRead
  <2>2. CASE CancelInTransaction(r)
    BY <2>2 DEF CancelInTransaction, Abandon
  <2>3. CASE CancelCommit(r)
    BY <2>3 DEF CancelCommit
  <2> QED BY <1>17, <2>1, <2>2, <2>3 DEF Fault
<1>18. CASE Crash
  BY <1>18 DEF Crash
<1>19. CASE UNCHANGED vars
  BY <1>19 DEF vars, request, tables
<1> QED
  BY <1>5, <1>6, <1>7, <1>8, <1>9, <1>10, <1>11, <1>12, <1>13, <1>14, <1>15, <1>16, <1>17,
     <1>18, <1>19 DEF Next, Step, Handle, Resolve, Quiescent


----------------------------------------------------------------------------
\* Types.

AllPcs == {"idle", "begin"} \cup Reading \cup InTransaction \cup Returned

AllSessions == {"none", "open", "failed", "abandoned", "committing"}

ControlType == /\ pc \in [Requests -> AllPcs]
               /\ result \in [Requests -> Errors]
               /\ session \in [Requests -> AllSessions]

LEMMA ControlTypeStep ==
  ASSUME TypeOK, [Next]_vars
  PROVE  ControlType'
<1>1. ControlType
  BY DEF TypeOK, ControlType, AllPcs, AllSessions
<1> USE <1>1 DEF ControlType, AllPcs, AllSessions, Reading, Statements, InTransaction, Returned
<1>2. ASSUME NEW r \in Requests, Arrive(r) \/ Begin(r) \/ Build(r) PROVE ControlType'
  BY <1>2 DEF Arrive, Begin, Build
<1>3. ASSUME NEW r \in Requests,
             \/ ExistsByIdempotencyKey(r) \/ FindDebitAccount(r)
             \/ FindCreditAccount(r) \/ CheckFunds(r)
      PROVE  ControlType'
  <2>1. "ErrTransactionExists" \in Errors /\ NoError \in Errors
    BY DEF Errors
  <2> QED BY <1>3, <2>1, LocalErrorsType
          DEF ExistsByIdempotencyKey, FindDebitAccount, FindCreditAccount, CheckFunds,
              ProceedOrReturn, LocalErrors
<1>4. ASSUME NEW r \in Requests, BuildFails(r) PROVE ControlType'
  BY <1>4, LocalErrorsType DEF BuildFails, ProceedOrRollback, LocalErrors
<1>5. ASSUME NEW r \in Requests,
             \/ SaveTransaction(r) \/ UpdateDebit(r) \/ UpdateCredit(r)
             \/ SaveOutbox(r) \/ DeadlockVictim(r)
      PROVE  ControlType'
  BY <1>5 DEF SaveTransaction, UpdateDebit, UpdateCredit, UpdateBalance, SaveOutbox,
     DeadlockVictim, StatementFails, ProceedOrRollback, Errors, NoError
<1>6. ASSUME NEW r \in Requests, Commit(r) \/ Rollback(r) \/ Resolve(r) PROVE ControlType'
  BY <1>6 DEF Commit, Rollback, Resolve, ServerAborts, ServerCommits, EndSession, request
<1>7. ASSUME NEW r \in Requests, Fault(r) PROVE ControlType'
  BY <1>7 DEF Fault, CancelRead, CancelInTransaction, CancelCommit, Abandon,
     ProceedOrReturn, Errors, NoError
<1>8. CASE Crash
  BY <1>8 DEF Crash
<1>9. CASE UNCHANGED vars
  BY <1>9 DEF vars, request
<1> QED
  BY <1>2, <1>3, <1>4, <1>5, <1>6, <1>7, <1>8, <1>9 DEF Next, Step, Handle, Quiescent

DataType == /\ debit \in [Requests -> Money \cup {NoMoney}]
            /\ credit \in [Requests -> Money \cup {NoMoney}]
            /\ posting \in [Requests -> PostingType]

LEMMA DataTypeStep ==
  ASSUME TypeOK, [Next]_vars
  PROVE  DataType'
<1>1. DataType
  BY DEF TypeOK, DataType
<1>2. PostingType' = PostingType
  <2>1. \A r : Completed(r)' = Completed(r)
    BY RowsAreFixed
  <2> QED BY <2>1 DEF PostingType
<1>3. \A a : FindByID(a).val \in Money \cup {NoMoney}
  <2>1. ASSUME NEW a \in Accounts PROVE FindByID(a).val \in Money \cup {NoMoney}
    <3>1. balance[a].amount \in Int64
      BY DEF TypeOK, Money
    <3> QED BY <3>1, NewMoneyType DEF FindByID
  <2>2. ASSUME NEW a, a \notin Accounts PROVE FindByID(a).val \in Money \cup {NoMoney}
    BY <2>2 DEF FindByID, MoneyError
  <2> QED BY <2>1, <2>2
<1>4. \A r \in Requests : Amount(r).val \in Money \cup {NoMoney}
  BY NewMoneyType, LedgerAssumption DEF Amount, AmountOf, TypeOK, InputShape
<1>5. ASSUME NEW r \in Requests, FindDebitAccount(r) \/ FindCreditAccount(r) PROVE DataType'
  BY <1>1, <1>2, <1>3, <1>5 DEF FindDebitAccount, FindCreditAccount, DataType
<1>6. ASSUME NEW r \in Requests, Build(r) PROVE DataType'
  <2>1. /\ Subtract(debit[r], Amount(r).val).val \in Money \cup {NoMoney}
        /\ Add(credit[r], Amount(r).val).val \in Money \cup {NoMoney}
    BY <1>1, <1>4, ArithmeticType DEF DataType
  <2> QED BY <1>1, <1>2, <1>6, <2>1 DEF Build, DataType, PostingType
<1>7. CASE UNCHANGED <<debit, credit, posting>>
  BY <1>1, <1>2, <1>7 DEF DataType
<1> QED
  BY <1>5, <1>6, <1>7 DEF Next, Step, Handle, Fault, Resolve, Arrive, ExistsByIdempotencyKey,
     CheckFunds, Begin, BuildFails, SaveTransaction, UpdateDebit, UpdateCredit,
     UpdateBalance, SaveOutbox, Commit, Rollback, DeadlockVictim, CancelRead,
     CancelInTransaction, CancelCommit, ServerAborts, ServerCommits, Crash, Quiescent,
     vars, request


LEMMA WrittenIsFixed ==
  ASSUME [Next]_vars
  PROVE  Written' = Written
<1>1. \A r : /\ PostingRow(r)' = PostingRow(r)
             /\ EntryRows(r)' = EntryRows(r)
             /\ OutboxRow(r)' = OutboxRow(r)
  BY RowsAreFixed
<1>2. /\ {PostingRow(r) : r \in Requests}' = {PostingRow(r) : r \in Requests}
      /\ {EntryRows(r) : r \in Requests}' = {EntryRows(r) : r \in Requests}
      /\ {OutboxRow(r) : r \in Requests}' = {OutboxRow(r) : r \in Requests}
  BY <1>1
<1> QED BY <1>2 DEF Written

LEMMA WorkTypeStep ==
  ASSUME TypeOK, SessionFollowsPc, WorkFollowsPc, [Next]_vars
  PROVE  work' \in [Requests -> Written]
<1>1. /\ work \in [Requests -> Written]
      /\ debit \in [Requests -> Money \cup {NoMoney}]
      /\ credit \in [Requests -> Money \cup {NoMoney}]
  BY DEF TypeOK
<1>2. NoWork \in Written
  BY DEF NoWork, Written, Unwritten
<1>3. ASSUME NEW r \in Requests, NEW w \in Written, work' = [work EXCEPT ![r] = w]
      PROVE  work' \in [Requests -> Written]
  BY <1>1, <1>3
<1>4. ASSUME NEW r \in Requests, SaveTransaction(r) PROVE work' \in [Requests -> Written]
  <2>1. /\ ToTransactionModel(posting[r]) = PostingRow(r)
        /\ ToEntryModels(posting[r]) = EntryRows(r)
    BY <1>4, RowsOfBuilt DEF SaveTransaction, WorkFollowsPc, Statements
  <2>2. CASE StatementFails(r, "unique_violation")
    <3>1. work' = [work EXCEPT ![r] = NoWork]
      BY <2>2 DEF StatementFails
    <3> QED BY <1>2, <1>3, <3>1
  <2>3. CASE ~ KeyIsKnown(Key(r))
    <3>1. work' = [work EXCEPT ![r].transactions = {PostingRow(r)}, ![r].entries = EntryRows(r)]
      BY <1>4, <2>1, <2>3 DEF SaveTransaction
    <3>2. work[r] = [transactions |-> work[r].transactions, entries |-> work[r].entries,
                     balances |-> work[r].balances, outbox |-> work[r].outbox]
      BY <1>1 DEF Written
    <3>3. work'[r] = [transactions |-> {PostingRow(r)}, entries |-> EntryRows(r),
                      balances |-> work[r].balances, outbox |-> work[r].outbox]
      BY <1>1, <3>1, <3>2
    <3>4. work'[r] \in Written
      BY <1>1, <3>3 DEF Written
    <3>5. work' = [work EXCEPT ![r] = work'[r]]
      BY <1>1, <3>1
    <3> QED BY <1>3, <3>4, <3>5
  <2> QED BY <1>4, <2>2, <2>3 DEF SaveTransaction
<1>5. ASSUME NEW r \in Requests, NEW a, NEW m \in Money \cup {NoMoney},
             work' = [work EXCEPT ![r].balances[a] = m]
      PROVE  work' \in [Requests -> Written]
  <2>1. [work[r].balances EXCEPT ![a] = m] \in [Accounts -> Money \cup {NoMoney}]
    BY <1>1, <1>5 DEF Written
  <2>2. work'[r] = [transactions |-> work[r].transactions, entries |-> work[r].entries,
                    balances |-> [work[r].balances EXCEPT ![a] = m],
                    outbox |-> work[r].outbox]
    BY <1>1, <1>5 DEF Written
  <2>3. work'[r] \in Written
    BY <1>1, <2>1, <2>2 DEF Written
  <2>4. work' = [work EXCEPT ![r] = work'[r]]
    BY <1>1, <1>5
  <2> QED BY <1>3, <2>3, <2>4
<1>6. ASSUME NEW r \in Requests, UpdateDebit(r) \/ UpdateCredit(r)
      PROVE  work' \in [Requests -> Written]
  <2>1. debit[r] \in Money \cup {NoMoney} /\ credit[r] \in Money \cup {NoMoney}
    BY <1>1
  <2> QED BY <1>5, <1>6, <2>1 DEF UpdateDebit, UpdateCredit, UpdateBalance
<1>7. ASSUME NEW r \in Requests, SaveOutbox(r) PROVE work' \in [Requests -> Written]
  <2>1. NewOutbox(r, posting[r]) = OutboxRow(r)
    BY <1>7, RowsOfBuilt DEF SaveOutbox, WorkFollowsPc, Statements
  <2>2. CASE StatementFails(r, "value_too_long")
    BY <1>2, <1>3, <2>2 DEF StatementFails
  <2>3. CASE work' = [work EXCEPT ![r].outbox = {NewOutbox(r, posting[r])}]
    <3>1. work'[r] = [transactions |-> work[r].transactions, entries |-> work[r].entries,
                      balances |-> work[r].balances, outbox |-> {OutboxRow(r)}]
      BY <1>1, <2>1, <2>3 DEF Written
    <3>2. work'[r] \in Written
      BY <1>1, <3>1 DEF Written
    <3>3. work' = [work EXCEPT ![r] = work'[r]]
      BY <1>1, <2>3
    <3> QED BY <1>3, <3>2, <3>3
  <2> QED BY <1>7, <2>2, <2>3 DEF SaveOutbox
<1>8. ASSUME NEW r \in Requests, Commit(r) \/ Rollback(r) \/ Resolve(r) \/ DeadlockVictim(r)
      PROVE  work' \in [Requests -> Written]
  BY <1>1, <1>2, <1>8 DEF Commit, Rollback, Resolve, ServerAborts, ServerCommits, EndSession,
     DeadlockVictim, StatementFails
<1>9. CASE UNCHANGED work
  BY <1>1, <1>9
<1> QED
  BY <1>4, <1>6, <1>7, <1>8, <1>9 DEF Next, Step, Handle, Fault, Arrive,
     ExistsByIdempotencyKey, FindDebitAccount, FindCreditAccount, CheckFunds, Begin,
     BuildFails, Build, CancelRead, CancelInTransaction, CancelCommit, Crash, Quiescent,
     vars, request

LEMMA TypeStep ==
  ASSUME TypeOK, SessionFollowsPc, WorkFollowsPc, [Next]_vars
  PROVE  TypeOK'
<1>1. ControlType' /\ DataType' /\ input' = input
  BY ControlTypeStep, DataTypeStep, InputIsFixed
<1>2. work' \in [Requests -> Written']
  BY WorkTypeStep, WrittenIsFixed
<1>3. \A r : PostingRow(r)' = PostingRow(r)
  BY RowsAreFixed
<1>4. balance' \in [Accounts -> Money] /\ transactions' \subseteq {PostingRow(r) : r \in Requests}
  <2>1. CASE UNCHANGED tables
    BY <2>1 DEF tables, TypeOK
  <2>2. ASSUME NEW r \in Requests, Publishes(r)
        PROVE  balance' \in [Accounts -> Money] /\ transactions' \subseteq {PostingRow(q) : q \in Requests}
    <3>1. work[r].balances \in [Accounts -> Money \cup {NoMoney}]
      BY DEF TypeOK, Written
    <3> QED BY <2>2, <3>1 DEF Publishes, WrittenWhole, Publish, TypeOK
  <2> QED BY <2>1, <2>2, PostedStep
<1> QED BY <1>1, <1>2, <1>3, <1>4 DEF TypeOK, ControlType, DataType, AllPcs, AllSessions

----------------------------------------------------------------------------

LEMMA InitInv ==
  ASSUME Init
  PROVE  IndInv
<1> USE DEF Init
<1>1. TypeOK
  <2>1. NoWork \in Written
    BY DEF NoWork, Written, Unwritten
  <2>2. NoError \in Errors
    BY DEF Errors
  <2> QED BY <2>1, <2>2, LedgerAssumption DEF TypeOK, PostingType
<1>2. SessionFollowsPc /\ WorkFollowsPc
  BY DEF SessionFollowsPc, WorkFollowsPc, InSession, Reading, Statements, InTransaction,
     Returned, NoWork, Unwritten
<1>3. KeysAreExclusive
  BY DEF KeysAreExclusive, NoWork
<1>4. Posted = {}
  BY DEF Posted
<1>5. OnePostingPerKey /\ PostedAreFinished /\ WholePostings
  BY <1>4 DEF OnePostingPerKey, PostedAreFinished, WholePostings
<1>6. ResultFollowsPc /\ ResultTellsOutcome
  BY DEF ResultFollowsPc, ResultTellsOutcome, Returned, NoError
<1> QED BY <1>1, <1>2, <1>3, <1>5, <1>6 DEF IndInv

LEMMA StepInv ==
  ASSUME IndInv, [Next]_vars
  PROVE  IndInv'
<1> USE DEF IndInv
<1>1. TypeOK'
  BY TypeStep
<1>2. SessionFollowsPc' /\ WorkFollowsPc'
  BY SessionStep, WorkStep
<1>3. KeysAreExclusive' /\ OnePostingPerKey'
  BY KeysStep, OnePostingStep
<1>4. PostedAreFinished' /\ WholePostings'
  BY FinishedStep, WholeStep
<1>5. ResultFollowsPc' /\ ResultTellsOutcome'
  BY ResultStep
<1> QED BY <1>1, <1>2, <1>3, <1>4, <1>5

\* The invariant of the proofs holds in every state of the ledger.
THEOREM Invariance == Spec => []IndInv
<1>1. Init => IndInv
  BY InitInv
<1>2. IndInv /\ [Next]_vars => IndInv'
  BY StepInv
<1> QED BY <1>1, <1>2, PTL DEF Spec

\* Every variable keeps its type, balances included: the wrapped arithmetic of
\* Money never leaves int64 (money.go), the rows written are those of the inputs.
THEOREM TypeCorrect == Spec => []TypeOK
<1>1. IndInv => TypeOK
  BY DEF IndInv
<1> QED BY <1>1, Invariance, PTL

\* README.md:182, for any number of retries, requests, connections and faults: a
\* key is posted at most once.
THEOREM Idempotency == Spec => []OnePostingPerKey
<1>1. IndInv => OnePostingPerKey
  BY DEF IndInv
<1> QED BY <1>1, Invariance, PTL

\* README.md:178: a transaction, its two entries and its event are committed
\* together or not at all.
THEOREM Atomicity == Spec => []WholePostings
<1>1. IndInv => WholePostings
  BY DEF IndInv
<1> QED BY <1>1, Invariance, PTL

\* What CreateTransaction.Execute returns tells what the database holds.
THEOREM ResultsAreTruthful == Spec => []ResultTellsOutcome
<1>1. IndInv => ResultTellsOutcome
  BY DEF IndInv
<1> QED BY <1>1, Invariance, PTL

\* Whatever path WithTransaction takes, the connection is back when it returns.
THEOREM PoolIsRestored == Spec => []ConnectionsComeBack
<1>1. IndInv => ConnectionsComeBack
  BY DEF IndInv, SessionFollowsPc, ConnectionsComeBack, Returned
<1> QED BY <1>1, Invariance, PTL


----------------------------------------------------------------------------
\* Action properties.

\* Balances change with a posting and on its two accounts only.
THEOREM BalancesFollowPostings == Spec => BalancesMoveWithPosting
<1> DEFINE Moves == \E r \in Requests :
              /\ r \notin Posted /\ Posted' = Posted \cup {r}
              /\ \A a \in Accounts \ {input[r].debit, input[r].credit} : balance'[a] = balance[a]
<1>1. IndInv /\ [Next]_vars => (balance' # balance => Moves)
  <2> SUFFICES ASSUME IndInv, [Next]_vars, balance' # balance
               PROVE  Moves
    OBVIOUS
  <2>1. PICK r \in Requests : Publishes(r) /\ Posted' = Posted \cup {r}
    BY PostedStep DEF IndInv, tables
  <2>2. r \notin Posted
    BY <2>1, RowOfPosting
       DEF IndInv, PostedAreFinished, WorkFollowsPc, Publishes, WrittenWhole, NoWork
  <2>3. \A a \in Accounts \ {input[r].debit, input[r].credit} : balance'[a] = balance[a]
    BY <2>1 DEF IndInv, WorkFollowsPc, Publishes, Publish
  <2> QED BY <2>1, <2>2, <2>3
<1>2. [][balance' # balance => Moves]_vars <=> BalancesMoveWithPosting
  BY PTL DEF BalancesMoveWithPosting
<1> QED BY <1>1, <1>2, Invariance, PTL DEF Spec

----------------------------------------------------------------------------
\* Refinement.

\* The refinement mapping, in terms of the requests that have posted.
TablesAreJournal ==
  /\ {PostingOf(t) : t \in transactions} = {AsPosting(r, input[r]) : r \in Posted}
  /\ {e.aggregate : e \in outbox} = Posted

\* It follows from the invariant.
LEMMA JournalOfTables == TypeOK /\ WholePostings => TablesAreJournal
<1> SUFFICES ASSUME TypeOK, WholePostings PROVE TablesAreJournal
  OBVIOUS
<1>1. \A r : \A e \in EntryRows(r) : e.transaction = r
  BY DEF EntryRows, DebitEntry, CreditEntry, DebitEntryOf, CreditEntryOf, NewEntry
<1>2. \A r \in Posted : {e \in entries : e.transaction = r} = EntryRows(r)
  BY <1>1 DEF WholePostings
<1>3. \A r \in Posted : PostingOf(PostingRow(r)) = AsPosting(r, input[r])
  BY <1>2, RowOfPosting, ZenonT(60)
     DEF PostingOf, AsPosting, EntryRows, DebitEntry, CreditEntry, Key
<1>4. {PostingOf(t) : t \in transactions} = {AsPosting(r, input[r]) : r \in Posted}
  BY <1>3 DEF WholePostings
<1>5. \A r : OutboxRow(r).aggregate = r
  BY RowOfPosting DEF OutboxRow, NewOutbox
<1>6. {e.aggregate : e \in outbox} = Posted
  BY <1>5 DEF WholePostings
<1> QED BY <1>4, <1>6 DEF TablesAreJournal

\* The entries of an input that NewEntry accepts are a double entry.
LEMMA EntriesAreDouble ==
  ASSUME TypeOK, NEW r \in Requests, DebitEntry(r).err = NoError
  PROVE  AsJournal!DoubleEntry(AsPosting(r, input[r]).lines)
<1> DEFINE d == DebitEntry(r).val
           c == CreditEntry(r).val
<1>1. AsPosting(r, input[r]).lines = {d, c}
  BY DEF AsPosting, DebitEntry, CreditEntry
<1>2. d.direction = "DEBIT" /\ c.direction = "CREDIT" /\ d.amount = c.amount
  BY DEF DebitEntry, CreditEntry, DebitEntryOf, CreditEntryOf, NewEntry
<1>3. d.amount.amount > 0
  <2>1. d.amount = Amount(r).val
    BY DEF DebitEntry, DebitEntryOf, NewEntry, Amount
  <2>2. Amount(r).val \in Money \cup {NoMoney}
    BY NewMoneyType, LedgerAssumption DEF Amount, AmountOf, TypeOK, InputShape
  <2>3. Amount(r).val.amount \in Int
    <3>1. \A m \in Money : m.amount \in Int
      BY IntMaxAssumption DEF Money, Int64
    <3>2. NoMoney.amount = 0
      BY DEF NoMoney
    <3> QED BY <2>2, <3>1, <3>2
  <2>4. ~ IsZero(d.amount) /\ ~ IsNegative(d.amount)
    BY DEF DebitEntry, DebitEntryOf, NewEntry, NewEntryError, NoError
  <2> QED BY <2>1, <2>3, <2>4 DEF IsZero, IsNegative
<1> HIDE DEF d, c
<1> QED BY <1>1, <1>2, <1>3 DEF AsJournal!DoubleEntry

\* The ledger, with every race and every fault, implements Journal: whole double
\* entries appended with their event, one per key, and never changed.
THEOREM Refinement == Spec => ImplementsJournal
<1> DEFINE journal == {PostingOf(t) : t \in transactions}
           events == {e.aggregate : e \in outbox}
<1>1. Init => AsJournal!Init
  BY DEF Init, AsJournal!Init
<1>2. IndInv => TablesAreJournal
  BY JournalOfTables DEF IndInv
<1>3. IndInv /\ TablesAreJournal /\ TablesAreJournal' /\ [Next]_vars
        => [AsJournal!Next]_<<journal, events>>
  <2> SUFFICES ASSUME IndInv, TablesAreJournal, TablesAreJournal', [Next]_vars
               PROVE  [AsJournal!Next]_<<journal, events>>
    OBVIOUS
  <2>1. CASE UNCHANGED tables
    BY <2>1 DEF tables, PostingOf
  <2>2. ASSUME NEW r \in Requests, Publishes(r), Posted' = Posted \cup {r}
        PROVE  AsJournal!Post(AsPosting(r, input[r]))
    <3>1. journal = {AsPosting(q, input[q]) : q \in Posted} /\ events = Posted
      BY DEF TablesAreJournal
    <3>2. journal' = {AsPosting(q, input[q]) : q \in Posted'} /\ events' = Posted'
      BY InputIsFixed DEF TablesAreJournal, AsPosting
    <3>3. DebitEntry(r).err = NoError
      BY <2>2 DEF IndInv, WorkFollowsPc, Publishes, WrittenWhole
    <3>4. AsJournal!DoubleEntry(AsPosting(r, input[r]).lines)
      BY <3>3, EntriesAreDouble DEF IndInv
    <3>5. \A q \in Posted : q # r /\ Key(q) # Key(r)
      <4>1. work[r].transactions # {}
        BY <2>2 DEF Publishes, WrittenWhole
      <4>2. ~ KeyIsKnown(Key(r))
        BY <4>1 DEF IndInv, KeysAreExclusive
      <4>3. \A q \in Posted : PostingRow(q) \in transactions
        BY DEF IndInv, WholePostings
      <4> QED BY <4>2, <4>3, RowOfPosting DEF KeyIsKnown
    <3>6. \A q : AsPosting(q, input[q]).id = q /\ AsPosting(q, input[q]).key = Key(q)
      BY DEF AsPosting, Key
    <3>7. AsPosting(r, input[r]).id = r
      BY <3>6
    <3> HIDE DEF journal, events
    <3>8. \A p \in journal : p.id # AsPosting(r, input[r]).id /\ p.key # AsPosting(r, input[r]).key
      BY <3>1, <3>5, <3>6
    <3>9. journal' = journal \cup {AsPosting(r, input[r])} /\ events' = events \cup {r}
      BY <2>2, <3>1, <3>2
    <3> QED BY <3>4, <3>7, <3>8, <3>9 DEF AsJournal!Post, journal, events
  <2>3. ASSUME NEW r \in Requests, AsJournal!Post(AsPosting(r, input[r]))
        PROVE  AsJournal!Next
    <3>1. AsPosting(r, input[r]) \in AllPostings
      BY DEF IndInv, TypeOK, AllPostings
    <3> HIDE DEF journal, events
    <3> QED BY <2>3, <3>1 DEF AsJournal!Next, AsJournal!Post
  <2> QED BY <2>1, <2>2, <2>3, PostedStep DEF IndInv
<1> QED
  BY <1>1, <1>2, <1>3, Invariance, PTL DEF Spec, ImplementsJournal, AsJournal!Spec

============================================================================
