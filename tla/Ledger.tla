------------------------------- MODULE Ledger -------------------------------
(***************************************************************************)
(* CreateTransaction.Execute run concurrently by several requests over one *)
(* PostgreSQL database at READ COMMITTED: the use case (application/       *)
(* command), the unit of work and the repositories (infra/postgres), and,  *)
(* as the external part, the database's locks, unique index, deadlock      *)
(* detector and transactions, with the faults the code has error paths for.*)
(*                                                                         *)
(* One action is one statement of the request's goroutine that reaches the *)
(* database, or one stretch of local code between two of them.  Reads run  *)
(* outside the database transaction, on a connection of the pool that they *)
(* give back at once.                                                      *)
(***************************************************************************)
EXTENDS Transaction, FiniteSets

CONSTANTS
  Requests,            \* calls of Execute; a retry is a request of its own
  Inputs,              \* the CreateTransactionInput values they may carry
  Accounts,            \* ids of the rows of table accounts
  Seed,                \* their Balance when the requests start
  MaxConns,            \* size of the connection pool
  AggregateTypeWidth,  \* varchar width of outbox_events.aggregate_type
  EventTypeWidth       \* varchar width of outbox_events.event_type

InputShape(i) ==
  DOMAIN i = {"key", "debit", "credit", "amount", "currency"} /\ i.amount \in Int64

ASSUME LedgerAssumption ==
  /\ \A i \in Inputs : InputShape(i)
  /\ Seed \in [Accounts -> Money]
  /\ \A a \in Accounts : Seed[a].amount >= 0
  /\ MaxConns \in Nat \ {0}
  /\ AggregateTypeWidth \in Nat
  /\ EventTypeWidth \in Nat

VARIABLES
  \* the goroutine of each request
  pc, input,       \* where it stands, what it was asked
  debit, credit,   \* debitAccount.Balance and creditAccount.Balance
  posting,         \* newTransaction
  result,          \* the error it returns, or is about to return
  \* its transaction in the database
  session,         \* "none", "open", "failed", or abandoned by the client
  work,            \* what it wrote and has not committed; it owns these rows
  \* the committed tables
  balance, transactions, entries, outbox

request == <<pc, input, debit, credit, posting, result>>
tables == <<balance, transactions, entries, outbox>>
vars == <<request, session, work, tables>>

----------------------------------------------------------------------------
\* Rows.  Ids are uuids: the request that makes a row names it.

Key(r) == input[r].key

AmountOf(i) == NewMoney(i.amount, i.currency)

Amount(r) == AmountOf(input[r])

\* The two entries of request r for input i.
DebitEntryOf(r, i) ==
  NewEntry(<<r, "DEBIT">>, i.key, "DEBIT", AmountOf(i).val, i.debit, r)

CreditEntryOf(r, i) ==
  NewEntry(<<r, "CREDIT">>, i.key, "CREDIT", AmountOf(i).val, i.credit, r)

\* model.ToTransactionModel
ToTransactionModel(t) == [id |-> t.id, key |-> t.key, status |-> t.status]

\* Faulty variant: the batch gets the first entry only.
FirstEntryModel(t) == {t.entries[1]}

\* model.ToEntryModel, for each entry of the aggregate
ToEntryModels(t) == {t.entries[i] : i \in DOMAIN t.entries}

\* event.TransactionCreated, and outbox.NewOutbox as model.ToOutboxModel stores it
NewOutbox(r, t) ==
  [id |-> r, aggregate |-> t.id, status |-> "PENDING", attempts |-> 0,
   payload |-> [transaction |-> t.id, key |-> Key(r), debit |-> input[r].debit,
                credit |-> input[r].credit, amount |-> input[r].amount,
                currency |-> input[r].currency, status |-> t.status]]

Unwritten == [a \in Accounts |-> NoMoney]

NoWork == [transactions |-> {}, entries |-> {}, balances |-> Unwritten, outbox |-> {}]

NoPosting == NewTransaction("", "")

\* "TRANSACTION" and "ledger.transaction.created"
AggregateTypeLength == 11
EventTypeLength == 26

----------------------------------------------------------------------------
\* Control.

Reading == {"exists", "findDebit", "findCredit", "checkFunds"}
Statements == {"saveTransaction", "updateDebit", "updateCredit", "saveOutbox"}
InTransaction == {"build", "rollback", "commit"} \cup Statements
Returned == {"returned", "crashed"}

Init ==
  /\ pc = [r \in Requests |-> "idle"]
  /\ input \in [Requests -> Inputs]
  /\ debit = [r \in Requests |-> NoMoney]
  /\ credit = [r \in Requests |-> NoMoney]
  /\ posting = [r \in Requests |-> NoPosting]
  /\ result = [r \in Requests |-> NoError]
  /\ session = [r \in Requests |-> "none"]
  /\ work = [r \in Requests |-> NoWork]
  /\ balance = Seed
  /\ transactions = {}
  /\ entries = {}
  /\ outbox = {}

\* if err != nil { return err }, before the database transaction ...
ProceedOrReturn(r, err, next) ==
  /\ pc' = [pc EXCEPT ![r] = IF err = NoError THEN next ELSE "returned"]
  /\ result' = [result EXCEPT ![r] = err]

\* Faulty variant: the error of a statement is not looked at.
ProceedAnyway(r, err, next) ==
  /\ pc' = [pc EXCEPT ![r] = next]
  /\ result' = [result EXCEPT ![r] = err]

\* ... and inside it, where WithTransaction rolls back first.
ProceedOrRollback(r, err, next) ==
  /\ pc' = [pc EXCEPT ![r] = IF err = NoError THEN next ELSE "rollback"]
  /\ result' = [result EXCEPT ![r] = err]

\* The statement fails in the database, which ends the transaction there: its
\* writes and locks are gone, the connection still has to be rolled back.
StatementFails(r, err) ==
  /\ ProceedOrRollback(r, err, "")
  /\ session' = [session EXCEPT ![r] = "failed"]
  /\ work' = [work EXCEPT ![r] = NoWork]

FreeConnection ==
  Cardinality({q \in Requests : session[q] \in {"open", "failed"}}) < MaxConns

Arrive(r) ==
  /\ pc[r] = "idle"
  /\ pc' = [pc EXCEPT ![r] = "exists"]
  /\ UNCHANGED <<input, debit, credit, posting, result, session, work, tables>>

----------------------------------------------------------------------------
\* Before the database transaction.

KeyIsKnown(key) == \E t \in transactions : t.key = key

ExistsByIdempotencyKey(r) ==
  /\ pc[r] = "exists"
  /\ FreeConnection
  /\ ProceedOrReturn(r, IF KeyIsKnown(Key(r)) THEN "ErrTransactionExists" ELSE NoError,
                     "findDebit")
  /\ UNCHANGED <<input, debit, credit, posting, session, work, tables>>

\* ToAccountDomain validates the stored balance again with NewMoney.
FindByID(a) ==
  IF a \in Accounts THEN NewMoney(balance[a].amount, balance[a].currency)
  ELSE MoneyError("ErrAccountNotFound")

FindDebitAccount(r) ==
  /\ pc[r] = "findDebit"
  /\ FreeConnection
  /\ debit' = [debit EXCEPT ![r] = FindByID(input[r].debit).val]
  /\ ProceedOrReturn(r, FindByID(input[r].debit).err, "findCredit")
  /\ UNCHANGED <<input, credit, posting, session, work, tables>>

FindCreditAccount(r) ==
  /\ pc[r] = "findCredit"
  /\ FreeConnection
  /\ credit' = [credit EXCEPT ![r] = FindByID(input[r].credit).val]
  /\ ProceedOrReturn(r, FindByID(input[r].credit).err, "checkFunds")
  /\ UNCHANGED <<input, debit, posting, session, work, tables>>

FundsError(r) ==
  IF Amount(r).err # NoError THEN Amount(r).err
  ELSE IF ~ IsSufficientBalance(debit[r], Amount(r).val) THEN "ErrInsufficientBalance"
  ELSE NoError

CheckFunds(r) ==
  /\ pc[r] = "checkFunds"
  /\ ProceedOrReturn(r, FundsError(r), "begin")
  /\ UNCHANGED <<input, debit, credit, posting, session, work, tables>>

----------------------------------------------------------------------------
\* The function given to WithTransaction.

Begin(r) ==
  /\ pc[r] = "begin"
  /\ FreeConnection
  /\ session' = [session EXCEPT ![r] = "open"]
  /\ pc' = [pc EXCEPT ![r] = "build"]
  /\ UNCHANGED <<input, debit, credit, posting, result, work, tables>>

DebitEntry(r) == DebitEntryOf(r, input[r])
CreditEntry(r) == CreditEntryOf(r, input[r])

WithDebit(r) == AddEntry(NewTransaction(r, Key(r)), DebitEntry(r).val)
WithBoth(r) == AddEntry(WithDebit(r).val, CreditEntry(r).val)
Completed(r) == Complete(WithBoth(r).val)

\* The local calls, in their order; the first error ends the function.  Those who use
\* it bind it, as TLC would otherwise evaluate the calls each time.
BuildErrors(r) ==
  << DebitEntry(r).err, CreditEntry(r).err,
     Subtract(debit[r], Amount(r).val).err, Add(credit[r], Amount(r).val).err,
     WithDebit(r).err, WithBoth(r).err, Completed(r).err >>

BuildFails(r) ==
  /\ pc[r] = "build"
  /\ \E errors \in {BuildErrors(r)} : \E i \in DOMAIN errors :
       /\ errors[i] # NoError
       /\ \A j \in 1 .. i - 1 : errors[j] = NoError
       /\ ProceedOrRollback(r, errors[i], "")
  /\ UNCHANGED <<input, debit, credit, posting, session, work, tables>>

Build(r) ==
  /\ pc[r] = "build"
  /\ \E errors \in {BuildErrors(r)} : \A i \in DOMAIN errors : errors[i] = NoError
  /\ debit' = [debit EXCEPT ![r] = Subtract(@, Amount(r).val).val]
  /\ credit' = [credit EXCEPT ![r] = Add(@, Amount(r).val).val]
  /\ posting' = [posting EXCEPT ![r] = Completed(r).val]
  /\ pc' = [pc EXCEPT ![r] = "saveTransaction"]
  /\ UNCHANGED <<input, result, session, work, tables>>

\* Faulty variant: table transactions without its unique index.
NeverClaimed(r) == FALSE

\* An uncommitted row with the same key makes the insert wait ...
KeyIsClaimed(r) == \E q \in Requests \ {r} : \E t \in work[q].transactions : t.key = Key(r)

\* Faulty variant: the insert does not wait for the row that has not committed.
SaveTransactionNoWait(r) ==
  /\ pc[r] = "saveTransaction"
  /\ \/ /\ KeyIsKnown(Key(r)) \/ KeyIsClaimed(r)
        /\ StatementFails(r, "unique_violation")
     \/ /\ ~ KeyIsKnown(Key(r)) /\ ~ KeyIsClaimed(r)
        /\ work' = [work EXCEPT ![r].transactions = {ToTransactionModel(posting[r])},
                                ![r].entries = ToEntryModels(posting[r])]
        /\ ProceedOrRollback(r, NoError, "updateDebit")
        /\ UNCHANGED session
  /\ UNCHANGED <<input, debit, credit, posting, tables>>

\* ... and a committed one makes it fail.  The inserts into entries follow in
\* the same batch; their foreign keys are satisfied and take no lock that
\* conflicts with an update of a balance.
SaveTransaction(r) ==
  /\ pc[r] = "saveTransaction"
  /\ ~ KeyIsClaimed(r)
  /\ \/ /\ KeyIsKnown(Key(r))
        /\ StatementFails(r, "unique_violation")
     \/ /\ ~ KeyIsKnown(Key(r))
        /\ work' = [work EXCEPT ![r].transactions = {ToTransactionModel(posting[r])},
                                ![r].entries = ToEntryModels(posting[r])]
        /\ ProceedOrRollback(r, NoError, "updateDebit")
        /\ UNCHANGED session
  /\ UNCHANGED <<input, debit, credit, posting, tables>>

RowIsLocked(r, a) == \E q \in Requests \ {r} : work[q].balances[a] # NoMoney

\* Faulty variant: the update runs on the pool, outside the transaction.
UpdateBalanceOutside(r, a, money, next) ==
  /\ ~ RowIsLocked(r, a)
  /\ balance' = [balance EXCEPT ![a] = money]
  /\ ProceedOrRollback(r, NoError, next)
  /\ UNCHANGED <<input, debit, credit, posting, session, work, transactions, entries, outbox>>

\* UPDATE accounts SET balance = $1: an absolute value, computed from what the
\* request read before its transaction.  It waits for the row's writer, then
\* overwrites whatever that one committed.
UpdateBalance(r, a, money, next) ==
  /\ ~ RowIsLocked(r, a)
  /\ work' = [work EXCEPT ![r].balances[a] = money]
  /\ ProceedOrRollback(r, NoError, next)
  /\ UNCHANGED <<input, debit, credit, posting, session, tables>>

UpdateDebit(r) == /\ pc[r] = "updateDebit"
                  /\ UpdateBalance(r, input[r].debit, debit[r], "updateCredit")

\* Faulty variant: the debit side's new balance is written to the credit side.
UpdateCreditWithDebit(r) == /\ pc[r] = "updateCredit"
                            /\ UpdateBalance(r, input[r].credit, debit[r], "saveOutbox")

UpdateCredit(r) == /\ pc[r] = "updateCredit"
                   /\ UpdateBalance(r, input[r].credit, credit[r], "saveOutbox")

EventFitsColumns ==
  AggregateTypeLength <= AggregateTypeWidth /\ EventTypeLength <= EventTypeWidth

\* Faulty variant: the event is saved on the pool, outside the transaction.
SaveOutboxOutside(r) ==
  /\ pc[r] = "saveOutbox"
  /\ outbox' = outbox \cup {NewOutbox(r, posting[r])}
  /\ ProceedOrRollback(r, NoError, "commit")
  /\ UNCHANGED <<input, debit, credit, posting, session, work, balance, transactions, entries>>

SaveOutbox(r) ==
  /\ pc[r] = "saveOutbox"
  /\ \/ /\ EventFitsColumns
        /\ work' = [work EXCEPT ![r].outbox = {NewOutbox(r, posting[r])}]
        /\ ProceedOrRollback(r, NoError, "commit")
        /\ UNCHANGED session
     \/ /\ ~ EventFitsColumns
        /\ StatementFails(r, "value_too_long")
  /\ UNCHANGED <<input, debit, credit, posting, tables>>

----------------------------------------------------------------------------
\* WithTransaction's two ways out, and the database's.

\* The transaction's writes become the committed state, all at once.
Publish(r) ==
  /\ transactions' = transactions \cup work[r].transactions
  /\ entries' = entries \cup work[r].entries
  /\ outbox' = outbox \cup work[r].outbox
  /\ balance' = [a \in Accounts |-> IF work[r].balances[a] = NoMoney THEN balance[a]
                                    ELSE work[r].balances[a]]

EndSession(r) ==
  /\ session' = [session EXCEPT ![r] = "none"]
  /\ work' = [work EXCEPT ![r] = NoWork]

Commit(r) ==
  /\ pc[r] = "commit"
  /\ Publish(r)
  /\ EndSession(r)
  /\ pc' = [pc EXCEPT ![r] = "returned"]
  /\ UNCHANGED <<input, debit, credit, posting, result>>

\* Faulty variant: the error of the function is lost.
RollbackForgetsError(r) ==
  /\ pc[r] = "rollback"
  /\ EndSession(r)
  /\ pc' = [pc EXCEPT ![r] = "returned"]
  /\ result' = [result EXCEPT ![r] = NoError]
  /\ UNCHANGED <<input, debit, credit, posting, tables>>

\* Faulty variant: WithTransaction returns the error and does not roll back.
RollbackForgotten(r) ==
  /\ pc[r] = "rollback"
  /\ pc' = [pc EXCEPT ![r] = "returned"]
  /\ UNCHANGED <<input, debit, credit, posting, result, session, work, tables>>

\* Faulty variant: the unit of work tries again, whatever the error was.
RollbackRetries(r) ==
  /\ pc[r] = "rollback"
  /\ EndSession(r)
  /\ pc' = [pc EXCEPT ![r] = "begin"]
  /\ UNCHANGED <<input, debit, credit, posting, result, tables>>

Rollback(r) ==
  /\ pc[r] = "rollback"
  /\ EndSession(r)
  /\ pc' = [pc EXCEPT ![r] = "returned"]
  /\ UNCHANGED <<input, debit, credit, posting, result, tables>>

\* r's statement waits for q, which inserted its key or wrote its row.
WaitsFor(r, q) ==
  /\ q # r
  /\ \/ pc[r] = "saveTransaction" /\ \E t \in work[q].transactions : t.key = Key(r)
     \/ pc[r] = "updateDebit" /\ work[q].balances[input[r].debit] # NoMoney
     \/ pc[r] = "updateCredit" /\ work[q].balances[input[r].credit] # NoMoney

\* A request waits for at most one other (WaitsForOne), so a set in which everyone
\* waits for a member and is waited for by a member is made of cycles.
InDeadlock(r) ==
  \E S \in SUBSET Requests :
    /\ r \in S
    /\ \A q \in S : /\ \E p \in S : WaitsFor(q, p)
                    /\ \E p \in S : WaitsFor(p, q)

\* deadlock_timeout: the database fails the statement of one of them.
DeadlockVictim(r) ==
  /\ InDeadlock(r)
  /\ StatementFails(r, "deadlock_detected")
  /\ UNCHANGED <<input, debit, credit, posting, tables>>

----------------------------------------------------------------------------
\* Faults: the request's context ends or its connection breaks, or the whole
\* process goes.  A client that gave up leaves its transaction "abandoned", or
\* "committing" when the COMMIT may have reached the database.

CancelRead(r) ==
  /\ pc[r] \in {"exists", "findDebit", "findCredit", "begin"}
  /\ ProceedOrReturn(r, IF pc[r] = "begin" THEN "ErrBeginTransaction"
                        ELSE "context canceled", "")
  /\ UNCHANGED <<input, debit, credit, posting, session, work, tables>>

Abandon(r) ==
  session' = [session EXCEPT ![r] = IF @ = "open" THEN "abandoned" ELSE "none"]

\* Faulty variant: no Rollback after a cancelled statement, so that the
\* connection stays open, with the transaction in it.
CancelLeavesOpen(r) ==
  /\ pc[r] \in Statements \cup {"rollback"}
  /\ pc' = [pc EXCEPT ![r] = "returned"]
  /\ result' = [result EXCEPT ![r] = "context canceled"]
  /\ UNCHANGED <<input, debit, credit, posting, session, work, tables>>

\* The statement fails and so does the Rollback that uses the same context.
CancelInTransaction(r) ==
  /\ pc[r] \in Statements \cup {"rollback"}
  /\ pc' = [pc EXCEPT ![r] = "returned"]
  /\ result' = [result EXCEPT ![r] = "ErrRollbackTransaction"]
  /\ Abandon(r)
  /\ UNCHANGED <<input, debit, credit, posting, work, tables>>

CancelCommit(r) ==
  /\ pc[r] = "commit"
  /\ pc' = [pc EXCEPT ![r] = "returned"]
  /\ result' = [result EXCEPT ![r] = "ErrCommitTransaction"]
  /\ \E s \in {"abandoned", "committing"} : session' = [session EXCEPT ![r] = s]
  /\ UNCHANGED <<input, debit, credit, posting, work, tables>>

Crash ==
  /\ \E r \in Requests : pc[r] \notin Returned \cup {"idle"}
  /\ pc' = [r \in Requests |-> IF pc[r] \in Returned \cup {"idle"} THEN pc[r]
                               ELSE "crashed"]
  /\ \E sent \in SUBSET {r \in Requests : pc[r] = "commit"} :
       session' = [r \in Requests |->
                     IF r \in sent THEN "committing"
                     ELSE IF session[r] = "open" THEN "abandoned"
                     ELSE IF session[r] = "failed" THEN "none"
                     ELSE session[r]]
  /\ UNCHANGED <<input, debit, credit, posting, result, work, tables>>

\* The database notices that the client is gone ...
ServerAborts(r) ==
  /\ session[r] \in {"abandoned", "committing"}
  /\ EndSession(r)
  /\ UNCHANGED <<request, tables>>

\* ... or had received the COMMIT.
ServerCommits(r) ==
  /\ session[r] = "committing"
  /\ Publish(r)
  /\ EndSession(r)
  /\ UNCHANGED request

----------------------------------------------------------------------------

Handle(r) ==
  \/ ExistsByIdempotencyKey(r) \/ FindDebitAccount(r) \/ FindCreditAccount(r)
  \/ CheckFunds(r) \/ Begin(r) \/ BuildFails(r) \/ Build(r)
  \/ SaveTransaction(r) \/ UpdateDebit(r) \/ UpdateCredit(r) \/ SaveOutbox(r)
  \/ Commit(r) \/ Rollback(r)

Resolve(r) == ServerAborts(r) \/ ServerCommits(r)

Fault(r) == CancelRead(r) \/ CancelInTransaction(r) \/ CancelCommit(r)

\* Nothing is left to do, neither by a request nor by the database.
Quiescent == /\ \A r \in Requests : /\ pc[r] \in Returned
                                     /\ session[r] \notin {"abandoned", "committing"}
             /\ UNCHANGED vars

Step(r) == Arrive(r) \/ Handle(r) \/ DeadlockVictim(r)

NextReliable == (\E r \in Requests : Step(r)) \/ Quiescent

Next ==
  \/ \E r \in Requests : Step(r) \/ Fault(r) \/ Resolve(r)
  \/ Crash
  \/ Quiescent

\* Some goroutine runs while one can (the Go scheduler), or one of the database's
\* timers, which find deadlocks and lost clients.  Which of them is left open, as
\* each has finitely many steps to take.  Nothing makes a fault happen.
Fairness == WF_vars(\E r \in Requests : Handle(r) \/ DeadlockVictim(r) \/ Resolve(r))

Spec == Init /\ [][Next]_vars

FairSpec == Spec /\ Fairness

SpecReliable == Init /\ [][NextReliable]_vars

\* r has read a balance that it may still overwrite.
InTransfer(r) ==
  \/ pc[r] \in {"findCredit", "checkFunds", "begin", "build", "commit"} \cup Statements
  \/ session[r] = "committing"

\* No account is in two transfers at a time: what a lock from the first read on would
\* give, for which FindBalanceForUpdateByID is there and is not called.
Apart ==
  \A q, r \in Requests :
    q # r /\ InTransfer(q) /\ InTransfer(r) =>
      {input[q].debit, input[q].credit} \cap {input[r].debit, input[r].credit} = {}

NextApart == Next /\ Apart'

SpecApart == Init /\ [][NextApart]_vars

----------------------------------------------------------------------------
\* Types.

Posted == {t.id : t \in transactions}

\* What Execute writes for r when it writes anything.
PostingRow(r) == [id |-> r, key |-> Key(r), status |-> "COMPLETED"]
EntryRows(r) == {DebitEntry(r).val, CreditEntry(r).val}
OutboxRow(r) == NewOutbox(r, PostingRow(r))

Errors == {NoError, "ErrTransactionExists", "ErrAccountNotFound", "ErrNegativeAmount",
           "ErrInvalidCurrency", "ErrInsufficientBalance", "ErrInvalidDirection",
           "ErrAmountEqualZero", "ErrNegativeAmountValue", "ErrCurrencyMismatch",
           "ErrInvalidMaxEntries", "ErrDuplicateEntryDirection",
           "ErrInvalidDifferentAmount", "ErrInvalidTransactionStatus",
           "ErrBeginTransaction", "ErrCommitTransaction", "ErrRollbackTransaction",
           "unique_violation", "value_too_long", "deadlock_detected", "context canceled"}

PostingType == {NoPosting} \cup {Completed(r).val : r \in Requests}

Written == [transactions : SUBSET {PostingRow(r) : r \in Requests},
            entries : SUBSET UNION {EntryRows(r) : r \in Requests},
            balances : [Accounts -> Money \cup {NoMoney}],
            outbox : SUBSET {OutboxRow(r) : r \in Requests}]

\* The types of what the goroutines and the database keep, at every fault and
\* in every interleaving; the tables' rows are the subject of WholePostings.
TypeOK ==
  /\ pc \in [Requests -> {"idle", "begin"} \cup Reading \cup InTransaction \cup Returned]
  /\ input \in [Requests -> Inputs]
  /\ debit \in [Requests -> Money \cup {NoMoney}]
  /\ credit \in [Requests -> Money \cup {NoMoney}]
  /\ posting \in [Requests -> PostingType]
  /\ result \in [Requests -> Errors]
  /\ session \in [Requests -> {"none", "open", "failed", "abandoned", "committing"}]
  /\ work \in [Requests -> Written]
  /\ balance \in [Accounts -> Money]
  /\ transactions \subseteq {PostingRow(r) : r \in Requests}

----------------------------------------------------------------------------
\* Safety.

\* README.md:182: however many retries race past ExistsByIdempotencyKey, and
\* whatever a crash or an unknown commit left behind, a key is posted once.
OnePostingPerKey == \A t, u \in transactions : t.key = u.key => t = u

\* README.md:178: a transaction, its two entries and its event are committed
\* together or not at all, whatever step failed, was cancelled or crashed; the
\* three tables never hold a row of a posting without the other three.
WholePostings ==
  /\ transactions = {PostingRow(r) : r \in Posted}
  /\ entries = UNION {EntryRows(r) : r \in Posted}
  /\ outbox = {OutboxRow(r) : r \in Posted}

\* What Execute returns says what is in the database: no error means posted,
\* an error means not posted, except for the commit whose outcome is unknown;
\* ErrTransactionExists means that the key is posted, by another request.
ResultTellsOutcome ==
  \A r \in Requests : pc[r] = "returned" =>
    /\ result[r] = NoError => r \in Posted
    /\ r \in Posted => result[r] \in {NoError, "ErrCommitTransaction"}
    /\ result[r] \in {"ErrTransactionExists", "unique_violation"} =>
         \E q \in Posted \ {r} : Key(q) = Key(r)

\* Every path out of WithTransaction gives the connection back (uow.go:26-44):
\* a request that has returned holds none, so the pool cannot drain.
ConnectionsComeBack ==
  \A r \in Requests : pc[r] = "returned" => session[r] \notin {"open", "failed"}

\* UpdateBalance writes the currency as well (account.go:117): whatever is posted
\* and whatever is refused, an account stays in the currency it was opened in.
AccountsKeepCurrency ==
  [][\A a \in Accounts : balance'[a].currency = balance[a].currency]_vars

\* Only sound requests are posted (create_transaction.go:69-99, entry.go:51): both
\* accounts exist, in the currency of a positive amount.
OnlySoundPostings ==
  \A r \in Posted :
    /\ {input[r].debit, input[r].credit} \subseteq Accounts
    /\ input[r].amount > 0
    /\ \A a \in {input[r].debit, input[r].credit} : balance[a].currency = input[r].currency

\* Balances are written by the commit of a posting and by nothing else: a step
\* that changes a balance adds one transaction, and only its debit and credit
\* accounts change (README.md:11).
BalancesMoveWithPosting ==
  [][balance' # balance =>
       \E r \in Requests :
         /\ r \notin Posted /\ Posted' = Posted \cup {r}
         /\ \A a \in Accounts \ {input[r].debit, input[r].credit} : balance'[a] = balance[a]]_vars

\* money.go:11, ToAccountDomain: a stored balance is never negative, so that the
\* next read of the account does not fail.  It holds as long as no credit wraps.
BalancesNonNegative == \A a \in Accounts : balance[a].amount >= 0

\* README.md:182: once every request is back, each key has exactly one posting,
\* unless every request that carried it was refused, for its amount or as the
\* victim of a deadlock: no two requests give way to each other.
ExactlyOncePerKey ==
  (\A r \in Requests : pc[r] = "returned") =>
    \A r \in Requests :
      \/ Cardinality({t \in transactions : t.key = Key(r)}) = 1
      \/ \A q \in Requests : Key(q) = Key(r) =>
            result[q] \in {"ErrInsufficientBalance", "ErrAmountEqualZero",
                           "deadlock_detected"}

----------------------------------------------------------------------------
\* Liveness, under Fairness.

\* Whatever waits for a lock, a key or a connection gets on in the end, faults
\* included: every request that arrived is back at last, or died with the process
\* (create_transaction.go:55-211, uow.go:26-44).
EveryRequestReturns == <>[](\A r \in Requests : pc[r] \in {"idle"} \cup Returned)

\* No transaction stays open in the database with its locks, whatever became of its
\* request, its Rollback or its COMMIT (uow.go:32-43).
LocksAreReleased == <>[](\A r \in Requests : work[r] = NoWork)

----------------------------------------------------------------------------
\* Progress: what the liveness properties rest on, with no fairness.

InProgress(r) == pc[r] \notin {"idle"} \cup Returned

NeedsConnection(r) == pc[r] \in {"exists", "findDebit", "findCredit", "begin"}

\* r stands before its next statement, and neither the pool nor a lock stops it.
CanGo(r) ==
  /\ InProgress(r)
  /\ NeedsConnection(r) => FreeConnection
  /\ \A q \in Requests : ~ WaitsFor(r, q)

\* The client is gone and the database has yet to end its transaction.
InDoubt(r) == session[r] \in {"abandoned", "committing"}

\* The requests cannot all wait (uow.go:26-44, create_transaction.go:59-101, 164-208):
\* no connection is held by a request that waits for one, as Execute reads before its
\* database transaction, so that a full pool empties, and waits for locks end at a
\* request that goes on, at a lost client or in a cycle, of which one is the victim.
NoStandstill ==
  (\E r \in Requests : InProgress(r)) =>
    \E r \in Requests : CanGo(r) \/ InDoubt(r) \/ InDeadlock(r)

\* A statement waits for one other request at most: a key has one claimant and a row one
\* writer, lost clients included (create_transaction.go:164-180, transactions.pg.hcl:33-36).
WaitsForOne == \A r, p, q \in Requests : WaitsFor(r, p) /\ WaitsFor(r, q) => p = q

\* The statements of Execute that are ahead.
Ahead(place) ==
  CASE place = "idle" -> 12            [] place = "exists" -> 11
    [] place = "findDebit" -> 10       [] place = "findCredit" -> 9
    [] place = "checkFunds" -> 8       [] place = "begin" -> 7
    [] place = "build" -> 6            [] place = "saveTransaction" -> 5
    [] place = "updateDebit" -> 4      [] place = "updateCredit" -> 3
    [] place = "saveOutbox" -> 2       [] place \in {"commit", "rollback"} -> 1
    [] place \in Returned -> 0

StepsLeft(r) == 2 * Ahead(pc[r]) + IF InDoubt(r) THEN 1 ELSE 0

\* Nothing is done over and over: no error path leads back to an earlier statement
\* (create_transaction.go:55-211, uow.go:26-44), and each step, faults and those of the
\* database included, leaves some request with fewer of them and none with more.
EveryStepCounts ==
  [][/\ \A r \in Requests : StepsLeft(r)' <= StepsLeft(r)
     /\ \E r \in Requests : StepsLeft(r)' < StepsLeft(r)]_vars

----------------------------------------------------------------------------
\* The tables as a journal: a posting is a transaction with the entries that
\* name it, an event stands for the transaction it is about.

PostingOf(t) == [id |-> t.id, key |-> t.key,
                 lines |-> {e \in entries : e.transaction = t.id}]

AsPosting(r, i) == [id |-> r, key |-> i.key,
                    lines |-> {DebitEntryOf(r, i).val, CreditEntryOf(r, i).val}]

AllPostings == {AsPosting(r, i) : r \in Requests, i \in Inputs}

AsJournal ==
  INSTANCE Journal WITH journal <- {PostingOf(t) : t \in transactions},
                        events <- {e.aggregate : e \in outbox},
                        Postings <- AllPostings

\* The tables are a Journal at every step: postings are appended whole, with
\* their event and under a fresh key, and no step changes or loses one.
ImplementsJournal == AsJournal!Spec

============================================================================
