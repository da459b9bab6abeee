# A verification of isura-ledger-ms

TLA+ models of the ledger service of Isura Bank (`src/core-banking/isura-ledger-ms`), checked with TLC
on small instances and, where "What is proved" says so, proved with TLAPS for every instance. Paths below
are relative to that directory; `README:n` is a line of its README.

## The system

| Part | State it keeps | Operations | Talks to |
|---|---|---|---|
| Money (`internal/domain/money`) | none; a value of int64 cents and a currency | NewMoney, Add, Subtract, comparisons | - |
| Transaction aggregate (`internal/domain/transaction`) | status, at most two entries | NewTransaction, NewEntry, AddEntry, Complete, Fail | Money |
| Account entity (`internal/domain/account`) | external id, type, balance | NewAccount | Money |
| Outbox event (`internal/domain/outbox`) | status, attempts, two timestamps | NewOutbox, Publish, MarkFailed, Retry | - |
| CreateTransaction (`internal/application/command`) | locals of one goroutine per call | Execute | three repositories, unit of work |
| CreateAccount and its gRPC handler | locals of one goroutine per call | Handle, Execute | account repository, fault translator |
| Unit of work (`internal/infra/postgres/uow`) | one database transaction on one connection of the pool | WithTransaction | pgx pool |
| Repositories and models (`internal/infra/postgres`) | the tables `accounts`, `transactions`, `entries`, `outbox_events` | one SQL statement or batch each | the transaction in the context, else the pool |
| Schema (`db/*.hcl`) | unique indexes, foreign keys, column widths | - | - |
| Process (`cmd/server`, `internal/infra/server`) | the statement main is at, two servers with a goroutine each, the pool, the metrics and the tracer, a signal channel | start-up, serving, graceful shutdown | all |
| Outbox relay (not in the repository; README:150-155) | the events it found, one transaction | find by status, deliver or retry, write back | outbox repository, Kafka |

Requests are goroutines of one process (or of several replicas: nothing in the code distinguishes them).
They share only the database, at PostgreSQL's default READ COMMITTED. Three facts of the code shape
everything:

* `Execute` reads (idempotency key, both accounts) **before** `WithTransaction`, on the pool, and writes
  inside it, on `ctxTx`. What it writes into `accounts` is an absolute balance computed from those reads.
* `WithTransaction` uses the request's context for Rollback and Commit as well, so a cancelled request
  cannot roll back: the transaction is left to the end of its connection.
* No transport calls CreateTransaction: `composer.go` wires CreateAccount only. The use case is verified as
  the program would run it.

What is hard: races between requests with the same key, between transfers that share an account, deadlocks
of opposite transfers, statements that fail halfway, commits of unknown outcome, crashes with locks held,
the exhausted pool, int64 at its limit, the same account on both sides; several relays over one table with
deliveries of unknown outcome; a process that is signalled, killed and started again while calls are running
and their statements are on their way.

What makes each part correct:

* *aggregate*: two entries are always the two sides of one positive amount; a final status stays.
* *posting*: all four tables or none; one posting per key; the answer agrees with the database; balances
  move only with a posting, equal the sum of their entries, conserve money, are never negative.
* *unit of work*: every connection comes back, every lock is released, somebody can always go on, every
  request returns.
* *queries*: the three ways to look a transaction up agree.
* *accounts*: one account per external id; the reply agrees with the table.
* *outbox*: rows follow the aggregate's state machine whatever number of relays works, no failure is
  miscounted, and every event is delivered or has used up its attempts, or starves behind such.
* *process*: no call finds the pool missing or closed, a clean exit leaves no call unanswered, stopping a
  server that serves is no failure, a signal ends the process unless a call hangs.

## Modules

| Module | Models | Source |
|---|---|---|
| `Money` | the value object, with wrapping int64 | `money.go` |
| `Transaction` | the aggregate's methods as operators returning `[err, val]` | `transaction.go`, `entry.go`, `types.go` |
| `TransactionAggregate` | the aggregate under any caller | the same |
| `Ledger` | CreateTransaction.Execute by concurrent requests, WithTransaction, the repositories' statements, PostgreSQL | `create_transaction.go`, `uow.go`, `repository/*.go`, `model/*.go`, `db/*.hcl` |
| `Journal` | the abstract specification: whole double entries appended under fresh keys | what README:11, 165-182 promise |
| `Book` | the abstract specification of the balances: transfers of money that is there, each in one step | what README:11-12 promise |
| `LedgerBooks` | the queries of TransactionRepository, and the books | `repository/transaction.go:71-214` |
| `LedgerProofs` | the inductive invariant, theorems and proofs about `Ledger` | - |
| `SoundnessProofs` | proofs that only sound requests are posted, that balances stay non-negative, that the requests never all wait and that keys are posted once, on top of `LedgerProofs` | - |
| `BooksProofs` | proofs about `LedgerBooks`: the queries, double entry, the sums of the books, `Book`; on top of `SoundnessProofs` | - |
| `AggregateProofs` | theorems and proofs about `TransactionAggregate` | - |
| `AccountCreation` | CreateAccount by concurrent calls, handler and translator | `create_account.go`, `account.go`, `repository/account.go`, `fault_translator.go` |
| `Registry` | the abstract specification of accounts and answers: accounts opened under external ids of their own, each application answered once | what `accounts.pg.hcl:43-46` and the replies promise |
| `Lifecycle` | main's start-up and shutdown, the goroutines of the two servers, signals, kills and restarts | `main.go`, `base_deps.go`, `grpc_server.go`, `http_server.go`, the constructors and Close of what they hold |
| `Service` | the composition of `AccountCreation` and `Lifecycle`: calls in a process that ends and starts again | `server.go`, `create_account_handler.go` |
| `OutboxRelay` | the outbox aggregate and its repository under concurrent relays | `outbox.go`, `repository/outbox.go`, `model/outbox.go`, `database/helper.go` |
| `AccountProofs`, `LifecycleProofs`, `OutboxProofs` | the inductive invariants, theorems and proofs about each | - |
| `ServiceProofs` | `Service` implements `AccountCreation` and `Lifecycle`, and keeps what is proved of them | - |
| `MCTransactionAggregate`, `MCLedger`, `MCService` | instances for TLC | - |

`Transaction` extends `Money`; `Ledger` extends `Transaction`; `LedgerBooks` and `LedgerProofs` extend
`Ledger`; `SoundnessProofs` extends `LedgerProofs`, and `BooksProofs` both it and `LedgerBooks`. `MCLedger`
extends `BooksProofs`, so that TLC checks the inductive invariants as well. `Service` extends `AccountCreation` and instantiates `Lifecycle`. Each
module of proofs extends the module it is about, and no specification depends on one. Operators called
*faulty variant* are not used by any specification: they are the plausible bugs against which each property
is tried.

### How Ledger corresponds to the code

`pc[r]` is the line of `Execute` the request stands before:

| `pc` | code (`create_transaction.go`) | action |
|---|---|---|
| exists | 59-67 | `ExistsByIdempotencyKey` |
| findDebit, findCredit | 69-78, 80-89 | `FindDebitAccount`, `FindCreditAccount` |
| checkFunds | 91-99 | `CheckFunds` |
| begin | 101, `uow.go:27` | `Begin` |
| build | 102-162 | `Build`, or `BuildFails` with the first error of the local calls |
| saveTransaction | 164-168, the batch of `repository/transaction.go:22-69` | `SaveTransaction` |
| updateDebit, updateCredit | 170-174, 176-180 | `UpdateDebit`, `UpdateCredit` |
| saveOutbox | 182-208 | `SaveOutbox` |
| rollback | `uow.go:32-37` | `Rollback` |
| commit | `uow.go:39-43` | `Commit` |

An action is one statement (with the local code up to the next one): nothing else can see or disturb local
code. `work[r]` holds what r's open transaction wrote; a row in it is locked by r, a key in it is claimed by
r in the unique index. `Commit` publishes it, `EndSession` drops it. A statement that meets a claimed key or
a locked row is disabled until its owner ends, which is the wait in the database, and `DeadlockVictim` fails
one of the requests of a cycle. The batch of `SaveTransaction` is one action: its first INSERT is the only
one that can wait or fail, as the foreign keys of the entries name the row just inserted and accounts that
were read and are never deleted, and the key-share locks they take do not conflict with the UPDATE of a
balance. An event that does not fit its columns (`EventFitsColumns`) fails `SaveOutbox`.

Faults: `CancelRead`, `CancelInTransaction`, `CancelCommit` are a context that ends or a connection that
breaks during a call; the session is then *abandoned*, or *committing* when the COMMIT may have been
received. `Crash` does this to all requests at once. `ServerAborts` and `ServerCommits` are the database's
way out, at any later time. A request's retry is a further request with the same key.

Four specifications share these actions. `Spec` has every fault; `FairSpec` adds fairness; `SpecReliable` has
no fault but the deadlocks that the requests make themselves. `SpecApart` has every fault, but no account is
in two transfers at a time (`Apart`): a request that has read a balance and may still write it, a COMMIT in
doubt included, has its two accounts to itself. The code does not see to that. A lock from the first read on
would, and `FindBalanceForUpdateByID` (`repository/account.go:155`) is there for it, without a caller. What
is checked and proved of `SpecApart` says that the overlap of two transfers is the only way in which the
books are lost; run `lost_update` shows that it is one.

Simplifications: uuids are the request's name; timestamps, logging, spans and metrics are left out; a pgx
read takes a connection and gives it back within its step; the database itself does not crash.

### AccountCreation

One action per statement again: `Refuse` and `BuildAccount` are FindByExternalID with the local code after
it, `Save` the autocommitted INSERT. A cancelled `Save`, or one whose process ended (`LoseCalls`), may leave
its INSERT in `sent`, and the database executes it or not, later. `BalanceMoves` is the rest of the service
changing balances, negative ones included, because ToAccountDomain refuses those. `GRPCStatus` translates
the error into the reply. `AsRegistry` reads the table and the replies as a `Registry`: an account is its row but
for the balance, a call is answered when its reply has a status, and an INSERT that arrives late is
`RegisterLate`, which only an application that was told of an error, or of nothing, may have.

### Lifecycle and Service

`main` is the statement that `main()` stands before:

| `main` | code | action |
|---|---|---|
| LoadConfig .. InitOtelTracer | `base_deps.go:25-48` | the action of the same name; each may end in os.Exit(1) |
| GRPCServer, NewHTTPServer | `main.go:17-20` | the same |
| StartServers, Notify, Wait | `main.go:22-23`, `29-30`, `31` | the same |
| StopGRPC, DrainGRPC | `main.go:36`: GracefulStop closes the server, then waits | the same |
| StopHTTP, DrainHTTP | `main.go:42`: Shutdown closes the server, then waits or times out | the same |
| ClosePool, CloseProm, CloseTracer, Exit | `main.go:46-56` | the same |

`serve[s]` is where the goroutine of `Start` of a server stands: `listen` before net.Listen, `accept` before
Serve, `serving` in it, `done` after it. For HTTP the first two are one call. What the libraries do at their
edges is what their documentation says: Serve on a stopped gRPC server returns ErrServerStopped, ListenAndServe
on a server that is shut down ErrServerClosed, either may return another error while it serves (`ServingFails`),
Shutdown of the tracer may fail at any time, and a signal ends a process that has not asked for it. `End`
forgets the memory of the process; the database, and a client without an answer (`lost`), stay. `Service` gives
each call of `Handle` the state of a gRPC call (`rpc`): it is accepted when it arrives and answered when it
returns, and any step that ends the process is also `LoseCalls`.

### OutboxRelay

`rows` is the table; `outbox[w]` and `step[w]` are what relay w has in the memory of its open transaction.
The lock of FOR UPDATE lasts while the relay holds the event, so `Matching` skips it. Delivery and the
decision of the aggregate (`Publish`, `MarkFailed`, `Retry`) are one step, the UPDATE the next, the commit a
third: `Abort` (a crash, a context that ended) can come between any two, after Kafka has taken the event.
A delivery that fails may still have reached Kafka. Times are set or not, and pass through the nullable
columns by `ToTimestamptz` and `ToTimePtr`.

## What TLC checks

| Run | Shows | Bounds |
|---|---|---|
| aggregate | `TwoSidesOfOneAmount`, `OutcomeIsFinal` | a few amounts, negative and zero included, two currencies |
| contention | `TypeOK`, `OnePostingPerKey`, `ExactlyOncePerKey`, `QueriesAgree`, `BalancesNonNegative`, `RaceInv`, `EntriesCancelOut` | 3 requests, 6 inputs, 3 accounts, 3 connections, no faults, IntMax = 15 so that the amounts of all requests fit |
| atomicity | `IndInv`, `WholePostings`, `ResultTellsOutcome`, `ConnectionsComeBack`, `NoStandstill`, `WaitsForOne`, `EveryStepCounts`, `BalancesMoveWithPosting`, `ImplementsJournal` | 3 requests, 3 inputs, all faults, IntMax = 3 so that sums wrap |
| apart | `BalancesMatchEntries`, `PostingsConserveMoney`, `OnlySoundPostings`, `TransfersAreFresh`, `AccountsKeepCurrency`, `ImplementsBook` | 3 requests of which no two transfers under way share an account, 6 inputs, 4 accounts in two currencies, 2 connections, all faults |
| liveness | `EveryRequestReturns`, `LocksAreReleased` | 3 requests over 2 connections, 2 assignments of their inputs (`ThreeForTwo`), all faults |
| service | `TypeOK`, `OneAccountPerExternalID`, `ReplyTellsAccount`, `PoolOutlivesCalls`, `ImplementsRegistry`, `CleanExit`, `ServersStopQuietly`, `SignalEndsProcess` | 2 calls, 3 inputs for one external id (up to the names of the calls), 1 page, 1 restart |
| outbox | `TypeOK`, `AttemptsCountFailures`, `TimesTellHistory`, `RowsFollowStateMachine`, `EventSettles` | 2 relays, 2 events, limits 1 and 2, 2 rollbacks, any number of failed deliveries |

`IndInv` and `RaceInv` are inductive invariants of the proofs below, and `TransfersAreFresh` is what the one for
`apart` adds to them. In `apart` two transfers between four accounts run side by side while a third waits for one
of them to end, COMMITs in doubt included, and three of the inputs are refused: for an unknown account, for
an amount of zero, and for the currency of the other account.

Three requests are enough for a race of two with a third that sees its outcome. Two accounts suffice for a cycle
of two waits; `contention` has three and as many connections, for a cycle of three. In `liveness` a request
waits for one of the two connections while the others wait for each other's rows (a deadlock) or for a key, and,
with the other assignment, while two transactions that NewEntry refuses hold both. In `service` the second call
is the retry of the first, before or after the restart, or its rival. In `outbox` one event can be a dead letter
while the other is tried, and a relay meets what the other holds; with a limit of 1 a dead letter starves the
other event, with 2 it does not. Requests are symmetric, as their names are compared only for equality; the runs
with liveness use no symmetry.

`TransactionAggregate` is the only model that may stop, when no further call succeeds; everywhere else
deadlock is checked, and stopping is an explicit step: `Quiescent`, `Over`, `Settled`.

### Where code and documentation disagree

Each of these is a run that TLC refutes:

* **lost_update**: two concurrent transfers from one account both commit, the second overwrites the first
  one's balance. The balance is then not what the entries say (README:5, :12). `BalancesMatchEntries` is proved
  for transfers that do not overlap on an account, every fault included, so the overlap is all it takes.
  `FindBalanceForUpdateByID` has no caller.
* **self_transfer**: a transfer to the same account raises its balance (README:11).
* **overflow**: Add wraps and the negative sum is stored, although `money.go:11` says an amount cannot be
  negative; the account cannot be read any more.
* **shipped_schema**: `aggregate_type` is varchar(10) and `event_type` varchar(15), shorter than the values
  the code writes. Every transaction is rolled back (README:182). The other runs use widths that fit
  (20, 40), or nothing could be posted.
* **shutdown_order**: `main.go:45` says the infrastructure is closed only after the servers have stopped. Stop
  of the HTTP server returns after 10 seconds whatever still runs (`http_server.go:60-63`), and a request to
  `/health` or `/metrics` outlives the pool. The gRPC calls do not (`PoolOutlivesCalls`).

Also met, about the process: a signal between `Notify` and Serve makes `grpc_server.go:61-65` take
ErrServerStopped for a failure and end the process with code 1 in the middle of its shutdown. No document
says otherwise, so it is no run; `ServersStopQuietly` names it as one of the two ways in which a shutdown ends
with code 1, the other being a server that fails by itself before it is told to stop. That one, too, ends the
process from a goroutine, under the calls that are running: a failure of the server of `/metrics` takes the
gRPC calls with it. GracefulStop has no timeout and the channel is read once, so that a hanging call keeps the
process alive (the wait that `SignalEndsProcess` names). main ignores the error of TracerShutdown
(`main.go:52`): when the collector refuses the last spans, or nothing is left of the 10 seconds that the HTTP
server had, they are lost and the process still ends with code 0. `CleanExit` therefore promises no spans.

About the outbox: README:178 says that the relay will eventually publish the event of a commit, and README:289
documents a batch of 50. The query has that LIMIT but no ORDER BY and no condition on `attempts`
(`repository/outbox.go:74-88`): once 50 events are dead letters, a query for FAILED events may return the same
50 every time, and an event that may still be retried starves. `EventSettles` says so (`Starves`). Without that
disjunct TLC refutes it in run `outbox`, where a dead letter fills a batch of 1; with a limit of 2 alone a batch
always has room for the second event, and the property holds without. README:319 plans an index for an order
that the query does not ask for.

Also met: `Complete` does not count the entries, so README:115 ("always contains exactly two") depends on
the caller; CreateTransaction always adds both. New accounts have a balance of zero and only transfers
change balances, so through the operations of the repository no transfer is ever covered.

### Fairness

`Ledger!Fairness` assumes that the system does not stand still while a goroutine can take its next step (the Go
scheduler), the deadlock detector can fail a victim of a cycle (`deadlock_timeout`), or the database can end
the transaction of a lost client: one of them then does, and which one is left open. So weak an assumption is
enough, as each request takes finitely many steps (`EveryStepCounts`) and gives back what it took: a free
connection or lock may be taken by others, but not for ever. No fault is ever assumed to happen, nor a
request to arrive.

`Service!Fairness` assumes that main takes its next step and that the shutdown's timer runs, and nothing else: a
call may hang in its statement, and a request to the HTTP server need not be read to its end by its client.
`OutboxRelay!Fairness` assumes that a relay finishes what it found and that, again and again, some relay asks
for each status, with any of its limits (`OUTBOX_RELAY_INTERVAL_MS`, README:288); strong fairness, because
another relay may hold the rows whenever it asks. Which rows a query finds is left open, and deliveries may
fail for ever.

## What is proved

`LedgerProofs` proves, for any requests, inputs, accounts, seed, pool size, `IntMax` and column widths,
with all faults (assumptions: `IntMaxAssumption` and `LedgerAssumption`, the shapes of the constants):

| Theorem | Property |
|---|---|
| `Invariance` | `IndInv` |
| `TypeCorrect` | `TypeOK` |
| `Idempotency` | `OnePostingPerKey` |
| `Atomicity` | `WholePostings` |
| `ResultsAreTruthful` | `ResultTellsOutcome` |
| `PoolIsRestored` | `ConnectionsComeBack` |
| `BalancesFollowPostings` | `BalancesMoveWithPosting` |
| `Refinement` | `ImplementsJournal` |

The argument. None of the safety properties is inductive. `IndInv` adds what they rest on:
`SessionFollowsPc` and `WorkFollowsPc` (where a request stands tells what its transaction has written: the
whole posting before COMMIT, nothing of a failed one), `KeysAreExclusive` (a key claimed by an open
transaction is neither committed nor claimed by another), `PostedAreFinished` and `ResultFollowsPc`.
With them a commit publishes exactly one whole posting under a fresh key: `Publishes` says so of the step,
and `PostedStep` reduces every step to "the tables stay" or "r publishes", from which `OnePostingStep`,
`WholeStep`, `BalancesFollowPostings` and `Refinement` follow without looking at the actions again.
Arithmetic needs `WrapType`: a wrapped sum of two int64 is an int64.

The rest, each for any value of its constants and with all the faults of its model, except where a hypothesis
or a specification is named below:

| Module | Theorems | Properties |
|---|---|---|
| `SoundnessProofs` | `PostingsAreSound`, `CurrencyStays`, `BalancesStayNonNegative` | `OnlySoundPostings`, `AccountsKeepCurrency`, `BalancesNonNegative` |
| | `OneIsWaitedFor`, `NeverAtAStandstill`, `StepsCount` | `WaitsForOne`, `NoStandstill`, `EveryStepCounts` |
| | `RaceInvariance`, `KeysArePostedOnce`, `ShortColumnsPostNothing` | `RaceInv`, `ExactlyOncePerKey`, and what run `shipped_schema` is an instance of |
| `BooksProofs` | `DoubleEntry`, `QueriesGiveBackPostings`, `ReadsStayFresh`, `BooksMatch`, `MoneyIsConserved`, `BookRefinement` | `EntriesCancelOut`, `QueriesAgree`, `TransfersAreFresh`, `BalancesMatchEntries`, `PostingsConserveMoney`, `ImplementsBook` |
| `AggregateProofs` | `EntriesBalance`, `OutcomeStands` | `TwoSidesOfOneAmount`, `OutcomeIsFinal` |
| `AccountProofs` | `TypeCorrect`, `Uniqueness`, `RepliesAreTruthful`, `RegistryRefinement` | `TypeOK`, `OneAccountPerExternalID`, `ReplyTellsAccount`, `ImplementsRegistry` |
| `LifecycleProofs` | `PoolIsThere`, `ExitsClean`, `StopsQuietly` | those of `Lifecycle` |
| `ServiceProofs` | `ServiceRefinement`, `ProcessRefinement`, `ServiceKeepsAccounts`, `ServiceKeepsRegistry`, `PoolIsThere`, `ExitsClean`, `StopsQuietly` | `PoolOutlivesCalls`, `CleanExit`, `ServersStopQuietly` and those of `AccountCreation` |
| `OutboxProofs` | `TypeCorrect`, `FailuresAreCounted`, `TimesAreTrue`, `RowsMoveByTheMachine` | `TypeOK`, `AttemptsCountFailures`, `TimesTellHistory`, `RowsFollowStateMachine` |

* *Soundness* (`IntMaxAssumption`, `LedgerAssumption`). Execute checks what it read before its transaction and
  does not check again. `ChecksHold` says what that is worth later: as no commit changes a currency
  (`WorkIsSound`, `CurrencyStep`), the checks of the accounts and currencies still hold when the rows are
  written; the check of the funds does not (run `lost_update`), and is no part of it.
* *Balances stay non-negative* (hypothesis `AmountsFit(s, m)`: every account starts with at most s, finitely many
  requests ask for at most m each, and s plus all of them is an int64; run `overflow` violates it). Whatever
  balance is overwritten by whom, a request adds at most m to a balance that it read. `NoneWraps` bounds the
  balances, and what the requests have in hand, by s and one m for each posting so far; a request that is not
  posted yet leaves room for its own. What Subtract leaves is not negative because the check of the funds and
  the subtraction use the same read.
* *Progress* (all faults). `OneIsWaitedFor`: a row has one writer at a time (`RowsAreExclusive`) and a key one
  claimant, so that a statement waits for one request and the sets of `InDeadlock` are made of cycles.
  `NeverAtAStandstill` (hypothesis: finitely many requests): who holds a connection waits for no other
  (`HoldersGoOn`, as Execute reads before its transaction), so a full pool does not stop everybody; and who
  waits for a lock waits for a transaction that is alive or in doubt (`WaitsForTheLiving`). If all of those
  waited too, the smallest set of requests that wait for its own members would be a deadlock
  (`WaitersMakeDeadlock`), which has a victim. `StepsCount`: each step leaves some request with fewer steps to
  take and none with more, as no error path leads back. These are the parts of `EveryRequestReturns` that are
  facts about single states and steps; that what can go on does so is fairness.
* *Exactly once* (`SpecReliable`; hypotheses that there are s and m with `AmountsFit(s, m)`, and `AskedWell`: between
  accounts that exist, in their currency, for no negative amount, with columns that take the event).
  Idempotency says at most once. `RaceInv` adds that no error arises but a known key, a unique violation, want
  of funds, an amount of zero or a deadlock, and `OutcomeStep` that the first two are returned only when the
  key is posted. Self-transfers are allowed here.
* *Short columns* (hypothesis `~ EventFitsColumns`, which the widths of `db/outbox.pg.hcl` satisfy; all faults).
  `ShortColumnsPostNothing`: no request gets past `SaveOutbox`, so that the tables stay as they were for ever. It
  says of every instance what run `shipped_schema` shows of one.
* *Double entry* (any faults and overlaps, and whatever becomes of the balances). Each posting appends two
  entries of one amount and opposite signs (`PostingAddsTwoEntries`), which no other posting has, so that the
  sum of all stays 0. A lost update is a loss of `accounts` alone: the entries still tell the balances.
* *Queries* (any faults). A committed posting is whole, so the JOIN of `FindByIdempotencyKey` finds it, its two
  entries are those written for it, and `ToEntryDomain` accepts their positive amounts.
* *Books* (`SpecApart`, all faults; hypothesis `MoneyFits`: finitely many accounts, whose money together is an
  int64, and no transfer from an account to itself; the runs `overflow` and `self_transfer` violate it, and
  without it these properties are false). `TransfersAreFresh`: while a transfer is under way no commit
  touches its accounts, so what it read is still the balance (`ReadsAreFresh`), and what it is about to
  write is that balance less, or plus, its amount. `OnlyCommits` reduces a step of the tables to the commit of
  one posting, by Execute or late by the database; `CommitTransfers` says that it moves the amount between
  two accounts, and `TransferKeepsBooks` that this keeps the sums. No sum wraps, as a credited balance is
  at most the total, which is conserved. The sums of the books are the community modules' folds, recursive
  functions: `SumIsFold` unfolds one, and each fact about all finite sets is proved by taking a smallest set
  for which it would be false. `BookRefinement` maps a commit to `Book!Transfer` and every other step to a
  stutter.
* *Accounts* (`IntMaxAssumption`, `CallsAssumption`). A reply is true for ever because no row is deleted and a
  posting changes nothing of it but the balance. That AlreadyExists speaks of another call's account needs
  `RowsOfCalls`: a row, or an INSERT on its way, is that of a call that is over, and tells by its id which.
  `RegistryRefinement` maps a reply to the answer that `Registry` gives, an INSERT that arrives late to
  `RegisterLate`, and a posting, a start of a call or a lost process to a stutter. `AnswersFollowCalls` is what
  it needs: a call that is running has no answer yet, and an INSERT on its way is that of a call which was
  not told OK and not refused.
* *Process* (no assumption). Where main stands tells what is open (`PoolFollowsMain`, `DepsFollowMain`) and
  that calls run only between the start of the gRPC server and the return of GracefulStop
  (`CallsFollowMain`). `SignalFollowsMain`: a signal seen by main finds it past the start-up.
* *Service*. A step of the composition is a step of `AccountCreation` or none (`ServiceRefinement`), and one of
  `Lifecycle` or none (`ProcessRefinement`, where a call that goes from find to save is a stutter). The
  theorems of both parts carry over.
* *Outbox* (`RelayAssumption`). `HeldOnce`, which is FOR UPDATE SKIP LOCKED, and `MemoryFollowsRow`: what a
  relay has in memory is its row, or one step of the aggregate ahead of it. Hence a commit takes each row one
  step ahead and nothing a relay writes is stale.
* *Aggregate* (`IntMaxAssumption`, `AmountsAssumption`). Amounts stay positive and two entries have two
  directions and one amount (`SidesAgree`), of which `TwoSidesOfOneAmount` is the visible part.

Model-checked only: the liveness properties `EveryRequestReturns`, `LocksAreReleased`, `SignalEndsProcess` and
`EventSettles`, as fairness is out of the prover's reach. `AmountsFit`, `AskedWell` and `MoneyFits` are
hypotheses of theorems about the constants, not assumptions of the modules: the other theorems do without them,
and the runs that refute a property violate them on purpose.

## Not modelled

Kafka and the relay (named in README:150, not in the repository) are external: their part of `OutboxRelay` is
what README:150-155 says, and what they use of the repository is the code. Hold/Release, queries and the other
services are not in the repository. Logging, the values of the configuration, metrics and spans, decorators
and interceptors: they call what they wrap once, pass on its results and keep no state the program reads.
Generated protobuf code; the registration of routes and services; `isura-bank-arch-ui`, a drawing.
FindBalanceByID and FindBalanceForUpdateByID have no caller.

## Plan

What could be added: a crash of the database that loses the last commits (`synchronous_commit`), which the code
leaves to the server's configuration; the relay and the endpoint of CreateTransaction as code, when the
repository has them; and locks taken with the first read by `FindBalanceForUpdateByID`, for which `SpecApart`
already says what they would be worth.
