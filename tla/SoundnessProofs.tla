--------------------------- MODULE SoundnessProofs ---------------------------
(***************************************************************************)
(* Only sound requests are posted, no account changes its currency, no     *)
(* balance falls below zero and, without faults, every key is posted once: *)
(* what the checks that Execute makes before its database transaction are  *)
(* worth when they are not repeated inside it.  And the requests never all *)
(* wait for each other, for the pool or for locks.                         *)
(***************************************************************************)
EXTENDS LedgerProofs, FiniteSetTheorems

AfterBuild == Statements \cup {"commit"}
AfterFunds == {"begin", "build"} \cup AfterBuild
AfterCredit == {"checkFunds"} \cup AfterFunds
AfterDebit == {"findCredit"} \cup AfterCredit

\* m is a balance of account a, perhaps not its current one.
OfAccount(m, a) == a \in Accounts /\ m.currency = balance[a].currency

\* What a request has checked holds as long as it goes on: it read the accounts once
\* and keeps what it read.
ChecksHold ==
  \A r \in Requests :
    /\ pc[r] \in AfterDebit => OfAccount(debit[r], input[r].debit)
    /\ pc[r] \in AfterCredit => OfAccount(credit[r], input[r].credit)
    /\ pc[r] \in AfterFunds => /\ Amount(r).err = NoError
                               /\ debit[r].currency = input[r].currency
    /\ pc[r] \in AfterBuild => credit[r].currency = input[r].currency

Sound(r) ==
  /\ {input[r].debit, input[r].credit} \subseteq Accounts
  /\ input[r].amount > 0
  /\ \A a \in {input[r].debit, input[r].credit} : balance[a].currency = input[r].currency

\* Hence what is on its way to the tables is sound.
WorkIsSound ==
  \A r \in Requests :
    /\ work[r].transactions # {} => Sound(r)
    /\ \A a \in Accounts : \/ work[r].balances[a] = NoMoney
                           \/ work[r].balances[a].currency = balance[a].currency

\* The inductive invariant, together with that of LedgerProofs.
SoundInv == IndInv /\ ChecksHold /\ WorkIsSound /\ OnlySoundPostings

----------------------------------------------------------------------------

\* FindByID finds a balance of the account (repository/account.go, model.ToAccountDomain).
LEMMA FoundBalance ==
  ASSUME TypeOK, NEW a, FindByID(a).err = NoError
  PROVE  OfAccount(FindByID(a).val, a)
<1>1. a \in Accounts
  BY DEF FindByID, MoneyError, NoError
<1>2. NewMoney(balance[a].amount, balance[a].currency).err = NoError
  BY <1>1 DEF FindByID
<1>3. NewMoney(balance[a].amount, balance[a].currency).val =
        [amount |-> balance[a].amount, currency |-> balance[a].currency]
  BY <1>2 DEF NewMoney, MoneyError, Returns, NoError
<1> QED
  BY <1>1, <1>3 DEF FindByID, OfAccount

\* The amount of a request whose NewMoney did not fail is what it was asked for.
LEMMA AmountAsked ==
  ASSUME NEW r, Amount(r).err = NoError
  PROVE  Amount(r).val.amount = input[r].amount /\ Amount(r).val.currency = input[r].currency
BY DEF Amount, AmountOf, NewMoney, MoneyError, Returns, NoError

\* Subtract and Add check the currency and keep it (money.go:54-67).
LEMMA CurrencyKept ==
  ASSUME NEW m \in Money \cup {NoMoney}, NEW other
  PROVE  /\ Subtract(m, other).err = NoError => Subtract(m, other).val.currency = m.currency
         /\ Add(m, other).err = NoError =>
              Add(m, other).val.currency = m.currency /\ m.currency = other.currency
<1>1. CASE m.currency = other.currency
  <2>1. \A n : [m EXCEPT !.amount = n].currency = m.currency
    BY DEF Money, NoMoney
  <2> QED
    BY <1>1, <2>1 DEF Subtract, Add, Returns
<1>2. CASE m.currency # other.currency
  BY <1>2 DEF Subtract, Add, MoneyError, NoError
<1> QED
  BY <1>1, <1>2

\* How a request goes on, and what it has in hand then.
GoesOn(r) ==
  \/ pc'[r] \notin AfterDebit
  \/ /\ pc[r] = "findDebit" /\ pc'[r] = "findCredit"
     /\ FindByID(input[r].debit).err = NoError
     /\ debit'[r] = FindByID(input[r].debit).val
  \/ /\ pc[r] = "findCredit" /\ pc'[r] = "checkFunds"
     /\ FindByID(input[r].credit).err = NoError
     /\ credit'[r] = FindByID(input[r].credit).val
     /\ debit'[r] = debit[r]
  \/ /\ pc[r] = "checkFunds" /\ pc'[r] = "begin" /\ FundsError(r) = NoError
     /\ debit'[r] = debit[r] /\ credit'[r] = credit[r]
  \/ /\ pc[r] = "build" /\ pc'[r] = "saveTransaction"
     /\ Subtract(debit[r], Amount(r).val).err = NoError
     /\ Add(credit[r], Amount(r).val).err = NoError
     /\ debit'[r] = Subtract(debit[r], Amount(r).val).val
     /\ credit'[r] = Add(credit[r], Amount(r).val).val
  \/ /\ \/ pc'[r] = pc[r]
        \/ pc[r] = "begin" /\ pc'[r] = "build"
        \/ pc[r] \in AfterBuild /\ pc'[r] \in AfterBuild
     /\ debit'[r] = debit[r] /\ credit'[r] = credit[r]

\* Every step lets every request go on like that.
LEMMA AllGoOn ==
  ASSUME TypeOK, [Next]_vars, NEW r \in Requests
  PROVE  GoesOn(r)
<1> USE DEF GoesOn, AfterDebit, AfterCredit, AfterFunds, AfterBuild, Statements
<1>1. /\ pc \in [Requests -> {"idle", "begin"} \cup Reading \cup InTransaction \cup Returned]
      /\ debit \in [Requests -> Money \cup {NoMoney}]
      /\ credit \in [Requests -> Money \cup {NoMoney}]
  BY DEF TypeOK
<1>2. ASSUME NEW q \in Requests, Arrive(q) \/ ExistsByIdempotencyKey(q) \/ Begin(q)
      PROVE  GoesOn(r)
  BY <1>1, <1>2 DEF Arrive, ExistsByIdempotencyKey, Begin, ProceedOrReturn
<1>3. ASSUME NEW q \in Requests, FindDebitAccount(q) PROVE GoesOn(r)
  BY <1>1, <1>3 DEF FindDebitAccount, ProceedOrReturn
<1>4. ASSUME NEW q \in Requests, FindCreditAccount(q) PROVE GoesOn(r)
  BY <1>1, <1>4 DEF FindCreditAccount, ProceedOrReturn
<1>5. ASSUME NEW q \in Requests, CheckFunds(q) PROVE GoesOn(r)
  BY <1>1, <1>5 DEF CheckFunds, ProceedOrReturn
<1>6. ASSUME NEW q \in Requests, BuildFails(q) PROVE GoesOn(r)
  BY <1>1, <1>6 DEF BuildFails, ProceedOrRollback
<1>7. ASSUME NEW q \in Requests, Build(q) PROVE GoesOn(r)
  <2>1. /\ Subtract(debit[q], Amount(q).val).err = NoError
        /\ Add(credit[q], Amount(q).val).err = NoError
    <3>1. BuildErrors(q)[3] = NoError /\ BuildErrors(q)[4] = NoError
      BY <1>7 DEF Build, BuildErrors
    <3> QED
      BY <3>1 DEF BuildErrors
  <2> QED
    BY <1>1, <1>7, <2>1 DEF Build
<1>8. ASSUME NEW q \in Requests,
             SaveTransaction(q) \/ UpdateDebit(q) \/ UpdateCredit(q) \/ SaveOutbox(q)
      PROVE  GoesOn(r)
  BY <1>1, <1>8 DEF SaveTransaction, UpdateDebit, UpdateCredit, UpdateBalance, SaveOutbox,
     StatementFails, ProceedOrRollback
<1>9. ASSUME NEW q \in Requests, DeadlockVictim(q) PROVE GoesOn(r)
  <2>1. "deadlock_detected" # NoError
    BY DEF NoError
  <2> QED
    BY <1>1, <1>9, <2>1 DEF DeadlockVictim, StatementFails, ProceedOrRollback
<1>10. ASSUME NEW q \in Requests, Commit(q) \/ Rollback(q) \/ Resolve(q)
       PROVE  GoesOn(r)
  BY <1>1, <1>10 DEF Commit, Rollback, Resolve, ServerAborts, ServerCommits, request
<1>11. ASSUME NEW q \in Requests, Fault(q) PROVE GoesOn(r)
  <2>1. "ErrBeginTransaction" # NoError /\ "context canceled" # NoError
    BY DEF NoError
  <2> QED
    BY <1>1, <1>11, <2>1 DEF Fault, CancelRead, CancelInTransaction, CancelCommit,
       ProceedOrReturn
<1>12. CASE Crash
  BY <1>1, <1>12 DEF Crash, Returned
<1>13. CASE UNCHANGED vars
  BY <1>13 DEF vars, request
<1> QED
  BY <1>2, <1>3, <1>4, <1>5, <1>6, <1>7, <1>8, <1>9, <1>10, <1>11, <1>12, <1>13
     DEF Next, Step, Handle, Quiescent

\* A step locks row a for r.
Locks(r, a) == ~ RowIsLocked(r, a) /\ \A q \in Requests \ {r} : work'[q] = work[q]

\* What a step adds to the work of a request.
Writes(r) ==
  /\ work'[r].transactions # {} => work[r].transactions # {} \/ pc[r] = "saveTransaction"
  /\ \A a \in Accounts :
       \/ work'[r].balances[a] \in {NoMoney, work[r].balances[a]}
       \/ /\ pc[r] = "updateDebit" /\ a = input[r].debit
          /\ work'[r].balances[a] = debit[r] /\ Locks(r, a)
       \/ /\ pc[r] = "updateCredit" /\ a = input[r].credit
          /\ work'[r].balances[a] = credit[r] /\ Locks(r, a)

\* Every step adds to the work of every request like that.
LEMMA AllWrite ==
  ASSUME TypeOK, [Next]_vars, NEW r \in Requests
  PROVE  Writes(r)
<1>1. work \in [Requests -> Written]
  BY DEF TypeOK
<1>2. NoWork.transactions = {} /\ \A a \in Accounts : NoWork.balances[a] = NoMoney
  BY DEF NoWork, Unwritten
<1>3. ASSUME work'[r] = work[r] PROVE Writes(r)
  BY <1>3 DEF Writes
<1>4. ASSUME NEW q \in Requests, work' = [work EXCEPT ![q] = NoWork] PROVE Writes(r)
  BY <1>1, <1>2, <1>4 DEF Writes
<1>5. ASSUME NEW q \in Requests, NEW T, NEW E, pc[q] = "saveTransaction",
             work' = [work EXCEPT ![q].transactions = T, ![q].entries = E]
      PROVE  Writes(r)
  <2>1. CASE q = r
    <3>1. work'[r].balances = work[r].balances
      BY <1>1, <1>5, <2>1 DEF Written
    <3> QED
      BY <1>5, <2>1, <3>1 DEF Writes
  <2>2. CASE q # r
    BY <1>1, <1>3, <1>5, <2>2
  <2> QED
    BY <2>1, <2>2
<1>6. ASSUME NEW q \in Requests, NEW E, work' = [work EXCEPT ![q].outbox = E]
      PROVE  Writes(r)
  <2>1. work'[r].balances = work[r].balances /\ work'[r].transactions = work[r].transactions
    BY <1>1, <1>6 DEF Written
  <2> QED
    BY <2>1 DEF Writes
<1>7. ASSUME NEW q \in Requests, UpdateDebit(q) \/ UpdateCredit(q) PROVE Writes(r)
  <2>1. CASE q = r
    <3>1. PICK a, m : /\ \/ pc[r] = "updateDebit" /\ a = input[r].debit /\ m = debit[r]
                         \/ pc[r] = "updateCredit" /\ a = input[r].credit /\ m = credit[r]
                      /\ work' = [work EXCEPT ![r].balances[a] = m]
                      /\ ~ RowIsLocked(r, a)
      BY <1>7, <2>1 DEF UpdateDebit, UpdateCredit, UpdateBalance
    <3>2. /\ work'[r].transactions = work[r].transactions
          /\ work'[r].balances = [work[r].balances EXCEPT ![a] = m]
      BY <1>1, <3>1 DEF Written
    <3>3. work[r].balances \in [Accounts -> Money \cup {NoMoney}]
      BY <1>1 DEF Written
    <3>4. \A b \in Accounts : work'[r].balances[b] = IF b = a THEN m ELSE work[r].balances[b]
      BY <3>2, <3>3
    <3>5. Locks(r, a)
      BY <1>1, <3>1 DEF Locks
    <3> QED
      BY <3>1, <3>2, <3>4, <3>5 DEF Writes
  <2>2. CASE q # r
    BY <1>1, <1>3, <1>7, <2>2 DEF UpdateDebit, UpdateCredit, UpdateBalance
  <2> QED
    BY <2>1, <2>2
<1>8. ASSUME NEW q \in Requests,
             Commit(q) \/ Rollback(q) \/ Resolve(q) \/ DeadlockVictim(q)
      PROVE  Writes(r)
  BY <1>4, <1>8 DEF Commit, Rollback, Resolve, ServerAborts, ServerCommits, EndSession,
     DeadlockVictim, StatementFails
<1>9. ASSUME NEW q \in Requests, SaveTransaction(q) PROVE Writes(r)
  BY <1>4, <1>5, <1>9 DEF SaveTransaction, StatementFails
<1>10. ASSUME NEW q \in Requests, SaveOutbox(q) PROVE Writes(r)
  BY <1>4, <1>6, <1>10 DEF SaveOutbox, StatementFails
<1>11. CASE UNCHANGED work
  BY <1>3, <1>11
<1> QED
  BY <1>7, <1>8, <1>9, <1>10, <1>11
     DEF Next, Step, Handle, Fault, Arrive, ExistsByIdempotencyKey, FindDebitAccount,
         FindCreditAccount, CheckFunds, Begin, BuildFails, Build, CancelRead,
         CancelInTransaction, CancelCommit, Crash, Quiescent, vars

\* The commit of sound work leaves every account its currency.
LEMMA CurrencyStep ==
  ASSUME SoundInv, [Next]_vars
  PROVE  \A a \in Accounts : balance'[a].currency = balance[a].currency
<1>1. CASE UNCHANGED tables
  BY <1>1 DEF tables
<1>2. ASSUME NEW r \in Requests, Publishes(r), NEW a \in Accounts
      PROVE  balance'[a].currency = balance[a].currency
  BY <1>2 DEF Publishes, Publish, SoundInv, WorkIsSound
<1> QED
  BY <1>1, <1>2, PostedStep DEF SoundInv, IndInv

\* The checks hold after every step.
LEMMA ChecksStep ==
  ASSUME SoundInv, [Next]_vars
  PROVE  ChecksHold'
<1>1. /\ input' = input /\ \A r : Amount(r)' = Amount(r)
      /\ \A a \in Accounts : balance'[a].currency = balance[a].currency
  BY InputIsFixed, RowsAreFixed, CurrencyStep
<1>2. TypeOK /\ ChecksHold
  BY DEF SoundInv, IndInv
<1>3. ASSUME NEW r \in Requests
      PROVE  /\ pc'[r] \in AfterDebit => OfAccount(debit'[r], input[r].debit)
             /\ pc'[r] \in AfterCredit => OfAccount(credit'[r], input[r].credit)
             /\ pc'[r] \in AfterFunds => /\ Amount(r).err = NoError
                                         /\ debit'[r].currency = input[r].currency
             /\ pc'[r] \in AfterBuild => credit'[r].currency = input[r].currency
  <2> USE DEF AfterDebit, AfterCredit, AfterFunds, AfterBuild, Statements
  <2>1. /\ pc[r] \in AfterDebit => OfAccount(debit[r], input[r].debit)
        /\ pc[r] \in AfterCredit => OfAccount(credit[r], input[r].credit)
        /\ pc[r] \in AfterFunds => /\ Amount(r).err = NoError
                                   /\ debit[r].currency = input[r].currency
        /\ pc[r] \in AfterBuild => credit[r].currency = input[r].currency
    BY <1>2 DEF ChecksHold
  <2>2. /\ debit[r] \in Money \cup {NoMoney} /\ credit[r] \in Money \cup {NoMoney}
    BY <1>2 DEF TypeOK
  <2>3. CASE pc'[r] \notin AfterDebit
    BY <2>3
  <2>4. CASE /\ pc[r] = "findDebit" /\ pc'[r] = "findCredit"
             /\ FindByID(input[r].debit).err = NoError
             /\ debit'[r] = FindByID(input[r].debit).val
    BY <1>2, <2>4, FoundBalance
  <2>5. CASE /\ pc[r] = "findCredit" /\ pc'[r] = "checkFunds"
             /\ FindByID(input[r].credit).err = NoError
             /\ credit'[r] = FindByID(input[r].credit).val
             /\ debit'[r] = debit[r]
    BY <1>2, <2>1, <2>5, FoundBalance
  <2>6. CASE /\ pc[r] = "checkFunds" /\ pc'[r] = "begin" /\ FundsError(r) = NoError
             /\ debit'[r] = debit[r] /\ credit'[r] = credit[r]
    <3>1. Amount(r).err = NoError /\ IsSufficientBalance(debit[r], Amount(r).val)
      BY <2>6 DEF FundsError, NoError
    <3>2. debit[r].currency = input[r].currency
      BY <3>1, AmountAsked DEF IsSufficientBalance
    <3> QED
      BY <2>1, <2>6, <3>1, <3>2
  <2>7. CASE /\ pc[r] = "build" /\ pc'[r] = "saveTransaction"
             /\ Subtract(debit[r], Amount(r).val).err = NoError
             /\ Add(credit[r], Amount(r).val).err = NoError
             /\ debit'[r] = Subtract(debit[r], Amount(r).val).val
             /\ credit'[r] = Add(credit[r], Amount(r).val).val
    <3>1. /\ debit'[r].currency = debit[r].currency
          /\ credit'[r].currency = credit[r].currency
          /\ credit[r].currency = Amount(r).val.currency
      BY <2>2, <2>7, CurrencyKept
    <3>2. Amount(r).val.currency = input[r].currency
      BY <2>1, <2>7, AmountAsked
    <3> QED
      BY <2>1, <2>7, <3>1, <3>2 DEF OfAccount
  <2>8. CASE /\ \/ pc'[r] = pc[r]
                \/ pc[r] = "begin" /\ pc'[r] = "build"
                \/ pc[r] \in AfterBuild /\ pc'[r] \in AfterBuild
             /\ debit'[r] = debit[r] /\ credit'[r] = credit[r]
    BY <2>1, <2>8
  <2> QED
    BY <1>2, <2>3, <2>4, <2>5, <2>6, <2>7, <2>8, AllGoOn DEF GoesOn
<1>4. ASSUME NEW m, NEW a, OfAccount(m, a)
      PROVE  a \in Accounts /\ m.currency = balance'[a].currency
  BY <1>1, <1>4 DEF OfAccount
<1> QED
  BY <1>1, <1>3, <1>4 DEF ChecksHold, OfAccount

\* A request that may write its posting is sound, and stays so.
LEMMA SoundWhenWritten ==
  ASSUME SoundInv, NEW r \in Requests, pc[r] = "saveTransaction"
  PROVE  Sound(r)
<1>1. /\ OfAccount(debit[r], input[r].debit) /\ OfAccount(credit[r], input[r].credit)
      /\ Amount(r).err = NoError
      /\ debit[r].currency = input[r].currency /\ credit[r].currency = input[r].currency
  BY DEF SoundInv, ChecksHold, AfterDebit, AfterCredit, AfterFunds, AfterBuild, Statements
<1>2. DebitEntry(r).err = NoError
  BY DEF SoundInv, IndInv, WorkFollowsPc, Statements
<1>3. NewEntryError("DEBIT", Amount(r).val) = NoError
  BY <1>2 DEF DebitEntry, DebitEntryOf, NewEntry, Amount
<1>4. ~ IsZero(Amount(r).val) /\ ~ IsNegative(Amount(r).val)
  BY <1>3 DEF NewEntryError, NoError
<1>5. input[r].amount \in Int
  BY IntMaxAssumption, LedgerAssumption DEF SoundInv, IndInv, TypeOK, InputShape, Int64
<1>6. Amount(r).val.amount = input[r].amount
  BY <1>1, AmountAsked
<1>7. input[r].amount > 0
  BY <1>4, <1>5, <1>6 DEF IsZero, IsNegative
<1> QED
  BY <1>1, <1>7 DEF Sound, OfAccount

\* What every step preserves.
LEMMA SoundStep ==
  ASSUME SoundInv, [Next]_vars
  PROVE  SoundInv'
<1>1. /\ input' = input
      /\ \A a \in Accounts : balance'[a].currency = balance[a].currency
  BY InputIsFixed, CurrencyStep
<1>2. ASSUME NEW r, Sound(r) PROVE Sound(r)'
  BY <1>1, <1>2 DEF Sound
<1>3. WorkIsSound'
  <2>1. ASSUME NEW r \in Requests, work'[r].transactions # {} PROVE Sound(r)'
    <3>1. work[r].transactions # {} \/ pc[r] = "saveTransaction"
      BY <2>1, AllWrite DEF SoundInv, IndInv, Writes
    <3> QED
      BY <1>2, <3>1, SoundWhenWritten DEF SoundInv, WorkIsSound
  <2>2. ASSUME NEW r \in Requests, NEW a \in Accounts
        PROVE  \/ work'[r].balances[a] = NoMoney
               \/ work'[r].balances[a].currency = balance'[a].currency
    <3>1. \/ work'[r].balances[a] \in {NoMoney, work[r].balances[a]}
          \/ pc[r] = "updateDebit" /\ a = input[r].debit /\ work'[r].balances[a] = debit[r]
          \/ pc[r] = "updateCredit" /\ a = input[r].credit /\ work'[r].balances[a] = credit[r]
      BY AllWrite DEF SoundInv, IndInv, Writes
    <3>2. pc[r] \in {"updateDebit", "updateCredit"} =>
            OfAccount(debit[r], input[r].debit) /\ OfAccount(credit[r], input[r].credit)
      BY DEF SoundInv, ChecksHold, AfterDebit, AfterCredit, AfterFunds, AfterBuild, Statements
    <3> QED
      BY <1>1, <3>1, <3>2 DEF SoundInv, WorkIsSound, OfAccount
  <2> QED
    BY <2>1, <2>2 DEF WorkIsSound
<1>4. OnlySoundPostings'
  <2>1. \A r \in Posted : Sound(r)
    BY DEF SoundInv, OnlySoundPostings, Sound
  <2>2. \A r \in Posted' : r \in Posted \/ Sound(r)
    <3>1. ASSUME NEW r \in Requests, Publishes(r) PROVE Sound(r)
      BY <3>1 DEF Publishes, WrittenWhole, SoundInv, WorkIsSound
    <3> QED
      BY <3>1, PostedStep DEF SoundInv, IndInv
  <2>3. \A r \in Posted' : Sound(r)'
    BY <1>2, <2>1, <2>2
  <2> QED
    BY <2>3 DEF OnlySoundPostings, Sound
<1>5. IndInv'
  BY StepInv DEF SoundInv
<1> QED
  BY <1>3, <1>4, <1>5, ChecksStep DEF SoundInv

----------------------------------------------------------------------------
\* The theorems.

\* The initial states satisfy the invariant.
LEMMA InitSound ==
  ASSUME Init
  PROVE  SoundInv
<1>1. IndInv
  BY InitInv
<1>2. ChecksHold
  BY DEF Init, ChecksHold, AfterDebit, AfterCredit, AfterFunds, AfterBuild, Statements
<1>3. WorkIsSound
  BY DEF Init, WorkIsSound, NoWork, Unwritten
<1>4. OnlySoundPostings
  BY DEF Init, OnlySoundPostings, Posted
<1> QED
  BY <1>1, <1>2, <1>3, <1>4 DEF SoundInv

\* Every state satisfies the invariant.
THEOREM SoundnessInvariance == Spec => []SoundInv
<1>1. Init => SoundInv
  BY InitSound
<1>2. SoundInv /\ [Next]_vars => SoundInv'
  BY SoundStep
<1> QED
  BY <1>1, <1>2, PTL DEF Spec

\* Whatever happens between the reads of Execute and its database transaction, what
\* it posts is a positive amount between two accounts of its currency
\* (create_transaction.go:69-99, entry.go:51-57).
THEOREM PostingsAreSound == Spec => []OnlySoundPostings
<1>1. SoundInv => OnlySoundPostings
  BY DEF SoundInv
<1> QED
  BY <1>1, SoundnessInvariance, PTL

\* A balance overwritten with a value computed earlier keeps the account's currency.
THEOREM CurrencyStays == Spec => AccountsKeepCurrency
<1>1. SoundInv /\ [Next]_vars => \A a \in Accounts : balance'[a].currency = balance[a].currency
  BY CurrencyStep
<1> QED
  BY <1>1, SoundnessInvariance, PTL DEF Spec, AccountsKeepCurrency

----------------------------------------------------------------------------
\* Balances that are not negative.

\* Amounts that are read or asked for are integers.
LEMMA AmountsAreInt ==
  ASSUME TypeOK
  PROVE  /\ \A a \in Accounts : balance[a].amount \in Int
         /\ \A r \in Requests : input[r].amount \in Int
<1>1. \A m \in Money : m.amount \in Int
  BY IntMaxAssumption DEF Money, Int64
<1>2. \A n \in Int64 : n \in Int
  BY IntMaxAssumption DEF Int64
<1> QED
  BY <1>1, <1>2, LedgerAssumption DEF TypeOK, InputShape

\* FindByID gives the balance that is stored (repository/account.go).
LEMMA FoundIsStored ==
  ASSUME TypeOK, NEW a, FindByID(a).err = NoError
  PROVE  a \in Accounts /\ FindByID(a).val = balance[a]
<1>1. a \in Accounts
  BY DEF FindByID, MoneyError, NoError
<1>2. FindByID(a).val = [amount |-> balance[a].amount, currency |-> balance[a].currency]
  BY <1>1 DEF FindByID, NewMoney, MoneyError, Returns, NoError
<1>3. balance[a] \in Money
  BY <1>1 DEF TypeOK
<1> QED
  BY <1>1, <1>2, <1>3 DEF Money

\* The arithmetic of Build, when nothing wraps (money.go:54-67).
LEMMA SubtractIsExact ==
  ASSUME NEW m \in Money, NEW k, Subtract(m, k).err = NoError,
         NEW n \in Nat, k.amount = n, m.amount - n \in Int64
  PROVE  Subtract(m, k).val.amount = m.amount - n
<1>1. m.currency = k.currency
  BY DEF Subtract, MoneyError, NoError
<1>2. m.amount \in Int
  BY IntMaxAssumption DEF Money, Int64
<1>3. Wrap(m.amount - n) = m.amount - n
  BY <1>2, IntMaxAssumption DEF Wrap, Int64
<1>4. \A y : [m EXCEPT !.amount = y].amount = y
  BY DEF Money
<1> QED
  BY <1>1, <1>3, <1>4 DEF Subtract, Returns

LEMMA AddIsExact ==
  ASSUME NEW m \in Money, NEW k, Add(m, k).err = NoError,
         NEW n \in Nat, k.amount = n, m.amount + n \in Int64
  PROVE  Add(m, k).val.amount = m.amount + n
<1>1. m.currency = k.currency
  BY DEF Add, MoneyError, NoError
<1>2. m.amount \in Int
  BY IntMaxAssumption DEF Money, Int64
<1>3. Wrap(m.amount + n) = m.amount + n
  BY <1>2, IntMaxAssumption DEF Wrap, Int64
<1>4. \A y : [m EXCEPT !.amount = y].amount = y
  BY DEF Money
<1> QED
  BY <1>1, <1>3, <1>4 DEF Add, Returns

\* However the requests race, a balance is overwritten with at most what some request
\* read and an amount; each posting adds one amount to what there is to read.
Most(s, m) == s + Cardinality(Posted) * m

\* The inductive invariant: what a request has in hand or has written is not more than
\* that, until it builds its posting, and one amount more from then on.
NoneWraps(s, m) ==
  /\ \A a \in Accounts : balance[a].amount \in 0 .. Most(s, m)
  /\ \A r \in Requests :
       /\ pc[r] \in AfterDebit => debit[r].amount \in 0 .. Most(s, m)
       /\ pc[r] \in AfterCredit \ AfterBuild => credit[r].amount \in 0 .. Most(s, m)
       /\ pc[r] \in AfterBuild => credit[r].amount \in 0 .. Most(s, m) + m
       /\ pc[r] \in {"begin", "build"} => input[r].amount \in 0 .. debit[r].amount
       /\ \A a \in Accounts : work[r].balances[a].amount \in 0 .. Most(s, m) + m

\* Every account starts with at most s, every request asks for at most m, and the
\* amounts of all requests on top of s are an int64.
AmountsFit(s, m) ==
  /\ s \in Nat /\ m \in Nat
  /\ IsFiniteSet(Requests)
  /\ \A a \in Accounts : Seed[a].amount <= s
  /\ \A i \in Inputs : i.amount <= m
  /\ s + Cardinality(Requests) * m <= IntMax

LEMMA OneMore ==
  ASSUME NEW s \in Nat, NEW m \in Nat, NEW n \in Nat
  PROVE  /\ s + n * m \in Nat
         /\ s + (n + 1) * m = (s + n * m) + m
         /\ \A k \in Nat : n <= k => s + n * m <= s + k * m
<1>1. n * m \in Nat /\ (n + 1) * m = n * m + m
  OBVIOUS
<1>2. ASSUME NEW k \in Nat, n <= k PROVE n * m <= k * m
  <2>1. PICK j \in Nat : k = n + j
    <3>1. k - n \in Nat /\ k = n + (k - n)
      BY <1>2
    <3> QED BY <3>1
  <2>2. j * m \in Nat /\ (n + j) * m = n * m + j * m
    OBVIOUS
  <2> QED
    BY <1>1, <2>1, <2>2
<1>3. \A k \in Nat : k * m \in Nat
  OBVIOUS
<1> QED
  BY <1>1, <1>2, <1>3

\* A request that has not posted its transaction has room for it.
LEMMA RoomForOneMore ==
  ASSUME NEW s, NEW m, AmountsFit(s, m), TypeOK, NEW r \in Requests \ Posted
  PROVE  /\ s + Cardinality(Posted \cup {r}) * m = Most(s, m) + m
         /\ Most(s, m) + m <= IntMax
<1>1. IsFiniteSet(Requests) /\ s \in Nat /\ m \in Nat
  BY DEF AmountsFit
<1>2. Posted \cup {r} \subseteq Requests
  BY PostedAreRequests
<1>3. IsFiniteSet(Posted) /\ IsFiniteSet(Posted \cup {r})
  BY <1>1, <1>2, PostedAreRequests, FS_Subset
<1>4. PICK n, k : n = Cardinality(Posted) /\ k = Cardinality(Requests)
  OBVIOUS
<1>5. Cardinality(Posted \cup {r}) = n + 1 /\ n \in Nat
  BY <1>3, <1>4, FS_AddElement, FS_CardinalityType
<1>6. n + 1 <= k /\ k \in Nat /\ n + 1 \in Nat
  BY <1>1, <1>2, <1>4, <1>5, FS_Subset, FS_CardinalityType
<1>7. s + (n + 1) * m = (s + n * m) + m
  BY <1>1, <1>5, OneMore
<1>8. s + (n + 1) * m <= s + k * m
  BY <1>1, <1>6, OneMore
<1>9. s + k * m <= IntMax
  BY <1>4 DEF AmountsFit
<1>10. /\ s + (n + 1) * m \in Nat /\ s + k * m \in Nat /\ IntMax \in Nat
  BY <1>1, <1>6, OneMore, IntMaxAssumption
<1>11. Most(s, m) = s + n * m
  BY <1>4 DEF Most
<1>12. (s + n * m) + m <= IntMax
  BY <1>7, <1>8, <1>9, <1>10
<1> QED
  BY <1>5, <1>7, <1>11, <1>12

\* Only a posting raises the bound, by one amount.
LEMMA MostStep ==
  ASSUME NEW s, NEW m, AmountsFit(s, m), SoundInv, [Next]_vars
  PROVE  /\ Most(s, m) \in Nat
         /\ \/ UNCHANGED tables /\ Most(s, m)' = Most(s, m)
            \/ /\ Most(s, m)' = Most(s, m) + m
               /\ \E r \in Requests : Publishes(r)
<1>1. TypeOK /\ SessionFollowsPc /\ WorkFollowsPc /\ PostedAreFinished
  BY DEF SoundInv, IndInv
<1>2. Cardinality(Posted) \in Nat
  BY <1>1, PostedAreRequests, FS_Subset, FS_CardinalityType DEF AmountsFit
<1>3. Most(s, m) \in Nat
  BY <1>2, OneMore DEF AmountsFit, Most
<1>4. CASE UNCHANGED tables /\ Posted' = Posted
  BY <1>3, <1>4 DEF Most
<1>5. ASSUME NEW r \in Requests, Publishes(r), Posted' = Posted \cup {r}
      PROVE  Most(s, m)' = Most(s, m) + m
  <2>1. r \notin Posted
    BY <1>1, <1>5, RowOfPosting
       DEF PostedAreFinished, WorkFollowsPc, Publishes, WrittenWhole, NoWork
  <2>2. s + Cardinality(Posted \cup {r}) * m = Most(s, m) + m
    BY <1>1, <2>1, RoomForOneMore
  <2> QED
    BY <1>5, <2>2 DEF Most
<1> QED
  BY <1>1, <1>3, <1>4, <1>5, PostedStep

\* What the requests have in hand stays below the bound.
LEMMA HandsStep ==
  ASSUME NEW s, NEW m, AmountsFit(s, m), SoundInv, NoneWraps(s, m), [Next]_vars,
         NEW r \in Requests, NEW most \in Nat, most = Most(s, m),
         NEW next \in Nat, most <= next
  PROVE  /\ pc'[r] \in AfterDebit => debit'[r].amount \in 0 .. next
         /\ pc'[r] \in AfterCredit \ AfterBuild => credit'[r].amount \in 0 .. next
         /\ pc'[r] \in AfterBuild => credit'[r].amount \in 0 .. next + m
         /\ pc'[r] \in {"begin", "build"} => input[r].amount \in 0 .. debit'[r].amount
<1> USE DEF AfterDebit, AfterCredit, AfterFunds, AfterBuild, Statements
<1>1. /\ \A a \in Accounts : balance[a].amount \in 0 .. most
      /\ pc[r] \in AfterDebit => debit[r].amount \in 0 .. most
      /\ pc[r] \in AfterCredit \ AfterBuild => credit[r].amount \in 0 .. most
      /\ pc[r] \in AfterBuild => credit[r].amount \in 0 .. most + m
      /\ pc[r] \in {"begin", "build"} => input[r].amount \in 0 .. debit[r].amount
  BY DEF NoneWraps
<1>2. TypeOK /\ ChecksHold /\ m \in Nat /\ PostedAreFinished
  BY DEF SoundInv, IndInv, AmountsFit
<1>3. \A n : /\ n \in 0 .. most => n \in 0 .. next
             /\ n \in 0 .. most + m => n \in 0 .. next + m
  BY <1>2
<1>4. CASE pc'[r] \notin AfterDebit
  BY <1>4
<1>5. CASE /\ pc[r] = "findDebit" /\ pc'[r] = "findCredit"
           /\ FindByID(input[r].debit).err = NoError
           /\ debit'[r] = FindByID(input[r].debit).val
  <2>1. debit'[r].amount \in 0 .. most
    BY <1>1, <1>2, <1>5, FoundIsStored
  <2> QED
    BY <1>3, <1>5, <2>1
<1>6. CASE /\ pc[r] = "findCredit" /\ pc'[r] = "checkFunds"
           /\ FindByID(input[r].credit).err = NoError
           /\ credit'[r] = FindByID(input[r].credit).val
           /\ debit'[r] = debit[r]
  <2>1. credit'[r].amount \in 0 .. most
    BY <1>1, <1>2, <1>6, FoundIsStored
  <2> QED
    BY <1>1, <1>3, <1>6, <2>1
<1>7. CASE /\ pc[r] = "checkFunds" /\ pc'[r] = "begin" /\ FundsError(r) = NoError
           /\ debit'[r] = debit[r] /\ credit'[r] = credit[r]
  <2>1. Amount(r).err = NoError /\ IsSufficientBalance(debit[r], Amount(r).val)
    BY <1>7 DEF FundsError, NoError
  <2>2. ~ input[r].amount < 0
    BY <2>1 DEF Amount, AmountOf, NewMoney, MoneyError, NoError
  <2>3. debit[r].amount >= input[r].amount
    BY <2>1, AmountAsked DEF IsSufficientBalance
  <2>4. debit[r].amount \in 0 .. most /\ input[r].amount \in Int
    BY <1>1, <1>2, <1>7, AmountsAreInt
  <2>5. input[r].amount \in 0 .. debit[r].amount
    BY <2>2, <2>3, <2>4
  <2> QED
    BY <1>1, <1>3, <1>7, <2>5
<1>8. CASE /\ pc[r] = "build" /\ pc'[r] = "saveTransaction"
           /\ Subtract(debit[r], Amount(r).val).err = NoError
           /\ Add(credit[r], Amount(r).val).err = NoError
           /\ debit'[r] = Subtract(debit[r], Amount(r).val).val
           /\ credit'[r] = Add(credit[r], Amount(r).val).val
  <2>1. PICK n : n = input[r].amount
    OBVIOUS
  <2>2. /\ Amount(r).val.amount = n /\ n \in 0 .. debit[r].amount
        /\ debit[r].amount \in 0 .. most /\ credit[r].amount \in 0 .. most
    BY <1>1, <1>2, <1>8, <2>1, AmountAsked DEF ChecksHold
  <2>3. debit[r] \in Money /\ credit[r] \in Money
    <3>1. debit[r].currency \in Currencies /\ credit[r].currency \in Currencies
      BY <1>2, <1>8 DEF ChecksHold, OfAccount, TypeOK, Money
    <3>2. NoMoney.currency \notin Currencies
      BY DEF NoMoney, Currencies
    <3> QED
      BY <1>2, <3>1, <3>2 DEF TypeOK
  <2>4. n \in Nat /\ n <= m
    <3>1. n <= m
      BY <1>2, <2>1 DEF AmountsFit, TypeOK
    <3> QED
      BY <2>2, <3>1
  <2>5. most + m <= IntMax
    <3>1. r \notin Posted
      BY <1>2, <1>8 DEF PostedAreFinished, Returned
    <3> QED
      BY <1>2, <3>1, RoomForOneMore
  <2>6. /\ debit[r].amount - n \in Int64 /\ credit[r].amount + n \in Int64
        /\ debit[r].amount - n \in 0 .. next /\ credit[r].amount + n \in 0 .. next + m
    BY <1>2, <2>2, <2>4, <2>5, IntMaxAssumption DEF Int64
  <2>7. debit'[r].amount = debit[r].amount - n
    BY <1>8, <2>2, <2>3, <2>4, <2>6, SubtractIsExact
  <2>8. credit'[r].amount = credit[r].amount + n
    BY <1>8, <2>2, <2>3, <2>4, <2>6, AddIsExact
  <2> QED
    BY <1>8, <2>6, <2>7, <2>8
<1>9. CASE /\ \/ pc'[r] = pc[r]
              \/ pc[r] = "begin" /\ pc'[r] = "build"
              \/ pc[r] \in AfterBuild /\ pc'[r] \in AfterBuild
           /\ debit'[r] = debit[r] /\ credit'[r] = credit[r]
  BY <1>1, <1>3, <1>9
<1> QED
  BY <1>2, <1>4, <1>5, <1>6, <1>7, <1>8, <1>9, AllGoOn DEF GoesOn

LEMMA NoneWrapsStep ==
  ASSUME NEW s, NEW m, AmountsFit(s, m), SoundInv, NoneWraps(s, m), [Next]_vars
  PROVE  NoneWraps(s, m)'
<1>1. PICK most, next : most = Most(s, m) /\ next = Most(s, m)'
  OBVIOUS
<1>2. /\ most \in Nat /\ next \in {most, most + m} /\ m \in Nat
      /\ UNCHANGED tables \/ (next = most + m /\ \E r \in Requests : Publishes(r))
  <2>1. Most(s, m) \in Nat /\ m \in Nat
    BY MostStep DEF AmountsFit
  <2>2. \/ UNCHANGED tables /\ Most(s, m)' = Most(s, m)
        \/ /\ Most(s, m)' = Most(s, m) + m
           /\ \E r \in Requests : Publishes(r)
    BY MostStep
  <2> QED
    BY <1>1, <2>1, <2>2
<1>3. next \in Nat /\ most <= next
  BY <1>2
<1>4. /\ \A a \in Accounts : balance[a].amount \in 0 .. most
      /\ \A r \in Requests : \A a \in Accounts : work[r].balances[a].amount \in 0 .. most + m
      /\ TypeOK
  BY <1>1 DEF NoneWraps, SoundInv, IndInv
<1>5. input' = input
  BY InputIsFixed
<1>6. ASSUME NEW a \in Accounts PROVE balance'[a].amount \in 0 .. next
  <2>1. CASE UNCHANGED tables
    BY <1>2, <1>3, <1>4, <2>1 DEF tables
  <2>2. ASSUME NEW r \in Requests, Publishes(r), next = most + m
        PROVE  balance'[a].amount \in 0 .. next
    <3>1. balance'[a] \in {balance[a], work[r].balances[a]}
      BY <2>2 DEF Publishes, Publish
    <3>2. balance[a].amount \in 0 .. next /\ work[r].balances[a].amount \in 0 .. next
      BY <1>2, <1>3, <1>4, <2>2
    <3> QED
      BY <3>1, <3>2
  <2> QED
    BY <1>2, <2>1, <2>2
<1>7. ASSUME NEW r \in Requests
      PROVE  /\ pc'[r] \in AfterDebit => debit'[r].amount \in 0 .. next
             /\ pc'[r] \in AfterCredit \ AfterBuild => credit'[r].amount \in 0 .. next
             /\ pc'[r] \in AfterBuild => credit'[r].amount \in 0 .. next + m
             /\ pc'[r] \in {"begin", "build"} => input[r].amount \in 0 .. debit'[r].amount
  BY <1>1, <1>2, <1>3, HandsStep
<1>8. ASSUME NEW r \in Requests, NEW a \in Accounts
      PROVE  work'[r].balances[a].amount \in 0 .. next + m
  <2>1. \/ work'[r].balances[a] \in {NoMoney, work[r].balances[a]}
        \/ pc[r] = "updateDebit" /\ work'[r].balances[a] = debit[r]
        \/ pc[r] = "updateCredit" /\ work'[r].balances[a] = credit[r]
    BY <1>4, AllWrite DEF Writes
  <2>2. /\ pc[r] = "updateDebit" => debit[r].amount \in 0 .. most
        /\ pc[r] = "updateCredit" => credit[r].amount \in 0 .. most + m
    BY <1>1 DEF NoneWraps, AfterDebit, AfterCredit, AfterFunds, AfterBuild, Statements
  <2>3. NoMoney.amount = 0
    BY DEF NoMoney
  <2>4. \A n : n \in 0 .. most \cup 0 .. most + m \cup {0} => n \in 0 .. next + m
    BY <1>2, <1>3
  <2> QED
    BY <1>4, <2>1, <2>2, <2>3, <2>4
<1> QED
  BY <1>1, <1>5, <1>6, <1>7, <1>8 DEF NoneWraps

LEMMA NoneWrapsInit ==
  ASSUME NEW s, NEW m, AmountsFit(s, m), Init
  PROVE  NoneWraps(s, m)
<1>1. s \in Nat /\ m \in Nat /\ Posted = {} /\ Cardinality({}) = 0
  BY FS_EmptySet DEF AmountsFit, Init, Posted
<1>2. Most(s, m) = s
  BY <1>1 DEF Most
<1>3. \A a \in Accounts : balance[a].amount \in 0 .. s
  <2>1. \A a \in Accounts : Seed[a].amount \in Int /\ Seed[a].amount >= 0
    BY LedgerAssumption, IntMaxAssumption DEF Money, Int64
  <2> QED
    BY <1>1, <2>1 DEF Init, AmountsFit
<1>4. \A r \in Requests : \A a \in Accounts : work[r].balances[a].amount = 0
  BY DEF Init, NoWork, Unwritten, NoMoney
<1> QED
  BY <1>1, <1>2, <1>3, <1>4
     DEF Init, NoneWraps, AfterDebit, AfterCredit, AfterFunds, AfterBuild, Statements

LEMMA NoneWrapsIsEnough ==
  ASSUME NEW s, NEW m, AmountsFit(s, m), SoundInv, NoneWraps(s, m)
  PROVE  BalancesNonNegative
<1>1. Most(s, m) \in Nat
  <2>1. Cardinality(Posted) \in Nat
    BY PostedAreRequests, FS_Subset, FS_CardinalityType DEF AmountsFit, SoundInv, IndInv
  <2> QED
    BY <2>1, OneMore DEF AmountsFit, Most
<1>2. \A n \in 0 .. Most(s, m) : n >= 0
  BY <1>1
<1> QED
  BY <1>2 DEF NoneWraps, BalancesNonNegative

\* While the amounts of all requests fit in an int64, no interleaving, lost update or
\* fault leaves a balance below zero, where ToAccountDomain would refuse to read it
\* (money.go:11, create_transaction.go:95-99): the check of the funds is not repeated
\* in the database transaction, and does not have to be for this.
THEOREM BalancesStayNonNegative ==
  ASSUME NEW s, NEW m, AmountsFit(s, m)
  PROVE  Spec => []BalancesNonNegative
<1>1. Init => SoundInv /\ NoneWraps(s, m)
  BY InitSound, NoneWrapsInit
<1>2. SoundInv /\ NoneWraps(s, m) /\ [Next]_vars => (SoundInv /\ NoneWraps(s, m))'
  BY SoundStep, NoneWrapsStep
<1>3. SoundInv /\ NoneWraps(s, m) => BalancesNonNegative
  BY NoneWrapsIsEnough
<1> QED
  BY <1>1, <1>2, <1>3, PTL DEF Spec

----------------------------------------------------------------------------
\* Progress.

\* Among sets of subsets of a finite set there is a smallest.
LEMMA SmallestSubset ==
  ASSUME NEW S, IsFiniteSet(S), NEW C \in SUBSET SUBSET S, C # {}
  PROVE  \E T \in C : \A U \in C : U \subseteq T => U = T
<1>1. IsWellFoundedOn(StrictSubsetOrdering(S), SUBSET S)
  BY FS_StrictSubsetOrderingWellFounded, FS_FiniteSubsetsOfFinite
<1>2. PICK T \in C : \A U \in C : <<U, T>> \notin StrictSubsetOrdering(S)
  BY <1>1, WFMin
<1>3. ASSUME NEW U \in C, U \subseteq T, U # T PROVE FALSE
  <2>1. <<U, T>> \in StrictSubsetOrdering(S)
    BY <1>3 DEF StrictSubsetOrdering
  <2> QED
    BY <1>2, <2>1
<1> QED
  BY <1>3

\* Who holds a connection is in its database transaction: it does not wait for another
\* one, as Execute makes its reads before (uow.go:26-44, create_transaction.go:59-104).
LEMMA HoldersGoOn ==
  ASSUME TypeOK, SessionFollowsPc,
         NEW q \in Requests, session[q] \in {"open", "failed"}
  PROVE  InProgress(q) /\ ~ NeedsConnection(q)
BY DEF TypeOK, SessionFollowsPc, InProgress, NeedsConnection, Reading, Statements,
   InTransaction, Returned

\* A row has one writer at a time.
RowsAreExclusive ==
  \A a \in Accounts : \A p, q \in Requests :
    p # q => work[p].balances[a] = NoMoney \/ work[q].balances[a] = NoMoney

\* Every step leaves it one: an UPDATE waits for the lock (create_transaction.go:170-180).
LEMMA ExclusiveStep ==
  ASSUME TypeOK, RowsAreExclusive, [Next]_vars
  PROVE  RowsAreExclusive'
<1> SUFFICES ASSUME NEW a \in Accounts, NEW p \in Requests, NEW q \in Requests, p # q,
                    work'[p].balances[a] # NoMoney, work'[q].balances[a] # NoMoney
             PROVE  FALSE
  BY DEF RowsAreExclusive
<1>1. /\ work'[p].balances[a] = work[p].balances[a] \/ Locks(p, a)
      /\ work'[q].balances[a] = work[q].balances[a] \/ Locks(q, a)
  BY AllWrite DEF Writes
<1>2. CASE Locks(p, a)
  BY <1>2 DEF Locks, RowIsLocked
<1>3. CASE Locks(q, a)
  BY <1>3 DEF Locks, RowIsLocked
<1> QED
  BY <1>1, <1>2, <1>3 DEF RowsAreExclusive

\* As a row has one writer and a key one claimant, a statement waits for one request:
\* the sets of InDeadlock are made of cycles.
THEOREM OneIsWaitedFor == Spec => []WaitsForOne
<1>1. Init => RowsAreExclusive
  BY DEF Init, RowsAreExclusive, NoWork, Unwritten
<1>2. SoundInv /\ RowsAreExclusive /\ [Next]_vars => RowsAreExclusive'
  BY ExclusiveStep DEF SoundInv, IndInv
<1>3. SoundInv /\ RowsAreExclusive => WaitsForOne
  <2> SUFFICES ASSUME SoundInv, RowsAreExclusive,
                      NEW r \in Requests, NEW p \in Requests, NEW q \in Requests,
                      WaitsFor(r, p), WaitsFor(r, q)
               PROVE  p = q
    BY DEF WaitsForOne
  <2>1. CASE pc[r] = "saveTransaction"
    <3>1. PICK t \in work[p].transactions, u \in work[q].transactions :
            t.key = Key(r) /\ u.key = Key(r)
      BY <2>1 DEF WaitsFor
    <3>2. Key(p) = Key(r) /\ Key(q) = Key(r)
      BY <3>1 DEF SoundInv, IndInv, WorkFollowsPc, PostingRow
    <3> QED
      BY <3>1, <3>2 DEF SoundInv, IndInv, KeysAreExclusive
  <2>2. CASE pc[r] = "updateDebit"
    <3>1. input[r].debit \in Accounts
      BY <2>2 DEF SoundInv, ChecksHold, OfAccount, AfterDebit, AfterCredit, AfterFunds,
         AfterBuild, Statements
    <3> QED
      BY <2>2, <3>1 DEF WaitsFor, RowsAreExclusive
  <2>3. CASE pc[r] = "updateCredit"
    <3>1. input[r].credit \in Accounts
      BY <2>3 DEF SoundInv, ChecksHold, OfAccount, AfterDebit, AfterCredit, AfterFunds,
         AfterBuild, Statements
    <3> QED
      BY <2>3, <3>1 DEF WaitsFor, RowsAreExclusive
  <2> QED
    BY <2>1, <2>2, <2>3 DEF WaitsFor
<1> QED
  BY <1>1, <1>2, <1>3, SoundnessInvariance, PTL DEF Spec

\* A statement waits for a transaction that is open, or whose client is lost, and for
\* no other: what an ended one wrote and locked is gone.
LEMMA WaitsForTheLiving ==
  ASSUME SoundInv, NEW r \in Requests, NEW q \in Requests, WaitsFor(r, q)
  PROVE  session[q] = "open" \/ InDoubt(q)
<1>1. /\ pc[r] = "updateDebit" => input[r].debit \in Accounts
      /\ pc[r] = "updateCredit" => input[r].credit \in Accounts
  BY DEF SoundInv, ChecksHold, OfAccount, AfterDebit, AfterCredit, AfterFunds, AfterBuild,
     Statements
<1>2. work[q] # NoWork
  BY <1>1 DEF WaitsFor, NoWork, Unwritten
<1>3. session[q] \notin {"none", "failed"}
  BY <1>2 DEF SoundInv, IndInv, WorkFollowsPc
<1>4. session[q] \in {"none", "open", "failed", "abandoned", "committing"}
  BY DEF SoundInv, IndInv, TypeOK
<1> QED
  BY <1>3, <1>4 DEF InDoubt

\* Where everyone waits for a member, some wait in a circle: in the smallest such set
\* everyone is waited for, or it could do without one.
LEMMA WaitersMakeDeadlock ==
  ASSUME IsFiniteSet(Requests), NEW B \in SUBSET Requests, B # {},
         \A r \in B : \E q \in B : WaitsFor(r, q)
  PROVE  \E r \in B : InDeadlock(r)
<1> DEFINE Waiting(S) == S # {} /\ \A r \in S : \E q \in S : WaitsFor(r, q)
           C == {S \in SUBSET B : Waiting(S)}
<1>1. PICK T \in C : \A U \in C : U \subseteq T => U = T
  <2>1. C \in SUBSET SUBSET B /\ B \in C /\ IsFiniteSet(B)
    BY FS_Subset
  <2> HIDE DEF C
  <2> QED
    BY <2>1, SmallestSubset
<1>2. T \subseteq B /\ T # {} /\ \A r \in T : \E q \in T : WaitsFor(r, q)
  BY <1>1
<1>3. ASSUME NEW q \in T, ~ \E p \in T : WaitsFor(p, q) PROVE FALSE
  <2>1. PICK p \in T : WaitsFor(q, p)
    BY <1>2
  <2>2. p # q
    BY <2>1 DEF WaitsFor
  <2>3. \A r \in T \ {q} : \E t \in T \ {q} : WaitsFor(r, t)
    BY <1>2, <1>3
  <2>4. T \ {q} \in C
    BY <1>2, <2>2, <2>3
  <2>5. T \ {q} = T
    <3> HIDE DEF C
    <3> QED
      BY <1>1, <2>4
  <2> QED
    BY <2>5
<1>4. T \in SUBSET Requests /\ \A q \in T : /\ \E p \in T : WaitsFor(q, p)
                                            /\ \E p \in T : WaitsFor(p, q)
  BY <1>2, <1>3
<1>5. PICK r \in T : TRUE
  BY <1>2
<1>6. InDeadlock(r)
  BY <1>4, <1>5 DEF InDeadlock
<1> QED
  BY <1>2, <1>5, <1>6

\* In a state of the invariant somebody gets on.
LEMMA SomeoneGetsOn ==
  ASSUME IsFiniteSet(Requests), SoundInv, NEW r \in Requests, InProgress(r)
  PROVE  \E q \in Requests : CanGo(q) \/ InDoubt(q) \/ InDeadlock(q)
<1> SUFFICES ASSUME \A q \in Requests : ~ CanGo(q) /\ ~ InDoubt(q) /\ ~ InDeadlock(q)
             PROVE  FALSE
  OBVIOUS
<1>1. TypeOK /\ SessionFollowsPc
  BY DEF SoundInv, IndInv
<1> DEFINE B == {q \in Requests : \E p \in Requests : WaitsFor(q, p)}
<1>2. ASSUME NEW q \in Requests, session[q] \in {"open", "failed"} PROVE q \in B
  <2>1. InProgress(q) /\ ~ NeedsConnection(q)
    BY <1>1, <1>2, HoldersGoOn
  <2> QED
    BY <2>1 DEF CanGo
<1>3. B = {}
  <2>1. ASSUME NEW q \in B PROVE \E p \in B : WaitsFor(q, p)
    <3>1. PICK p \in Requests : WaitsFor(q, p)
      BY <2>1
    <3>2. session[p] = "open"
      BY <2>1, <3>1, WaitsForTheLiving
    <3> QED
      BY <1>2, <3>1, <3>2
  <2>2. B \in SUBSET Requests
    OBVIOUS
  <2> HIDE DEF B
  <2> QED
    BY <2>1, <2>2, WaitersMakeDeadlock
<1>4. {q \in Requests : session[q] \in {"open", "failed"}} = {}
  BY <1>2, <1>3
<1>5. FreeConnection
  <2>1. Cardinality({}) = 0 /\ MaxConns > 0
    BY FS_EmptySet, LedgerAssumption
  <2> QED
    BY <1>4, <2>1 DEF FreeConnection
<1>6. CanGo(r)
  BY <1>3, <1>5 DEF CanGo
<1> QED
  BY <1>6

\* However many requests there are for however few connections and accounts, and
\* whatever has failed, they never all wait: while one is in progress some request can
\* go on, or the database is about to end a transaction, that of a lost client or of
\* one request in a circle (uow.go:26-44, create_transaction.go:59-101, 164-208).
THEOREM NeverAtAStandstill ==
  ASSUME IsFiniteSet(Requests)
  PROVE  Spec => []NoStandstill
<1>1. SoundInv => NoStandstill
  BY SomeoneGetsOn DEF NoStandstill
<1> QED
  BY <1>1, SoundnessInvariance, PTL

\* What is ahead of a place is a number, and less from each statement to the next, to
\* the rollback and to the return.
LEMMA AheadFalls ==
  /\ \A p \in {"idle", "begin"} \cup Reading \cup InTransaction \cup Returned : Ahead(p) \in Nat
  /\ Ahead("idle") > Ahead("exists") /\ Ahead("exists") > Ahead("findDebit")
  /\ Ahead("findDebit") > Ahead("findCredit") /\ Ahead("findCredit") > Ahead("checkFunds")
  /\ Ahead("checkFunds") > Ahead("begin") /\ Ahead("begin") > Ahead("build")
  /\ Ahead("build") > Ahead("saveTransaction")
  /\ Ahead("saveTransaction") > Ahead("updateDebit")
  /\ Ahead("updateDebit") > Ahead("updateCredit")
  /\ Ahead("updateCredit") > Ahead("saveOutbox") /\ Ahead("saveOutbox") > Ahead("commit")
  /\ \A p \in Statements \cup {"build"} : Ahead(p) > Ahead("rollback")
  /\ \A p \in {"idle", "begin"} \cup Reading \cup InTransaction, q \in Returned :
       Ahead(p) > Ahead(q)
BY DEF Ahead, Reading, Statements, InTransaction, Returned

\* Request r takes its next statement or returns, and the others stay where they are.
Advances(r) ==
  /\ Ahead(pc'[r]) < Ahead(pc[r])
  /\ \A q \in Requests \ {r} : pc'[q] = pc[q] /\ session'[q] = session[q]

\* The database ends the transaction of a lost client.
Settles(r) ==
  /\ InDoubt(r) /\ session'[r] = "none" /\ pc' = pc
  /\ \A q \in Requests \ {r} : session'[q] = session[q]

\* Every step is one of the two, or the crash of those that are in progress.
LEMMA StepsAdvance ==
  ASSUME TypeOK, [Next]_vars
  PROVE  \/ \E r \in Requests : Advances(r) \/ Settles(r)
         \/ Crash
         \/ UNCHANGED vars
<1> USE AheadFalls DEF Reading, Statements, InTransaction, Returned
<1>1. /\ pc \in [Requests -> {"idle", "begin"} \cup Reading \cup InTransaction \cup Returned]
      /\ session \in [Requests -> {"none", "open", "failed", "abandoned", "committing"}]
  BY DEF TypeOK
<1>2. ASSUME NEW r \in Requests, NEW place, pc' = [pc EXCEPT ![r] = place],
             \A q \in Requests \ {r} : session'[q] = session[q],
             Ahead(place) < Ahead(pc[r])
      PROVE  Advances(r)
  BY <1>1, <1>2 DEF Advances
<1>3. ASSUME NEW r \in Requests, NEW s, session' = [session EXCEPT ![r] = s]
      PROVE  \A q \in Requests \ {r} : session'[q] = session[q]
  BY <1>1, <1>3
<1>4. ASSUME NEW r \in Requests, NEW err, NEW next,
             ProceedOrReturn(r, err, next), UNCHANGED session,
             pc[r] \in {"exists", "findDebit", "findCredit", "checkFunds"},
             Ahead(next) < Ahead(pc[r])
      PROVE  Advances(r)
  BY <1>2, <1>4 DEF ProceedOrReturn
<1>5. ASSUME NEW r \in Requests, NEW next, ProceedOrRollback(r, NoError, next),
             UNCHANGED session, Ahead(next) < Ahead(pc[r])
      PROVE  Advances(r)
  BY <1>2, <1>5 DEF ProceedOrRollback
<1>6. ASSUME NEW r \in Requests, NEW err, err # NoError, StatementFails(r, err),
             pc[r] \in Statements
      PROVE  Advances(r)
  BY <1>2, <1>3, <1>6 DEF StatementFails, ProceedOrRollback
<1>7. ASSUME NEW r \in Requests, Arrive(r) PROVE Advances(r)
  BY <1>2, <1>7 DEF Arrive
<1>8. ASSUME NEW r \in Requests, ExistsByIdempotencyKey(r) PROVE Advances(r)
  BY <1>4, <1>8 DEF ExistsByIdempotencyKey
<1>9. ASSUME NEW r \in Requests, FindDebitAccount(r) PROVE Advances(r)
  BY <1>4, <1>9 DEF FindDebitAccount
<1>10. ASSUME NEW r \in Requests, FindCreditAccount(r) PROVE Advances(r)
  BY <1>4, <1>10 DEF FindCreditAccount
<1>11. ASSUME NEW r \in Requests, CheckFunds(r) PROVE Advances(r)
  BY <1>4, <1>11 DEF CheckFunds
<1>12. ASSUME NEW r \in Requests, Begin(r) PROVE Advances(r)
  BY <1>2, <1>3, <1>12 DEF Begin
<1>13. ASSUME NEW r \in Requests, BuildFails(r) PROVE Advances(r)
  BY <1>2, <1>13 DEF BuildFails, ProceedOrRollback
<1>14. ASSUME NEW r \in Requests, Build(r) PROVE Advances(r)
  BY <1>2, <1>14 DEF Build
<1>15. ASSUME NEW r \in Requests, SaveTransaction(r) PROVE Advances(r)
  BY <1>5, <1>6, <1>15 DEF SaveTransaction, NoError
<1>16. ASSUME NEW r \in Requests, UpdateDebit(r) \/ UpdateCredit(r) PROVE Advances(r)
  BY <1>5, <1>16 DEF UpdateDebit, UpdateCredit, UpdateBalance
<1>17. ASSUME NEW r \in Requests, SaveOutbox(r) PROVE Advances(r)
  BY <1>5, <1>6, <1>17 DEF SaveOutbox, NoError
<1>18. ASSUME NEW r \in Requests, Commit(r) \/ Rollback(r) PROVE Advances(r)
  BY <1>2, <1>3, <1>18 DEF Commit, Rollback, EndSession
<1>19. ASSUME NEW r \in Requests, DeadlockVictim(r) PROVE Advances(r)
  BY <1>6, <1>19, VictimWaits DEF DeadlockVictim, NoError
<1>20. ASSUME NEW r \in Requests, CancelRead(r) PROVE Advances(r)
  <2>1. pc' = [pc EXCEPT ![r] = "returned"] /\ UNCHANGED session
    BY <1>20, CancelledRead DEF CancelRead
  <2>2. pc[r] \in {"exists", "findDebit", "findCredit", "begin"}
    BY <1>20 DEF CancelRead
  <2> QED
    BY <1>2, <2>1, <2>2
<1>21. ASSUME NEW r \in Requests, CancelInTransaction(r) \/ CancelCommit(r)
       PROVE  Advances(r)
  BY <1>2, <1>3, <1>21 DEF CancelInTransaction, Abandon, CancelCommit
<1>22. ASSUME NEW r \in Requests, Resolve(r) PROVE Settles(r)
  BY <1>1, <1>22 DEF Resolve, ServerAborts, ServerCommits, EndSession, request, Settles,
     InDoubt
<1> QED
  BY <1>7, <1>8, <1>9, <1>10, <1>11, <1>12, <1>13, <1>14, <1>15, <1>16, <1>17, <1>18,
     <1>19, <1>20, <1>21, <1>22 DEF Next, Step, Handle, Fault, Quiescent

\* What is left of a request is a number, and follows from where it stands.
LEMMA LeftFollowsPc ==
  ASSUME TypeOK, TypeOK', NEW q \in Requests
  PROVE  /\ StepsLeft(q) \in Nat /\ StepsLeft(q)' \in Nat
         /\ Ahead(pc'[q]) < Ahead(pc[q]) => StepsLeft(q)' < StepsLeft(q)
         /\ pc'[q] = pc[q] /\ session'[q] = session[q] => StepsLeft(q)' = StepsLeft(q)
         /\ pc'[q] = pc[q] /\ InDoubt(q) /\ session'[q] = "none" =>
              StepsLeft(q)' < StepsLeft(q)
<1>1. Ahead(pc[q]) \in Nat /\ Ahead(pc'[q]) \in Nat
  BY AheadFalls DEF TypeOK
<1>2. PICK a, b, d, e : /\ a = Ahead(pc[q]) /\ b = Ahead(pc'[q])
                        /\ d = (IF InDoubt(q) THEN 1 ELSE 0)
                        /\ e = (IF InDoubt(q) THEN 1 ELSE 0)'
  OBVIOUS
<1>3. StepsLeft(q) = 2 * a + d /\ StepsLeft(q)' = 2 * b + e
  BY <1>2 DEF StepsLeft
<1>4. d \in {0, 1} /\ e \in {0, 1}
  BY <1>2
<1>5. session'[q] = session[q] => e = d
  BY <1>2 DEF InDoubt
<1>6. session'[q] = "none" /\ InDoubt(q) => e = 0 /\ d = 1
  BY <1>2 DEF InDoubt
<1> QED
  BY <1>1, <1>2, <1>3, <1>4, <1>5, <1>6

\* Each step, of a request, of the database or of the world, leaves some request with
\* fewer statements ahead and none with more, so that from any state on there is only a
\* number of steps that is known in advance: no path through the error handling
\* (create_transaction.go:55-211, uow.go:26-44) comes back to a statement.
THEOREM StepsCount == Spec => EveryStepCounts
<1>1. ASSUME TypeOK, TypeOK', SessionFollowsPc, [Next]_vars
      PROVE  \/ UNCHANGED vars
             \/ /\ \A r \in Requests : StepsLeft(r)' <= StepsLeft(r)
                /\ \E r \in Requests : StepsLeft(r)' < StepsLeft(r)
  <2>1. ASSUME NEW r \in Requests, Advances(r) \/ Settles(r)
        PROVE  /\ \A q \in Requests : StepsLeft(q)' <= StepsLeft(q)
               /\ StepsLeft(r)' < StepsLeft(r)
    <3>1. StepsLeft(r)' < StepsLeft(r)
      BY <1>1, <2>1, LeftFollowsPc DEF Advances, Settles
    <3>2. \A q \in Requests \ {r} : StepsLeft(q)' = StepsLeft(q)
      BY <1>1, <2>1, LeftFollowsPc DEF Advances, Settles
    <3> QED
      BY <1>1, <3>1, <3>2, LeftFollowsPc
  <2>2. CASE Crash
    <3>1. ASSUME NEW q \in Requests, pc[q] \notin Returned \cup {"idle"}
          PROVE  StepsLeft(q)' < StepsLeft(q)
      <4>1. pc'[q] = "crashed" /\ pc[q] \in {"begin"} \cup Reading \cup InTransaction
        BY <1>1, <2>2, <3>1 DEF Crash, TypeOK
      <4>2. Ahead(pc'[q]) < Ahead(pc[q])
        BY <4>1, AheadFalls DEF Returned
      <4> QED
        BY <1>1, <4>2, LeftFollowsPc
    <3>2. ASSUME NEW q \in Requests, pc[q] \in Returned \cup {"idle"}
          PROVE  StepsLeft(q)' <= StepsLeft(q)
      <4>1. pc'[q] = pc[q] /\ session'[q] = session[q]
        BY <1>1, <2>2, <3>2 DEF Crash, SessionFollowsPc, Returned
      <4> QED
        BY <1>1, <4>1, LeftFollowsPc
    <3> QED
      BY <1>1, <2>2, <3>1, <3>2, LeftFollowsPc DEF Crash
  <2> QED
    BY <1>1, <2>1, <2>2, StepsAdvance
<1>2. SoundInv => TypeOK /\ SessionFollowsPc
  BY DEF SoundInv, IndInv
<1> QED
  BY <1>1, <1>2, SoundnessInvariance, PTL DEF Spec, EveryStepCounts

----------------------------------------------------------------------------
\* Columns that are too short.

\* The tables as they were when the requests started.
Untouched == balance = Seed /\ transactions = {} /\ entries = {} /\ outbox = {}

NoEvents == \A r \in Requests : work[r].outbox = {}

\* Only an event that fits its columns is written (repository/outbox.go, outbox.pg.hcl).
LEMMA EventsNeedColumns ==
  ASSUME TypeOK, [Next]_vars, ~ EventFitsColumns, NoEvents
  PROVE  NoEvents'
<1>1. work \in [Requests -> Written] /\ \A q \in Requests : work[q].outbox = {}
  BY DEF TypeOK, NoEvents
<1>2. ASSUME NEW r \in Requests, work' = [work EXCEPT ![r] = NoWork] PROVE NoEvents'
  BY <1>1, <1>2 DEF NoEvents, NoWork
<1>3. ASSUME NEW r \in Requests, NEW T, NEW E,
             work' = [work EXCEPT ![r].transactions = T, ![r].entries = E]
      PROVE  NoEvents'
  BY <1>1, <1>3 DEF NoEvents, Written
<1>4. ASSUME NEW r \in Requests, NEW a, NEW m, work' = [work EXCEPT ![r].balances[a] = m]
      PROVE  NoEvents'
  BY <1>1, <1>4 DEF NoEvents, Written
<1>5. ASSUME NEW r \in Requests, SaveTransaction(r) PROVE NoEvents'
  BY <1>2, <1>3, <1>5 DEF SaveTransaction, StatementFails
<1>6. ASSUME NEW r \in Requests, UpdateDebit(r) \/ UpdateCredit(r) PROVE NoEvents'
  BY <1>4, <1>6 DEF UpdateDebit, UpdateCredit, UpdateBalance
<1>7. ASSUME NEW r \in Requests, SaveOutbox(r) PROVE NoEvents'
  BY <1>2, <1>7 DEF SaveOutbox, StatementFails
<1>8. ASSUME NEW r \in Requests,
             Commit(r) \/ Rollback(r) \/ Resolve(r) \/ DeadlockVictim(r)
      PROVE  NoEvents'
  BY <1>2, <1>8 DEF Commit, Rollback, Resolve, ServerAborts, ServerCommits, EndSession,
     DeadlockVictim, StatementFails
<1>9. CASE UNCHANGED work
  BY <1>9 DEF NoEvents
<1> QED
  BY <1>5, <1>6, <1>7, <1>8, <1>9
     DEF Next, Step, Handle, Fault, Arrive, ExistsByIdempotencyKey, FindDebitAccount,
         FindCreditAccount, CheckFunds, Begin, BuildFails, Build, CancelRead,
         CancelInTransaction, CancelCommit, Crash, Quiescent, vars

\* With columns that do not take the event, like those of db/outbox.pg.hcl:15-20, no
\* request posts anything, ever: whatever is asked, retried or left in doubt, the
\* tables stay as they are.
THEOREM ShortColumnsPostNothing ==
  ASSUME ~ EventFitsColumns
  PROVE  Spec => []Untouched
<1>1. Init => NoEvents /\ Untouched
  BY DEF Init, NoEvents, NoWork, Untouched
<1>2. IndInv /\ NoEvents /\ Untouched /\ [Next]_vars => NoEvents' /\ Untouched'
  <2> SUFFICES ASSUME IndInv, NoEvents, Untouched, [Next]_vars
               PROVE  NoEvents' /\ Untouched'
    OBVIOUS
  <2>1. ASSUME NEW r \in Requests, Publishes(r) PROVE FALSE
    BY <2>1 DEF Publishes, WrittenWhole, NoEvents
  <2>2. UNCHANGED tables
    BY <2>1, PostedStep DEF IndInv
  <2> QED
    BY <2>2, EventsNeedColumns DEF IndInv, Untouched, tables
<1> QED
  BY <1>1, <1>2, Invariance, PTL DEF Spec

----------------------------------------------------------------------------
\* Every key is posted once.

\* The requests whose outcome README.md:182 is about: between two accounts of their
\* currency, for an amount that is not negative, with columns that take the event.
AskedWell ==
  /\ EventFitsColumns
  /\ \A i \in Inputs : /\ {i.debit, i.credit} \subseteq Accounts
                       /\ i.amount >= 0
                       /\ \A a \in {i.debit, i.credit} : Seed[a].currency = i.currency

Refusals == {"ErrInsufficientBalance", "ErrAmountEqualZero", "deadlock_detected"}

\* Without faults they meet no error but a known key or a refusal ...
Outcomes == {NoError, "ErrTransactionExists", "unique_violation"} \cup Refusals

OutcomesExpected == \A r \in Requests : result[r] \in Outcomes

\* ... since every account is still in its first currency and can be read.
SeedCurrencyKept == \A a \in Accounts : balance[a].currency = Seed[a].currency

\* The inductive invariant: whatever bounds the amounts fit in hold.
RaceInv ==
  /\ SoundInv /\ SeedCurrencyKept /\ OutcomesExpected
  /\ \A s, m \in 0 .. IntMax : AmountsFit(s, m) => NoneWraps(s, m)

\* A request has amounts and accounts that NewMoney and FindByID accept.
LEMMA ReadsSucceed ==
  ASSUME AskedWell, TypeOK, BalancesNonNegative, SeedCurrencyKept, NEW r \in Requests
  PROVE  /\ Amount(r).err = NoError
         /\ Amount(r).val.amount = input[r].amount
         /\ Amount(r).val.currency = input[r].currency
         /\ \A a \in {input[r].debit, input[r].credit} :
              /\ a \in Accounts /\ FindByID(a).err = NoError
              /\ balance[a].currency = input[r].currency
<1>1. /\ input[r] \in Inputs /\ input[r].amount >= 0 /\ input[r].amount \in Int
      /\ \A a \in {input[r].debit, input[r].credit} :
           a \in Accounts /\ balance[a].currency = input[r].currency
  BY AmountsAreInt DEF AskedWell, TypeOK, SeedCurrencyKept
<1>2. \A a \in Accounts : /\ balance[a].currency \in Currencies
                          /\ balance[a].amount \in Int /\ balance[a].amount >= 0
  BY AmountsAreInt DEF TypeOK, Money, BalancesNonNegative
<1>3. \A n \in Int : \A c \in Currencies : n >= 0 => NewMoney(n, c).err = NoError
  BY DEF NewMoney, Returns, NoError
<1>4. \A a \in {input[r].debit, input[r].credit} : FindByID(a).err = NoError
  BY <1>1, <1>2, <1>3 DEF FindByID
<1>5. Amount(r).err = NoError
  BY <1>1, <1>2, <1>3 DEF Amount, AmountOf
<1> QED
  BY <1>1, <1>4, <1>5, AmountAsked

\* The local calls of Build refuse an amount of zero and nothing else.
LEMMA BuildRefusesZero ==
  ASSUME NEW r \in Requests, Amount(r).err = NoError,
         input[r].amount \in Int, input[r].amount >= 0,
         debit[r].currency = input[r].currency, credit[r].currency = input[r].currency
  PROVE  \A i \in DOMAIN BuildErrors(r) :
            BuildErrors(r)[i] \in {NoError, "ErrAmountEqualZero"}
<1>1. Amount(r).val.amount = input[r].amount /\ Amount(r).val.currency = input[r].currency
  BY AmountAsked
<1>2. \A d \in Directions : NewEntryError(d, Amount(r).val) \in {NoError, "ErrAmountEqualZero"}
  BY <1>1 DEF NewEntryError, IsNegative
<1>3. DebitEntry(r).err \in {NoError, "ErrAmountEqualZero"}
  BY <1>2 DEF DebitEntry, DebitEntryOf, NewEntry, Amount, Directions
<1>4. CreditEntry(r).err \in {NoError, "ErrAmountEqualZero"}
  BY <1>2 DEF CreditEntry, CreditEntryOf, NewEntry, Amount, Directions
<1>5. /\ Subtract(debit[r], Amount(r).val).err = NoError
      /\ Add(credit[r], Amount(r).val).err = NoError
  BY <1>1 DEF Subtract, Add, Returns
<1>6. PICK t, d, c : /\ t = NewTransaction(r, Key(r))
                     /\ d = DebitEntry(r).val /\ c = CreditEntry(r).val
  OBVIOUS
<1>7. /\ d.direction # c.direction /\ d.amount = c.amount
      /\ t.entries = << >> /\ t.status = "PENDING"
  BY <1>6 DEF DebitEntry, CreditEntry, DebitEntryOf, CreditEntryOf, NewEntry, NewTransaction
<1>8. WithDebit(r).err = NoError /\ WithDebit(r).val = [t EXCEPT !.entries = <<d>>]
  <2>1. AddEntryError(t, d) = NoError
    BY <1>7 DEF AddEntryError
  <2>2. Append(<< >>, d) = <<d>>
    OBVIOUS
  <2> QED
    BY <1>6, <1>7, <2>1, <2>2 DEF WithDebit, AddEntry, NewTransaction
<1>9. WithDebit(r).val.entries = <<d>> /\ WithDebit(r).val.status = "PENDING"
  BY <1>6, <1>7, <1>8 DEF NewTransaction
<1>10. WithBoth(r).err = NoError
  <2>1. Len(<<d>>) = 1 /\ <<d>>[1] = d /\ Equal(d.amount, c.amount)
    BY <1>7 DEF Equal
  <2>2. AddEntryError(WithDebit(r).val, c) = NoError
    BY <1>7, <1>9, <2>1 DEF AddEntryError
  <2> QED
    BY <1>6, <2>2 DEF WithBoth, AddEntry
<1>11. WithBoth(r).val.status = "PENDING"
  <2>1. WithDebit(r).val = [id |-> t.id, key |-> t.key, status |-> "PENDING",
                            entries |-> <<d>>]
    BY <1>6, <1>8 DEF NewTransaction
  <2> QED
    BY <2>1 DEF WithBoth, AddEntry
<1>12. Completed(r).err = NoError
  BY <1>11 DEF Completed, Complete, Transition, CanTransition, Returns
<1> QED
  BY <1>3, <1>4, <1>5, <1>8, <1>10, <1>12 DEF BuildErrors

\* What the steps of a request give it for a result.
LEMMA OutcomeStep ==
  ASSUME AskedWell, SoundInv, BalancesNonNegative, SeedCurrencyKept, OutcomesExpected,
         [NextReliable]_vars
  PROVE  OutcomesExpected'
<1>1. TypeOK /\ ChecksHold /\ result \in [Requests -> Errors]
  BY DEF SoundInv, IndInv, TypeOK
<1>2. ASSUME NEW r \in Requests, NEW e \in Outcomes, result' = [result EXCEPT ![r] = e]
      PROVE  OutcomesExpected'
  BY <1>1, <1>2 DEF OutcomesExpected
<1>3. ASSUME UNCHANGED result PROVE OutcomesExpected'
  BY <1>3 DEF OutcomesExpected
<1>4. /\ NoError \in Outcomes /\ "ErrTransactionExists" \in Outcomes
      /\ "unique_violation" \in Outcomes /\ "ErrInsufficientBalance" \in Outcomes
      /\ "ErrAmountEqualZero" \in Outcomes /\ "deadlock_detected" \in Outcomes
  BY DEF Outcomes, Refusals
<1>5. ASSUME NEW r \in Requests,
             Arrive(r) \/ Begin(r) \/ Build(r) \/ Commit(r) \/ Rollback(r)
      PROVE  OutcomesExpected'
  BY <1>3, <1>5 DEF Arrive, Begin, Build, Commit, Rollback
<1>6. ASSUME NEW r \in Requests, ExistsByIdempotencyKey(r) PROVE OutcomesExpected'
  BY <1>2, <1>4, <1>6 DEF ExistsByIdempotencyKey, ProceedOrReturn
<1>7. ASSUME NEW r \in Requests, FindDebitAccount(r) PROVE OutcomesExpected'
  <2>1. FindByID(input[r].debit).err = NoError
    BY <1>1, ReadsSucceed
  <2> QED
    BY <1>2, <1>4, <1>7, <2>1 DEF FindDebitAccount, ProceedOrReturn
<1>8. ASSUME NEW r \in Requests, FindCreditAccount(r) PROVE OutcomesExpected'
  <2>1. FindByID(input[r].credit).err = NoError
    BY <1>1, ReadsSucceed
  <2> QED
    BY <1>2, <1>4, <1>8, <2>1 DEF FindCreditAccount, ProceedOrReturn
<1>9. ASSUME NEW r \in Requests, CheckFunds(r) PROVE OutcomesExpected'
  <2>1. FundsError(r) \in Outcomes
    <3>1. Amount(r).err = NoError
      BY <1>1, ReadsSucceed
    <3> QED
      BY <1>4, <3>1 DEF FundsError
  <2> QED
    BY <1>2, <1>9, <2>1 DEF CheckFunds, ProceedOrReturn
<1>10. ASSUME NEW r \in Requests, BuildFails(r) PROVE OutcomesExpected'
  <2>1. /\ Amount(r).err = NoError /\ input[r].amount \in Int /\ input[r].amount >= 0
        /\ balance[input[r].credit].currency = input[r].currency
    BY <1>1, ReadsSucceed, AmountsAreInt DEF AskedWell, TypeOK
  <2>2. /\ debit[r].currency = input[r].currency
        /\ credit[r].currency = balance[input[r].credit].currency
    BY <1>1, <1>10 DEF BuildFails, ChecksHold, OfAccount, AfterCredit, AfterFunds
  <2>3. \A i \in DOMAIN BuildErrors(r) : BuildErrors(r)[i] \in Outcomes
    BY <1>4, <2>1, <2>2, BuildRefusesZero
  <2> QED
    BY <1>2, <1>10, <2>3 DEF BuildFails, ProceedOrRollback
<1>11. ASSUME NEW r \in Requests, SaveTransaction(r) PROVE OutcomesExpected'
  BY <1>2, <1>4, <1>11 DEF SaveTransaction, StatementFails, ProceedOrRollback
<1>12. ASSUME NEW r \in Requests, UpdateDebit(r) \/ UpdateCredit(r) PROVE OutcomesExpected'
  BY <1>2, <1>4, <1>12 DEF UpdateDebit, UpdateCredit, UpdateBalance, ProceedOrRollback
<1>13. ASSUME NEW r \in Requests, SaveOutbox(r) PROVE OutcomesExpected'
  BY <1>2, <1>4, <1>13 DEF SaveOutbox, AskedWell, ProceedOrRollback
<1>14. ASSUME NEW r \in Requests, DeadlockVictim(r) PROVE OutcomesExpected'
  BY <1>2, <1>4, <1>14 DEF DeadlockVictim, StatementFails, ProceedOrRollback
<1>15. CASE UNCHANGED vars
  BY <1>3, <1>15 DEF vars, request
<1> QED
  BY <1>5, <1>6, <1>7, <1>8, <1>9, <1>10, <1>11, <1>12, <1>13, <1>14, <1>15
     DEF NextReliable, Step, Handle, Quiescent

\* Once all have returned, the postings of a key are as ExactlyOncePerKey says.
LEMMA OnceWhenAllReturned ==
  ASSUME SoundInv, OutcomesExpected
  PROVE  ExactlyOncePerKey
<1>1. /\ TypeOK /\ OnePostingPerKey /\ WholePostings /\ ResultTellsOutcome
  BY DEF SoundInv, IndInv
<1>2. ASSUME \A r \in Requests : pc[r] = "returned",
             NEW r \in Requests, NEW q \in Requests, Key(q) = Key(r),
             result[q] \notin Refusals
      PROVE  Cardinality({t \in transactions : t.key = Key(r)}) = 1
  <2>1. \E p \in Posted : Key(p) = Key(r)
    <3>1. result[q] \in {NoError, "ErrTransactionExists", "unique_violation"}
      BY <1>2 DEF OutcomesExpected, Outcomes
    <3> QED
      BY <1>1, <1>2, <3>1 DEF ResultTellsOutcome
  <2>2. PICK p \in Posted : Key(p) = Key(r)
    BY <2>1
  <2>3. PostingRow(p) \in transactions /\ PostingRow(p).key = Key(r)
    BY <1>1, <2>2, RowOfPosting DEF WholePostings
  <2>4. {t \in transactions : t.key = Key(r)} = {PostingRow(p)}
    BY <1>1, <2>3 DEF OnePostingPerKey
  <2> QED
    BY <2>4, FS_Singleton
<1> QED
  BY <1>2 DEF ExactlyOncePerKey, Refusals

\* The currency of every account is the one it started with.
LEMMA SeedCurrencyStep ==
  ASSUME SoundInv, SeedCurrencyKept, [Next]_vars
  PROVE  SeedCurrencyKept'
  BY CurrencyStep DEF SeedCurrencyKept

\* In a race without faults every request meets the errors that Outcomes lists and no
\* other, and no amount or balance leaves its bounds.
THEOREM RaceInvariance ==
  ASSUME AskedWell, \E s, m \in 0 .. IntMax : AmountsFit(s, m)
  PROVE  SpecReliable => []RaceInv
<1>1. Init => RaceInv
  <2>1. Init => SeedCurrencyKept /\ OutcomesExpected
    BY DEF Init, SeedCurrencyKept, OutcomesExpected, Outcomes
  <2> QED
    BY <2>1, InitSound, NoneWrapsInit DEF RaceInv
<1>2. RaceInv /\ [NextReliable]_vars => RaceInv'
  <2> SUFFICES ASSUME RaceInv, [NextReliable]_vars
               PROVE  RaceInv'
    OBVIOUS
  <2>1. [Next]_vars
    BY DEF NextReliable, Next
  <2>2. SoundInv' /\ SeedCurrencyKept'
    BY <2>1, SoundStep, SeedCurrencyStep DEF RaceInv
  <2>3. \A s, m \in 0 .. IntMax : AmountsFit(s, m) => NoneWraps(s, m)'
    BY <2>1, NoneWrapsStep DEF RaceInv
  <2>4. BalancesNonNegative
    BY NoneWrapsIsEnough DEF RaceInv
  <2>5. OutcomesExpected'
    BY <2>4, OutcomeStep DEF RaceInv
  <2>6. \A s, m : AmountsFit(s, m)' <=> AmountsFit(s, m)
    BY DEF AmountsFit
  <2> QED
    BY <2>2, <2>3, <2>5, <2>6 DEF RaceInv
<1> QED
  BY <1>1, <1>2, PTL DEF SpecReliable

\* README.md:182: a key that is asked for any number of times, by requests that race
\* past ExistsByIdempotencyKey and wait for each other's rows, is posted once when all
\* are back, or was refused to every one of them for a reason of its own.
THEOREM KeysArePostedOnce ==
  ASSUME AskedWell, \E s, m \in 0 .. IntMax : AmountsFit(s, m)
  PROVE  SpecReliable => []ExactlyOncePerKey
<1>1. RaceInv => ExactlyOncePerKey
  BY OnceWhenAllReturned DEF RaceInv
<1> QED
  BY <1>1, RaceInvariance, PTL

=============================================================================
