---------------------------- MODULE LedgerBooks ----------------------------
(***************************************************************************)
(* What the ledger's tables say to a reader: the queries of                *)
(* TransactionRepository, and the accounts' balances against the entries.  *)
(***************************************************************************)
EXTENDS Ledger, Functions

\* model.ToTransactionDomain; the queries give the entries in no order.
ToTransactionDomain(row, rows) ==
  [id |-> row.id, key |-> row.key, status |-> row.status, entries |-> rows]

NotFound == [err |-> "ErrTransactionNotFound", val |-> {}]

\* model.ToEntryDomain validates the stored amount again with NewMoney.
ToEntryDomain(e) == [e EXCEPT !.amount = NewMoney(@.amount, @.currency).val]

Refused(rows) == {e \in rows : NewMoney(e.amount.amount, e.amount.currency).err # NoError}

Found(row, rows) ==
  IF Refused(rows) = {}
    THEN Returns(ToTransactionDomain(row, {ToEntryDomain(e) : e \in rows}))
    ELSE [err |-> "ErrNegativeAmount", val |-> {}]

FindByTransactionID(id) ==
  IF \E t \in transactions : t.id = id
    THEN Found(CHOOSE t \in transactions : t.id = id,
               {e \in entries : e.transaction = id})
    ELSE NotFound

\* A JOIN: a transaction without entries would not be found.
FindByIdempotencyKey(key) ==
  LET rows == {row \in transactions \X entries :
                 row[1].key = key /\ row[2].transaction = row[1].id}
  IN  IF rows = {} THEN NotFound
      ELSE Found((CHOOSE row \in rows : TRUE)[1], {row[2] : row \in rows})

\* What each entry does to the balance of its account.
Movement == [e \in entries |-> IF e.direction = "CREDIT" THEN e.amount.amount
                               ELSE - e.amount.amount]

EntriesOf(a) == {e \in entries : e.account = a}

----------------------------------------------------------------------------

\* The three ways to look a transaction up agree at every moment, and give back
\* the aggregate that was saved: ExistsByIdempotencyKey, FindByIdempotencyKey,
\* which joins the entries, and FindByID, which does not (transaction.go:71-226).
QueriesAgree ==
  \A r \in Requests :
    /\ KeyIsKnown(Key(r)) <=> FindByIdempotencyKey(Key(r)).err = NoError
    /\ r \in Posted =>
         /\ FindByTransactionID(r) = FindByIdempotencyKey(Key(r))
         /\ FindByTransactionID(r) =
              Returns(ToTransactionDomain(PostingRow(r), EntryRows(r)))

\* README.md:12: the balance of an account is what its entries add up to.
BalancesMatchEntries ==
  \A a \in Accounts :
    balance[a].amount = Seed[a].amount + SumFunctionOnSet(Movement, EntriesOf(a))

\* README.md:11: debit + credit = 0, over all entries, whether or not the balances
\* agree with them.
EntriesCancelOut == SumFunctionOnSet(Movement, entries) = 0

Amounts(balances) == [a \in Accounts |-> balances[a].amount]

Total(balances) == SumFunctionOnSet(Amounts(balances), Accounts)

\* README.md:11: debit + credit = 0, so a posting leaves the total as it was.
PostingsConserveMoney == Total(balance) = Total(Seed)

AsBook == INSTANCE Book WITH amounts <- Amounts(balance), Opening <- Amounts(Seed)

\* README.md:11-12: to a reader of the accounts a request is one transfer, of money that
\* the debit account has, or nothing; no step between its reads and its commit shows.
ImplementsBook == AsBook!Spec

============================================================================
