------------------------------ MODULE MCLedger ------------------------------
(* Instances of the ledger for TLC, with the invariants of its proofs. *)
EXTENDS BooksProofs, TLC

CONSTANTS a1, a2, a3, a4, a5

Of(n, currency) == [amount |-> n, currency |-> currency]

Move(key, from, to, n) ==
  [key |-> key, debit |-> from, credit |-> to, amount |-> n, currency |-> "BRL"]

TwoAccounts == {a1, a2}

ThreeAccounts == {a1, a2, a3}

SeedTwo == a1 :> Of(3, "BRL") @@ a2 :> Of(2, "BRL")

\* Opposite transfers (deadlock), one key asked for twice (race), and an amount
\* that NewEntry refuses inside the transaction.
Contended == {Move("k1", a1, a2, 2), Move("k2", a2, a1, 1), Move("k2", a1, a2, 0)}

SeedRing == SeedTwo @@ a3 :> Of(1, "BRL")

\* ... a ring of three transfers, one key for two transfers, and more than the
\* account has until another is posted.
ContendedRing ==
  Contended \cup {Move("k2", a2, a3, 1), Move("k3", a3, a1, 1), Move("k3", a2, a1, 3)}

FourAccounts == {a1, a2, a3, a4}

\* a3 and a4 are in dollars, a5 does not exist.
SeedFour == SeedTwo @@ a3 :> Of(1, "USD") @@ a4 :> Of(1, "USD")

\* Transfers that follow each other, one that shares no account with them, and refusals:
\* no such account, an amount of zero, another currency than the account's.
SomeApart ==
  {Move("k1", a1, a2, 2), Move("k2", a2, a1, 1),
   [Move("k3", a3, a4, 1) EXCEPT !.currency = "USD"],
   Move("k1", a1, a5, 1), Move("k1", a1, a2, 0), Move("k1", a1, a3, 1)}

\* Two draw on one account.
Concurrent == {Move("k1", a1, a2, 2), Move("k3", a1, a2, 1)}

\* The debit account is the credit account.
SelfTransfer == {Move("k1", a1, a1, 1)}

One == {Move("k1", a1, a2, 2)}

\* Three requests for two connections.  A transfer with its retry and one the other
\* way: one waits for a connection while the others wait for the key, or for each
\* other's rows.  Or two that NewEntry refuses before a third gets its connection.
Against(one, others) == [r \in Requests |-> IF r = CHOOSE q \in Requests : TRUE THEN one ELSE others]

ThreeForTwo ==
  {Against(Move("k2", a2, a1, 1), Move("k1", a1, a2, 2)),
   Against(Move("k1", a1, a2, 2), Move("k2", a1, a2, 0))}

InitThreeForTwo == Init /\ input \in ThreeForTwo

FairSpecThreeForTwo == InitThreeForTwo /\ [][Next]_vars /\ Fairness

SymmetricRequests == Permutations(Requests)

============================================================================
