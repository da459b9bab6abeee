------------------------ MODULE TransactionAggregate ------------------------
(***************************************************************************)
(* One Transaction value under every sequence of calls of its exported     *)
(* methods: what the aggregate guarantees by itself, whoever calls it.     *)
(***************************************************************************)
EXTENDS Transaction

CONSTANTS Amounts,  \* int64 amounts a caller may try
          Monies    \* the currencies of those amounts

ASSUME AmountsAssumption == Amounts \subseteq Int64 /\ Monies \subseteq Currencies

VARIABLE t

Init == t = NewTransaction("t", "k")

\* A caller builds an entry with NewEntry and, if it is valid, adds it.
AddNewEntry(direction, amount) ==
  LET e == NewEntry(Len(t.entries), "k", direction, amount, "a", "t")
  IN  /\ e.err = NoError
      /\ AddEntry(t, e.val).err = NoError
      /\ t' = AddEntry(t, e.val).val

CompleteIt == /\ Complete(t).err = NoError
              /\ t' = Complete(t).val

FailIt == /\ Fail(t).err = NoError
          /\ t' = Fail(t).val

Next == \/ \E direction \in Directions, amount \in Amounts, c \in Monies :
             AddNewEntry(direction, [amount |-> amount, currency |-> c])
        \/ CompleteIt
        \/ FailIt

Spec == Init /\ [][Next]_t

----------------------------------------------------------------------------

\* Whatever a caller adds and in whatever order, and before or after the
\* transaction is completed, two entries are always the two sides of one
\* positive amount: AddEntry and NewEntry together (transaction.go, entry.go)
\* leave no way to a lopsided pair.
TwoSidesOfOneAmount ==
  /\ Len(t.entries) <= 2
  /\ \A i \in DOMAIN t.entries : t.entries[i].amount.amount > 0
  /\ Len(t.entries) = 2 =>
       /\ {t.entries[i].direction : i \in 1..2} = Directions
       /\ t.entries[1].amount = t.entries[2].amount

\* A status once left is never come back to: a completed transaction cannot
\* fail later, nor a failed one complete (types.go, validStateMachine).
OutcomeIsFinal == [][t.status # "PENDING" => t'.status = t.status]_t

============================================================================
