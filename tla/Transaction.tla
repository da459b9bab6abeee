---------------------------- MODULE Transaction ----------------------------
(***************************************************************************)
(* The aggregate of internal/domain/transaction: a double entry, built by  *)
(* NewTransaction, at most two AddEntry calls and Complete or Fail.        *)
(* Timestamps are left out.                                                *)
(***************************************************************************)
EXTENDS Money, Sequences

Directions == {"DEBIT", "CREDIT"}

Statuses == {"PENDING", "COMPLETED", "FAILED"}

\* Faulty variant: a completed transaction may still fail.
CanFailLate(from, to) == from # "FAILED" /\ to \in {"COMPLETED", "FAILED"} \ {from}

\* validStateMachine.CanTransition
CanTransition(from, to) == from = "PENDING" /\ to \in {"COMPLETED", "FAILED"}

\* Faulty variant: an entry of zero is let through.
NewEntryErrorZeroIsFine(direction, amount) ==
  IF direction \notin Directions THEN "ErrInvalidDirection"
  ELSE IF IsNegative(amount) THEN "ErrNegativeAmountValue"
  ELSE NoError

NewEntryError(direction, amount) ==
  IF direction \notin Directions THEN "ErrInvalidDirection"
  ELSE IF IsZero(amount) THEN "ErrAmountEqualZero"
  ELSE IF IsNegative(amount) THEN "ErrNegativeAmountValue"
  ELSE NoError

NewEntry(id, key, direction, amount, account, transaction) ==
  [err |-> NewEntryError(direction, amount),
   val |-> [id |-> id, key |-> key, direction |-> direction, amount |-> amount,
            account |-> account, transaction |-> transaction]]

NewTransaction(id, key) ==
  [id |-> id, key |-> key, status |-> "PENDING", entries |-> << >>]

----------------------------------------------------------------------------

\* Faulty variant: the amounts of the two sides are not compared.
AddEntryErrorUnequal(t, e) ==
  IF Len(t.entries) >= 2 THEN "ErrInvalidMaxEntries"
  ELSE IF t.entries # << >> /\ t.entries[1].direction = e.direction
         THEN "ErrDuplicateEntryDirection"
  ELSE NoError

AddEntryError(t, e) ==
  IF Len(t.entries) >= 2 THEN "ErrInvalidMaxEntries"
  ELSE IF t.entries # << >> /\ t.entries[1].direction = e.direction
         THEN "ErrDuplicateEntryDirection"
  ELSE IF t.entries # << >> /\ ~ Equal(t.entries[1].amount, e.amount)
         THEN "ErrInvalidDifferentAmount"
  ELSE NoError

\* AddEntry looks at the entries only: the status is not consulted.
AddEntry(t, e) ==
  [err |-> AddEntryError(t, e),
   val |-> IF AddEntryError(t, e) = NoError
             THEN [t EXCEPT !.entries = Append(@, e)] ELSE t]

Transition(t, status) ==
  IF CanTransition(t.status, status)
    THEN Returns([t EXCEPT !.status = status])
    ELSE [err |-> "ErrInvalidTransactionStatus", val |-> t]

\* Complete and Fail look at the status only: the entries are not counted.
Complete(t) == Transition(t, "COMPLETED")

Fail(t) == Transition(t, "FAILED")

============================================================================
