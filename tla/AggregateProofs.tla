--------------------------- MODULE AggregateProofs ---------------------------
(***************************************************************************)
(* What the aggregate Transaction guarantees by itself, for any amounts    *)
(* and currencies and any sequence of calls of its methods.                *)
(***************************************************************************)
EXTENDS TransactionAggregate, TLAPS

Entries == [id : Nat, key : {"k"}, direction : Directions, amount : Money,
            account : {"a"}, transaction : {"t"}]

Transactions == [id : {"t"}, key : {"k"}, status : Statuses, entries : Seq(Entries)]

\* What NewEntry has accepted.
EntriesArePositive == \A i \in DOMAIN t.entries : t.entries[i].amount.amount > 0

SidesAgree ==
  Len(t.entries) = 2 => /\ t.entries[1].direction # t.entries[2].direction
                        /\ t.entries[1].amount = t.entries[2].amount

\* The inductive invariant.
IndInv ==
  /\ t \in Transactions
  /\ Len(t.entries) <= 2
  /\ EntriesArePositive
  /\ SidesAgree

\* NewEntry lets a positive amount through, and nothing else (entry.go:47-57).
LEMMA Accepted ==
  ASSUME NEW direction, NEW amount \in Money, NewEntryError(direction, amount) = NoError
  PROVE  direction \in Directions /\ amount.amount > 0
<1>1. amount.amount \in Int
  BY IntMaxAssumption DEF Money, Int64
<1>2. direction \in Directions
  BY DEF NewEntryError, NoError
<1>3. ~ IsZero(amount) /\ ~ IsNegative(amount)
  BY DEF NewEntryError, NoError
<1>4. amount.amount # 0 /\ ~ (amount.amount < 0)
  BY <1>3 DEF IsZero, IsNegative
<1> QED
  BY <1>1, <1>2, <1>4

\* Two amounts that are Equal are the same Money (money.go:80-82).
LEMMA EqualAmounts ==
  ASSUME NEW m \in Money, NEW other \in Money, Equal(m, other)
  PROVE  m = other
BY DEF Money, Equal

\* A second entry has the other direction and the same amount.
LEMMA AddStep ==
  ASSUME IndInv, NEW direction \in Directions, NEW amount \in Money,
         AddNewEntry(direction, amount)
  PROVE  IndInv' /\ t'.status = t.status
<1> DEFINE n == Len(t.entries)
<1>1. PICK e : e = NewEntry(n, "k", direction, amount, "a", "t").val
  OBVIOUS
<1>2. t \in Transactions /\ t.entries \in Seq(Entries) /\ n \in 0 .. 2
  <2>1. t \in Transactions /\ t.entries \in Seq(Entries)
    <3>1. t \in Transactions
      BY DEF IndInv
    <3> QED
      BY <3>1 DEF Transactions
  <2>2. n \in Nat
    BY <2>1
  <2>3. n <= 2
    BY DEF IndInv
  <2> HIDE DEF n
  <2>4. n \in 0 .. 2
    BY <2>2, <2>3
  <2> QED
    BY <2>1, <2>4
<1>3. /\ NewEntryError(direction, amount) = NoError
      /\ AddEntryError(t, e) = NoError
      /\ t' = [t EXCEPT !.entries = Append(@, e)]
  BY <1>1 DEF AddNewEntry, NewEntry, AddEntry
<1>4. /\ e \in Entries /\ e.direction = direction /\ e.amount = amount
      /\ amount.amount > 0
  BY <1>1, <1>2, <1>3, Accepted DEF NewEntry, Entries
<1>5. /\ ~ (n >= 2)
      /\ t.entries # << >> => /\ t.entries[1].direction # e.direction
                              /\ Equal(t.entries[1].amount, e.amount)
  BY <1>3 DEF AddEntryError, NoError
<1>6. t.entries \in Seq(Entries) /\ n \in {0, 1}
  <2>1. n \in 0 .. 2 /\ ~ (n >= 2)
    BY <1>2, <1>5
  <2> HIDE DEF n
  <2> QED
    BY <1>2, <2>1
<1>7. /\ t' \in Transactions /\ t'.status = t.status
      /\ t'.entries = Append(t.entries, e)
  BY <1>2, <1>3, <1>4, <1>6, SMTT(30) DEF Transactions
<1>8. /\ Len(t'.entries) = n + 1
      /\ t'.entries[n + 1] = e
      /\ \A i \in 1 .. n : t'.entries[i] = t.entries[i]
  BY <1>4, <1>6, <1>7
<1>9. Len(t.entries)' <= 2
  BY <1>6, <1>8
<1>10. EntriesArePositive'
  <2>1. \A i \in 1 .. n : t.entries[i].amount.amount > 0
    BY <1>6 DEF IndInv, EntriesArePositive
  <2>2. DOMAIN t'.entries = 1 .. (n + 1)
    BY <1>4, <1>6, <1>7, <1>8
  <2>3. ASSUME NEW i \in 1 .. (n + 1) PROVE t'.entries[i].amount.amount > 0
    <3>1. CASE i \in 1 .. n
      BY <1>8, <2>1, <3>1
    <3>2. CASE i = n + 1
      BY <1>4, <1>8, <3>2
    <3> QED
      BY <1>6, <3>1, <3>2
  <2> QED
    BY <2>2, <2>3 DEF EntriesArePositive
<1>11. SidesAgree'
  <2>1. SUFFICES ASSUME n = 1
                 PROVE  /\ t'.entries[1].direction # t'.entries[2].direction
                        /\ t'.entries[1].amount = t'.entries[2].amount
    BY <1>6, <1>8 DEF SidesAgree
  <2>2. t.entries # << >> /\ t.entries[1] \in Entries
    BY <1>6, <2>1
  <2>3. t'.entries[1] = t.entries[1] /\ t'.entries[2] = e
    BY <1>8, <2>1
  <2>4. t.entries[1].amount = e.amount
    BY <1>4, <1>5, <2>2, EqualAmounts DEF Entries
  <2> QED
    BY <1>5, <2>2, <2>3, <2>4
<1> QED
  BY <1>7, <1>9, <1>10, <1>11 DEF IndInv

\* Complete and Fail leave the entries alone, and only a PENDING transaction takes them.
LEMMA OutcomeStep ==
  ASSUME IndInv, CompleteIt \/ FailIt
  PROVE  IndInv' /\ t.status = "PENDING"
<1>1. PICK status \in {"COMPLETED", "FAILED"} :
        Transition(t, status).err = NoError /\ t' = Transition(t, status).val
  BY DEF CompleteIt, FailIt, Complete, Fail
<1>2. CanTransition(t.status, status)
  BY <1>1 DEF Transition, NoError
<1>3. t' = [t EXCEPT !.status = status]
  BY <1>1, <1>2 DEF Transition, Returns
<1>4. t' \in Transactions /\ t'.entries = t.entries
  BY <1>3 DEF IndInv, Transactions, Statuses
<1> QED
  BY <1>2, <1>4 DEF CanTransition, IndInv, EntriesArePositive, SidesAgree

\* Every state satisfies the invariant.
THEOREM Invariance == Spec => []IndInv
<1>1. Init => IndInv
  BY DEF Init, NewTransaction, IndInv, Transactions, Statuses, EntriesArePositive, SidesAgree
<1>2. IndInv /\ [Next]_t => IndInv'
  <2> SUFFICES ASSUME IndInv, [Next]_t PROVE IndInv'
    OBVIOUS
  <2>1. ASSUME NEW direction \in Directions, NEW amount \in Amounts, NEW c \in Monies,
               AddNewEntry(direction, [amount |-> amount, currency |-> c])
        PROVE  IndInv'
    <3>1. [amount |-> amount, currency |-> c] \in Money
      BY AmountsAssumption DEF Money
    <3> QED
      BY <2>1, <3>1, AddStep
  <2>2. CASE CompleteIt \/ FailIt
    BY <2>2, OutcomeStep
  <2>3. CASE UNCHANGED t
    BY <2>3 DEF IndInv, EntriesArePositive, SidesAgree
  <2> QED
    BY <2>1, <2>2, <2>3 DEF Next
<1> QED
  BY <1>1, <1>2, PTL DEF Spec

\* Two entries are the two sides of one positive amount, whatever a caller adds and in
\* whatever order (transaction.go:53-72, entry.go:47-57).
THEOREM EntriesBalance == Spec => []TwoSidesOfOneAmount
<1>1. IndInv => TwoSidesOfOneAmount
  <2> SUFFICES ASSUME IndInv PROVE TwoSidesOfOneAmount
    OBVIOUS
  <2>1. ASSUME Len(t.entries) = 2
        PROVE  {t.entries[i].direction : i \in 1..2} = Directions
    <3>1. t.entries[1].direction # t.entries[2].direction
      BY <2>1 DEF IndInv, SidesAgree
    <3>2. t.entries \in Seq(Entries)
      BY DEF IndInv, Transactions
    <3>3. t.entries[1] \in Entries /\ t.entries[2] \in Entries
      BY <2>1, <3>2
    <3>4. t.entries[1].direction \in Directions /\ t.entries[2].direction \in Directions
      BY <3>3 DEF Entries
    <3> QED
      BY <3>1, <3>4 DEF Directions
  <2> QED
    BY <2>1 DEF IndInv, EntriesArePositive, SidesAgree, TwoSidesOfOneAmount
<1> QED
  BY <1>1, Invariance, PTL

\* A status once left is never come back to (types.go, validStateMachine).
THEOREM OutcomeStands == Spec => OutcomeIsFinal
<1>1. IndInv /\ [Next]_t => [t.status # "PENDING" => t'.status = t.status]_t
  <2> SUFFICES ASSUME IndInv, Next, t.status # "PENDING" PROVE t'.status = t.status
    OBVIOUS
  <2>1. PICK direction \in Directions, amount \in Amounts, c \in Monies :
          AddNewEntry(direction, [amount |-> amount, currency |-> c])
    BY OutcomeStep DEF Next
  <2>2. [amount |-> amount, currency |-> c] \in Money
    BY AmountsAssumption DEF Money
  <2> QED
    BY <2>1, <2>2, AddStep
<1> QED
  BY <1>1, Invariance, PTL DEF Spec, OutcomeIsFinal

============================================================================
