----------------------------- MODULE BooksProofs -----------------------------
(***************************************************************************)
(* What the ledger's tables say to a reader: the queries agree with each   *)
(* other, and, as long as no account is in two transfers at a time, every  *)
(* balance is what its entries add up to, no money appears or disappears,  *)
(* and each request is one transfer of an account book, faults included.   *)
(*                                                                         *)
(* The sums are folds, that is, recursive functions.  What they compute is *)
(* proved by looking at a smallest set for which it would be otherwise.    *)
(***************************************************************************)
EXTENDS LedgerBooks, SoundnessProofs

----------------------------------------------------------------------------
\* Sums over finite sets.

\* The element that a fold takes first.
FirstOf(S) == CHOOSE x \in S : TRUE

\* g is the sum of f over every subset of S, as the fold computes it.
Sums(f, S, g) ==
  g = [T \in SUBSET S |-> IF T = {} THEN 0 ELSE f[FirstOf(T)] + g[T \ {FirstOf(T)}]]

\* SumFunctionOnSet is the fold that Sums describes, at the whole set.
LEMMA SumIsFold ==
  ASSUME NEW f, NEW S
  PROVE  SumFunctionOnSet(f, S) = (CHOOSE g : Sums(f, S, g))[S]
BY DEF SumFunctionOnSet, FoldFunctionOnSet, MapThenFoldSet, Sums, FirstOf

LEMMA FirstOfIsIn ==
  ASSUME NEW S, S # {}
  PROVE  FirstOf(S) \in S
BY DEF FirstOf

\* Two folds of the same summands agree where both are defined.
LEMMA SumsAgree ==
  ASSUME NEW f, NEW S, NEW T, NEW g, NEW h, Sums(f, S, g), Sums(f, T, h),
         NEW U, U \subseteq S, U \subseteq T, IsFiniteSet(U)
  PROVE  g[U] = h[U]
<1> DEFINE C == {V \in SUBSET U : g[V] # h[V]}
<1>1. CASE C = {}
  BY <1>1
<1>2. CASE C # {}
  <2>0. C \in SUBSET SUBSET U
    OBVIOUS
  <2>1. PICK V \in C : \A W \in C : W \subseteq V => W = V
    <3> HIDE DEF C
    <3> QED
      BY <1>2, <2>0, SmallestSubset
  <2>2. V \subseteq S /\ V \subseteq T /\ g[V] # h[V]
    BY <2>1
  <2>3. /\ g[V] = IF V = {} THEN 0 ELSE f[FirstOf(V)] + g[V \ {FirstOf(V)}]
        /\ h[V] = IF V = {} THEN 0 ELSE f[FirstOf(V)] + h[V \ {FirstOf(V)}]
    BY <2>2 DEF Sums
  <2>4. V # {}
    BY <2>2, <2>3
  <2>5. V \ {FirstOf(V)} \notin C
    BY <2>1, <2>4, FirstOfIsIn
  <2>6. g[V \ {FirstOf(V)}] = h[V \ {FirstOf(V)}]
    BY <2>1, <2>5
  <2> QED
    BY <2>2, <2>3, <2>6
<1> QED
  BY <1>1, <1>2

\* One step of the fold, when the folds over the set and over the rest exist.
LEMMA SumUnfolds ==
  ASSUME NEW f, NEW S, S # {}, IsFiniteSet(S),
         \E g : Sums(f, S, g), \E g : Sums(f, S \ {FirstOf(S)}, g)
  PROVE  SumFunctionOnSet(f, S) = f[FirstOf(S)] + SumFunctionOnSet(f, S \ {FirstOf(S)})
<1> DEFINE R == S \ {FirstOf(S)}
<1>1. PICK g : Sums(f, S, g) /\ SumFunctionOnSet(f, S) = g[S]
  BY SumIsFold, Zenon
<1>2. PICK h : Sums(f, R, h) /\ SumFunctionOnSet(f, R) = h[R]
  BY SumIsFold, Zenon
<1>3. IsFiniteSet(R)
  BY FS_RemoveElement
<1>4. g[R] = h[R]
  BY <1>1, <1>2, <1>3, SumsAgree
<1>5. g[S] = f[FirstOf(S)] + g[R]
  BY <1>1 DEF Sums
<1> QED
  BY <1>1, <1>2, <1>4, <1>5

\* The sum over the empty set is 0.
LEMMA SumOfNothing ==
  ASSUME NEW f
  PROVE  SumFunctionOnSet(f, {}) = 0
<1>1. Sums(f, {}, [T \in SUBSET {} |-> 0])
  BY DEF Sums
<1>2. PICK g : Sums(f, {}, g) /\ SumFunctionOnSet(f, {}) = g[{}]
  BY <1>1, SumIsFold, Zenon
<1> QED
  BY <1>2 DEF Sums

\* Over a finite set the fold is defined.
LEMMA SumsExist ==
  ASSUME NEW f, NEW S, IsFiniteSet(S)
  PROVE  \E g : Sums(f, S, g)
<1> DEFINE C == {T \in SUBSET S : ~ \E g : Sums(f, T, g)}
<1>1. CASE C = {}
  BY <1>1
<1>2. CASE C # {}
  <2>0. C \in SUBSET SUBSET S
    OBVIOUS
  <2>1. PICK T \in C : \A U \in C : U \subseteq T => U = T
    <3> HIDE DEF C
    <3> QED
      BY <1>2, <2>0, SmallestSubset
  <2> DEFINE G == [U \in SUBSET T |-> IF U = {} THEN 0
                     ELSE f[FirstOf(U)] + SumFunctionOnSet(f, U \ {FirstOf(U)})]
  <2>2. ASSUME NEW U \in SUBSET T, U # {}
        PROVE  G[U \ {FirstOf(U)}] = SumFunctionOnSet(f, U \ {FirstOf(U)})
    <3>1. PICK V : V = U \ {FirstOf(U)}
      OBVIOUS
    <3>2. V \in SUBSET T /\ V # T /\ IsFiniteSet(V)
      BY <2>1, <2>2, <3>1, FirstOfIsIn, FS_Subset
    <3>3. CASE V = {}
      BY <3>1, <3>2, <3>3, SumOfNothing
    <3>4. CASE V # {}
      <4>1. G[V] = f[FirstOf(V)] + SumFunctionOnSet(f, V \ {FirstOf(V)})
        BY <3>2, <3>4
      <4>2. \A W \in SUBSET V : \E g : Sums(f, W, g)
        BY <2>1, <3>2
      <4>3. /\ \E g : Sums(f, V, g)
            /\ \E g : Sums(f, V \ {FirstOf(V)}, g)
        BY <4>2
      <4> QED
        BY <3>1, <3>2, <3>4, <4>1, <4>3, SumUnfolds
    <3> QED
      BY <3>3, <3>4
  <2>3. G = [U \in SUBSET T |-> IF U = {} THEN 0 ELSE f[FirstOf(U)] + G[U \ {FirstOf(U)}]]
    BY <2>2
  <2>4. Sums(f, T, G)
    BY <2>3 DEF Sums
  <2> QED
    BY <2>1, <2>4
<1> QED
  BY <1>1, <1>2

\* One step of the fold over a finite set.
LEMMA SumTakesFirst ==
  ASSUME NEW f, NEW S, S # {}, IsFiniteSet(S)
  PROVE  SumFunctionOnSet(f, S) = f[FirstOf(S)] + SumFunctionOnSet(f, S \ {FirstOf(S)})
<1>1. IsFiniteSet(S \ {FirstOf(S)})
  BY FS_RemoveElement
<1> QED
  BY <1>1, SumsExist, SumUnfolds

\* A sum stays in a set of numbers that is closed under addition.
LEMMA SumIsIn ==
  ASSUME NEW f, NEW S, IsFiniteSet(S), NEW N, 0 \in N, \A m, n \in N : m + n \in N,
         \A x \in S : f[x] \in N
  PROVE  SumFunctionOnSet(f, S) \in N
<1> DEFINE C == {T \in SUBSET S : SumFunctionOnSet(f, T) \notin N}
<1>1. CASE C = {}
  BY <1>1
<1>2. CASE C # {}
  <2>1. C \in SUBSET SUBSET S
    OBVIOUS
  <2>2. PICK T \in C : \A U \in C : U \subseteq T => U = T
    <3> HIDE DEF C
    <3> QED
      BY <1>2, <2>1, SmallestSubset
  <2>3. SumFunctionOnSet(f, T) \notin N /\ T \subseteq S
    BY <2>2
  <2>4. T # {} /\ IsFiniteSet(T)
    BY <2>3, SumOfNothing, FS_Subset
  <2>5. FirstOf(T) \in T /\ T \ {FirstOf(T)} \notin C
    BY <2>2, <2>4, FirstOfIsIn
  <2>6. SumFunctionOnSet(f, T \ {FirstOf(T)}) \in N /\ f[FirstOf(T)] \in N
    BY <2>3, <2>5
  <2> QED
    BY <2>3, <2>4, <2>6, SumTakesFirst
<1> QED
  BY <1>1, <1>2

LEMMA SumIsInt ==
  ASSUME NEW f, NEW S, IsFiniteSet(S), \A x \in S : f[x] \in Int
  PROVE  SumFunctionOnSet(f, S) \in Int
<1>1. 0 \in Int /\ \A m, n \in Int : m + n \in Int
  OBVIOUS
<1> QED
  BY <1>1, SumIsIn

LEMMA SumIsNat ==
  ASSUME NEW f, NEW S, IsFiniteSet(S), \A x \in S : f[x] \in Nat
  PROVE  SumFunctionOnSet(f, S) \in Nat
<1>1. 0 \in Nat /\ \A m, n \in Nat : m + n \in Nat
  OBVIOUS
<1> QED
  BY <1>1, SumIsIn

\* The sum does not depend on the element that is taken first.
LEMMA SumTakesAny ==
  ASSUME NEW f, NEW S, IsFiniteSet(S), \A x \in S : f[x] \in Int, NEW y \in S
  PROVE  SumFunctionOnSet(f, S) = f[y] + SumFunctionOnSet(f, S \ {y})
<1> DEFINE C == {T \in SUBSET S : \E x \in T :
                   SumFunctionOnSet(f, T) # f[x] + SumFunctionOnSet(f, T \ {x})}
<1>1. CASE C = {}
  BY <1>1
<1>2. CASE C # {}
  <2>1. C \in SUBSET SUBSET S
    OBVIOUS
  <2>2. PICK T \in C : \A U \in C : U \subseteq T => U = T
    <3> HIDE DEF C
    <3> QED
      BY <1>2, <2>1, SmallestSubset
  <2>3. PICK x \in T : SumFunctionOnSet(f, T) # f[x] + SumFunctionOnSet(f, T \ {x})
    BY <2>2
  <2>4. PICK z : z = FirstOf(T)
    OBVIOUS
  <2>5. z \in T /\ IsFiniteSet(T) /\ T \subseteq S
    BY <2>2, <2>3, <2>4, FirstOfIsIn, FS_Subset
  <2>13. SumFunctionOnSet(f, T) = f[z] + SumFunctionOnSet(f, T \ {z})
    BY <2>3, <2>4, <2>5, SumTakesFirst
  <2>6. x # z
    BY <2>3, <2>13
  <2>7. T \ {z} \notin C /\ T \ {x} \notin C
    BY <2>2, <2>3, <2>5
  <2>8. /\ SumFunctionOnSet(f, T \ {z}) = f[x] + SumFunctionOnSet(f, (T \ {z}) \ {x})
        /\ SumFunctionOnSet(f, T \ {x}) = f[z] + SumFunctionOnSet(f, (T \ {x}) \ {z})
    BY <2>3, <2>5, <2>6, <2>7
  <2>9. (T \ {z}) \ {x} = (T \ {x}) \ {z}
    OBVIOUS
  <2>10. IsFiniteSet((T \ {z}) \ {x}) /\ \A w \in (T \ {z}) \ {x} : f[w] \in Int
    BY <2>5, FS_Subset
  <2>11. SumFunctionOnSet(f, (T \ {z}) \ {x}) \in Int
    BY <2>10, SumIsInt
  <2>12. f[x] \in Int /\ f[z] \in Int
    BY <2>3, <2>5
  <2>14. PICK n \in Int : /\ SumFunctionOnSet(f, (T \ {z}) \ {x}) = n
                         /\ SumFunctionOnSet(f, (T \ {x}) \ {z}) = n
    BY <2>9, <2>11
  <2>15. SumFunctionOnSet(f, T) = f[z] + (f[x] + n)
    BY <2>8, <2>13, <2>14
  <2>16. f[x] + SumFunctionOnSet(f, T \ {x}) = f[x] + (f[z] + n)
    BY <2>8, <2>14
  <2>17. f[z] + (f[x] + n) = f[x] + (f[z] + n)
    BY <2>12, <2>14
  <2> QED
    BY <2>3, <2>15, <2>16, <2>17
<1> QED
  BY <1>1, <1>2

\* One more element adds its summand.
LEMMA SumAdds ==
  ASSUME NEW f, NEW S, IsFiniteSet(S), NEW y, y \notin S,
         \A x \in S \cup {y} : f[x] \in Int
  PROVE  SumFunctionOnSet(f, S \cup {y}) = SumFunctionOnSet(f, S) + f[y]
<1>1. IsFiniteSet(S \cup {y}) /\ (S \cup {y}) \ {y} = S
  BY FS_AddElement
<1>2. SumFunctionOnSet(f, S \cup {y}) = f[y] + SumFunctionOnSet(f, S)
  BY <1>1, SumTakesAny
<1>3. f[y] \in Int /\ SumFunctionOnSet(f, S) \in Int
  BY SumIsInt
<1> QED
  BY <1>2, <1>3

\* Equal summands have equal sums.
LEMMA SumOfSame ==
  ASSUME NEW f, NEW g, NEW S, IsFiniteSet(S), \A x \in S : f[x] = g[x]
  PROVE  SumFunctionOnSet(f, S) = SumFunctionOnSet(g, S)
<1> DEFINE C == {T \in SUBSET S : SumFunctionOnSet(f, T) # SumFunctionOnSet(g, T)}
<1>1. CASE C = {}
  BY <1>1
<1>2. CASE C # {}
  <2>1. C \in SUBSET SUBSET S
    OBVIOUS
  <2>2. PICK T \in C : \A U \in C : U \subseteq T => U = T
    <3> HIDE DEF C
    <3> QED
      BY <1>2, <2>1, SmallestSubset
  <2>3. T # {} /\ IsFiniteSet(T)
    BY <2>2, SumOfNothing, FS_Subset
  <2>4. T \ {FirstOf(T)} \notin C /\ FirstOf(T) \in T
    BY <2>2, <2>3, FirstOfIsIn
  <2>5. /\ SumFunctionOnSet(f, T \ {FirstOf(T)}) = SumFunctionOnSet(g, T \ {FirstOf(T)})
        /\ f[FirstOf(T)] = g[FirstOf(T)]
    BY <2>2, <2>4
  <2>6. SumFunctionOnSet(f, T) # SumFunctionOnSet(g, T)
    BY <2>2
  <2> QED
    BY <2>3, <2>5, <2>6, SumTakesFirst
<1> QED
  BY <1>1, <1>2

\* Any two summands that are not negative are at most the sum together.
LEMMA SumBoundsTwo ==
  ASSUME NEW f, NEW S, IsFiniteSet(S), \A x \in S : f[x] \in Nat,
         NEW x \in S, NEW y \in S, x # y
  PROVE  f[x] + f[y] <= SumFunctionOnSet(f, S)
<1>1. /\ IsFiniteSet(S \ {x}) /\ IsFiniteSet((S \ {x}) \ {y})
  BY FS_Subset
<1>2. SumFunctionOnSet(f, S) = f[x] + SumFunctionOnSet(f, S \ {x})
  BY SumTakesAny
<1>3. SumFunctionOnSet(f, S \ {x}) = f[y] + SumFunctionOnSet(f, (S \ {x}) \ {y})
  BY <1>1, SumTakesAny
<1>4. SumFunctionOnSet(f, (S \ {x}) \ {y}) \in Nat
  BY <1>1, SumIsNat
<1>5. f[x] \in Nat /\ f[y] \in Nat
  OBVIOUS
<1> QED
  BY <1>2, <1>3, <1>4, <1>5

----------------------------------------------------------------------------
\* Queries.

\* What the rows of a posting are, whichever query reads them.
LEMMA RowsOfPosting ==
  ASSUME SoundInv, NEW r \in Posted
  PROVE  /\ PostingRow(r) \in transactions /\ r \in Requests
         /\ {e \in entries : e.transaction = r} = EntryRows(r)
         /\ \A t \in transactions : t.id = r \/ t.key = Key(r) => t = PostingRow(r)
<1>1. TypeOK /\ WholePostings /\ OnePostingPerKey
  BY DEF SoundInv, IndInv
<1>2. \A q : \A e \in EntryRows(q) : e.transaction = q
  BY DEF EntryRows, DebitEntry, CreditEntry, DebitEntryOf, CreditEntryOf, NewEntry
<1>3. PostingRow(r) \in transactions
  BY <1>1 DEF WholePostings
<1>4. \A t \in transactions : t.id = r \/ t.key = Key(r) => t = PostingRow(r)
  BY <1>1, <1>3, RowOfPosting DEF WholePostings, OnePostingPerKey
<1> QED
  BY <1>1, <1>2, <1>3, <1>4, PostedAreRequests DEF WholePostings

\* A stored amount is accepted when it is read again: it was the positive amount
\* of a request, in the currency of an account (model.ToEntryDomain).
LEMMA StoredAmountsAreAccepted ==
  ASSUME SoundInv, NEW r \in Posted, NEW e \in EntryRows(r)
  PROVE  /\ NewMoney(e.amount.amount, e.amount.currency).err = NoError
         /\ ToEntryDomain(e) = e
<1>1. input[r].debit \in Accounts /\ balance[input[r].debit].currency = input[r].currency
  BY DEF SoundInv, OnlySoundPostings
<1>2. input[r].currency \in Currencies
  BY <1>1 DEF SoundInv, IndInv, TypeOK, Money
<1>3. input[r].amount \in Int /\ input[r].amount > 0
  BY RowsOfPosting, IntMaxAssumption, LedgerAssumption
     DEF SoundInv, IndInv, TypeOK, InputShape, Int64, OnlySoundPostings
<1>4. Amount(r).val = [amount |-> input[r].amount, currency |-> input[r].currency]
  BY <1>2, <1>3 DEF Amount, AmountOf, NewMoney, Returns
<1>5. e.amount = Amount(r).val /\ e = [id |-> e.id, key |-> e.key, direction |-> e.direction,
        amount |-> e.amount, account |-> e.account, transaction |-> e.transaction]
  BY DEF EntryRows, DebitEntry, CreditEntry, DebitEntryOf, CreditEntryOf, NewEntry, Amount
<1>6. e.amount.amount = input[r].amount /\ e.amount.currency = input[r].currency
  BY <1>4, <1>5
<1>7. NewMoney(e.amount.amount, e.amount.currency) = Returns(e.amount)
  BY <1>2, <1>3, <1>4, <1>5, <1>6 DEF NewMoney
<1>8. NewMoney(e.amount.amount, e.amount.currency).err = NoError
  BY <1>7 DEF Returns
<1>9. ToEntryDomain(e) = [e EXCEPT !.amount = e.amount]
  BY <1>7 DEF ToEntryDomain, Returns
<1> QED
  BY <1>5, <1>8, <1>9

\* The aggregate that a query gives back for a posting.
LEMMA FoundPosting ==
  ASSUME SoundInv, NEW r \in Posted
  PROVE  Found(PostingRow(r), EntryRows(r)) =
           Returns(ToTransactionDomain(PostingRow(r), EntryRows(r)))
<1>1. Refused(EntryRows(r)) = {}
  BY StoredAmountsAreAccepted DEF Refused
<1>2. {ToEntryDomain(e) : e \in EntryRows(r)} = EntryRows(r)
  BY StoredAmountsAreAccepted
<1> QED
  BY <1>1, <1>2 DEF Found

LEMMA FoundById ==
  ASSUME SoundInv, NEW r \in Posted
  PROVE  FindByTransactionID(r) = Found(PostingRow(r), EntryRows(r))
<1>1. \E t \in transactions : t.id = r
  BY RowsOfPosting, RowOfPosting
<1>2. (CHOOSE t \in transactions : t.id = r) = PostingRow(r)
  BY RowsOfPosting, RowOfPosting
<1> QED
  BY <1>1, <1>2, RowsOfPosting DEF FindByTransactionID

\* The JOIN finds the same rows: every posting has entries.
LEMMA FoundByKey ==
  ASSUME SoundInv, NEW r \in Posted
  PROVE  FindByIdempotencyKey(Key(r)) = Found(PostingRow(r), EntryRows(r))
<1>1. PICK rows : rows = {row \in transactions \X entries :
                            row[1].key = Key(r) /\ row[2].transaction = row[1].id}
  OBVIOUS
<1>2. rows = {<<PostingRow(r), e>> : e \in EntryRows(r)}
  BY <1>1, RowsOfPosting, RowOfPosting
<1>3. DebitEntry(r).val \in EntryRows(r)
  BY DEF EntryRows
<1>4. rows # {} /\ (CHOOSE row \in rows : TRUE)[1] = PostingRow(r)
  <2>1. rows # {}
    BY <1>2, <1>3
  <2>2. PICK e : FirstOf(rows) = <<PostingRow(r), e>>
    BY <1>2, <2>1, FirstOfIsIn
  <2>3. FirstOf(rows)[1] = PostingRow(r)
    BY <2>2
  <2> QED
    BY <2>1, <2>3 DEF FirstOf
<1>5. {row[2] : row \in rows} = EntryRows(r)
  <2>1. \A e : <<PostingRow(r), e>>[2] = e
    OBVIOUS
  <2>2. \A row \in rows : row[2] \in EntryRows(r)
    BY <1>2, <2>1
  <2>3. \A e \in EntryRows(r) : \E row \in rows : row[2] = e
    BY <1>2, <2>1
  <2> QED
    BY <2>2, <2>3
<1> QED
  BY <1>1, <1>4, <1>5 DEF FindByIdempotencyKey

\* Whatever raced, failed or crashed, a reader finds a saved transaction by its id
\* and by its key, with both entries, exactly when the key counts as known
\* (repository/transaction.go:71-226, model/entry.go:57-71).
THEOREM QueriesGiveBackPostings == Spec => []QueriesAgree
<1>1. SoundInv => QueriesAgree
  <2> SUFFICES ASSUME SoundInv PROVE QueriesAgree
    OBVIOUS
  <2>1. ASSUME NEW r \in Posted
        PROVE  /\ FindByTransactionID(r) = FindByIdempotencyKey(Key(r))
               /\ FindByTransactionID(r) =
                    Returns(ToTransactionDomain(PostingRow(r), EntryRows(r)))
    BY FoundById, FoundByKey, FoundPosting
  <2>2. ASSUME NEW r \in Requests, KeyIsKnown(Key(r))
        PROVE  FindByIdempotencyKey(Key(r)).err = NoError
    <3>1. PICK q \in Posted : Key(q) = Key(r)
      BY <2>2, RowOfPosting DEF KeyIsKnown, SoundInv, IndInv, WholePostings
    <3> QED
      BY <2>1, <3>1 DEF Returns
  <2>3. ASSUME NEW r \in Requests, ~ KeyIsKnown(Key(r))
        PROVE  FindByIdempotencyKey(Key(r)).err # NoError
    <3>1. {row \in transactions \X entries :
             row[1].key = Key(r) /\ row[2].transaction = row[1].id} = {}
      BY <2>3 DEF KeyIsKnown
    <3> QED
      BY <3>1 DEF FindByIdempotencyKey, NotFound, NoError
  <2> QED
    BY <2>1, <2>2, <2>3 DEF QueriesAgree
<1> QED
  BY <1>1, SoundnessInvariance, PTL

----------------------------------------------------------------------------
\* Double entry.

\* A posting adds its two entries, one on each side, of one amount
\* (create_transaction.go:104-132, repository/transaction.go:45-66).
LEMMA PostingAddsTwoEntries ==
  ASSUME SoundInv, NEW r \in Requests, WrittenWhole(r), Publish(r)
  PROVE  \E x, y :
           /\ x # y /\ x \notin entries /\ y \notin entries
           /\ entries' = entries \cup {x, y}
           /\ x.account = input[r].debit /\ x.direction = "DEBIT"
           /\ y.account = input[r].credit /\ y.direction = "CREDIT"
           /\ x.amount.amount = input[r].amount /\ y.amount.amount = input[r].amount
<1>1. WorkFollowsPc /\ WholePostings /\ PostedAreFinished
  BY DEF SoundInv, IndInv
<1>2. PICK x, y : x = DebitEntry(r).val /\ y = CreditEntry(r).val
  OBVIOUS
<1>3. entries' = entries \cup {x, y}
  BY <1>2 DEF Publish, WrittenWhole, EntryRows
<1>4. /\ x.account = input[r].debit /\ x.direction = "DEBIT" /\ x.amount = Amount(r).val
      /\ y.account = input[r].credit /\ y.direction = "CREDIT" /\ y.amount = Amount(r).val
      /\ x.transaction = r /\ y.transaction = r
  BY <1>2 DEF DebitEntry, CreditEntry, DebitEntryOf, CreditEntryOf, NewEntry, Amount
<1>5. Amount(r).val.amount = input[r].amount
  <2>1. DebitEntry(r).err = NoError
    BY <1>1 DEF WorkFollowsPc, WrittenWhole
  <2>2. ~ IsZero(Amount(r).val)
    BY <2>1 DEF DebitEntry, DebitEntryOf, NewEntry, NewEntryError, Amount, NoError
  <2>3. Amount(r).err = NoError
    BY <2>2 DEF Amount, AmountOf, NewMoney, MoneyError, NoMoney, Returns, IsZero
  <2> QED
    BY <2>3, AmountAsked
<1>6. x \notin entries /\ y \notin entries
  <2>1. r \notin Posted
    BY <1>1 DEF PostedAreFinished, WorkFollowsPc, WrittenWhole, NoWork
  <2>2. \A q : \A e \in EntryRows(q) : e.transaction = q
    BY DEF EntryRows, DebitEntry, CreditEntry, DebitEntryOf, CreditEntryOf, NewEntry
  <2>3. \A e \in entries : e.transaction \in Posted
    BY <1>1, <2>2 DEF WholePostings
  <2> QED
    BY <1>4, <2>1, <2>3
<1>7. x # y
  BY <1>4
<1> QED
  BY <1>3, <1>4, <1>5, <1>6, <1>7

\* There are finitely many entries, of integers: the sum is one.
EntriesAddUp ==
  /\ IsFiniteSet(entries)
  /\ \A e \in entries : e.amount.amount \in Int
  /\ EntriesCancelOut

\* Two more entries of one amount cancel each other.
LEMMA PairCancelsOut ==
  ASSUME EntriesAddUp, NEW x, NEW y, NEW n \in Int,
         x # y, x \notin entries, y \notin entries, entries' = entries \cup {x, y},
         x.direction = "DEBIT", y.direction = "CREDIT",
         x.amount.amount = n, y.amount.amount = n
  PROVE  EntriesAddUp'
<1>1. PICK f, g : f = Movement /\ g = Movement'
  OBVIOUS
<1>2. \A e \in entries : f[e] = g[e]
  BY <1>1 DEF Movement
<1>3. g[x] = - n /\ g[y] = n
  BY <1>1 DEF Movement
<1>4. \A e \in entries : g[e] \in Int
  BY <1>1 DEF Movement, EntriesAddUp
<1>5. g[x] \in Int /\ g[y] \in Int
  BY <1>3
<1>6. SumFunctionOnSet(g, entries) = 0
  BY <1>1, <1>2, SumOfSame DEF EntriesAddUp, EntriesCancelOut
<1>7. /\ IsFiniteSet(entries) /\ IsFiniteSet(entries \cup {x})
      /\ IsFiniteSet((entries \cup {x}) \cup {y})
  BY FS_AddElement DEF EntriesAddUp
<1>8. SumFunctionOnSet(g, entries \cup {x}) = SumFunctionOnSet(g, entries) + g[x]
  BY <1>4, <1>5, <1>7, SumAdds
<1>9. SumFunctionOnSet(g, (entries \cup {x}) \cup {y}) =
        SumFunctionOnSet(g, entries \cup {x}) + g[y]
  <2>1. y \notin entries \cup {x} /\ \A e \in (entries \cup {x}) \cup {y} : g[e] \in Int
    BY <1>4, <1>5
  <2> QED
    BY <1>7, <2>1, SumAdds
<1>10. entries' = (entries \cup {x}) \cup {y}
  OBVIOUS
<1>11. SumFunctionOnSet(g, entries') = 0
  BY <1>3, <1>6, <1>8, <1>9, <1>10
<1>12. \A e \in entries' : e.amount.amount \in Int
  BY DEF EntriesAddUp
<1> QED
  BY <1>1, <1>7, <1>10, <1>11, <1>12 DEF EntriesAddUp, EntriesCancelOut

\* The trial balance is zero at every moment, however the requests overlap and even
\* where a balance is lost: the entries, unlike the balances, are right under every
\* interleaving and fault.
THEOREM DoubleEntry == Spec => []EntriesCancelOut
<1>1. Init => EntriesAddUp
  <2>1. SumFunctionOnSet(Movement, {}) = 0
    BY SumOfNothing
  <2> QED
    BY <2>1, FS_EmptySet DEF Init, EntriesAddUp, EntriesCancelOut
<1>2. SoundInv /\ EntriesAddUp /\ [Next]_vars => EntriesAddUp'
  <2> SUFFICES ASSUME SoundInv, EntriesAddUp, [Next]_vars
               PROVE  EntriesAddUp'
    OBVIOUS
  <2>1. ASSUME NEW r \in Requests, Publishes(r) PROVE EntriesAddUp'
    <3>1. input[r].amount \in Int
      BY AmountsAreInt DEF SoundInv, IndInv
    <3>2. WrittenWhole(r) /\ Publish(r)
      BY <2>1 DEF Publishes
    <3> QED
      BY <3>1, <3>2, PostingAddsTwoEntries, PairCancelsOut
  <2>2. CASE UNCHANGED tables
    BY <2>2 DEF EntriesAddUp, EntriesCancelOut, Movement, tables
  <2> QED
    BY <2>1, <2>2, PostedStep DEF SoundInv, IndInv
<1>3. EntriesAddUp => EntriesCancelOut
  BY DEF EntriesAddUp
<1> QED
  BY <1>1, <1>2, <1>3, SoundnessInvariance, PTL DEF Spec

----------------------------------------------------------------------------
\* New balances, on their way to the table.

\* A COMMIT that the database has and the client lost was sent from there, and nothing
\* changes in the request after it (uow.go:39-43).
LEMMA CommitIsLost ==
  ASSUME TypeOK, SessionFollowsPc, [Next]_vars, NEW r \in Requests,
         session'[r] = "committing"
  PROVE  /\ pc[r] = "commit" \/ session[r] = "committing"
         /\ pc'[r] \in Returned
         /\ debit'[r] = debit[r] /\ credit'[r] = credit[r] /\ work'[r] = work[r]
<1>1. /\ pc \in [Requests -> AllPcs] /\ work \in [Requests -> Written]
      /\ debit \in [Requests -> Money \cup {NoMoney}]
      /\ credit \in [Requests -> Money \cup {NoMoney}]
      /\ session \in [Requests -> AllSessions]
  BY DEF TypeOK, AllPcs, AllSessions
<1>2. CASE session[r] = "committing"
  <2>1. pc[r] \in Returned
    BY <1>1, <1>2 DEF SessionFollowsPc, InSession, Statements, AllPcs, Returned, Reading,
       InTransaction
  <2>2. ASSUME NEW q \in Requests, Step(q) \/ Fault(q)
        PROVE  /\ pc'[r] \in Returned
               /\ debit'[r] = debit[r] /\ credit'[r] = credit[r] /\ work'[r] = work[r]
    <3>1. pc[q] \notin Returned
      BY <2>2 DEF Step, Fault, Handle, Arrive, ExistsByIdempotencyKey, FindDebitAccount,
         FindCreditAccount, CheckFunds, Begin, BuildFails, Build, SaveTransaction,
         UpdateDebit, UpdateCredit, SaveOutbox, Commit, Rollback, DeadlockVictim,
         InDeadlock, WaitsFor, CancelRead, CancelInTransaction, CancelCommit, Statements,
         Returned
    <3>2. q # r
      BY <2>1, <3>1
    <3> QED
      BY <1>1, <2>1, <2>2, <3>2 DEF Step, Fault, Handle, Arrive, ExistsByIdempotencyKey,
         FindDebitAccount, FindCreditAccount, CheckFunds, Begin, BuildFails, Build,
         SaveTransaction, UpdateDebit, UpdateCredit, UpdateBalance, SaveOutbox, Commit,
         Rollback, DeadlockVictim, CancelRead, CancelInTransaction, CancelCommit,
         EndSession, StatementFails, ProceedOrReturn, ProceedOrRollback
  <2>3. ASSUME NEW q \in Requests, Resolve(q)
        PROVE  /\ pc'[r] \in Returned
               /\ debit'[r] = debit[r] /\ credit'[r] = credit[r] /\ work'[r] = work[r]
    <3>1. q # r
      BY <1>1, <2>3 DEF Resolve, ServerAborts, ServerCommits, EndSession
    <3> QED
      BY <1>1, <2>1, <2>3, <3>1 DEF Resolve, ServerAborts, ServerCommits, EndSession, request
  <2>4. CASE Crash \/ UNCHANGED vars
    BY <2>1, <2>4 DEF Crash, vars, request
  <2> QED
    BY <1>2, <2>1, <2>2, <2>3, <2>4 DEF Next, Quiescent
<1>3. CASE session[r] # "committing"
  <2>1. ASSUME NEW q \in Requests, ~ CancelCommit(q), Step(q) \/ Fault(q) \/ Resolve(q)
        PROVE  FALSE
    BY <1>1, <1>3, <2>1 DEF Step, Fault, Resolve, Handle, Arrive, ExistsByIdempotencyKey,
       FindDebitAccount, FindCreditAccount, CheckFunds, Begin, BuildFails, Build,
       SaveTransaction, UpdateDebit, UpdateCredit, UpdateBalance, SaveOutbox, Commit,
       Rollback, DeadlockVictim, CancelRead, CancelInTransaction, Abandon, ServerAborts,
       ServerCommits, EndSession, StatementFails, AllSessions
  <2>2. ASSUME NEW q \in Requests, CancelCommit(q)
        PROVE  pc[r] = "commit" /\ pc'[r] \in Returned /\ UNCHANGED <<debit, credit, work>>
    BY <1>1, <1>3, <2>2 DEF CancelCommit, Returned
  <2>3. CASE Crash
    BY <1>1, <1>3, <2>3 DEF Crash, Returned
  <2>4. CASE UNCHANGED vars
    BY <1>3, <2>4 DEF vars
  <2> QED
    BY <2>1, <2>2, <2>3, <2>4 DEF Next, Quiescent, Crash, Returned
<1> QED
  BY <1>2, <1>3

\* What r's transaction has written of the two balances that Build computed.
HoldsBalances(r) ==
  /\ pc[r] = "updateCredit" => work[r].balances[input[r].debit] = debit[r]
  /\ pc[r] \in {"saveOutbox", "commit"} \/ session[r] = "committing" =>
       /\ work[r].balances[input[r].credit] = credit[r]
       /\ input[r].debit # input[r].credit => work[r].balances[input[r].debit] = debit[r]

\* Every step leaves that true of every request, faults included.
LEMMA HoldsBalancesStep ==
  ASSUME TypeOK, SessionFollowsPc, ChecksHold, [Next]_vars,
         NEW r \in Requests, HoldsBalances(r)
  PROVE  HoldsBalances(r)'
<1> USE DEF HoldsBalances
<1> SUFFICES ASSUME session'[r] # "committing" PROVE HoldsBalances(r)'
  BY CommitIsLost, InputIsFixed DEF Returned
<1>1. /\ pc \in [Requests -> AllPcs] /\ work \in [Requests -> Written]
      /\ debit \in [Requests -> Money \cup {NoMoney}]
      /\ credit \in [Requests -> Money \cup {NoMoney}]
  BY DEF TypeOK, AllPcs
<1>2. input' = input
  BY InputIsFixed
<1>3. CASE pc'[r] \notin {"updateCredit", "saveOutbox", "commit"}
  BY <1>3
<1>4. CASE /\ pc'[r] = pc[r] /\ work'[r] = work[r]
           /\ debit'[r] = debit[r] /\ credit'[r] = credit[r]
  BY <1>2, <1>4
<1>5. ASSUME NEW q \in Requests, q # r, Step(q) \/ Fault(q) \/ Resolve(q)
      PROVE  HoldsBalances(r)'
  <2>1. pc'[r] = pc[r] /\ debit'[r] = debit[r] /\ credit'[r] = credit[r] /\ work'[r] = work[r]
    BY <1>1, <1>5 DEF Step, Fault, Resolve, Handle, Arrive, ExistsByIdempotencyKey,
       FindDebitAccount, FindCreditAccount, CheckFunds, Begin, BuildFails, Build,
       SaveTransaction, UpdateDebit, UpdateCredit, UpdateBalance, SaveOutbox, Commit,
       Rollback, DeadlockVictim, CancelRead, CancelInTransaction, CancelCommit,
       ServerAborts, ServerCommits, EndSession, StatementFails, ProceedOrReturn,
       ProceedOrRollback, request
  <2> QED
    BY <1>4, <2>1
<1>6. CASE UpdateDebit(r)
  <2>1. PICK a : a = input[r].debit /\ a \in Accounts
    BY <1>6 DEF UpdateDebit, ChecksHold, OfAccount, AfterDebit, AfterCredit, AfterFunds,
       AfterBuild, Statements
  <2>2. pc'[r] = "updateCredit" /\ debit'[r] = debit[r]
    BY <1>1, <1>6 DEF UpdateDebit, UpdateBalance, ProceedOrRollback
  <2>3. work'[r].balances = [work[r].balances EXCEPT ![a] = debit[r]]
    BY <1>1, <1>6, <2>1 DEF UpdateDebit, UpdateBalance, Written
  <2>4. work'[r].balances[a] = debit[r]
    BY <1>1, <2>1, <2>3 DEF Written
  <2> QED
    BY <1>2, <2>1, <2>2, <2>4
<1>7. CASE UpdateCredit(r)
  <2>1. PICK a : a = input[r].credit /\ a \in Accounts
    BY <1>7 DEF UpdateCredit, ChecksHold, OfAccount, AfterDebit, AfterCredit, AfterFunds,
       AfterBuild, Statements
  <2>2. pc'[r] = "saveOutbox" /\ debit'[r] = debit[r] /\ credit'[r] = credit[r]
    BY <1>1, <1>7 DEF UpdateCredit, UpdateBalance, ProceedOrRollback
  <2>3. work'[r].balances = [work[r].balances EXCEPT ![a] = credit[r]]
    BY <1>1, <1>7, <2>1 DEF UpdateCredit, UpdateBalance, Written
  <2>4. /\ work'[r].balances[a] = credit[r]
        /\ \A b : b # a => work'[r].balances[b] = work[r].balances[b]
    BY <1>1, <2>1, <2>3 DEF Written
  <2>5. work[r].balances[input[r].debit] = debit[r]
    BY <1>7 DEF UpdateCredit
  <2> QED
    BY <1>2, <2>1, <2>2, <2>4, <2>5
<1>8. CASE SaveOutbox(r)
  <2>1. CASE EventFitsColumns
    <3>1. /\ pc'[r] = "commit" /\ debit'[r] = debit[r] /\ credit'[r] = credit[r]
          /\ work'[r].balances = work[r].balances
      BY <1>1, <1>8, <2>1 DEF SaveOutbox, ProceedOrRollback, Written
    <3> QED
      BY <1>2, <1>8, <3>1 DEF SaveOutbox
  <2>2. CASE ~ EventFitsColumns
    BY <1>1, <1>3, <1>8, <2>2 DEF SaveOutbox, StatementFails, ProceedOrRollback, NoError
  <2> QED
    BY <2>1, <2>2
<1>9. CASE \/ Arrive(r) \/ ExistsByIdempotencyKey(r) \/ FindDebitAccount(r)
           \/ FindCreditAccount(r) \/ CheckFunds(r) \/ Begin(r) \/ BuildFails(r) \/ Build(r)
           \/ SaveTransaction(r) \/ Commit(r) \/ Rollback(r) \/ DeadlockVictim(r)
           \/ CancelRead(r) \/ CancelInTransaction(r) \/ CancelCommit(r)
  BY <1>1, <1>3, <1>9 DEF Arrive, ExistsByIdempotencyKey, FindDebitAccount,
     FindCreditAccount, CheckFunds, Begin, BuildFails, Build, SaveTransaction, Commit,
     Rollback, DeadlockVictim, CancelRead, CancelInTransaction, CancelCommit,
     StatementFails, ProceedOrReturn, ProceedOrRollback, NoError
<1>10. CASE Resolve(r)
  <2>1. pc' = pc /\ session[r] \in {"abandoned", "committing"}
    BY <1>10 DEF Resolve, ServerAborts, ServerCommits, request
  <2>2. pc[r] \notin {"updateCredit", "saveOutbox", "commit"}
    BY <2>1 DEF SessionFollowsPc, InSession, Statements
  <2> QED
    BY <1>3, <2>1, <2>2
<1>11. CASE Crash
  BY <1>1, <1>3, <1>11 DEF Crash, Returned
<1>12. CASE UNCHANGED vars
  BY <1>4, <1>12 DEF vars, request
<1> QED
  <2>1. PICK q \in Requests : \/ Step(q) \/ Fault(q) \/ Resolve(q)
                              \/ Crash \/ UNCHANGED vars
    BY DEF Next, Quiescent
  <2>2. CASE q # r
    BY <1>5, <1>11, <1>12, <2>1, <2>2
  <2>3. CASE q = r
    BY <1>6, <1>7, <1>8, <1>9, <1>10, <1>11, <1>12, <2>1, <2>3 DEF Step, Handle, Fault
  <2> QED
    BY <2>2, <2>3

----------------------------------------------------------------------------
\* Transfers that share no account.

\* The new balances of r are computed, and may still be written.
Writing(r) == pc[r] \in AfterBuild \/ session[r] = "committing"

\* What a request has read is still so when it writes.
ReadsAreFresh ==
  \A r \in Requests :
    /\ pc[r] \in {"findCredit", "checkFunds", "begin", "build"} =>
         debit[r] = balance[input[r].debit]
    /\ pc[r] \in {"checkFunds", "begin", "build"} => credit[r] = balance[input[r].credit]
    /\ pc[r] \in {"begin", "build"} \/ Writing(r) =>
         input[r].amount \in 0 .. balance[input[r].debit].amount
    /\ Writing(r) =>
         /\ debit[r].amount = balance[input[r].debit].amount - input[r].amount
         /\ credit[r].amount = balance[input[r].credit].amount + input[r].amount
         /\ debit[r] # NoMoney /\ credit[r] # NoMoney

\* What is true of the tables between two transfers ...
BooksBalance ==
  /\ BalancesMatchEntries /\ PostingsConserveMoney /\ BalancesNonNegative
  /\ IsFiniteSet(entries) /\ \A e \in entries : e.amount.amount \in Int

\* ... and, with what is true of those under way, at every step.
TransfersAreFresh ==
  /\ Apart /\ ReadsAreFresh
  /\ \A r \in Requests : HoldsBalances(r)
  /\ BooksBalance

ApartInv == SoundInv /\ TransfersAreFresh

\* Finitely many accounts whose money is an int64 altogether, and no transfer from an
\* account to itself: BalancesMatchEntries is false of such a transfer, and of a
\* balance that wraps, as two of the runs show.
MoneyFits ==
  /\ IsFiniteSet(Accounts)
  /\ Total(Seed) <= IntMax
  /\ \A i \in Inputs : i.debit # i.credit

----------------------------------------------------------------------------
\* Commits.

\* Only a commit changes the tables, that of Execute or the late one of a lost client.
Commits(r) == Commit(r) \/ ServerCommits(r)

LEMMA OnlyCommits ==
  ASSUME [Next]_vars
  PROVE  \/ UNCHANGED tables
         \/ \E r \in Requests : Commits(r)
<1>1. ASSUME NEW r \in Requests, Arrive(r) \/ DeadlockVictim(r) PROVE UNCHANGED tables
  BY <1>1 DEF Arrive, DeadlockVictim, tables
<1>2. ASSUME NEW r \in Requests, Handle(r) PROVE UNCHANGED tables \/ Commits(r)
  <2>1. CASE \/ ExistsByIdempotencyKey(r) \/ FindDebitAccount(r) \/ FindCreditAccount(r)
             \/ CheckFunds(r) \/ Begin(r) \/ BuildFails(r) \/ Build(r)
    BY <2>1 DEF ExistsByIdempotencyKey, FindDebitAccount, FindCreditAccount, CheckFunds,
       Begin, BuildFails, Build, tables
  <2>2. CASE \/ SaveTransaction(r) \/ UpdateDebit(r) \/ UpdateCredit(r)
             \/ SaveOutbox(r) \/ Rollback(r)
    BY <2>2 DEF SaveTransaction, UpdateDebit, UpdateCredit, UpdateBalance, SaveOutbox,
       Rollback, tables
  <2>3. CASE Commit(r)
    BY <2>3 DEF Commits
  <2> QED
    BY <1>2, <2>1, <2>2, <2>3 DEF Handle
<1>3. ASSUME NEW r \in Requests, Fault(r) PROVE UNCHANGED tables
  BY <1>3 DEF Fault, CancelRead, CancelInTransaction, CancelCommit, tables
<1>4. ASSUME NEW r \in Requests, Resolve(r) PROVE UNCHANGED tables \/ Commits(r)
  BY <1>4 DEF Resolve, ServerAborts, Commits, tables
<1>5. CASE Crash \/ Quiescent \/ UNCHANGED vars
  BY <1>5 DEF Crash, Quiescent, vars, tables
<1> QED
  BY <1>1, <1>2, <1>3, <1>4, <1>5 DEF Next, Step

\* It ends the transfer, and no other request notices.
LEMMA CommitEnds ==
  ASSUME TypeOK, SessionFollowsPc, WorkFollowsPc, NEW r \in Requests, Commits(r)
  PROVE  /\ WrittenWhole(r) /\ Publish(r) /\ Writing(r)
         /\ pc'[r] \in Returned /\ session'[r] = "none"
         /\ \A q \in Requests \ {r} : pc'[q] = pc[q] /\ session'[q] = session[q]
<1>1. /\ pc \in [Requests -> AllPcs]
      /\ session \in [Requests -> {"none", "open", "failed", "abandoned", "committing"}]
  BY DEF TypeOK, AllPcs
<1>2. CASE Commit(r)
  BY <1>1, <1>2 DEF Commit, EndSession, WorkFollowsPc, Writing, AfterBuild, Returned
<1>3. CASE ServerCommits(r)
  <2>1. pc' = pc /\ session[r] = "committing"
    BY <1>3 DEF ServerCommits, request
  <2>2. pc[r] \in Returned
    BY <1>1, <2>1 DEF SessionFollowsPc, InSession, Statements, AllPcs, Returned, Reading,
       InTransaction
  <2> QED
    BY <1>1, <1>3, <2>1, <2>2 DEF ServerCommits, EndSession, WorkFollowsPc, Writing
<1> QED
  BY <1>2, <1>3 DEF Commits

\* How the new balances of a request are there: just built, or as they were.
LEMMA WritingStep ==
  ASSUME TypeOK, SessionFollowsPc, [Next]_vars, NEW r \in Requests, Writing(r)'
  PROVE  \/ pc[r] = "build" /\ pc'[r] = "saveTransaction"
         \/ Writing(r) /\ debit'[r] = debit[r] /\ credit'[r] = credit[r]
<1> USE DEF Writing, AfterBuild, Statements
<1>1. CASE session'[r] = "committing"
  BY <1>1, CommitIsLost
<1>2. CASE pc'[r] \in AfterBuild
  BY <1>2, AllGoOn DEF GoesOn, AfterDebit, AfterCredit, AfterFunds
<1> QED
  BY <1>1, <1>2

\* The accounts of a transfer under way stay as they are while it is.
LEMMA AccountsStay ==
  ASSUME ApartInv, [Next]_vars, NEW r \in Requests, InTransfer(r)',
         NEW a \in {input[r].debit, input[r].credit} \cap Accounts
  PROVE  balance'[a] = balance[a]
<1>1. TypeOK /\ SessionFollowsPc /\ WorkFollowsPc /\ Apart
  BY DEF ApartInv, TransfersAreFresh, SoundInv, IndInv
<1>2. CASE UNCHANGED tables
  BY <1>2 DEF tables
<1>3. ASSUME NEW q \in Requests, Commits(q) PROVE balance'[a] = balance[a]
  <2>1. /\ Publish(q) /\ Writing(q) /\ pc'[q] \in Returned /\ session'[q] = "none"
        /\ \A p \in Requests \ {q} : pc'[p] = pc[p] /\ session'[p] = session[p]
    BY <1>1, <1>3, CommitEnds
  <2>2. InTransfer(q)
    BY <2>1 DEF Writing, InTransfer, AfterBuild
  <2>3. q # r
    BY <2>1 DEF InTransfer, Returned, Statements
  <2>4. InTransfer(r)
    BY <2>1, <2>3 DEF InTransfer
  <2>5. a \notin {input[q].debit, input[q].credit}
    BY <1>1, <2>2, <2>3, <2>4 DEF Apart
  <2>6. work[q].balances[a] = NoMoney
    BY <1>1, <2>5 DEF WorkFollowsPc
  <2> QED
    BY <2>1, <2>6 DEF Publish
<1> QED
  BY <1>2, <1>3, OnlyCommits

----------------------------------------------------------------------------
\* The transfers under way.

\* No account can hold more than there is: the credit of a transfer never wraps.
LEMMA CreditFits ==
  ASSUME MoneyFits, TypeOK, PostingsConserveMoney, BalancesNonNegative,
         NEW d \in Accounts, NEW c \in Accounts, d # c
  PROVE  balance[d].amount + balance[c].amount <= IntMax
<1>1. \A a \in Accounts : Amounts(balance)[a] = balance[a].amount /\ balance[a].amount \in Nat
  BY AmountsAreInt DEF Amounts, BalancesNonNegative
<1>2. balance[d].amount + balance[c].amount <= Total(balance)
  BY <1>1, SumBoundsTwo DEF MoneyFits, Total
<1>3. Total(balance) \in Nat
  BY <1>1, SumIsNat DEF MoneyFits, Total
<1> QED
  BY <1>1, <1>2, <1>3, IntMaxAssumption DEF MoneyFits, PostingsConserveMoney

\* What is read is what is stored, and the funds are there.
LEMMA ReadsStep ==
  ASSUME ApartInv, [Next]_vars, NEW r \in Requests
  PROVE  /\ pc'[r] \in {"findCredit", "checkFunds", "begin", "build"} =>
              debit'[r] = balance[input[r].debit]
         /\ pc'[r] \in {"checkFunds", "begin", "build"} =>
              credit'[r] = balance[input[r].credit]
         /\ pc'[r] \in {"begin", "build"} =>
              input[r].amount \in 0 .. balance[input[r].debit].amount
<1> USE DEF AfterDebit, AfterCredit, AfterFunds, AfterBuild, Statements
<1>1. /\ pc[r] \in {"findCredit", "checkFunds", "begin", "build"} =>
           debit[r] = balance[input[r].debit]
      /\ pc[r] \in {"checkFunds", "begin", "build"} => credit[r] = balance[input[r].credit]
      /\ pc[r] \in {"begin", "build"} =>
           input[r].amount \in 0 .. balance[input[r].debit].amount
  BY DEF ApartInv, TransfersAreFresh, ReadsAreFresh
<1>2. TypeOK /\ ChecksHold
  BY DEF ApartInv, SoundInv, IndInv
<1>3. CASE /\ pc[r] = "findDebit" /\ pc'[r] = "findCredit"
           /\ FindByID(input[r].debit).err = NoError
           /\ debit'[r] = FindByID(input[r].debit).val
  BY <1>2, <1>3, FoundIsStored
<1>4. CASE /\ pc[r] = "findCredit" /\ pc'[r] = "checkFunds"
           /\ FindByID(input[r].credit).err = NoError
           /\ credit'[r] = FindByID(input[r].credit).val
           /\ debit'[r] = debit[r]
  BY <1>2, <1>1, <1>4, FoundIsStored
<1>5. CASE /\ pc[r] = "checkFunds" /\ pc'[r] = "begin" /\ FundsError(r) = NoError
           /\ debit'[r] = debit[r] /\ credit'[r] = credit[r]
  <2>1. Amount(r).err = NoError /\ IsSufficientBalance(debit[r], Amount(r).val)
    BY <1>5 DEF FundsError, NoError
  <2>2. ~ input[r].amount < 0
    BY <2>1 DEF Amount, AmountOf, NewMoney, MoneyError, NoError
  <2>3. debit[r].amount >= input[r].amount /\ debit[r] = balance[input[r].debit]
    BY <1>1, <1>5, <2>1, AmountAsked DEF IsSufficientBalance
  <2>4. input[r].debit \in Accounts
    BY <1>2, <1>5 DEF ChecksHold, OfAccount
  <2>5. input[r].amount \in Int /\ balance[input[r].debit].amount \in Int
    BY <1>2, <2>4, AmountsAreInt
  <2>6. input[r].amount \in 0 .. balance[input[r].debit].amount
    BY <2>2, <2>3, <2>5
  <2> QED
    BY <1>1, <1>5, <2>6
<1>6. CASE /\ \/ pc'[r] = pc[r]
              \/ pc[r] = "begin" /\ pc'[r] = "build"
              \/ pc[r] \in AfterBuild /\ pc'[r] \in AfterBuild
           /\ debit'[r] = debit[r] /\ credit'[r] = credit[r]
  BY <1>1, <1>6
<1>7. CASE pc'[r] \notin {"findCredit", "checkFunds", "begin", "build"}
  BY <1>7
<1> QED
  BY <1>2, <1>3, <1>4, <1>5, <1>6, <1>7, AllGoOn DEF GoesOn

\* What Build computes is exact, and stays so until it is committed.
LEMMA WritesStep ==
  ASSUME MoneyFits, ApartInv, [Next]_vars, NEW r \in Requests, Writing(r)'
  PROVE  /\ input[r].amount \in 0 .. balance[input[r].debit].amount
         /\ debit'[r].amount = balance[input[r].debit].amount - input[r].amount
         /\ credit'[r].amount = balance[input[r].credit].amount + input[r].amount
         /\ debit'[r] # NoMoney /\ credit'[r] # NoMoney
<1>1. TypeOK /\ SessionFollowsPc /\ ChecksHold /\ ReadsAreFresh /\ BooksBalance
  BY DEF ApartInv, TransfersAreFresh, SoundInv, IndInv
<1>2. CASE pc[r] = "build" /\ pc'[r] = "saveTransaction"
  <2> USE DEF AfterDebit, AfterCredit, AfterFunds, AfterBuild, Statements
  <2>1. /\ debit[r] = balance[input[r].debit] /\ credit[r] = balance[input[r].credit]
        /\ input[r].amount \in 0 .. balance[input[r].debit].amount
    BY <1>1, <1>2 DEF ReadsAreFresh
  <2>2. /\ Subtract(debit[r], Amount(r).val).err = NoError
        /\ Add(credit[r], Amount(r).val).err = NoError
        /\ debit'[r] = Subtract(debit[r], Amount(r).val).val
        /\ credit'[r] = Add(credit[r], Amount(r).val).val
    BY <1>1, <1>2, AllGoOn DEF GoesOn
  <2>3. debit'[r] # NoMoney /\ credit'[r] # NoMoney
    <3>1. SoundInv'
      BY SoundStep DEF ApartInv
    <3>2. /\ input'[r].debit \in Accounts
          /\ debit'[r].currency = balance'[input'[r].debit].currency
          /\ input'[r].credit \in Accounts
          /\ credit'[r].currency = balance'[input'[r].credit].currency
      BY <1>2, <3>1 DEF SoundInv, ChecksHold, OfAccount
    <3>3. \A a \in Accounts : balance'[a].currency \in Currencies
      BY <3>1 DEF SoundInv, IndInv, TypeOK, Money
    <3>4. NoMoney.currency \notin Currencies
      BY DEF NoMoney, Currencies
    <3> QED
      BY <3>2, <3>3, <3>4
  <2>4. PICK d, c, n : /\ d = input[r].debit /\ c = input[r].credit
                       /\ n = input[r].amount
    OBVIOUS
  <2>5. d \in Accounts /\ c \in Accounts /\ d # c
    BY <1>1, <1>2, <2>4 DEF ChecksHold, OfAccount, MoneyFits, TypeOK
  <2>6. debit[r] = balance[d] /\ credit[r] = balance[c] /\ n \in 0 .. balance[d].amount
    BY <2>1, <2>4
  <2>7. Amount(r).val.amount = n
    BY <1>1, <1>2, <2>4, AmountAsked DEF ChecksHold
  <2>8. /\ balance[d] \in Money /\ balance[c] \in Money
        /\ balance[d].amount \in Int64 /\ balance[c].amount \in Int64
        /\ balance[d].amount >= 0 /\ balance[c].amount >= 0
    BY <1>1, <2>5 DEF TypeOK, Money, BooksBalance, BalancesNonNegative
  <2>9. balance[d].amount + balance[c].amount <= IntMax
    BY <1>1, <2>5, CreditFits DEF BooksBalance
  <2>10. /\ n \in Nat /\ balance[d].amount \in Int /\ balance[c].amount \in Int
         /\ balance[d].amount - n \in Int64 /\ balance[c].amount + n \in Int64
         /\ balance[d].amount + n \in Int
    BY <2>6, <2>8, <2>9, IntMaxAssumption DEF Int64
  <2>11. debit'[r].amount = balance[d].amount - n
    BY <2>2, <2>6, <2>7, <2>8, <2>10, SubtractIsExact
  <2>12. credit'[r].amount = balance[c].amount + n
    BY <2>2, <2>6, <2>7, <2>8, <2>10, AddIsExact
  <2> QED
    BY <2>1, <2>3, <2>4, <2>11, <2>12
<1>3. CASE Writing(r) /\ debit'[r] = debit[r] /\ credit'[r] = credit[r]
  BY <1>1, <1>3 DEF ReadsAreFresh
<1> QED
  BY <1>1, <1>2, <1>3, WritingStep

\* Hence what is read stays what is stored, as long as it matters.
LEMMA FreshStep ==
  ASSUME MoneyFits, ApartInv, [Next]_vars
  PROVE  ReadsAreFresh'
<1> USE DEF AfterDebit, AfterCredit, AfterFunds, AfterBuild, Statements
<1>1. input' = input
  BY InputIsFixed
<1>2. SoundInv'
  BY SoundStep DEF ApartInv
<1>3. ASSUME NEW r \in Requests, pc'[r] \in AfterDebit \/ Writing(r)'
      PROVE  balance'[input[r].debit] = balance[input[r].debit]
  <2>1. InTransfer(r)'
    BY <1>3 DEF Writing, InTransfer
  <2>2. input[r].debit \in Accounts
    BY <1>1, <1>2, <1>3 DEF Writing, SoundInv, ChecksHold, OfAccount, IndInv,
       WorkFollowsPc, WrittenWhole, WorkIsSound, Sound
  <2> QED
    BY <2>1, <2>2, AccountsStay
<1>4. ASSUME NEW r \in Requests, pc'[r] \in AfterCredit \/ Writing(r)'
      PROVE  balance'[input[r].credit] = balance[input[r].credit]
  <2>1. InTransfer(r)'
    BY <1>4 DEF Writing, InTransfer
  <2>2. input[r].credit \in Accounts
    BY <1>1, <1>2, <1>4 DEF Writing, SoundInv, ChecksHold, OfAccount, IndInv,
       WorkFollowsPc, WrittenWhole, WorkIsSound, Sound
  <2> QED
    BY <2>1, <2>2, AccountsStay
<1> QED
  BY <1>1, <1>3, <1>4, ReadsStep, WritesStep DEF ReadsAreFresh

----------------------------------------------------------------------------
\* The commit of a transfer.

\* What moves between two elements leaves the sum as it was.
LEMMA SumOfTransfer ==
  ASSUME NEW S, IsFiniteSet(S), NEW d \in S, NEW c \in S, d # c,
         NEW f, NEW g, NEW n \in Int, \A x \in S : f[x] \in Int,
         g[d] = f[d] - n, g[c] = f[c] + n, \A x \in S \ {d, c} : g[x] = f[x]
  PROVE  SumFunctionOnSet(g, S) = SumFunctionOnSet(f, S)
<1>1. PICK R : R = (S \ {d}) \ {c}
  OBVIOUS
<1>2. /\ IsFiniteSet(S \ {d}) /\ IsFiniteSet(R)
  BY <1>1, FS_Subset
<1>3. \A x \in S : g[x] \in Int
  OBVIOUS
<1>4. /\ SumFunctionOnSet(f, S) = f[d] + SumFunctionOnSet(f, S \ {d})
      /\ SumFunctionOnSet(g, S) = g[d] + SumFunctionOnSet(g, S \ {d})
  BY <1>3, SumTakesAny
<1>5. /\ SumFunctionOnSet(f, S \ {d}) = f[c] + SumFunctionOnSet(f, R)
      /\ SumFunctionOnSet(g, S \ {d}) = g[c] + SumFunctionOnSet(g, R)
  BY <1>1, <1>2, <1>3, SumTakesAny
<1>6. SumFunctionOnSet(g, R) = SumFunctionOnSet(f, R)
  BY <1>1, <1>2, SumOfSame
<1>7. SumFunctionOnSet(f, R) \in Int /\ f[d] \in Int /\ f[c] \in Int
  BY <1>1, <1>2, SumIsInt
<1> QED
  BY <1>4, <1>5, <1>6, <1>7

\* How it leaves the tables (uow.go:40-44): n goes from d to c, and the two entries say so.
Transfers(d, c, n) ==
  /\ d \in Accounts /\ c \in Accounts /\ d # c
  /\ n \in Nat /\ n <= balance[d].amount
  /\ balance'[d].amount = balance[d].amount - n
  /\ balance'[c].amount = balance[c].amount + n
  /\ \A a \in Accounts \ {d, c} : balance'[a] = balance[a]
  /\ \E x, y : /\ x # y /\ x \notin entries /\ y \notin entries
               /\ entries' = entries \cup {x, y}
               /\ x.account = d /\ x.direction = "DEBIT" /\ x.amount.amount = n
               /\ y.account = c /\ y.direction = "CREDIT" /\ y.amount.amount = n

LEMMA CommitTransfers ==
  ASSUME MoneyFits, ApartInv, NEW r \in Requests, Commits(r)
  PROVE  Transfers(input[r].debit, input[r].credit, input[r].amount)
<1>1. PICK d, c, n : /\ d = input[r].debit /\ c = input[r].credit /\ n = input[r].amount
  OBVIOUS
<1>2. /\ TypeOK /\ SessionFollowsPc /\ WorkFollowsPc /\ WholePostings /\ PostedAreFinished
      /\ WrittenWhole(r) /\ Publish(r) /\ Writing(r)
  BY CommitEnds DEF ApartInv, SoundInv, IndInv
<1>3. d \in Accounts /\ c \in Accounts /\ d # c
  BY <1>1, <1>2 DEF ApartInv, SoundInv, WorkIsSound, Sound, WrittenWhole, MoneyFits, TypeOK
<1>4. /\ n \in 0 .. balance[d].amount
      /\ debit[r].amount = balance[d].amount - n
      /\ credit[r].amount = balance[c].amount + n
      /\ debit[r] # NoMoney /\ credit[r] # NoMoney
  BY <1>1, <1>2 DEF ApartInv, TransfersAreFresh, ReadsAreFresh
<1>5. n \in Nat /\ n <= balance[d].amount
  BY <1>2, <1>3, <1>4, AmountsAreInt
<1>6. work[r].balances[d] = debit[r] /\ work[r].balances[c] = credit[r]
  <2>1. pc[r] = "commit" \/ session[r] = "committing"
    BY DEF Commits, Commit, ServerCommits
  <2> QED
    BY <1>1, <1>3, <2>1 DEF ApartInv, TransfersAreFresh, HoldsBalances
<1>8. \A a \in Accounts \ {d, c} : work[r].balances[a] = NoMoney
  BY <1>1, <1>2 DEF WorkFollowsPc
<1>9. balance' = [a \in Accounts |-> IF work[r].balances[a] = NoMoney THEN balance[a]
                                     ELSE work[r].balances[a]]
  BY <1>2 DEF Publish
<1>10. /\ balance'[d] = debit[r] /\ balance'[c] = credit[r]
       /\ \A a \in Accounts \ {d, c} : balance'[a] = balance[a]
  BY <1>3, <1>4, <1>6, <1>8, <1>9
<1>11. \E x, y : /\ x # y /\ x \notin entries /\ y \notin entries
                 /\ entries' = entries \cup {x, y}
                 /\ x.account = d /\ x.direction = "DEBIT" /\ x.amount.amount = n
                 /\ y.account = c /\ y.direction = "CREDIT" /\ y.amount.amount = n
  BY <1>1, <1>2, PostingAddsTwoEntries DEF ApartInv
<1>17. Transfers(d, c, n)
  BY <1>3, <1>4, <1>5, <1>10, <1>11 DEF Transfers
<1> QED
  BY <1>1, <1>17

\* It is of a positive amount (entry.go:51-57).
LEMMA CommittedIsPositive ==
  ASSUME SoundInv, NEW r \in Requests, Commits(r)
  PROVE  input[r].amount > 0
<1>1. work[r].transactions # {}
  BY CommitEnds DEF SoundInv, IndInv, WrittenWhole
<1> QED
  BY <1>1 DEF SoundInv, WorkIsSound, Sound

\* The books still balance after it.
LEMMA TransferKeepsBooks ==
  ASSUME MoneyFits, TypeOK, TypeOK', BooksBalance, NEW d, NEW c, NEW n, Transfers(d, c, n)
  PROVE  BooksBalance'
<1>1. /\ d \in Accounts /\ c \in Accounts /\ d # c /\ n \in Nat /\ n <= balance[d].amount
      /\ balance'[d].amount = balance[d].amount - n
      /\ balance'[c].amount = balance[c].amount + n
      /\ \A a \in Accounts \ {d, c} : balance'[a] = balance[a]
  BY DEF Transfers
<1>2. \A a \in Accounts : balance[a].amount \in Int /\ balance[a].amount >= 0
  BY AmountsAreInt DEF BooksBalance, BalancesNonNegative
<1>3. PICK x, y : /\ x # y /\ x \notin entries /\ y \notin entries
                  /\ entries' = entries \cup {x, y}
                  /\ x.account = d /\ x.direction = "DEBIT" /\ x.amount.amount = n
                  /\ y.account = c /\ y.direction = "CREDIT" /\ y.amount.amount = n
  BY DEF Transfers
<1>4. IsFiniteSet(entries')
  <2>1. IsFiniteSet(entries \cup {x})
    BY FS_AddElement DEF BooksBalance
  <2>2. IsFiniteSet((entries \cup {x}) \cup {y})
    BY <2>1, FS_AddElement
  <2>3. entries' = (entries \cup {x}) \cup {y}
    BY <1>3
  <2> QED
    BY <2>2, <2>3
<1>5. BalancesNonNegative'
  BY <1>1, <1>2 DEF BalancesNonNegative
<1>6. PostingsConserveMoney'
  <2>1. PICK f, g : f = Amounts(balance) /\ g = Amounts(balance')
    OBVIOUS
  <2>2. /\ \A a \in Accounts : f[a] = balance[a].amount /\ g[a] = balance'[a].amount
    BY <2>1 DEF Amounts
  <2>3. SumFunctionOnSet(g, Accounts) = SumFunctionOnSet(f, Accounts)
    <3>1. IsFiniteSet(Accounts) /\ n \in Int /\ \A a \in Accounts : f[a] \in Int
      BY <1>1, <1>2, <2>2 DEF MoneyFits
    <3>2. g[d] = f[d] - n /\ g[c] = f[c] + n /\ \A a \in Accounts \ {d, c} : g[a] = f[a]
      BY <1>1, <2>2
    <3> QED
      BY <1>1, <3>1, <3>2, SumOfTransfer
  <2> QED
    BY <2>1, <2>3 DEF BooksBalance, PostingsConserveMoney, Total
<1>7. BalancesMatchEntries'
  <2>1. PICK f, g : f = Movement /\ g = Movement'
    OBVIOUS
  <2>2. /\ \A e \in entries : f[e] = g[e]
        /\ g[x] = - n /\ g[y] = n
    BY <1>3, <2>1 DEF Movement
  <2>3. /\ \A e \in entries : f[e] \in Int /\ g[e] \in Int
        /\ g[x] \in Int /\ g[y] \in Int
    BY <1>1, <1>3, <2>1, <2>2 DEF Movement, BooksBalance
  <2>4. ASSUME NEW a \in Accounts
        PROVE  balance'[a].amount = Seed[a].amount + SumFunctionOnSet(g, EntriesOf(a)')
    <3>1. PICK S : S = EntriesOf(a)
      OBVIOUS
    <3>2. S \subseteq entries /\ IsFiniteSet(S)
      BY <3>1, FS_Subset DEF EntriesOf, BooksBalance
    <3>3. /\ balance[a].amount = Seed[a].amount + SumFunctionOnSet(g, S)
          /\ SumFunctionOnSet(g, S) \in Int /\ Seed[a].amount \in Int
      <4>1. SumFunctionOnSet(f, S) = SumFunctionOnSet(g, S)
        BY <2>2, <3>2, SumOfSame
      <4>2. SumFunctionOnSet(g, S) \in Int
        BY <2>3, <3>2, SumIsInt
      <4>3. Seed[a].amount \in Int
        BY LedgerAssumption, IntMaxAssumption DEF Money, Int64
      <4> QED
        BY <2>1, <3>1, <4>1, <4>2, <4>3 DEF BooksBalance, BalancesMatchEntries
    <3>4. EntriesOf(a)' = {e \in entries \cup {x, y} : e.account = a}
      BY <1>3 DEF EntriesOf
    <3>5. CASE a = d
      <4>1. EntriesOf(a)' = S \cup {x}
        BY <1>1, <1>3, <3>1, <3>4, <3>5 DEF EntriesOf
      <4>2. SumFunctionOnSet(g, S \cup {x}) = SumFunctionOnSet(g, S) + g[x]
        BY <1>3, <2>3, <3>2, SumAdds
      <4> QED
        BY <1>1, <2>2, <3>3, <3>5, <4>1, <4>2
    <3>6. CASE a = c
      <4>1. EntriesOf(a)' = S \cup {y}
        BY <1>1, <1>3, <3>1, <3>4, <3>6 DEF EntriesOf
      <4>2. SumFunctionOnSet(g, S \cup {y}) = SumFunctionOnSet(g, S) + g[y]
        BY <1>3, <2>3, <3>2, SumAdds
      <4> QED
        BY <1>1, <2>2, <3>3, <3>6, <4>1, <4>2
    <3>7. CASE a \notin {d, c}
      <4>1. EntriesOf(a)' = S
        BY <1>3, <3>1, <3>4, <3>7 DEF EntriesOf
      <4> QED
        BY <1>1, <3>3, <3>7, <4>1
    <3> QED
      BY <3>5, <3>6, <3>7
  <2> QED
    BY <2>1, <2>4 DEF BalancesMatchEntries
<1> QED
  <2>1. \A e \in entries' : e.amount.amount \in Int
    BY <1>1, <1>3 DEF BooksBalance
  <2> QED
    BY <1>4, <1>5, <1>6, <1>7, <2>1 DEF BooksBalance

----------------------------------------------------------------------------
\* The theorems about transfers that share no account.

LEMMA ApartInit ==
  ASSUME Init
  PROVE  ApartInv
<1>1. SoundInv
  BY InitSound
<1>2. Apart /\ ReadsAreFresh /\ \A r \in Requests : HoldsBalances(r)
  BY DEF Init, Apart, InTransfer, ReadsAreFresh, HoldsBalances, Writing, AfterBuild,
     Statements
<1>3. BooksBalance
  <2>1. entries = {} /\ balance = Seed /\ \A a : EntriesOf(a) = {}
    BY DEF Init, EntriesOf
  <2>2. \A a \in Accounts : Seed[a].amount \in Int /\ Seed[a].amount >= 0
    BY LedgerAssumption, IntMaxAssumption DEF Money, Int64
  <2>3. BalancesMatchEntries
    <3>1. \A a : SumFunctionOnSet(Movement, EntriesOf(a)) = 0
      BY <2>1, SumOfNothing
    <3> QED
      BY <2>1, <2>2, <3>1 DEF BalancesMatchEntries
  <2> QED
    BY <2>1, <2>2, <2>3, FS_EmptySet
       DEF BooksBalance, PostingsConserveMoney, BalancesNonNegative
<1> QED
  BY <1>1, <1>2, <1>3 DEF ApartInv, TransfersAreFresh

LEMMA ApartStep ==
  ASSUME MoneyFits, ApartInv, [NextApart]_vars
  PROVE  ApartInv'
<1>1. [Next]_vars /\ SoundInv /\ BooksBalance /\ \A r \in Requests : HoldsBalances(r)
  BY DEF ApartInv, TransfersAreFresh, NextApart
<1>2. SoundInv'
  BY <1>1, SoundStep
<1>3. \A r \in Requests : HoldsBalances(r)'
  BY <1>1, HoldsBalancesStep DEF SoundInv, IndInv
<1>4. BooksBalance'
  <2>1. CASE UNCHANGED tables
    BY <1>1, <2>1 DEF tables, BooksBalance, BalancesMatchEntries, PostingsConserveMoney,
       BalancesNonNegative, Movement, EntriesOf
  <2>2. ASSUME NEW r \in Requests, Commits(r) PROVE BooksBalance'
    <3>1. Transfers(input[r].debit, input[r].credit, input[r].amount)
      BY <2>2, CommitTransfers
    <3> QED
      BY <1>1, <1>2, <3>1, TransferKeepsBooks DEF SoundInv, IndInv
  <2> QED
    BY <1>1, <2>1, <2>2, OnlyCommits
<1>5. Apart'
  BY DEF ApartInv, NextApart, Apart, InTransfer, vars, request
<1> QED
  BY <1>1, <1>2, <1>3, <1>4, <1>5, FreshStep DEF ApartInv, TransfersAreFresh

\* Every state satisfies the invariant.
THEOREM ApartInvariance ==
  ASSUME MoneyFits
  PROVE  SpecApart => []ApartInv
<1>1. Init => ApartInv
  BY ApartInit
<1>2. ApartInv /\ [NextApart]_vars => ApartInv'
  BY ApartStep
<1> QED
  BY <1>1, <1>2, PTL DEF SpecApart

\* What a request has read is still what is stored when its balances are committed, by
\* Execute or later by the database (create_transaction.go:69-180).
THEOREM ReadsStayFresh ==
  ASSUME MoneyFits
  PROVE  SpecApart => []TransfersAreFresh
<1>1. ApartInv => TransfersAreFresh
  BY DEF ApartInv
<1> QED
  BY <1>1, ApartInvariance, PTL

\* As long as no account is in two transfers at a time, every balance is what the
\* entries of the account add up to, whatever fails, is cancelled or crashes and however
\* late a COMMIT is done (README.md:12, uow.go:26-44, repository/account.go:117).
THEOREM BooksMatch ==
  ASSUME MoneyFits
  PROVE  SpecApart => []BalancesMatchEntries
<1>1. ApartInv => BalancesMatchEntries
  BY DEF ApartInv, TransfersAreFresh, BooksBalance
<1> QED
  BY <1>1, ApartInvariance, PTL

\* ... and the money of all accounts together is what it was at the start
\* (README.md:11): no cent appears or disappears.
THEOREM MoneyIsConserved ==
  ASSUME MoneyFits
  PROVE  SpecApart => []PostingsConserveMoney
<1>1. ApartInv => PostingsConserveMoney
  BY DEF ApartInv, TransfersAreFresh, BooksBalance
<1> QED
  BY <1>1, ApartInvariance, PTL

\* Then each request is one transfer of money that is there, or nothing: a step of the
\* abstract book, or a stutter (create_transaction.go:55-211). The transfer is the commit
\* of a posting, which is of a positive amount as PostingsAreSound says.
THEOREM BookRefinement ==
  ASSUME MoneyFits
  PROVE  SpecApart => ImplementsBook
<1>1. Init => AsBook!Init
  BY DEF Init, AsBook!Init
<1>2. ApartInv /\ [NextApart]_vars => AsBook!Next \/ UNCHANGED Amounts(balance)
  <2> SUFFICES ASSUME ApartInv, [NextApart]_vars
               PROVE  AsBook!Next \/ UNCHANGED Amounts(balance)
    OBVIOUS
  <2>1. CASE UNCHANGED tables
    BY <2>1 DEF tables, Amounts
  <2>2. ASSUME NEW r \in Requests, Commits(r)
        PROVE  AsBook!Next
    <3>1. PICK d, c, n : d = input[r].debit /\ c = input[r].credit /\ n = input[r].amount
      OBVIOUS
    <3>2. Transfers(d, c, n)
      BY <2>2, <3>1, CommitTransfers
    <3>3. n > 0
      BY <2>2, <3>1, CommittedIsPositive DEF ApartInv
    <3>4. PICK f, g : f = Amounts(balance) /\ g = Amounts(balance')
      OBVIOUS
    <3>5. /\ d \in Accounts /\ c \in Accounts /\ d # c
          /\ f[d] = balance[d].amount /\ f[c] = balance[c].amount
      BY <3>2, <3>4 DEF Transfers, Amounts
    <3>6. g = [f EXCEPT ![d] = @ - n, ![c] = @ + n]
      BY <3>2, <3>4, <3>5 DEF Transfers, Amounts
    <3>7. n \in 1 .. f[d]
      BY <3>2, <3>3, <3>5, AmountsAreInt DEF Transfers, ApartInv, SoundInv, IndInv
    <3>8. Amounts(balance)' = g
      BY <3>4 DEF Amounts
    <3>9. AsBook!Transfer(d, c, n)
      BY <3>4, <3>6, <3>7, <3>8 DEF AsBook!Transfer
    <3> QED
      BY <3>4, <3>5, <3>7, <3>9 DEF AsBook!Next
  <2> QED
    BY <2>1, <2>2, OnlyCommits DEF NextApart
<1> QED
  BY <1>1, <1>2, ApartInvariance, PTL DEF SpecApart, ImplementsBook, AsBook!Spec

============================================================================
