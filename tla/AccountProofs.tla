---------------------------- MODULE AccountProofs ----------------------------
(***************************************************************************)
(* What AccountCreation guarantees of the table accounts and of the        *)
(* replies of Handle, for any calls, inputs and balances.                  *)
(***************************************************************************)
EXTENDS AccountCreation, TLAPS

\* A call that is about to save has an account that NewAccount did not refuse.
EntityIsBuilt ==
  \A r \in Calls : pc[r] = "save" => /\ entity[r] = NewAccount(r, input[r])
                                     /\ NewAccountError(input[r]) = NoError

\* a is the row of the call that its id names, which is no longer being handled.
RowOfCall(a) ==
  /\ a.id \in Calls
  /\ pc[a.id] \in {"returned", "lost"}
  /\ NewAccountError(input[a.id]) = NoError
  /\ a.balance \in Int64
  /\ a = [ToAccountModel(NewAccount(a.id, input[a.id])) EXCEPT !.balance = a.balance]

RowsOfCalls == \A a \in accounts \cup sent : RowOfCall(a)

\* What a reply says of the table when it is given, and ever after.
RepliesStayTrue ==
  \A r \in Calls :
    /\ reply[r].status \in Statuses
    /\ reply[r].account \in {NoAccount, r}
    /\ reply[r].status = "OK" =>
         reply[r].account = r /\ \E a \in accounts : a.id = r
    /\ reply[r].status = "AlreadyExists" =>
         \E a \in accounts : a.external = input[r].external /\ a.id # r

ControlType ==
  /\ pc \in [Calls -> {"idle", "find", "save", "returned", "lost"}]
  /\ input \in [Calls -> Inputs]
  /\ DOMAIN entity = Calls
  /\ DOMAIN reply = Calls

\* The inductive invariant.
IndInv ==
  /\ ControlType
  /\ EntityIsBuilt
  /\ RowsOfCalls
  /\ RepliesStayTrue
  /\ OneAccountPerExternalID

----------------------------------------------------------------------------
\* The row of an input.

\* NewAccount accepts only what the table may hold (account.go:42-54).
LEMMA Accepted ==
  ASSUME NEW i, NewAccountError(i) = NoError
  PROVE  i.type \in AccountTypes /\ i.external # "" /\ i.currency \in Currencies
BY DEF NewAccountError, NewMoney, MoneyError, NoError

\* The row that Save makes.
LEMMA NewRow ==
  ASSUME NEW r, NEW i, NewAccountError(i) = NoError
  PROVE  ToAccountModel(NewAccount(r, i)) =
           [id |-> r, external |-> i.external, type |-> i.type,
            balance |-> 0, currency |-> i.currency]
<1>1. i.currency \in Currencies
  BY Accepted
<1>2. NewMoney(0, i.currency).val = [amount |-> 0, currency |-> i.currency]
  BY <1>1 DEF NewMoney, Returns
<1> QED
  BY <1>2 DEF ToAccountModel, NewAccount

\* The columns of the row of a call, whatever its balance.
LEMMA Columns ==
  ASSUME NEW r, NEW i, NewAccountError(i) = NoError, NEW n,
         NEW a, a = [ToAccountModel(NewAccount(r, i)) EXCEPT !.balance = n]
  PROVE  /\ a.id = r /\ a.external = i.external /\ a.type = i.type
         /\ a.currency = i.currency /\ a.balance = n
BY NewRow

\* A call that is about to save: its row once it has returned.
LEMMA SavedRow ==
  ASSUME IndInv, NEW r \in Calls, pc[r] = "save", NEW a, a = ToAccountModel(entity[r]),
         input' = input, pc'[r] \in {"returned", "lost"}
  PROVE  RowOfCall(a)' /\ a.id = r /\ a.external = entity[r].external
<1>1. a = ToAccountModel(NewAccount(r, input[r])) /\ NewAccountError(input[r]) = NoError
  BY DEF IndInv, EntityIsBuilt
<1>2. /\ a = [a EXCEPT !.balance = a.balance] /\ a.balance \in Int64 /\ a.id = r
  BY <1>1, NewRow, IntMaxAssumption DEF Int64
<1>3. a.external = entity[r].external
  BY DEF ToAccountModel
<1> QED
  BY <1>1, <1>2, <1>3 DEF RowOfCall

\* A row stays one while the calls go on.
LEMMA RowStays ==
  ASSUME NEW a, RowOfCall(a), input' = input, pc'[a.id] \in {"returned", "lost"}
  PROVE  RowOfCall(a)'
BY DEF RowOfCall

\* The status that GRPCStatus gives.
LEMMA StatusOf ==
  \A err : /\ GRPCStatus(err) \in Statuses
           /\ GRPCStatus(err) = "OK" <=> err = NoError
           /\ GRPCStatus(err) = "AlreadyExists" => err = "ErrAccountAlreadyExists"
BY DEF GRPCStatus, FaultCode, translator, Statuses, NoError

----------------------------------------------------------------------------
\* The steps.

\* No call has arrived and the table is empty.
LEMMA Initially == Init => IndInv
BY DEF Init, IndInv, ControlType, EntityIsBuilt, RowsOfCalls, RepliesStayTrue,
       OneAccountPerExternalID, NoReply, Statuses

\* A step that answers no call and stores nothing keeps what replies say.
LEMMA RepliesKept ==
  ASSUME IndInv, UNCHANGED <<input, reply, accounts>>
  PROVE  RepliesStayTrue' /\ OneAccountPerExternalID'
BY DEF IndInv, RepliesStayTrue, OneAccountPerExternalID

\* Handle starts.
LEMMA ArriveStep ==
  ASSUME IndInv, NEW r \in Calls, Arrive(r)
  PROVE  IndInv'
<1>1. /\ ControlType' /\ EntityIsBuilt'
  BY DEF Arrive, IndInv, ControlType, EntityIsBuilt
<1>2. RowsOfCalls'
  <2>1. ASSUME NEW a \in accounts \cup sent PROVE RowOfCall(a)'
    <3>1. RowOfCall(a) /\ a.id # r
      BY DEF Arrive, IndInv, RowsOfCalls, RowOfCall
    <3>2. pc'[a.id] \in {"returned", "lost"} /\ input' = input
      BY <3>1 DEF Arrive, IndInv, ControlType, RowOfCall
    <3> QED
      BY <3>1, <3>2, RowStays
  <2> QED
    BY <2>1 DEF Arrive, RowsOfCalls
<1> QED
  BY <1>1, <1>2, RepliesKept DEF Arrive, IndInv

\* The entity is made.
LEMMA BuildStep ==
  ASSUME IndInv, NEW r \in Calls, BuildAccount(r)
  PROVE  IndInv'
<1>1. /\ pc[r] = "find" /\ NewAccountError(input[r]) = NoError
      /\ entity' = [entity EXCEPT ![r] = NewAccount(r, input[r])]
      /\ pc' = [pc EXCEPT ![r] = "save"]
      /\ UNCHANGED <<input, reply, accounts, sent>>
  BY DEF BuildAccount, RefusalError, NoError
<1>2. ControlType' /\ EntityIsBuilt'
  BY <1>1 DEF IndInv, ControlType, EntityIsBuilt
<1>3. RowsOfCalls'
  <2>1. ASSUME NEW a \in accounts \cup sent PROVE RowOfCall(a)'
    <3>1. RowOfCall(a) /\ a.id # r
      BY <1>1 DEF IndInv, RowsOfCalls, RowOfCall
    <3>2. pc'[a.id] \in {"returned", "lost"}
      BY <1>1, <3>1 DEF IndInv, ControlType, RowOfCall
    <3> QED
      BY <1>1, <3>1, <3>2, RowStays
  <2> QED
    BY <1>1, <2>1 DEF RowsOfCalls
<1> QED
  BY <1>1, <1>2, <1>3, RepliesKept DEF IndInv

\* A call returns with err, which the table bears out.
LEMMA ReplyStep ==
  ASSUME IndInv, NEW r \in Calls, NEW err, Reply(r, err),
         pc[r] \in {"find", "save"},
         UNCHANGED <<input, entity>>,
         accounts \subseteq accounts',
         err = NoError => \E a \in accounts' : a.id = r,
         err = "ErrAccountAlreadyExists" =>
           \E a \in accounts' : a.external = input[r].external /\ a.id # r
  PROVE  /\ ControlType' /\ EntityIsBuilt' /\ RepliesStayTrue'
         /\ pc'[r] = "returned"
         /\ \A a \in accounts \cup sent : RowOfCall(a)'
<1>1. /\ pc' = [pc EXCEPT ![r] = "returned"]
      /\ reply' = [reply EXCEPT ![r] = [status |-> GRPCStatus(err),
                     account |-> IF err = NoError THEN r ELSE NoAccount]]
  BY DEF Reply
<1>2. /\ ControlType' /\ EntityIsBuilt' /\ pc'[r] = "returned"
  BY <1>1 DEF IndInv, ControlType, EntityIsBuilt
<1>3. RepliesStayTrue'
  <2>1. ASSUME NEW q \in Calls
        PROVE  /\ reply'[q].status \in Statuses
               /\ reply'[q].account \in {NoAccount, q}
               /\ reply'[q].status = "OK" =>
                    reply'[q].account = q /\ \E a \in accounts' : a.id = q
               /\ reply'[q].status = "AlreadyExists" =>
                    \E a \in accounts' : a.external = input[q].external /\ a.id # q
    <3>1. CASE q = r
      <4>1. /\ reply'[q].status = GRPCStatus(err)
            /\ reply'[q].account = IF err = NoError THEN r ELSE NoAccount
        BY <1>1, <3>1 DEF IndInv, ControlType
      <4> QED
        BY <3>1, <4>1, StatusOf
    <3>2. CASE q # r
      <4>1. reply'[q] = reply[q]
        BY <1>1, <3>2 DEF IndInv, ControlType
      <4> QED
        BY <4>1 DEF IndInv, RepliesStayTrue
    <3> QED
      BY <3>1, <3>2
  <2> QED
    BY <2>1 DEF RepliesStayTrue
<1>4. ASSUME NEW a \in accounts \cup sent PROVE RowOfCall(a)'
  <2>1. RowOfCall(a) /\ pc'[a.id] \in {"returned", "lost"}
    BY <1>1 DEF IndInv, RowsOfCalls, RowOfCall, ControlType
  <2> QED
    BY <2>1, RowStays
<1> QED
  BY <1>2, <1>3, <1>4

\* An account that FindByExternalID found is another call's.
LEMMA RefusedForAnother ==
  ASSUME IndInv, NEW r \in Calls, pc[r] = "find",
         RefusalError(input[r]) = "ErrAccountAlreadyExists"
  PROVE  \E a \in accounts : a.external = input[r].external /\ a.id # r
<1>1. NewAccountError(input[r]) # "ErrAccountAlreadyExists"
  BY DEF NewAccountError, NewMoney, MoneyError, Returns, NoError
<1>2. FindByExternalID(input[r].external) # "ErrAccountAlreadyExists"
  BY DEF FindByExternalID, ToAccountDomain, NewMoney, MoneyError, Returns, NoError
<1>3. FindByExternalID(input[r].external) = NoError
  BY <1>1, <1>2 DEF RefusalError
<1>4. RowsOf(input[r].external) # {}
  BY <1>3 DEF FindByExternalID, NoError
<1>5. PICK a \in accounts : a.external = input[r].external
  BY <1>4 DEF RowsOf
<1>6. a.id # r
  BY DEF IndInv, RowsOfCalls, RowOfCall
<1> QED
  BY <1>5, <1>6

\* A call is refused.
LEMMA RefuseStep ==
  ASSUME IndInv, NEW r \in Calls, Refuse(r)
  PROVE  IndInv'
<1> DEFINE err == RefusalError(input[r])
<1>1. /\ pc[r] = "find" /\ err # NoError /\ Reply(r, err)
      /\ UNCHANGED <<input, entity, accounts, sent>>
  BY DEF Refuse
<1>2. err = "ErrAccountAlreadyExists" =>
        \E a \in accounts : a.external = input[r].external /\ a.id # r
  BY <1>1, RefusedForAnother
<1> HIDE DEF err
<1>3. /\ ControlType' /\ EntityIsBuilt' /\ RepliesStayTrue'
      /\ \A a \in accounts \cup sent : RowOfCall(a)'
  BY <1>1, <1>2, ReplyStep
<1>4. RowsOfCalls' /\ OneAccountPerExternalID'
  BY <1>1, <1>3 DEF IndInv, RowsOfCalls, OneAccountPerExternalID
<1> QED
  BY <1>3, <1>4 DEF IndInv

\* The INSERT, which the unique index refuses or not.
LEMMA SaveStep ==
  ASSUME IndInv, NEW r \in Calls, Save(r)
  PROVE  IndInv'
<1>0. PICK new : new = ToAccountModel(entity[r])
  OBVIOUS
<1>1. pc[r] = "save" /\ UNCHANGED <<input, entity, sent>>
  BY DEF Save
<1>2. CASE Reply(r, "unique_violation") /\ UNCHANGED accounts
  <2>1. "unique_violation" # NoError
    BY DEF NoError
  <2>2. /\ ControlType' /\ EntityIsBuilt' /\ RepliesStayTrue'
        /\ \A a \in accounts \cup sent : RowOfCall(a)'
    BY <1>1, <1>2, <2>1, ReplyStep
  <2> QED
    BY <1>1, <1>2, <2>2 DEF IndInv, RowsOfCalls, OneAccountPerExternalID
<1>3. CASE /\ ~ IsTaken(entity[r].external)
           /\ accounts' = accounts \cup {new}
           /\ Reply(r, NoError)
  <2>1. pc'[r] = "returned"
    BY <1>3 DEF Reply, IndInv, ControlType
  <2>2. RowOfCall(new)' /\ new.id = r /\ new.external = entity[r].external
    BY <1>0, <1>1, <2>1, SavedRow
  <2>3. /\ ControlType' /\ EntityIsBuilt' /\ RepliesStayTrue'
        /\ \A a \in accounts \cup sent : RowOfCall(a)'
    <3>1. \E a \in accounts' : a.id = r
      BY <1>3, <2>2
    <3>2. NoError # "ErrAccountAlreadyExists"
      BY DEF NoError
    <3> QED
      BY <1>1, <1>3, <3>1, <3>2, ReplyStep
  <2>4. RowsOfCalls'
    BY <1>1, <1>3, <2>2, <2>3 DEF RowsOfCalls
  <2>5. OneAccountPerExternalID'
    BY <1>3, <2>2 DEF IndInv, OneAccountPerExternalID, IsTaken, RowsOf
  <2> QED
    BY <2>3, <2>4, <2>5 DEF IndInv
<1> QED
  BY <1>0, <1>2, <1>3 DEF Save

\* The context of a call ends, whose INSERT may outlive it.
LEMMA CancelStep ==
  ASSUME IndInv, NEW r \in Calls, CancelFind(r) \/ CancelSave(r)
  PROVE  IndInv'
<1>1. /\ pc[r] \in {"find", "save"} /\ Reply(r, "context canceled")
      /\ UNCHANGED <<input, entity, accounts>>
  BY DEF CancelFind, CancelSave
<1>2. "context canceled" # NoError
  BY DEF NoError
<1>3. /\ ControlType' /\ EntityIsBuilt' /\ RepliesStayTrue' /\ pc'[r] = "returned"
      /\ \A a \in accounts \cup sent : RowOfCall(a)'
  BY <1>1, <1>2, ReplyStep
<1>4. ASSUME NEW a \in sent' PROVE RowOfCall(a)'
  <2>1. CASE a \in sent
    BY <1>3, <2>1
  <2>2. CASE a \notin sent
    <3>1. pc[r] = "save" /\ a = ToAccountModel(entity[r])
      BY <1>4, <2>2 DEF CancelFind, CancelSave
    <3> QED
      BY <1>1, <1>3, <3>1, SavedRow
  <2> QED
    BY <2>1, <2>2
<1>5. RowsOfCalls' /\ OneAccountPerExternalID'
  BY <1>1, <1>3, <1>4 DEF IndInv, RowsOfCalls, OneAccountPerExternalID
<1> QED
  BY <1>3, <1>5 DEF IndInv

\* The process ends: INSERTs may outlive all its calls.
LEMMA LoseStep ==
  ASSUME IndInv, LoseCalls
  PROVE  IndInv'
<1>1. /\ pc' = [r \in Calls |-> IF r \in Handling THEN "lost" ELSE pc[r]]
      /\ UNCHANGED <<input, entity, reply, accounts>>
  BY DEF LoseCalls
<1>2. \A r \in Calls : pc'[r] \in {pc[r], "lost"} /\ (pc[r] = "save" => pc'[r] = "lost")
  BY <1>1 DEF Handling
<1>3. ControlType' /\ EntityIsBuilt'
  BY <1>1, <1>2 DEF IndInv, ControlType, EntityIsBuilt
<1>4. ASSUME NEW a \in accounts \cup sent PROVE RowOfCall(a)'
  <2>1. RowOfCall(a) /\ pc'[a.id] \in {"returned", "lost"}
    BY <1>2 DEF IndInv, RowsOfCalls, RowOfCall
  <2> QED
    BY <1>1, <2>1, RowStays
<1>5. ASSUME NEW a \in sent' PROVE RowOfCall(a)'
  <2>1. PICK S \in SUBSET {r \in Calls : pc[r] = "save"} :
          sent' = sent \cup {ToAccountModel(entity[r]) : r \in S}
    BY DEF LoseCalls
  <2>2. CASE a \in sent
    BY <1>4, <2>2
  <2>3. CASE a \notin sent
    <3>1. PICK r \in S : a = ToAccountModel(entity[r])
      BY <1>5, <2>1, <2>3
    <3>2. r \in Calls /\ pc[r] = "save" /\ pc'[r] = "lost"
      BY <1>2
    <3> QED
      BY <1>1, <3>1, <3>2, SavedRow
  <2> QED
    BY <2>2, <2>3
<1>6. RowsOfCalls'
  BY <1>1, <1>4, <1>5 DEF RowsOfCalls
<1> QED
  BY <1>1, <1>3, <1>6, RepliesKept DEF IndInv

\* The database: a forgotten INSERT arrives or does not; a posting moves a balance.
LEMMA DatabaseStep ==
  ASSUME IndInv, Database
  PROVE  IndInv'
<1>1. UNCHANGED <<pc, input, entity, reply>>
  BY DEF Database, ServerInserts, ServerDrops, BalanceMoves, call
<1>2. ControlType' /\ EntityIsBuilt' /\ \A a : RowOfCall(a) => RowOfCall(a)'
  BY <1>1 DEF IndInv, ControlType, EntityIsBuilt, RowOfCall
<1>3. CASE \E a \in sent : ServerInserts(a) \/ ServerDrops(a)
  <2>1. PICK a \in sent : ServerInserts(a) \/ ServerDrops(a)
    BY <1>3
  <2>2. /\ sent' \subseteq sent /\ accounts \subseteq accounts'
        /\ accounts' \subseteq accounts \cup {a}
        /\ a \in accounts' => a \in accounts \/ ~ IsTaken(a.external)
    BY <2>1 DEF ServerInserts, ServerDrops
  <2>3. RowsOfCalls'
    BY <1>2, <2>2 DEF IndInv, RowsOfCalls
  <2>4. RepliesStayTrue'
    BY <1>1, <2>2 DEF IndInv, RepliesStayTrue
  <2>5. OneAccountPerExternalID'
    BY <2>2 DEF IndInv, OneAccountPerExternalID, IsTaken, RowsOf
  <2> QED
    BY <1>2, <2>3, <2>4, <2>5 DEF IndInv
<1>4. CASE \E a \in accounts, n \in Balances : BalanceMoves(a, n)
  <2>1. PICK a \in accounts, n \in Balances : BalanceMoves(a, n)
    BY <1>4
  <2> DEFINE new == [a EXCEPT !.balance = n]
  <2>2. accounts' = (accounts \ {a}) \cup {new} /\ sent' = sent
    BY <2>1 DEF BalanceMoves
  <2>3. RowOfCall(a) /\ n \in Int64
    BY CallsAssumption DEF IndInv, RowsOfCalls
  <2>4. /\ a.id \in Calls /\ NewAccountError(input[a.id]) = NoError
        /\ pc[a.id] \in {"returned", "lost"}
        /\ a = [ToAccountModel(NewAccount(a.id, input[a.id])) EXCEPT !.balance = a.balance]
    BY <2>3 DEF RowOfCall
  <2>5. new = [ToAccountModel(NewAccount(a.id, input[a.id])) EXCEPT !.balance = n]
    BY <2>4 DEF ToAccountModel
  <2> HIDE DEF new
  <2>6. new.id = a.id /\ new.external = input[a.id].external /\ new.balance = n
    <3> DEFINE id == a.id
               i == input[id]
    <3>1. NewAccountError(i) = NoError /\ new = [ToAccountModel(NewAccount(id, i)) EXCEPT !.balance = n]
      BY <2>4, <2>5
    <3> HIDE DEF id, i
    <3>2. ToAccountModel(NewAccount(id, i)) =
            [id |-> id, external |-> i.external, type |-> i.type,
             balance |-> 0, currency |-> i.currency]
      BY <3>1, NewRow
    <3>3. new.id = id /\ new.external = i.external /\ new.balance = n
      BY <3>1, <3>2
    <3> QED
      BY <3>3 DEF id, i
  <2>7. a.external = input[a.id].external
    BY <2>4, Columns
  <2>8. RowOfCall(new)
    BY <2>3, <2>4, <2>5, <2>6 DEF RowOfCall
  <2>9. RowsOfCalls'
    BY <1>2, <2>2, <2>8 DEF IndInv, RowsOfCalls
  <2>10. \A b \in accounts : \E c \in accounts' : c.id = b.id /\ c.external = b.external
    BY <2>2, <2>6, <2>7
  <2>11. RepliesStayTrue'
    <3>1. ASSUME NEW r \in Calls, reply[r].status = "OK"
          PROVE  \E c \in accounts' : c.id = r
      BY <2>10, <3>1 DEF IndInv, RepliesStayTrue
    <3>2. ASSUME NEW r \in Calls, reply[r].status = "AlreadyExists"
          PROVE  \E c \in accounts' : c.external = input[r].external /\ c.id # r
      BY <2>10, <3>2 DEF IndInv, RepliesStayTrue
    <3> QED
      BY <1>1, <3>1, <3>2 DEF IndInv, RepliesStayTrue
  <2>12. OneAccountPerExternalID'
    BY <2>2, <2>6, <2>7 DEF IndInv, OneAccountPerExternalID
  <2> QED
    BY <1>2, <2>9, <2>11, <2>12 DEF IndInv
<1> QED
  BY <1>3, <1>4 DEF Database

----------------------------------------------------------------------------
\* The theorems.

\* Every state of AccountCreation satisfies the invariant.
THEOREM Invariance == Spec => []IndInv
<1>1. IndInv /\ [Next]_vars => IndInv'
  <2> SUFFICES ASSUME IndInv, [Next]_vars PROVE IndInv'
    OBVIOUS
  <2>1. CASE \E r \in Calls : Arrive(r)
    BY <2>1, ArriveStep
  <2>2. CASE \E r \in Calls : BuildAccount(r)
    BY <2>2, BuildStep
  <2>3. CASE \E r \in Calls : Return(r)
    BY <2>3, RefuseStep, SaveStep, CancelStep DEF Return
  <2>4. CASE LoseCalls
    BY <2>4, LoseStep
  <2>5. CASE Database
    BY <2>5, DatabaseStep
  <2>6. CASE UNCHANGED vars
    BY <2>6 DEF vars, call, IndInv, ControlType, EntityIsBuilt, RowsOfCalls, RowOfCall,
                RepliesStayTrue, OneAccountPerExternalID
  <2> QED
    BY <2>1, <2>2, <2>3, <2>4, <2>5, <2>6 DEF Next
<1> QED
  BY <1>1, Initially, PTL DEF Spec

\* The invariant in the terms of the properties that TLC checks.
LEMMA Consequences ==
  ASSUME IndInv
  PROVE  TypeOK /\ ReplyTellsAccount
<1>1. ASSUME NEW a \in accounts \cup sent
      PROVE  /\ IsRow(a) /\ a.type \in AccountTypes /\ a.external # "" /\ a.currency \in Currencies
             /\ a.id \in Calls /\ a.external = input[a.id].external
             /\ a.type = input[a.id].type /\ a.currency = input[a.id].currency
  <2>1. RowOfCall(a)
    BY DEF IndInv, RowsOfCalls
  <2>2. /\ a.id \in Calls /\ NewAccountError(input[a.id]) = NoError /\ a.balance \in Int64
        /\ a = [ToAccountModel(NewAccount(a.id, input[a.id])) EXCEPT !.balance = a.balance]
    BY <2>1 DEF RowOfCall
  <2>3. /\ a.external = input[a.id].external
        /\ a.type = input[a.id].type /\ a.currency = input[a.id].currency
    BY <2>2, Columns
  <2> QED
    BY <2>2, <2>3, Accepted DEF IsRow
<1>2. ASSUME NEW r \in Calls, pc[r] = "save" PROVE IsRow(ToAccountModel(entity[r]))
  <2>1. entity[r] = NewAccount(r, input[r]) /\ NewAccountError(input[r]) = NoError
    BY <1>2 DEF IndInv, EntityIsBuilt
  <2> QED
    BY <2>1, NewRow, IntMaxAssumption, SMTT(30) DEF IsRow, Int64
<1>3. TypeOK
  BY <1>1, <1>2 DEF IndInv, ControlType, RepliesStayTrue, TypeOK
<1>4. ASSUME NEW r \in Calls, reply[r].status = "OK"
      PROVE  \E a \in accounts : /\ a.id = r /\ reply[r].account = r
                                 /\ a.external = input[r].external
                                 /\ a.type = input[r].type
                                 /\ a.currency = input[r].currency
  <2>1. PICK a \in accounts : a.id = r
    BY <1>4 DEF IndInv, RepliesStayTrue
  <2>2. /\ a.external = input[r].external /\ a.type = input[r].type
        /\ a.currency = input[r].currency
    BY <1>1, <2>1
  <2> QED
    BY <1>4, <2>1, <2>2 DEF IndInv, RepliesStayTrue
<1>5. ASSUME NEW r \in Calls, reply[r].status = "OK",
             NEW q \in Calls \ {r}, reply[q].status = "OK"
      PROVE  input[q].external # input[r].external
  <2>1. PICK a \in accounts : a.id = r /\ a.external = input[r].external
    BY <1>4, <1>5
  <2>2. PICK b \in accounts : b.id = q /\ b.external = input[q].external
    BY <1>4, <1>5
  <2> QED
    BY <2>1, <2>2 DEF IndInv, OneAccountPerExternalID
<1>6. ReplyTellsAccount
  BY <1>4, <1>5 DEF IndInv, RepliesStayTrue, ReplyTellsAccount
<1> QED
  BY <1>3, <1>6

\* Nothing that NewAccount refuses gets into the table (account.go:42-54).
THEOREM TypeCorrect == Spec => []TypeOK
BY Invariance, Consequences, PTL

\* An external id has one account, whatever races, is retried, or arrives late.
THEOREM Uniqueness == Spec => []OneAccountPerExternalID
<1>1. IndInv => OneAccountPerExternalID
  BY DEF IndInv
<1> QED
  BY <1>1, Invariance, PTL

\* What Handle answers is so, then and ever after.
THEOREM RepliesAreTruthful == Spec => []ReplyTellsAccount
BY Invariance, Consequences, PTL

----------------------------------------------------------------------------
\* The calls implement Registry.

\* A call is answered when it returns, and an INSERT that outlives its call is that of
\* one which was told of an error, or of nothing.
AnswersFollowCalls ==
  /\ \A r \in Calls : pc[r] \in {"idle", "find", "save"} => reply[r].status = "none"
  /\ \A a \in sent : reply[a.id].status \in {"none", "Internal"}

\* What Reply gives as a status, besides the answer that all is well.
LEMMA ErrorStatus ==
  /\ GRPCStatus(NoError) = "OK"
  /\ \A err : err \notin {NoError, "ErrAccountAlreadyExists"} => GRPCStatus(err) = "Internal"
  /\ GRPCStatus("ErrAccountAlreadyExists") = "AlreadyExists"
BY DEF GRPCStatus, FaultCode, translator, NoError

\* An INSERT on its way is that of a call which is over.
LEMMA SentIsOver ==
  ASSUME IndInv, NEW a \in accounts \cup sent
  PROVE  a.id \in Calls /\ pc[a.id] \in {"returned", "lost"}
BY DEF IndInv, RowsOfCalls, RowOfCall

\* The row of a call that is about to save is the account that it asks for.
LEMMA SavesWhatWasAsked ==
  ASSUME IndInv, NEW r \in Calls, pc[r] = "save"
  PROVE  /\ Identity(ToAccountModel(entity[r])) = Application(r, input[r])
         /\ ToAccountModel(entity[r]).id = r
         /\ entity[r].external = input[r].external
<1>1. entity[r] = NewAccount(r, input[r]) /\ NewAccountError(input[r]) = NoError
  BY DEF IndInv, EntityIsBuilt
<1>2. entity[r].external = input[r].external
  BY <1>1 DEF NewAccount
<1> QED
  BY <1>1, <1>2, NewRow DEF Identity, Application

\* So is the row of any call.
LEMMA RowsAreAsked ==
  ASSUME IndInv, NEW a \in accounts \cup sent
  PROVE  Identity(a) = Application(a.id, input[a.id])
<1>1. /\ NewAccountError(input[a.id]) = NoError
      /\ a = [ToAccountModel(NewAccount(a.id, input[a.id])) EXCEPT !.balance = a.balance]
  BY DEF IndInv, RowsOfCalls, RowOfCall
<1>2. /\ a.external = input[a.id].external /\ a.type = input[a.id].type
      /\ a.currency = input[a.id].currency
  BY <1>1, Columns
<1> QED
  BY <1>2 DEF Identity, Application

\* A reply is one more answer, and the first to its call.
LEMMA OneMoreAnswer ==
  ASSUME IndInv, AnswersFollowCalls, NEW r \in Calls, NEW err,
         pc[r] \in {"find", "save"}, Reply(r, err)
  PROVE  /\ \A x \in Answers : x.id # r
         /\ Answers' = Answers \cup {[id |-> r, status |-> GRPCStatus(err)]}
<1>1. reply[r].status = "none"
  BY DEF AnswersFollowCalls
<1>2. PICK s : s = GRPCStatus(err)
  OBVIOUS
<1>3. s # "none"
  BY <1>2, ErrorStatus
<1>4. /\ \A q \in Calls \ {r} : reply'[q] = reply[q]
      /\ reply'[r].status = s
  BY <1>2 DEF Reply, IndInv, ControlType
<1>5. Answered' = Answered \cup {r}
  BY <1>3, <1>4 DEF Answered
<1>6. r \notin Answered
  BY <1>1 DEF Answered
<1>7. \A q \in Answered : reply'[q].status = reply[q].status
  BY <1>4, <1>6 DEF Answered
<1> QED
  BY <1>2, <1>4, <1>5, <1>6, <1>7 DEF Answers

\* The answers follow the calls through every step.
LEMMA AnswersStep ==
  ASSUME IndInv, AnswersFollowCalls, [Next]_vars
  PROVE  AnswersFollowCalls'
<1>1. /\ DOMAIN reply = Calls
      /\ pc \in [Calls -> {"idle", "find", "save", "returned", "lost"}]
  BY DEF IndInv, ControlType
<1>2. ASSUME NEW r \in Calls, NEW err, Reply(r, err), pc[r] \in {"find", "save"}
      PROVE  /\ \A q \in Calls : pc'[q] \in {"idle", "find", "save"} =>
                                   reply'[q].status = "none"
             /\ \A a \in sent : reply'[a.id].status \in {"none", "Internal"}
             /\ reply'[r].status = GRPCStatus(err)
  <2>1. /\ \A q \in Calls \ {r} : reply'[q] = reply[q] /\ pc'[q] = pc[q]
        /\ reply'[r].status = GRPCStatus(err) /\ pc'[r] = "returned"
    BY <1>1, <1>2 DEF Reply
  <2>2. \A a \in sent : a.id \in Calls \ {r}
    BY <1>2, SentIsOver
  <2> QED
    BY <2>1, <2>2 DEF AnswersFollowCalls
<1>3. ASSUME NEW r \in Calls, Arrive(r) \/ BuildAccount(r) PROVE AnswersFollowCalls'
  BY <1>1, <1>3 DEF Arrive, BuildAccount, AnswersFollowCalls
<1>4. ASSUME NEW r \in Calls, Refuse(r) \/ Save(r) \/ CancelFind(r)
      PROVE  AnswersFollowCalls'
  <2>1. /\ UNCHANGED sent /\ pc[r] \in {"find", "save"}
        /\ \E err : Reply(r, err)
    BY <1>4 DEF Refuse, Save, CancelFind
  <2> QED
    BY <1>2, <2>1 DEF AnswersFollowCalls
<1>5. ASSUME NEW r \in Calls, CancelSave(r) PROVE AnswersFollowCalls'
  <2>1. /\ pc[r] = "save" /\ Reply(r, "context canceled")
        /\ sent' \subseteq sent \cup {ToAccountModel(entity[r])}
    BY <1>5 DEF CancelSave
  <2>2. GRPCStatus("context canceled") = "Internal"
    BY ErrorStatus DEF NoError
  <2>3. ToAccountModel(entity[r]).id = r
    BY <2>1, SavesWhatWasAsked
  <2>4. /\ \A q \in Calls : pc'[q] \in {"idle", "find", "save"} => reply'[q].status = "none"
        /\ \A a \in sent : reply'[a.id].status \in {"none", "Internal"}
        /\ reply'[r].status = "Internal"
    BY <1>2, <2>1, <2>2
  <2> QED
    BY <2>1, <2>3, <2>4 DEF AnswersFollowCalls
<1>6. CASE LoseCalls
  <2>1. /\ UNCHANGED reply
        /\ \A r \in Calls : pc'[r] \in {pc[r], "lost"}
    BY <1>6 DEF LoseCalls
  <2>2. ASSUME NEW a \in sent' PROVE reply[a.id].status \in {"none", "Internal"}
    <3>1. a \in sent \/ \E r \in Calls : pc[r] = "save" /\ a = ToAccountModel(entity[r])
      BY <1>6, <2>2 DEF LoseCalls
    <3> QED
      BY <3>1, SavesWhatWasAsked DEF AnswersFollowCalls
  <2> QED
    BY <2>1, <2>2 DEF AnswersFollowCalls
<1>7. CASE Database \/ UNCHANGED vars
  <2>1. UNCHANGED <<pc, reply>> /\ sent' \subseteq sent
    BY <1>7 DEF Database, ServerInserts, ServerDrops, BalanceMoves, call, vars
  <2> QED
    BY <2>1 DEF AnswersFollowCalls
<1> QED
  BY <1>3, <1>4, <1>5, <1>6, <1>7 DEF Next, Return

\* Every step is a step of Registry, or none that it sees.
LEMMA RegistryStep ==
  ASSUME IndInv, AnswersFollowCalls, [Next]_vars
  PROVE  \/ \E r \in Calls :
              LET a == Application(r, input[r])
              IN  AsRegistry!Register(a) \/ AsRegistry!RegisterLate(a)
                    \/ AsRegistry!Refuse(a) \/ AsRegistry!Fail(a)
         \/ Accounts' = Accounts /\ Answers' = Answers
<1> USE DEF Accounts, Answers
<1>1. ASSUME NEW r \in Calls, Arrive(r) \/ BuildAccount(r)
      PROVE  Accounts' = Accounts /\ Answers' = Answers
  BY <1>1 DEF Arrive, BuildAccount, Answered
<1>2. ASSUME NEW r \in Calls, NEW err, err # NoError, err # "ErrAccountAlreadyExists",
             pc[r] \in {"find", "save"}, Reply(r, err), UNCHANGED accounts
      PROVE  AsRegistry!Fail(Application(r, input[r]))
  <2>1. /\ \A x \in Answers : x.id # r
        /\ Answers' = Answers \cup {[id |-> r, status |-> "Internal"]}
    BY <1>2, OneMoreAnswer, ErrorStatus
  <2>2. Application(r, input[r]).id = r /\ Accounts' = Accounts
    BY <1>2 DEF Application
  <2> QED
    BY <2>1, <2>2 DEF AsRegistry!Fail, AsRegistry!Answer
<1>3. ASSUME NEW r \in Calls, Refuse(r), RefusalError(input[r]) = "ErrAccountAlreadyExists"
      PROVE  AsRegistry!Refuse(Application(r, input[r]))
  <2>1. pc[r] = "find" /\ Reply(r, "ErrAccountAlreadyExists") /\ UNCHANGED accounts
    BY <1>3 DEF Refuse
  <2>2. /\ \A x \in Answers : x.id # r
        /\ Answers' = Answers \cup {[id |-> r, status |-> "AlreadyExists"]}
    BY <2>1, OneMoreAnswer, ErrorStatus
  <2>3. \E b \in Accounts : b.external = input[r].external /\ b.id # r
    <3>1. PICK c \in accounts : c.external = input[r].external /\ c.id # r
      BY <1>3, <2>1, RefusedForAnother
    <3>2. Identity(c) \in Accounts
      OBVIOUS
    <3> QED
      BY <3>1, <3>2 DEF Identity
  <2>4. /\ Application(r, input[r]).id = r /\ Accounts' = Accounts
        /\ Application(r, input[r]).external = input[r].external
    BY <2>1 DEF Application
  <2> QED
    BY <2>2, <2>3, <2>4 DEF AsRegistry!Refuse, AsRegistry!Answer
<1>4. ASSUME NEW r \in Calls, Refuse(r), RefusalError(input[r]) # "ErrAccountAlreadyExists"
      PROVE  AsRegistry!Fail(Application(r, input[r]))
  BY <1>2, <1>4 DEF Refuse
<1>5. ASSUME NEW r \in Calls, CancelFind(r) \/ CancelSave(r)
      PROVE  AsRegistry!Fail(Application(r, input[r]))
  <2>1. "context canceled" # NoError
    BY DEF NoError
  <2> QED
    BY <1>2, <1>5, <2>1 DEF CancelFind, CancelSave
<1>6. ASSUME NEW r \in Calls, Save(r)
      PROVE  \/ AsRegistry!Fail(Application(r, input[r]))
             \/ AsRegistry!Register(Application(r, input[r]))
  <2>1. CASE Reply(r, "unique_violation") /\ UNCHANGED accounts
    <3>1. "unique_violation" # NoError /\ pc[r] = "save"
      BY <1>6 DEF NoError, Save
    <3> QED
      BY <1>2, <2>1, <3>1
  <2>2. CASE /\ ~ IsTaken(entity[r].external) /\ Reply(r, NoError)
             /\ accounts' = accounts \cup {ToAccountModel(entity[r])}
    <3>1. pc[r] = "save"
      BY <1>6 DEF Save
    <3>2. Accounts' = Accounts \cup {Application(r, input[r])}
      BY <2>2, <3>1, SavesWhatWasAsked
    <3>3. \A b \in Accounts : b.external # input[r].external
      <4>1. \A c \in accounts : c.external # input[r].external
        BY <2>2, <3>1, SavesWhatWasAsked DEF IsTaken, RowsOf
      <4>2. \A c \in accounts : Identity(c).external = c.external
        BY DEF Identity
      <4> QED
        BY <4>1, <4>2
    <3>4. /\ \A x \in Answers : x.id # r
          /\ Answers' = Answers \cup {[id |-> r, status |-> "OK"]}
      BY <2>2, <3>1, OneMoreAnswer, ErrorStatus
    <3>5. /\ Application(r, input[r]).id = r
          /\ Application(r, input[r]).external = input[r].external
      BY DEF Application
    <3> QED
      BY <3>2, <3>3, <3>4, <3>5
         DEF AsRegistry!Register, AsRegistry!Open, AsRegistry!Answer
  <2> QED
    BY <1>6, <2>1, <2>2 DEF Save
<1>7. CASE LoseCalls
  BY <1>7 DEF LoseCalls, Answered
<1>8. ASSUME NEW a \in sent, ServerDrops(a) PROVE Accounts' = Accounts /\ Answers' = Answers
  BY <1>8 DEF ServerDrops, call, Answered
<1>9. ASSUME NEW a \in sent, ServerInserts(a)
      PROVE  \/ Accounts' = Accounts /\ Answers' = Answers
             \/ \E r \in Calls : AsRegistry!RegisterLate(Application(r, input[r]))
  <2>1. Answers' = Answers
    BY <1>9 DEF ServerInserts, call, Answered
  <2>2. CASE IsTaken(a.external)
    BY <1>9, <2>1, <2>2 DEF ServerInserts
  <2>3. CASE ~ IsTaken(a.external)
    <3>1. a.id \in Calls /\ Identity(a) = Application(a.id, input[a.id])
      BY SentIsOver, RowsAreAsked
    <3>2. Accounts' = Accounts \cup {Identity(a)}
      BY <1>9, <2>3 DEF ServerInserts
    <3>3. \A b \in Accounts : b.external # Identity(a).external
      BY <2>3 DEF IsTaken, RowsOf, Identity
    <3>4. \A x \in Answers : x.id = Identity(a).id => x.status = "Internal"
      BY DEF AnswersFollowCalls, Answered, Identity
    <3>5. AsRegistry!RegisterLate(Identity(a))
      BY <2>1, <3>2, <3>3, <3>4 DEF AsRegistry!RegisterLate, AsRegistry!Open
    <3> QED
      BY <3>1, <3>5
  <2> QED
    BY <2>2, <2>3
<1>10. ASSUME NEW a \in accounts, NEW n, BalanceMoves(a, n)
       PROVE  Accounts' = Accounts /\ Answers' = Answers
  <2>1. Answers' = Answers /\ accounts' = (accounts \ {a}) \cup {[a EXCEPT !.balance = n]}
    BY <1>10 DEF BalanceMoves, call, Answered
  <2>2. Identity([a EXCEPT !.balance = n]) = Identity(a)
    <3>1. PICK i : i = input[a.id]
      OBVIOUS
    <3>2. /\ NewAccountError(i) = NoError
          /\ a = [ToAccountModel(NewAccount(a.id, i)) EXCEPT !.balance = a.balance]
      BY <3>1 DEF IndInv, RowsOfCalls, RowOfCall
    <3>3. PICK row : /\ row = ToAccountModel(NewAccount(a.id, i))
                     /\ row = [id |-> a.id, external |-> i.external, type |-> i.type,
                               balance |-> 0, currency |-> i.currency]
      BY <3>2, NewRow
    <3> QED
      BY <3>2, <3>3 DEF Identity
  <2> QED
    BY <2>1, <2>2
<1>11. CASE UNCHANGED vars
  BY <1>11 DEF vars, call, Answered
<1> QED
  BY <1>1, <1>3, <1>4, <1>5, <1>6, <1>7, <1>8, <1>9, <1>10, <1>11
     DEF Next, Return, Database

\* The calls of CreateAccount implement Registry, for any calls, inputs and balances,
\* with every lost answer and every INSERT that arrives late.
THEOREM RegistryRefinement == Spec => ImplementsRegistry
<1>1. Init => AnswersFollowCalls
  BY DEF Init, AnswersFollowCalls, NoReply
<1>2. Init => AsRegistry!Init
  BY DEF Init, AsRegistry!Init, Accounts, Answers, Answered, NoReply
<1>3. IndInv /\ AnswersFollowCalls /\ [Next]_vars => AnswersFollowCalls'
  BY AnswersStep
<1>4. IndInv /\ AnswersFollowCalls /\ [Next]_vars =>
        [AsRegistry!Next]_<<Accounts, Answers>>
  <2> SUFFICES ASSUME IndInv, AnswersFollowCalls, [Next]_vars
               PROVE  [AsRegistry!Next]_<<Accounts, Answers>>
    OBVIOUS
  <2>1. \A r \in Calls : Application(r, input[r]) \in Applications
    BY DEF IndInv, ControlType, Applications
  <2>2. CASE Accounts' = Accounts /\ Answers' = Answers
    BY <2>2
  <2>3. CASE \E r \in Calls :
               LET a == Application(r, input[r])
               IN  AsRegistry!Register(a) \/ AsRegistry!RegisterLate(a)
                     \/ AsRegistry!Refuse(a) \/ AsRegistry!Fail(a)
    BY <2>1, <2>3 DEF AsRegistry!Next
  <2> QED
    BY <2>2, <2>3, RegistryStep
<1> QED
  BY <1>1, <1>2, <1>3, <1>4, Invariance, PTL
     DEF Spec, ImplementsRegistry, AsRegistry!Spec

============================================================================
