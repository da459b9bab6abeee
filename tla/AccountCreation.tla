-------------------------- MODULE AccountCreation --------------------------
(***************************************************************************)
(* CreateAccountHandler.Handle run concurrently: the use case              *)
(* CreateAccount, the entity, the statements of AccountRepository it uses, *)
(* and the gRPC status that the translator makes of its error.  There is   *)
(* no database transaction: the INSERT commits by itself.  The calls run in *)
(* a process that can end at any time (module Service says how and when).  *)
(***************************************************************************)
EXTENDS Money, FiniteSets

CONSTANTS
  Calls,    \* calls of Handle; a retry is a call of its own
  Inputs,   \* the CreateAccountInput values they may carry
  Balances  \* amounts that postings may leave in an account meanwhile

ASSUME CallsAssumption ==
  /\ \A i \in Inputs : DOMAIN i = {"external", "type", "currency"}
  /\ Balances \subseteq Int64

VARIABLES
  pc, input, entity,  \* the goroutine of each call, "lost" with its process
  reply,              \* what Handle returns: [status, account]
  accounts,           \* the committed rows of table accounts
  sent                \* rows whose INSERT outlived the call that sent it

call == <<pc, input, entity, reply>>
vars == <<call, accounts, sent>>

----------------------------------------------------------------------------
\* domain/account.

AccountTypes == {"ASSET", "LIABILITY", "REVENUE", "EXPENSE"}

\* Faulty variant: any account type is accepted.
NewAccountErrorAnyType(i) ==
  IF i.external = "" THEN "ErrEmptyExternalID" ELSE NewMoney(0, i.currency).err

NewAccountError(i) ==
  IF i.type \notin AccountTypes THEN "ErrInvalidAccountingType"
  ELSE IF i.external = "" THEN "ErrEmptyExternalID"
  ELSE NewMoney(0, i.currency).err

NewAccount(id, i) ==
  [id |-> id, external |-> i.external, type |-> i.type,
   balance |-> NewMoney(0, i.currency).val]

\* model.ToAccountModel: the row's columns.
ToAccountModel(a) ==
  [id |-> a.id, external |-> a.external, type |-> a.type,
   balance |-> a.balance.amount, currency |-> a.balance.currency]

\* model.ToAccountDomain validates the stored balance, so a negative one is an error.
ToAccountDomain(row) == NewMoney(row.balance, row.currency)

\* The entity before it is made.
NoEntity == [id |-> "", external |-> "", type |-> "", balance |-> NoMoney]

----------------------------------------------------------------------------
\* domain/fault and transport/grpc/translator.

\* The use case wraps one of its errors in a DomainError, with CodeConflict.
FaultCode(err) == IF err = "ErrAccountAlreadyExists" THEN "ERR_409" ELSE "none"

translator ==
  [c \in {"ERR_400", "ERR_401", "ERR_403", "ERR_404", "ERR_409", "ERR_422", "ERR_500"} |->
     CASE c \in {"ERR_400", "ERR_422"} -> "InvalidArgument"
       [] c = "ERR_401" -> "Unauthenticated"
       [] c = "ERR_403" -> "PermissionDenied"
       [] c = "ERR_404" -> "NotFound"
       [] c = "ERR_409" -> "AlreadyExists"
       [] c = "ERR_500" -> "Internal"]

GRPCStatus(err) ==
  IF err = NoError THEN "OK"
  ELSE IF FaultCode(err) \in DOMAIN translator THEN translator[FaultCode(err)]
  ELSE "Internal"

NoAccount == "no account"

NoReply == [status |-> "none", account |-> NoAccount]

\* Handle: the id of the account, or the status of the error.
Reply(r, err) ==
  /\ pc' = [pc EXCEPT ![r] = "returned"]
  /\ reply' = [reply EXCEPT ![r] = [status |-> GRPCStatus(err),
                                    account |-> IF err = NoError THEN r ELSE NoAccount]]

----------------------------------------------------------------------------

Init ==
  /\ pc = [r \in Calls |-> "idle"]
  /\ input \in [Calls -> Inputs]
  /\ entity = [r \in Calls |-> NoEntity]
  /\ reply = [r \in Calls |-> NoReply]
  /\ accounts = {}
  /\ sent = {}

\* Handle starts: the request becomes the input of the use case.
Arrive(r) ==
  /\ pc[r] = "idle"
  /\ pc' = [pc EXCEPT ![r] = "find"]
  /\ UNCHANGED <<input, entity, reply, accounts, sent>>

RowsOf(external) == {a \in accounts : a.external = external}

FindByExternalID(external) ==
  IF RowsOf(external) = {} THEN "ErrAccountNotFound"
  ELSE ToAccountDomain(CHOOSE a \in RowsOf(external) : TRUE).err

\* The error of Execute before Save.
RefusalError(i) ==
  LET found == FindByExternalID(i.external)
  IN  IF found = NoError THEN "ErrAccountAlreadyExists"
      ELSE IF found # "ErrAccountNotFound" THEN found
      ELSE NewAccountError(i)

Refuse(r) ==
  /\ pc[r] = "find"
  /\ RefusalError(input[r]) # NoError
  /\ Reply(r, RefusalError(input[r]))
  /\ UNCHANGED <<input, entity, accounts, sent>>

BuildAccount(r) ==
  /\ pc[r] = "find"
  /\ RefusalError(input[r]) = NoError
  /\ entity' = [entity EXCEPT ![r] = NewAccount(r, input[r])]
  /\ pc' = [pc EXCEPT ![r] = "save"]
  /\ UNCHANGED <<input, reply, accounts, sent>>

\* Faulty variant: table accounts without its unique index.
NeverTaken(external) == FALSE

\* idx_accounts_external_id
IsTaken(external) == RowsOf(external) # {}

\* Faulty variant: INSERT ... ON CONFLICT DO NOTHING.
SaveIgnoresConflict(r) ==
  /\ pc[r] = "save"
  /\ accounts' = IF IsTaken(entity[r].external) THEN accounts
                 ELSE accounts \cup {ToAccountModel(entity[r])}
  /\ Reply(r, NoError)
  /\ UNCHANGED <<input, entity, sent>>

Save(r) ==
  /\ pc[r] = "save"
  /\ \/ /\ IsTaken(entity[r].external)
        /\ Reply(r, "unique_violation")
        /\ UNCHANGED accounts
     \/ /\ ~ IsTaken(entity[r].external)
        /\ accounts' = accounts \cup {ToAccountModel(entity[r])}
        /\ Reply(r, NoError)
  /\ UNCHANGED <<input, entity, sent>>

----------------------------------------------------------------------------
\* Faults: the context of the call ends during a statement.  The INSERT may
\* have reached the database, which executes it or not, at any later time.

CancelFind(r) ==
  /\ pc[r] = "find"
  /\ Reply(r, "context canceled")
  /\ UNCHANGED <<input, entity, accounts, sent>>

CancelSave(r) ==
  /\ pc[r] = "save"
  /\ Reply(r, "context canceled")
  /\ sent' \in {sent, sent \cup {ToAccountModel(entity[r])}}
  /\ UNCHANGED <<input, entity, accounts>>

Handling == {r \in Calls : pc[r] \in {"find", "save"}}

\* The process ends, and with it every call that is being handled.
LoseCalls ==
  /\ Handling # {}
  /\ pc' = [r \in Calls |-> IF r \in Handling THEN "lost" ELSE pc[r]]
  /\ \E S \in SUBSET {r \in Calls : pc[r] = "save"} :
       sent' = sent \cup {ToAccountModel(entity[r]) : r \in S}
  /\ UNCHANGED <<input, entity, reply, accounts>>

ServerInserts(a) ==
  /\ a \in sent
  /\ accounts' = IF IsTaken(a.external) THEN accounts ELSE accounts \cup {a}
  /\ sent' = sent \ {a}
  /\ UNCHANGED call

ServerDrops(a) ==
  /\ a \in sent
  /\ sent' = sent \ {a}
  /\ UNCHANGED <<call, accounts>>

\* UpdateBalance, by postings: any amount that Money can hold.
BalanceMoves(a, n) ==
  /\ a \in accounts
  /\ accounts' = (accounts \ {a}) \cup {[a EXCEPT !.balance = n]}
  /\ UNCHANGED <<call, sent>>

----------------------------------------------------------------------------

\* The steps that end a call of Handle.
Return(r) == Refuse(r) \/ Save(r) \/ CancelFind(r) \/ CancelSave(r)

\* What the database does without a call.
Database ==
  \/ \E a \in sent : ServerInserts(a) \/ ServerDrops(a)
  \/ \E a \in accounts, n \in Balances : BalanceMoves(a, n)

Next ==
  \/ \E r \in Calls : Arrive(r) \/ BuildAccount(r) \/ Return(r)
  \/ LoseCalls
  \/ Database

Spec == Init /\ [][Next]_vars

----------------------------------------------------------------------------

Statuses == {"none", "OK", "AlreadyExists", "Internal"}

\* The row that Save makes of what NewAccount returns for the input of some call,
\* whatever its balance is now.
IsRow(a) ==
  \E r \in Calls :
    /\ NewAccountError(input[r]) = NoError
    /\ a.balance \in Int64
    /\ a = [ToAccountModel(NewAccount(r, input[r])) EXCEPT !.balance = a.balance]

\* The types, and that nothing gets into table accounts that NewAccount refuses
\* (account.go:42-54): an unknown type, no external id, an unknown currency.
TypeOK ==
  /\ pc \in [Calls -> {"idle", "find", "save", "returned", "lost"}]
  /\ input \in [Calls -> Inputs]
  /\ \A r \in Calls : /\ reply[r].status \in Statuses
                      /\ reply[r].account \in {NoAccount, r}
                      /\ pc[r] = "save" => IsRow(ToAccountModel(entity[r]))
  /\ \A a \in accounts \cup sent : /\ IsRow(a)
                                  /\ a.type \in AccountTypes
                                  /\ a.external # ""
                                  /\ a.currency \in Currencies

\* However many calls pass FindByExternalID before the first of them saves, and
\* whenever a forgotten INSERT arrives, an external id has one account
\* (accounts.pg.hcl:43-46): the key by which the other services know it.
OneAccountPerExternalID == \A a, b \in accounts : a.external = b.external => a = b

\* The reply tells the truth (create_account_handler.go:40-47): the id that it
\* gives is that of a stored account, as asked for, and no other call was given
\* one for this external id; AlreadyExists means that another call's account is
\* stored.
ReplyTellsAccount ==
  \A r \in Calls :
    /\ reply[r].status = "OK" =>
         /\ \E a \in accounts : /\ a.id = reply[r].account
                                /\ a.external = input[r].external
                                /\ a.type = input[r].type
                                /\ a.currency = input[r].currency
         /\ \A q \in Calls \ {r} :
              reply[q].status = "OK" => input[q].external # input[r].external
    /\ reply[r].status = "AlreadyExists" =>
         \E a \in accounts : a.external = input[r].external /\ a.id # r

----------------------------------------------------------------------------
\* The table and the replies as a registry: an account is what its row says of it,
\* but for its balance.

Application(r, i) == [id |-> r, external |-> i.external, type |-> i.type,
                      currency |-> i.currency]

Identity(a) == [id |-> a.id, external |-> a.external, type |-> a.type,
                currency |-> a.currency]

Answered == {r \in Calls : reply[r].status # "none"}

Applications == {Application(r, i) : r \in Calls, i \in Inputs}
Accounts == {Identity(a) : a \in accounts}
Answers == {[id |-> r, status |-> reply[r].status] : r \in Answered}

AsRegistry == INSTANCE Registry WITH registry <- Accounts, answers <- Answers

\* The calls implement Registry at every step: nothing that arrives late, is posted or
\* is tried again takes an account away, makes it another one or opens one to a call
\* that was refused, and no reply is taken back (create_account_handler.go:30-47,
\* create_account.go:51-95, accounts.pg.hcl:43-46).
ImplementsRegistry == AsRegistry!Spec

============================================================================
