------------------------------ MODULE Registry ------------------------------
(***************************************************************************)
(* What CreateAccount promises of its accounts and to its clients, however *)
(* many of them race or try again and whatever is lost on the way: an      *)
(* account is opened under an external id of its own and stays, and each   *)
(* application is answered once, by what is true then and ever after.      *)
(***************************************************************************)

CONSTANT Applications  \* the accounts that may be asked for: [id, external, type, currency]

VARIABLES registry,  \* the accounts opened
          answers    \* the answers given: [id, status]

Init == registry = {} /\ answers = {}

Open(a) == /\ \A b \in registry : b.external # a.external
           /\ registry' = registry \cup {a}

Answer(a, status) == /\ \A x \in answers : x.id # a.id
                     /\ answers' = answers \cup {[id |-> a.id, status |-> status]}

Register(a) == Open(a) /\ Answer(a, "OK")

\* The answer was lost or an error that leaves it open; it was no refusal.
RegisterLate(a) == /\ \A x \in answers : x.id = a.id => x.status = "Internal"
                   /\ Open(a)
                   /\ UNCHANGED answers

Refuse(a) == /\ \E b \in registry : b.external = a.external /\ b.id # a.id
             /\ Answer(a, "AlreadyExists")
             /\ UNCHANGED registry

Fail(a) == Answer(a, "Internal") /\ UNCHANGED registry

Next == \E a \in Applications : Register(a) \/ RegisterLate(a) \/ Refuse(a) \/ Fail(a)

Spec == Init /\ [][Next]_<<registry, answers>>

============================================================================
