------------------------------ MODULE Journal ------------------------------
(***************************************************************************)
(* What the ledger promises of its journal, whatever the requests race and *)
(* whatever fails: one at a time, whole double entries are appended, with  *)
(* their event, each under a key of its own; nothing is changed or lost.   *)
(***************************************************************************)
EXTENDS Integers

CONSTANT Postings  \* the postings that may be made: [id, key, lines]

VARIABLES journal,  \* the postings made
          events    \* the ids of the postings whose event will be published

\* Two sides of one amount.
DoubleEntry(lines) ==
  \E d, c \in lines : /\ lines = {d, c}
                      /\ d.direction = "DEBIT" /\ c.direction = "CREDIT"
                      /\ d.amount = c.amount
                      /\ d.amount.amount > 0

Init == journal = {} /\ events = {}

Post(p) ==
  /\ DoubleEntry(p.lines)
  /\ \A q \in journal : q.id # p.id /\ q.key # p.key
  /\ journal' = journal \cup {p}
  /\ events' = events \cup {p.id}

Next == \E p \in Postings : Post(p)

Spec == Init /\ [][Next]_<<journal, events>>

============================================================================
