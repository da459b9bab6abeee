-------------------------------- MODULE Book --------------------------------
(***************************************************************************)
(* What a bank expects of its accounts: they change by transfers, each in  *)
(* one step, of money that is there.                                       *)
(***************************************************************************)
EXTENDS Integers

CONSTANTS Accounts, Opening  \* the accounts, and what is in each at the start

VARIABLE amounts             \* what is in each now

Init == amounts = Opening

Transfer(from, to, n) ==
  /\ n \in 1 .. amounts[from]
  /\ amounts' = [amounts EXCEPT ![from] = @ - n, ![to] = @ + n]

Next == \E from, to \in Accounts : \E n \in 1 .. amounts[from] : Transfer(from, to, n)

Spec == Init /\ [][Next]_amounts

============================================================================
