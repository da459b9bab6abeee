----------------------- MODULE MCTransactionAggregate -----------------------
(* Instance for TLC: amounts on both sides of zero and up to the largest. *)
EXTENDS TransactionAggregate

MCAmounts == -1 .. 6

MCMonies == {"BRL", "USD"}

============================================================================
