----------------------------- MODULE MCService -----------------------------
(* Instances of Service for TLC. *)
EXTENDS Service, TLC

Asked(external, type, currency) ==
  [external |-> external, type |-> type, currency |-> currency]

\* One external id asked for as two types in two currencies, and as a type that
\* is refused.
Asks == {Asked("x", "ASSET", "BRL"), Asked("x", "LIABILITY", "USD"),
         Asked("x", "EQUITY", "BRL")}

\* One call asks for an ASSET, the other for the same, for a LIABILITY, or is refused,
\* whichever comes first: any other two differ from these in the names alone, or are
\* both refused.
InitUpToNames ==
  /\ ServiceInit
  /\ input[CHOOSE c \in Calls : TRUE] = Asked("x", "ASSET", "BRL")

FairServiceSpecUpToNames ==
  InitUpToNames /\ [][ServiceNext]_<<vars, process>> /\ Fairness

\* A balance that a credit made wrap.
Moved == {-1}

============================================================================
