------------------------------- MODULE Money -------------------------------
(***************************************************************************)
(* The value object of internal/domain/money: an int64 amount of cents and *)
(* a currency.  A Go function that returns (value, error) is an operator   *)
(* that returns [err, val]; on an error the value is Go's zero value.      *)
(***************************************************************************)
EXTENDS Integers

CONSTANT IntMax  \* the largest int64, 2^63 - 1 in the program

ASSUME IntMaxAssumption == IntMax \in Nat \ {0}

NoError == "nil"

Currencies == {"BRL", "USD", "EUR"}

Int64 == (-IntMax - 1) .. IntMax

Money == [amount : Int64, currency : Currencies]

\* Money{}: what every failing constructor and operation returns.
NoMoney == [amount |-> 0, currency |-> ""]

Returns(v) == [err |-> NoError, val |-> v]

MoneyError(e) == [err |-> e, val |-> NoMoney]

\* Two's complement for a sum or a difference of two int64 values.
Wrap(n) == IF n > IntMax THEN n - 2 * (IntMax + 1)
           ELSE IF n < -IntMax - 1 THEN n + 2 * (IntMax + 1)
           ELSE n

----------------------------------------------------------------------------

NewMoney(amount, currency) ==
  IF amount < 0 THEN MoneyError("ErrNegativeAmount")
  ELSE IF currency \notin Currencies THEN MoneyError("ErrInvalidCurrency")
  ELSE Returns([amount |-> amount, currency |-> currency])

\* Faulty variant: the sum takes whatever currency the other amount has.
AddAnyCurrency(m, other) == Returns([other EXCEPT !.amount = Wrap(m.amount + @)])

\* Add and Subtract check the currency and neither overflow nor the sign.
Add(m, other) ==
  IF m.currency # other.currency THEN MoneyError("ErrCurrencyMismatch")
  ELSE Returns([m EXCEPT !.amount = Wrap(@ + other.amount)])

\* Faulty variant: the two operands of the subtraction are swapped.
SubtractSwapped(m, other) ==
  IF m.currency # other.currency THEN MoneyError("ErrCurrencyMismatch")
  ELSE Returns([m EXCEPT !.amount = Wrap(other.amount - @)])

Subtract(m, other) ==
  IF m.currency # other.currency THEN MoneyError("ErrCurrencyMismatch")
  ELSE Returns([m EXCEPT !.amount = Wrap(@ - other.amount)])

IsZero(m) == m.amount = 0

IsNegative(m) == m.amount < 0

Equal(m, other) == m.amount = other.amount /\ m.currency = other.currency

\* Faulty variant: an account cannot be emptied.
MoreThanSufficient(m, other) == m.amount > other.amount /\ m.currency = other.currency

\* Faulty variant: only the currency is compared.
SufficientWhateverTheAmount(m, other) == m.currency = other.currency

IsSufficientBalance(m, other) ==
  m.amount >= other.amount /\ m.currency = other.currency

============================================================================
