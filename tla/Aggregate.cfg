SPECIFICATION Spec
CONSTANTS
  IntMax = 7
  Amounts <- MCAmounts
  Monies <- MCMonies
INVARIANT TwoSidesOfOneAmount
PROPERTY OutcomeIsFinal
CHECK_DEADLOCK FALSE
