SPECIFICATION ServiceSpec
CONSTANTS
  IntMax = 7
  Calls = {c1}
  Inputs <- Asks
  Balances <- Moved
  Pages = {p1}
  MaxRestarts = 0
INVARIANT InfraClosesLast
