SPECIFICATION SpecApart
CONSTANTS
  IntMax = 7
  a1 = a1
  a2 = a2
  a3 = a3
  a4 = a4
  a5 = a5
  Requests = {r1, r2, r3}
  Inputs <- SomeApart
  Accounts <- FourAccounts
  Seed <- SeedFour
  MaxConns = 2
  AggregateTypeWidth = 20
  EventTypeWidth = 40
INVARIANTS BalancesMatchEntries PostingsConserveMoney OnlySoundPostings TransfersAreFresh
PROPERTIES AccountsKeepCurrency ImplementsBook
SYMMETRY SymmetricRequests
