SPECIFICATION SpecReliable
CONSTANTS
  IntMax = 15
  a1 = a1
  a2 = a2
  a3 = a3
  a4 = a4
  a5 = a5
  Requests = {r1, r2, r3}
  Inputs <- ContendedRing
  Accounts <- ThreeAccounts
  Seed <- SeedRing
  MaxConns = 3
  AggregateTypeWidth = 20
  EventTypeWidth = 40
INVARIANTS TypeOK OnePostingPerKey ExactlyOncePerKey QueriesAgree BalancesNonNegative RaceInv EntriesCancelOut
SYMMETRY SymmetricRequests
