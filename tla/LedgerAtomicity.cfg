SPECIFICATION Spec
CONSTANTS
  IntMax = 3
  a1 = a1
  a2 = a2
  a3 = a3
  a4 = a4
  a5 = a5
  Requests = {r1, r2, r3}
  Inputs <- Contended
  Accounts <- TwoAccounts
  Seed <- SeedTwo
  MaxConns = 2
  AggregateTypeWidth = 20
  EventTypeWidth = 40
INVARIANTS IndInv WholePostings ResultTellsOutcome ConnectionsComeBack NoStandstill WaitsForOne
PROPERTIES BalancesMoveWithPosting ImplementsJournal EveryStepCounts
SYMMETRY SymmetricRequests
