SPECIFICATION SpecReliable
CONSTANTS
  IntMax = 7
  a1 = a1
  a2 = a2
  a3 = a3
  a4 = a4
  a5 = a5
  Requests = {r1}
  Inputs <- One
  Accounts <- TwoAccounts
  Seed <- SeedTwo
  MaxConns = 1
  AggregateTypeWidth = 10
  EventTypeWidth = 15
INVARIANT ExactlyOncePerKey
