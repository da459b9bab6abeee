SPECIFICATION FairServiceSpecUpToNames
CONSTANTS
  IntMax = 7
  Calls = {c1, c2}
  Inputs <- Asks
  Balances <- Moved
  Pages = {p1}
  MaxRestarts = 1
INVARIANTS TypeOK OneAccountPerExternalID ReplyTellsAccount PoolOutlivesCalls
PROPERTIES ImplementsRegistry CleanExit ServersStopQuietly SignalEndsProcess
