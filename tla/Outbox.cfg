SPECIFICATION FairSpec
CONSTANTS
  Events = {e1, e2}
  Relays = {w1, w2}
  Limits = {1, 2}
  MaxFaults = 2
INVARIANTS TypeOK AttemptsCountFailures TimesTellHistory
PROPERTIES RowsFollowStateMachine EventSettles
