\* Two requests for the one bundle, one slot.
SPECIFICATION ServerSpec
CONSTANTS
  r1 = r1
  r2 = r2
  b1 = b1
  b2 = b2
  Requests = {r1, r2}
  Bundles = {b1}
  LoadOrder <- OneBundle
  Asked <- AllAskFirst
  Calls <- MCCalls
  Warmups <- MCWarmups
  StageOf <- MCStageOf
  DeadlineOf <- MCDeadlineOf
  MaxPending = 1
  MaxStarts = 1
INVARIANTS ServerTypeOK TimeoutIsHonest
PROPERTIES TurnedAwayForOthers
CHECK_DEADLOCK FALSE
