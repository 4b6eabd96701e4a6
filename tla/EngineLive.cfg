\* One start, a warmup job queued with the calls; fairness, so no symmetry.
SPECIFICATION FairSpec
CONSTANTS
  e1 = e1
  i1 = i1
  i2 = i2
  i3 = i3
  w1 = w1
  Calls = {e1, i1}
  Warmups = {w1}
  DeadlineOf <- MCDeadlineOf
  StageOf <- MCStageOf
  MaxPending = 1
  MaxStarts = 1
INVARIANTS SlotAccounting AdmissionBound
PROPERTIES ImplementsService CallerAnswered NowaitEnds SlotsReturned
CHECK_DEADLOCK FALSE
