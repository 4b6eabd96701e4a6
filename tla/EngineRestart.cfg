\* Two starts: jobs of the first pools outlive the second start.
SPECIFICATION Spec
CONSTANTS
  e1 = e1
  i1 = i1
  i2 = i2
  i3 = i3
  w1 = w1
  Calls = {i1, i2}
  Warmups = {w1}
  DeadlineOf <- MCDeadlineOf
  StageOf <- MCStageOf
  MaxPending = 1
  MaxStarts = 2
SYMMETRY InferenceSymmetry
INVARIANTS TypeOK NoPhantomSlots CancelledNeverDelivered
PROPERTY RefusedOnlyWhenFull
CHECK_DEADLOCK FALSE
