\* Two starts: the admission bound of the current pools.
SPECIFICATION Spec
CONSTANTS
  e1 = e1
  i1 = i1
  i2 = i2
  i3 = i3
  w1 = w1
  Calls = {i1, i2, i3}
  Warmups = {}
  DeadlineOf <- MCDeadlineOf
  StageOf <- MCStageOf
  MaxPending = 1
  MaxStarts = 2
SYMMETRY InferenceSymmetry
INVARIANT RestartKeepsBound
CHECK_DEADLOCK FALSE
