\* One thread; an answer may hold a character that splitlines() splits at.
SPECIFICATION Spec
CONSTANTS
  Plan <- TwoSamples
  Concurrency = 1
  Editions = {"e1"}
  Texts = {"plain", "separator"}
  Cuts = {"nothing", "part"}
  MaxRuns = 1
INVARIANTS ReadableUnlessCut
CHECK_DEADLOCK FALSE
