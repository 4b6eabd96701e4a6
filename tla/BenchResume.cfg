\* Two samples, two threads, two editions, two runs.
SPECIFICATION FairSpec
CONSTANTS
  Plan <- TwoSamples
  Concurrency = 2
  Editions = {"e1", "e2"}
  Texts = {"plain"}
  Cuts = {"nothing", "part"}
  MaxRuns = 2
INVARIANTS BenchTypeOK NothingLost ReadableUnlessCut
PROPERTIES KeepsTheLedger RunEnds
