\* One request while a second bundle is loaded; two slots, so that one request
\* could take both; fairness of the loop and of the loading thread.
SPECIFICATION FairServerSpec
CONSTANTS
  r1 = r1
  r2 = r2
  b1 = b1
  b2 = b2
  Requests = {r1}
  Bundles = {b1, b2}
  LoadOrder <- TwoBundles
  Asked <- AllAskFirst
  Calls <- MCCalls
  Warmups <- MCWarmups
  StageOf <- MCStageOf
  DeadlineOf <- MCDeadlineOf
  MaxPending = 2
  MaxStarts = 1
INVARIANTS OneSlotPerRequest NothingBeforeReady WarmupAlone
PROPERTIES Answered LoaderEnds
CHECK_DEADLOCK FALSE
