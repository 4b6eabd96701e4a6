\* Every request of up to five sequences; 13 is longer than the token ceiling.
SPECIFICATION Spec
CONSTANTS
  MaxSequences = 5
  TokenCounts = {1, 3, 4, 13}
  Inputs <- AllRequests
  MaxBatchTokens = 12
  MaxBatchSequences = 3
INVARIANTS MicrobatchTypeOK CeilingsHold FewestBatches InOrderGiven
PROPERTIES NoForwardAfterCancel
CHECK_DEADLOCK FALSE
