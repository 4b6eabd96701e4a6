\* The same instance: the character gate against the token limit it is derived from.
SPECIFICATION PathSpec
CONSTANTS
  Width <- Widths
  Fold <- Folding
  Joint <- JointFolding
  Spelling <- SpecialTokens
  Unk = "unk_id"
  CanonicalJson <- SortedDump
  WrittenJson <- PlainDump
  Json <- SmallJson
  Point <- CodePoints
  Logit <- SumOfWorth
  NotFinite = 9999
  Requests <- SmallRequests
  Budgets <- SmallBudgets
  Exp <- Exponentials
  MaxDepth = 5
  MaxQuestions = 3
  MinOptions = 2
  MaxOptions = 3
  MinLevels = 2
  MaxLevels = 4
  KeyLength <- KeyLengths
  FakeManifest <- Fake
  SettingsChoices <- SmallSettings
  Calls <- SmallCalls
  MaxBodyBytes = 8
INVARIANT GateFiresOnlyOverBudget
CHECK_DEADLOCK FALSE
