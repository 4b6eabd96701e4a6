\* One request to one server: 22 configurations, three bundle names, nine states.
SPECIFICATION PathSpec
CONSTANTS
  Width <- Widths
  Fold <- Folding
  Joint <- JointFolding
  Spelling <- SpecialTokens
  Unk = "unk_id"
  CanonicalJson <- SortedDump
  WrittenJson <- PlainDump
  Json <- SmallJson
  Point <- CodePoints
  Logit <- SumOfWorth
  NotFinite = 9999
  Requests <- SmallRequests
  Budgets <- SmallBudgets
  Exp <- Exponentials
  MaxDepth = 5
  MaxQuestions = 3
  MinOptions = 2
  MaxOptions = 3
  MinLevels = 2
  MaxLevels = 4
  KeyLength <- KeyLengths
  FakeManifest <- Fake
  SettingsChoices <- SmallSettings
  Calls <- SmallCalls
  MaxBodyBytes = 8
INVARIANTS PathTypeOK RefusedForFirstFault WithinBudget ControlStaysOut EachToItsOwn
           AnswersFollowOptions OnlyBackendFaults500
CHECK_DEADLOCK FALSE
