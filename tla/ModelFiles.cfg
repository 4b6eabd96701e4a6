\* Two files, manifests with no hash or with all of them, four mishaps.
SPECIFICATION FairSpec
CONSTANTS
  Names <- MCNames
  Files <- Sources
  Contents = {"pinned", "other"}
  Pinned = "pinned"
  Manifests <- EmptyOrFull
  MaxMishaps = 4
INVARIANTS ModelTypeOK ServesWhatItVouches FetchedMeansServable
PROPERTIES HashesKept AdviceWorks
CHECK_DEADLOCK FALSE
