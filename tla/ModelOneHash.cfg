\* A manifest written for a build with one source file less, and the directory it left.
SPECIFICATION Spec
CONSTANTS
  Names <- MCNames
  Files <- Sources
  Contents = {"pinned", "other"}
  Pinned = "pinned"
  Manifests <- OneHash
  MaxMishaps = 0
INVARIANT FetchedMeansServable
CHECK_DEADLOCK FALSE
