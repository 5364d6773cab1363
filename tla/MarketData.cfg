SPECIFICATION Spec
CONSTANTS
  old = old
  new = new
  Board <- BoardsMC
  Bundled <- BundledMC
  Minimum = 1
  Keep = 1
  MaxChunks = 2
  Runner <- RunnersMC
  KindOf <- KindsMC
  Grouped = FALSE
  Reruns = FALSE
  MaxRuns = 2
  MaxCommits = 3
INVARIANTS StateIsWhole
PROPERTIES BoardsKept OneAtATime
