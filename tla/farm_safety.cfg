SPECIFICATION Spec
CONSTANTS
  w1 = w1
  w2 = w2
  snap = snap
  other = other
  hello = hello
  world = world
  Workers = {w1, w2}
  NoWorker = NoWorker
  NoSlice = NoSlice
  Specs <- MixedSpecs
  SlowBuilds = TRUE
  Resubmits = TRUE
  Flaky = {w1, w2}
  MaxJobs = 2
  MaxRestarts = 1
SYMMETRY WorkerSymmetry
INVARIANTS
  HandedOutAtMostTwice
  CompleteWasBuilt
  DurableQueue
PROPERTIES
  ImplementsLifecycle
