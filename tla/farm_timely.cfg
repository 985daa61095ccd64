SPECIFICATION FairSpec
CONSTANTS
  w1 = w1
  w2 = w2
  snap = snap
  other = other
  hello = hello
  world = world
  Workers = {w1, w2}
  NoWorker = NoWorker
  NoSlice = NoSlice
  Specs <- TwoSpecs
  SlowBuilds = FALSE
  Resubmits = FALSE
  Flaky = {w2}
  MaxJobs = 2
  MaxRestarts = 0
INVARIANTS
  OneBuilderPerSlice
PROPERTIES
  DeadWorkerLosesJob
  QueuedJobSettles
