SPECIFICATION Spec
CONSTANTS
  w1 = w1
  w2 = w2
  snap = snap
  other = other
  hello = hello
  world = world
  Workers = {w1, w2}
  NoWorker = NoWorker
  NoSlice = NoSlice
  Specs <- TwoSpecs
  SlowBuilds = TRUE
  Resubmits = FALSE
  Flaky = {}
  MaxJobs = 2
  MaxRestarts = 0
INVARIANTS
  LiveWorkerStaysOnline
