SPECIFICATION Spec
CONSTANTS
  loop = loop
  once = once
  again = again
  Scripts = {loop}
  Offered <- LibfuzzerOffered
  Continuous <- ContinuousOf
  Jobs <- TwoJobs
  Built <- AllBuilt
  AflMayLack = TRUE
  StandaloneExit <- MainExit
  SleepSecs = 1
  MinimizeBelow = 10
  CorporaAtStart <- SetUp
  MaxTime = 1
  MaxInterrupts = 0
INVARIANT EveryCrashCounted
CHECK_DEADLOCK FALSE
