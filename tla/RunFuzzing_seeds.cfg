SPECIFICATION Spec
CONSTANTS
  loop = loop
  once = once
  again = again
  Scripts = {once, again}
  Offered <- LibfuzzerOffered
  Continuous <- ContinuousOf
  Jobs <- OneJob
  Built <- AllBuilt
  AflMayLack = TRUE
  StandaloneExit <- MainExit
  SleepSecs = 1
  MinimizeBelow = 10
  CorporaAtStart <- Fresh
  MaxTime = 1
  MaxInterrupts = 0
INVARIANT FuzzesFromSeeds
CHECK_DEADLOCK FALSE
