SPECIFICATION Spec
CONSTANTS
  loop = loop
  once = once
  again = again
  Scripts = {once}
  Offered <- LibfuzzerOffered
  Continuous <- ContinuousOf
  Jobs <- OneJob
  Built <- AllBuilt
  AflMayLack = TRUE
  StandaloneExit <- MainExit
  SleepSecs = 1
  MinimizeBelow = 10
  CorporaAtStart <- SetUp
  MaxTime = 1
  MaxInterrupts = 0
INVARIANT CrashIsReported
CHECK_DEADLOCK FALSE
