SPECIFICATION Spec
CONSTANTS
  loop = loop
  once = once
  again = again
  Scripts = {loop, once}
  Offered <- LibfuzzerOffered
  Continuous <- ContinuousOf
  Jobs <- OneJob
  Built <- AllBuilt
  AflMayLack = TRUE
  StandaloneExit <- MainExit
  SleepSecs = 1
  MinimizeBelow = 10
  CorporaAtStart <- SetUp
  MaxTime = 1
  MaxInterrupts = 0
INVARIANT SummaryLasts
CHECK_DEADLOCK FALSE
