SPECIFICATION Spec
CONSTANTS
  loop = loop
  once = once
  again = again
  Scripts = {loop, once}
  Offered <- AnyOffered
  Continuous <- ContinuousOf
  Jobs <- TwoJobs
  Built <- AllBuilt
  AflMayLack = TRUE
  StandaloneExit <- MainExit
  SleepSecs = 1
  MinimizeBelow = 10
  CorporaAtStart <- AnyTree
  MaxTime = 1
  MaxInterrupts = 1
INVARIANTS
  TypeOK
  VerdictSound
  SessionsApart
  FindingsSummarised
  ArtifactsKept
PROPERTY
  SingleRunsEnd
CHECK_DEADLOCK FALSE
