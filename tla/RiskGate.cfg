SPECIFICATION FairSpec
CONSTANTS
  e1 = e1
  e2 = e2
  e3 = e3
  NoExec = NoExec
  Execs <- ThreeExecs
  Automatic <- ThreeExecs
  MaxConcurrent = 2
  MaxFailures = 2
  LossLimit = 1
  Gains <- MixedGains
  MaxFaults = 1
  MaxRestarts = 1
INVARIANTS
  TypeOK
  CounterFollowsExecutions
  PnlAccumulates
PROPERTIES
  AdmissionIsCurrent
  EveryExecutionEnds
  PauseEnds
\* every execution that was asked for has ended
CHECK_DEADLOCK FALSE
