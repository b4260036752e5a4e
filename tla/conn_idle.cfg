SPECIFICATION Spec
CONSTANTS
  HasIdle = TRUE
  IOTimeout <- MCIO
  IdleTimeout <- MCIdle
  IdleRestart <- MCRestart
  maxIdleErrors <- MCErrors
  PollInterval = 1
  Latency = 1
  InjectWait = 1
INVARIANTS
  NoSpuriousTimeout
  SilenceNoticed
