SPECIFICATION Spec
CONSTANTS
  HasIdle = FALSE
  IOTimeout <- MCIO
  IdleTimeout <- MCIdle
  IdleRestart <- MCRestart
  maxIdleErrors <- MCErrors
  PollInterval = 3
  Latency = 1
  InjectWait = 0
INVARIANTS
  NoSpuriousTimeout
