SPECIFICATION FairSpec
CONSTANTS
  s1 = s1
  s2 = s2
  r1 = r1
  r2 = r2
  Startup = Startup
  Senders <- OneSender
  Recoverers <- MCRecoverers
  SendTimeouts = TRUE
  MaxFaults = 1
  RecoveryDelay = 1
  MaxRecoveryDelay = 3
PROPERTY ProbeFollowsLoss
