SPECIFICATION Spec
CONSTANTS
  sendTimeout <- MCSend
  DialTimeout <- MCDial
  IOTimeout <- MCIO
  MaxTime = 30
INVARIANTS
  WithinBudget
  RetryIsSafe
  SuccessIsAccepted
