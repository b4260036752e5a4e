SPECIFICATION FairSpec
CONSTANTS
  DrainLimit <- Drain
  IOTimeout <- IO
  MaxFaults = 3
INVARIANTS
  TypeOK
  OnlineMeansVerified
  WorkerEndsFirst
PROPERTIES
  OnlyRnsdEndsIt
  InjectEnds
  Exits
