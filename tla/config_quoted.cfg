SPECIFICATION Spec
CONSTANTS
  Invocations <- MCInvocations
  ParseInt <- MCParseInt
  Atoi <- MCAtoi
  ParseDuration <- MCParseDuration
  ParseAddress <- MCParseAddress
  LowerTrim <- MCLowerTrim
  Unsafe <- MCUnsafe
  DerivedPath <- MCDerivedPath
  SameFolder <- MCSameFolder
  MaxBodySize <- BodyLimit
  maxHeaderSize <- HeaderBudget
  PacketSizes <- Packets
  HeaderSizes <- Headers
INVARIANT BareAddresses
