SPECIFICATION FairSpec
CONSTANTS
  peer = peer
  local = local
  other = other
  NoMail = NoMail
  Users <- MCUsers
  PeerEmail = peer
  LocalEmail = local
  Folders <- MCFolders
  Folder = "INBOX"
  Mail <- MailValidRegularCorrupt
  MaxUID = 2
  Caps <- CapsIdle
  CleanupMode = "delete"
  InOrder = TRUE
  SendsBodies = TRUE
  MaxValidity = 2
  MaxFaults = 4
  BaseDelay = 1
  MaxDelay = 1
INVARIANT NoGap
PROPERTIES
  Delivered
  CheckpointCatchesUp
  Stops
