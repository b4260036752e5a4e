SPECIFICATION Spec
CONSTANTS
  peer = peer
  local = local
  other = other
  NoMail = NoMail
  Users <- MCUsers
  PeerEmail = peer
  LocalEmail = local
  Folders <- MCFolders
  Folder = "INBOX"
  Mail <- MailValidRegularCorrupt
  MaxUID = 3
  Caps <- CapsAll
  CleanupMode = "move"
  InOrder = FALSE
  SendsBodies = TRUE
  MaxValidity = 2
  MaxFaults = 3
  BaseDelay = 1
  MaxDelay = 3
INVARIANTS
  TypeOK
  NoReplay
  NoLostWakeup
PROPERTIES
  CompleteFetchHasNoGap
  CleanupIsSafe
  CheckpointMonotone
