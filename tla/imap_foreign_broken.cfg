SPECIFICATION Spec
CONSTANTS
  peer = peer
  local = local
  other = other
  NoMail = NoMail
  Users <- MCUsers
  PeerEmail = peer
  LocalEmail = local
  Folders <- MCFolders
  Folder = "INBOX"
  Mail <- MailForeign
  MaxUID = 1
  Caps <- CapsAll
  CleanupMode = "none"
  InOrder = TRUE
  SendsBodies = TRUE
  MaxValidity = 1
  MaxFaults = 0
  BaseDelay = 1
  MaxDelay = 1
INVARIANT ForeignMailNeverBlocks
