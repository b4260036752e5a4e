SPECIFICATION Spec
CONSTANTS
  peer = peer
  local = local
  other = other
  NoMail = NoMail
  Users <- MCUsers
  PeerEmail = peer
  LocalEmail = local
  Folders <- MCFolders
  Folder = "INBOX"
  Mail <- MailValid
  MaxUID = 3
  Caps <- CapsAll
  CleanupMode = "none"
  InOrder = TRUE
  SendsBodies = FALSE
  MaxValidity = 1
  MaxFaults = 0
  BaseDelay = 1
  MaxDelay = 1
INVARIANT NoGap
