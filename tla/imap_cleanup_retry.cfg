SPECIFICATION FairSpec
CONSTANTS
  peer = peer
  local = local
  other = other
  NoMail = NoMail
  Users <- MCUsers
  PeerEmail = peer
  LocalEmail = local
  Folders <- MCFolders
  Folder = "INBOX"
  Mail <- MailValid
  MaxUID = 1
  Caps <- CapsAll
  CleanupMode = "delete"
  InOrder = TRUE
  SendsBodies = TRUE
  MaxValidity = 1
  MaxFaults = 1
  BaseDelay = 1
  MaxDelay = 1
PROPERTY CleanedUpEventually
