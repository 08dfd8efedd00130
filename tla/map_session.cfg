SPECIFICATION CharMapSpec
CONSTANTS
  a1 = a1
  noacc = noacc
  Accounts <- MCAccounts
  NoAccount <- noacc
  CharsOf <- MCCharsOf
  Maps <- MCMaps
  Fds <- MCFds
  CharTids <- MCTids
  LoginIds <- MCLoginIds
  MaxBreaks = 1
  Fragile <- MCOneMap
  MaxEdits = 1
  MaxLogins = 2
  MaxPackets = 1
  MaxTries = 2
  Deeds = {"shop","restart","kick"}
  Patient = TRUE
VIEW MCView
INVARIANTS
  CharMapTypeOK
PROPERTIES
  NoRollback
  AckedIsSaved
  EntersLoaded
CHECK_DEADLOCK FALSE
