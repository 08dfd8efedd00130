SPECIFICATION CharMapSpec
CONSTANTS
  a1 = a1
  noacc = noacc
  Accounts <- MCAccounts
  NoAccount <- noacc
  CharsOf <- MCCharsOf
  Maps <- MCMaps
  Fds <- MCFds
  CharTids <- MCTids
  LoginIds <- MCLoginIds
  MaxBreaks = 0
  Fragile <- MCOneMap
  MaxEdits = 1
  MaxLogins = 2
  MaxPackets = 2
  MaxTries = 1
  Deeds = {"shop","restart","kick"}
  Patient = FALSE
VIEW MCView
PROPERTIES
  EntersLoaded
CHECK_DEADLOCK FALSE
