SPECIFICATION FairCharMapSpec
CONSTANTS
  a1 = a1
  noacc = noacc
  Accounts <- MCAccounts
  NoAccount <- noacc
  CharsOf <- MCCharsOf
  Maps <- MCOneMap
  Fds <- MCFds
  CharTids <- MCTids
  LoginIds <- MCLoginIds
  MaxBreaks = 1
  Fragile <- MCOneMap
  MaxEdits = 1
  MaxLogins = 3
  MaxPackets = 1
  MaxTries = 2
  Deeds = {"shop","restart","kick"}
  Patient = TRUE
VIEW MCView
PROPERTIES
  EditsSaved
  NobodyHangs
CHECK_DEADLOCK FALSE
