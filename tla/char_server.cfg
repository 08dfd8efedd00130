SPECIFICATION FairCharSpec
CONSTANTS
  a1 = a1
  noacc = noacc
  Accounts <- MCOneAccount
  NoAccount <- noacc
  CharsOf <- MCTwoCharsOf
  Maps <- MCMaps
  Fds <- MCFds
  CharTids <- MCTids
  LoginIds <- MCOneLoginId
VIEW MCView
INVARIANTS
  CharTypeOK
  CharTimersMatch
PROPERTIES
  OldServerTold
  CharWaitingEnds
  IdleForgotten
