SPECIFICATION Spec
CONSTANTS
  a1 = a1
  a2 = a2
  g = g
  nomac = nomac
  noacc = noacc
  Accounts <- MCAccounts
  NoAccount <- noacc
  Ghost <- g
  Macs <- MCNoMacs
  NoMac <- nomac
  Servers <- MCServers
  Slot = 0
  Tids <- MCOneTid
  MacBlockDual = FALSE
  MaxLogins = 1
  MaxToLogin = 2
  MaxToChar = 1
  CharsOf <- MCCharsOf
  Maps <- MCMaps
  Fds <- MCOneFd
  CharTids <- MCOneTid
  LoginIds <- MCOneLoginId
VIEW MCView
INVARIANTS
  SessionTypeOK
  FdIsTheirs
  AuthOwnTicket
  InGamePlaysOwn
