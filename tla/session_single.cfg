SPECIFICATION Spec
CONSTANTS
  a1 = a1
  a2 = a2
  g = g
  nomac = nomac
  noacc = noacc
  Accounts <- MCOneAccount
  NoAccount <- noacc
  Ghost <- g
  Macs <- MCNoMacs
  NoMac <- nomac
  Servers <- MCServers
  Slot = 0
  Tids <- MCOneTid
  MacBlockDual = FALSE
  MaxLogins = 2
  MaxToLogin = 2
  MaxToChar = 1
  CharsOf <- MCOneCharOf
  Maps <- MCMaps
  Fds <- MCFds
  CharTids <- MCOneTid
  LoginIds <- MCLoginIds
VIEW MCView
PROPERTIES
  OneCharSelectSession
