SPECIFICATION FairLoginSpec
CONSTANTS
  a1 = a1
  a2 = a2
  g = g
  m1 = m1
  nomac = nomac
  noacc = noacc
  Accounts <- MCAccounts
  Ghost <- g
  Macs <- MCOneMac
  NoMac <- nomac
  NoAccount <- noacc
  Servers <- MCServers
  Tids <- MCTids
  MacBlockDual = TRUE
  MaxLogins = 2
VIEW MCView
INVARIANTS
  LoginTypeOK
  TimersMatch
  AuthedOnTheClock
  MacTable
PROPERTIES
  IsTicketOffice
  WaitingEnds
  LostForgotten
