------------------------- MODULE LoginServerProofs -------------------------
(***************************************************************************)
(* Theorems about LoginServer, for any number of accounts, MAC addresses,  *)
(* char servers and timers and any value of the bounds.                    *)
(***************************************************************************)
EXTENDS LoginServer, TLAPS

\* What the tables hold after records are removed or lose their char server.
LEMMA TablesType ==
  ASSUME LoginTypeOK
  PROVE  /\ \A S : Cancelled(S) \in [Tids -> Ids \cup {NoAccount}]
         /\ \A c : SetOffline(c) \in [Ids -> Entry]
         /\ \A S : MacDel(mac_online, S) \in [Accounts -> Macs \cup {NoMac}]
         /\ \A p \in Packet : SendAll(p) \in [Servers -> Seq(Packet)]
         /\ Absent \in Entry
         /\ NoNode \in Ticket
<1>1. \A S : Cancelled(S) \in [Tids -> Ids \cup {NoAccount}]
  BY DEF LoginTypeOK, Cancelled
<1>2. \A c : SetOffline(c) \in [Ids -> Entry]
  BY DEF LoginTypeOK, SetOffline, Entry
<1>3. \A S : MacDel(mac_online, S) \in [Accounts -> Macs \cup {NoMac}]
  BY DEF LoginTypeOK, MacDel
<1>4. ASSUME NEW p \in Packet
      PROVE  SendAll(p) \in [Servers -> Seq(Packet)]
  <2>1. \A c \in Servers : toChar[c] \in Seq(Packet)
    BY DEF LoginTypeOK
  <2>2. \A c \in Servers : Append(toChar[c], p) \in Seq(Packet)
    BY <1>4, <2>1
  <2> QED
    BY <2>1, <2>2 DEF SendAll
<1>5. Absent \in Entry /\ NoNode \in Ticket
  BY DEF Absent, Entry, NoNode, Ticket
<1> QED
  BY <1>1, <1>2, <1>3, <1>4, <1>5

\* Types are preserved by every step.
LEMMA TypeStep ==
  ASSUME LoginTypeOK, [LoginNext]_login_vars
  PROVE  LoginTypeOK'
<1> USE TablesType, TidsAssumption, ServersAssumption, GhostAssumption
         DEF LoginTypeOK, Ids
<1>1. CASE \E a \in Accounts : login_up /\ StillOnline(a)
  <2> PICK a \in Accounts : StillOnline(a)
    BY <1>1
  <2>1. toChar' \in [Servers -> Seq(Packet)]
    <3>1. [cmd |-> "kick", aid |-> a] \in Packet
      BY DEF Packet
    <3> QED
      BY <3>1 DEF StillOnline
  <2>2. /\ login_online' \in [Ids -> Entry]
        /\ login_timers' \in [Tids -> Ids \cup {NoAccount}]
    <3>1. CASE UNCHANGED <<login_online, login_timers>>
      BY <3>1
    <3>2. CASE \E t \in Tids :
                 /\ login_timers' = [login_timers EXCEPT ![t] = a]
                 /\ login_online' = [login_online EXCEPT ![a].waiting = t]
      <4> PICK t \in Tids :
                 /\ login_timers' = [login_timers EXCEPT ![t] = a]
                 /\ login_online' = [login_online EXCEPT ![a].waiting = t]
        BY <3>2
      <4>1. [login_online[a] EXCEPT !.waiting = t] \in Entry
        BY DEF Entry
      <4> QED
        BY <4>1
    <3> QED
      BY <3>1, <3>2 DEF StillOnline
  <2> QED
    BY <2>1, <2>2 DEF StillOnline
<1>2. CASE \E a \in Accounts, m \in Macs \cup {NoMac} : MacInUse(a, m)
  BY <1>2 DEF MacInUse, WipedMacs
<1>3. CASE \E a \in Accounts, m \in Macs \cup {NoMac} : Accepted(a, m)
  <2> PICK a \in Accounts, m \in Macs \cup {NoMac} : Accepted(a, m)
    BY <1>3
  <2>1. login_auth' \in [Accounts -> Ticket]
    BY DEF Accepted, Ticket
  <2>2. login_online' \in [Ids -> Entry] /\ login_timers' \in [Tids -> Ids \cup {NoAccount}]
    BY DEF Accepted, Entry
  <2>3. mac_online' \in [Accounts -> Macs \cup {NoMac}]
    BY DEF Accepted, MacAdd, WipedMacs
  <2>4. last_login' \in Nat
    BY DEF Accepted
  <2>5. acked' \subseteq Accounts \X (1..last_login')
    <3>1. 1..last_login \subseteq 1..last_login'
      BY DEF Accepted
    <3> QED
      BY <3>1 DEF Accepted
  <2> QED
    BY <2>1, <2>2, <2>3, <2>4, <2>5 DEF Accepted
<1>4. CASE \E c \in Servers, a \in Accounts, id \in 1..last_login :
             AuthAccept(c, a, id, 0)
  <2> PICK c \in Servers, a \in Accounts, id \in 1..last_login :
             AuthAccept(c, a, id, 0)
    BY <1>4
  <2>1. [cmd |-> "auth_ack", aid |-> a, login_id |-> id, fd |-> 0,
         ok |-> TRUE] \in Packet
    BY DEF Packet
  <2>2. toChar' \in [Servers -> Seq(Packet)]
    BY <2>1 DEF AuthAccept
  <2> QED
    BY <2>2 DEF AuthAccept
<1>5. CASE \E c \in Servers, a \in Accounts, id \in 1..last_login :
             AuthRefuse(c, a, id, 0)
  <2> PICK c \in Servers, a \in Accounts, id \in 1..last_login :
             AuthRefuse(c, a, id, 0)
    BY <1>5
  <2>1. [cmd |-> "auth_ack", aid |-> a, login_id |-> id, fd |-> 0,
         ok |-> FALSE] \in Packet
    BY DEF Packet
  <2>2. toChar' \in [Servers -> Seq(Packet)]
    BY <2>1 DEF AuthRefuse
  <2> QED
    BY <2>2 DEF AuthRefuse
<1>6. CASE Down
  BY <1>6 DEF Down
<1>7. CASE \E c \in Servers, a \in Accounts : AccountOnline(c, a)
  BY <1>7 DEF AccountOnline, Entry
<1>8. CASE \E c \in Servers, a \in Accounts : AccountOffline(c, a)
  BY <1>8 DEF AccountOffline, RemoveOnline
<1>9. CASE \E c \in Servers, a \in Accounts : WrongPincode(c, a)
  BY <1>9 DEF WrongPincode, RemoveOnline
<1>10. CASE \E c \in Servers : \E S \in SUBSET Accounts : OnlineAccounts(c, S)
  BY <1>10 DEF OnlineAccounts, Entry
<1>11. CASE \E c \in Servers : AllOffline(c)
  BY <1>11 DEF AllOffline
<1>12. CASE \E c \in Servers : CharConnects(c)
  <2>1. <<[cmd |-> "ready"]>> \in Seq(Packet)
    BY DEF Packet
  <2> QED
    BY <1>12, <2>1 DEF CharConnects
<1>13. CASE \E c \in Servers : CharDisconnects(c)
  BY <1>13 DEF CharDisconnects
<1>15. CASE \E t \in Tids : WaitingDisconnect(t)
  <2> PICK t \in Tids : WaitingDisconnect(t)
    BY <1>15
  <2>1. login_auth' \in [Accounts -> Ticket]
    BY DEF WaitingDisconnect
  <2>2. /\ login_online' \in [Ids -> Entry]
        /\ login_timers' \in [Tids -> Ids \cup {NoAccount}]
        /\ mac_online' \in [Accounts -> Macs \cup {NoMac}]
    <3>1. CASE RemoveOnline({login_timers[t]})
      BY <3>1 DEF RemoveOnline
    <3>2. CASE /\ login_timers' = [login_timers EXCEPT ![t] = NoAccount]
               /\ UNCHANGED <<login_online, mac_online>>
      BY <3>2
    <3> QED
      BY <3>1, <3>2 DEF WaitingDisconnect
  <2> QED
    BY <2>1, <2>2 DEF WaitingDisconnect
<1>16. CASE OnlineDataCleanup
  BY <1>16 DEF OnlineDataCleanup, RemoveOnline
<1>17. CASE Restart
  BY <1>17 DEF Restart
<1>18. CASE UNCHANGED login_vars
  BY <1>18 DEF login_vars
<1> QED
  BY <1>1, <1>2, <1>3, <1>4, <1>5, <1>6, <1>7, <1>8, <1>9, <1>10, <1>11, <1>12,
     <1>13, <1>15, <1>16, <1>17, <1>18
     DEF LoginNext, Login, AuthRequest, AuthNullNode, Crash

\* An account without a record waits for no timer.
OfflineNoTimer ==
  \A a \in Ids : ~Online(a) => login_online[a].waiting = INVALID_TIMER

\* Values of char_server and of waiting that must not be confused.
LEMMA Codes ==
  /\ AuthedOnly # ServerLost /\ AuthedOnly # Offline /\ ServerLost # Offline
  /\ \A c \in Servers : c > AuthedOnly /\ c # AuthedOnly /\ c # ServerLost /\ c # Offline
  /\ INVALID_TIMER \notin Tids
BY ServersAssumption, TidsAssumption
   DEF AuthedOnly, ServerLost, Offline, INVALID_TIMER

\* Cancelling the timers of some accounts, and forgetting in their records that
\* they had one, leaves timers and records matched.
LEMMA CancelMatches ==
  ASSUME TimersMatch, NEW R \in SUBSET Ids,
         \A a \in Ids : login_online'[a].waiting =
           IF a \in R THEN INVALID_TIMER ELSE login_online[a].waiting,
         login_timers' = Cancelled(R)
  PROVE  TimersMatch'
<1>1. NoAccount \notin Ids
  BY AccountsAssumption, GhostAssumption DEF Ids
<1> SUFFICES ASSUME NEW t \in Tids, NEW a \in Ids
             PROVE  login_timers'[t] = a <=> login_online'[a].waiting = t
  BY DEF TimersMatch
<1>2. login_timers[t] = a <=> login_online[a].waiting = t
  BY DEF TimersMatch
<1>3. CASE \E b \in R : login_online[b].waiting = t
  <2> PICK b \in R : login_online[b].waiting = t
    BY <1>3
  <2>1. login_timers[t] = b /\ login_timers'[t] = NoAccount
    BY DEF TimersMatch, Cancelled
  <2>2. login_online'[a].waiting # t
    BY <1>2, <2>1, Codes
  <2> QED
    BY <1>1, <2>1, <2>2
<1>4. CASE ~ \E b \in R : login_online[b].waiting = t
  <2>1. login_timers'[t] = login_timers[t]
    BY <1>4 DEF Cancelled
  <2> QED
    BY <1>2, <1>4, <2>1, Codes
<1> QED
  BY <1>3, <1>4

\* Losing a char server touches neither timers nor who is listed at all.
LEMMA SetOfflineKeeps ==
  ASSUME LoginTypeOK, NEW c, NEW a \in Ids
  PROVE  /\ SetOffline(c)[a].waiting = login_online[a].waiting
         /\ SetOffline(c)[a].char_server = AuthedOnly => At(a) = AuthedOnly
         /\ SetOffline(c)[a].char_server # Offline <=> Online(a)
BY Codes DEF LoginTypeOK, SetOffline, Online, At, Entry

\* Removing records cancels the timers they name and no others.
LEMMA RemoveOnlineKeeps ==
  ASSUME LoginTypeOK, TimersMatch, AuthedOnTheClock, MacTable, OfflineNoTimer,
         NEW S \in SUBSET Ids, RemoveOnline(S)
  PROVE  /\ TimersMatch' /\ AuthedOnTheClock'
         /\ MacTable' /\ OfflineNoTimer'
<1> USE DEF LoginTypeOK, RemoveOnline, Absent
<1>1. TimersMatch'
  BY CancelMatches
<1>2. AuthedOnTheClock'
  BY Codes DEF AuthedOnTheClock, At
<1>3. MacTable'
  BY DEF MacTable, MacDel, Online, Ids
<1>4. OfflineNoTimer'
  BY DEF OfflineNoTimer, Online
<1> QED
  BY <1>1, <1>2, <1>3, <1>4

\* An address can be added only when nobody else has it.
LEMMA MacAddUnique ==
  ASSUME LoginTypeOK, MacTable,
         NEW a \in Accounts, NEW m \in Macs \cup {NoMac}, Accepted(a, m)
  PROVE  MacTable'
<1> DEFINE tbl == WipedMacs(a)
<1>1. tbl \in [Accounts -> Macs \cup {NoMac}]
  BY TablesType DEF WipedMacs, LoginTypeOK
<1>2. \A b \in Accounts : tbl[b] # NoMac => tbl[b] = mac_online[b]
  BY DEF WipedMacs, MacDel, LoginTypeOK
<1>3. MacBlockDual /\ m # NoMac => \A b \in Accounts : tbl[b] # m
  BY <1>1, <1>2 DEF Accepted, DualBlock, MacIsOnline, MacTable
<1>4. mac_online' = MacAdd(tbl, a, m)
  BY DEF Accepted
<1>5. ASSUME NEW b \in Accounts
      PROVE  mac_online'[b] = tbl[b] \/ (b = a /\ mac_online'[b] = m)
  BY <1>1, <1>4 DEF MacAdd
<1>6. \A b \in Accounts : b # a => Online(b)' = Online(b)
  BY DEF Accepted, Online, LoginTypeOK, Ids
<1>7. Online(a)'
  BY Codes DEF Accepted, Online, LoginTypeOK, Ids
<1>8. \A b \in Accounts : mac_online'[b] # NoMac => Online(b)'
  BY <1>2, <1>5, <1>6, <1>7 DEF MacTable
<1>9. ASSUME MacBlockDual, NEW b \in Accounts, NEW d \in Accounts,
             mac_online'[b] = mac_online'[d], mac_online'[b] # NoMac
      PROVE  b = d
  BY <1>2, <1>3, <1>5, <1>9 DEF MacTable
<1> QED
  BY <1>8, <1>9 DEF MacTable

\* Timers, records and addresses stay matched over every step.
LEMMA TablesStep ==
  ASSUME LoginTypeOK, TimersMatch, AuthedOnTheClock, MacTable, OfflineNoTimer,
         [LoginNext]_login_vars
  PROVE  /\ TimersMatch' /\ AuthedOnTheClock'
         /\ MacTable' /\ OfflineNoTimer'
<1> USE Codes
<1>   /\ login_online \in [Ids -> Entry]
      /\ login_timers \in [Tids -> Ids \cup {NoAccount}]
      /\ mac_online \in [Accounts -> Macs \cup {NoMac}]
      /\ Accounts \subseteq Ids
      /\ NoAccount \notin Ids
  BY AccountsAssumption, GhostAssumption DEF LoginTypeOK, Ids
<1>1. CASE \E a \in Accounts : login_up /\ StillOnline(a)
  <2> PICK a \in Accounts : StillOnline(a)
    BY <1>1
  <2>1. CASE UNCHANGED <<login_online, login_timers>>
    BY <2>1 DEF StillOnline, TimersMatch, AuthedOnTheClock, MacTable,
                OfflineNoTimer, At, Online
  <2>2. CASE login_online[a].waiting = INVALID_TIMER
    <3> PICK t \in Tids :
          /\ login_timers[t] = NoAccount
          /\ login_timers' = [login_timers EXCEPT ![t] = a]
          /\ login_online' = [login_online EXCEPT ![a].waiting = t]
      BY <2>2 DEF StillOnline
    <3>1. \A b \in Ids : At(b)' = At(b)
      BY DEF At, Entry
    <3>2. /\ login_online'[a].waiting = t
          /\ \A b \in Ids \ {a} : login_online'[b] = login_online[b]
      BY DEF Entry
    <3>3. TimersMatch'
      BY <2>2, <3>2 DEF TimersMatch
    <3>4. AuthedOnTheClock'
      BY <3>1, <3>2 DEF AuthedOnTheClock
    <3>5. MacTable'
      BY <3>1 DEF StillOnline, MacTable, Online, At
    <3>6. OfflineNoTimer'
      BY <3>1, <3>2 DEF StillOnline, OfflineNoTimer, Online, At
    <3> QED
      BY <3>3, <3>4, <3>5, <3>6
  <2> QED
    BY <2>1, <2>2 DEF StillOnline
<1>2. CASE \E a \in Accounts, m \in Macs \cup {NoMac} : MacInUse(a, m)
  <2> PICK a \in Accounts, m \in Macs \cup {NoMac} : MacInUse(a, m)
    BY <1>2
  <2>1. CASE Wipe(a)
    <3>1. RemoveOnline({a})
      BY <2>1 DEF MacInUse, RemoveOnline, Wipe, WipedMacs, MacDel, Online
    <3> QED
      BY <3>1, RemoveOnlineKeeps
  <2>2. CASE ~Wipe(a)
    <3>1. UNCHANGED <<login_online, login_timers, mac_online>>
      BY <2>2 DEF MacInUse, WipedMacs
    <3> QED
      BY <3>1 DEF TimersMatch, AuthedOnTheClock, MacTable, OfflineNoTimer,
                  At, Online
  <2> QED
    BY <2>1, <2>2
<1>3. CASE \E a \in Accounts, m \in Macs \cup {NoMac} : Accepted(a, m)
  <2> PICK a \in Accounts, m \in Macs \cup {NoMac} : Accepted(a, m)
    BY <1>3
  <2> PICK t \in Tids :
       /\ Cancelled({a})[t] = NoAccount
       /\ login_timers' = [Cancelled({a}) EXCEPT ![t] = a]
       /\ login_online' = [login_online EXCEPT
                             ![a] = [char_server |-> AuthedOnly, waiting |-> t]]
    BY DEF Accepted
  <2>1. /\ login_online'[a].waiting = t
        /\ \A b \in Ids \ {a} : login_online'[b] = login_online[b]
    OBVIOUS
  <2>2. \A s \in Tids : login_timers'[s] =
          IF s = t THEN a ELSE IF login_online[a].waiting = s THEN NoAccount
                               ELSE login_timers[s]
    BY DEF Cancelled
  <2>3. ASSUME NEW s \in Tids, NEW b \in Ids
        PROVE  login_timers'[s] = b <=> login_online'[b].waiting = s
    <3>1. login_online[a].waiting = t \/ login_timers[t] = NoAccount
      BY DEF Cancelled
    <3>2. \A e \in Ids : e # a =>
            ~(login_online[e].waiting = t) /\ login_timers[t] # e
      BY <3>1 DEF TimersMatch
    <3>3. login_timers[s] = b <=> login_online[b].waiting = s
      BY DEF TimersMatch
    <3>4. login_online[a].waiting = s <=> login_timers[s] = a
      BY DEF TimersMatch
    <3>5. NoAccount \notin Ids
      OBVIOUS
    <3>6. CASE b = a
      <4>1. login_timers'[s] = a <=> s = t
        BY <2>2, <3>4, <3>5
      <4> QED
        BY <2>1, <3>6, <4>1
    <3>7. CASE b # a
      <4>1. login_online'[b] = login_online[b]
        BY <2>1, <3>7
      <4>2. CASE s = t
        BY <2>2, <3>2, <3>7, <4>1, <4>2
      <4>3. CASE s # t
        <5>1. login_timers'[s] = b <=> login_timers[s] = b
          BY <2>2, <3>4, <3>5, <3>7, <4>3
        <5> QED
          BY <3>3, <4>1, <5>1
      <4> QED
        BY <4>2, <4>3
    <3> QED
      BY <3>6, <3>7
  <2>4. AuthedOnTheClock'
    BY <2>1 DEF AuthedOnTheClock, At
  <2>5. OfflineNoTimer'
    BY <2>1 DEF OfflineNoTimer, Online
  <2> QED
    BY <2>3, <2>4, <2>5, MacAddUnique DEF TimersMatch
<1>4. CASE UNCHANGED <<login_online, login_timers, mac_online>>
  BY <1>4 DEF TimersMatch, AuthedOnTheClock, MacTable, OfflineNoTimer, At,
              Online
<1>5. CASE Down
  BY <1>5 DEF Down, TimersMatch, AuthedOnTheClock, MacTable, OfflineNoTimer,
              At, Online, Absent
<1>6. CASE \E c \in Servers, a \in Accounts : AccountOnline(c, a)
  <2> PICK c \in Servers, a \in Accounts : AccountOnline(c, a)
    BY <1>6
  <2>1. \A b \in Ids : login_online'[b] =
          IF b = a THEN [char_server |-> c, waiting |-> INVALID_TIMER]
          ELSE login_online[b]
    BY DEF AccountOnline
  <2>2. TimersMatch'
    BY <2>1, CancelMatches DEF AccountOnline
  <2>5. AuthedOnTheClock' /\ OfflineNoTimer'
    BY <2>1 DEF AuthedOnTheClock, OfflineNoTimer, At, Online
  <2>3. \A b \in Accounts : Online(b) => Online(b)'
    BY DEF AccountOnline, Online
  <2>4. MacTable'
    BY <2>3 DEF AccountOnline, MacTable
  <2> QED
    BY <2>2, <2>4, <2>5
<1>7. CASE \E S \in SUBSET Ids : RemoveOnline(S)
  BY <1>7, RemoveOnlineKeeps
<1>8. CASE \E c \in Servers : \E S \in SUBSET Accounts : OnlineAccounts(c, S)
  <2> PICK c \in Servers, S \in SUBSET Accounts : OnlineAccounts(c, S)
    BY <1>8
  <2> DEFINE R == ReadIds(S)
  <2> R \subseteq Ids
    BY DEF ReadIds, Ids
  <2>1. \A a \in Ids : login_online'[a] =
          IF a \in R THEN [char_server |-> c, waiting |-> INVALID_TIMER]
          ELSE SetOffline(c)[a]
    BY DEF OnlineAccounts
  <2>2. login_timers' = Cancelled(R)
    BY DEF OnlineAccounts
  <2> HIDE DEF R
  <2>3. \A a \in Ids :
          /\ SetOffline(c)[a].waiting = login_online[a].waiting
          /\ SetOffline(c)[a].char_server = AuthedOnly => At(a) = AuthedOnly
          /\ SetOffline(c)[a].char_server # Offline <=> Online(a)
    BY SetOfflineKeeps
  <2>4. TimersMatch'
    BY <2>1, <2>2, <2>3, CancelMatches
  <2>5. AuthedOnTheClock'
    <3> SUFFICES ASSUME NEW a \in Ids, At(a)' = AuthedOnly
                 PROVE  login_online'[a].waiting \in Tids
      BY DEF AuthedOnTheClock
    <3>1. a \notin R
      BY <2>1 DEF At
    <3> QED
      BY <2>1, <2>3, <3>1 DEF AuthedOnTheClock, At
  <2>6. \A a \in Ids : Online(a)' <=> (a \in R \/ Online(a))
    BY <2>1, <2>3 DEF Online
  <2>7. MacTable'
    BY <2>6 DEF OnlineAccounts, MacTable
  <2>8. OfflineNoTimer'
    BY <2>1, <2>3, <2>6 DEF OfflineNoTimer
  <2> QED
    BY <2>4, <2>5, <2>7, <2>8
<1>9. CASE \E c \in Servers : AllOffline(c) \/ CharDisconnects(c)
  <2> PICK c \in Servers : AllOffline(c) \/ CharDisconnects(c)
    BY <1>9
  <2>1. /\ login_online' = SetOffline(c)
        /\ UNCHANGED <<login_timers, mac_online>>
    BY DEF AllOffline, CharDisconnects
  <2>2. \A a \in Ids :
          /\ login_online'[a].waiting = login_online[a].waiting
          /\ login_online'[a].char_server = AuthedOnly => At(a) = AuthedOnly
          /\ Online(a)' <=> Online(a)
    BY <2>1, SetOfflineKeeps DEF Online
  <2>3. TimersMatch'
    BY <2>1, <2>2 DEF TimersMatch
  <2>4. AuthedOnTheClock'
    BY <2>2 DEF AuthedOnTheClock, At
  <2>5. OfflineNoTimer' /\ MacTable'
    BY <2>1, <2>2 DEF OfflineNoTimer, MacTable
  <2> QED
    BY <2>3, <2>4, <2>5
<1>10. CASE \E t \in Tids : WaitingDisconnect(t)
  <2> PICK t \in Tids : WaitingDisconnect(t)
    BY <1>10
  <2>1. login_timers[t] \in Ids /\ login_online[login_timers[t]].waiting = t
    BY DEF WaitingDisconnect, TimersMatch
  <2>2. CASE RemoveOnline({login_timers[t]})
    BY <2>1, <2>2, RemoveOnlineKeeps
  <2>3. Online(login_timers[t])
    BY <2>1 DEF OfflineNoTimer
  <2> QED
    BY <2>1, <2>2, <2>3 DEF WaitingDisconnect
<1> QED
  <2>1. CASE LoginNext
    <3>1. CASE \E c \in Servers, a \in Accounts, id \in 1..last_login :
                 AuthAccept(c, a, id, 0) \/ AuthRefuse(c, a, id, 0)
      BY <3>1, <1>4 DEF AuthAccept, AuthRefuse
    <3>2. CASE \E c \in Servers, a \in Accounts :
                 AccountOffline(c, a) \/ WrongPincode(c, a)
      BY <3>2, <1>7 DEF AccountOffline, WrongPincode
    <3>3. CASE \E c \in Servers : CharConnects(c)
      BY <3>3, <1>4 DEF CharConnects
    <3>4. CASE OnlineDataCleanup
      BY <3>4, <1>7 DEF OnlineDataCleanup, Lost
    <3>5. CASE Restart
      BY <3>5, <1>4 DEF Restart
    <3> QED
      BY <2>1, <1>1, <1>2, <1>3, <1>5, <1>6, <1>8, <1>9, <1>10, <3>1, <3>2,
         <3>3, <3>4, <3>5
         DEF LoginNext, Login, AuthRequest, AuthNullNode, Crash
  <2>2. CASE UNCHANGED login_vars
    BY <2>2, <1>4 DEF login_vars
  <2> QED
    BY <2>1, <2>2

\* A ticket in auth_db is numbered, and no char server was told it is good.
TicketsFresh ==
  \A a \in Accounts : login_auth[a] # NoNode =>
    /\ login_auth[a].login_id \in 1..last_login
    /\ <<a, login_auth[a].login_id>> \notin acked

\* The states of the ticket office this server's states stand for.
Current == [a \in Accounts |-> login_auth[a].login_id]

\* Every step leaves the tickets fresh, and is a step of the ticket office.
LEMMA TicketsStep ==
  ASSUME LoginTypeOK, TicketsFresh, [LoginNext]_login_vars
  PROVE  /\ TicketsFresh'
         /\ \/ Office!OfficeNext
            \/ UNCHANGED <<Current, last_login, acked>>
<1> USE DEF Current
<1>1. CASE \E a \in Accounts, m \in Macs \cup {NoMac} : Accepted(a, m)
  <2> PICK a \in Accounts, m \in Macs \cup {NoMac} : Accepted(a, m)
    BY <1>1
  <2>1. /\ last_login' = last_login + 1
        /\ acked' = acked
        /\ login_auth' = [login_auth EXCEPT ![a] =
                            [login_id |-> last_login + 1, mac |-> m]]
    BY DEF Accepted
  <2>2. <<a, last_login + 1>> \notin acked /\ last_login \in Nat
    BY DEF LoginTypeOK
  <2>3. TicketsFresh'
    BY <2>1, <2>2 DEF TicketsFresh, LoginTypeOK
  <2>4. Office!Issue(a)
    BY <2>1 DEF Office!Issue, LoginTypeOK
  <2> QED
    BY <2>3, <2>4 DEF Office!OfficeNext
<1>2. CASE \E c \in Servers, a \in Accounts, id \in 1..last_login :
             AuthAccept(c, a, id, 0)
  <2> PICK c \in Servers, a \in Accounts, id \in 1..last_login :
             AuthAccept(c, a, id, 0)
    BY <1>2
  <2>1. /\ last_login' = last_login
        /\ acked' = acked \cup {<<a, id>>}
        /\ login_auth' = [login_auth EXCEPT ![a] = NoNode]
        /\ login_auth[a] # NoNode /\ login_auth[a].login_id = id
    BY DEF AuthAccept
  <2>2. TicketsFresh'
    BY <2>1 DEF TicketsFresh, LoginTypeOK
  <2>3. id # 0 /\ <<a, id>> \notin acked
    BY <2>1 DEF TicketsFresh, LoginTypeOK
  <2>4. Office!Redeem(a)
    BY <2>1, <2>3 DEF Office!Redeem, LoginTypeOK, NoNode
  <2> QED
    BY <2>2, <2>4 DEF Office!OfficeNext
<1>3. ASSUME UNCHANGED <<last_login, acked>>,
             NEW S \in SUBSET Accounts,
             login_auth' = [a \in Accounts |-> IF a \in S THEN NoNode
                                                          ELSE login_auth[a]]
      PROVE  TicketsFresh' /\ Office!OfficeNext
  <2>1. TicketsFresh'
    BY <1>3 DEF TicketsFresh
  <2>2. Office!Withdraw(S)
    BY <1>3 DEF Office!Withdraw, NoNode
  <2> QED
    BY <2>1, <2>2 DEF Office!OfficeNext
<1>4. CASE \E a \in Accounts, m \in Macs \cup {NoMac} : MacInUse(a, m)
  <2> PICK a \in Accounts, m \in Macs \cup {NoMac} : MacInUse(a, m)
    BY <1>4
  <2> DEFINE S == IF Wipe(a) THEN {a} ELSE {}
  <2>1. login_auth' = [b \in Accounts |-> IF b \in S THEN NoNode
                                                     ELSE login_auth[b]]
    BY DEF MacInUse, LoginTypeOK
  <2>2. UNCHANGED <<last_login, acked>>
    BY DEF MacInUse
  <2>3. S \in SUBSET Accounts
    OBVIOUS
  <2> HIDE DEF S
  <2> QED
    BY <1>3, <2>1, <2>2, <2>3
<1>5. CASE Down
  <2>1. login_auth' = [b \in Accounts |-> IF b \in Accounts THEN NoNode
                                                            ELSE login_auth[b]]
    BY <1>5 DEF Down
  <2> QED
    BY <1>3, <1>5, <2>1 DEF Down
<1>6. CASE UNCHANGED <<login_auth, last_login, acked>>
  BY <1>6 DEF TicketsFresh
<1>7. CASE \E t \in Tids : WaitingDisconnect(t)
  <2> PICK t \in Tids : WaitingDisconnect(t)
    BY <1>7
  <2>0. UNCHANGED <<last_login, acked>>
    BY DEF WaitingDisconnect
  <2>1. CASE UNCHANGED login_auth
    BY <1>6, <2>0, <2>1
  <2>2. CASE login_auth' = [b \in Accounts |->
               IF b = login_timers[t] THEN NoNode ELSE login_auth[b]]
    <3> DEFINE S == Accounts \cap {login_timers[t]}
    <3>1. login_auth' = [b \in Accounts |-> IF b \in S THEN NoNode
                                                       ELSE login_auth[b]]
      BY <2>2
    <3>2. S \in SUBSET Accounts
      OBVIOUS
    <3> HIDE DEF S
    <3> QED
      BY <1>3, <2>0, <3>1, <3>2
  <2> QED
    BY <2>1, <2>2 DEF WaitingDisconnect
<1> QED
  BY <1>1, <1>2, <1>4, <1>5, <1>6, <1>7
     DEF LoginNext, Login, AuthRequest, AuthNullNode, Crash, StillOnline,
         AuthRefuse, AccountOnline, AccountOffline, WrongPincode,
         OnlineAccounts, AllOffline, CharConnects, CharDisconnects,
         OnlineDataCleanup, Restart, login_vars

----------------------------------------------------------------------------

\* Every invariant the proofs lean on, at once.
LoginInv ==
  /\ LoginTypeOK
  /\ TimersMatch
  /\ AuthedOnTheClock
  /\ MacTable
  /\ OfflineNoTimer
  /\ TicketsFresh

\* The first state has every invariant.
LEMMA LoginInitInv ==
  LoginInit => LoginInv
<1> SUFFICES ASSUME LoginInit
             PROVE  LoginInv
  OBVIOUS
<1> USE DEF LoginInit, Absent, Ids
<1>1. LoginTypeOK
  BY DEF LoginTypeOK, Entry, NoNode, Ticket
<1>2. TimersMatch
  BY Codes, AccountsAssumption, GhostAssumption DEF TimersMatch
<1>3. AuthedOnTheClock /\ OfflineNoTimer /\ MacTable
  BY Codes DEF AuthedOnTheClock, OfflineNoTimer, MacTable, At, Online
<1>4. TicketsFresh
  BY DEF TicketsFresh
<1> QED
  BY <1>1, <1>2, <1>3, <1>4 DEF LoginInv

\* Every step keeps them.
LEMMA LoginInductive ==
  LoginInv /\ [LoginNext]_login_vars => LoginInv'
BY TypeStep, TablesStep, TicketsStep DEF LoginInv

LEMMA LoginAlways == LoginSpec => []LoginInv
  BY LoginInitInv, LoginInductive, PTL DEF LoginSpec

\* Every variable of the login server keeps its type.
THEOREM LoginTypes == LoginSpec => []LoginTypeOK
<1>1. LoginInv => LoginTypeOK
  BY DEF LoginInv
<1> QED
  BY <1>1, LoginAlways, PTL

\* A pending timer is the one the record of its account names, and a record names
\* no other, however often an account is kicked, comes back and is forgotten
\* (login_add_online_user, login_waiting_disconnect_timer).
THEOREM LoginTimers == LoginSpec => []TimersMatch
<1>1. LoginInv => TimersMatch
  BY DEF LoginInv
<1> QED
  BY <1>1, LoginAlways, PTL

\* An account between its login and a char server is on the clock
\* (login_auth_ok): none stays online for want of a char server that takes it.
THEOREM LoginOnTheClock == LoginSpec => []AuthedOnTheClock
<1>1. LoginInv => AuthedOnTheClock
  BY DEF LoginInv
<1> QED
  BY <1>1, LoginAlways, PTL

\* The table of MAC addresses agrees with the table of accounts online
\* (login_add_online_user, login_remove_online_user).
THEOREM LoginMacs == LoginSpec => []MacTable
<1>1. LoginInv => MacTable
  BY DEF LoginInv
<1> QED
  BY <1>1, LoginAlways, PTL

\* The login server implements the ticket office: a ticket is vouched for at
\* most once, and only while it is its account's current one.
THEOREM LoginIsTicketOffice ==
  LoginSpec => IsTicketOffice
<1>1. LoginInit => Office!OfficeInit
  BY DEF LoginInit, Office!OfficeInit, NoNode
<1>2. LoginInv /\ [LoginNext]_login_vars
        => [Office!OfficeNext]_<<Current, last_login, acked>>
  BY TicketsStep DEF LoginInv
<1>3. LoginInv /\ [LoginNext]_login_vars
        => [Office!OfficeNext]_<<[a \in Accounts |-> login_auth[a].login_id],
                                 last_login, acked>>
  BY <1>2 DEF Current
<1> QED
  BY <1>1, <1>3, LoginInitInv, LoginInductive, PTL
     DEF LoginSpec, IsTicketOffice, Office!OfficeSpec
=============================================================================
