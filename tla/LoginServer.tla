---------------------------- MODULE LoginServer ----------------------------
(***************************************************************************)
(* The account-session side of the login server (src/login/login.c, with   *)
(* the table of online MAC addresses of src/login/mac.c).                  *)
(*                                                                         *)
(* The server keeps two tables.  online_db says where an account is: -1,   *)
(* it passed the password check and has not reached a char server; c >= 0, *)
(* char server c vouches for it; -2, the char server that vouched for it   *)
(* is gone.  auth_db holds the ticket (login_id1, login_id2) a client must *)
(* show to a char server.  A timer bounds how long a ticket, or a kicked   *)
(* session, may linger.                                                    *)
(*                                                                         *)
(* Passwords, account states and bans decide whether mmo_auth() returns    *)
(* -1; here that verdict is given, and Login is what login_auth_ok() does  *)
(* with it.  The pair of random 32-bit ids of a login is one fresh number. *)
(***************************************************************************)
EXTENDS SessionData

CONSTANTS Ghost,         \* an account id that belongs to nobody
          Macs,          \* MAC addresses clients report
          NoMac,         \* the empty MAC address
          Servers,       \* slots of server[], the ids of the char servers
          Tids,          \* timer ids: indices of timer_data[]
          MacBlockDual,  \* login->config->mac_block_dual
          MaxLogins      \* bound: successful logins explored

ASSUME ServersAssumption   == Servers \subseteq Nat
ASSUME TidsAssumption      == Tids \subseteq Nat
ASSUME GhostAssumption     == Ghost \notin Accounts \cup {NoAccount}
ASSUME NoMacAssumption     == NoMac \notin Macs
ASSUME DualAssumption      == MacBlockDual \in BOOLEAN
ASSUME BoundsAssumption    == MaxLogins \in Nat

\* Values of online_login_data.char_server that are not a server.
AuthedOnly == -1
ServerLost == -2

Ids    == Accounts \cup {Ghost}
Absent == [char_server |-> Offline, waiting |-> INVALID_TIMER]
NoNode == [login_id |-> 0, mac |-> NoMac]

VARIABLES
  login_up,      \* the process runs
  login_online,  \* online_db: account -> where it is and its timer
  login_auth,    \* auth_db: account -> ticket waiting to be shown
  login_timers,  \* timer id -> account whose waiting_disconnect it runs
  mac_online,    \* mac->onlinedb: account -> MAC address
  server,        \* server[id].fd is a live connection
  toChar,        \* packets written to each char server
  last_login,    \* number of tickets handed out so far
  acked          \* history: <<account, ticket>> vouched for to a char server

login_vars == <<login_up, login_online, login_auth, login_timers, mac_online,
                server, toChar, last_login, acked>>

Entry   == [char_server : {AuthedOnly, ServerLost, Offline} \cup Servers,
            waiting     : Tids \cup {INVALID_TIMER}]
Ticket  == [login_id : Nat, mac : Macs \cup {NoMac}]
Packet  == [cmd : {"auth_ack"}, aid : Ids, login_id : Nat, fd : Nat,
            ok : BOOLEAN]
             \cup [cmd : {"kick"}, aid : Ids]
             \cup [cmd : {"ready"}]

LoginTypeOK ==
  /\ login_up \in BOOLEAN
  /\ login_online \in [Ids -> Entry]
  /\ login_auth \in [Accounts -> Ticket]
  /\ login_timers \in [Tids -> Ids \cup {NoAccount}]
  /\ mac_online \in [Accounts -> Macs \cup {NoMac}]
  /\ server \in [Servers -> BOOLEAN]
  /\ toChar \in [Servers -> Seq(Packet)]
  /\ last_login \in Nat
  /\ acked \subseteq Accounts \X (1..last_login)

----------------------------------------------------------------------------
(* Helpers *)

Online(a)    == login_online[a].char_server # Offline
At(a)        == login_online[a].char_server
Connected    == {c \in Servers : server[c]}

\* charif_sendallwos(-1, ...): one packet to every connected char server.
SendAll(p) == [c \in Servers |-> IF server[c] THEN Append(toChar[c], p)
                                              ELSE toChar[c]]

\* Faulty variants, for the runs that show what each property catches, stand
\* before the definitions they replace, named after what they get wrong.
CancelledToInvalid(S) ==
  [t \in Tids |-> IF \E a \in S : login_online[a].waiting = t
                  THEN INVALID_TIMER ELSE login_timers[t]]

\* timer->delete of the timers the records of the accounts of S name.
Cancelled(S) == [t \in Tids |-> IF \E a \in S : login_online[a].waiting = t
                                THEN NoAccount ELSE login_timers[t]]

SetOfflineToAuthed(c) == [a \in Ids |->
                            IF Online(a) /\ At(a) = c
                            THEN [login_online[a] EXCEPT !.char_server = AuthedOnly]
                            ELSE login_online[a]]

\* foreach(online_db, online_db_setoffline, c): c no longer vouches for anyone.
SetOffline(c) == [a \in Ids |->
                    IF Online(a) /\ At(a) = c
                    THEN [login_online[a] EXCEPT !.char_server = ServerLost]
                    ELSE login_online[a]]

\* mac_is_online: exactly one account is listed with this address.
MacIsOnline(tbl, m) ==
  /\ m # NoMac
  /\ \E a \in Accounts : /\ tbl[a] = m
                         /\ \A b \in Accounts : tbl[b] = m => b = a

MacDelForgotten(tbl, S) == tbl

\* mac_add_online, mac_del_online.
MacAdd(tbl, a, m) == IF m = NoMac THEN tbl ELSE [tbl EXCEPT ![a] = m]
MacDel(tbl, S)    == [a \in Accounts |-> IF a \in S THEN NoMac ELSE tbl[a]]

----------------------------------------------------------------------------
(* login_auth_ok: a client passed mmo_auth.  With no char server connected it *)
(* is turned away and nothing changes.                                        *)

\* A char server holds the account: ask for it to be kicked, and give it 30 s.
StillOnline(a) ==
  /\ Online(a) /\ At(a) > AuthedOnly
  /\ toChar' = SendAll([cmd |-> "kick", aid |-> a])
  /\ IF login_online[a].waiting # INVALID_TIMER
     THEN UNCHANGED <<login_online, login_timers>>
     ELSE \E t \in Tids :
            /\ login_timers[t] = NoAccount
            /\ login_timers' = [login_timers EXCEPT ![t] = a]
            /\ login_online' = [login_online EXCEPT ![a].waiting = t]
  /\ UNCHANGED <<login_up, login_auth, mac_online, server, last_login, acked>>

\* The state after "wipe previous session" when the account never left login.
Wipe(a)       == Online(a) /\ At(a) = AuthedOnly
WipedMacs(a)  == IF Wipe(a) THEN MacDel(mac_online, {a}) ELSE mac_online
DualBlock(a, m) == /\ ~(Online(a) /\ At(a) > AuthedOnly)
                   /\ MacBlockDual /\ MacIsOnline(WipedMacs(a), m)

\* mac_block_dual: the address is in use; the wipe has already happened.
MacInUse(a, m) ==
  /\ DualBlock(a, m)
  /\ login_online' = [login_online EXCEPT ![a] = IF Wipe(a) THEN Absent ELSE @]
  /\ login_auth' = [login_auth EXCEPT ![a] = IF Wipe(a) THEN NoNode ELSE @]
  /\ login_timers' = IF Wipe(a) THEN Cancelled({a}) ELSE login_timers
  /\ mac_online' = WipedMacs(a)
  /\ UNCHANGED <<login_up, server, toChar, last_login, acked>>

\* The login is accepted: new ticket, entry at -1, and its deletion scheduled.
Accepted(a, m) ==
  /\ ~(Online(a) /\ At(a) > AuthedOnly)
  /\ ~DualBlock(a, m)
  /\ last_login < MaxLogins
  /\ last_login' = last_login + 1
  /\ login_auth' = [login_auth EXCEPT ![a] = [login_id |-> last_login + 1,
                                              mac |-> m]]
  /\ \E t \in Tids :
       /\ Cancelled({a})[t] = NoAccount
       /\ login_timers' = [Cancelled({a}) EXCEPT ![t] = a]
       /\ login_online' = [login_online EXCEPT
                             ![a] = [char_server |-> AuthedOnly, waiting |-> t]]
  /\ mac_online' = MacAdd(WipedMacs(a), a, m)
  /\ UNCHANGED <<login_up, server, toChar, acked>>

Login(a, m) == /\ login_up
               /\ Connected # {}
               /\ \/ StillOnline(a)
                  \/ MacInUse(a, m)
                  \/ Accepted(a, m)

----------------------------------------------------------------------------
(* Packets of char server c *)

FromChar(c) == login_up /\ server[c]

\* The process dies: every table lives in memory only.
Down ==
  /\ login_up' = FALSE
  /\ login_online' = [a \in Ids |-> Absent]
  /\ login_auth' = [a \in Accounts |-> NoNode]
  /\ login_timers' = [t \in Tids |-> NoAccount]
  /\ mac_online' = [a \in Accounts |-> NoMac]
  /\ server' = [c \in Servers |-> FALSE]
  /\ UNCHANGED <<toChar, last_login, acked>>

AuthAcceptKeepsNode(c, a, id, fd) ==
  /\ FromChar(c)
  /\ login_auth[a] # NoNode /\ login_auth[a].login_id = id
  /\ toChar' = [toChar EXCEPT ![c] = Append(@, [cmd |-> "auth_ack", aid |-> a,
                                login_id |-> id, fd |-> fd, ok |-> TRUE])]
  /\ acked' = acked \cup {<<a, id>>}
  /\ UNCHANGED <<login_up, login_online, login_auth, login_timers, mac_online,
                 server, last_login>>

\* 0x2712, login_fromchar_parse_auth: is this ticket good?
AuthAccept(c, a, id, fd) ==
  /\ FromChar(c)
  /\ login_auth[a] # NoNode /\ login_auth[a].login_id = id
  /\ toChar' = [toChar EXCEPT ![c] = Append(@, [cmd |-> "auth_ack", aid |-> a,
                                login_id |-> id, fd |-> fd, ok |-> TRUE])]
  /\ login_auth' = [login_auth EXCEPT ![a] = NoNode]
  /\ acked' = acked \cup {<<a, id>>}
  /\ UNCHANGED <<login_up, login_online, login_timers, mac_online, server,
                 last_login>>

AuthRefuse(c, a, id, fd) ==
  /\ FromChar(c)
  /\ login_auth[a] # NoNode /\ login_auth[a].login_id # id
  /\ toChar' = [toChar EXCEPT ![c] = Append(@, [cmd |-> "auth_ack", aid |-> a,
                                login_id |-> id, fd |-> fd, ok |-> FALSE])]
  /\ UNCHANGED <<login_up, login_online, login_auth, login_timers, mac_online,
                 server, last_login, acked>>

\* No ticket: the refusal formats and copies node->mac_address with node = NULL.
AuthNullNode(c, a, id, fd) ==
  /\ FromChar(c)
  /\ login_auth[a] = NoNode
  /\ Down

AuthRequest(c, a, id, fd) == \/ AuthAccept(c, a, id, fd)
                             \/ AuthRefuse(c, a, id, fd)
                             \/ AuthNullNode(c, a, id, fd)

\* 0x272b: c has the account.  The MAC of a char server's session is empty.
AccountOnline(c, a) ==
  /\ FromChar(c)
  /\ login_online' = [login_online EXCEPT
                        ![a] = [char_server |-> c, waiting |-> INVALID_TIMER]]
  /\ login_timers' = Cancelled({a})
  /\ UNCHANGED <<login_up, login_auth, mac_online, server, toChar, last_login,
                 acked>>

RemoveOnlineKeepsTimer(S) ==
  /\ login_online' = [a \in Ids |-> IF a \in S THEN Absent ELSE login_online[a]]
  /\ login_timers' = login_timers
  /\ mac_online' = MacDel(mac_online, {a \in S : Online(a)})

\* login_remove_online_user for every account of S.
RemoveOnline(S) ==
  /\ login_online' = [a \in Ids |-> IF a \in S THEN Absent ELSE login_online[a]]
  /\ login_timers' = Cancelled(S)
  /\ mac_online' = MacDel(mac_online, {a \in S : Online(a)})

\* 0x272c: the account left.  Whichever char server says so is believed.
AccountOffline(c, a) ==
  /\ FromChar(c)
  /\ RemoveOnline({a})
  /\ UNCHANGED <<login_up, login_auth, server, toChar, last_login, acked>>

\* The 0x272d packet has its ids at offset 8; the loop reads them at offset 6.
\* Each id read is the upper half of one word and the lower half of the next.
ReadIds(S) == IF S = {} THEN {} ELSE {Ghost}

\* 0x272d, login_fromchar_parse_online_accounts: all accounts c has.
OnlineAccounts(c, S) ==
  /\ FromChar(c)
  /\ login_online' = [a \in Ids |->
                        IF a \in ReadIds(S)
                        THEN [char_server |-> c, waiting |-> INVALID_TIMER]
                        ELSE SetOffline(c)[a]]
  /\ login_timers' = Cancelled(ReadIds(S))
  /\ UNCHANGED <<login_up, login_auth, mac_online, server, toChar, last_login,
                 acked>>

\* 0x2737: c has no account any more.
AllOffline(c) ==
  /\ FromChar(c)
  /\ login_online' = SetOffline(c)
  /\ UNCHANGED <<login_up, login_auth, login_timers, mac_online, server, toChar,
                 last_login, acked>>

\* 0x2739: too many wrong PINs.  An account that is not online is left alone.
WrongPincode(c, a) ==
  /\ FromChar(c)
  /\ Online(a)
  /\ RemoveOnline({a})
  /\ UNCHANGED <<login_up, login_auth, server, toChar, last_login, acked>>

----------------------------------------------------------------------------
(* Connections, timers, restarts *)

\* login_parse_request_connection: the slot of this char server is free.  What
\* was written over an earlier link and not read is gone.
CharConnects(c) ==
  /\ login_up /\ ~server[c]
  /\ server' = [server EXCEPT ![c] = TRUE]
  /\ toChar' = [toChar EXCEPT ![c] = <<[cmd |-> "ready"]>>]
  /\ UNCHANGED <<login_up, login_online, login_auth, login_timers, mac_online,
                 last_login, acked>>

\* chrif_on_disconnect: the link to c is closed.
CharDisconnects(c) ==
  /\ FromChar(c)
  /\ server' = [server EXCEPT ![c] = FALSE]
  /\ login_online' = SetOffline(c)
  /\ UNCHANGED <<login_up, login_auth, login_timers, mac_online, toChar,
                 last_login, acked>>

WaitingDisconnectTimerOnly(t) ==
  /\ login_up
  /\ login_timers[t] # NoAccount
  /\ login_timers' = [login_timers EXCEPT ![t] = NoAccount]
  /\ UNCHANGED <<login_up, login_online, login_auth, mac_online, server, toChar,
                 last_login, acked>>

\* login_waiting_disconnect_timer: the 30 s are over.
WaitingDisconnect(t) ==
  /\ login_up
  /\ login_timers[t] # NoAccount
  /\ LET a == login_timers[t] IN
       IF Online(a) /\ login_online[a].waiting = t
       THEN /\ RemoveOnline({a})
            /\ login_auth' = [b \in Accounts |-> IF b = a THEN NoNode
                                                          ELSE login_auth[b]]
       ELSE /\ login_timers' = [login_timers EXCEPT ![t] = NoAccount]
            /\ UNCHANGED <<login_online, mac_online, login_auth>>
  /\ UNCHANGED <<login_up, server, toChar, last_login, acked>>

LostAuthed == {a \in Ids : Online(a) /\ At(a) = AuthedOnly}

\* login_online_data_cleanup, every 10 minutes.
Lost == {a \in Ids : Online(a) /\ At(a) = ServerLost}
OnlineDataCleanup ==
  /\ login_up
  /\ Lost # {}
  /\ RemoveOnline(Lost)
  /\ UNCHANGED <<login_up, login_auth, server, toChar, last_login, acked>>

\* The process is killed, and started again.
Crash   == login_up /\ Down
Restart ==
  /\ ~login_up
  /\ login_up' = TRUE
  /\ UNCHANGED <<login_online, login_auth, login_timers, mac_online, server,
                 toChar, last_login, acked>>

----------------------------------------------------------------------------
LoginInit ==
  /\ login_up = TRUE
  /\ login_online = [a \in Ids |-> Absent]
  /\ login_auth = [a \in Accounts |-> NoNode]
  /\ login_timers = [t \in Tids |-> NoAccount]
  /\ mac_online = [a \in Accounts |-> NoMac]
  /\ server = [c \in Servers |-> FALSE]
  /\ toChar = [c \in Servers |-> <<>>]
  /\ last_login = 0
  /\ acked = {}

LoginNext ==
  \/ \E a \in Accounts, m \in Macs \cup {NoMac} : Login(a, m)
  \/ \E c \in Servers, a \in Accounts :
       \/ \E id \in 1..last_login : AuthRequest(c, a, id, 0)
       \/ AccountOnline(c, a)
       \/ AccountOffline(c, a)
       \/ WrongPincode(c, a)
  \/ \E c \in Servers :
       \/ \E S \in SUBSET Accounts : OnlineAccounts(c, S)
       \/ AllOffline(c)
       \/ CharConnects(c)
       \/ CharDisconnects(c)
  \/ \E t \in Tids : WaitingDisconnect(t)
  \/ OnlineDataCleanup
  \/ Crash
  \/ Restart

LoginSpec == LoginInit /\ [][LoginNext]_login_vars

\* Timers come due and the interval timer comes round: both are driven by the
\* server's own loop.  Nothing is assumed of clients and char servers.
LoginFairness == /\ \A t \in Tids : WF_login_vars(WaitingDisconnect(t))
                 /\ WF_login_vars(OnlineDataCleanup)
FairLoginSpec == LoginSpec /\ LoginFairness

----------------------------------------------------------------------------
(* Properties *)

\* A pending timer is the one its account's record names, and the record names
\* no other: timer->delete and the reuse of timer ids never leave an orphan
\* that would later throw out the account's next session
\* (login_add_online_user, login_remove_online_user, login_auth_ok).
TimersMatch ==
  \A t \in Tids, a \in Ids :
    login_timers[t] = a <=> login_online[a].waiting = t

\* An account that passed the password check and never reached a char server
\* is always on the clock, so it cannot block its owner for ever
\* (login_auth_ok: "schedule deletion of this node").
AuthedOnTheClock ==
  \A a \in Ids : At(a) = AuthedOnly => login_online[a].waiting \in Tids

\* The table of MAC addresses lists online accounts only, and with
\* mac_block_dual no two accounts share an address, so that "foreach() == 1"
\* in mac_is_online still means "somebody has it".
MacTable ==
  /\ \A a \in Accounts : mac_online[a] # NoMac => Online(a)
  /\ MacBlockDual =>
       \A a, b \in Accounts :
         mac_online[a] = mac_online[b] /\ mac_online[a] # NoMac => a = b

\* The login server is a ticket office: it vouches for a ticket at most once,
\* and never for one that a later login of the account replaced, whatever the
\* char servers ask, in whatever order, across disconnections and restarts
\* ("each auth entry can only be used once", login_fromchar_parse_auth).
Office == INSTANCE TicketOffice
            WITH Holders  <- Accounts,
                 current  <- [a \in Accounts |-> login_auth[a].login_id],
                 issued   <- last_login,
                 redeemed <- acked
IsTicketOffice == Office!OfficeSpec

\* A record that waits for its timer does not wait for ever: it is confirmed by
\* a char server, replaced, or thrown out (login_waiting_disconnect_timer).
WaitingEnds ==
  \A a \in Ids, t \in Tids :
    login_online[a].waiting = t ~> login_online[a].waiting # t

\* An account whose char server is gone is not online for ever
\* (login_online_data_cleanup).
LostForgotten ==
  \A a \in Ids : At(a) = ServerLost ~> At(a) # ServerLost
=============================================================================
