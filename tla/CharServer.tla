----------------------------- MODULE CharServer -----------------------------
(***************************************************************************)
(* The account-session side of the char server (src/char/char.c).          *)
(*                                                                         *)
(* online_char_db says where an account's character is: on map server m,   *)
(* nowhere (-1: at the character list), or somewhere the char server does  *)
(* not know (-2: on its way to a map server, or on one whose link was      *)
(* lost).  auth_db holds the ticket that lets an account move between the  *)
(* char server and a map server.  Clients are sessions, one per fd.        *)
(*                                                                         *)
(* Left out: the list of characters and what they own (CharsOf is the      *)
(* table `char`, looked up when a player picks a character and never when  *)
(* a map server names one), the PIN, maintenance and payment               *)
(* restrictions, the guild and party notices, the user counters, and the   *)
(* state in which the server refuses everybody before it shuts down.       *)
(***************************************************************************)
EXTENDS SessionData

CONSTANTS CharsOf,   \* account -> ids of its characters
          Maps,      \* slots of chr->server[], the ids of the map servers
          Fds,       \* client sockets
          CharTids,  \* timer ids
          LoginIds   \* the tickets clients may show

ASSUME MapsAssumption     == Maps \subseteq Nat
ASSUME FdsAssumption      == Fds \subseteq Nat \ {0}
ASSUME CharTidsAssumption == CharTids \subseteq Nat
ASSUME LoginIdsAssumption == LoginIds \subseteq Nat \ {0}
ASSUME CharsOfAssumption  == CharsOf \in [Accounts -> SUBSET (Nat \ {0})]
\* A row of the table `char` has one account_id (sql/principal.sql).
ASSUME OwnerAssumption ==
  \A a, b \in Accounts : CharsOf[a] \cap CharsOf[b] # {} => a = b

NoChar     == -1  \* online_char_data.char_id: none picked
AtCharList == -1  \* online_char_data.server
Elsewhere  == -2
NoFd       == -1  \* online_char_data.fd
Chars      == UNION {CharsOf[a] : a \in Accounts}

VARIABLES
  char_online,  \* online_char_db: account -> record
  char_auth,    \* auth_db: account -> ticket
  char_timers,  \* timer id -> account whose waiting_disconnect it runs
  sess,         \* fd -> client session
  login_fd,     \* 1: link to the login server, -1: just lost, 0: none
  map_fd,       \* chr->server[m].fd is a live connection
  toLogin,      \* packets written to the login server
  toMap         \* packets written to each map server

char_vars == <<char_online, char_auth, char_timers, sess, login_fd, map_fd,
               toLogin, toMap>>

Nobody  == [char_id |-> NoChar, server |-> Offline, fd |-> NoFd,
            waiting |-> INVALID_TIMER]
NoNodeC == [login_id |-> 0, char_id |-> NoChar]
Closed  == [aid |-> NoAccount, login_id |-> 0, auth |-> FALSE, eof |-> FALSE]

OnlineRecord == [char_id : {NoChar} \cup Chars,
                 server  : {Offline, Elsewhere, AtCharList} \cup Maps,
                 fd      : {NoFd} \cup Fds,
                 waiting : {INVALID_TIMER} \cup CharTids]
CharTicket   == [login_id : {0} \cup LoginIds, char_id : {NoChar, 0} \cup Chars]
Session      == [aid : Accounts \cup {NoAccount}, login_id : {0} \cup LoginIds,
                 auth : BOOLEAN, eof : BOOLEAN]
LoginPacket  == [cmd : {"online", "offline"}, aid : Accounts]
                  \cup [cmd : {"auth"}, aid : Accounts, login_id : LoginIds,
                        fd : Fds]
                  \cup [cmd : {"list"}, accounts : SUBSET Accounts]
MapPacket    == [cmd : {"kick"}, aid : Accounts]
                  \cup [cmd : {"save_ack", "registry"},
                        aid : Accounts, char_id : Chars]
                  \cup [cmd : {"auth_ok", "auth_fail"}, aid : Accounts,
                        char_id : Chars, login_id : {0} \cup LoginIds]
                  \cup [cmd : {"select_ack", "change_ack"}, aid : Accounts,
                        ok : BOOLEAN]

CharTypeOK ==
  /\ char_online \in [Accounts -> OnlineRecord]
  /\ char_auth \in [Accounts -> CharTicket]
  /\ char_timers \in [CharTids -> Accounts \cup {NoAccount}]
  /\ sess \in [Fds -> Session]
  /\ login_fd \in {-1, 0, 1}
  /\ map_fd \in [Maps -> BOOLEAN]
  /\ toLogin \in Seq(LoginPacket)
  /\ toMap \in [Maps -> Seq(MapPacket)]

----------------------------------------------------------------------------
(* The online table *)

Present(a) == char_online[a].server # Offline
InGame(a)  == char_online[a].server > AtCharList

\* idb_ensure(online_char_db, a): a new record is at the character list.
Ensured(a) == IF Present(a) THEN char_online[a]
                            ELSE [Nobody EXCEPT !.server = AtCharList]

\* Faulty variants, for the runs that show what each property catches, stand
\* before the definitions they replace, named after what they get wrong.
CharCancelledToInvalid(S) ==
  [t \in CharTids |-> IF \E a \in S : char_online[a].waiting = t
                      THEN INVALID_TIMER ELSE char_timers[t]]
AtListKeepsTimer(r) == [r EXCEPT !.char_id = NoChar, !.server = AtCharList]

\* timer->delete of the timers the records of the accounts of S name.
CharCancelled(S) ==
  [t \in CharTids |-> IF \E a \in S : char_online[a].waiting = t
                      THEN NoAccount ELSE char_timers[t]]

\* Records as the handlers leave them.
AtList(r)       == [r EXCEPT !.char_id = NoChar, !.server = AtCharList,
                             !.waiting = INVALID_TIMER]
On(r, m, ch)    == [r EXCEPT !.char_id = ch, !.server = m,
                             !.waiting = INVALID_TIMER]
Left(r, ch)     ==
  IF r.server # Offline /\ r.char_id = ch THEN AtList(r)
  ELSE [r EXCEPT !.waiting = INVALID_TIMER]

\* A packet for the login server is written only while there is a link.
Tell(s) == toLogin' = IF login_fd = 1 THEN toLogin \o s ELSE toLogin
Say(cmd, a) == [cmd |-> cmd, aid |-> a]

\* A packet about each account of S, in whatever order foreach() visits them.
Listed(S)       == CHOOSE q \in [1..Cardinality(S) -> S] :
                     \A a \in S : \E i \in 1..Cardinality(S) : q[i] = a
SayEach(cmd, S) == [i \in 1..Cardinality(S) |-> Say(cmd, Listed(S)[i])]

\* mapif_disconnectplayer: to the server the record names, if there is a link.
Kick(a)       == Say("kick", a)
KickedFrom(a) == LET m == char_online[a].server IN
                 IF map_fd[m] THEN [toMap EXCEPT ![m] = Append(@, Kick(a))]
                              ELSE toMap

\* char_set_char_offline, when it is the last thing to touch a's record.
OfflineNotice(a, ch, r) ==
  IF ch = NoChar \/ r.server = Offline \/ r.fd = NoFd
  THEN <<Say("offline", a)>> ELSE <<>>
SetCharOffline(a, ch) ==
  LET r == Left(char_online[a], ch) IN
  /\ char_online' = [char_online EXCEPT ![a] = r]
  /\ char_timers' = CharCancelled({a})
  /\ Tell(OfflineNotice(a, ch, r))

\* char_set_char_online: a second map server claiming the account is told of,
\* and the first one is told to drop it.
SetCharOnline(a, m, ch) ==
  /\ char_online' = [char_online EXCEPT ![a] = On(Ensured(a), m, ch)]
  /\ char_timers' = CharCancelled({a})
  /\ Tell(<<Say("online", a)>>)
Conflict(a, m) == /\ InGame(a) /\ char_online[a].server # m
                  /\ char_online[a].char_id # NoChar
KickOtherForgotten(a, m) == toMap
KickOther(a, m) == IF Conflict(a, m) THEN KickedFrom(a) ELSE toMap

\* char_set_char_charselect
SetCharSelect(a, r) ==
  /\ char_online' = [char_online EXCEPT ![a] = AtList(r)]
  /\ char_timers' = CharCancelled({a})

\* A kicked account gets one timer, however often it is kicked.
StartWaiting(a) ==
  IF char_online[a].waiting # INVALID_TIMER
  THEN UNCHANGED <<char_online, char_timers>>
  ELSE \E t \in CharTids :
         /\ char_timers[t] = NoAccount
         /\ char_timers' = [char_timers EXCEPT ![t] = a]
         /\ char_online' = [char_online EXCEPT ![a].waiting = t]

----------------------------------------------------------------------------
(* Clients *)

\* char_auth_ok: the ticket of the client of session fd is good.  s is what the
\* session holds.  A new record does not get to know the session's fd.
AuthInGame(fd, a, s) ==
  /\ InGame(a)
  /\ toMap' = KickedFrom(a)
  /\ StartWaiting(a)
  /\ sess' = [sess EXCEPT ![fd] = s]
  /\ UNCHANGED toLogin
AuthTaken(fd, a, s) ==
  /\ ~InGame(a)
  /\ char_online[a].fd \notin {NoFd, fd}
  /\ sess' = [sess EXCEPT ![fd] = s]
  /\ UNCHANGED <<char_online, char_timers, toLogin, toMap>>
AuthGranted(fd, a, s) ==
  /\ ~InGame(a)
  /\ char_online[a].fd \in {NoFd, fd}
  /\ SetCharSelect(a, IF Present(a) THEN [char_online[a] EXCEPT !.fd = fd]
                                    ELSE Ensured(a))
  /\ Tell(<<Say("online", a)>>)
  /\ sess' = [sess EXCEPT ![fd] = [s EXCEPT !.auth = TRUE]]
  /\ UNCHANGED toMap
AuthOk(fd, a, s) == \/ AuthInGame(fd, a, s)
                    \/ AuthTaken(fd, a, s)
                    \/ AuthGranted(fd, a, s)

Claim(a, id) == [aid |-> a, login_id |-> id, auth |-> FALSE, eof |-> FALSE]

\* 0x65, char_parse_char_connect: the client comes back from a map server, ...
ConnectWithTicket(fd, a, id) ==
  /\ sess[fd] = Closed
  /\ char_auth[a].login_id = id
  /\ char_auth' = [char_auth EXCEPT ![a] = NoNodeC]
  /\ AuthOk(fd, a, Claim(a, id))
  /\ UNCHANGED <<login_fd, map_fd>>

\* ... or the login server is asked, if there is one.
ConnectFromLogin(fd, a, id) ==
  /\ sess[fd] = Closed
  /\ char_auth[a].login_id # id
  /\ sess' = [sess EXCEPT ![fd] = Claim(a, id)]
  /\ Tell(<<[cmd |-> "auth", aid |-> a, login_id |-> id, fd |-> fd]>>)
  /\ UNCHANGED <<char_online, char_auth, char_timers, login_fd, map_fd, toMap>>

CharConnect(fd, a, id) == \/ ConnectWithTicket(fd, a, id)
                          \/ ConnectFromLogin(fd, a, id)

Playable(fd, ch) == /\ sess[fd].auth /\ ~sess[fd].eof
                    /\ ch \in CharsOf[sess[fd].aid]
                    /\ \E m \in Maps : map_fd[m]

\* 0x66, char_parse_char_select: the character is loaded and a map server runs
\* its map (or a big city), ...
SelectOk(fd, ch) ==
  /\ Playable(fd, ch)
  /\ LET a == sess[fd].aid IN
       /\ SetCharOnline(a, Elsewhere, ch)
       /\ toMap' = KickOther(a, Elsewhere)
       /\ char_auth' = [char_auth EXCEPT ![a] =
                          [login_id |-> sess[fd].login_id, char_id |-> ch]]
  /\ UNCHANGED <<sess, login_fd, map_fd>>

\* ... it cannot be loaded, ...
SelectNotLoaded(fd, ch) ==
  /\ Playable(fd, ch)
  /\ LET a == sess[fd].aid
         r == Left(On(Ensured(a), Elsewhere, ch), ch) IN
       /\ char_online' = [char_online EXCEPT ![a] = r]
       /\ char_timers' = CharCancelled({a})
       /\ Tell(<<Say("online", a)>> \o OfflineNotice(a, ch, r))
       /\ toMap' = KickOther(a, Elsewhere)
  /\ UNCHANGED <<char_auth, sess, login_fd, map_fd>>

\* ... or no map server runs a map it could start on.
SelectNoMap(fd, ch) ==
  /\ Playable(fd, ch)
  /\ LET a == sess[fd].aid IN
       /\ SetCharOnline(a, Elsewhere, ch)
       /\ toMap' = KickOther(a, Elsewhere)
  /\ UNCHANGED <<char_auth, sess, login_fd, map_fd>>

CharSelect(fd, ch) == \/ SelectOk(fd, ch)
                      \/ SelectNotLoaded(fd, ch)
                      \/ SelectNoMap(fd, ch)

CloseSessionKeepsFd(fd) ==
  /\ sess[fd] # Closed
  /\ sess' = [sess EXCEPT ![fd] = Closed]
  /\ LET a == sess[fd].aid
         r == char_online[a] IN
       IF sess[fd].auth /\ r.server \in {Offline, AtCharList}
       THEN /\ char_online' = [char_online EXCEPT ![a] = Left(r, NoChar)]
            /\ char_timers' = CharCancelled({a})
            /\ Tell(<<Say("offline", a)>>)
       ELSE UNCHANGED <<char_online, char_timers, toLogin>>
  /\ UNCHANGED <<char_auth, login_fd, map_fd, toMap>>

\* char_parse_char on a session whose client is gone, that was put to eof, or
\* that has to leave because the login server is gone.
CloseSession(fd) ==
  /\ sess[fd] # Closed
  /\ sess' = [sess EXCEPT ![fd] = Closed]
  /\ LET a == sess[fd].aid
         r == IF char_online[a].fd = fd
              THEN [char_online[a] EXCEPT !.fd = NoFd] ELSE char_online[a] IN
       IF ~sess[fd].auth
       THEN UNCHANGED <<char_online, char_timers, toLogin>>
       ELSE IF r.server \in {Offline, AtCharList}
       THEN /\ char_online' = [char_online EXCEPT ![a] = Left(r, NoChar)]
            /\ char_timers' = CharCancelled({a})
            /\ Tell(<<Say("offline", a)>>)
       ELSE /\ char_online' = [char_online EXCEPT ![a] = r]
            /\ UNCHANGED <<char_timers, toLogin>>
  /\ UNCHANGED <<char_auth, login_fd, map_fd, toMap>>

----------------------------------------------------------------------------
(* Packets of the login server *)

AskedAnything(fd, a, id) ==
  fd \in Fds /\ sess[fd].aid # NoAccount /\ ~sess[fd].auth

\* 0x2713: the answer counts only for the session that asked.
Asked(fd, a, id) == fd \in Fds /\ sess[fd] = Claim(a, id)
AuthAnswer(fd, a, id, ok) ==
  /\ IF ok /\ Asked(fd, a, id)
     THEN AuthOk(fd, sess[fd].aid, sess[fd])
     ELSE UNCHANGED <<char_online, char_timers, sess, toLogin, toMap>>
  /\ UNCHANGED <<char_auth, login_fd, map_fd>>

\* 0x2734: somebody else logged in.  On a map server: have it dropped there.
\* With a session here, the first one that claims the account is closed.
Claims(a) == {fd \in Fds : sess[fd].aid = a}
LoginKick(a) ==
  /\ char_auth' = [char_auth EXCEPT ![a] = NoNodeC]
  /\ \/ /\ ~Present(a)
        /\ UNCHANGED <<char_online, char_timers, sess, toLogin, toMap>>
     \/ /\ InGame(a)
        /\ toMap' = KickedFrom(a)
        /\ StartWaiting(a)
        /\ UNCHANGED <<sess, toLogin>>
     \/ /\ Present(a) /\ ~InGame(a)
        /\ \E fd \in Claims(a) :
             /\ \A f \in Claims(a) : fd <= f
             /\ sess' = [sess EXCEPT ![fd].eof = TRUE]
        /\ UNCHANGED <<char_online, char_timers, toLogin, toMap>>
     \/ /\ Present(a) /\ ~InGame(a) /\ Claims(a) = {}
        /\ SetCharOffline(a, NoChar)
        /\ UNCHANGED <<sess, toMap>>
  /\ UNCHANGED <<login_fd, map_fd>>

\* 0x2711, and every hour: the accounts that are on map servers.
SendAccounts ==
  /\ login_fd = 1
  /\ Tell(<<[cmd |-> "list", accounts |-> {a \in Accounts : InGame(a)}]>>)
  /\ UNCHANGED <<char_online, char_auth, char_timers, sess, login_fd, map_fd,
                 toMap>>

\* The link to the login server: made (what was written over an earlier one and
\* not read is gone), lost, and not made again.
LoginLinkUp ==
  /\ login_fd # 1
  /\ login_fd' = 1
  /\ toLogin' = <<>>
  /\ UNCHANGED <<char_online, char_auth, char_timers, sess, map_fd, toMap>>
LoginLinkLost ==
  /\ login_fd = 1
  /\ login_fd' = -1
  /\ UNCHANGED <<char_online, char_auth, char_timers, sess, map_fd, toLogin,
                 toMap>>
LoginRetryFails ==
  /\ login_fd = -1
  /\ login_fd' = 0
  /\ UNCHANGED <<char_online, char_auth, char_timers, sess, map_fd, toLogin,
                 toMap>>

----------------------------------------------------------------------------
(* Packets of map server m *)

FromMap(m) == map_fd[m] /\ UNCHANGED <<login_fd, map_fd>>
Answer(box, m, p) == toMap' = [box EXCEPT ![m] = Append(@, p)]

AuthReply(cmd, a, ch, id) == [cmd |-> cmd, aid |-> a, char_id |-> ch,
                              login_id |-> id]

\* Faulty: the ticket is good for any character.
MapAuthAnyChar(m, a, ch, id) ==
  /\ FromMap(m)
  /\ char_auth[a].login_id = id
  /\ char_auth' = [char_auth EXCEPT ![a] = NoNodeC]
  /\ SetCharOnline(a, m, ch)
  /\ Answer(KickOther(a, m), m, AuthReply("auth_ok", a, ch, id))
  /\ UNCHANGED sess

\* 0x2b26, char_parse_frommap_auth_request: a client shows its ticket to m.
MapAuthOk(m, a, ch, id) ==
  /\ FromMap(m)
  /\ char_auth[a] = [login_id |-> id, char_id |-> ch]
  /\ char_auth' = [char_auth EXCEPT ![a] = NoNodeC]
  /\ SetCharOnline(a, m, ch)
  /\ Answer(KickOther(a, m), m, AuthReply("auth_ok", a, ch, id))
  /\ UNCHANGED sess
MapAuthFailed(m, a, ch, id) ==
  /\ FromMap(m)
  /\ char_auth[a] # [login_id |-> id, char_id |-> ch]
  /\ Answer(toMap, m, AuthReply("auth_fail", a, ch, id))
  /\ UNCHANGED <<char_online, char_auth, char_timers, sess, toLogin>>
\* The character cannot be loaded: refused, and a good ticket stays good.
MapAuthNotLoaded(m, a, ch, id) ==
  /\ FromMap(m)
  /\ Answer(toMap, m, AuthReply("auth_fail", a, ch, id))
  /\ UNCHANGED <<char_online, char_auth, char_timers, sess, toLogin>>
\* A shop whose owner is away needs no ticket ("standalone").
MapAuthStandalone(m, a, ch) ==
  /\ FromMap(m)
  /\ SetCharOnline(a, m, ch)
  /\ Answer(KickOther(a, m), m, AuthReply("auth_ok", a, ch, 0))
  /\ UNCHANGED <<char_auth, sess>>
MapAuth(m, a, ch, id) == \/ MapAuthOk(m, a, ch, id)
                         \/ MapAuthFailed(m, a, ch, id)
                         \/ MapAuthNotLoaded(m, a, ch, id)

\* 0x2b02: the player goes back to the character list.
MapCharSelect(m, a, id) ==
  /\ FromMap(m)
  /\ char_auth' = [char_auth EXCEPT ![a] = [login_id |-> id, char_id |-> 0]]
  /\ SetCharSelect(a, Ensured(a))
  /\ Tell(<<Say("online", a)>>)
  /\ Answer(toMap, m, [cmd |-> "select_ack", aid |-> a, ok |-> TRUE])
  /\ UNCHANGED sess

\* 0x2b05: the player walks to a map of map server n.
MapChange(m, a, ch, id, n) ==
  /\ FromMap(m)
  /\ IF map_fd[n]
     THEN /\ char_auth' = [char_auth EXCEPT ![a] = [login_id |-> id,
                                                    char_id |-> ch]]
          /\ char_online' = [char_online EXCEPT ![a] =
                               [Ensured(a) EXCEPT !.char_id = ch, !.server = n]]
     ELSE UNCHANGED <<char_auth, char_online>>
  /\ Answer(toMap, m, [cmd |-> "change_ack", aid |-> a, ok |-> map_fd[n]])
  /\ UNCHANGED <<char_timers, sess, toLogin>>

\* 0x2b01: data of a character.  The last save of a session ends it here.
MapSave(m, a, ch) ==
  /\ FromMap(m)
  /\ IF Present(a) /\ char_online[a].char_id = ch
     THEN UNCHANGED <<char_online, char_timers, toLogin, toMap>>
     ELSE SetCharOnline(a, m, ch) /\ toMap' = KickOther(a, m)
  /\ UNCHANGED <<char_auth, sess>>
MapFinalSave(m, a, ch) ==
  /\ FromMap(m)
  /\ SetCharOffline(a, ch)
  /\ Answer(toMap, m, [cmd |-> "save_ack", aid |-> a, char_id |-> ch])
  /\ UNCHANGED <<char_auth, sess>>

\* 0x2b17, 0x2b19: the character left, the character is here.
MapSetOffline(m, a, ch) ==
  /\ FromMap(m)
  /\ SetCharOffline(a, ch)
  /\ UNCHANGED <<char_auth, sess, toMap>>
MapSetOnline(m, a, ch) ==
  /\ FromMap(m)
  /\ SetCharOnline(a, m, ch)
  /\ toMap' = KickOther(a, m)
  /\ UNCHANGED <<char_auth, sess>>

\* 0x3005: what the account and the character remember (three packets of which
\* the last to come counts).
MapRegistry(m, a, ch) ==
  /\ FromMap(m)
  /\ Answer(toMap, m, [cmd |-> "registry", aid |-> a, char_id |-> ch])
  /\ UNCHANGED <<char_online, char_auth, char_timers, sess, toLogin>>

\* The accounts of S kicked from wherever they are.
KickAll(S) ==
  toMap' = [n \in Maps |-> IF map_fd[n]
              THEN toMap[n] \o SayEach("kick", {a \in S : char_online[a].server = n})
              ELSE toMap[n]]

\* char_db_setoffline: whoever was on m is now somewhere unknown.
LostFrom(m, r) == IF r.server = m THEN [r EXCEPT !.server = Elsewhere] ELSE r

\* 0x2aff: all characters on m, who[a] the one account a plays.
MapUsers(m, who) ==
  /\ FromMap(m)
  /\ char_online' = [a \in Accounts |->
       IF a \in DOMAIN who
       THEN [Ensured(a) EXCEPT !.server = m, !.char_id = who[a]]
       ELSE LostFrom(m, char_online[a])]
  /\ KickAll({a \in DOMAIN who : InGame(a) /\ char_online[a].server # m})
  /\ UNCHANGED <<char_auth, char_timers, sess, toLogin>>

\* 0x2b18: m drops everybody.
MapAllOffline(m) ==
  /\ FromMap(m)
  /\ KickAll({a \in Accounts : char_online[a].server = m})
  /\ UNCHANGED <<char_online, char_auth, char_timers, sess, toLogin>>

\* The link to map server m: made, and lost (mapif_server_reset).
MapConnects(m) ==
  /\ ~map_fd[m]
  /\ map_fd' = [map_fd EXCEPT ![m] = TRUE]
  /\ toMap' = [toMap EXCEPT ![m] = <<>>]
  /\ UNCHANGED <<char_online, char_auth, char_timers, sess, login_fd, toLogin>>
MapDisconnects(m) ==
  /\ map_fd[m]
  /\ map_fd' = [map_fd EXCEPT ![m] = FALSE]
  /\ char_online' = [a \in Accounts |-> LostFrom(m, char_online[a])]
  /\ UNCHANGED <<char_auth, char_timers, sess, login_fd, toLogin, toMap>>

----------------------------------------------------------------------------
(* Timers *)

CharWaitingDisconnectTimerOnly(t) ==
  /\ char_timers[t] # NoAccount
  /\ char_timers' = [char_timers EXCEPT ![t] = NoAccount]
  /\ UNCHANGED <<char_online, toLogin, char_auth, sess, login_fd, map_fd, toMap>>

\* char_waiting_disconnect: the map server did not drop the kicked player.
CharWaitingDisconnect(t) ==
  /\ char_timers[t] # NoAccount
  /\ LET a == char_timers[t] IN
       IF Present(a) /\ char_online[a].waiting = t
       THEN SetCharOffline(a, char_online[a].char_id)
       ELSE /\ char_timers' = [char_timers EXCEPT ![t] = NoAccount]
            /\ UNCHANGED <<char_online, toLogin>>
  /\ UNCHANGED <<char_auth, sess, login_fd, map_fd, toMap>>

\* char_online_data_cleanup, every 10 minutes: records no session points at and
\* no map server has.  The login server hears of those that were lost.
Idle        == {a \in Accounts : /\ Present(a) /\ ~InGame(a)
                                 /\ char_online[a].fd = NoFd}
LostIdle    == {a \in Idle : char_online[a].server = Elsewhere}
CharCleanupLostOnly ==
  /\ Idle # {}
  /\ char_online' = [a \in Accounts |-> IF a \in LostIdle THEN Nobody
                                                          ELSE char_online[a]]
  /\ char_timers' = CharCancelled(LostIdle)
  /\ UNCHANGED <<toLogin, char_auth, sess, login_fd, map_fd, toMap>>
CharCleanup ==
  /\ Idle # {}
  /\ char_online' = [a \in Accounts |-> IF a \in Idle THEN Nobody
                                                      ELSE char_online[a]]
  /\ char_timers' = CharCancelled(LostIdle)
  /\ Tell(SayEach("offline", LostIdle))
  /\ UNCHANGED <<char_auth, sess, login_fd, map_fd, toMap>>

----------------------------------------------------------------------------

CharInit ==
  /\ char_online = [a \in Accounts |-> Nobody]
  /\ char_auth = [a \in Accounts |-> NoNodeC]
  /\ char_timers = [t \in CharTids |-> NoAccount]
  /\ sess = [fd \in Fds |-> Closed]
  /\ login_fd = 0
  /\ map_fd = [m \in Maps |-> FALSE]
  /\ toLogin = <<>>
  /\ toMap = [m \in Maps |-> <<>>]

\* What clients, the login server and the timers make the char server do.
ClientStep ==
  \E fd \in Fds :
    \/ \E a \in Accounts, id \in LoginIds : CharConnect(fd, a, id)
    \/ \E ch \in Chars : CharSelect(fd, ch)
    \/ CloseSession(fd)

LoginStep ==
  \/ \E fd \in Fds, a \in Accounts, id \in LoginIds, ok \in BOOLEAN :
       AuthAnswer(fd, a, id, ok)
  \/ \E a \in Accounts : LoginKick(a)
  \/ SendAccounts \/ LoginLinkUp \/ LoginLinkLost \/ LoginRetryFails

\* A map server says anything, of any character for any account: whose it is
\* is not looked up.
MapStep ==
  \E m \in Maps :
    \/ \E a \in Accounts, ch \in Chars :
         \/ MapAuthStandalone(m, a, ch)
         \/ MapSave(m, a, ch)
         \/ MapFinalSave(m, a, ch)
         \/ MapSetOffline(m, a, ch)
         \/ MapSetOnline(m, a, ch)
         \/ MapRegistry(m, a, ch)
         \/ \E id \in LoginIds : \/ MapAuth(m, a, ch, id)
                                 \/ \E n \in Maps : MapChange(m, a, ch, id, n)
    \/ \E a \in Accounts, id \in LoginIds : MapCharSelect(m, a, id)
    \/ \E S \in SUBSET Accounts : \E who \in [S -> Chars] : MapUsers(m, who)
    \/ MapAllOffline(m) \/ MapConnects(m) \/ MapDisconnects(m)

CharTimerStep == (\E t \in CharTids : CharWaitingDisconnect(t)) \/ CharCleanup

CharNext == ClientStep \/ LoginStep \/ MapStep \/ CharTimerStep

CharSpec == CharInit /\ [][CharNext]_char_vars

\* Timers come due: the server's own loop drives them.
CharFairness == /\ \A t \in CharTids : WF_char_vars(CharWaitingDisconnect(t))
                /\ WF_char_vars(CharCleanup)
FairCharSpec == CharSpec /\ CharFairness

----------------------------------------------------------------------------
(* Properties *)

\* A pending timer is the one its account's record names, and the record names
\* no other (char_set_char_online, char_set_char_offline, char_auth_ok): a kick
\* that timed out never hits the account's next session.
CharTimersMatch ==
  \A t \in CharTids, a \in Accounts :
    char_timers[t] = a <=> char_online[a].waiting = t

\* The fd a record holds is a live session of that very account: sockets are
\* closed and reused, the record is told (char_parse_char, char_auth_ok).
FdIsTheirs ==
  \A a \in Accounts :
    char_online[a].fd # NoFd =>
      sess[char_online[a].fd].aid = a /\ sess[char_online[a].fd].auth

\* When a map server is given an account another one has, without the account
\* having walked there, the other one is told to drop it, over a link that is up
\* (char_set_char_online, char_parse_frommap_set_users).
OldServerTold ==
  [][\A a \in Accounts : \A m \in Maps :
       /\ char_online[a].server = m
       /\ InGame(a)' /\ char_online'[a].server # m
       /\ ~ \E k, n \in Maps, id \in LoginIds, ch \in Chars :
              MapChange(k, a, ch, id, n)
       => \E i \in DOMAIN toMap'[m] \ DOMAIN toMap[m] : toMap'[m][i] = Kick(a)
    ]_char_vars

\* A kicked account does not stay kicked: it is dropped, comes back, or is
\* marked offline when its timer comes due (char_waiting_disconnect).
CharWaitingEnds ==
  \A a \in Accounts, t \in CharTids :
    char_online[a].waiting = t ~> char_online[a].waiting # t

\* A record nothing points at goes away (char_online_data_cleanup).
IdleForgotten ==
  \A a \in Accounts : a \in Idle ~> a \notin Idle
=============================================================================
