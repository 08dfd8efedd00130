--------------------------- MODULE AccountSession ---------------------------
(***************************************************************************)
(* A login server, the one char server connected to it, and the clients of *)
(* both: how an account travels from the password check to a character,    *)
(* over a link that may break and a login server that may die.             *)
(*                                                                         *)
(* What one server wrote the other reads in order, while it has the link;  *)
(* each side notices on its own that the link is gone, and the last        *)
(* packets of a broken link may still be read.  Clients show any account   *)
(* and any ticket, handed out or made up.  A map server is a list of       *)
(* players: it lets one in with the char server's consent, and in what it  *)
(* says of him it repeats the ticket and the character it was shown.       *)
(***************************************************************************)
EXTENDS LoginServer, CharServer

CONSTANTS Slot,  \* the char server's slot at the login server
          MaxToLogin, MaxToChar  \* bounds: packets under way each way

ASSUME SlotAssumption  == Slot \in Servers
ASSUME QueueAssumption == MaxToLogin \in Nat /\ MaxToChar \in Nat

VARIABLE playing  \* map server -> account -> [login_id, char_id] or NoNodeC

vars == <<login_vars, char_vars, playing>>

\* The variables only one of the servers touches.
login_only == <<login_up, login_online, login_auth, login_timers, mac_online,
                server, last_login, acked>>
char_only  == <<char_online, char_auth, char_timers, sess, login_fd, map_fd,
                toMap>>

SessionTypeOK ==
  /\ LoginTypeOK
  /\ CharTypeOK
  /\ playing \in [Maps -> [Accounts -> CharTicket]]

\* What a server has written over the link leaves room for more.
LoginRoom == server[Slot] => Len(toChar[Slot]) < MaxToChar
CharRoom  == login_fd = 1 => Len(toLogin) < MaxToLogin

----------------------------------------------------------------------------
(* One server handles the next packet of the other *)

LoginReads ==
  /\ FromChar(Slot) /\ toLogin # <<>> /\ LoginRoom
  /\ toLogin' = Tail(toLogin)
  /\ LET p == Head(toLogin) IN
       \/ p.cmd = "auth" /\ AuthRequest(Slot, p.aid, p.login_id, p.fd)
       \/ p.cmd = "online" /\ AccountOnline(Slot, p.aid)
       \/ p.cmd = "offline" /\ AccountOffline(Slot, p.aid)
       \/ p.cmd = "list" /\ OnlineAccounts(Slot, p.accounts)
  /\ UNCHANGED <<char_only, playing>>

CharReads ==
  /\ login_fd = 1 /\ toChar[Slot] # <<>> /\ CharRoom
  /\ toChar' = [toChar EXCEPT ![Slot] = Tail(@)]
  /\ LET p == Head(toChar[Slot]) IN
       \/ p.cmd = "ready" /\ SendAccounts
       \/ p.cmd = "kick" /\ LoginKick(p.aid)
       \/ p.cmd = "auth_ack" /\ AuthAnswer(p.fd, p.aid, p.login_id, p.ok)
  /\ UNCHANGED <<login_only, playing>>

LinkUp ==
  /\ login_up /\ ~server[Slot]
  /\ CharConnects(Slot) /\ LoginLinkUp
  /\ UNCHANGED playing
LinkLost ==
  /\ UNCHANGED playing
  /\ \/ CharDisconnects(Slot) /\ UNCHANGED char_vars
     \/ (LoginLinkLost \/ LoginRetryFails) /\ UNCHANGED login_vars

----------------------------------------------------------------------------
(* Clients, map servers, and what each server does by itself *)

LoginAlone ==
  /\ LoginRoom
  /\ \/ \E a \in Accounts : Login(a, NoMac)
     \/ \E t \in Tids : WaitingDisconnect(t)
     \/ OnlineDataCleanup \/ Crash \/ Restart
  /\ UNCHANGED <<char_vars, playing>>

CharAlone ==
  /\ CharRoom
  /\ \/ \E fd \in Fds :
          \/ \E a \in Accounts, id \in LoginIds : CharConnect(fd, a, id)
          \/ \E ch \in Chars : CharSelect(fd, ch)
          \/ CloseSession(fd)
     \/ CharTimerStep
  /\ UNCHANGED <<login_vars, playing>>

\* A client shows any ticket for any character.  Faulty first: the character
\* is not written down.
EntersWithoutChar(m, a, ch, id) ==
  /\ playing[m][a] = NoNodeC
  /\ \/ /\ MapAuthOk(m, a, ch, id)
        /\ playing' = [playing EXCEPT ![m][a] = [login_id |-> id]]
     \/ /\ MapAuthFailed(m, a, ch, id) \/ MapAuthNotLoaded(m, a, ch, id)
        /\ UNCHANGED playing

Enters(m, a, ch, id) ==
  /\ playing[m][a] = NoNodeC
  /\ \/ /\ MapAuthOk(m, a, ch, id)
        /\ playing' = [playing EXCEPT ![m][a] = [login_id |-> id, char_id |-> ch]]
     \/ /\ MapAuthFailed(m, a, ch, id) \/ MapAuthNotLoaded(m, a, ch, id)
        /\ UNCHANGED playing
Quits(m, a) ==
  /\ playing[m][a] # NoNodeC
  /\ MapFinalSave(m, a, playing[m][a].char_id)
  /\ playing' = [playing EXCEPT ![m][a] = NoNodeC]
ToCharList(m, a) ==
  /\ playing[m][a] # NoNodeC
  /\ MapCharSelect(m, a, playing[m][a].login_id)
  /\ UNCHANGED playing

\* The list of its players a map server sends once it is connected.
Playing(m)    == {a \in Accounts : playing[m][a] # NoNodeC}
SendsUsers(m) ==
  /\ MapUsers(m, [a \in Playing(m) |-> playing[m][a].char_id])
  /\ UNCHANGED playing

MapSide ==
  /\ CharRoom
  /\ \E m \in Maps :
       \/ \E a \in Accounts :
            \/ \E ch \in Chars, id \in LoginIds : Enters(m, a, ch, id)
            \/ Quits(m, a) \/ ToCharList(m, a)
       \/ SendsUsers(m)
       \/ (MapConnects(m) \/ MapDisconnects(m)) /\ UNCHANGED playing
  /\ UNCHANGED login_vars

----------------------------------------------------------------------------
Init == /\ LoginInit
        /\ CharInit
        /\ playing = [m \in Maps |-> [a \in Accounts |-> NoNodeC]]

Next == \/ LoginReads \/ CharReads \/ LinkUp \/ LinkLost
        \/ LoginAlone \/ CharAlone \/ MapSide

Spec == Init /\ [][Next]_vars

----------------------------------------------------------------------------
(* Properties *)

\* Whoever sits at a char server's session as an account, or plays on a map
\* server, got there with a ticket the login server handed out for that account
\* and vouched for: sockets are closed and reused while the answer is under
\* way, tickets travel between char server and map server, both links break,
\* the login server dies, and no client gets in with somebody else's ticket
\* (char_parse_fromlogin_auth_state, char_parse_char_connect).
AuthOwnTicket ==
  /\ \A fd \in Fds :
       sess[fd].auth => <<sess[fd].aid, sess[fd].login_id>> \in acked
  /\ \A m \in Maps, a \in Accounts :
       playing[m][a] # NoNodeC => <<a, playing[m][a].login_id>> \in acked

\* An account that is on a map server plays a character of its own.  The char
\* server looks at the owner only when a character is picked: it takes what map
\* servers report (char_set_char_online, char_parse_frommap_set_users) and what
\* clients show them on trust, and relies on the ticket to carry the character
\* (char_parse_frommap_auth_request).
InGamePlaysOwn ==
  /\ \A a \in Accounts : InGame(a) => char_online[a].char_id \in CharsOf[a]
  /\ \A m \in Maps, a \in Accounts :
       playing[m][a] # NoNodeC => playing[m][a].char_id \in CharsOf[a]

\* A client is not let in while another session of the account has not picked a
\* character (char_auth_ok: "There's already a connection from this account that
\* hasn't picked a char yet").
OneCharSelectSession ==
  [][\A f, g \in Fds :
       /\ sess[g].auth /\ char_online[sess[g].aid].server = AtCharList
       /\ ~sess[f].auth /\ sess'[f].auth
       => sess'[f].aid # sess[g].aid]_vars
=============================================================================
