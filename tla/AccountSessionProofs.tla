------------------------ MODULE AccountSessionProofs ------------------------
(***************************************************************************)
(* Theorems about AccountSession, for any number of accounts, char servers *)
(* known to the login server, map servers, sockets and tickets, and any    *)
(* length of the queues.                                                   *)
(*                                                                         *)
(* AuthOwnTicket is about the two ends of a journey; the invariant follows *)
(* the ticket all the way: asked for by a char server, vouched for by the  *)
(* login server, under way in the answer, held by the session, put aside   *)
(* for the map server, held by the map server, and put aside again for the *)
(* way back.                                                               *)
(***************************************************************************)
EXTENDS AccountSession, CharServerProofs, LoginServerProofs

\* What the login server writes to a char server that asks as this one does.
SessionPacket == [cmd : {"auth_ack"}, aid : Accounts, login_id : LoginIds,
                  fd : Fds, ok : BOOLEAN]
                   \cup [cmd : {"kick"}, aid : Accounts]
                   \cup [cmd : {"ready"}]

\* A good answer is about a ticket of A.
VouchedIn(A, p) == p.cmd = "auth_ack" /\ p.ok => <<p.aid, p.login_id>> \in A

LinkOK == /\ toChar \in [Servers -> Seq(SessionPacket)]
          /\ \A c \in Servers : \A i \in 1..Len(toChar[c]) : VouchedIn(acked, toChar[c][i])

SessionsVouched ==
  \A fd \in Fds : sess[fd].auth => <<sess[fd].aid, sess[fd].login_id>> \in acked
TicketsVouched ==
  \A a \in Accounts :
    char_auth[a].login_id # 0 => <<a, char_auth[a].login_id>> \in acked
PlayersOK ==
  /\ playing \in [Maps -> [Accounts -> CharTicket]]
  /\ \A m \in Maps, a \in Accounts :
       playing[m][a] # NoNodeC => /\ <<a, playing[m][a].login_id>> \in acked
                                  /\ playing[m][a].char_id \in Chars

VouchInv == /\ acked \subseteq Accounts \X LoginIds
            /\ LinkOK
            /\ SessionsVouched
            /\ TicketsVouched
            /\ PlayersOK

SessionInv == CharInv /\ QueuesOK /\ VouchInv

----------------------------------------------------------------------------
(* The link from the login server to the char servers *)

\* Answers stay true: the login server never takes its word back.
LEMMA AckedGrows ==
  ASSUME VouchInv, acked \subseteq acked', acked' \subseteq Accounts \X LoginIds,
         UNCHANGED <<sess, char_auth, playing>>, LinkOK'
  PROVE  VouchInv'
<1>1. SessionsVouched'
  BY DEF VouchInv, SessionsVouched
<1>2. TicketsVouched'
  BY DEF VouchInv, TicketsVouched
<1>3. PlayersOK'
  BY DEF VouchInv, PlayersOK
<1> QED
  BY <1>1, <1>2, <1>3 DEF VouchInv

\* One more packet for some of the char servers.
LEMMA LinkAppend ==
  ASSUME LinkOK, acked \subseteq acked', NEW S \in SUBSET Servers,
         NEW p \in SessionPacket, VouchedIn(acked', p),
         toChar' = [c \in Servers |-> IF c \in S THEN Append(toChar[c], p)
                                                 ELSE toChar[c]]
  PROVE  LinkOK'
<1> SUFFICES ASSUME NEW c \in Servers
             PROVE  /\ toChar'[c] \in Seq(SessionPacket)
                    /\ \A i \in 1..Len(toChar'[c]) : VouchedIn(acked', toChar'[c][i])
  BY DEF LinkOK
<1>1. /\ toChar[c] \in Seq(SessionPacket)
      /\ \A i \in 1..Len(toChar[c]) : VouchedIn(acked', toChar[c][i])
  BY DEF LinkOK, VouchedIn
<1>2. CASE c \in S
  <2>1. toChar'[c] = Append(toChar[c], p)
    BY <1>2
  <2>2. /\ Append(toChar[c], p) \in Seq(SessionPacket)
        /\ Len(Append(toChar[c], p)) = Len(toChar[c]) + 1
        /\ \A i \in 1..Len(toChar[c]) : Append(toChar[c], p)[i] = toChar[c][i]
        /\ Append(toChar[c], p)[Len(toChar[c]) + 1] = p
    BY <1>1
  <2>3. Len(toChar[c]) \in Nat
    BY <1>1
  <2>4. ASSUME NEW i \in 1..(Len(toChar[c]) + 1)
        PROVE  VouchedIn(acked', toChar'[c][i])
    <3>1. CASE i \in 1..Len(toChar[c])
      <4>1. toChar'[c][i] = toChar[c][i]
        BY <2>1, <2>2, <3>1
      <4> QED
        BY <1>1, <3>1, <4>1 DEF VouchedIn
    <3>2. CASE i = Len(toChar[c]) + 1
      <4>1. toChar'[c][i] = p
        BY <2>1, <2>2, <3>2
      <4> QED
        BY <4>1 DEF VouchedIn
    <3> QED
      BY <2>3, <3>1, <3>2
  <2> QED
    BY <2>1, <2>2, <2>4
<1>3. CASE c \notin S
  <2>1. toChar'[c] = toChar[c]
    BY <1>3
  <2> QED
    BY <1>1, <2>1 DEF VouchedIn
<1> QED
  BY <1>2, <1>3

LEMMA LinkSame ==
  ASSUME LinkOK, acked \subseteq acked', UNCHANGED toChar
  PROVE  LinkOK'
  BY DEF LinkOK, VouchedIn

----------------------------------------------------------------------------
(* What each side reads *)

LEMMA LoginPacketFields ==
  ASSUME NEW p \in LoginPacket
  PROVE  p.cmd = "auth" => /\ p.aid \in Accounts /\ p.login_id \in LoginIds
                           /\ p.fd \in Fds
  BY DEF LoginPacket

LEMMA SessionPacketFields ==
  ASSUME NEW p \in SessionPacket
  PROVE  /\ p.cmd = "auth_ack" => /\ p.aid \in Accounts /\ p.login_id \in LoginIds
                                  /\ p.fd \in Fds /\ p.ok \in BOOLEAN
         /\ p.cmd = "kick" => p.aid \in Accounts
  BY DEF SessionPacket

\* The login server answers for the tickets it knows.
LEMMA AuthRequestOK ==
  ASSUME VouchInv, NEW a \in Accounts, NEW id \in LoginIds, NEW fd \in Fds,
         AuthRequest(Slot, a, id, fd)
  PROVE  /\ LinkOK' /\ acked \subseteq acked'
         /\ acked' \subseteq Accounts \X LoginIds
<1> DEFINE p(ok) == [cmd |-> "auth_ack", aid |-> a, login_id |-> id, fd |-> fd,
                     ok |-> ok]
<1>0. LinkOK /\ acked \subseteq Accounts \X LoginIds
  BY DEF VouchInv
<1>1. ASSUME NEW ok \in BOOLEAN, acked \subseteq acked',
             toChar' = [toChar EXCEPT ![Slot] = Append(@, p(ok))],
             ok => <<a, id>> \in acked'
      PROVE  LinkOK'
  <2>1. p(ok) \in SessionPacket /\ VouchedIn(acked', p(ok))
    BY <1>1 DEF SessionPacket, VouchedIn
  <2> HIDE DEF p
  <2>2. toChar' = [c \in Servers |-> IF c \in {Slot} THEN Append(toChar[c], p(ok))
                                                    ELSE toChar[c]]
    BY <1>0, <1>1 DEF LinkOK
  <2>3. {Slot} \in SUBSET Servers
    BY SlotAssumption
  <2> QED
    BY <1>0, <1>1, <2>1, <2>2, <2>3, LinkAppend
<1>2. CASE AuthAccept(Slot, a, id, fd)
  <2>1. /\ acked' = acked \cup {<<a, id>>}
        /\ toChar' = [toChar EXCEPT ![Slot] = Append(@, p(TRUE))]
    BY <1>2 DEF AuthAccept
  <2>2. /\ acked \subseteq acked' /\ <<a, id>> \in acked'
        /\ acked' \subseteq Accounts \X LoginIds
    BY <1>0, <2>1
  <2> HIDE DEF p
  <2>3. LinkOK'
    BY <1>1, <2>1, <2>2
  <2> QED
    BY <2>2, <2>3
<1>3. CASE AuthRefuse(Slot, a, id, fd)
  <2>1. /\ acked' = acked
        /\ toChar' = [toChar EXCEPT ![Slot] = Append(@, p(FALSE))]
    BY <1>3 DEF AuthRefuse
  <2> HIDE DEF p
  <2> QED
    BY <1>0, <1>1, <2>1
<1>4. CASE AuthNullNode(Slot, a, id, fd)
  <2>1. UNCHANGED <<toChar, acked>>
    BY <1>4 DEF AuthNullNode, Down
  <2> QED
    BY <1>0, <2>1, LinkSame
<1> QED
  BY <1>2, <1>3, <1>4 DEF AuthRequest

LEMMA LoginReadsOK == SessionInv /\ LoginReads => SessionInv'
<1> SUFFICES ASSUME SessionInv, LoginReads PROVE SessionInv'
  OBVIOUS
<1> DEFINE p == Head(toLogin)
<1>1. p \in LoginPacket /\ toLogin' \in Seq(LoginPacket)
  <2>1. toLogin \in Seq(LoginPacket) /\ toLogin # <<>> /\ toLogin' = Tail(toLogin)
    BY DEF SessionInv, QueuesOK, LoginReads
  <2> QED
    BY <2>1
<1>2. UNCHANGED <<char_only, playing>>
  BY DEF LoginReads
<1>3. CharInv'
  BY <1>2, CharStepOK DEF SessionInv, char_only, record_vars
<1>4. QueuesOK'
  BY <1>1, <1>2 DEF SessionInv, QueuesOK, char_only
<1>5. /\ LinkOK' /\ acked \subseteq acked'
      /\ acked' \subseteq Accounts \X LoginIds
  <2>1. CASE p.cmd = "auth" /\ AuthRequest(Slot, p.aid, p.login_id, p.fd)
    BY <1>1, <2>1, LoginPacketFields, AuthRequestOK DEF SessionInv
  <2>2. CASE UNCHANGED <<toChar, acked>>
    BY <2>2, LinkSame DEF SessionInv, VouchInv
  <2> QED
    BY <2>1, <2>2 DEF LoginReads, AccountOnline, AccountOffline, OnlineAccounts
<1>6. VouchInv'
  BY <1>2, <1>5, AckedGrows DEF SessionInv, char_only
<1> QED
  BY <1>3, <1>4, <1>6 DEF SessionInv

\* Taking a packet off a link leaves the others true.
LEMMA LinkTail ==
  ASSUME LinkOK, UNCHANGED acked, toChar[Slot] # <<>>,
         toChar' = [toChar EXCEPT ![Slot] = Tail(@)]
  PROVE  /\ LinkOK' /\ Head(toChar[Slot]) \in SessionPacket
         /\ VouchedIn(acked, Head(toChar[Slot]))
<1> DEFINE q == toChar[Slot]
<1>1. /\ q \in Seq(SessionPacket) /\ q # <<>>
      /\ \A i \in 1..Len(q) : VouchedIn(acked, q[i])
  BY SlotAssumption DEF LinkOK
<1>2. /\ Head(q) = q[1] /\ Len(q) \in Nat /\ Len(q) >= 1 /\ q[1] \in SessionPacket
      /\ Tail(q) \in Seq(SessionPacket) /\ Len(Tail(q)) = Len(q) - 1
      /\ \A i \in 1..Len(Tail(q)) : Tail(q)[i] = q[i + 1]
  BY <1>1
<1>3. \A i \in 1..Len(Tail(q)) : VouchedIn(acked', Tail(q)[i])
  <2> SUFFICES ASSUME NEW i \in 1..Len(Tail(q))
               PROVE  VouchedIn(acked', Tail(q)[i])
    OBVIOUS
  <2>1. i + 1 \in 1..Len(q) /\ Tail(q)[i] = q[i + 1]
    BY <1>2
  <2> QED
    BY <1>1, <2>1
<1>4. /\ toChar'[Slot] = Tail(q)
      /\ \A c \in Servers \ {Slot} : toChar'[c] = toChar[c]
      /\ toChar' \in [Servers -> Seq(SessionPacket)]
  BY <1>2, SlotAssumption DEF LinkOK
<1>5. \A c \in Servers : \A i \in 1..Len(toChar'[c]) : VouchedIn(acked', toChar'[c][i])
  <2> SUFFICES ASSUME NEW c \in Servers
               PROVE  \A i \in 1..Len(toChar'[c]) : VouchedIn(acked', toChar'[c][i])
    OBVIOUS
  <2>1. CASE c = Slot
    BY <1>3, <1>4, <2>1
  <2>2. CASE c # Slot
    BY <1>4, <2>2 DEF LinkOK
  <2> QED
    BY <2>1, <2>2
<1> QED
  BY <1>1, <1>2, <1>4, <1>5 DEF LinkOK

\* Letting a session in with a ticket that was vouched for.
LEMMA AuthOkVouched ==
  ASSUME SessionsVouched, SessOK, NEW fd \in Fds, NEW a \in Accounts,
         NEW s \in Session, s.aid = a, ~s.auth, AuthOk(fd, a, s),
         <<a, s.login_id>> \in acked, UNCHANGED acked
  PROVE  SessionsVouched'
<1>1. \/ sess' = [sess EXCEPT ![fd] = s]
      \/ sess' = [sess EXCEPT ![fd] = [s EXCEPT !.auth = TRUE]]
  BY DEF AuthOk, AuthInGame, AuthTaken, AuthGranted
<1>2. [s EXCEPT !.auth = TRUE].aid = a /\ [s EXCEPT !.auth = TRUE].login_id = s.login_id
  BY DEF Session
<1> QED
  BY <1>1, <1>2 DEF SessOK, SessionsVouched

LEMMA CharReadsOK == SessionInv /\ CharReads => SessionInv'
<1> SUFFICES ASSUME SessionInv, CharReads PROVE SessionInv'
  OBVIOUS
<1> DEFINE p == Head(toChar[Slot])
<1>1. UNCHANGED <<acked, playing>>
  BY DEF CharReads, login_only
<1>2. LinkOK' /\ p \in SessionPacket /\ VouchedIn(acked, p)
  BY <1>1, LinkTail DEF CharReads, SessionInv, VouchInv
<1>3. \/ SendAccounts
      \/ LoginKick(p.aid) /\ p.aid \in Accounts
      \/ /\ p.cmd = "auth_ack" /\ AuthAnswer(p.fd, p.aid, p.login_id, p.ok)
         /\ p.aid \in Accounts /\ p.login_id \in LoginIds /\ p.fd \in Fds
         /\ p.ok \in BOOLEAN
  BY <1>2, SessionPacketFields DEF CharReads
<1> HIDE DEF p
<1>4. LoginStep
  BY <1>3 DEF LoginStep
<1>5. CharInv' /\ QueuesOK'
  BY <1>4, LoginStepOK, LoginStepQueues DEF SessionInv
<1>6. SessionsVouched' /\ TicketsVouched'
  <2>0. SessionsVouched /\ TicketsVouched /\ SessOK
    BY DEF SessionInv, VouchInv, CharInv
  <2>1. CASE SendAccounts
    BY <1>1, <2>0, <2>1 DEF SendAccounts, SessionsVouched, TicketsVouched
  <2>2. CASE LoginKick(p.aid) /\ p.aid \in Accounts
    <3>1. /\ char_auth' = [char_auth EXCEPT ![p.aid] = NoNodeC]
          /\ sess' = sess \/ \E fd \in Fds : sess' = [sess EXCEPT ![fd].eof = TRUE]
      BY <2>2 DEF LoginKick, SetCharOffline, Claims
    <3>2. TicketsVouched'
      BY <1>1, <2>0, <3>1 DEF TicketsVouched, NoNodeC, SessionInv, CharInv
    <3>3. SessionsVouched'
      BY <1>1, <2>0, <3>1 DEF SessionsVouched, SessOK, Session
    <3> QED
      BY <3>2, <3>3
  <2>3. CASE /\ p.cmd = "auth_ack" /\ AuthAnswer(p.fd, p.aid, p.login_id, p.ok)
             /\ p.aid \in Accounts /\ p.login_id \in LoginIds /\ p.fd \in Fds
             /\ p.ok \in BOOLEAN
    <3>1. TicketsVouched'
      BY <1>1, <2>0, <2>3 DEF AuthAnswer, TicketsVouched
    <3>2. CASE p.ok /\ Asked(p.fd, p.aid, p.login_id)
      <4> DEFINE s == sess[p.fd]
      <4>1. s = Claim(p.aid, p.login_id) /\ s \in Session
        BY <2>0, <2>3, <3>2 DEF Asked, SessOK
      <4>2. s.aid = p.aid /\ s.login_id = p.login_id /\ ~s.auth
        <5>1. /\ Claim(p.aid, p.login_id).aid = p.aid
              /\ Claim(p.aid, p.login_id).login_id = p.login_id
              /\ ~Claim(p.aid, p.login_id).auth
          BY DEF Claim
        <5> QED
          BY <4>1, <5>1
      <4>3. <<p.aid, s.login_id>> \in acked
        BY <1>2, <2>3, <3>2, <4>2 DEF VouchedIn
      <4>4. AuthOk(p.fd, p.aid, s)
        BY <2>3, <3>2, <4>2 DEF AuthAnswer
      <4> HIDE DEF s
      <4>5. SessionsVouched'
        BY <1>1, <2>0, <2>3, <4>1, <4>2, <4>3, <4>4, AuthOkVouched
      <4> QED
        BY <3>1, <4>5
    <3>3. CASE ~(p.ok /\ Asked(p.fd, p.aid, p.login_id))
      BY <1>1, <2>0, <2>3, <3>1, <3>3 DEF AuthAnswer, SessionsVouched
    <3> QED
      BY <3>2, <3>3
  <2> QED
    BY <1>3, <2>1, <2>2, <2>3
<1>7. PlayersOK' /\ (acked \subseteq Accounts \X LoginIds)'
  BY <1>1 DEF SessionInv, VouchInv, PlayersOK
<1> QED
  BY <1>2, <1>5, <1>6, <1>7 DEF SessionInv, VouchInv

----------------------------------------------------------------------------
(* What clients, timers, map servers and failures do *)

LEMMA LoginAloneOK == SessionInv /\ LoginAlone => SessionInv'
<1> SUFFICES ASSUME SessionInv, LoginAlone PROVE SessionInv'
  OBVIOUS
<1>1. UNCHANGED <<char_vars, playing>>
  BY DEF LoginAlone
<1>2. CharInv' /\ QueuesOK'
  BY <1>1, CharStepOK DEF SessionInv, QueuesOK, char_vars, record_vars
<1>3. UNCHANGED acked
  BY DEF LoginAlone, Login, StillOnline, MacInUse, Accepted, WaitingDisconnect,
         OnlineDataCleanup, Crash, Down, Restart
<1>4. LinkOK'
  <2>1. CASE UNCHANGED toChar
    BY <1>3, <2>1, LinkSame DEF SessionInv, VouchInv
  <2>2. ASSUME NEW a \in Accounts, StillOnline(a)
        PROVE  LinkOK'
    <3> DEFINE p == [cmd |-> "kick", aid |-> a]
    <3>1. p \in SessionPacket /\ VouchedIn(acked', p)
      BY DEF SessionPacket, VouchedIn
    <3>2. toChar' = SendAll(p)
      BY <2>2 DEF StillOnline
    <3> HIDE DEF p
    <3>3. toChar' = [c \in Servers |-> IF c \in Connected
                                      THEN Append(toChar[c], p) ELSE toChar[c]]
      BY <3>2 DEF SendAll, Connected
    <3>4. Connected \in SUBSET Servers
      BY DEF Connected
    <3> QED
      BY <1>3, <3>1, <3>3, <3>4, LinkAppend DEF SessionInv, VouchInv
  <2> QED
    BY <2>1, <2>2 DEF LoginAlone, Login, MacInUse, Accepted, WaitingDisconnect,
                      OnlineDataCleanup, Crash, Down, Restart
<1>5. VouchInv'
  BY <1>1, <1>3, <1>4, AckedGrows DEF SessionInv, VouchInv, char_vars
<1> QED
  BY <1>2, <1>5 DEF SessionInv

LEMMA LinksOK == SessionInv /\ (LinkUp \/ LinkLost) => SessionInv'
<1> SUFFICES ASSUME SessionInv, LinkUp \/ LinkLost PROVE SessionInv'
  OBVIOUS
<1>1. /\ UNCHANGED <<acked, playing, sess, char_auth>>
      /\ LoginStep \/ UNCHANGED char_vars
  BY DEF LinkUp, LinkLost, CharConnects, CharDisconnects, LoginLinkUp,
         LoginLinkLost, LoginRetryFails, LoginStep, login_vars, char_vars
<1>2. CharInv' /\ QueuesOK'
  BY <1>1, LoginStepOK, LoginStepQueues, CharStepOK
     DEF SessionInv, QueuesOK, char_vars, record_vars
<1>3. LinkOK'
  <2>1. CASE UNCHANGED toChar
    BY <1>1, <2>1, LinkSame DEF SessionInv, VouchInv
  <2>2. CASE CharConnects(Slot)
    <3> DEFINE q == <<[cmd |-> "ready"]>>
    <3>1. [cmd |-> "ready"] \in SessionPacket /\ VouchedIn(acked', [cmd |-> "ready"])
      BY DEF SessionPacket, VouchedIn
    <3>2. /\ q \in Seq(SessionPacket)
          /\ \A i \in 1..Len(q) : VouchedIn(acked', q[i])
      <4>1. q \in Seq(SessionPacket) /\ Len(q) = 1 /\ q[1] = [cmd |-> "ready"]
        BY <3>1
      <4> QED
        BY <3>1, <4>1
    <3>3. toChar' = [toChar EXCEPT ![Slot] = q]
      BY <2>2 DEF CharConnects
    <3> HIDE DEF q
    <3> QED
      BY <1>1, <3>2, <3>3, SlotAssumption DEF SessionInv, VouchInv, LinkOK
  <2> QED
    BY <2>1, <2>2 DEF LinkUp, LinkLost, CharDisconnects, login_vars
<1>4. VouchInv'
  BY <1>1, <1>3, AckedGrows DEF SessionInv, VouchInv
<1> QED
  BY <1>2, <1>4 DEF SessionInv

\* A handler of the char server that leaves the link from the login server alone.
LEMMA CharSideVouched ==
  ASSUME SessionInv, CharInv', QueuesOK', UNCHANGED <<toChar, acked>>,
         SessionsVouched', TicketsVouched', PlayersOK'
  PROVE  SessionInv'
  BY LinkSame DEF SessionInv, VouchInv

LEMMA CharAloneOK == SessionInv /\ CharAlone => SessionInv'
<1> SUFFICES ASSUME SessionInv, CharAlone PROVE SessionInv'
  OBVIOUS
<1>1. UNCHANGED <<toChar, acked, playing>>
  BY DEF CharAlone, login_vars
<1>2. CharInv' /\ QueuesOK'
  <2>1. ClientStep \/ CharTimerStep
    BY DEF CharAlone, ClientStep
  <2> QED
    BY <2>1, ClientStepOK, ClientStepQueues, CharTimerStepOK, CharTimerStepQueues
       DEF SessionInv
<1>3. PlayersOK'
  BY <1>1 DEF SessionInv, VouchInv, PlayersOK
<1>4. SessionsVouched /\ TicketsVouched /\ SessOK
  BY DEF SessionInv, VouchInv, CharInv
<1>5. char_auth \in [Accounts -> CharTicket]
  BY DEF SessionInv, CharInv
<1>6. ASSUME NEW fd \in Fds, NEW a \in Accounts, NEW id \in LoginIds,
             CharConnect(fd, a, id)
      PROVE  SessionsVouched' /\ TicketsVouched'
  <2> DEFINE s == Claim(a, id)
  <2>1. s \in Session /\ s.aid = a /\ s.login_id = id /\ ~s.auth
    BY DEF Claim, Session
  <2>2. CASE ConnectWithTicket(fd, a, id)
    <3>1. /\ AuthOk(fd, a, s) /\ char_auth[a].login_id = id
          /\ char_auth' = [char_auth EXCEPT ![a] = NoNodeC]
      BY <2>2 DEF ConnectWithTicket
    <3>2. <<a, id>> \in acked
      BY <1>4, <3>1, LoginIdsAssumption DEF TicketsVouched
    <3> HIDE DEF s
    <3>3. SessionsVouched'
      BY <1>1, <1>4, <2>1, <3>1, <3>2, AuthOkVouched
    <3>4. TicketsVouched'
      BY <1>1, <1>4, <1>5, <3>1 DEF TicketsVouched, NoNodeC
    <3> QED
      BY <3>3, <3>4
  <2>3. CASE ConnectFromLogin(fd, a, id)
    <3>1. sess' = [sess EXCEPT ![fd] = s] /\ UNCHANGED char_auth
      BY <2>3 DEF ConnectFromLogin
    <3> HIDE DEF s
    <3> QED
      BY <1>1, <1>4, <2>1, <3>1 DEF SessionsVouched, TicketsVouched, SessOK
  <2> QED
    BY <1>6, <2>2, <2>3 DEF CharConnect
<1>7. ASSUME NEW fd \in Fds, NEW ch \in Chars, CharSelect(fd, ch)
      PROVE  SessionsVouched' /\ TicketsVouched'
  <2> DEFINE a == sess[fd].aid
  <2>1. /\ UNCHANGED sess /\ <<a, sess[fd].login_id>> \in acked
        /\ \/ char_auth' = char_auth
           \/ char_auth' = [char_auth EXCEPT ![a] =
                 [login_id |-> sess[fd].login_id, char_id |-> ch]]
    BY <1>4, <1>7 DEF CharSelect, SelectOk, SelectNotLoaded, SelectNoMap, Playable,
                      SessionsVouched
  <2> QED
    BY <1>1, <1>4, <1>5, <2>1 DEF SessionsVouched, TicketsVouched
<1>8. ASSUME NEW fd \in Fds, CloseSession(fd)
      PROVE  SessionsVouched' /\ TicketsVouched'
  <2>1. sess' = [sess EXCEPT ![fd] = Closed] /\ UNCHANGED char_auth
    BY <1>8 DEF CloseSession
  <2> QED
    BY <1>1, <1>4, <2>1 DEF SessionsVouched, TicketsVouched, SessOK, Closed
<1>9. ASSUME CharTimerStep
      PROVE  SessionsVouched' /\ TicketsVouched'
  <2>1. UNCHANGED <<sess, char_auth>>
    BY <1>9 DEF CharTimerStep, CharWaitingDisconnect, CharCleanup
  <2> QED
    BY <1>1, <1>4, <2>1 DEF SessionsVouched, TicketsVouched
<1> QED
  BY <1>1, <1>2, <1>3, <1>6, <1>7, <1>8, <1>9, CharSideVouched DEF CharAlone

LEMMA MapSideOK == SessionInv /\ MapSide => SessionInv'
<1> SUFFICES ASSUME SessionInv, MapSide PROVE SessionInv'
  OBVIOUS
<1>1. UNCHANGED <<toChar, acked>>
  BY DEF MapSide, login_vars
<1>2. /\ SessionsVouched /\ TicketsVouched /\ PlayersOK
      /\ char_auth \in [Accounts -> CharTicket]
      /\ acked \subseteq Accounts \X LoginIds
  BY DEF SessionInv, VouchInv, CharInv
<1>3. ASSUME MapStep PROVE CharInv' /\ QueuesOK'
  BY <1>3, MapStepOK, MapStepQueues DEF SessionInv
<1>4. ASSUME UNCHANGED sess PROVE SessionsVouched'
  BY <1>1, <1>2, <1>4 DEF SessionsVouched
<1>5. ASSUME UNCHANGED playing PROVE PlayersOK'
  BY <1>1, <1>2, <1>5 DEF PlayersOK
<1>6. ASSUME UNCHANGED char_auth PROVE TicketsVouched'
  BY <1>1, <1>2, <1>6 DEF TicketsVouched
<1>7. ASSUME NEW m \in Maps, NEW a \in Accounts, NEW ch \in Chars,
             NEW id \in LoginIds, Enters(m, a, ch, id)
      PROVE  SessionInv'
  <2> DEFINE node == char_auth[a]
             ticket == [login_id |-> id, char_id |-> ch]
  <2>1. /\ MapStep /\ UNCHANGED sess
        /\ char_auth' \in {char_auth, [char_auth EXCEPT ![a] = NoNodeC]}
    BY <1>7 DEF Enters, MapStep, MapAuth, MapAuthOk, MapAuthFailed, MapAuthNotLoaded
  <2>2. TicketsVouched'
    BY <1>1, <1>2, <2>1 DEF TicketsVouched, NoNodeC
  <2>3. \/ node = ticket /\ playing' = [playing EXCEPT ![m][a] = node]
        \/ playing' = playing
    BY <1>7 DEF Enters, MapAuthOk
  <2>4. node = ticket => <<a, node.login_id>> \in acked /\ node.char_id \in Chars
    <3>1. ticket.login_id = id /\ ticket.char_id = ch /\ id # 0
      BY LoginIdsAssumption
    <3> HIDE DEF ticket
    <3> QED
      BY <1>2, <3>1 DEF TicketsVouched
  <2>5. node \in CharTicket /\ NoNodeC \in CharTicket
    BY <1>2 DEF CharTicket, NoNodeC
  <2> HIDE DEF node, ticket
  <2>6. PlayersOK'
    <3>1. CASE node = ticket /\ playing' = [playing EXCEPT ![m][a] = node]
      BY <1>1, <1>2, <2>4, <2>5, <3>1 DEF PlayersOK
    <3>2. CASE playing' = playing
      BY <1>5, <3>2
    <3> QED
      BY <2>3, <3>1, <3>2
  <2> QED
    BY <1>1, <1>3, <1>4, <2>1, <2>2, <2>6, CharSideVouched
<1>8. ASSUME NEW m \in Maps, NEW a \in Accounts, Quits(m, a)
      PROVE  SessionInv'
  <2>1. /\ playing[m][a].char_id \in Chars
        /\ MapFinalSave(m, a, playing[m][a].char_id)
        /\ playing' = [playing EXCEPT ![m][a] = NoNodeC]
    BY <1>2, <1>8 DEF Quits, PlayersOK
  <2>2. MapStep /\ UNCHANGED <<sess, char_auth>>
    BY <2>1 DEF MapStep, MapFinalSave
  <2>3. PlayersOK'
    BY <1>1, <1>2, <2>1 DEF PlayersOK, NoNodeC, CharTicket
  <2> QED
    BY <1>1, <1>3, <1>4, <1>6, <2>2, <2>3, CharSideVouched
<1>9. ASSUME NEW m \in Maps, NEW a \in Accounts, ToCharList(m, a)
      PROVE  SessionInv'
  <2> DEFINE id == playing[m][a].login_id
  <2>1. /\ <<a, id>> \in acked /\ id \in LoginIds /\ MapCharSelect(m, a, id)
        /\ UNCHANGED playing
    BY <1>2, <1>9 DEF ToCharList, PlayersOK
  <2> HIDE DEF id
  <2>2. /\ MapStep /\ UNCHANGED sess
        /\ char_auth' = [char_auth EXCEPT ![a] = [login_id |-> id, char_id |-> 0]]
    BY <2>1 DEF MapStep, MapCharSelect
  <2>3. TicketsVouched'
    BY <1>1, <1>2, <2>1, <2>2 DEF TicketsVouched
  <2> QED
    BY <1>1, <1>3, <1>4, <1>5, <2>1, <2>2, <2>3, CharSideVouched
<1>10. ASSUME NEW m \in Maps, SendsUsers(m)
       PROVE  SessionInv'
  <2> DEFINE who == [a \in Playing(m) |-> playing[m][a].char_id]
  <2>1. /\ Playing(m) \in SUBSET Accounts
        /\ \A a \in Playing(m) : who[a] \in Chars
        /\ MapUsers(m, who) /\ UNCHANGED playing
    BY <1>2, <1>10 DEF SendsUsers, Playing, PlayersOK
  <2>2. who \in [Playing(m) -> Chars]
    BY <2>1
  <2> HIDE DEF who
  <2>3. MapStep
    BY <2>1, <2>2 DEF MapStep
  <2>4. UNCHANGED <<sess, char_auth>>
    BY <2>1 DEF MapUsers
  <2> QED
    BY <1>1, <1>3, <1>4, <1>5, <1>6, <2>1, <2>3, <2>4, CharSideVouched
<1>11. ASSUME NEW m \in Maps, MapConnects(m) \/ MapDisconnects(m), UNCHANGED playing
       PROVE  SessionInv'
  <2>1. MapStep /\ UNCHANGED <<sess, char_auth>>
    BY <1>11 DEF MapStep, MapConnects, MapDisconnects
  <2> QED
    BY <1>1, <1>3, <1>4, <1>5, <1>6, <1>11, <2>1, CharSideVouched
<1> QED
  BY <1>7, <1>8, <1>9, <1>10, <1>11 DEF MapSide

----------------------------------------------------------------------------

LEMMA SessionInitOK == Init => SessionInv
<1> SUFFICES ASSUME Init PROVE SessionInv
  OBVIOUS
<1>1. CharInv /\ QueuesOK
  BY CharInitOK DEF Init, CharInit, QueuesOK
<1>2. LinkOK /\ acked \subseteq Accounts \X LoginIds
  BY DEF Init, LoginInit, LinkOK
<1>3. SessionsVouched /\ TicketsVouched
  BY DEF Init, CharInit, SessionsVouched, TicketsVouched, Closed, NoNodeC
<1>4. PlayersOK
  BY DEF Init, PlayersOK, CharTicket, NoNodeC
<1> QED
  BY <1>1, <1>2, <1>3, <1>4 DEF SessionInv, VouchInv

LEMMA SessionStepOK == SessionInv /\ [Next]_vars => SessionInv'
<1>1. SessionInv /\ UNCHANGED vars => SessionInv'
  <2> SUFFICES ASSUME SessionInv, UNCHANGED vars PROVE SessionInv'
    OBVIOUS
  <2>1. UNCHANGED <<char_vars, toChar, acked, playing>>
    BY DEF vars, login_vars
  <2>2. CharInv' /\ QueuesOK'
    BY <2>1, CharStepOK DEF SessionInv, QueuesOK, char_vars, record_vars
  <2>3. VouchInv'
    BY <2>1, AckedGrows, LinkSame DEF SessionInv, VouchInv, char_vars
  <2> QED
    BY <2>2, <2>3 DEF SessionInv
<1> QED
  BY <1>1, LoginReadsOK, CharReadsOK, LinksOK, LoginAloneOK, CharAloneOK, MapSideOK
     DEF Next

----------------------------------------------------------------------------
(* Whose character it is *)

OwnRecord(a, r) == r.server > AtCharList => r.char_id \in CharsOf[a]
OwnTicket(a, t) == t.char_id \in CharsOf[a] \cup {NoChar, 0}

OwnInv == /\ InGamePlaysOwn
          /\ \A a \in Accounts : OwnTicket(a, char_auth[a])

\* A record that leaves the map server it names is nobody's to worry about.
LEMMA OwnRecords ==
  ASSUME NEW a \in Accounts, NEW r \in OnlineRecord, OwnRecord(a, r)
  PROVE  /\ OwnRecord(a, Nobody) /\ OwnRecord(a, AtList(r))
         /\ \A ch : OwnRecord(a, Left(r, ch))
         /\ \A m : OwnRecord(a, LostFrom(m, r))
         /\ \A fd \in {NoFd} \cup Fds : OwnRecord(a, AtList([r EXCEPT !.fd = fd]))
         /\ \A fd : OwnRecord(a, [r EXCEPT !.fd = fd])
         /\ \A t : OwnRecord(a, [r EXCEPT !.waiting = t])
         /\ \A ch : OwnRecord(a, On(r, Elsewhere, ch))
         /\ \A ch : OwnRecord(a, Left(On(r, Elsewhere, ch), ch))
         /\ \A m : \A ch \in CharsOf[a] : OwnRecord(a, On(r, m, ch))
<1> USE CharCodes DEF OwnRecord, OnlineRecord
<1>1. OwnRecord(a, Nobody) /\ OwnRecord(a, AtList(r))
  BY DEF Nobody, AtList
<1>2. \A ch : OwnRecord(a, Left(r, ch))
  BY <1>1 DEF Left
<1>3. \A m : OwnRecord(a, LostFrom(m, r))
  BY DEF LostFrom
<1>4. /\ \A fd \in {NoFd} \cup Fds : OwnRecord(a, AtList([r EXCEPT !.fd = fd]))
      /\ \A fd : OwnRecord(a, [r EXCEPT !.fd = fd])
      /\ \A t : OwnRecord(a, [r EXCEPT !.waiting = t])
  BY DEF AtList
<1>5. \A ch : OwnRecord(a, On(r, Elsewhere, ch))
  BY DEF On
<1>6. \A ch : OwnRecord(a, Left(On(r, Elsewhere, ch), ch))
  BY <1>5 DEF Left, On, AtList
<1>7. \A m : \A ch \in CharsOf[a] : OwnRecord(a, On(r, m, ch))
  BY DEF On
<1> QED
  BY <1>1, <1>2, <1>3, <1>4, <1>5, <1>6, <1>7

\* One record changes and stays sound, or all do; players and tickets do not change.
LEMMA OwnKept ==
  ASSUME OwnInv, UNCHANGED <<playing, char_auth>>,
         \A a \in Accounts : OwnRecord(a, char_online'[a])
  PROVE  OwnInv'
  BY DEF OwnInv, InGamePlaysOwn, InGame, OwnRecord

LEMMA OwnNow ==
  ASSUME OwnInv, SessionInv, NEW a \in Accounts
  PROVE  /\ char_online[a] \in OnlineRecord /\ OwnRecord(a, char_online[a])
         /\ Ensured(a) \in OnlineRecord /\ OwnRecord(a, Ensured(a))
<1>1. char_online[a] \in OnlineRecord /\ OwnRecord(a, char_online[a])
  BY DEF OwnInv, InGamePlaysOwn, InGame, OwnRecord, SessionInv, CharInv, RecordsOK
<1>2. Ensured(a) \in OnlineRecord
  BY EnsuredLemma DEF SessionInv, CharInv, RecordOK
<1>3. OwnRecord(a, [Nobody EXCEPT !.server = AtCharList])
  BY CharCodes DEF OwnRecord, Nobody
<1> QED
  BY <1>1, <1>2, <1>3 DEF Ensured

LEMMA OwnOne ==
  ASSUME OwnInv, SessionInv, NEW a \in Accounts, NEW r, OwnRecord(a, r),
         char_online' = [char_online EXCEPT ![a] = r]
  PROVE  \A b \in Accounts : OwnRecord(b, char_online'[b])
  BY OwnNow DEF SessionInv, CharInv, RecordsOK

LEMMA OwnWaiting ==
  ASSUME OwnInv, SessionInv, NEW a \in Accounts, StartWaiting(a)
  PROVE  \A b \in Accounts : OwnRecord(b, char_online'[b])
<1>1. CASE UNCHANGED char_online
  BY <1>1, OwnNow
<1>2. CASE \E t \in CharTids : char_online' = [char_online EXCEPT ![a].waiting = t]
  <2>1. PICK t \in CharTids : char_online' = [char_online EXCEPT ![a].waiting = t]
    BY <1>2
  <2> DEFINE r == [char_online[a] EXCEPT !.waiting = t]
  <2>2. OwnRecord(a, r)
    BY OwnNow, OwnRecords
  <2>3. char_online' = [char_online EXCEPT ![a] = r]
    BY <2>1 DEF SessionInv, CharInv, RecordsOK
  <2> HIDE DEF r
  <2> QED
    BY <2>2, <2>3, OwnOne
<1> QED
  BY <1>1, <1>2 DEF StartWaiting

LEMMA OwnAuthOk ==
  ASSUME OwnInv, SessionInv, NEW fd \in Fds, NEW a \in Accounts, NEW s, AuthOk(fd, a, s)
  PROVE  \A b \in Accounts : OwnRecord(b, char_online'[b])
<1>1. CASE AuthInGame(fd, a, s)
  BY <1>1, OwnWaiting DEF AuthInGame
<1>2. CASE AuthTaken(fd, a, s)
  BY <1>2, OwnNow DEF AuthTaken
<1>3. CASE AuthGranted(fd, a, s)
  <2> DEFINE r == AtList(IF Present(a) THEN [char_online[a] EXCEPT !.fd = fd]
                                       ELSE Ensured(a))
  <2>1. OwnRecord(a, r)
    BY OwnNow, OwnRecords
  <2>2. char_online' = [char_online EXCEPT ![a] = r]
    BY <1>3 DEF AuthGranted, SetCharSelect
  <2> HIDE DEF r
  <2> QED
    BY <2>1, <2>2, OwnOne
<1> QED
  BY <1>1, <1>2, <1>3 DEF AuthOk

LEMMA OwnOffline ==
  ASSUME OwnInv, SessionInv, NEW a \in Accounts, NEW ch, SetCharOffline(a, ch)
  PROVE  \A b \in Accounts : OwnRecord(b, char_online'[b])
  BY OwnNow, OwnRecords, OwnOne DEF SetCharOffline

LEMMA OwnClients ==
  ASSUME OwnInv, SessionInv, CharAlone
  PROVE  OwnInv'
<1>0. UNCHANGED playing /\ char_auth \in [Accounts -> CharTicket]
  BY DEF CharAlone, SessionInv, CharInv
<1>1. ASSUME NEW fd \in Fds, NEW a \in Accounts, NEW id \in LoginIds, CharConnect(fd, a, id)
      PROVE  OwnInv'
  <2>1. \A b \in Accounts : OwnRecord(b, char_online'[b])
    BY <1>1, OwnAuthOk, OwnNow DEF CharConnect, ConnectWithTicket, ConnectFromLogin
  <2>2. \A b \in Accounts : OwnTicket(b, char_auth'[b])
    BY <1>0, <1>1 DEF CharConnect, ConnectWithTicket, ConnectFromLogin, OwnInv, OwnTicket,
                      NoNodeC
  <2> QED
    BY <1>0, <2>1, <2>2 DEF OwnInv, InGamePlaysOwn, InGame, OwnRecord
<1>2. ASSUME NEW fd \in Fds, NEW ch \in Chars, CharSelect(fd, ch)
      PROVE  OwnInv'
  <2> DEFINE a == sess[fd].aid
  <2>1. a \in Accounts /\ ch \in CharsOf[a]
    BY <1>2 DEF CharSelect, SelectOk, SelectNotLoaded, SelectNoMap, Playable,
                SessionInv, CharInv, SessOK
  <2>2. \E r : /\ OwnRecord(a, r)
               /\ char_online' = [char_online EXCEPT ![a] = r]
    <3>1. \/ char_online' = [char_online EXCEPT ![a] = On(Ensured(a), Elsewhere, ch)]
          \/ char_online' = [char_online EXCEPT ![a] = Left(On(Ensured(a), Elsewhere, ch), ch)]
      BY <1>2 DEF CharSelect, SelectOk, SelectNotLoaded, SelectNoMap, SetCharOnline
    <3> HIDE DEF a
    <3> QED
      BY <2>1, <3>1, OwnNow, OwnRecords
  <2>3. \A b \in Accounts : OwnRecord(b, char_online'[b])
    <3> HIDE DEF a
    <3> QED
      BY <2>1, <2>2, OwnOne
  <2>4. \A b \in Accounts : OwnTicket(b, char_auth'[b])
    BY <1>0, <1>2, <2>1 DEF CharSelect, SelectOk, SelectNotLoaded, SelectNoMap, OwnInv,
                            OwnTicket
  <2> QED
    BY <1>0, <2>3, <2>4 DEF OwnInv, InGamePlaysOwn, InGame, OwnRecord
<1>3. ASSUME NEW fd \in Fds, CloseSession(fd)
      PROVE  OwnInv'
  <2> DEFINE a == sess[fd].aid
             o == IF char_online[a].fd = fd
                  THEN [char_online[a] EXCEPT !.fd = NoFd] ELSE char_online[a]
  <2>1. UNCHANGED <<playing, char_auth>>
    BY <1>0, <1>3 DEF CloseSession
  <2>2. CASE UNCHANGED char_online
    BY <2>1, <2>2, OwnKept, OwnNow
  <2>3. CASE sess[fd].auth
    <3>1. a \in Accounts
      BY <2>3 DEF SessionInv, CharInv, SessOK
    <3>2. o \in OnlineRecord /\ OwnRecord(a, o)
      BY <3>1, OwnNow, OwnRecords DEF OnlineRecord
    <3>3. \/ char_online' = [char_online EXCEPT ![a] = o]
          \/ char_online' = [char_online EXCEPT ![a] = Left(o, NoChar)]
      BY <1>3, <2>3 DEF CloseSession
    <3> HIDE DEF a, o
    <3> QED
      BY <2>1, <3>1, <3>2, <3>3, OwnKept, OwnOne, OwnRecords
  <2> QED
    BY <1>3, <2>2, <2>3 DEF CloseSession
<1>4. ASSUME CharTimerStep
      PROVE  OwnInv'
  <2>1. UNCHANGED <<playing, char_auth>>
    BY <1>0, <1>4 DEF CharTimerStep, CharWaitingDisconnect, CharCleanup
  <2>2. CASE \E t \in CharTids : CharWaitingDisconnect(t)
    <3>1. PICK t \in CharTids : CharWaitingDisconnect(t)
      BY <2>2
    <3>2. char_timers[t] \in Accounts
      BY <3>1 DEF CharWaitingDisconnect, SessionInv, CharInv
    <3> QED
      BY <2>1, <3>1, <3>2, OwnOffline, OwnNow, OwnKept DEF CharWaitingDisconnect
  <2>3. CASE CharCleanup
    <3>1. \A a \in Accounts : char_online'[a] \in {Nobody, char_online[a]}
      BY <2>3 DEF CharCleanup
    <3> QED
      BY <2>1, <3>1, OwnNow, OwnRecords, OwnKept
  <2> QED
    BY <1>4, <2>2, <2>3 DEF CharTimerStep
<1> QED
  BY <1>1, <1>2, <1>3, <1>4 DEF CharAlone

\* The login server names accounts, never characters.
LEMMA OwnLogin ==
  ASSUME OwnInv, SessionInv, LoginReads \/ CharReads \/ LinkUp \/ LinkLost \/ LoginAlone
  PROVE  OwnInv'
<1>1. UNCHANGED playing
  BY DEF LoginReads, CharReads, LinkUp, LinkLost, LoginAlone
<1>2. CASE UNCHANGED <<char_online, char_auth>>
  BY <1>1, <1>2, OwnKept, OwnNow
<1>3. CASE CharReads
  <2> DEFINE p == Head(toChar[Slot])
  <2>1. /\ toChar[Slot] \in Seq(SessionPacket) /\ toChar[Slot] # <<>>
        /\ \/ p.cmd = "ready" /\ SendAccounts
           \/ p.cmd = "kick" /\ LoginKick(p.aid)
           \/ p.cmd = "auth_ack" /\ AuthAnswer(p.fd, p.aid, p.login_id, p.ok)
    BY <1>3, SlotAssumption DEF CharReads, SessionInv, VouchInv, LinkOK
  <2>2. p \in SessionPacket
    BY <2>1
  <2> HIDE DEF p
  <2>3. CASE SendAccounts
    BY <1>2, <2>3 DEF SendAccounts
  <2>4. CASE p.cmd = "kick" /\ LoginKick(p.aid)
    <3>1. p.aid \in Accounts
      BY <2>2, <2>4 DEF SessionPacket
    <3>2. char_auth' = [char_auth EXCEPT ![p.aid] = NoNodeC]
      BY <2>4 DEF LoginKick
    <3>3. \A b \in Accounts : OwnRecord(b, char_online'[b])
      BY <2>4, <3>1, OwnNow, OwnWaiting, OwnOffline DEF LoginKick
    <3>4. \A b \in Accounts : OwnTicket(b, char_auth'[b])
      BY <3>2 DEF OwnInv, OwnTicket, NoNodeC, SessionInv, CharInv
    <3> QED
      BY <1>1, <3>3, <3>4 DEF OwnInv, InGamePlaysOwn, InGame, OwnRecord
  <2>5. CASE p.cmd = "auth_ack" /\ AuthAnswer(p.fd, p.aid, p.login_id, p.ok)
    <3>1. char_auth' = char_auth
      BY <2>5 DEF AuthAnswer
    <3>2. CASE UNCHANGED char_online
      BY <1>2, <3>1, <3>2
    <3>3. CASE /\ Asked(p.fd, p.aid, p.login_id)
               /\ AuthOk(p.fd, sess[p.fd].aid, sess[p.fd])
      <4> DEFINE a == sess[p.fd].aid
      <4>1. p.fd \in Fds /\ p.aid \in Accounts
        BY <2>2, <2>5, <3>3 DEF Asked, SessionPacket
      <4>2. a \in Accounts
        BY <3>3, <4>1 DEF Asked, Claim
      <4>3. \A b \in Accounts : OwnRecord(b, char_online'[b])
        <5>1. AuthOk(p.fd, a, sess[p.fd])
          BY <3>3
        <5> HIDE DEF a
        <5> QED
          BY <4>1, <4>2, <5>1, OwnAuthOk
      <4> QED
        BY <1>1, <3>1, <4>3, OwnKept
    <3> QED
      BY <2>5, <3>2, <3>3 DEF AuthAnswer
  <2> QED
    BY <2>1, <2>3, <2>4, <2>5
<1> QED
  BY <1>2, <1>3 DEF LoginReads, LinkUp, LinkLost, LoginAlone, char_only, char_vars,
                    LoginLinkUp, LoginLinkLost, LoginRetryFails

\* Map servers repeat the character they let in, and the ticket says which.
LEMMA OwnMaps ==
  ASSUME OwnInv, SessionInv, MapSide
  PROVE  OwnInv'
<1>1. ASSUME NEW m \in Maps, NEW a \in Accounts, NEW ch \in Chars, NEW id \in LoginIds,
             Enters(m, a, ch, id)
      PROVE  OwnInv'
  <2>1. CASE /\ MapAuthOk(m, a, ch, id)
             /\ playing' = [playing EXCEPT ![m][a] = [login_id |-> id, char_id |-> ch]]
    <3>1. ch \in CharsOf[a]
      <4>1. char_auth[a].char_id = ch
        <5>1. char_auth[a] = [login_id |-> id, char_id |-> ch]
          BY <2>1 DEF MapAuthOk
        <5>2. [login_id |-> id, char_id |-> ch].char_id = ch
          OBVIOUS
        <5> QED
          BY <5>1, <5>2
      <4>2. ch # NoChar /\ ch # 0
        <5>1. PICK b \in Accounts : ch \in CharsOf[b]
          BY DEF Chars
        <5> QED
          BY <5>1, CharsOfAssumption DEF NoChar
      <4> QED
        BY <4>1, <4>2 DEF OwnInv, OwnTicket
    <3>2. char_online' = [char_online EXCEPT ![a] = On(Ensured(a), m, ch)]
      BY <2>1 DEF MapAuthOk, SetCharOnline
    <3>3. OwnRecord(a, On(Ensured(a), m, ch))
      BY <3>1, OwnNow, OwnRecords
    <3>4. \A b \in Accounts : OwnRecord(b, char_online'[b])
      BY <3>2, <3>3, OwnOne
    <3>5. \A b \in Accounts : OwnTicket(b, char_auth'[b])
      <4>1. /\ char_auth' = [char_auth EXCEPT ![a] = NoNodeC]
            /\ char_auth \in [Accounts -> CharTicket]
        BY <2>1 DEF MapAuthOk, SessionInv, CharInv
      <4>2. \A b \in Accounts : char_auth'[b] \in {NoNodeC, char_auth[b]}
        BY <4>1
      <4>3. NoNodeC.char_id = NoChar
        BY DEF NoNodeC
      <4> QED
        BY <4>2, <4>3 DEF OwnInv, OwnTicket
    <3>6. playing' = [playing EXCEPT ![m][a] = [login_id |-> id, char_id |-> ch]]
      BY <2>1
    <3>7. \A n \in Maps, b \in Accounts :
            playing'[n][b] # NoNodeC => playing'[n][b].char_id \in CharsOf[b]
      BY <3>1, <3>6 DEF OwnInv, InGamePlaysOwn, SessionInv, VouchInv, PlayersOK
    <3> QED
      BY <3>4, <3>5, <3>7 DEF OwnInv, InGamePlaysOwn, InGame, OwnRecord
  <2>2. CASE UNCHANGED <<playing, char_auth, char_online>>
    BY <2>2, OwnKept, OwnNow
  <2> QED
    BY <1>1, <2>1, <2>2 DEF Enters, MapAuthFailed, MapAuthNotLoaded
<1>2. ASSUME NEW m \in Maps, NEW a \in Accounts, Quits(m, a)
      PROVE  OwnInv'
  <2>1. /\ SetCharOffline(a, playing[m][a].char_id) /\ UNCHANGED char_auth
        /\ playing' = [playing EXCEPT ![m][a] = NoNodeC]
    BY <1>2 DEF Quits, MapFinalSave
  <2>2. \A b \in Accounts : OwnRecord(b, char_online'[b])
    BY <2>1, OwnOffline
  <2>3. \A n \in Maps, b \in Accounts : playing'[n][b] \in {NoNodeC, playing[n][b]}
    BY <2>1 DEF SessionInv, VouchInv, PlayersOK
  <2> QED
    BY <2>1, <2>2, <2>3 DEF OwnInv, InGamePlaysOwn, InGame, OwnRecord
<1>3. ASSUME NEW m \in Maps, NEW a \in Accounts, ToCharList(m, a)
      PROVE  OwnInv'
  <2>1. /\ char_online' = [char_online EXCEPT ![a] = AtList(Ensured(a))]
        /\ char_auth' = [char_auth EXCEPT ![a] = [login_id |-> playing[m][a].login_id,
                                                  char_id |-> 0]]
        /\ UNCHANGED playing
    BY <1>3 DEF ToCharList, MapCharSelect, SetCharSelect
  <2>2. \A b \in Accounts : OwnRecord(b, char_online'[b])
    BY <2>1, OwnNow, OwnRecords, OwnOne
  <2>3. \A b \in Accounts : OwnTicket(b, char_auth'[b])
    BY <2>1 DEF OwnInv, OwnTicket, SessionInv, CharInv
  <2> QED
    BY <2>1, <2>2, <2>3 DEF OwnInv, InGamePlaysOwn, InGame, OwnRecord
<1>4. ASSUME NEW m \in Maps, SendsUsers(m)
      PROVE  OwnInv'
  <2>1. /\ UNCHANGED <<playing, char_auth>>
        /\ MapUsers(m, [a \in Playing(m) |-> playing[m][a].char_id])
    BY <1>4 DEF SendsUsers, MapUsers
  <2>2. ASSUME NEW a \in Accounts PROVE OwnRecord(a, char_online'[a])
    <3>1. CASE a \in Playing(m)
      <4> DEFINE k == playing[m][a].char_id
                 e == Ensured(a)
      <4>1. k \in CharsOf[a]
        BY <3>1 DEF Playing, OwnInv, InGamePlaysOwn
      <4>2. char_online'[a] = [e EXCEPT !.server = m, !.char_id = k]
        BY <2>1, <3>1 DEF MapUsers
      <4>3. e \in OnlineRecord
        BY OwnNow
      <4> HIDE DEF k, e
      <4> QED
        BY <4>1, <4>2, <4>3 DEF OwnRecord, OnlineRecord
    <3>2. CASE a \notin Playing(m)
      <4>1. char_online'[a] = LostFrom(m, char_online[a])
        BY <2>1, <3>2 DEF MapUsers
      <4> QED
        BY <4>1, OwnNow, OwnRecords
    <3> QED
      BY <3>1, <3>2
  <2> QED
    BY <2>1, <2>2, OwnKept
<1>5. ASSUME NEW m \in Maps, MapConnects(m) \/ MapDisconnects(m), UNCHANGED playing
      PROVE  OwnInv'
  <2>1. UNCHANGED <<playing, char_auth>>
    BY <1>5 DEF MapConnects, MapDisconnects
  <2>2. \A a \in Accounts : char_online'[a] \in {char_online[a], LostFrom(m, char_online[a])}
    BY <1>5 DEF MapConnects, MapDisconnects
  <2> QED
    BY <2>1, <2>2, OwnKept, OwnNow, OwnRecords
<1> QED
  BY <1>1, <1>2, <1>3, <1>4, <1>5 DEF MapSide

LEMMA OwnStep == OwnInv /\ SessionInv /\ [Next]_vars => OwnInv'
<1>1. OwnInv /\ SessionInv /\ UNCHANGED vars => OwnInv'
  BY OwnKept, OwnNow DEF vars, char_vars
<1> QED
  BY <1>1, OwnLogin, OwnClients, OwnMaps DEF Next

----------------------------------------------------------------------------
(* The login server, asked by a char server *)

\* A step of the login server's own specification, as seen from its tables.
LEMMA LoginAsBefore ==
  ASSUME LoginInv, [LoginNext]_login_vars
  PROVE  /\ LoginInv'
         /\ Office!OfficeNext \/ UNCHANGED <<Current, last_login, acked>>
  BY LoginInductive, TicketsStep DEF LoginInv

\* A char server asks for a client's ticket: about any number a client may show,
\* for any socket.
LEMMA AuthRequestKeeps ==
  ASSUME LoginInv, NEW c \in Servers, NEW a \in Accounts, NEW id \in LoginIds,
         NEW fd \in Fds, AuthRequest(c, a, id, fd)
  PROVE  /\ LoginInv'
         /\ Office!OfficeNext \/ UNCHANGED <<Current, last_login, acked>>
<1> DEFINE p(ok) == [cmd |-> "auth_ack", aid |-> a, login_id |-> id, fd |-> fd,
                     ok |-> ok]
<1>1. ASSUME NEW ok \in BOOLEAN,
             toChar' = [toChar EXCEPT ![c] = Append(@, p(ok))]
      PROVE  toChar' \in [Servers -> Seq(Packet)]
  <2>1. p(ok) \in Packet
    BY LoginIdsAssumption, FdsAssumption DEF Packet, Ids
  <2> HIDE DEF p
  <2>2. toChar \in [Servers -> Seq(Packet)]
    BY DEF LoginInv, LoginTypeOK
  <2>3. Append(toChar[c], p(ok)) \in Seq(Packet)
    BY <2>1, <2>2
  <2> QED
    BY <1>1, <2>2, <2>3
<1>2. ASSUME UNCHANGED <<login_online, login_timers, mac_online>>
      PROVE  TimersMatch' /\ AuthedOnTheClock' /\ MacTable' /\ OfflineNoTimer'
  BY <1>2 DEF LoginInv, TimersMatch, AuthedOnTheClock, MacTable, OfflineNoTimer,
              At, Online
<1>3. CASE AuthAccept(c, a, id, fd)
  <2>1. /\ login_auth[a] # NoNode /\ login_auth[a].login_id = id
        /\ login_auth' = [login_auth EXCEPT ![a] = NoNode]
        /\ acked' = acked \cup {<<a, id>>}
        /\ toChar' = [toChar EXCEPT ![c] = Append(@, p(TRUE))]
        /\ UNCHANGED <<login_up, login_online, login_timers, mac_online, server,
                       last_login>>
    BY <1>3 DEF AuthAccept
  <2> HIDE DEF p
  <2>2. toChar' \in [Servers -> Seq(Packet)]
    BY <1>1, <2>1
  <2>3. id \in 1..last_login /\ <<a, id>> \notin acked
    BY <2>1 DEF LoginInv, TicketsFresh
  <2>4. NoNode \in Ticket
    BY DEF NoNode, Ticket
  <2>5. LoginTypeOK'
    <3>1. acked' \subseteq Accounts \X (1..last_login')
      BY <2>1, <2>3 DEF LoginInv, LoginTypeOK
    <3>2. login_auth' \in [Accounts -> Ticket]
      BY <2>1, <2>4 DEF LoginInv, LoginTypeOK
    <3> QED
      BY <2>1, <2>2, <3>1, <3>2 DEF LoginInv, LoginTypeOK
  <2>6. TicketsFresh'
    BY <2>1 DEF LoginInv, TicketsFresh, LoginTypeOK
  <2>7. Office!Redeem(a)
    BY <2>1, <2>3, LoginIdsAssumption DEF Office!Redeem, LoginInv, LoginTypeOK, NoNode
  <2> QED
    BY <1>2, <2>1, <2>5, <2>6, <2>7 DEF LoginInv, Office!OfficeNext
<1>4. CASE AuthRefuse(c, a, id, fd)
  <2>1. /\ toChar' = [toChar EXCEPT ![c] = Append(@, p(FALSE))]
        /\ UNCHANGED <<login_up, login_online, login_auth, login_timers, mac_online,
                       server, last_login, acked>>
    BY <1>4 DEF AuthRefuse
  <2> HIDE DEF p
  <2>2. toChar' \in [Servers -> Seq(Packet)]
    BY <1>1, <2>1
  <2>3. LoginTypeOK' /\ TicketsFresh'
    BY <2>1, <2>2 DEF LoginInv, LoginTypeOK, TicketsFresh
  <2> QED
    BY <1>2, <2>1, <2>3 DEF LoginInv, Current
<1>5. CASE AuthNullNode(c, a, id, fd)
  <2>1. Crash
    BY <1>5 DEF AuthNullNode, FromChar, Crash
  <2> QED
    BY <2>1, LoginAsBefore DEF LoginNext
<1> QED
  BY <1>3, <1>4, <1>5 DEF AuthRequest

\* What is under way to the char servers is the only table a reader changes.
LEMMA TailKeepsLogin ==
  ASSUME LoginInv, UNCHANGED login_only, NEW c \in Servers,
         toChar[c] # <<>>, toChar' = [toChar EXCEPT ![c] = Tail(@)]
  PROVE  LoginInv' /\ UNCHANGED <<Current, last_login, acked>>
<1>1. toChar \in [Servers -> Seq(Packet)]
  BY DEF LoginInv, LoginTypeOK
<1>2. Tail(toChar[c]) \in Seq(Packet)
  BY <1>1
<1>3. toChar' \in [Servers -> Seq(Packet)]
  BY <1>1, <1>2
<1>4. LoginTypeOK'
  BY <1>3 DEF LoginInv, LoginTypeOK, login_only
<1>5. TimersMatch' /\ AuthedOnTheClock' /\ MacTable' /\ OfflineNoTimer' /\ TicketsFresh'
  BY DEF LoginInv, login_only, TimersMatch, AuthedOnTheClock, MacTable,
         OfflineNoTimer, TicketsFresh, At, Online
<1> QED
  BY <1>4, <1>5 DEF LoginInv, Current, login_only

\* Every step of the two servers together leaves the login server's tables in
\* order, and is a step of the ticket office.
LEMMA LoginInside ==
  ASSUME LoginInv, SessionInv, [Next]_vars
  PROVE  /\ LoginInv'
         /\ Office!OfficeNext \/ UNCHANGED <<Current, last_login, acked>>
<1>1. CASE LoginReads
  <2> DEFINE p == Head(toLogin)
  <2>1. p \in LoginPacket
    BY <1>1 DEF SessionInv, QueuesOK, LoginReads
  <2>2. \/ p.cmd = "auth" /\ AuthRequest(Slot, p.aid, p.login_id, p.fd)
        \/ p.cmd = "online" /\ AccountOnline(Slot, p.aid)
        \/ p.cmd = "offline" /\ AccountOffline(Slot, p.aid)
        \/ p.cmd = "list" /\ OnlineAccounts(Slot, p.accounts)
    BY <1>1 DEF LoginReads
  <2>3. /\ p.cmd = "auth" => /\ p.aid \in Accounts /\ p.login_id \in LoginIds
                             /\ p.fd \in Fds
        /\ p.cmd \in {"online", "offline"} => p.aid \in Accounts
        /\ p.cmd = "list" => p.accounts \in SUBSET Accounts
    BY <2>1 DEF LoginPacket
  <2> HIDE DEF p
  <2>4. CASE p.cmd = "auth" /\ AuthRequest(Slot, p.aid, p.login_id, p.fd)
    BY <2>3, <2>4, AuthRequestKeeps, SlotAssumption
  <2>5. ASSUME \/ p.cmd = "online" /\ AccountOnline(Slot, p.aid)
               \/ p.cmd = "offline" /\ AccountOffline(Slot, p.aid)
               \/ p.cmd = "list" /\ OnlineAccounts(Slot, p.accounts)
        PROVE  LoginNext
    BY <2>3, <2>5, SlotAssumption DEF LoginNext
  <2> QED
    BY <2>2, <2>4, <2>5, LoginAsBefore
<1>2. CASE CharReads
  <2>1. /\ UNCHANGED login_only /\ toChar[Slot] # <<>>
        /\ toChar' = [toChar EXCEPT ![Slot] = Tail(@)]
    BY <1>2 DEF CharReads
  <2> QED
    BY <2>1, TailKeepsLogin, SlotAssumption
<1>3. CASE LinkUp \/ LinkLost \/ LoginAlone
  <2>1. LoginNext \/ UNCHANGED login_vars
    BY <1>3, SlotAssumption DEF LinkUp, LinkLost, LoginAlone, LoginNext
  <2> QED
    BY <2>1, LoginAsBefore
<1>4. CASE CharAlone \/ MapSide \/ UNCHANGED vars
  <2>1. UNCHANGED login_vars
    BY <1>4 DEF CharAlone, MapSide, vars
  <2> QED
    BY <2>1, LoginAsBefore
<1> QED
  BY <1>1, <1>2, <1>3, <1>4 DEF Next

----------------------------------------------------------------------------

LEMMA SessionAlways == Spec => [](SessionInv /\ LoginInv)
<1>1. Init => SessionInv /\ LoginInv
  BY SessionInitOK, LoginInitInv DEF Init
<1>2. SessionInv /\ LoginInv /\ [Next]_vars => (SessionInv /\ LoginInv)'
  BY SessionStepOK, LoginInside
<1> QED
  BY <1>1, <1>2, PTL DEF Spec

\* Nobody sits at a character list, and nobody plays, as an account without a
\* ticket the login server vouched for, whatever links break and whoever dies
\* while answers are under way (char_parse_fromlogin_auth_state,
\* char_parse_char_connect, char_parse_frommap_auth_request).
THEOREM OwnTickets == Spec => []AuthOwnTicket
<1>1. SessionInv => AuthOwnTicket
  BY DEF SessionInv, VouchInv, SessionsVouched, PlayersOK, AuthOwnTicket
<1> QED
  BY <1>1, SessionAlways, PTL

\* An account on a map server plays a character of its own, for any number of map
\* servers and whatever clients show them: the owner is looked up when the character
\* is picked, and the ticket carries it to the map server and no other does
\* (char_parse_char_select, char_parse_frommap_auth_request).
THEOREM SessionPlaysOwn == Spec => []InGamePlaysOwn
<1>1. Init => OwnInv
  <2> SUFFICES ASSUME Init PROVE OwnInv
    OBVIOUS
  <2>1. \A a \in Accounts : ~InGame(a)
    BY CharCodes DEF Init, CharInit, InGame, Nobody
  <2> QED
    BY <2>1 DEF Init, CharInit, OwnInv, InGamePlaysOwn, OwnTicket, NoNodeC
<1>2. SessionInv /\ OwnInv /\ [Next]_vars => OwnInv'
  BY OwnStep
<1>3. OwnInv => InGamePlaysOwn
  BY DEF OwnInv
<1>4. SessionInv /\ LoginInv => SessionInv
  OBVIOUS
<1> QED
  BY <1>1, <1>2, <1>3, SessionAlways, PTL DEF Spec

\* With both servers, the clients and the map servers together, every table and
\* every packet under way keeps its type: what one server writes the other reads.
THEOREM SessionTypes == Spec => []SessionTypeOK
<1>1. SessionInv /\ LoginInv => SessionTypeOK
  <2>1. CharInv /\ QueuesOK => CharTypeOK
    BY DEF CharInv, RecordsOK, SessOK, QueuesOK, CharTypeOK
  <2> QED
    BY <2>1 DEF SessionInv, VouchInv, PlayersOK, LoginInv, SessionTypeOK
<1> QED
  BY <1>1, SessionAlways, PTL

\* The socket a record of the char server holds is a live session of its account,
\* too, when the login server answers late and its link breaks (char_auth_ok,
\* char_parse_fromlogin_auth_state).
THEOREM SessionFds == Spec => []FdIsTheirs
<1>1. SessionInv => FdIsTheirs
  BY DEF SessionInv, CharInv
<1> QED
  BY <1>1, SessionAlways, PTL

\* The login server is a ticket office, too, when a char server asks about any
\* ticket clients show, over a link that breaks (login_fromchar_parse_auth).
THEOREM SessionTicketOffice == Spec => IsTicketOffice
<1>1. Init => Office!OfficeInit
  BY DEF Init, LoginInit, Office!OfficeInit, NoNode
<1>2. SessionInv /\ LoginInv /\ [Next]_vars
        => [Office!OfficeNext]_<<[a \in Accounts |-> login_auth[a].login_id],
                                 last_login, acked>>
  BY LoginInside DEF Current
<1> QED
  BY <1>1, <1>2, SessionAlways, PTL DEF Spec, IsTicketOffice, Office!OfficeSpec

=============================================================================
