------------------------------ MODULE CharMap ------------------------------
(***************************************************************************)
(* The char server and the map servers connected to it: how the data of a  *)
(* character travels to the map server he plays on and comes back, over    *)
(* links that break (src/map/chrif.c, with the parts of clif.c, map.c and  *)
(* pc.c that let a player in and out).                                     *)
(*                                                                         *)
(* The data of a character is the set of the edits made to it: a save that *)
(* drops an edit the char server already had is a set that shrinks.  A map *)
(* server keeps one session per account: "login" and "loaded" are a node   *)
(* of auth_db at ST_LOGIN before and after auth_ok, "world" is an entry of *)
(* id_db, "logout" a node at ST_LOGOUT that waits for its save_ack.        *)
(*                                                                         *)
(* Clients are honest: they go where the char server sends them.  The      *)
(* login server lets them in.  Left out: what of a player is not in the    *)
(* 0x2b01 packet, ST_MAPCHANGE (pc_setpos returns before it would hand a   *)
(* player to another map server), shops restored at startup, shutdown.     *)
(***************************************************************************)
EXTENDS CharServer

CONSTANTS Fragile,  \* map servers whose link may break
          MaxBreaks, MaxEdits, MaxLogins, MaxPackets,  \* bounds
          Deeds,     \* which of "shop", "restart", "kick" happen
          MaxTries,  \* connections a client makes on one ticket
          Patient   \* no client connects while registries for it are under way

ASSUME PatientAssumption == Patient \in BOOLEAN
ASSUME BoundAssumption == {MaxBreaks, MaxEdits, MaxLogins, MaxPackets, MaxTries}
                            \subseteq Nat
ASSUME LoginsAssumption == 1..MaxLogins \subseteq LoginIds

VARIABLES
  fromMap,  \* packets each map server wrote to the char server
  cargo,    \* the data in the auth_ok packets under way to each map server
  pl,       \* map server -> account -> session
  dup,      \* map server -> account -> char of a second socket put to eof
  told,     \* account -> where the char server last sent its client
  db,       \* character -> the edits the char server has
  written,  \* character -> every edit the char server ever had
  split,    \* characters that were let in on one map server while another had them
  logins, breaks, edits  \* counted for the bounds

map_vars == <<fromMap, cargo, pl, dup, told, db, written, logins,
              breaks, edits, split>>
cm_vars  == <<char_vars, map_vars>>

Stages  == {"none", "login", "loaded", "world", "logout"}
Gone    == [st |-> "none", ch |-> NoChar, id |-> 0, client |-> "gone",
            auto |-> FALSE, data |-> {}]
Nowhere == [m |-> -1, ch |-> NoChar, id |-> 0, tries |-> 0]

CharMapTypeOK ==
  /\ CharTypeOK
  /\ pl \in [Maps -> [Accounts ->
       [st : Stages, ch : {NoChar} \cup Chars, id : {0} \cup LoginIds,
        client : {"on", "eof", "gone"}, auto : BOOLEAN,
        data : SUBSET (1..MaxEdits)]]]
  /\ dup \in [Maps -> [Accounts -> {NoChar} \cup Chars]]
  /\ db \in [Chars -> SUBSET (1..MaxEdits)]
  /\ \A m \in Maps, a \in Accounts :
       /\ pl[m][a].st = "none" => pl[m][a] = Gone
       /\ pl[m][a].st = "logout" => pl[m][a].client = "gone"
       /\ pl[m][a].st \in {"login", "loaded"} => pl[m][a].client # "gone"

----------------------------------------------------------------------------
(* What a map server sends *)

Linked(m) == map_fd[m]   \* chrif->isconnected()
Sends(m, p) == fromMap' = IF Linked(m) THEN [fromMap EXCEPT ![m] = Append(@, p)]
                                           ELSE fromMap
OfflineOf(m, a) == [cmd |-> "offline", aid |-> a, char_id |-> pl[m][a].ch]
SaveOf(m, a, final) ==
  [cmd |-> "save", aid |-> a, char_id |-> pl[m][a].ch, final |-> final,
   data |-> pl[m][a].data]

\* Nothing new is started while this much is under way.
Room(m)  == Len(fromMap[m]) + Len(toMap[m]) < MaxPackets
CharRoom == \A m \in Maps : Room(m)

LoggingIn(m, a)    == pl[m][a].st \in {"login", "loaded"}
Becomes(m, a, r)   == pl' = [pl EXCEPT ![m][a] = r]
AuthDelete(m, a)   == Becomes(m, a, Gone)

\* Faulty: the socket goes on as his.
QuitKeepsClient(m, a) ==
  /\ Becomes(m, a, [pl[m][a] EXCEPT !.st = "logout", !.auto = FALSE])
  /\ Sends(m, SaveOf(m, a, TRUE))

\* map_quit of an active player: chrif_save keeps him at ST_LOGOUT.
Quit(m, a) ==
  /\ Becomes(m, a, [pl[m][a] EXCEPT !.st = "logout", !.client = "gone",
                                    !.auto = FALSE])
  /\ Sends(m, SaveOf(m, a, TRUE))

----------------------------------------------------------------------------
(* Clients of a map server *)

MapSideOnly  == UNCHANGED <<char_vars, cargo, db, written, logins,
                            breaks>>
PlayerAlone  == MapSideOnly /\ UNCHANGED <<dup, told, edits, split>>

Registries(m, a) ==
  \E q \in {fromMap[m], toMap[m]} : \E i \in DOMAIN q :
    q[i].cmd = "registry" /\ q[i].aid = a
MayConnect(m, a) == /\ Room(m) /\ told[a].m = m /\ told[a].tries > 0
                    /\ Patient => ~Registries(m, a)

\* clif_parse_WantToConnection: refused while the last connection is recognized;
\* a second one for the same character is put to eof, without a link any is.
WantToConnection(m, a) ==
  /\ MayConnect(m, a)
  /\ told' = [told EXCEPT ![a].tries = @ - 1]
  /\ LET ch == told[a].ch  id == told[a].id IN
       \/ /\ \/ pl[m][a].st \in {"world", "logout"}
             \/ LoggingIn(m, a) /\ pl[m][a].ch # ch
          /\ UNCHANGED <<pl, dup, fromMap>>
       \/ /\ LoggingIn(m, a) /\ pl[m][a].ch = ch
          /\ dup' = [dup EXCEPT ![m][a] = ch]
          /\ UNCHANGED <<pl, fromMap>>
       \/ /\ pl[m][a].st = "none"
          /\ IF Linked(m)
             THEN Becomes(m, a, [Gone EXCEPT !.st = "login", !.ch = ch, !.id = id,
                                             !.client = "on"])
             ELSE UNCHANGED pl
          /\ Sends(m, [cmd |-> "auth_req", aid |-> a, char_id |-> ch,
                       login_id |-> id])
          /\ UNCHANGED dup
  /\ MapSideOnly /\ UNCHANGED <<edits, split>>

\* The second socket is closed: map_quit deletes the node it finds.
DupCloses(m, a) ==
  /\ dup[m][a] # NoChar
  /\ dup' = [dup EXCEPT ![m][a] = NoChar]
  /\ IF LoggingIn(m, a) /\ pl[m][a].ch = dup[m][a] THEN AuthDelete(m, a)
                                                   ELSE UNCHANGED pl
  /\ MapSideOnly /\ UNCHANGED <<fromMap, told, edits, split>>

\* The player's doing: something that changes his character, a shop to leave
\* behind (@autotrade), back to the list of characters, away.
Edit(m, a) ==
  /\ pl[m][a].st = "world" /\ edits < MaxEdits
  /\ edits' = edits + 1
  /\ Becomes(m, a, [pl[m][a] EXCEPT !.data = @ \cup {edits + 1}])
  /\ MapSideOnly /\ UNCHANGED <<fromMap, dup, told, split>>
Autotrade(m, a) ==
  /\ "shop" \in Deeds /\ logins < MaxLogins
  /\ pl[m][a].st = "world" /\ pl[m][a].client = "on"
  /\ Becomes(m, a, [pl[m][a] EXCEPT !.auto = TRUE, !.client = "eof"])
  /\ PlayerAlone /\ UNCHANGED fromMap
Restart(m, a) ==
  /\ "restart" \in Deeds
  /\ logins < MaxLogins
  /\ Room(m) /\ pl[m][a].st = "world" /\ pl[m][a].client = "on"
  /\ Linked(m)
  /\ Sends(m, [cmd |-> "select", aid |-> a, login_id |-> pl[m][a].id])
  /\ PlayerAlone /\ UNCHANGED pl

\* clif_parse on a socket at eof, put there by the server or left by the client:
\* not in the world yet, the node goes; a shop stays, a player quits, or stays 10
\* seconds when he fought.
ParseEof(m, a) ==
  /\ pl[m][a].client # "gone"
  /\ \/ LoggingIn(m, a) /\ AuthDelete(m, a) /\ UNCHANGED fromMap
     \/ pl[m][a].st = "world" /\ ~pl[m][a].auto /\ Quit(m, a)
     \/ /\ pl[m][a].st = "world"
        /\ Becomes(m, a, [pl[m][a] EXCEPT !.client = "gone"])
        /\ UNCHANGED fromMap
  /\ PlayerAlone

\* clif_delayquit, and the end of a shop that sold everything.
DelayQuit(m, a) ==
  /\ pl[m][a].st = "world" /\ pl[m][a].client = "gone"
  /\ Quit(m, a)
  /\ PlayerAlone

\* pc_autosave, chrif_save.  With prevent_save_settings a siege puts it off: it need
\* not happen, but for the fairness, which takes the setting to be 0 as it comes.
AutoSave(m, a) ==
  /\ Room(m) /\ pl[m][a].st = "world"
  /\ Linked(m)
  /\ Sends(m, SaveOf(m, a, FALSE))
  /\ PlayerAlone /\ UNCHANGED pl

\* auth_db_cleanup: a node that is 60 seconds old.
AuthDbCleanup(m, a) ==
  /\ Len(fromMap[m]) + Len(toMap[m]) <= MaxPackets /\ Linked(m)
  /\ \/ /\ pl[m][a].st = "logout"
        /\ Sends(m, SaveOf(m, a, TRUE))
        /\ UNCHANGED pl
     \/ /\ LoggingIn(m, a)
        /\ Sends(m, OfflineOf(m, a))
        /\ AuthDelete(m, a)
  /\ PlayerAlone

----------------------------------------------------------------------------
(* Packets of the char server *)

\* chrif_disconnectplayer: a detached player is left to his timer.
ReadKick(m, a) ==
  \/ LoggingIn(m, a) /\ AuthDelete(m, a) /\ UNCHANGED fromMap
  \/ pl[m][a].st = "world" /\ pl[m][a].client = "gone" /\ pl[m][a].auto /\ Quit(m, a)
  \/ /\ pl[m][a].st = "world" /\ pl[m][a].client # "gone"
     /\ Becomes(m, a, [pl[m][a] EXCEPT !.client = "eof"])
     /\ UNCHANGED fromMap
  \/ /\ \/ pl[m][a].st \in {"none", "logout"}
        \/ pl[m][a].st = "world" /\ pl[m][a].client = "gone" /\ ~pl[m][a].auto
     /\ UNCHANGED <<pl, fromMap>>

\* Faulty: the registry is asked for by who was never loaded.
ReadAuthOkBare(m, a, p, data) ==
  \/ ~LoggingIn(m, a) /\ UNCHANGED <<pl, fromMap>>
  \/ /\ LoggingIn(m, a)
     /\ UNCHANGED pl
     /\ Sends(m, [cmd |-> "registry", aid |-> a, char_id |-> pl[m][a].ch])

\* chrif_authok: what comes for nobody is dropped; pc_authok may refuse.
ReadAuthOk(m, a, p, data) ==
  \/ ~LoggingIn(m, a) /\ UNCHANGED <<pl, fromMap>>
  \/ /\ LoggingIn(m, a)
     /\ p.char_id = pl[m][a].ch /\ p.login_id = pl[m][a].id
     /\ Becomes(m, a, [pl[m][a] EXCEPT !.st = "loaded", !.data = data])
     /\ Sends(m, [cmd |-> "registry", aid |-> a, char_id |-> pl[m][a].ch])
  \/ /\ LoggingIn(m, a)
     /\ IF p.char_id = pl[m][a].ch THEN AuthDelete(m, a)
        ELSE Becomes(m, a, [pl[m][a] EXCEPT !.client = "eof"])
     /\ Sends(m, OfflineOf(m, a))

\* chrif_authfail
ReadAuthFail(m, a, p) ==
  /\ IF LoggingIn(m, a) /\ p.char_id = pl[m][a].ch /\ p.login_id = pl[m][a].id
     THEN AuthDelete(m, a) ELSE UNCHANGED pl
  /\ UNCHANGED fromMap

\* Faulty: the acknowledged player is looked for in the world.
SaveAckInWorld(m, a, p) ==
  /\ IF pl[m][a].st = "world" /\ p.char_id = pl[m][a].ch
     THEN AuthDelete(m, a) ELSE UNCHANGED pl
  /\ UNCHANGED fromMap

\* chrif_save_ack
ReadSaveAck(m, a, p) ==
  /\ IF pl[m][a].st = "logout" /\ p.char_id = pl[m][a].ch
     THEN AuthDelete(m, a) ELSE UNCHANGED pl
  /\ UNCHANGED fromMap

\* intif_parse_Registers, pc_reg_received: who is logging in enters the world.
ReadRegistry(m, a, p) ==
  /\ IF LoggingIn(m, a) /\ p.char_id = pl[m][a].ch
     THEN Becomes(m, a, [pl[m][a] EXCEPT !.st = "world"]) ELSE UNCHANGED pl
  /\ UNCHANGED fromMap

\* clif_charselectok: the client is told, and leaves.
ReadSelectAck(m, a) ==
  /\ IF pl[m][a].st = "world" /\ pl[m][a].client = "on"
     THEN Becomes(m, a, [pl[m][a] EXCEPT !.client = "eof"]) ELSE UNCHANGED pl
  /\ UNCHANGED fromMap

MapReads(m) ==
  /\ Linked(m) /\ toMap[m] # <<>>
  /\ toMap' = [toMap EXCEPT ![m] = Tail(@)]
  /\ LET p == Head(toMap[m])  a == p.aid IN
       /\ \/ p.cmd = "kick" /\ ReadKick(m, a)
          \/ p.cmd = "auth_ok" /\ ReadAuthOk(m, a, p, Head(cargo[m]))
          \/ p.cmd = "auth_fail" /\ ReadAuthFail(m, a, p)
          \/ p.cmd = "save_ack" /\ ReadSaveAck(m, a, p)
          \/ p.cmd = "registry" /\ ReadRegistry(m, a, p)
          \/ p.cmd = "select_ack" /\ ReadSelectAck(m, a)
       /\ cargo' = IF p.cmd = "auth_ok" THEN [cargo EXCEPT ![m] = Tail(@)]
                                        ELSE cargo
  /\ UNCHANGED <<char_online, char_auth, char_timers, sess, login_fd, map_fd,
                 toLogin, dup, told, db, written, logins, breaks,
                 edits, split>>

----------------------------------------------------------------------------
(* Packets of the map servers *)

\* mmo_char_tosql: what the char server has is replaced.
Stores(m, p) ==
  /\ db' = [db EXCEPT ![p.char_id] = p.data]
  /\ written' = [written EXCEPT ![p.char_id] = @ \cup p.data]

\* Faulty: every save counts only for the character the record names.
SaveOfNamed(p) == char_online[p.aid].char_id = p.char_id

\* char_parse_frommap_save_character: a save that is not the last counts only
\* for the character the record names.
SaveCounts(p) == p.final \/ char_online[p.aid].char_id = p.char_id

\* Server n has a session of ch, his data under way to it, or a save of it.
Has(n, ch) ==
  \/ \E a \in Accounts : /\ pl[n][a].st \in {"loaded", "world", "logout"}
                         /\ pl[n][a].ch = ch
  \/ \E i \in DOMAIN toMap[n] : /\ map_fd[n] /\ toMap[n][i].cmd = "auth_ok"
                                /\ toMap[n][i].char_id = ch
  \/ \E i \in DOMAIN fromMap[n] : /\ fromMap[n][i].cmd = "save"
                                  /\ fromMap[n][i].char_id = ch

\* Faulty: the data comes from a cache (char_db_) that saves do not refresh.
LetsInCached(m, p) ==
  /\ MapAuthOk(m, p.aid, p.char_id, p.login_id)
  /\ \E d \in SUBSET db[p.char_id] : cargo' = [cargo EXCEPT ![m] = Append(@, d)]
  /\ split' = IF \E n \in Maps \ {m} : Has(n, p.char_id) THEN split \cup {p.char_id}
              ELSE IF Has(m, p.char_id) THEN split ELSE split \ {p.char_id}

\* char_parse_frommap_auth_request: a good ticket lets the player in on m with what
\* the char server has of him; nothing asks who else has him.
LetsIn(m, p) ==
  /\ MapAuthOk(m, p.aid, p.char_id, p.login_id)
  /\ cargo' = [cargo EXCEPT ![m] = Append(@, db[p.char_id])]
  /\ split' = IF \E n \in Maps \ {m} : Has(n, p.char_id) THEN split \cup {p.char_id}
              ELSE IF Has(m, p.char_id) THEN split ELSE split \ {p.char_id}
Refuses(m, p) == \/ MapAuthFailed(m, p.aid, p.char_id, p.login_id)
                 \/ MapAuthNotLoaded(m, p.aid, p.char_id, p.login_id)

CharReads(m) ==
  /\ map_fd[m] /\ fromMap[m] # <<>>
  /\ fromMap' = [fromMap EXCEPT ![m] = Tail(@)]
  /\ LET p == Head(fromMap[m]) IN
       /\ \/ p.cmd = "auth_req" /\ LetsIn(m, p)
          \/ /\ \/ p.cmd = "auth_req" /\ Refuses(m, p)
                \/ p.cmd = "registry" /\ MapRegistry(m, p.aid, p.char_id)
                \/ p.cmd = "save" /\ p.final /\ MapFinalSave(m, p.aid, p.char_id)
                \/ p.cmd = "save" /\ ~p.final /\ MapSave(m, p.aid, p.char_id)
                \/ p.cmd = "offline" /\ MapSetOffline(m, p.aid, p.char_id)
                \/ p.cmd = "users" /\ MapUsers(m, p.who)
                \/ p.cmd = "select" /\ MapCharSelect(m, p.aid, p.login_id)
             /\ UNCHANGED <<cargo, split>>
       /\ IF p.cmd = "save" /\ SaveCounts(p) THEN Stores(m, p)
                                             ELSE UNCHANGED <<db, written>>
  /\ UNCHANGED <<pl, dup, told, logins, breaks, edits>>

----------------------------------------------------------------------------
(* Links *)

\* chrif_on_disconnect, mapif_server_reset: what was under way is lost.  (What a
\* side writes before it notices is lost as well, as if it were under way.)
LinkBreaks(m) ==
  /\ breaks < MaxBreaks /\ m \in Fragile
  /\ breaks' = breaks + 1
  /\ MapDisconnects(m)
  /\ fromMap' = [fromMap EXCEPT ![m] = <<>>]
  /\ cargo' = [cargo EXCEPT ![m] = <<>>]
  /\ UNCHANGED <<pl, dup, told, db, written, logins, edits, split>>

\* check_connect_char_server, chrif_on_ready: the players in the world are
\* announced; whoever was logging in has to start over, whoever was logging out is
\* saved again.
InWorld(m) == {a \in Accounts : pl[m][a].st = "world"}
Nodes(m)   == {a \in Accounts : pl[m][a].st \in {"login", "loaded", "logout"}}
\* Faulty: every node has to start over.
GivesUpAll(m, a) == a \in Nodes(m)
GivesUp(m, a) == LoggingIn(m, a)
NodePacket(m, a) == IF GivesUp(m, a) THEN OfflineOf(m, a) ELSE SaveOf(m, a, TRUE)
Reconnects(m) ==
  /\ MapConnects(m)
  /\ fromMap' = [fromMap EXCEPT ![m] =
       <<[cmd |-> "users", who |-> [a \in InWorld(m) |-> pl[m][a].ch]]>> \o
       [i \in 1..Cardinality(Nodes(m)) |-> NodePacket(m, Listed(Nodes(m))[i])]]
  /\ pl' = [pl EXCEPT ![m] = [a \in Accounts |->
              IF GivesUp(m, a) THEN Gone ELSE pl[m][a]]]
  /\ UNCHANGED <<cargo, dup, told, db, written, logins, breaks, edits,
                 split>>

----------------------------------------------------------------------------
(* Clients of the char server, and its timers *)

CharSideOnly == UNCHANGED <<fromMap, cargo, pl, dup, db, written, breaks,
                            edits, split>>

\* The client passed the login server again, which vouches for it, and forgets
\* where it was going.
NewLogin(fd, a) ==
  /\ CharRoom /\ logins < MaxLogins
  /\ sess[fd] = Closed
  /\ AuthOk(fd, a, Claim(a, logins + 1))
  /\ logins' = logins + 1
  /\ told' = [told EXCEPT ![a] = Nowhere]
  /\ CharSideOnly /\ UNCHANGED <<char_auth, login_fd, map_fd>>
Returns(fd, a) ==
  /\ CharRoom /\ logins < MaxLogins
  /\ char_auth[a].login_id \in LoginIds
  /\ ConnectWithTicket(fd, a, char_auth[a].login_id)
  /\ logins' = logins + 1
  /\ told' = [told EXCEPT ![a] = Nowhere]
  /\ CharSideOnly

\* The client is sent to m.
SentTo(fd, ch, m) ==
  /\ CharRoom
  /\ SelectOk(fd, ch)
  /\ told[sess[fd].aid] = Nowhere
  /\ told' = [told EXCEPT ![sess[fd].aid] =
                [m |-> m, ch |-> ch, id |-> sess[fd].login_id, tries |-> MaxTries]]
  /\ CharSideOnly /\ UNCHANGED <<logins>>

\* char_parse_char_select: to the server of his map or, if that is nowhere, of a big
\* city.  The map is his last one or where he is sent back to (pc_makesavestatus), on
\* whatever server.
Selects(fd, ch) == \E m \in Maps : map_fd[m] /\ SentTo(fd, ch, m)

LeavesList(fd) ==
  /\ CloseSession(fd)
  /\ CharSideOnly /\ UNCHANGED <<told, logins>>

\* The login server refuses a login to an account that is online.
KickedByLogin(a) ==
  /\ "kick" \in Deeds
  /\ CharRoom /\ logins < MaxLogins
  /\ LoginKick(a)
  /\ logins' = logins + 1
  /\ CharSideOnly /\ UNCHANGED told

WaitingDisconnects(t) ==
  /\ CharWaitingDisconnect(t)
  /\ CharSideOnly /\ UNCHANGED <<told, logins>>
CleansUp ==
  /\ CharCleanup
  /\ CharSideOnly /\ UNCHANGED <<told, logins>>

----------------------------------------------------------------------------

CharMapInit ==
  /\ char_online = [a \in Accounts |-> Nobody]
  /\ char_auth = [a \in Accounts |-> NoNodeC]
  /\ char_timers = [t \in CharTids |-> NoAccount]
  /\ sess = [fd \in Fds |-> Closed]
  /\ login_fd = 1
  /\ map_fd = [m \in Maps |-> TRUE]
  /\ toLogin = <<>>
  /\ toMap = [m \in Maps |-> <<>>]
  /\ fromMap = [m \in Maps |-> <<>>]
  /\ cargo = [m \in Maps |-> <<>>]
  /\ pl = [m \in Maps |-> [a \in Accounts |-> Gone]]
  /\ dup = [m \in Maps |-> [a \in Accounts |-> NoChar]]
  /\ told = [a \in Accounts |-> Nowhere]
  /\ db = [ch \in Chars |-> {}]
  /\ written = [ch \in Chars |-> {}]
  /\ split = {} /\ logins = 0 /\ breaks = 0 /\ edits = 0

PlayerStep(m, a) ==
  \/ WantToConnection(m, a) \/ DupCloses(m, a) \/ Edit(m, a) \/ Autotrade(m, a)
  \/ Restart(m, a)
ServerStep(m, a) ==
  \/ ParseEof(m, a) \/ DelayQuit(m, a) \/ AutoSave(m, a) \/ AuthDbCleanup(m, a)

CharMapNext ==
  \/ \E m \in Maps :
       \/ \E a \in Accounts : PlayerStep(m, a) \/ ServerStep(m, a)
       \/ MapReads(m) \/ CharReads(m)
       \/ LinkBreaks(m) \/ Reconnects(m)
  \/ \E fd \in Fds :
       \/ \E a \in Accounts : NewLogin(fd, a) \/ Returns(fd, a)
       \/ \E ch \in Chars : Selects(fd, ch)
       \/ LeavesList(fd)
  \/ \E a \in Accounts : KickedByLogin(a)
  \/ (\E t \in CharTids : WaitingDisconnects(t)) \/ CleansUp

CharMapSpec == CharMapInit /\ [][CharMapNext]_cm_vars

\* The servers' loops run: sockets are read, a lost link is made again, whoever
\* the server gave up on is closed, timers come due.  No client has to do
\* anything.
CharMapFairness ==
  \A m \in Maps :
    /\ WF_cm_vars(MapReads(m) \/ CharReads(m) \/ Reconnects(m))
    /\ \A a \in Accounts :
         /\ WF_cm_vars(\/ pl[m][a].client = "eof" /\ ParseEof(m, a)
                       \/ ~pl[m][a].auto /\ DelayQuit(m, a))
         /\ WF_cm_vars(AutoSave(m, a) \/ AuthDbCleanup(m, a))
FairCharMapSpec == CharMapSpec /\ CharMapFairness

----------------------------------------------------------------------------
(* Properties *)

\* A save never undoes what the char server has, unless two map servers have had the
\* character at once: his map server refuses the account until the last save is
\* acknowledged, so the old session's saves come before the next session's load,
\* whatever the order of kicks, timers, delayed quits and repeated saves, and across
\* links that break and are made again (every last save is stored:
\* char_parse_frommap_save_character; chrif_save_ack, auth_db_cleanup).
NoRollback ==
  [][\A m \in Maps, ch \in Chars :
       CharReads(m) /\ ~(db[ch] \subseteq db'[ch]) => ch \in split]_cm_vars

\* An acknowledged session was saved: what chrif_save_ack throws away the char
\* server had, although the save is repeated and so are its acknowledgements.
AckedIsSaved ==
  [][\A m \in Maps, a \in Accounts :
       pl[m][a].st = "logout" /\ pl'[m][a].st # "logout"
         => pl[m][a].data \subseteq written[pl[m][a].ch]]_cm_vars

\* What a player did reaches the char server in the end, whenever his client, the
\* link or the login server cut in (pc_autosave, chrif_on_ready, auth_db_cleanup).
EditsSaved ==
  \A m \in Maps, a \in Accounts, e \in 1..MaxEdits :
    e \in pl[m][a].data ~> \E ch \in Chars : e \in written[ch]

\* Nobody waits for good, to be let in or for his last save: the account could
\* not come back to this map server (clif_parse_WantToConnection).
NobodyHangs ==
  \A m \in Maps, a \in Accounts :
    LoggingIn(m, a) \/ pl[m][a].st = "logout"
      ~> ~LoggingIn(m, a) /\ pl[m][a].st # "logout"

\* Whoever enters the world does so with the data the char server sent: "auth is
\* considered completed whence they arrive" (pc_authok, pc_reg_received).
EntersLoaded ==
  [][\A m \in Maps, a \in Accounts :
       pl[m][a].st # "world" /\ pl'[m][a].st = "world"
         => pl[m][a].st = "loaded"]_cm_vars
=============================================================================
