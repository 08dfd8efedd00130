------------------------- MODULE CharServerProofs --------------------------
(***************************************************************************)
(* Theorems about CharServer, for any number of accounts, characters, map  *)
(* servers, sockets and timers.                                            *)
(*                                                                         *)
(* The handlers rewrite one record each, in one of five ways (Ensured, On, *)
(* AtList, Left, LostFrom).  RecordOK is what each way preserves of a      *)
(* record; the lemmas then put the record back into the tables.            *)
(***************************************************************************)
EXTENDS CharServer, FiniteSetTheorems, SequenceTheorems, TLAPS

\* A sound record of account a: its timer runs only while its character is
\* somewhere else, and on a map server it plays some character.
RecordOK(a, r) ==
  /\ r \in OnlineRecord
  /\ r.waiting # INVALID_TIMER => r.server \notin {Offline, AtCharList}
  /\ r.server > AtCharList => r.char_id \in Chars

RecordsOK == /\ char_online \in [Accounts -> OnlineRecord]
             /\ \A a \in Accounts : RecordOK(a, char_online[a])

\* Only a session that claims an account is let in.
SessOK == /\ sess \in [Fds -> Session]
          /\ \A fd \in Fds : sess[fd].auth => sess[fd].aid \in Accounts

\* What the proofs need of the variables other than the queues.
CharInv ==
  /\ RecordsOK
  /\ char_auth \in [Accounts -> CharTicket]
  /\ char_timers \in [CharTids -> Accounts \cup {NoAccount}]
  /\ SessOK
  /\ login_fd \in {-1, 0, 1}
  /\ map_fd \in [Maps -> BOOLEAN]
  /\ CharTimersMatch
  /\ FdIsTheirs

\* Numbers that mean "none" are not ids of anything.
LEMMA CharCodes ==
  /\ INVALID_TIMER \notin CharTids
  /\ NoFd \notin Fds
  /\ {Offline, Elsewhere, AtCharList} \cap Maps = {}
  /\ \A m \in Maps : m > AtCharList /\ m \in Int
  /\ Offline # Elsewhere /\ Offline # AtCharList /\ Elsewhere # AtCharList
  /\ ~(Offline > AtCharList) /\ ~(Elsewhere > AtCharList)
  /\ ~(AtCharList > AtCharList)
  /\ \A a \in Accounts : CharsOf[a] \subseteq Chars
  /\ NoChar \notin Chars
  BY MapsAssumption, FdsAssumption, CharTidsAssumption, CharsOfAssumption
     DEF INVALID_TIMER, NoFd, Offline, Elsewhere, AtCharList, NoChar, Chars

\* Each way of rewriting a record keeps it sound; only its socket is kept.
LEMMA RecordLemma ==
  ASSUME NEW a \in Accounts, NEW r, RecordOK(a, r)
  PROVE  /\ RecordOK(a, Nobody)
         /\ RecordOK(a, AtList(r)) /\ AtList(r).waiting = INVALID_TIMER
         /\ AtList(r).fd = r.fd
         /\ \A ch \in Chars \cup {NoChar} :
              /\ RecordOK(a, Left(r, ch)) /\ Left(r, ch).waiting = INVALID_TIMER
              /\ Left(r, ch).fd = r.fd
         /\ \A ch \in Chars, m \in Maps \cup {Elsewhere} :
              /\ RecordOK(a, On(r, m, ch)) /\ On(r, m, ch).fd = r.fd
              /\ On(r, m, ch).waiting = INVALID_TIMER
         /\ \A m \in Maps : /\ RecordOK(a, LostFrom(m, r))
                            /\ LostFrom(m, r).fd = r.fd
                            /\ LostFrom(m, r).waiting = r.waiting
<1> USE CharCodes DEF RecordOK, OnlineRecord
<1>1. RecordOK(a, Nobody)
  BY DEF Nobody
<1>2. /\ RecordOK(a, AtList(r)) /\ AtList(r).waiting = INVALID_TIMER
      /\ AtList(r).fd = r.fd
  BY DEF AtList
<1>3. ASSUME NEW ch \in Chars \cup {NoChar}
      PROVE  /\ RecordOK(a, Left(r, ch)) /\ Left(r, ch).waiting = INVALID_TIMER
             /\ Left(r, ch).fd = r.fd
  BY <1>2 DEF Left
<1>4. ASSUME NEW ch \in Chars, NEW m \in Maps \cup {Elsewhere}
      PROVE  /\ RecordOK(a, On(r, m, ch)) /\ On(r, m, ch).fd = r.fd
             /\ On(r, m, ch).waiting = INVALID_TIMER
  BY DEF On
<1>5. ASSUME NEW m \in Maps
      PROVE  /\ RecordOK(a, LostFrom(m, r)) /\ LostFrom(m, r).fd = r.fd
             /\ LostFrom(m, r).waiting = r.waiting
  BY DEF LostFrom
<1> QED
  BY <1>1, <1>2, <1>3, <1>4, <1>5

\* A new record is sound, too, and has no socket.
LEMMA EnsuredLemma ==
  ASSUME RecordsOK, NEW a \in Accounts
  PROVE  /\ RecordOK(a, Ensured(a))
         /\ Ensured(a).fd \in {NoFd, char_online[a].fd}
         /\ Ensured(a).waiting = char_online[a].waiting
  <1>1. CASE Present(a)
    BY <1>1 DEF RecordsOK, Ensured
  <1>2. CASE ~Present(a)
    <2>1. char_online[a].waiting = INVALID_TIMER
      BY <1>2 DEF RecordsOK, RecordOK, Present
    <2>2. Ensured(a) = [Nobody EXCEPT !.server = AtCharList]
      BY <1>2 DEF Ensured
    <2> QED
      BY <2>1, <2>2, CharCodes DEF RecordOK, Nobody, OnlineRecord
  <1> QED
    BY <1>1, <1>2

\* The records of the accounts of S are rewritten, their timers deleted.
LEMMA CancelLemma ==
  ASSUME CharInv, NEW S \in SUBSET Accounts,
         RecordsOK',
         char_timers' = CharCancelled(S),
         \A a \in S : char_online'[a].waiting = INVALID_TIMER,
         \A a \in Accounts \ S : char_online'[a].waiting = char_online[a].waiting
  PROVE  /\ CharTimersMatch'
         /\ char_timers' \in [CharTids -> Accounts \cup {NoAccount}]
<1> USE CharCodes, AccountsAssumption
<1>1. char_timers' \in [CharTids -> Accounts \cup {NoAccount}]
  BY DEF CharInv, CharCancelled
<1>2. ASSUME NEW t \in CharTids, NEW a \in Accounts
      PROVE  char_timers'[t] = a <=> char_online'[a].waiting = t
  <2>1. char_timers[t] = a <=> char_online[a].waiting = t
    BY DEF CharInv, CharTimersMatch
  <2>2. \A b \in Accounts : char_timers[t] = b <=> char_online[b].waiting = t
    BY DEF CharInv, CharTimersMatch
  <2>3. char_timers'[t] = IF \E b \in S : char_online[b].waiting = t
                          THEN NoAccount ELSE char_timers[t]
    BY DEF CharCancelled
  <2>4. CASE a \in S
    BY <2>1, <2>2, <2>3, <2>4
  <2>5. CASE a \notin S
    BY <2>1, <2>2, <2>3, <2>5
  <2> QED
    BY <2>4, <2>5
<1> QED
  BY <1>1, <1>2 DEF CharTimersMatch

\* Records are rewritten without touching timers.
LEMMA KeepTimersLemma ==
  ASSUME CharInv, RecordsOK', char_timers' = char_timers,
         \A a \in Accounts : char_online'[a].waiting = char_online[a].waiting
  PROVE  /\ CharTimersMatch'
         /\ char_timers' \in [CharTids -> Accounts \cup {NoAccount}]
  BY DEF CharInv, CharTimersMatch

\* Sockets in records stay right if records only forget them and sessions that
\* were let in stay as they are.
LEMMA KeepFdsLemma ==
  ASSUME CharInv, RecordsOK',
         \A a \in Accounts : char_online'[a].fd \in {NoFd, char_online[a].fd},
         \A fd \in Fds : sess[fd].auth => /\ sess'[fd].aid = sess[fd].aid
                                          /\ sess'[fd].auth
  PROVE  FdIsTheirs'
<1> SUFFICES ASSUME NEW a \in Accounts, char_online'[a].fd # NoFd
             PROVE  /\ sess'[char_online'[a].fd].aid = a
                    /\ sess'[char_online'[a].fd].auth
  BY DEF FdIsTheirs
<1>1. char_online'[a].fd = char_online[a].fd /\ char_online[a].fd \in Fds
  BY DEF CharInv, RecordsOK, OnlineRecord
<1> QED
  BY <1>1 DEF CharInv, FdIsTheirs


----------------------------------------------------------------------------
(* The helpers the handlers are built from *)

TablesOK == /\ RecordsOK
            /\ char_timers \in [CharTids -> Accounts \cup {NoAccount}]
            /\ CharTimersMatch
            /\ FdIsTheirs

\* Sessions that were let in stay as they are.
SessionsKept == \A fd \in Fds : sess[fd].auth => /\ sess'[fd].aid = sess[fd].aid
                                                 /\ sess'[fd].auth

LEMMA SameTables ==
  ASSUME CharInv, SessionsKept, UNCHANGED <<char_online, char_timers>>
  PROVE  TablesOK'
<1>1. RecordsOK'
  BY DEF CharInv, RecordsOK, RecordOK
<1>2. \A a \in Accounts : char_online'[a].fd \in {NoFd, char_online[a].fd}
  OBVIOUS
<1> QED
  BY <1>1, <1>2, KeepTimersLemma, KeepFdsLemma DEF SessionsKept, TablesOK

\* The record of a becomes r, which has no timer.
LEMMA OneRecord ==
  ASSUME CharInv, SessionsKept, NEW a \in Accounts, NEW r, RecordOK(a, r),
         r.waiting = INVALID_TIMER, r.fd \in {NoFd, char_online[a].fd},
         char_online' = [char_online EXCEPT ![a] = r],
         char_timers' = CharCancelled({a})
  PROVE  TablesOK'
<1>1. RecordsOK'
  BY DEF CharInv, RecordsOK, RecordOK
<1>2. /\ \A b \in {a} : char_online'[b].waiting = INVALID_TIMER
      /\ \A b \in Accounts \ {a} : char_online'[b].waiting = char_online[b].waiting
      /\ \A b \in Accounts : char_online'[b].fd \in {NoFd, char_online[b].fd}
  BY DEF CharInv, RecordsOK
<1>3. CharTimersMatch' /\ char_timers' \in [CharTids -> Accounts \cup {NoAccount}]
  BY <1>1, <1>2, CancelLemma
<1>4. FdIsTheirs'
  BY <1>1, <1>2, KeepFdsLemma DEF SessionsKept
<1> QED
  BY <1>1, <1>3, <1>4 DEF TablesOK

\* char_set_char_online
LEMMA SetCharOnlineOK ==
  ASSUME CharInv, SessionsKept, NEW a \in Accounts, NEW m \in Maps \cup {Elsewhere},
         NEW ch \in Chars, SetCharOnline(a, m, ch)
  PROVE  TablesOK'
<1> DEFINE e == Ensured(a)
           r == On(e, m, ch)
<1>0. RecordOK(a, e) /\ e.fd \in {NoFd, char_online[a].fd}
  BY EnsuredLemma DEF CharInv
<1>1. /\ RecordOK(a, r) /\ r.waiting = INVALID_TIMER
      /\ r.fd \in {NoFd, char_online[a].fd}
  <2> HIDE DEF e
  <2> QED
    BY <1>0, RecordLemma
<1>2. /\ char_online' = [char_online EXCEPT ![a] = r]
      /\ char_timers' = CharCancelled({a})
  BY DEF SetCharOnline
<1> HIDE DEF r
<1> QED
  BY <1>1, <1>2, OneRecord

\* char_set_char_offline
LEMMA SetCharOfflineOK ==
  ASSUME CharInv, SessionsKept, NEW a \in Accounts, NEW ch \in Chars \cup {NoChar},
         SetCharOffline(a, ch)
  PROVE  TablesOK'
<1> DEFINE r == Left(char_online[a], ch)
<1>1. /\ RecordOK(a, r) /\ r.waiting = INVALID_TIMER
      /\ r.fd \in {NoFd, char_online[a].fd}
  BY RecordLemma DEF CharInv, RecordsOK
<1>2. /\ char_online' = [char_online EXCEPT ![a] = r]
      /\ char_timers' = CharCancelled({a})
  BY DEF SetCharOffline
<1> HIDE DEF r
<1> QED
  BY <1>1, <1>2, OneRecord

\* char_set_char_charselect
LEMMA SetCharSelectOK ==
  ASSUME CharInv, SessionsKept, NEW a \in Accounts, NEW r, RecordOK(a, r),
         r.fd \in {NoFd, char_online[a].fd}, SetCharSelect(a, r)
  PROVE  TablesOK'
<1> DEFINE q == AtList(r)
<1>1. /\ RecordOK(a, q) /\ q.waiting = INVALID_TIMER
      /\ q.fd \in {NoFd, char_online[a].fd}
  BY RecordLemma DEF CharInv
<1>2. /\ char_online' = [char_online EXCEPT ![a] = q]
      /\ char_timers' = CharCancelled({a})
  BY DEF SetCharSelect
<1> HIDE DEF q
<1> QED
  BY <1>1, <1>2, OneRecord

\* A kicked account gets a timer, or keeps the one it has.
LEMMA StartWaitingOK ==
  ASSUME CharInv, SessionsKept, NEW a \in Accounts, InGame(a), StartWaiting(a)
  PROVE  TablesOK'
<1>1. CASE UNCHANGED <<char_online, char_timers>>
  BY <1>1, SameTables
<1>2. CASE \E t \in CharTids :
             /\ char_timers[t] = NoAccount
             /\ char_timers' = [char_timers EXCEPT ![t] = a]
             /\ char_online' = [char_online EXCEPT ![a].waiting = t]
             /\ char_online[a].waiting = INVALID_TIMER
  <2> PICK t \in CharTids :
             /\ char_timers[t] = NoAccount
             /\ char_timers' = [char_timers EXCEPT ![t] = a]
             /\ char_online' = [char_online EXCEPT ![a].waiting = t]
             /\ char_online[a].waiting = INVALID_TIMER
    BY <1>2
  <2> DEFINE r == [char_online[a] EXCEPT !.waiting = t]
  <2>0. char_online[a] \in OnlineRecord /\ RecordOK(a, char_online[a])
    BY DEF CharInv, RecordsOK
  <2>1. RecordOK(a, r) /\ r.fd = char_online[a].fd /\ r.waiting = t
    BY <2>0, CharCodes DEF RecordOK, OnlineRecord, InGame
  <2>2. char_online' = [char_online EXCEPT ![a] = r]
    BY DEF CharInv, RecordsOK
  <2> HIDE DEF r
  <2>3. RecordsOK'
    BY <2>1, <2>2 DEF CharInv, RecordsOK, RecordOK
  <2>4. \A b \in Accounts : char_online'[b].fd \in {NoFd, char_online[b].fd}
    BY <2>1, <2>2 DEF CharInv, RecordsOK
  <2>5. FdIsTheirs'
    BY <2>3, <2>4, KeepFdsLemma DEF SessionsKept
  <2>6. CharTimersMatch'
    <3> SUFFICES ASSUME NEW u \in CharTids, NEW b \in Accounts
                 PROVE  char_timers'[u] = b <=> char_online'[b].waiting = u
      BY DEF CharTimersMatch
    <3>1. /\ char_timers[u] = b <=> char_online[b].waiting = u
          /\ char_timers[t] = b <=> char_online[b].waiting = t
      BY DEF CharInv, CharTimersMatch
    <3>2. char_timers'[u] = IF u = t THEN a ELSE char_timers[u]
      BY DEF CharInv
    <3>3. char_online'[b].waiting = IF b = a THEN t ELSE char_online[b].waiting
      BY <2>1, <2>2 DEF CharInv, RecordsOK
    <3> QED
      BY <3>1, <3>2, <3>3, CharCodes, AccountsAssumption
  <2>7. char_timers' \in [CharTids -> Accounts \cup {NoAccount}]
    BY DEF CharInv
  <2> QED
    BY <2>3, <2>5, <2>6, <2>7 DEF TablesOK
<1> QED
  BY <1>1, <1>2 DEF StartWaiting

----------------------------------------------------------------------------
(* The handlers *)

\* char_auth_ok: s is what the session is left with, for account a.
LEMMA AuthOkOK ==
  ASSUME CharInv, NEW fd \in Fds, NEW a \in Accounts, NEW s \in Session,
         s.aid = a, ~sess[fd].auth, AuthOk(fd, a, s)
  PROVE  TablesOK' /\ SessOK'
<1>1. CASE AuthInGame(fd, a, s) \/ AuthTaken(fd, a, s)
  <2>1. sess' = [sess EXCEPT ![fd] = s]
    BY <1>1 DEF AuthInGame, AuthTaken
  <2>2. SessionsKept /\ SessOK'
    BY <2>1 DEF CharInv, SessOK, SessionsKept
  <2>3. CASE AuthInGame(fd, a, s)
    BY <2>2, <2>3, StartWaitingOK DEF AuthInGame
  <2>4. CASE AuthTaken(fd, a, s)
    BY <2>2, <2>4, SameTables DEF AuthTaken
  <2> QED
    BY <1>1, <2>2, <2>3, <2>4
<1>2. CASE AuthGranted(fd, a, s)
  <2> DEFINE e == IF Present(a) THEN [char_online[a] EXCEPT !.fd = fd]
                                ELSE Ensured(a)
             r == AtList(e)
  <2>1. RecordOK(a, e) /\ e.fd \in {NoFd, fd}
    <3>1. CASE Present(a)
      BY <3>1 DEF CharInv, RecordsOK, RecordOK, OnlineRecord
    <3>2. CASE ~Present(a)
      BY <3>2, EnsuredLemma DEF CharInv, AuthGranted, Ensured, Nobody
    <3> QED
      BY <3>1, <3>2
  <2>2. /\ RecordOK(a, r) /\ r.waiting = INVALID_TIMER /\ r.fd \in {NoFd, fd}
    <3> HIDE DEF e
    <3> QED
      BY <2>1, RecordLemma
  <2>3. /\ char_online' = [char_online EXCEPT ![a] = r]
        /\ char_timers' = CharCancelled({a})
        /\ sess' = [sess EXCEPT ![fd] = [s EXCEPT !.auth = TRUE]]
    BY <1>2 DEF AuthGranted, SetCharSelect
  <2> HIDE DEF r
  <2>4. RecordsOK'
    BY <2>2, <2>3 DEF CharInv, RecordsOK, RecordOK
  <2>5. /\ \A b \in {a} : char_online'[b].waiting = INVALID_TIMER
        /\ \A b \in Accounts \ {a} : char_online'[b] = char_online[b]
        /\ \A b \in Accounts \ {a} : char_online'[b].waiting = char_online[b].waiting
        /\ char_online'[a] = r /\ {a} \in SUBSET Accounts
    BY <2>2, <2>3 DEF CharInv, RecordsOK
  <2>6. CharTimersMatch' /\ char_timers' \in [CharTids -> Accounts \cup {NoAccount}]
    BY <2>3, <2>4, <2>5, CancelLemma
  <2>7. /\ SessOK' /\ sess'[fd].aid = a /\ sess'[fd].auth
        /\ \A f \in Fds : sess[f].auth => sess'[f] = sess[f]
    BY <2>3 DEF CharInv, SessOK, Session
  <2>8. FdIsTheirs'
    <3> SUFFICES ASSUME NEW b \in Accounts, char_online'[b].fd # NoFd
                 PROVE  /\ sess'[char_online'[b].fd].aid = b
                        /\ sess'[char_online'[b].fd].auth
      BY DEF FdIsTheirs
    <3>1. CASE b = a
      BY <3>1, <2>2, <2>5, <2>7
    <3>2. CASE b # a
      <4>1. /\ char_online'[b] = char_online[b] /\ char_online[b].fd \in Fds
            /\ sess[char_online[b].fd].aid = b /\ sess[char_online[b].fd].auth
        BY <3>2, <2>5 DEF CharInv, RecordsOK, OnlineRecord, FdIsTheirs
      <4> QED
        BY <4>1, <2>7
    <3> QED
      BY <3>1, <3>2
  <2> QED
    BY <2>4, <2>6, <2>7, <2>8 DEF TablesOK
<1> QED
  BY <1>1, <1>2 DEF AuthOk

\* char_parse_char on a session that ends.
LEMMA CloseSessionOK ==
  ASSUME CharInv, NEW fd \in Fds, CloseSession(fd)
  PROVE  TablesOK' /\ SessOK'
<1> DEFINE a == sess[fd].aid
           e == IF char_online[a].fd = fd
                THEN [char_online[a] EXCEPT !.fd = NoFd] ELSE char_online[a]
<1>1. SessOK' /\ \A f \in Fds \ {fd} : sess'[f] = sess[f]
  BY DEF CloseSession, CharInv, SessOK, Session, Closed
<1>3. \A b \in Accounts : char_online[b].fd = fd => sess[fd].aid = b /\ sess[fd].auth
  BY CharCodes DEF CharInv, FdIsTheirs
\* Records that name sockets other than the closed one name live sessions.
<1>4. ASSUME \A b \in Accounts : char_online'[b].fd \in {NoFd, char_online[b].fd},
             \A b \in Accounts : char_online'[b].fd # fd, RecordsOK'
      PROVE  FdIsTheirs'
  <2> SUFFICES ASSUME NEW b \in Accounts, char_online'[b].fd # NoFd
               PROVE  /\ sess'[char_online'[b].fd].aid = b
                      /\ sess'[char_online'[b].fd].auth
    BY DEF FdIsTheirs
  <2>1. /\ char_online'[b].fd = char_online[b].fd /\ char_online'[b].fd \in Fds \ {fd}
        /\ sess[char_online[b].fd].aid = b /\ sess[char_online[b].fd].auth
    BY <1>4, CharCodes DEF CharInv, RecordsOK, OnlineRecord, FdIsTheirs
  <2> QED
    BY <1>1, <2>1
<1>5. CASE UNCHANGED <<char_online, char_timers>> /\ ~sess[fd].auth
  <2>1. RecordsOK'
    BY <1>5 DEF CharInv, RecordsOK, RecordOK
  <2>2. FdIsTheirs'
    BY <1>3, <1>4, <1>5, <2>1
  <2> QED
    BY <1>1, <1>5, <2>1, <2>2, KeepTimersLemma DEF TablesOK
<1>6. ASSUME sess[fd].auth, a \in Accounts, NEW r, RecordOK(a, r),
             r.fd \in {NoFd, char_online[a].fd}, r.fd # fd,
             char_online' = [char_online EXCEPT ![a] = r]
      PROVE  /\ RecordsOK' /\ FdIsTheirs' /\ char_online'[a] = r
             /\ \A b \in Accounts \ {a} : char_online'[b] = char_online[b]
  <2>0. /\ char_online'[a] = r
        /\ \A b \in Accounts \ {a} : char_online'[b] = char_online[b]
    BY <1>6 DEF CharInv, RecordsOK
  <2>1. RecordsOK'
    BY <1>6, <2>0 DEF CharInv, RecordsOK, RecordOK
  <2>2. \A b \in Accounts : /\ char_online'[b].fd \in {NoFd, char_online[b].fd}
                           /\ char_online'[b].fd # fd
    <3> SUFFICES ASSUME NEW b \in Accounts
                 PROVE  /\ char_online'[b].fd \in {NoFd, char_online[b].fd}
                        /\ char_online'[b].fd # fd
      OBVIOUS
    <3> CASE b = a
      BY <1>6, <2>0
    <3> CASE b # a
      BY <1>3, <1>6, <2>0
    <3> QED
      OBVIOUS
  <2> QED
    BY <1>4, <2>0, <2>1, <2>2
<1>7. CASE sess[fd].auth
  <2>0. a \in Accounts
    BY <1>7 DEF CharInv, SessOK
  <2>1. RecordOK(a, e) /\ e.fd \in {NoFd, char_online[a].fd} /\ e.fd # fd
        /\ e.waiting = char_online[a].waiting
    BY <1>7, <2>0, CharCodes DEF CharInv, RecordsOK, RecordOK, OnlineRecord
  <2>2. CASE e.server \in {Offline, AtCharList}
    <3> DEFINE r == Left(e, NoChar)
    <3>1. /\ RecordOK(a, r) /\ r.waiting = INVALID_TIMER /\ r.fd = e.fd
      <4> HIDE DEF e, a
      <4>1. NoChar \in Chars \cup {NoChar}
        OBVIOUS
      <4> QED
        BY <4>1, <2>0, <2>1, RecordLemma
    <3>2. /\ char_online' = [char_online EXCEPT ![a] = r]
          /\ char_timers' = CharCancelled({a})
      BY <1>7, <2>2 DEF CloseSession
    <3> HIDE DEF r, e
    <3>3. /\ RecordsOK' /\ FdIsTheirs' /\ char_online'[a] = r
          /\ \A b \in Accounts \ {a} : char_online'[b] = char_online[b]
      BY <1>6, <1>7, <2>0, <2>1, <3>1, <3>2
    <3>4. /\ \A b \in {a} : char_online'[b].waiting = INVALID_TIMER
          /\ \A b \in Accounts \ {a} : char_online'[b].waiting = char_online[b].waiting
          /\ {a} \in SUBSET Accounts
      BY <2>0, <3>1, <3>3
    <3>5. /\ CharTimersMatch'
          /\ char_timers' \in [CharTids -> Accounts \cup {NoAccount}]
      <4> HIDE DEF a
      <4> QED
        BY <3>2, <3>3, <3>4, CancelLemma
    <3> QED
      BY <1>1, <3>3, <3>5 DEF TablesOK
  <2>3. CASE e.server \notin {Offline, AtCharList}
    <3>1. char_online' = [char_online EXCEPT ![a] = e] /\ char_timers' = char_timers
      BY <1>7, <2>3 DEF CloseSession
    <3> HIDE DEF e
    <3>2. /\ RecordsOK' /\ FdIsTheirs' /\ char_online'[a] = e
          /\ \A b \in Accounts \ {a} : char_online'[b] = char_online[b]
      BY <1>6, <1>7, <2>0, <2>1, <3>1
    <3>3. \A b \in Accounts : char_online'[b].waiting = char_online[b].waiting
      BY <2>1, <3>2
    <3> QED
      BY <1>1, <3>1, <3>2, <3>3, KeepTimersLemma DEF TablesOK
  <2> QED
    BY <2>2, <2>3
<1>8. CASE ~sess[fd].auth
  BY <1>5, <1>8 DEF CloseSession
<1> QED
  BY <1>7, <1>8

----------------------------------------------------------------------------
(* The invariant: one step per handler *)

\* What the tables do not hold.
RestOK == /\ char_auth \in [Accounts -> CharTicket]
          /\ login_fd \in {-1, 0, 1}
          /\ map_fd \in [Maps -> BOOLEAN]

LEMMA CharInvParts == /\ CharInv => TablesOK /\ SessOK /\ RestOK
                      /\ TablesOK' /\ SessOK' /\ RestOK' => CharInv'
  BY DEF CharInv, TablesOK, RestOK

LEMMA SameSessions ==
  ASSUME CharInv, UNCHANGED sess
  PROVE  SessOK' /\ SessionsKept
  BY DEF CharInv, SessOK, SessionsKept

\* Records change their character and server only; timers run on.
LEMMA MovedRecords ==
  ASSUME CharInv, RecordsOK', UNCHANGED <<sess, char_timers>>,
         \A a \in Accounts : /\ char_online'[a].waiting = char_online[a].waiting
                            /\ char_online'[a].fd \in {NoFd, char_online[a].fd}
  PROVE  TablesOK'
  BY KeepTimersLemma, KeepFdsLemma, SameSessions DEF SessionsKept, TablesOK

LEMMA ClientStepOK == CharInv /\ ClientStep => CharInv'
<1> SUFFICES ASSUME CharInv, ClientStep PROVE CharInv'
  OBVIOUS
<1> USE CharInvParts
<1>1. ASSUME NEW fd \in Fds, NEW a \in Accounts, NEW id \in LoginIds,
             CharConnect(fd, a, id)
      PROVE  CharInv'
  <2> DEFINE s == Claim(a, id)
  <2>1. s \in Session /\ s.aid = a /\ ~s.auth
    BY DEF Claim, Session
  <2>2. CASE ConnectWithTicket(fd, a, id)
    <3>1. AuthOk(fd, a, s) /\ ~sess[fd].auth
      BY <2>2 DEF ConnectWithTicket, Closed
    <3>2. RestOK'
      BY <2>2, CharCodes DEF ConnectWithTicket, CharInv, RestOK, NoNodeC, CharTicket
    <3> HIDE DEF s
    <3> QED
      BY <2>1, <3>1, <3>2, AuthOkOK
  <2>3. CASE ConnectFromLogin(fd, a, id)
    <3>1. sess' = [sess EXCEPT ![fd] = s] /\ ~sess[fd].auth
      BY <2>3 DEF ConnectFromLogin, Closed
    <3> HIDE DEF s
    <3>2. SessOK' /\ SessionsKept
      BY <2>1, <3>1 DEF CharInv, SessOK, SessionsKept
    <3> QED
      BY <2>3, <3>2, SameTables DEF ConnectFromLogin, RestOK
  <2> QED
    BY <1>1, <2>2, <2>3 DEF CharConnect
<1>2. ASSUME NEW fd \in Fds, NEW ch \in Chars, CharSelect(fd, ch)
      PROVE  CharInv'
  <2> DEFINE a == sess[fd].aid
  <2>1. /\ a \in Accounts /\ ch \in Chars /\ sess[fd].login_id \in {0} \cup LoginIds
        /\ UNCHANGED <<sess, login_fd, map_fd>>
    BY <1>2 DEF CharSelect, SelectOk, SelectNotLoaded, SelectNoMap, Playable,
                CharInv, SessOK, Session
  <2>2. /\ \/ char_auth' = char_auth
           \/ char_auth' = [char_auth EXCEPT ![a] =
                 [login_id |-> sess[fd].login_id, char_id |-> ch]]
        /\ \/ SetCharOnline(a, Elsewhere, ch)
           \/ /\ char_online' = [char_online EXCEPT ![a] =
                                    Left(On(Ensured(a), Elsewhere, ch), ch)]
              /\ char_timers' = CharCancelled({a})
    BY <1>2 DEF CharSelect, SelectOk, SelectNotLoaded, SelectNoMap
  <2> HIDE DEF a
  <2>3. RestOK'
    BY <2>1, <2>2, CharCodes DEF RestOK, CharTicket
  <2>4. CASE SetCharOnline(a, Elsewhere, ch)
    <3>1. TablesOK'
      BY <2>1, <2>4, SetCharOnlineOK, SameSessions
    <3> QED
      BY <2>1, <2>3, <3>1, SameSessions
  <2>5. CASE /\ char_online' = [char_online EXCEPT ![a] =
                                   Left(On(Ensured(a), Elsewhere, ch), ch)]
             /\ char_timers' = CharCancelled({a})
    <3> DEFINE e == Ensured(a)
               o == On(e, Elsewhere, ch)
               r == Left(o, ch)
    <3>1. RecordOK(a, e) /\ e.fd \in {NoFd, char_online[a].fd}
      BY <2>1, EnsuredLemma DEF CharInv
    <3>2. RecordOK(a, o) /\ o.fd = e.fd
      <4> HIDE DEF e
      <4> QED
        BY <2>1, <3>1, RecordLemma
    <3>3. /\ RecordOK(a, r) /\ r.waiting = INVALID_TIMER
          /\ r.fd \in {NoFd, char_online[a].fd}
      <4>1. ch \in Chars \cup {NoChar}
        OBVIOUS
      <4> HIDE DEF o, e
      <4> QED
        BY <2>1, <3>1, <3>2, <4>1, RecordLemma
    <3>4. char_online' = [char_online EXCEPT ![a] = r]
      BY <2>5
    <3> HIDE DEF r
    <3>5. TablesOK'
      BY <2>1, <2>5, <3>3, <3>4, OneRecord, SameSessions
    <3> QED
      BY <2>1, <2>3, <3>5, SameSessions
  <2> QED
    BY <2>2, <2>4, <2>5
<1>3. ASSUME NEW fd \in Fds, CloseSession(fd)
      PROVE  CharInv'
  <2>1. RestOK'
    BY <1>3 DEF CloseSession, RestOK
  <2> QED
    BY <1>3, <2>1, CloseSessionOK
<1> QED
  BY <1>1, <1>2, <1>3 DEF ClientStep

LEMMA LoginStepOK == CharInv /\ LoginStep => CharInv'
<1> SUFFICES ASSUME CharInv, LoginStep PROVE CharInv'
  OBVIOUS
<1> USE CharInvParts
<1>1. ASSUME NEW fd \in Fds, NEW a \in Accounts, NEW id \in LoginIds,
             NEW ok \in BOOLEAN, AuthAnswer(fd, a, id, ok)
      PROVE  CharInv'
  <2>1. RestOK'
    BY <1>1 DEF AuthAnswer, RestOK
  <2>2. CASE ok /\ Asked(fd, a, id)
    <3>1. sess[fd].aid = a /\ ~sess[fd].auth /\ sess[fd] \in Session
      <4>1. sess[fd] = Claim(a, id)
        BY <2>2 DEF Asked
      <4>2. Claim(a, id) \in Session /\ Claim(a, id).aid = a /\ ~Claim(a, id).auth
        BY DEF Claim, Session
      <4> QED
        BY <4>1, <4>2
    <3>2. AuthOk(fd, a, sess[fd])
      BY <1>1, <2>2, <3>1 DEF AuthAnswer
    <3> QED
      BY <2>1, <3>1, <3>2, AuthOkOK
  <2>3. CASE ~(ok /\ Asked(fd, a, id))
    BY <1>1, <2>1, <2>3, SameTables, SameSessions DEF AuthAnswer
  <2> QED
    BY <2>2, <2>3
<1>2. ASSUME NEW a \in Accounts, LoginKick(a)
      PROVE  CharInv'
  <2>1. RestOK'
    BY <1>2, CharCodes DEF LoginKick, RestOK, NoNodeC, CharTicket
  <2>2. CASE UNCHANGED <<char_online, char_timers, sess>>
    BY <2>1, <2>2, SameTables, SameSessions
  <2>3. CASE InGame(a) /\ StartWaiting(a) /\ UNCHANGED sess
    BY <2>1, <2>3, StartWaitingOK, SameSessions
  <2>4. CASE /\ UNCHANGED <<char_online, char_timers>>
             /\ \E fd \in Claims(a) : sess' = [sess EXCEPT ![fd].eof = TRUE]
    <3> PICK fd \in Claims(a) : sess' = [sess EXCEPT ![fd].eof = TRUE]
      BY <2>4
    <3>1. fd \in Fds
      BY DEF Claims
    <3>2. SessOK' /\ SessionsKept
      BY <3>1 DEF CharInv, SessOK, Session, SessionsKept
    <3> QED
      BY <2>1, <2>4, <3>2, SameTables
  <2>5. CASE SetCharOffline(a, NoChar) /\ UNCHANGED sess
    <3>1. NoChar \in Chars \cup {NoChar}
      OBVIOUS
    <3> QED
      BY <2>1, <2>5, <3>1, SetCharOfflineOK, SameSessions
  <2> QED
    BY <1>2, <2>2, <2>3, <2>4, <2>5 DEF LoginKick
<1>3. ASSUME SendAccounts \/ LoginLinkUp \/ LoginLinkLost \/ LoginRetryFails
      PROVE  CharInv'
  <2>1. UNCHANGED <<char_online, char_timers, sess>> /\ RestOK'
    BY <1>3 DEF SendAccounts, LoginLinkUp, LoginLinkLost, LoginRetryFails, RestOK
  <2> QED
    BY <2>1, SameTables, SameSessions
<1> QED
  BY <1>1, <1>2, <1>3 DEF LoginStep

LEMMA MapStepOK == CharInv /\ MapStep => CharInv'
<1> SUFFICES ASSUME CharInv, NEW m \in Maps,
                    \/ \E a \in Accounts : \E ch \in Chars :
                         \/ MapAuthStandalone(m, a, ch)
                         \/ MapSave(m, a, ch)
                         \/ MapFinalSave(m, a, ch)
                         \/ MapSetOffline(m, a, ch)
                         \/ MapSetOnline(m, a, ch)
                         \/ MapRegistry(m, a, ch)
                         \/ \E id \in LoginIds :
                              \/ MapAuth(m, a, ch, id)
                              \/ \E n \in Maps : MapChange(m, a, ch, id, n)
                    \/ \E a \in Accounts, id \in LoginIds : MapCharSelect(m, a, id)
                    \/ \E S \in SUBSET Accounts : \E who \in [S -> Chars] :
                         MapUsers(m, who)
                    \/ MapAllOffline(m) \/ MapConnects(m) \/ MapDisconnects(m)
             PROVE  CharInv'
  BY DEF MapStep
<1> USE CharInvParts
\* A character is put on m, with or without using up the account's ticket.
<1>1. ASSUME NEW a \in Accounts, NEW ch \in Chars, SetCharOnline(a, m, ch),
             char_auth' \in {char_auth, [char_auth EXCEPT ![a] = NoNodeC]},
             UNCHANGED <<sess, login_fd, map_fd>>
      PROVE  CharInv'
  <2>1. RestOK'
    BY <1>1, CharCodes DEF RestOK, NoNodeC, CharTicket
  <2> QED
    BY <1>1, <2>1, SetCharOnlineOK, SameSessions
<1>2. ASSUME NEW a \in Accounts, NEW ch \in Chars, SetCharOffline(a, ch),
             UNCHANGED <<char_auth, sess, login_fd, map_fd>>
      PROVE  CharInv'
  <2>1. RestOK' /\ ch \in Chars \cup {NoChar}
    BY <1>2, CharCodes DEF RestOK
  <2> QED
    BY <1>2, <2>1, SetCharOfflineOK, SameSessions
<1>3. ASSUME UNCHANGED <<char_online, char_timers, sess>>, RestOK'
      PROVE  CharInv'
  BY <1>3, SameTables, SameSessions
<1>4. ASSUME NEW a \in Accounts, NEW ch \in Chars, NEW id \in LoginIds,
             NEW n \in Maps, MapChange(m, a, ch, id, n)
      PROVE  CharInv'
  <2>1. RestOK' /\ UNCHANGED <<sess, char_timers>>
    <3>1. /\ UNCHANGED <<sess, char_timers, login_fd, map_fd>>
          /\ \/ char_auth' = char_auth
             \/ char_auth' = [char_auth EXCEPT ![a] =
                                 [login_id |-> id, char_id |-> ch]]
      BY <1>4 DEF MapChange, FromMap
    <3>2. [login_id |-> id, char_id |-> ch] \in CharTicket
      BY CharCodes DEF CharTicket
    <3> QED
      BY <3>1, <3>2 DEF RestOK
  <2>2. CASE map_fd[n]
    <3> DEFINE e == Ensured(a)
               r == [e EXCEPT !.char_id = ch, !.server = n]
    <3>1. /\ RecordOK(a, e) /\ e.fd \in {NoFd, char_online[a].fd}
          /\ e.waiting = char_online[a].waiting
      BY EnsuredLemma DEF CharInv
    <3>2. char_online' = [char_online EXCEPT ![a] = r]
      BY <1>4, <2>2 DEF MapChange
    <3> HIDE DEF e
    <3>3. RecordOK(a, r) /\ r.fd = e.fd /\ r.waiting = e.waiting
      BY <3>1, CharCodes DEF RecordOK, OnlineRecord
    <3> HIDE DEF r
    <3>4. RecordsOK'
      BY <3>2, <3>3 DEF CharInv, RecordsOK, RecordOK
    <3>5. \A b \in Accounts : /\ char_online'[b].waiting = char_online[b].waiting
                            /\ char_online'[b].fd \in {NoFd, char_online[b].fd}
      BY <3>1, <3>2, <3>3 DEF CharInv, RecordsOK
    <3> QED
      BY <2>1, <3>4, <3>5, MovedRecords, SameSessions
  <2>3. CASE ~map_fd[n]
    <3>1. UNCHANGED char_online
      BY <1>4, <2>3 DEF MapChange
    <3> QED
      BY <1>3, <2>1, <3>1
  <2> QED
    BY <2>2, <2>3
<1>5. ASSUME NEW a \in Accounts, NEW id \in LoginIds, MapCharSelect(m, a, id)
      PROVE  CharInv'
  <2> DEFINE e == Ensured(a)
  <2>1. RecordOK(a, e) /\ e.fd \in {NoFd, char_online[a].fd}
    BY EnsuredLemma DEF CharInv
  <2>2. SetCharSelect(a, e) /\ UNCHANGED sess
    BY <1>5 DEF MapCharSelect
  <2>3. RestOK'
    BY <1>5 DEF MapCharSelect, FromMap, RestOK, CharTicket
  <2> HIDE DEF e
  <2> QED
    BY <2>1, <2>2, <2>3, SetCharSelectOK, SameSessions
<1>6. ASSUME NEW S \in SUBSET Accounts, NEW who \in [S -> Chars],
             MapUsers(m, who)
      PROVE  CharInv'
  <2>1. RestOK' /\ UNCHANGED <<sess, char_timers>>
    BY <1>6 DEF MapUsers, FromMap, RestOK
  <2>2. ASSUME NEW a \in Accounts
        PROVE  /\ RecordOK(a, char_online'[a])
               /\ char_online'[a].waiting = char_online[a].waiting
               /\ char_online'[a].fd \in {NoFd, char_online[a].fd}
    <3>1. CASE a \in S
      <4> DEFINE e == Ensured(a)
      <4>1. char_online'[a] = [e EXCEPT !.server = m, !.char_id = who[a]]
        BY <1>6, <3>1 DEF MapUsers
      <4>2. /\ RecordOK(a, e) /\ e.fd \in {NoFd, char_online[a].fd}
            /\ e.waiting = char_online[a].waiting
        BY EnsuredLemma DEF CharInv
      <4>3. who[a] \in Chars
        BY <1>6, <3>1
      <4> HIDE DEF e
      <4> QED
        BY <4>1, <4>2, <4>3, CharCodes DEF RecordOK, OnlineRecord
    <3>2. CASE a \notin S
      <4>1. char_online'[a] = LostFrom(m, char_online[a])
        BY <1>6, <3>2 DEF MapUsers
      <4>2. RecordOK(a, char_online[a])
        BY DEF CharInv, RecordsOK
      <4> QED
        BY <4>1, <4>2, RecordLemma
    <3> QED
      BY <3>1, <3>2
  <2>3. RecordsOK'
    BY <1>6, <2>2 DEF MapUsers, RecordsOK, RecordOK
  <2> QED
    BY <2>1, <2>2, <2>3, MovedRecords, SameSessions
<1>7. ASSUME MapDisconnects(m)
      PROVE  CharInv'
  <2>1. RestOK' /\ UNCHANGED <<sess, char_timers>>
    BY <1>7 DEF MapDisconnects, RestOK
  <2>2. \A a \in Accounts : /\ char_online'[a] = LostFrom(m, char_online[a])
                           /\ RecordOK(a, char_online[a])
    BY <1>7 DEF MapDisconnects, CharInv, RecordsOK
  <2>3. \A a \in Accounts : /\ RecordOK(a, char_online'[a])
                           /\ char_online'[a].waiting = char_online[a].waiting
                           /\ char_online'[a].fd \in {NoFd, char_online[a].fd}
    BY <2>2, RecordLemma
  <2>4. RecordsOK'
    BY <1>7, <2>3 DEF MapDisconnects, RecordsOK, RecordOK
  <2> QED
    BY <2>1, <2>3, <2>4, MovedRecords, SameSessions
<1>8. ASSUME MapAllOffline(m) \/ MapConnects(m)
      PROVE  CharInv'
  <2>1. UNCHANGED <<char_online, char_timers, sess>> /\ RestOK'
    BY <1>8 DEF MapAllOffline, MapConnects, FromMap, RestOK
  <2> QED
    BY <1>3, <2>1
<1>9. ASSUME NEW a \in Accounts, NEW ch \in Chars, NEW id \in LoginIds,
             MapAuth(m, a, ch, id)
      PROVE  CharInv'
  <2>1. CASE MapAuthOk(m, a, ch, id)
    BY <1>1, <2>1 DEF MapAuthOk, FromMap
  <2>2. CASE MapAuthFailed(m, a, ch, id)
    BY <1>3, <2>2 DEF MapAuthFailed, FromMap, RestOK
  <2>3. CASE MapAuthNotLoaded(m, a, ch, id)
    BY <1>3, <2>3 DEF MapAuthNotLoaded, FromMap, RestOK
  <2> QED
    BY <1>9, <2>1, <2>2, <2>3 DEF MapAuth
<1>10. ASSUME NEW a \in Accounts, NEW ch \in Chars,
              \/ MapAuthStandalone(m, a, ch)
              \/ MapSave(m, a, ch)
              \/ MapFinalSave(m, a, ch)
              \/ MapSetOffline(m, a, ch)
              \/ MapSetOnline(m, a, ch)
              \/ MapRegistry(m, a, ch)
       PROVE  CharInv'
  <2>1. CASE MapAuthStandalone(m, a, ch)
    BY <1>1, <2>1 DEF MapAuthStandalone, FromMap
  <2>2. CASE MapSave(m, a, ch)
    BY <1>1, <1>3, <2>2 DEF MapSave, FromMap, RestOK
  <2>3. CASE MapFinalSave(m, a, ch)
    BY <1>2, <2>3 DEF MapFinalSave, FromMap
  <2>4. CASE MapSetOffline(m, a, ch)
    BY <1>2, <2>4 DEF MapSetOffline, FromMap
  <2>5. CASE MapSetOnline(m, a, ch)
    BY <1>1, <2>5 DEF MapSetOnline, FromMap
  <2>6. CASE MapRegistry(m, a, ch)
    BY <1>3, <2>6 DEF MapRegistry, FromMap, RestOK
  <2> QED
    BY <1>10, <2>1, <2>2, <2>3, <2>4, <2>5, <2>6
<1> QED
  BY <1>4, <1>5, <1>6, <1>7, <1>8, <1>9, <1>10

LEMMA CharTimerStepOK == CharInv /\ CharTimerStep => CharInv'
<1> SUFFICES ASSUME CharInv, CharTimerStep PROVE CharInv'
  OBVIOUS
<1> USE CharInvParts
<1>1. ASSUME NEW t \in CharTids, CharWaitingDisconnect(t)
      PROVE  CharInv'
  <2> DEFINE a == char_timers[t]
  <2>1. a \in Accounts /\ RestOK' /\ UNCHANGED sess
    BY <1>1 DEF CharWaitingDisconnect, CharInv, RestOK
  <2>2. /\ char_online[a].waiting = t /\ RecordOK(a, char_online[a])
        /\ char_online[a].char_id \in Chars \cup {NoChar}
    BY <2>1 DEF CharInv, CharTimersMatch, RecordsOK, RecordOK, OnlineRecord
  <2>3. Present(a)
    BY <2>2, CharCodes DEF RecordOK, Present
  <2>4. SetCharOffline(a, char_online[a].char_id)
    BY <1>1, <2>2, <2>3 DEF CharWaitingDisconnect
  <2> HIDE DEF a
  <2> QED
    BY <2>1, <2>2, <2>4, SetCharOfflineOK, SameSessions
<1>2. ASSUME CharCleanup
      PROVE  CharInv'
  <2>1. RestOK' /\ UNCHANGED sess
    BY <1>2 DEF CharCleanup, RestOK
  <2>2. \A a \in Accounts :
          char_online'[a] = IF a \in Idle THEN Nobody ELSE char_online[a]
    BY <1>2 DEF CharCleanup
  <2>3. RecordsOK'
    BY <1>2, <2>2, RecordLemma DEF CharCleanup, CharInv, RecordsOK, RecordOK
  <2>4. /\ LostIdle \in SUBSET Accounts
        /\ \A a \in LostIdle : char_online'[a].waiting = INVALID_TIMER
        /\ \A a \in Accounts \ LostIdle :
              char_online'[a].waiting = char_online[a].waiting
    <3>1. LostIdle \in SUBSET Accounts /\ LostIdle \subseteq Idle
      BY DEF LostIdle, Idle
    <3>2. \A a \in Accounts : a \in Idle \ LostIdle =>
             char_online[a].waiting = INVALID_TIMER
      <4> SUFFICES ASSUME NEW a \in Accounts, a \in Idle \ LostIdle
                   PROVE  char_online[a].waiting = INVALID_TIMER
        OBVIOUS
      <4>1. char_online[a].server = AtCharList
        BY CharCodes DEF Idle, LostIdle, Present, InGame, CharInv, RecordsOK,
                         OnlineRecord
      <4> QED
        BY <4>1 DEF CharInv, RecordsOK, RecordOK
    <3> QED
      BY <2>2, <3>1, <3>2 DEF Nobody
  <2>5. char_timers' = CharCancelled(LostIdle)
    BY <1>2 DEF CharCleanup
  <2>6. /\ CharTimersMatch'
        /\ char_timers' \in [CharTids -> Accounts \cup {NoAccount}]
    BY <2>3, <2>4, <2>5, CancelLemma
  <2>7. \A a \in Accounts : char_online'[a].fd \in {NoFd, char_online[a].fd}
    BY <2>2 DEF Nobody
  <2>8. FdIsTheirs'
    BY <2>1, <2>3, <2>7, KeepFdsLemma, SameSessions DEF SessionsKept
  <2> QED
    BY <2>1, <2>3, <2>6, <2>8, SameSessions DEF TablesOK
<1> QED
  BY <1>1, <1>2 DEF CharTimerStep

LEMMA CharInitOK == CharInit => CharInv
<1> SUFFICES ASSUME CharInit PROVE CharInv
  OBVIOUS
<1>1. Nobody \in OnlineRecord /\ Closed \in Session /\ NoNodeC \in CharTicket
  BY DEF Nobody, Closed, NoNodeC, OnlineRecord, Session, CharTicket
<1>2. RecordsOK
  BY <1>1, CharCodes DEF CharInit, RecordsOK, RecordOK, Nobody
<1>3. SessOK
  BY <1>1 DEF CharInit, SessOK, Closed
<1>4. CharTimersMatch /\ FdIsTheirs
  BY CharCodes, AccountsAssumption DEF CharInit, CharTimersMatch, FdIsTheirs, Nobody
<1> QED
  BY <1>1, <1>2, <1>3, <1>4 DEF CharInv, CharInit

\* The queues aside, a step changes nothing if it changes none of these.
record_vars == <<char_online, char_auth, char_timers, sess, login_fd, map_fd>>

LEMMA CharStepOK == CharInv /\ (CharNext \/ UNCHANGED record_vars) => CharInv'
<1>1. CharInv /\ UNCHANGED record_vars => CharInv'
  BY DEF record_vars, CharInv, RecordsOK, RecordOK, SessOK, CharTimersMatch, FdIsTheirs
<1> QED
  BY <1>1, ClientStepOK, LoginStepOK, MapStepOK, CharTimerStepOK DEF CharNext

----------------------------------------------------------------------------
(* What is written to the links *)

QueuesOK == /\ toLogin \in Seq(LoginPacket)
            /\ toMap \in [Maps -> Seq(MapPacket)]

\* The accounts of a set can be visited one after another.
LEMMA ListedOK ==
  ASSUME NEW S \in SUBSET Accounts
  PROVE  Cardinality(S) \in Nat /\ Listed(S) \in [1..Cardinality(S) -> S]
<1>1. IsFiniteSet(S)
  BY AccountsAssumption, FS_Subset
<1>2. Cardinality(S) \in Nat /\ ExistsBijection(1..Cardinality(S), S)
  BY <1>1, FS_CardinalityType
<1>3. \E q \in [1..Cardinality(S) -> S] :
         \A a \in S : \E i \in 1..Cardinality(S) : q[i] = a
  BY <1>2 DEF ExistsBijection, Bijection, Injection, Surjection
<1> QED
  BY <1>2, <1>3 DEF Listed

LEMMA ListedAll ==
  ASSUME NEW S \in SUBSET Accounts, NEW a \in S
  PROVE  \E i \in 1..Cardinality(S) : Listed(S)[i] = a
<1>1. ExistsBijection(1..Cardinality(S), S)
  BY AccountsAssumption, FS_Subset, FS_CardinalityType
<1>2. \E q \in [1..Cardinality(S) -> S] :
         \A b \in S : \E i \in 1..Cardinality(S) : q[i] = b
  BY <1>1 DEF ExistsBijection, Bijection, Injection, Surjection
<1> QED
  BY <1>2 DEF Listed

LEMMA PacketsOK ==
  ASSUME NEW a \in Accounts
  PROVE  /\ Say("online", a) \in LoginPacket /\ Say("offline", a) \in LoginPacket
         /\ Say("kick", a) \in MapPacket
         /\ \A ch, r : OfflineNotice(a, ch, r) \in Seq(LoginPacket)
<1>1. /\ Say("online", a) \in LoginPacket /\ Say("offline", a) \in LoginPacket
      /\ Say("kick", a) \in MapPacket
  BY DEF Say, LoginPacket, MapPacket
<1> QED
  BY <1>1 DEF OfflineNotice

LEMMA SayEachOK ==
  ASSUME NEW S \in SUBSET Accounts
  PROVE  /\ SayEach("offline", S) \in Seq(LoginPacket)
         /\ SayEach("kick", S) \in Seq(MapPacket)
<1> DEFINE n == Cardinality(S)
<1>1. n \in Nat /\ \A i \in 1..n : Listed(S)[i] \in Accounts
  BY ListedOK
<1>2. \A i \in 1..n : /\ Say("offline", Listed(S)[i]) \in LoginPacket
                      /\ Say("kick", Listed(S)[i]) \in MapPacket
  BY <1>1, PacketsOK
<1> HIDE DEF n
<1>3. /\ [i \in 1..n |-> Say("offline", Listed(S)[i])] \in Seq(LoginPacket)
      /\ [i \in 1..n |-> Say("kick", Listed(S)[i])] \in Seq(MapPacket)
  BY <1>1, <1>2
<1> QED
  BY <1>3 DEF SayEach, n

LEMMA TellOK ==
  ASSUME QueuesOK, NEW s \in Seq(LoginPacket), Tell(s)
  PROVE  toLogin' \in Seq(LoginPacket)
<1>1. toLogin \in Seq(LoginPacket)
  BY DEF QueuesOK
<1>2. toLogin \o s \in Seq(LoginPacket)
  BY <1>1
<1> QED
  BY <1>1, <1>2 DEF Tell

\* A packet appended to the queue of m.
LEMMA AnswerOK ==
  ASSUME NEW box \in [Maps -> Seq(MapPacket)], NEW p \in MapPacket, NEW m \in Maps
  PROVE  [box EXCEPT ![m] = Append(@, p)] \in [Maps -> Seq(MapPacket)]
<1>1. Append(box[m], p) \in Seq(MapPacket)
  OBVIOUS
<1> QED
  BY <1>1

LEMMA KicksOK ==
  ASSUME QueuesOK, NEW a \in Accounts
  PROVE  /\ KickedFrom(a) \in [Maps -> Seq(MapPacket)]
         /\ \A m : KickOther(a, m) \in [Maps -> Seq(MapPacket)]
<1> DEFINE m == char_online[a].server
           box == [toMap EXCEPT ![m] = Append(@, Kick(a))]
<1>1. toMap \in [Maps -> Seq(MapPacket)] /\ Kick(a) \in MapPacket
  BY PacketsOK DEF QueuesOK, Kick
<1>2. CASE m \in Maps
  <2>1. box \in [Maps -> Seq(MapPacket)]
    BY <1>1, <1>2, AnswerOK
  <2> QED
    BY <1>1, <2>1 DEF KickedFrom, KickOther
<1>3. CASE m \notin Maps
  <2>1. box = toMap
    BY <1>1, <1>3
  <2> QED
    BY <1>1, <2>1 DEF KickedFrom, KickOther
<1> QED
  BY <1>2, <1>3

LEMMA KickAllOK ==
  ASSUME QueuesOK, NEW S \in SUBSET Accounts, KickAll(S)
  PROVE  toMap' \in [Maps -> Seq(MapPacket)]
<1>1. ASSUME NEW n \in Maps
      PROVE  toMap[n] \o SayEach("kick", {a \in S : char_online[a].server = n})
               \in Seq(MapPacket)
  <2>1. SayEach("kick", {a \in S : char_online[a].server = n}) \in Seq(MapPacket)
    BY SayEachOK
  <2> QED
    BY <2>1 DEF QueuesOK
<1> QED
  BY <1>1 DEF KickAll, QueuesOK

\* The login server hears what a handler tells it about account a.
LEMMA ToldOK ==
  ASSUME QueuesOK, NEW a \in Accounts,
         \/ UNCHANGED toLogin
         \/ Tell(<<Say("online", a)>>)
         \/ Tell(<<Say("offline", a)>>)
         \/ \E m, ch : SetCharOnline(a, m, ch)
         \/ \E ch : SetCharOffline(a, ch)
  PROVE  toLogin' \in Seq(LoginPacket)
<1>1. /\ <<Say("online", a)>> \in Seq(LoginPacket)
      /\ <<Say("offline", a)>> \in Seq(LoginPacket)
      /\ \A ch, r : OfflineNotice(a, ch, r) \in Seq(LoginPacket)
  BY PacketsOK
<1>2. CASE UNCHANGED toLogin
  BY <1>2 DEF QueuesOK
<1>3. CASE \E s \in Seq(LoginPacket) : Tell(s)
  BY <1>3, TellOK
<1> QED
  BY <1>1, <1>2, <1>3 DEF SetCharOnline, SetCharOffline

LEMMA AuthOkQueues ==
  ASSUME QueuesOK, NEW a \in Accounts, NEW fd, NEW s, AuthOk(fd, a, s)
  PROVE  QueuesOK'
<1>1. /\ \/ UNCHANGED toLogin
         \/ Tell(<<Say("online", a)>>)
      /\ UNCHANGED toMap \/ toMap' = KickedFrom(a)
  BY DEF AuthOk, AuthInGame, AuthTaken, AuthGranted
<1>2. toLogin' \in Seq(LoginPacket)
  BY <1>1, ToldOK
<1>3. toMap' \in [Maps -> Seq(MapPacket)]
  BY <1>1, KicksOK DEF QueuesOK
<1> QED
  BY <1>2, <1>3 DEF QueuesOK

LEMMA ClientStepQueues == CharInv /\ QueuesOK /\ ClientStep => QueuesOK'
<1> SUFFICES ASSUME CharInv, QueuesOK, ClientStep PROVE QueuesOK'
  OBVIOUS
<1>1. ASSUME NEW fd \in Fds, NEW a \in Accounts, NEW id \in LoginIds,
             CharConnect(fd, a, id)
      PROVE  QueuesOK'
  <2>1. CASE ConnectWithTicket(fd, a, id)
    BY <2>1, AuthOkQueues DEF ConnectWithTicket
  <2>2. CASE ConnectFromLogin(fd, a, id)
    <3>1. [cmd |-> "auth", aid |-> a, login_id |-> id, fd |-> fd] \in LoginPacket
      BY DEF LoginPacket
    <3>2. <<[cmd |-> "auth", aid |-> a, login_id |-> id, fd |-> fd]>>
             \in Seq(LoginPacket)
      BY <3>1
    <3>3. toLogin' \in Seq(LoginPacket)
      BY <2>2, <3>2, TellOK DEF ConnectFromLogin
    <3> QED
      BY <2>2, <3>3 DEF ConnectFromLogin, QueuesOK
  <2> QED
    BY <1>1, <2>1, <2>2 DEF CharConnect
<1>2. ASSUME NEW fd \in Fds, NEW ch \in Chars, CharSelect(fd, ch)
      PROVE  QueuesOK'
  <2> DEFINE a == sess[fd].aid
  <2>1. a \in Accounts /\ toMap' = KickOther(a, Elsewhere)
    BY <1>2 DEF CharSelect, SelectOk, SelectNotLoaded, SelectNoMap, Playable,
                CharInv, SessOK
  <2>2. \/ SetCharOnline(a, Elsewhere, ch)
        \/ \E r : Tell(<<Say("online", a)>> \o OfflineNotice(a, ch, r))
    BY <1>2 DEF CharSelect, SelectOk, SelectNotLoaded, SelectNoMap
  <2> HIDE DEF a
  <2>3. \A r : <<Say("online", a)>> \o OfflineNotice(a, ch, r) \in Seq(LoginPacket)
    <3>1. /\ <<Say("online", a)>> \in Seq(LoginPacket)
          /\ \A r : OfflineNotice(a, ch, r) \in Seq(LoginPacket)
      BY <2>1, PacketsOK
    <3> QED
      BY <3>1
  <2>4. toLogin' \in Seq(LoginPacket)
    BY <2>1, <2>2, <2>3, ToldOK, TellOK
  <2> QED
    BY <2>1, <2>4, KicksOK DEF QueuesOK
<1>3. ASSUME NEW fd \in Fds, CloseSession(fd)
      PROVE  QueuesOK'
  <2>1. CASE UNCHANGED toLogin
    BY <1>3, <2>1 DEF CloseSession, QueuesOK
  <2>2. CASE sess[fd].auth /\ Tell(<<Say("offline", sess[fd].aid)>>)
    <3>1. sess[fd].aid \in Accounts
      BY <2>2 DEF CharInv, SessOK
    <3>2. toLogin' \in Seq(LoginPacket)
      BY <2>2, <3>1, ToldOK
    <3> QED
      BY <1>3, <3>2 DEF CloseSession, QueuesOK
  <2> QED
    BY <1>3, <2>1, <2>2 DEF CloseSession
<1> QED
  BY <1>1, <1>2, <1>3 DEF ClientStep

LEMMA LoginStepQueues == CharInv /\ QueuesOK /\ LoginStep => QueuesOK'
<1> SUFFICES ASSUME CharInv, QueuesOK, LoginStep PROVE QueuesOK'
  OBVIOUS
<1>1. ASSUME NEW fd \in Fds, NEW a \in Accounts, NEW id \in LoginIds,
             NEW ok \in BOOLEAN, AuthAnswer(fd, a, id, ok)
      PROVE  QueuesOK'
  <2>1. CASE ok /\ Asked(fd, a, id)
    <3>1. sess[fd].aid = a
      BY <2>1 DEF Asked, Claim
    <3> QED
      BY <1>1, <2>1, <3>1, AuthOkQueues DEF AuthAnswer
  <2>2. CASE ~(ok /\ Asked(fd, a, id))
    BY <1>1, <2>2 DEF AuthAnswer, QueuesOK
  <2> QED
    BY <2>1, <2>2
<1>2. ASSUME NEW a \in Accounts, LoginKick(a)
      PROVE  QueuesOK'
  <2>1. /\ UNCHANGED toLogin \/ SetCharOffline(a, NoChar)
        /\ UNCHANGED toMap \/ toMap' = KickedFrom(a)
    BY <1>2 DEF LoginKick
  <2>2. toLogin' \in Seq(LoginPacket)
    BY <2>1, ToldOK
  <2> QED
    BY <2>1, <2>2, KicksOK DEF QueuesOK
<1>3. ASSUME SendAccounts
      PROVE  QueuesOK'
  <2> DEFINE p == [cmd |-> "list", accounts |-> {a \in Accounts : InGame(a)}]
  <2>1. p \in LoginPacket
    BY DEF LoginPacket
  <2>2. Tell(<<p>>) /\ UNCHANGED toMap
    BY <1>3 DEF SendAccounts
  <2> HIDE DEF p
  <2>3. <<p>> \in Seq(LoginPacket)
    BY <2>1
  <2>4. toLogin' \in Seq(LoginPacket)
    BY <2>2, <2>3, TellOK
  <2> QED
    BY <2>2, <2>4 DEF QueuesOK
<1>4. ASSUME LoginLinkUp \/ LoginLinkLost \/ LoginRetryFails
      PROVE  QueuesOK'
  <2>1. toLogin' \in {toLogin, <<>>} /\ UNCHANGED toMap
    BY <1>4 DEF LoginLinkUp, LoginLinkLost, LoginRetryFails
  <2>2. <<>> \in Seq(LoginPacket)
    OBVIOUS
  <2> QED
    BY <2>1, <2>2 DEF QueuesOK
<1> QED
  BY <1>1, <1>2, <1>3, <1>4 DEF LoginStep

LEMMA MapStepQueues == CharInv /\ QueuesOK /\ MapStep => QueuesOK'
<1> SUFFICES ASSUME CharInv, QueuesOK, MapStep PROVE QueuesOK'
  OBVIOUS
\* Packets about one account, answered on the spot.
<1>1. ASSUME NEW m \in Maps, NEW a \in Accounts, NEW ch \in Chars,
             NEW id \in {0} \cup LoginIds, NEW n \in Maps,
             \/ MapAuthStandalone(m, a, ch) \/ MapSave(m, a, ch)
             \/ MapFinalSave(m, a, ch) \/ MapSetOffline(m, a, ch)
             \/ MapSetOnline(m, a, ch) \/ MapRegistry(m, a, ch)
             \/ MapAuth(m, a, ch, id) \/ MapChange(m, a, ch, id, n)
      PROVE  QueuesOK'
  <2>1. \/ UNCHANGED toLogin
        \/ \E k, c : SetCharOnline(a, k, c)
        \/ \E c : SetCharOffline(a, c)
    BY <1>1 DEF MapAuthStandalone, MapSave, MapFinalSave, MapSetOffline,
                MapSetOnline, MapRegistry, MapAuth, MapAuthOk, MapAuthFailed,
                MapAuthNotLoaded, MapChange
  <2>2. toLogin' \in Seq(LoginPacket)
    BY <2>1, ToldOK
  <2> DEFINE reply(c) == [cmd |-> c, aid |-> a, char_id |-> ch]
             change   == [cmd |-> "change_ack", aid |-> a, ok |-> map_fd[n]]
  <2>3. /\ \A c \in {"save_ack", "registry"} : reply(c) \in MapPacket
        /\ \A c \in {"auth_ok", "auth_fail"}, i \in {0, id} :
              AuthReply(c, a, ch, i) \in MapPacket
        /\ change \in MapPacket
    BY CharCodes DEF MapPacket, CharInv, AuthReply
  <2>4. \/ toMap' = toMap
        \/ toMap' = KickOther(a, m)
        \/ \E c \in {"save_ack", "registry"} : Answer(toMap, m, reply(c))
        \/ \E c \in {"auth_ok", "auth_fail"}, i \in {0, id} :
              \/ Answer(toMap, m, AuthReply(c, a, ch, i))
              \/ Answer(KickOther(a, m), m, AuthReply(c, a, ch, i))
        \/ Answer(toMap, m, change)
    BY <1>1 DEF MapAuthStandalone, MapSave, MapFinalSave, MapSetOffline,
                MapSetOnline, MapRegistry, MapAuth, MapAuthOk, MapAuthFailed,
                MapAuthNotLoaded, MapChange
  <2>5. {toMap, KickOther(a, m)} \subseteq [Maps -> Seq(MapPacket)]
    BY KicksOK DEF QueuesOK
  <2> HIDE DEF reply, change
  <2>6. \A box \in {toMap, KickOther(a, m)}, p \in MapPacket :
          Answer(box, m, p) => toMap' \in [Maps -> Seq(MapPacket)]
    BY <2>5, AnswerOK DEF Answer
  <2>7. toMap' \in [Maps -> Seq(MapPacket)]
    BY <2>3, <2>4, <2>5, <2>6
  <2> QED
    BY <2>2, <2>7 DEF QueuesOK
<1>2. ASSUME NEW m \in Maps, NEW a \in Accounts, NEW id \in LoginIds,
             MapCharSelect(m, a, id)
      PROVE  QueuesOK'
  <2>1. [cmd |-> "select_ack", aid |-> a, ok |-> TRUE] \in MapPacket
    BY DEF MapPacket
  <2>2. toLogin' \in Seq(LoginPacket)
    BY <1>2, ToldOK DEF MapCharSelect
  <2>3. toMap' \in [Maps -> Seq(MapPacket)]
    BY <1>2, <2>1, AnswerOK DEF MapCharSelect, Answer, QueuesOK
  <2> QED
    BY <2>2, <2>3 DEF QueuesOK
<1>3. ASSUME NEW m \in Maps, NEW S \in SUBSET Accounts, NEW who \in [S -> Chars],
             MapUsers(m, who)
      PROVE  QueuesOK'
  <2>1. /\ KickAll({a \in S : InGame(a) /\ char_online[a].server # m})
        /\ UNCHANGED toLogin
    BY <1>3 DEF MapUsers
  <2>2. {a \in S : InGame(a) /\ char_online[a].server # m} \in SUBSET Accounts
    OBVIOUS
  <2> QED
    BY <2>1, <2>2, KickAllOK DEF QueuesOK
<1>4. ASSUME NEW m \in Maps, MapAllOffline(m)
      PROVE  QueuesOK'
  <2>1. {a \in Accounts : char_online[a].server = m} \in SUBSET Accounts
    OBVIOUS
  <2> QED
    BY <1>4, <2>1, KickAllOK DEF MapAllOffline, QueuesOK
<1>5. ASSUME NEW m \in Maps, MapConnects(m) \/ MapDisconnects(m)
      PROVE  QueuesOK'
  <2>1. UNCHANGED toLogin /\ toMap' \in {toMap, [toMap EXCEPT ![m] = <<>>]}
    BY <1>5 DEF MapConnects, MapDisconnects
  <2>2. <<>> \in Seq(MapPacket)
    OBVIOUS
  <2>3. [toMap EXCEPT ![m] = <<>>] \in [Maps -> Seq(MapPacket)]
    BY <2>2 DEF QueuesOK
  <2> QED
    BY <2>1, <2>3 DEF QueuesOK
<1> QED
  BY <1>1, <1>2, <1>3, <1>4, <1>5 DEF MapStep

LEMMA CharTimerStepQueues == CharInv /\ QueuesOK /\ CharTimerStep => QueuesOK'
<1> SUFFICES ASSUME CharInv, QueuesOK, CharTimerStep PROVE QueuesOK'
  OBVIOUS
<1>1. ASSUME NEW t \in CharTids, CharWaitingDisconnect(t)
      PROVE  QueuesOK'
  <2> DEFINE a == char_timers[t]
  <2>1. a \in Accounts /\ UNCHANGED toMap
    BY <1>1 DEF CharWaitingDisconnect, CharInv
  <2>2. UNCHANGED toLogin \/ \E ch : SetCharOffline(a, ch)
    BY <1>1 DEF CharWaitingDisconnect
  <2> HIDE DEF a
  <2> QED
    BY <2>1, <2>2, ToldOK DEF QueuesOK
<1>2. ASSUME CharCleanup
      PROVE  QueuesOK'
  <2>1. SayEach("offline", LostIdle) \in Seq(LoginPacket)
    BY SayEachOK DEF LostIdle, Idle
  <2>2. toLogin' \in Seq(LoginPacket)
    BY <1>2, <2>1, TellOK DEF CharCleanup
  <2> QED
    BY <1>2, <2>2 DEF CharCleanup, QueuesOK
<1> QED
  BY <1>1, <1>2 DEF CharTimerStep

LEMMA QueuesStep == CharInv /\ QueuesOK /\ [CharNext]_char_vars => QueuesOK'
<1>1. QueuesOK /\ UNCHANGED char_vars => QueuesOK'
  BY DEF QueuesOK, char_vars
<1> QED
  BY <1>1, ClientStepQueues, LoginStepQueues, MapStepQueues, CharTimerStepQueues
     DEF CharNext

\* Every variable keeps its type: records, tickets and sessions name accounts,
\* characters and sockets there are, and every packet is one the other side can
\* read (char_parse_char, char_parse_frommap, char_parse_fromlogin).
THEOREM CharTypes == CharSpec => []CharTypeOK
<1>1. CharInit => CharInv /\ QueuesOK
  BY CharInitOK DEF CharInit, QueuesOK
<1>2. CharInv /\ QueuesOK /\ [CharNext]_char_vars => (CharInv /\ QueuesOK)'
  BY CharStepOK, QueuesStep DEF char_vars, record_vars
<1>3. CharInv /\ QueuesOK => CharTypeOK
  BY DEF CharInv, RecordsOK, SessOK, QueuesOK, CharTypeOK
<1> QED
  BY <1>1, <1>2, <1>3, PTL DEF CharSpec

LEMMA CharAlways == CharSpec => []CharInv
<1>1. CharInv /\ [CharNext]_char_vars => CharInv'
  BY CharStepOK DEF char_vars, record_vars
<1> QED
  BY <1>1, CharInitOK, PTL DEF CharSpec

\* A pending timer is the one of the record that names it, and the record names no
\* other (char_auth_ok, char_set_char_online, char_waiting_disconnect).
THEOREM CharTimers == CharSpec => []CharTimersMatch
<1>1. CharInv => CharTimersMatch
  BY DEF CharInv
<1> QED
  BY <1>1, CharAlways, PTL

\* The socket a record holds is a live session of its account (char_auth_ok,
\* char_parse_char).
THEOREM CharFds == CharSpec => []FdIsTheirs
<1>1. CharInv => FdIsTheirs
  BY DEF CharInv
<1> QED
  BY <1>1, CharAlways, PTL

----------------------------------------------------------------------------
(* Accounts that change map servers *)

\* The link to the map server a record names is up.
OnLive == \A a \in Accounts : InGame(a) => map_fd[char_online[a].server]

\* A step tells map server k to drop the player of account a.
Told(a, k) == \E i \in DOMAIN toMap'[k] \ DOMAIN toMap[k] : toMap'[k][i] = Kick(a)

\* The player walks to another map server.
Walks(a) == \E k, n \in Maps, id \in LoginIds, ch \in Chars : MapChange(k, a, ch, id, n)

\* A step leaves a on a map server with a link, if on any, and tells the one it
\* was on.
MovesOK(a) ==
  /\ InGame(a)' => map_fd'[char_online'[a].server]
  /\ \A m \in Maps : /\ char_online[a].server = m
                     /\ InGame(a)' /\ char_online'[a].server # m
                     => Told(a, m) \/ Walks(a)

\* Where the handlers put a record: where it was, nowhere, or where they are told.
LEMMA RecordServers ==
  ASSUME NEW r \in OnlineRecord
  PROVE  /\ AtList(r).server = AtCharList
         /\ \A ch : Left(r, ch).server \in {r.server, AtCharList}
         /\ \A m, ch : On(r, m, ch).server = m
         /\ \A m : LostFrom(m, r).server = IF r.server = m THEN Elsewhere ELSE r.server
<1>1. AtList(r).server = AtCharList
  BY DEF AtList, OnlineRecord
<1>2. \A ch : Left(r, ch).server \in {r.server, AtCharList}
  BY <1>1 DEF Left, OnlineRecord
<1>3. \A m, ch : On(r, m, ch).server = m
  BY DEF On, OnlineRecord
<1>4. \A m : LostFrom(m, r).server = IF r.server = m THEN Elsewhere ELSE r.server
  BY DEF LostFrom, OnlineRecord
<1> QED
  BY <1>1, <1>2, <1>3, <1>4

LEMMA StaysOK ==
  ASSUME CharInv, OnLive, NEW a \in Accounts, UNCHANGED map_fd,
         \/ char_online'[a].server = char_online[a].server
         \/ char_online'[a].server \in {Offline, Elsewhere, AtCharList}
  PROVE  MovesOK(a)
<1>1. InGame(a)' => char_online'[a].server = char_online[a].server /\ InGame(a)
  BY CharCodes DEF InGame
<1> QED
  BY <1>1 DEF MovesOK, OnLive

\* One record is rewritten, and stays where it is or is nowhere.
LEMMA OneStays ==
  ASSUME CharInv, OnLive, NEW a \in Accounts, NEW r, UNCHANGED map_fd,
         char_online' = [char_online EXCEPT ![a] = r],
         r.server \in {char_online[a].server, Offline, Elsewhere, AtCharList},
         NEW b \in Accounts
  PROVE  MovesOK(b)
<1>1. char_online'[b] = IF b = a THEN r ELSE char_online[b]
  BY DEF CharInv, RecordsOK
<1> QED
  BY <1>1, StaysOK

\* char_set_char_online tells the map server that had the account.
LEMMA ConflictTold ==
  ASSUME CharInv, QueuesOK, OnLive, NEW a \in Accounts, NEW k \in Maps, NEW m,
         char_online[a].server = k, k # m,
         \/ toMap' = KickOther(a, m)
         \/ m \in Maps /\ \E p : Answer(KickOther(a, m), m, p)
  PROVE  Told(a, k)
<1>1. InGame(a) /\ map_fd[k]
  BY CharCodes DEF InGame, OnLive
<1>2. Conflict(a, m)
  <2>1. char_online[a].char_id \in Chars
    BY <1>1, CharCodes DEF CharInv, RecordsOK, RecordOK, InGame
  <2> QED
    BY <1>1, <2>1, CharCodes DEF Conflict
<1>3. KickOther(a, m) = [toMap EXCEPT ![k] = Append(@, Kick(a))]
  BY <1>1, <1>2 DEF KickOther, KickedFrom
<1>4. toMap'[k] = Append(toMap[k], Kick(a))
  BY <1>3 DEF Answer, QueuesOK
<1>5. toMap[k] \in Seq(MapPacket) /\ Len(toMap[k]) \in Nat
  BY DEF QueuesOK
<1>6. /\ DOMAIN toMap[k] = 1..Len(toMap[k])
      /\ DOMAIN toMap'[k] = 1..(Len(toMap[k]) + 1)
      /\ toMap'[k][Len(toMap[k]) + 1] = Kick(a)
  <2>1. Kick(a) \in MapPacket
    BY PacketsOK DEF Kick
  <2> QED
    BY <1>4, <1>5, <2>1
<1>7. Len(toMap[k]) + 1 \in DOMAIN toMap'[k] \ DOMAIN toMap[k]
  BY <1>5, <1>6
<1> QED
  BY <1>6, <1>7 DEF Told

LEMMA SetCharOnlineMoves ==
  ASSUME CharInv, QueuesOK, OnLive, UNCHANGED map_fd, NEW a \in Accounts,
         NEW m \in Maps \cup {Elsewhere}, NEW ch \in Chars,
         m \in Maps => map_fd[m],
         SetCharOnline(a, m, ch),
         \/ toMap' = KickOther(a, m)
         \/ m \in Maps /\ \E p : Answer(KickOther(a, m), m, p),
         NEW b \in Accounts
  PROVE  MovesOK(b)
<1>1. Ensured(a) \in OnlineRecord
  BY EnsuredLemma DEF CharInv, RecordOK
<1>2. char_online'[b] = IF b = a THEN On(Ensured(a), m, ch) ELSE char_online[b]
  BY DEF SetCharOnline, CharInv, RecordsOK
<1>3. CASE b # a
  BY <1>2, <1>3, StaysOK
<1>4. CASE b = a
  <2>1. char_online'[a].server = m
    BY <1>1, <1>2, <1>4, RecordServers
  <2>2. InGame(a)' => m \in Maps /\ map_fd'[m]
    BY <2>1, CharCodes DEF InGame
  <2>3. \A k \in Maps : char_online[a].server = k /\ k # m => Told(a, k)
    BY ConflictTold
  <2> QED
    BY <1>4, <2>1, <2>2, <2>3 DEF MovesOK
<1> QED
  BY <1>3, <1>4

\* char_set_char_offline
LEMMA SetCharOfflineMoves ==
  ASSUME CharInv, OnLive, UNCHANGED map_fd, NEW a \in Accounts, NEW ch,
         SetCharOffline(a, ch), NEW b \in Accounts
  PROVE  MovesOK(b)
<1> DEFINE r == Left(char_online[a], ch)
<1>1. /\ char_online' = [char_online EXCEPT ![a] = r]
      /\ r.server \in {char_online[a].server, AtCharList}
  BY RecordServers DEF SetCharOffline, CharInv, RecordsOK
<1> HIDE DEF r
<1> QED
  BY <1>1, OneStays

\* A kicked account stays where it is until it is dropped.
LEMMA StartWaitingMoves ==
  ASSUME CharInv, OnLive, UNCHANGED map_fd, NEW a \in Accounts, StartWaiting(a),
         NEW b \in Accounts
  PROVE  MovesOK(b)
<1>1. CASE UNCHANGED char_online
  BY <1>1, StaysOK
<1>2. ASSUME NEW t \in CharTids, char_online' = [char_online EXCEPT ![a].waiting = t]
      PROVE  MovesOK(b)
  <2>1. char_online'[b].server = char_online[b].server
    BY <1>2 DEF CharInv, RecordsOK, OnlineRecord
  <2> QED
    BY <2>1, StaysOK
<1> QED
  BY <1>1, <1>2 DEF StartWaiting

LEMMA AuthOkMoves ==
  ASSUME CharInv, OnLive, UNCHANGED map_fd, NEW fd \in Fds, NEW a \in Accounts, NEW s,
         AuthOk(fd, a, s), NEW b \in Accounts
  PROVE  MovesOK(b)
<1>1. CASE AuthInGame(fd, a, s)
  BY <1>1, StartWaitingMoves DEF AuthInGame
<1>2. CASE AuthTaken(fd, a, s)
  BY <1>2, StaysOK DEF AuthTaken
<1>3. CASE AuthGranted(fd, a, s)
  <2> DEFINE e == IF Present(a) THEN [char_online[a] EXCEPT !.fd = fd]
                                ELSE Ensured(a)
             r == AtList(e)
  <2>1. e \in OnlineRecord
    BY EnsuredLemma DEF CharInv, RecordsOK, RecordOK, OnlineRecord
  <2>2. char_online' = [char_online EXCEPT ![a] = r]
    BY <1>3 DEF AuthGranted, SetCharSelect
  <2> HIDE DEF e
  <2>3. r.server = AtCharList
    BY <2>1, RecordServers
  <2> HIDE DEF r
  <2> QED
    BY <2>2, <2>3, OneStays
<1> QED
  BY <1>1, <1>2, <1>3 DEF AuthOk

LEMMA ClientStepMoves ==
  ASSUME CharInv, QueuesOK, OnLive, ClientStep, NEW b \in Accounts
  PROVE  MovesOK(b)
<1>0. UNCHANGED map_fd
  BY DEF ClientStep, CharConnect, ConnectWithTicket, ConnectFromLogin, CharSelect,
         SelectOk, SelectNotLoaded, SelectNoMap, CloseSession
<1>1. ASSUME NEW fd \in Fds, NEW a \in Accounts, NEW id \in LoginIds,
             CharConnect(fd, a, id)
      PROVE  MovesOK(b)
  <2>1. CASE ConnectWithTicket(fd, a, id)
    BY <1>0, <2>1, AuthOkMoves DEF ConnectWithTicket
  <2>2. CASE ConnectFromLogin(fd, a, id)
    BY <1>0, <2>2, StaysOK DEF ConnectFromLogin
  <2> QED
    BY <1>1, <2>1, <2>2 DEF CharConnect
<1>2. ASSUME NEW fd \in Fds, NEW ch \in Chars, CharSelect(fd, ch)
      PROVE  MovesOK(b)
  <2> DEFINE a == sess[fd].aid
  <2>1. a \in Accounts /\ ch \in Chars
    BY <1>2 DEF CharSelect, SelectOk, SelectNotLoaded, SelectNoMap, Playable,
                CharInv, SessOK
  <2>2. \/ SetCharOnline(a, Elsewhere, ch) /\ toMap' = KickOther(a, Elsewhere)
        \/ char_online' = [char_online EXCEPT ![a] =
                             Left(On(Ensured(a), Elsewhere, ch), ch)]
    BY <1>2 DEF CharSelect, SelectOk, SelectNotLoaded, SelectNoMap
  <2> HIDE DEF a
  <2>3. CASE SetCharOnline(a, Elsewhere, ch) /\ toMap' = KickOther(a, Elsewhere)
    BY <1>0, <2>1, <2>3, CharCodes, SetCharOnlineMoves
  <2>4. CASE char_online' = [char_online EXCEPT ![a] =
                               Left(On(Ensured(a), Elsewhere, ch), ch)]
    <3> DEFINE o == On(Ensured(a), Elsewhere, ch)
               r == Left(o, ch)
    <3>1. Ensured(a) \in OnlineRecord
      BY <2>1, EnsuredLemma DEF CharInv, RecordOK
    <3>2. o \in OnlineRecord /\ o.server = Elsewhere
      BY <2>1, <3>1, CharCodes DEF On, OnlineRecord
    <3>3. char_online' = [char_online EXCEPT ![a] = r]
      BY <2>4
    <3> HIDE DEF o
    <3>4. r.server \in {Elsewhere, AtCharList}
      BY <3>2, RecordServers
    <3> HIDE DEF r
    <3> QED
      BY <1>0, <2>1, <3>3, <3>4, OneStays
  <2> QED
    BY <2>2, <2>3, <2>4
<1>3. ASSUME NEW fd \in Fds, CloseSession(fd)
      PROVE  MovesOK(b)
  <2>1. char_online'[b].server \in {char_online[b].server, AtCharList}
    <3>1. CASE UNCHANGED char_online
      BY <3>1
    <3>2. ASSUME NEW a, NEW r \in OnlineRecord, r.server = char_online[a].server,
                 \/ char_online' = [char_online EXCEPT ![a] = r]
                 \/ char_online' = [char_online EXCEPT ![a] = Left(r, NoChar)]
          PROVE  char_online'[b].server \in {char_online[b].server, AtCharList}
      BY <3>2, RecordServers DEF CharInv, RecordsOK
    <3>3. CASE sess[fd].auth
      <4> DEFINE a == sess[fd].aid
                 r == IF char_online[a].fd = fd
                      THEN [char_online[a] EXCEPT !.fd = NoFd] ELSE char_online[a]
      <4>1. a \in Accounts /\ char_online[a] \in OnlineRecord
        BY <3>3 DEF CharInv, SessOK, RecordsOK
      <4>2. r \in OnlineRecord /\ r.server = char_online[a].server
        BY <4>1 DEF OnlineRecord
      <4>3. \/ char_online' = [char_online EXCEPT ![a] = r]
            \/ char_online' = [char_online EXCEPT ![a] = Left(r, NoChar)]
        BY <1>3, <3>3 DEF CloseSession
      <4> HIDE DEF r, a
      <4> QED
        BY <3>2, <4>2, <4>3
    <3> QED
      BY <1>3, <3>1, <3>3 DEF CloseSession
  <2> QED
    BY <1>0, <2>1, StaysOK
<1> QED
  BY <1>1, <1>2, <1>3 DEF ClientStep

LEMMA LoginStepMoves ==
  ASSUME CharInv, QueuesOK, OnLive, LoginStep, NEW b \in Accounts
  PROVE  MovesOK(b)
<1>0. UNCHANGED map_fd
  BY DEF LoginStep, AuthAnswer, LoginKick, SendAccounts, LoginLinkUp, LoginLinkLost,
         LoginRetryFails
<1>1. ASSUME NEW fd \in Fds, NEW a \in Accounts, NEW id \in LoginIds,
             NEW ok \in BOOLEAN, AuthAnswer(fd, a, id, ok)
      PROVE  MovesOK(b)
  <2>1. CASE UNCHANGED char_online
    BY <1>0, <2>1, StaysOK
  <2>2. CASE Asked(fd, a, id) /\ AuthOk(fd, sess[fd].aid, sess[fd])
    <3>1. sess[fd].aid = a
      BY <2>2 DEF Asked, Claim
    <3>2. AuthOk(fd, a, sess[fd])
      BY <2>2, <3>1
    <3> QED
      BY <1>0, <3>2, AuthOkMoves
  <2> QED
    BY <1>1, <2>1, <2>2 DEF AuthAnswer
<1>2. ASSUME NEW a \in Accounts, LoginKick(a)
      PROVE  MovesOK(b)
  <2>1. CASE UNCHANGED char_online
    BY <1>0, <2>1, StaysOK
  <2> QED
    BY <1>0, <1>2, <2>1, StartWaitingMoves, SetCharOfflineMoves DEF LoginKick
<1>3. ASSUME SendAccounts \/ LoginLinkUp \/ LoginLinkLost \/ LoginRetryFails
      PROVE  MovesOK(b)
  BY <1>0, <1>3, StaysOK DEF SendAccounts, LoginLinkUp, LoginLinkLost, LoginRetryFails
<1> QED
  BY <1>1, <1>2, <1>3 DEF LoginStep

\* The list of a map server's players: whoever was elsewhere is told of.
LEMMA MapUsersMoves ==
  ASSUME CharInv, QueuesOK, OnLive, NEW m \in Maps, NEW S \in SUBSET Accounts,
         NEW who \in [S -> Chars], MapUsers(m, who), NEW b \in Accounts
  PROVE  MovesOK(b)
<1>0. UNCHANGED map_fd /\ map_fd[m] /\ DOMAIN who = S
  BY DEF MapUsers, FromMap
<1>1. CASE b \notin S
  <2>1. char_online'[b] = LostFrom(m, char_online[b])
    BY <1>1 DEF MapUsers
  <2>2. char_online'[b].server \in {char_online[b].server, Elsewhere}
    BY <2>1, RecordServers DEF CharInv, RecordsOK
  <2> QED
    BY <1>0, <2>2, StaysOK
<1>2. CASE b \in S
  <2>1. char_online'[b].server = m
    <3>1. Ensured(b) \in OnlineRecord
      BY EnsuredLemma DEF CharInv, RecordOK
    <3>2. char_online'[b] = [Ensured(b) EXCEPT !.server = m, !.char_id = who[b]]
      BY <1>2 DEF MapUsers
    <3> QED
      BY <3>1, <3>2 DEF OnlineRecord
  <2>2. ASSUME NEW k \in Maps, char_online[b].server = k, k # m
        PROVE  Told(b, k)
    <3> DEFINE K == {a \in S : InGame(a) /\ char_online[a].server # m}
               R == {a \in K : char_online[a].server = k}
               q == SayEach("kick", R)
               n == Cardinality(R)
    <3>1. b \in R /\ R \in SUBSET Accounts
      BY <1>2, <2>2, CharCodes DEF InGame
    <3>2. map_fd[k]
      BY <2>2, CharCodes DEF OnLive, InGame
    <3>3. toMap'[k] = toMap[k] \o q
      BY <3>2 DEF MapUsers, KickAll
    <3> HIDE DEF R
    <3>4. PICK j \in 1..n : q[j] = Kick(b)
      <4>1. PICK i \in 1..n : Listed(R)[i] = b
        BY <3>1, ListedAll
      <4> QED
        BY <4>1 DEF SayEach, Kick
    <3>5. q \in Seq(MapPacket) /\ Len(q) = n /\ n \in Nat
      <4>1. n \in Nat
        BY <3>1, ListedOK
      <4>2. q \in Seq(MapPacket)
        BY <3>1, SayEachOK
      <4>3. DOMAIN q = 1..n
        BY DEF SayEach
      <4> QED
        BY <4>1, <4>2, <4>3
    <3> HIDE DEF q, n
    <3>6. toMap[k] \in Seq(MapPacket) /\ Len(toMap[k]) \in Nat
      BY DEF QueuesOK
    <3>7. /\ Len(toMap[k]) + j \in DOMAIN toMap'[k] \ DOMAIN toMap[k]
          /\ toMap'[k][Len(toMap[k]) + j] = Kick(b)
      <4> DEFINE old == toMap[k]
      <4>1. old \in Seq(MapPacket) /\ Len(old) \in Nat /\ toMap'[k] = old \o q
        BY <3>3, <3>6
      <4> HIDE DEF old
      <4>2. /\ old \o q \in Seq(MapPacket)
            /\ Len(old \o q) = Len(old) + Len(q)
            /\ \A i \in 1..(Len(old) + Len(q)) :
                 (old \o q)[i] = IF i <= Len(old) THEN old[i] ELSE q[i - Len(old)]
        BY <3>5, <4>1, ConcatProperties
      <4>3. (old \o q)[Len(old) + j] = q[j]
        BY <3>5, <4>1, <4>2
      <4>4. DOMAIN (old \o q) = 1..(Len(old) + n) /\ DOMAIN old = 1..Len(old)
        BY <3>5, <4>1, <4>2, LenProperties
      <4>5. Len(old) + j \in 1..(Len(old) + n) /\ Len(old) + j \notin 1..Len(old)
        BY <3>5, <4>1
      <4> QED
        BY <3>4, <4>1, <4>3, <4>4, <4>5 DEF old
    <3> QED
      BY <3>7 DEF Told
  <2> QED
    BY <1>0, <2>1, <2>2 DEF MovesOK
<1> QED
  BY <1>1, <1>2

LEMMA MapStepMoves ==
  ASSUME CharInv, QueuesOK, OnLive, MapStep, NEW b \in Accounts
  PROVE  MovesOK(b)
<1>1. ASSUME NEW m \in Maps, NEW a \in Accounts, NEW ch \in Chars,
             \/ MapAuthStandalone(m, a, ch)
             \/ \E id \in LoginIds : MapAuth(m, a, ch, id)
             \/ MapSave(m, a, ch) \/ MapFinalSave(m, a, ch)
             \/ MapSetOffline(m, a, ch) \/ MapSetOnline(m, a, ch)
             \/ MapRegistry(m, a, ch)
      PROVE  MovesOK(b)
  <2>0. UNCHANGED map_fd /\ map_fd[m]
    BY <1>1 DEF MapAuthStandalone, MapAuth, MapAuthOk, MapAuthFailed,
                MapAuthNotLoaded, MapSave,
                MapFinalSave, MapSetOffline, MapSetOnline, MapRegistry, FromMap
  <2>1. CASE UNCHANGED char_online
    BY <2>0, <2>1, StaysOK
  <2>2. CASE SetCharOffline(a, ch)
    BY <2>0, <2>2, SetCharOfflineMoves
  <2>3. CASE /\ SetCharOnline(a, m, ch)
             /\ toMap' = KickOther(a, m) \/ \E p : Answer(KickOther(a, m), m, p)
    BY <2>0, <2>3, SetCharOnlineMoves
  <2> QED
    BY <1>1, <2>1, <2>2, <2>3
       DEF MapAuthStandalone, MapAuth, MapAuthOk, MapAuthFailed,
                MapAuthNotLoaded, MapSave,
           MapFinalSave, MapSetOffline, MapSetOnline, MapRegistry
<1>2. ASSUME NEW m \in Maps, NEW a \in Accounts, NEW ch \in Chars,
             NEW id \in LoginIds, NEW n \in Maps, MapChange(m, a, ch, id, n)
      PROVE  MovesOK(b)
  <2>0. UNCHANGED map_fd
    BY <1>2 DEF MapChange, FromMap
  <2>1. CASE UNCHANGED char_online
    BY <2>0, <2>1, StaysOK
  <2>2. CASE /\ map_fd[n]
             /\ char_online' = [char_online EXCEPT ![a] =
                                  [Ensured(a) EXCEPT !.char_id = ch, !.server = n]]
    <3>1. Ensured(a) \in OnlineRecord
      BY EnsuredLemma DEF CharInv, RecordOK
    <3>2. CASE b # a
      <4>1. char_online'[b] = char_online[b]
        BY <2>2, <3>2 DEF CharInv, RecordsOK
      <4> QED
        BY <2>0, <4>1, StaysOK
    <3>3. CASE b = a
      <4>1. char_online'[a].server = n
        BY <2>2, <3>1 DEF CharInv, RecordsOK, OnlineRecord
      <4>2. Walks(a)
        <5>1. ch \in Chars
          BY CharCodes
        <5> QED
          BY <1>2, <5>1 DEF Walks
      <4> QED
        BY <2>0, <2>2, <3>3, <4>1, <4>2 DEF MovesOK
    <3> QED
      BY <3>2, <3>3
  <2> QED
    BY <1>2, <2>1, <2>2 DEF MapChange
<1>3. ASSUME NEW m \in Maps, NEW a \in Accounts, NEW id \in LoginIds,
             MapCharSelect(m, a, id)
      PROVE  MovesOK(b)
  <2> DEFINE r == AtList(Ensured(a))
  <2>1. char_online' = [char_online EXCEPT ![a] = r] /\ UNCHANGED map_fd
    BY <1>3 DEF MapCharSelect, SetCharSelect, FromMap
  <2>2. r.server = AtCharList
    <3>1. Ensured(a) \in OnlineRecord
      BY EnsuredLemma DEF CharInv, RecordOK
    <3> QED
      BY <3>1, RecordServers
  <2> HIDE DEF r
  <2> QED
    BY <2>1, <2>2, OneStays
<1>4. ASSUME NEW m \in Maps, MapAllOffline(m)
      PROVE  MovesOK(b)
  BY <1>4, StaysOK DEF MapAllOffline, FromMap
<1>5. ASSUME NEW m \in Maps, MapConnects(m)
      PROVE  MovesOK(b)
  <2>1. /\ UNCHANGED char_online
        /\ \A k \in Maps : map_fd[k] => map_fd'[k]
    BY <1>5 DEF MapConnects, CharInv
  <2>2. InGame(b) => char_online[b].server \in Maps
    BY CharCodes DEF CharInv, RecordsOK, OnlineRecord, InGame
  <2> QED
    BY <2>1, <2>2 DEF MovesOK, OnLive, InGame
<1>6. ASSUME NEW m \in Maps, MapDisconnects(m)
      PROVE  MovesOK(b)
  <2>1. char_online'[b].server = IF char_online[b].server = m THEN Elsewhere
                                                             ELSE char_online[b].server
    BY <1>6, RecordServers DEF MapDisconnects, CharInv, RecordsOK
  <2>2. InGame(b)' => /\ InGame(b) /\ char_online'[b].server = char_online[b].server
                      /\ char_online[b].server \in Maps \ {m}
    BY <2>1, CharCodes DEF InGame, CharInv, RecordsOK, OnlineRecord
  <2> QED
    BY <1>6, <2>2 DEF MovesOK, OnLive, MapDisconnects, CharInv
<1> QED
  BY <1>1, <1>2, <1>3, <1>4, <1>5, <1>6, MapUsersMoves DEF MapStep

LEMMA CharTimerStepMoves ==
  ASSUME CharInv, OnLive, CharTimerStep, NEW b \in Accounts
  PROVE  MovesOK(b)
<1>0. UNCHANGED map_fd
  BY DEF CharTimerStep, CharWaitingDisconnect, CharCleanup
<1>1. ASSUME NEW t \in CharTids, CharWaitingDisconnect(t)
      PROVE  MovesOK(b)
  <2>1. char_timers[t] \in Accounts
    BY <1>1 DEF CharWaitingDisconnect, CharInv
  <2> QED
    BY <1>0, <1>1, <2>1, StaysOK, SetCharOfflineMoves DEF CharWaitingDisconnect
<1>2. ASSUME CharCleanup
      PROVE  MovesOK(b)
  <2>1. char_online'[b] \in {Nobody, char_online[b]}
    BY <1>2 DEF CharCleanup
  <2> QED
    BY <1>0, <2>1, StaysOK DEF Nobody
<1> QED
  BY <1>1, <1>2 DEF CharTimerStep

\* No account goes from one map server to another unnoticed.
LEMMA StepMoves ==
  ASSUME CharInv, QueuesOK, OnLive, CharNext
  PROVE  OnLive' /\ \A a \in Accounts : MovesOK(a)
<1>1. \A a \in Accounts : MovesOK(a)
  BY ClientStepMoves, LoginStepMoves, MapStepMoves, CharTimerStepMoves DEF CharNext
<1> QED
  BY <1>1 DEF MovesOK, OnLive

\* A map server is told to drop a player whom another one is given, over a link
\* that is up, unless he walked there: the record it was in names a server whose
\* link is up, and KickOther and KickAll write to it (char_set_char_online,
\* char_parse_frommap_set_users).
THEOREM CharTellsOld == CharSpec => OldServerTold
<1>1. CharInit => OnLive
  BY CharCodes DEF CharInit, OnLive, InGame, Nobody
<1>2. CharInv /\ QueuesOK /\ OnLive /\ [CharNext]_char_vars => OnLive'
  <2>1. OnLive /\ UNCHANGED char_vars => OnLive'
    BY DEF OnLive, InGame, char_vars
  <2> QED
    BY <2>1, StepMoves
<1>3. CharInv /\ QueuesOK /\ OnLive /\ [CharNext]_char_vars =>
      [\A a \in Accounts : \A m \in Maps :
       /\ char_online[a].server = m
       /\ InGame(a)' /\ char_online'[a].server # m
       /\ ~ \E k, n \in Maps, id \in LoginIds, ch \in Chars :
              MapChange(k, a, ch, id, n)
       => \E i \in DOMAIN toMap'[m] \ DOMAIN toMap[m] : toMap'[m][i] = Kick(a)
      ]_char_vars
  BY StepMoves DEF MovesOK, Told, Walks
<1>4. CharSpec => [](CharInv /\ QueuesOK)
  <2>1. CharInit => CharInv /\ QueuesOK
    BY CharInitOK DEF CharInit, QueuesOK
  <2>2. CharInv /\ QueuesOK /\ [CharNext]_char_vars => (CharInv /\ QueuesOK)'
    BY CharStepOK, QueuesStep DEF char_vars, record_vars
  <2> QED
    BY <2>1, <2>2, PTL DEF CharSpec
<1> QED
  BY <1>1, <1>2, <1>3, <1>4, PTL DEF CharSpec, OldServerTold

=============================================================================
