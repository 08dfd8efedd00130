--------------------------- MODULE RollbackProofs ---------------------------
(***************************************************************************)
(* The char server does not lose what a player did: NoRollback of CharMap, *)
(* for any number of accounts, characters, map servers, links that break   *)
(* and are made again, and packets under way, while clients are patient.   *)
(*                                                                         *)
(* CharMapProofs says which kinds of packets may follow each other; here   *)
(* the invariant says what the saves among them hold.  The saves of one    *)
(* session are a growing trail behind which nobody is loaded; a character  *)
(* that is not split is on one server, and everything there - sessions,    *)
(* saves and data under way - has what the char server has.                *)
(***************************************************************************)
EXTENDS CharMapProofs

Saves(p, a)  == p.cmd = "save" /\ p.aid = a
NoSave(f, a) == \A i \in 1..Len(f) : ~Saves(f[i], a)

\* An answer is under way that lets a in.
Admits(t, a) == \E i \in 1..Len(t) : Kind(t[i], a) \in Entry

\* Save p holds no more than data, for the same character.
Older(p, ch, data) == p.char_id = ch /\ p.data \subseteq data

\* The saves of a in box f, whose session is r: each is older than the next, and
\* than the session.  Nobody is loaded, or about to be, before they are stored.
Trail(f, t, a, r) ==
  /\ \A i, j \in 1..Len(f) : i < j /\ Saves(f[i], a) /\ Saves(f[j], a) =>
       Older(f[i], f[j].char_id, f[j].data)
  /\ r.st \in {"world", "logout"} =>
       \A i \in 1..Len(f) : Saves(f[i], a) => Older(f[i], r.ch, r.data)
  /\ r.st = "loaded" => NoSave(f, a)
  /\ r.st \in {"none", "login"} =>
       /\ \A i, j \in 1..Len(f) : i < j /\ Kind(f[i], a) \in Entry => ~Saves(f[j], a)
       /\ Admits(t, a) => NoSave(f, a)

----------------------------------------------------------------------------
(* What reading and writing a packet does to a trail *)

\* Box g is box f with packets behind it that do not save a.
Unsaved(f, g, a) ==
  /\ Len(f) <= Len(g)
  /\ \A i \in 1..Len(f) : g[i] = f[i]
  /\ \A i \in (Len(f) + 1)..Len(g) : ~Saves(g[i], a)

LEMMA TrailGoesOn ==
  ASSUME NEW S, NEW f \in Seq(S), NEW g \in Seq(S), NEW t, NEW u, NEW a, NEW r,
         Unsaved(f, g, a), Admits(u, a) => Admits(t, a), Trail(f, t, a, r)
  PROVE  Trail(g, u, a, r)
<1>1. Len(f) \in Nat /\ Len(g) \in Nat
  OBVIOUS
<1>2. ASSUME NEW i \in 1..Len(g), Saves(g[i], a)
      PROVE  i \in 1..Len(f) /\ g[i] = f[i] /\ Saves(f[i], a)
  <2>1. i \notin (Len(f) + 1)..Len(g)
    BY <1>2 DEF Unsaved
  <2>2. i \in 1..Len(f)
    BY <1>1, <2>1
  <2> QED
    BY <1>2, <2>2 DEF Unsaved
<1>3. NoSave(f, a) => NoSave(g, a)
  BY <1>2 DEF NoSave
<1>4. ASSUME NEW i \in 1..Len(g), NEW j \in 1..Len(g), i < j, Saves(g[j], a)
      PROVE  /\ i \in 1..Len(f) /\ g[i] = f[i]
             /\ j \in 1..Len(f) /\ g[j] = f[j] /\ Saves(f[j], a)
  <2>1. j \in 1..Len(f) /\ g[j] = f[j] /\ Saves(f[j], a)
    BY <1>2, <1>4
  <2>2. i \in 1..Len(f)
    BY <1>1, <1>4, <2>1
  <2> QED
    BY <2>1, <2>2 DEF Unsaved
<1>5. \A i, j \in 1..Len(g) : i < j /\ Saves(g[i], a) /\ Saves(g[j], a) =>
        Older(g[i], g[j].char_id, g[j].data)
  BY <1>4 DEF Trail
<1>6. r.st \in {"world", "logout"} =>
        \A i \in 1..Len(g) : Saves(g[i], a) => Older(g[i], r.ch, r.data)
  BY <1>2 DEF Trail
<1>7. r.st \in {"none", "login"} =>
        \A i, j \in 1..Len(g) : i < j /\ Kind(g[i], a) \in Entry => ~Saves(g[j], a)
  BY <1>4 DEF Trail
<1> QED
  BY <1>3, <1>5, <1>6, <1>7 DEF Trail

LEMMA UnsavedSame ==
  ASSUME NEW S, NEW f \in Seq(S), NEW a
  PROVE  Unsaved(f, f, a)
  BY DEF Unsaved

LEMMA UnsavedAppend ==
  ASSUME NEW S, NEW f \in Seq(S), NEW a, NEW p \in S, ~Saves(p, a)
  PROVE  Unsaved(f, Append(f, p), a)
  BY DEF Unsaved

\* What session r holds is saved.
LEMMA TrailSaved ==
  ASSUME NEW S, NEW f \in Seq(S), NEW t, NEW a, NEW r, NEW p \in S,
         r.st \in {"world", "logout"}, Trail(f, t, a, r),
         p.char_id = r.ch, p.data = r.data
  PROVE  Trail(Append(f, p), t, a, r)
<1> DEFINE g == Append(f, p)
<1>1. /\ Len(f) \in Nat /\ Len(g) = Len(f) + 1
      /\ \A i \in 1..Len(f) : g[i] = f[i]
      /\ g[Len(f) + 1] = p
  OBVIOUS
<1> HIDE DEF g
<1>2. ASSUME NEW i \in 1..Len(g), Saves(g[i], a)
      PROVE  Older(g[i], r.ch, r.data)
  <2>1. CASE i \in 1..Len(f)
    BY <1>1, <1>2, <2>1 DEF Trail
  <2>2. CASE i = Len(f) + 1
    BY <1>1, <2>2 DEF Older
  <2> QED
    BY <1>1, <2>1, <2>2
<1>3. ASSUME NEW i \in 1..Len(g), NEW j \in 1..Len(g), i < j,
             Saves(g[i], a), Saves(g[j], a)
      PROVE  Older(g[i], g[j].char_id, g[j].data)
  <2>1. CASE j \in 1..Len(f)
    <3>1. i \in 1..Len(f)
      BY <1>1, <1>3, <2>1
    <3> QED
      BY <1>1, <1>3, <2>1, <3>1 DEF Trail
  <2>2. CASE j = Len(f) + 1
    BY <1>1, <1>2, <1>3, <2>2
  <2> QED
    BY <1>1, <2>1, <2>2
<1>4. Trail(g, t, a, r)
  BY <1>2, <1>3 DEF Trail
<1> QED
  BY <1>4 DEF g

\* The char server reads a packet, and may answer it.
LEMMA TrailRead ==
  ASSUME NEW S, NEW f \in Seq(S), NEW t, NEW u, NEW a, NEW r, f # <<>>,
         Admits(u, a) => Admits(t, a) \/ Kind(Head(f), a) \in Entry,
         Trail(f, t, a, r)
  PROVE  Trail(Tail(f), u, a, r)
<1> DEFINE g == Tail(f)
<1>1. /\ Len(f) \in Nat /\ 1 \in 1..Len(f) /\ Head(f) = f[1]
      /\ \A i \in 1..Len(g) : i + 1 \in 1..Len(f) /\ g[i] = f[i + 1] /\ 1 < i + 1
  BY HeadTailProperties
<1>2. \A i, j \in 1..Len(g) : i < j => i + 1 < j + 1
  OBVIOUS
<1> HIDE DEF g
<1>3. NoSave(f, a) => NoSave(g, a)
  BY <1>1 DEF NoSave
<1>4. \A i, j \in 1..Len(g) : i < j /\ Saves(g[i], a) /\ Saves(g[j], a) =>
        Older(g[i], g[j].char_id, g[j].data)
  BY <1>1, <1>2 DEF Trail
<1>5. r.st \in {"world", "logout"} =>
        \A i \in 1..Len(g) : Saves(g[i], a) => Older(g[i], r.ch, r.data)
  BY <1>1 DEF Trail
<1>6. r.st \in {"none", "login"} =>
        \A i, j \in 1..Len(g) : i < j /\ Kind(g[i], a) \in Entry => ~Saves(g[j], a)
  BY <1>1, <1>2 DEF Trail
<1>7. r.st \in {"none", "login"} /\ Admits(u, a) => NoSave(g, a)
  <2>1. CASE Admits(t, a)
    BY <1>3, <2>1 DEF Trail
  <2>2. CASE Kind(Head(f), a) \in Entry
    BY <1>1, <2>2 DEF Trail, NoSave
  <2> QED
    BY <2>1, <2>2
<1>8. Trail(g, u, a, r)
  BY <1>3, <1>4, <1>5, <1>6, <1>7 DEF Trail
<1> QED
  BY <1>8 DEF g

\* What may become of session r, with boxes f and t, without a save of another
\* session in the way of the next.
Goes(f, t, a, r, q) ==
  /\ q.st \in {"none", "login"} =>
       r.st \in {"none", "login", "loaded"} \/ Silent(Entry, f, t, a)
  /\ q.st = "loaded" => r.st = "loaded" \/ (r.st = "login" /\ Admits(t, a))
  /\ q.st \in {"world", "logout"} =>
       \/ r.st = "loaded"
       \/ /\ r.st \in {"world", "logout"} /\ q.ch = r.ch
          /\ r.data \subseteq q.data

LEMMA TrailOfNext ==
  ASSUME NEW f, NEW t, NEW a, NEW r, NEW q, q.st \in Stages,
         Goes(f, t, a, r, q), Trail(f, t, a, r)
  PROVE  Trail(f, t, a, q)
<1>1. CASE q.st \in {"none", "login"}
  <2>1. CASE r.st \in {"none", "login"}
    BY <1>1, <2>1 DEF Trail
  <2>2. CASE r.st = "loaded"
    BY <1>1, <2>2 DEF Trail, NoSave
  <2>3. CASE Silent(Entry, f, t, a)
    BY <1>1, <2>3 DEF Trail, Silent, Admits
  <2> QED
    BY <1>1, <2>1, <2>2, <2>3 DEF Goes
<1>2. CASE q.st = "loaded"
  <2>1. NoSave(f, a)
    BY <1>2 DEF Goes, Trail
  <2> QED
    BY <1>2, <2>1 DEF Trail, NoSave
<1>3. CASE q.st \in {"world", "logout"}
  <2>1. CASE r.st = "loaded"
    BY <1>3, <2>1 DEF Trail, NoSave
  <2>2. CASE /\ r.st \in {"world", "logout"} /\ q.ch = r.ch
             /\ r.data \subseteq q.data
    BY <1>3, <2>2 DEF Trail, Older
  <2> QED
    BY <1>3, <2>1, <2>2 DEF Goes
<1> QED
  BY <1>1, <1>2, <1>3 DEF Stages

\* A new box, in which the saves of a are those of his session.
LEMMA TrailAnew ==
  ASSUME NEW f, NEW a, NEW r,
         \A i \in 1..Len(f) : Saves(f[i], a) =>
           /\ r.st = "logout"
           /\ f[i].char_id = r.ch /\ f[i].data = r.data
  PROVE  Trail(f, <<>>, a, r)
  BY DEF Trail, NoSave, Admits, Older

----------------------------------------------------------------------------
(* The invariant *)

InUse  == {"loaded", "world", "logout"}
\* The data of character ch is in answers t.
Brings(t, ch) == \E i \in 1..Len(t) : t[i].cmd = "auth_ok" /\ t[i].char_id = ch

\* The char server has nothing of ch that data lacks, unless ch is split.
Full(ch, data) == ch \notin split => db[ch] \subseteq data

TrailOK  == \A m \in Maps, a \in Accounts :
              Trail(fromMap[m], Coming(m), a, pl[m][a])
SingleOK == \A m, n \in Maps : \A ch \in Chars \ split :
              Has(m, ch) /\ Has(n, ch) => m = n
HeldOK   == \A m \in Maps, a \in Accounts :
              pl[m][a].st \in InUse => Full(pl[m][a].ch, pl[m][a].data)
SavedOK  == \A m \in Maps : \A i \in 1..Len(fromMap[m]) :
              LET p == fromMap[m][i] IN
              p.cmd = "save" => Full(p.char_id, p.data)

\* Answers with data that server m may let somebody in with.
Good(m)  == {x \in Anything :
               /\ x[1].char_id \in CharsOf[x[1].aid]
               /\ pl[m][x[1].aid].st \in {"none", "login", "loaded"} =>
                    Full(x[1].char_id, x[2])}
LoadsOK  == \A m \in Maps : map_fd[m] => Carries(toMap[m], cargo[m], Good(m))

RollOK  == TrailOK /\ SingleOK /\ HeldOK /\ SavedOK /\ LoadsOK
RollInv == CharMapInv /\ RollOK

\* Who has a character, in the words of the invariant.
LEMMA Haves ==
  ASSUME CharMapInv, NEW m \in Maps, NEW ch
  PROVE  Has(m, ch) <=>
           \/ \E a \in Accounts : pl[m][a].st \in InUse /\ pl[m][a].ch = ch
           \/ Brings(Coming(m), ch)
           \/ \E i \in 1..Len(fromMap[m]) : /\ fromMap[m][i].cmd = "save"
                                            /\ fromMap[m][i].char_id = ch
<1>1. toMap[m] \in Seq(MapPacket) /\ fromMap[m] \in Seq(MapsPacket)
  BY InvTypes
<1>2. /\ DOMAIN toMap[m] = 1..Len(toMap[m]) /\ DOMAIN fromMap[m] = 1..Len(fromMap[m])
  BY <1>1
<1>3. 1..Len(<<>>) = {}
  OBVIOUS
<1>4. Brings(Coming(m), ch) <=>
        \E i \in DOMAIN toMap[m] : /\ map_fd[m] /\ toMap[m][i].cmd = "auth_ok"
                                   /\ toMap[m][i].char_id = ch
  BY <1>2, <1>3 DEF Brings, Coming
<1> QED
  BY <1>2, <1>4 DEF Has, InUse

LEMMA HavesNext ==
  ASSUME CharMapInv', NEW m \in Maps, NEW ch
  PROVE  Has(m, ch)' <=>
           \/ \E a \in Accounts : pl'[m][a].st \in InUse /\ pl'[m][a].ch = ch
           \/ Brings(Coming(m)', ch)
           \/ \E i \in 1..Len(fromMap'[m]) : /\ fromMap'[m][i].cmd = "save"
                                             /\ fromMap'[m][i].char_id = ch
<1>1. toMap'[m] \in Seq(MapPacket) /\ fromMap'[m] \in Seq(MapsPacket)
  BY DEF CharMapInv, TablesInv, QueuesOK, BoxesOK
<1>2. /\ DOMAIN toMap'[m] = 1..Len(toMap'[m])
      /\ DOMAIN fromMap'[m] = 1..Len(fromMap'[m])
  BY <1>1
<1>3. 1..Len(<<>>) = {}
  OBVIOUS
<1>4. Brings(Coming(m)', ch) <=>
        \E i \in DOMAIN toMap'[m] : /\ map_fd'[m] /\ toMap'[m][i].cmd = "auth_ok"
                                    /\ toMap'[m][i].char_id = ch
  BY <1>2, <1>3 DEF Brings, Coming
<1> QED
  BY <1>2, <1>4 DEF Has, InUse

\* While no server gets a character it did not have, and no split ends, every
\* character stays where it is.
LEMMA StaysSingle ==
  ASSUME SingleOK, UNCHANGED split,
         \A n \in Maps, ch \in Chars : Has(n, ch)' => Has(n, ch)
  PROVE  SingleOK'
<1> SUFFICES ASSUME NEW m \in Maps, NEW n \in Maps, NEW ch \in Chars \ split',
                    Has(m, ch)', Has(n, ch)'
             PROVE  m = n
  BY DEF SingleOK
<1> QED
  BY DEF SingleOK

----------------------------------------------------------------------------
(* Steps of a map server *)

\* Session a of m becomes q, and p, if it is written, saves what he has.
SavesHim(r, q, a, p) ==
  p.cmd = "save" =>
    /\ p.aid = a /\ r.st \in {"world", "logout"} /\ q.st \in {"world", "logout"}
    /\ p.char_id = q.ch /\ p.data = q.data
    /\ q.ch = r.ch /\ q.data = r.data

\* Session a of m may become q.
Steps(m, a, q) ==
  /\ Goes(fromMap[m], Coming(m), a, pl[m][a], q)
  /\ q.st \in InUse => Full(q.ch, q.data) /\ Has(m, q.ch)

LEMMA SessionRolls ==
  ASSUME RollInv, CharMapInv', NEW m \in Maps, NEW a \in Accounts, NEW q \in Player,
         pl'[m][a] = q,
         \A n \in Maps, b \in Accounts : <<n, b>> # <<m, a>> => pl'[n][b] = pl[n][b],
         UNCHANGED <<db, split, map_fd>>,
         \A n \in Maps \ {m} : fromMap'[n] = fromMap[n] /\ Coming(n)' = Coming(n),
         \/ fromMap'[m] = fromMap[m]
         \/ \E p \in MapsPacket : /\ fromMap'[m] = Append(fromMap[m], p)
                                  /\ SavesHim(pl[m][a], q, a, p),
         \A b \in Accounts : Admits(Coming(m)', b) => Admits(Coming(m), b),
         \A ch : Brings(Coming(m)', ch) => Brings(Coming(m), ch),
         \A n \in Maps : map_fd[n] => Carries(toMap'[n], cargo'[n], Good(n)),
         Steps(m, a, q)
  PROVE  RollOK'
<1> USE DEF Steps
<1> DEFINE r == pl[m][a]
           f == fromMap[m]
<1>1. /\ TrailOK /\ SingleOK /\ HeldOK /\ SavedOK /\ LoadsOK
      /\ \A n \in Maps : fromMap[n] \in Seq(MapsPacket) /\ r.st \in Stages
      /\ q.st \in Stages
  BY InvTypes DEF RollInv, RollOK, Player
<1>2. TrailOK'
  <2> SUFFICES ASSUME NEW n \in Maps, NEW b \in Accounts
               PROVE  Trail(fromMap'[n], Coming(n)', b, pl'[n][b])
    BY DEF TrailOK
  <2>0. Trail(fromMap[n], Coming(n), b, pl[n][b]) /\ f \in Seq(MapsPacket)
    BY <1>1 DEF TrailOK
  <2>1. CASE n # m
    BY <2>0, <2>1
  <2>2. CASE n = m /\ b # a
    <3>1. Trail(f, Coming(m), b, pl'[m][b])
      BY <2>0, <2>2
    <3>2. Unsaved(f, fromMap'[m], b) /\ fromMap'[m] \in Seq(MapsPacket)
      <4>1. CASE fromMap'[m] = f
        BY <2>0, <4>1, UnsavedSame
      <4>2. ASSUME NEW p \in MapsPacket, fromMap'[m] = Append(f, p), SavesHim(r, q, a, p)
            PROVE  Unsaved(f, fromMap'[m], b) /\ fromMap'[m] \in Seq(MapsPacket)
        <5>1. ~Saves(p, b)
          BY <2>2, <4>2 DEF SavesHim, Saves
        <5> QED
          BY <2>0, <4>2, <5>1, UnsavedAppend
      <4> QED
        BY <4>1, <4>2
    <3> QED
      BY <2>0, <2>2, <3>1, <3>2, TrailGoesOn
  <2>3. CASE n = m /\ b = a
    <3>1. Trail(f, Coming(m), a, q)
      BY <1>1, <2>0, <2>3, TrailOfNext
    <3>2. CASE fromMap'[m] = f
      <4>1. Unsaved(f, f, a)
        BY <2>0, UnsavedSame
      <4> QED
        BY <2>0, <2>3, <3>1, <3>2, <4>1, TrailGoesOn
    <3>3. ASSUME NEW p \in MapsPacket, fromMap'[m] = Append(f, p), SavesHim(r, q, a, p)
          PROVE  Trail(fromMap'[m], Coming(m)', a, q)
      <4> DEFINE g == Append(f, p)
      <4>1. g \in Seq(MapsPacket)
        BY <2>0
      <4>2. CASE Saves(p, a)
        <5>1. Trail(g, Coming(m), a, q)
          BY <2>0, <3>1, <3>3, <4>2, TrailSaved DEF SavesHim, Saves
        <5>2. Unsaved(g, g, a)
          BY <4>1, UnsavedSame
        <5> HIDE DEF g
        <5>3. Trail(g, Coming(m)', a, q)
          BY <4>1, <5>1, <5>2, TrailGoesOn
        <5> QED
          BY <3>3, <5>3 DEF g
      <4>3. CASE ~Saves(p, a)
        <5>1. Unsaved(f, g, a)
          BY <2>0, <4>3, UnsavedAppend
        <5> HIDE DEF g
        <5>2. Trail(g, Coming(m)', a, q)
          BY <2>0, <3>1, <4>1, <5>1, TrailGoesOn
        <5> QED
          BY <3>3, <5>2 DEF g
      <4> QED
        BY <4>2, <4>3
    <3> QED
      BY <2>3, <3>2, <3>3
  <2> QED
    BY <2>1, <2>2, <2>3
<1>3. \A ch, data : Full(ch, data) => Full(ch, data)'
  BY DEF Full
<1>4. HeldOK'
  <2> SUFFICES ASSUME NEW n \in Maps, NEW b \in Accounts, pl'[n][b].st \in InUse
               PROVE  Full(pl[n][b].ch, pl[n][b].data)'
    BY DEF HeldOK
  <2>1. CASE <<n, b>> = <<m, a>>
    BY <1>3, <2>1 DEF Full
  <2>2. CASE <<n, b>> # <<m, a>>
    BY <1>1, <1>3, <2>2 DEF HeldOK, Full
  <2> QED
    BY <2>1, <2>2
<1>5. /\ Len(f) \in Nat
      /\ \A i \in 1..Len(fromMap'[m]) : fromMap'[m][i].cmd = "save" =>
           \/ i \in 1..Len(f) /\ fromMap'[m][i] = f[i]
           \/ /\ r.st \in {"world", "logout"} /\ q.st \in {"world", "logout"}
              /\ q.ch = r.ch /\ fromMap'[m][i].char_id = q.ch
              /\ fromMap'[m][i].data = q.data
  <2>1. f \in Seq(MapsPacket) /\ Len(f) \in Nat
    BY <1>1
  <2>2. ASSUME NEW p \in MapsPacket, fromMap'[m] = Append(f, p), SavesHim(r, q, a, p),
               NEW i \in 1..Len(fromMap'[m]), fromMap'[m][i].cmd = "save"
        PROVE  \/ i \in 1..Len(f) /\ fromMap'[m][i] = f[i]
               \/ /\ r.st \in {"world", "logout"} /\ q.st \in {"world", "logout"}
                  /\ q.ch = r.ch /\ fromMap'[m][i].char_id = q.ch
                  /\ fromMap'[m][i].data = q.data
    <3>1. \/ i \in 1..Len(f) /\ fromMap'[m][i] = f[i]
          \/ fromMap'[m][i] = p
      BY <2>1, <2>2
    <3> QED
      BY <2>2, <3>1 DEF SavesHim
  <2> QED
    BY <2>1, <2>2
<1>6. SavedOK'
  <2> SUFFICES ASSUME NEW n \in Maps, NEW i \in 1..Len(fromMap'[n]),
                      fromMap'[n][i].cmd = "save"
               PROVE  Full(fromMap[n][i].char_id, fromMap[n][i].data)'
    BY DEF SavedOK
  <2>1. Full(fromMap'[n][i].char_id, fromMap'[n][i].data)
    <3>1. CASE n # m
      BY <1>1, <3>1 DEF SavedOK
    <3>2. CASE n = m
      BY <1>1, <1>5, <3>2 DEF SavedOK, InUse
    <3> QED
      BY <3>1, <3>2
  <2> QED
    BY <2>1 DEF Full
<1>7. ASSUME NEW n \in Maps, NEW ch \in Chars, Has(n, ch)'
      PROVE  Has(n, ch)
  <2>1. /\ Has(n, ch) <=>
             \/ \E b \in Accounts : pl[n][b].st \in InUse /\ pl[n][b].ch = ch
             \/ Brings(Coming(n), ch)
             \/ \E i \in 1..Len(fromMap[n]) : /\ fromMap[n][i].cmd = "save"
                                              /\ fromMap[n][i].char_id = ch
        /\ \/ \E b \in Accounts : pl'[n][b].st \in InUse /\ pl'[n][b].ch = ch
           \/ Brings(Coming(n)', ch)
           \/ \E i \in 1..Len(fromMap'[n]) : /\ fromMap'[n][i].cmd = "save"
                                             /\ fromMap'[n][i].char_id = ch
    BY <1>7, Haves, HavesNext DEF RollInv
  <2>2. CASE n # m
    BY <2>1, <2>2
  <2>3. ASSUME n = m, NEW b \in Accounts, pl'[n][b].st \in InUse, pl'[n][b].ch = ch
        PROVE  Has(n, ch)
    <3>1. CASE b = a
      BY <2>3, <3>1
    <3>2. CASE b # a
      BY <2>1, <2>3, <3>2
    <3> QED
      BY <3>1, <3>2
  <2>4. CASE n = m /\ Brings(Coming(n)', ch)
    BY <2>1, <2>4
  <2>5. ASSUME n = m, NEW i \in 1..Len(fromMap'[n]), fromMap'[n][i].cmd = "save",
               fromMap'[n][i].char_id = ch
        PROVE  Has(n, ch)
    <3>1. CASE i \in 1..Len(f) /\ fromMap'[m][i] = f[i]
      BY <2>1, <2>5, <3>1
    <3>2. CASE r.st \in {"world", "logout"} /\ r.ch = ch
      BY <2>1, <2>5, <3>2 DEF InUse
    <3> QED
      BY <1>5, <2>5, <3>1, <3>2
  <2> QED
    BY <2>1, <2>2, <2>3, <2>4, <2>5
<1>8. SingleOK'
  BY <1>1, <1>7, StaysSingle
<1>9. LoadsOK'
  <2> SUFFICES ASSUME NEW n \in Maps, map_fd[n]
               PROVE  Carries(toMap'[n], cargo'[n], Good(n)')
    BY DEF LoadsOK
  <2>1. ASSUME NEW i \in 1..Len(toMap'[n]), NEW d, toMap'[n][i].cmd = "auth_ok",
               <<toMap'[n][i], d>> \in Good(n)
        PROVE  <<toMap'[n][i], d>> \in Good(n)'
    <3> DEFINE y == toMap'[n][i]
    <3>1. /\ <<y, d>> \in Anything /\ y \in MapPacket /\ y.char_id \in CharsOf[y.aid]
          /\ pl[n][y.aid].st \in {"none", "login", "loaded"} => Full(y.char_id, d)
      BY <2>1 DEF Good, Anything
    <3>2. y.aid \in Accounts
      BY <3>1 DEF MapPacket
    <3>3. ASSUME pl'[n][y.aid].st \in {"none", "login", "loaded"}
          PROVE  pl[n][y.aid].st \in {"none", "login", "loaded"}
      <4>1. CASE <<n, y.aid>> # <<m, a>>
        BY <3>2, <3>3, <4>1
      <4>2. CASE <<n, y.aid>> = <<m, a>>
        <5>1. Admits(Coming(m)', a)
          <6>1. Coming(m)' = toMap'[m]
            BY <4>2 DEF Coming
          <6>2. Kind(y, a) \in Entry
            BY <2>1, <4>2 DEF Kind, Entry
          <6> QED
            BY <4>2, <6>1, <6>2 DEF Admits
        <5>2. ~Silent(Entry, f, Coming(m), a)
          BY <5>1 DEF Admits, Silent
        <5> QED
          BY <3>3, <4>2, <5>2 DEF Goes
      <4> QED
        BY <4>1, <4>2
    <3> HIDE DEF y
    <3>4. Full(y.char_id, d) => (y.char_id \notin split' => db'[y.char_id] \subseteq d)
      BY DEF Full
    <3>5. <<y, d>> \in Good(n)'
      BY <3>1, <3>3, <3>4 DEF Good, Anything, Full
    <3> QED
      BY <3>5 DEF y
  <2> QED
    BY <2>1, CarriesOther
<1> QED
  BY <1>2, <1>4, <1>6, <1>8, <1>9 DEF RollOK

----------------------------------------------------------------------------
(* What a map server does by itself *)

LEMMA StepsStay ==
  ASSUME RollInv, NEW m \in Maps, NEW a \in Accounts
  PROVE  Steps(m, a, pl[m][a]) /\ pl[m][a] \in Player
<1>1. pl[m][a] \in Player
  BY InvTypes DEF RollInv
<1>2. pl[m][a].st \in InUse =>
        Full(pl[m][a].ch, pl[m][a].data) /\ Has(m, pl[m][a].ch)
  BY Haves DEF RollInv, RollOK, HeldOK
<1> QED
  BY <1>1, <1>2 DEF Steps, Goes

LEMMA StepsGone ==
  ASSUME RollInv, NEW m \in Maps, NEW a \in Accounts, LoggingIn(m, a)
  PROVE  Steps(m, a, Gone) /\ Gone \in Player
<1>1. Gone \in Player /\ Gone.st = "none"
  BY MapFacts DEF RollInv
<1> QED
  BY <1>1 DEF Steps, Goes, LoggingIn, InUse

\* A session in the world that keeps its data, or more, there or at the way out.
LEMMA StepsKept ==
  ASSUME RollInv, NEW m \in Maps, NEW a \in Accounts, pl[m][a].st = "world",
         NEW q, q.st \in {"world", "logout"},
         q.ch = pl[m][a].ch, pl[m][a].data \subseteq q.data
  PROVE  Steps(m, a, q)
<1>1. Full(q.ch, q.data) /\ Has(m, q.ch)
  BY StepsStay DEF Steps, InUse, Full
<1> QED
  BY <1>1 DEF Steps, Goes

\* Session a of m becomes q, and one packet may be written.
LEMMA MapRolls ==
  ASSUME RollInv, CharMapInv', NEW m \in Maps, NEW a \in Accounts, NEW q \in Player,
         Becomes(m, a, q), MapSideOnly, UNCHANGED split,
         \/ UNCHANGED fromMap
         \/ \E p \in MapsPacket : Sends(m, p) /\ SavesHim(pl[m][a], q, a, p),
         Steps(m, a, q)
  PROVE  RollOK'
<1>1. CharMapInv /\ RollOK /\ PlayersOK /\ BoxesOK
  BY DEF RollInv, CharMapInv
<1>2. /\ UNCHANGED <<db, split, map_fd, toMap, cargo>>
      /\ \A n : Coming(n)' = Coming(n)
  BY DEF MapSideOnly, char_vars, Coming
<1>3. /\ pl'[m][a] = q
      /\ \A n \in Maps, b \in Accounts : <<n, b>> # <<m, a>> => pl'[n][b] = pl[n][b]
  BY <1>1 DEF PlayersOK, Becomes
<1>4. \A n \in Maps : map_fd[n] => Carries(toMap'[n], cargo'[n], Good(n))
  BY <1>1, <1>2 DEF RollOK, LoadsOK
<1>5. /\ \A n \in Maps \ {m} : fromMap'[n] = fromMap[n]
      /\ \/ fromMap'[m] = fromMap[m]
         \/ \E p \in MapsPacket : /\ fromMap'[m] = Append(fromMap[m], p)
                                  /\ SavesHim(pl[m][a], q, a, p)
  BY <1>1, <1>2, SendsOK DEF BoxesOK, Linked
<1> QED
  BY <1>2, <1>3, <1>4, <1>5, SessionRolls

LEMMA AloneRolls ==
  ASSUME PlayerAlone
  PROVE  MapSideOnly /\ UNCHANGED split
  BY DEF PlayerAlone

LEMMA WantToConnectionRolls ==
  ASSUME RollInv, CharMapInv', NEW m \in Maps, NEW a \in Accounts, WantToConnection(m, a)
  PROVE  RollOK'
<1> DEFINE ch == told[a].ch
           id == told[a].id
           p  == [cmd |-> "auth_req", aid |-> a, char_id |-> ch, login_id |-> id]
           q  == [Gone EXCEPT !.st = "login", !.ch = ch, !.id = id, !.client = "on"]
<1>1. MapSideOnly /\ UNCHANGED split /\ told[a].m = m
  BY DEF WantToConnection, MayConnect
<1>2. \/ UNCHANGED <<pl, fromMap>>
      \/ /\ pl[m][a].st = "none"
         /\ IF Linked(m) THEN Becomes(m, a, q) ELSE UNCHANGED pl
         /\ Sends(m, p)
  BY DEF WantToConnection
<1>3. ch \in CharsOf[a] /\ ch \in Chars /\ id \in LoginIds
  BY <1>1, CharCodes DEF RollInv, CharMapInv, SentOK
<1>4. /\ Steps(m, a, pl[m][a]) /\ pl[m][a] \in Player
      /\ UNCHANGED pl => Becomes(m, a, pl[m][a])
  BY StepsStay, MapFacts DEF RollInv
<1>5. CASE UNCHANGED <<pl, fromMap>>
  BY <1>1, <1>4, <1>5, MapRolls
<1>6. CASE /\ pl[m][a].st = "none"
           /\ IF Linked(m) THEN Becomes(m, a, q) ELSE UNCHANGED pl
           /\ Sends(m, p)
  <2>1. p \in MapsPacket /\ p.cmd = "auth_req"
    BY <1>3 DEF MapsPacket, FromPacket, OwnPacket
  <2>2. q \in Player /\ q.st = "login"
    BY <1>3 DEF Gone, Player, Stages
  <2>3. Steps(m, a, q)
    BY <1>6, <2>2 DEF Steps, Goes, InUse
  <2>4. \A x, y : SavesHim(x, y, a, p)
    BY <2>1 DEF SavesHim
  <2> HIDE DEF p, q
  <2>5. CASE Linked(m)
    BY <1>1, <1>6, <2>1, <2>2, <2>3, <2>4, <2>5, MapRolls
  <2>6. CASE ~Linked(m)
    BY <1>1, <1>4, <1>6, <2>1, <2>4, <2>6, MapRolls
  <2> QED
    BY <2>5, <2>6
<1> QED
  BY <1>2, <1>5, <1>6

LEMMA DupClosesRolls ==
  ASSUME RollInv, CharMapInv', NEW m \in Maps, NEW a \in Accounts, DupCloses(m, a)
  PROVE  RollOK'
<1>1. MapSideOnly /\ UNCHANGED <<fromMap, split>>
  BY DEF DupCloses
<1>2. \/ UNCHANGED pl
      \/ LoggingIn(m, a) /\ Becomes(m, a, Gone)
  BY DEF DupCloses, AuthDelete
<1>3. CASE UNCHANGED pl
  <2>1. /\ Steps(m, a, pl[m][a]) /\ pl[m][a] \in Player
        /\ Becomes(m, a, pl[m][a])
    BY <1>3, StepsStay, MapFacts DEF RollInv
  <2> QED
    BY <1>1, <2>1, MapRolls
<1>4. CASE LoggingIn(m, a) /\ Becomes(m, a, Gone)
  BY <1>1, <1>4, StepsGone, MapRolls
<1> QED
  BY <1>2, <1>3, <1>4

LEMMA EditRolls ==
  ASSUME RollInv, CharMapInv', NEW m \in Maps, NEW a \in Accounts, Edit(m, a)
  PROVE  RollOK'
<1> DEFINE r == pl[m][a]
           q == [r EXCEPT !.data = @ \cup {edits + 1}]
<1>1. /\ MapSideOnly /\ UNCHANGED <<fromMap, split>> /\ Becomes(m, a, q)
      /\ edits < MaxEdits /\ r.st = "world"
  BY DEF Edit
<1>2. edits + 1 \in 1..MaxEdits
  BY <1>1, BoundAssumption DEF RollInv, CharMapInv, CountsOK
<1>3. r \in Player
  BY InvTypes DEF RollInv
<1>4. /\ q \in Player /\ q.st = "world" /\ q.ch = r.ch
      /\ q.data = r.data \cup {edits + 1}
  BY <1>1, <1>2, <1>3 DEF Player
<1> HIDE DEF q
<1>5. Steps(m, a, q)
  BY <1>1, <1>4, StepsKept
<1> QED
  BY <1>1, <1>4, <1>5, MapRolls

LEMMA AutotradeRolls ==
  ASSUME RollInv, CharMapInv', NEW m \in Maps, NEW a \in Accounts, Autotrade(m, a)
  PROVE  RollOK'
<1> DEFINE r == pl[m][a]
           q == [r EXCEPT !.auto = TRUE, !.client = "eof"]
<1>1. PlayerAlone /\ UNCHANGED fromMap /\ Becomes(m, a, q) /\ r.st = "world"
  BY DEF Autotrade
<1>2. r \in Player
  BY InvTypes DEF RollInv
<1>3. q \in Player /\ q.st = "world" /\ q.ch = r.ch /\ q.data = r.data
  BY <1>1, <1>2 DEF Player
<1> HIDE DEF q
<1>4. Steps(m, a, q)
  BY <1>1, <1>3, StepsKept
<1> QED
  BY <1>1, <1>3, <1>4, AloneRolls, MapRolls

\* A session goes on and writes a packet that saves at most what it has.
LEMMA SendRolls ==
  ASSUME RollInv, CharMapInv', NEW m \in Maps, NEW a \in Accounts,
         PlayerAlone, UNCHANGED pl,
         NEW p \in MapsPacket, Sends(m, p),
         SavesHim(pl[m][a], pl[m][a], a, p)
  PROVE  RollOK'
<1>1. /\ Steps(m, a, pl[m][a]) /\ pl[m][a] \in Player
      /\ Becomes(m, a, pl[m][a])
  BY StepsStay, AloneRolls, MapFacts DEF RollInv
<1> QED
  BY <1>1, AloneRolls, MapRolls

LEMMA RestartRolls ==
  ASSUME RollInv, CharMapInv', NEW m \in Maps, NEW a \in Accounts, Restart(m, a)
  PROVE  RollOK'
<1> DEFINE p == [cmd |-> "select", aid |-> a, login_id |-> pl[m][a].id]
<1>1. Sends(m, p) /\ PlayerAlone /\ UNCHANGED pl /\ pl[m][a].st = "world"
  BY DEF Restart
<1>2. pl[m][a].id \in LoginIds
  BY <1>1, MapFacts DEF PlayerOK, RollInv
<1>3. p \in MapsPacket /\ SavesHim(pl[m][a], pl[m][a], a, p)
  BY <1>2 DEF MapsPacket, FromPacket, OwnPacket, SavesHim
<1> HIDE DEF p
<1> QED
  BY <1>1, <1>3, SendRolls

LEMMA AutoSaveRolls ==
  ASSUME RollInv, CharMapInv', NEW m \in Maps, NEW a \in Accounts, AutoSave(m, a)
  PROVE  RollOK'
<1>1. Sends(m, SaveOf(m, a, FALSE)) /\ PlayerAlone /\ UNCHANGED pl
      /\ pl[m][a].st = "world"
  BY DEF AutoSave
<1>2. PlayersOK /\ pl[m][a].st # "none"
  BY <1>1 DEF RollInv, CharMapInv
<1>3. SaveOf(m, a, FALSE) \in MapsPacket
  BY <1>2, Written
<1>4. SavesHim(pl[m][a], pl[m][a], a, SaveOf(m, a, FALSE))
  BY <1>1 DEF SaveOf, SavesHim
<1> QED
  BY <1>1, <1>3, <1>4, SendRolls

\* map_quit: the session and the save hold the same.
LEMMA QuitSaves ==
  ASSUME RollInv, CharMapInv', NEW m \in Maps, NEW a \in Accounts, pl[m][a].st = "world",
         Quit(m, a)
  PROVE  \E q \in Player :
           /\ Becomes(m, a, q) /\ Steps(m, a, q)
           /\ Sends(m, SaveOf(m, a, TRUE)) /\ SaveOf(m, a, TRUE) \in MapsPacket
           /\ SavesHim(pl[m][a], q, a, SaveOf(m, a, TRUE))
<1> DEFINE r == pl[m][a]
           q == [r EXCEPT !.st = "logout", !.client = "gone", !.auto = FALSE]
<1>1. Becomes(m, a, q) /\ Sends(m, SaveOf(m, a, TRUE))
  BY DEF Quit
<1>2. r \in Player
  BY InvTypes DEF RollInv
<1>3. /\ q \in Player /\ q.st = "logout" /\ q.ch = r.ch
      /\ q.data = r.data
  BY <1>2 DEF Player, Stages
<1> HIDE DEF q
<1>4. Steps(m, a, q)
  BY <1>3, StepsKept
<1>5. PlayersOK /\ r.st # "none"
  BY DEF RollInv, CharMapInv
<1>6. SaveOf(m, a, TRUE) \in MapsPacket
  BY <1>5, Written
<1>7. SavesHim(r, q, a, SaveOf(m, a, TRUE))
  BY <1>3 DEF SaveOf, SavesHim
<1> QED
  BY <1>1, <1>3, <1>4, <1>6, <1>7

LEMMA QuitRolls ==
  ASSUME RollInv, CharMapInv', NEW m \in Maps, NEW a \in Accounts, pl[m][a].st = "world",
         Quit(m, a), PlayerAlone
  PROVE  RollOK'
  BY QuitSaves, AloneRolls, MapRolls

LEMMA ParseEofRolls ==
  ASSUME RollInv, CharMapInv', NEW m \in Maps, NEW a \in Accounts, ParseEof(m, a)
  PROVE  RollOK'
<1>1. PlayerAlone
  BY DEF ParseEof
<1>2. CASE LoggingIn(m, a) /\ AuthDelete(m, a) /\ UNCHANGED fromMap
  BY <1>1, <1>2, AloneRolls, StepsGone, MapRolls DEF AuthDelete
<1>3. CASE pl[m][a].st = "world" /\ Quit(m, a)
  BY <1>1, <1>3, QuitRolls
<1>4. CASE /\ pl[m][a].st = "world"
           /\ Becomes(m, a, [pl[m][a] EXCEPT !.client = "gone"])
           /\ UNCHANGED fromMap
  <2> DEFINE r == pl[m][a]
             q == [r EXCEPT !.client = "gone"]
  <2>1. r \in Player
    BY InvTypes DEF RollInv
  <2>2. /\ q \in Player /\ q.st = "world" /\ q.ch = r.ch
        /\ q.data = r.data /\ Becomes(m, a, q)
    BY <1>4, <2>1 DEF Player
  <2> HIDE DEF q
  <2>3. Steps(m, a, q)
    BY <1>1, <1>4, <2>2, AloneRolls, StepsKept
  <2> QED
    BY <1>1, <1>4, <2>2, <2>3, AloneRolls, MapRolls
<1> QED
  BY <1>2, <1>3, <1>4 DEF ParseEof

LEMMA AuthDbCleanupRolls ==
  ASSUME RollInv, CharMapInv', NEW m \in Maps, NEW a \in Accounts, AuthDbCleanup(m, a)
  PROVE  RollOK'
<1>1. PlayerAlone
  BY DEF AuthDbCleanup
<1>2. CASE /\ pl[m][a].st = "logout"
           /\ Sends(m, SaveOf(m, a, TRUE))
           /\ UNCHANGED pl
  <2>1. PlayersOK /\ pl[m][a].st # "none"
    BY <1>2 DEF RollInv, CharMapInv
  <2>2. SaveOf(m, a, TRUE) \in MapsPacket
    BY <2>1, Written
  <2>3. SavesHim(pl[m][a], pl[m][a], a, SaveOf(m, a, TRUE))
    BY <1>2 DEF SaveOf, SavesHim
  <2> QED
    BY <1>1, <1>2, <2>2, <2>3, SendRolls
<1>3. CASE /\ LoggingIn(m, a)
           /\ Sends(m, OfflineOf(m, a))
           /\ AuthDelete(m, a)
  <2>1. OfflineOf(m, a) \in MapsPacket /\ \A x, y : SavesHim(x, y, a, OfflineOf(m, a))
    BY <1>3, RefusalWritten DEF RollInv, OfflineOf, SavesHim
  <2> QED
    BY <1>1, <1>3, <2>1, AloneRolls, StepsGone, MapRolls DEF AuthDelete
<1> QED
  BY <1>2, <1>3 DEF AuthDbCleanup

LEMMA MapAloneRolls ==
  ASSUME RollInv, CharMapInv', NEW m \in Maps, NEW a \in Accounts,
         PlayerStep(m, a) \/ ServerStep(m, a)
  PROVE  RollOK'
<1>1. DelayQuit(m, a) => RollOK'
  BY QuitRolls DEF DelayQuit
<1> QED
  BY <1>1, WantToConnectionRolls, DupClosesRolls, EditRolls, AutotradeRolls, RestartRolls,
     ParseEofRolls, AutoSaveRolls, AuthDbCleanupRolls DEF PlayerStep, ServerStep

----------------------------------------------------------------------------
(* A map server reads what the char server wrote *)

\* What m reads now lets in only with good data, and so does what is left.
LEMMA LoadsRead ==
  ASSUME RollInv, CharMapInv', NEW m \in Maps, ReadsAnswer(m)
  PROVE  /\ \A n \in Maps : map_fd[n] => Carries(toMap'[n], cargo'[n], Good(n))
         /\ Head(toMap[m]).cmd = "auth_ok" =>
              <<Head(toMap[m]), Head(cargo[m])>> \in Good(m)
<1>1. /\ toMap \in [Maps -> Seq(MapPacket)] /\ toMap[m] # <<>> /\ map_fd[m]
      /\ toMap' = [toMap EXCEPT ![m] = Tail(@)]
      /\ cargo \in [Maps -> Seq(SUBSET (1..MaxEdits))]
      /\ cargo' = IF Head(toMap[m]).cmd = "auth_ok" THEN [cargo EXCEPT ![m] = Tail(@)]
                                                    ELSE cargo
  BY DEF ReadsAnswer, RollInv, CharMapInv, TablesInv, QueuesOK, CargoOK, Linked
<1>2. \A n \in Maps : map_fd[n] => Carries(toMap[n], cargo[n], Good(n))
  BY DEF RollInv, RollOK, LoadsOK
<1>3. toMap[m] \in Seq(MapPacket) /\ cargo[m] \in Seq(SUBSET (1..MaxEdits))
  BY <1>1
<1>4. IF Head(toMap[m]).cmd = "auth_ok"
      THEN /\ Carries(Tail(toMap[m]), Tail(cargo[m]), Good(m))
           /\ <<Head(toMap[m]), Head(cargo[m])>> \in Good(m)
      ELSE Carries(Tail(toMap[m]), cargo[m], Good(m))
  BY <1>1, <1>2, <1>3, CarriesTail
<1>5. Carries(toMap'[m], cargo'[m], Good(m))
  BY <1>1, <1>4
<1>6. \A n \in Maps \ {m} : toMap'[n] = toMap[n] /\ cargo'[n] = cargo[n]
  BY <1>1
<1> QED
  BY <1>2, <1>4, <1>5, <1>6

\* The packet is about session a of m, which becomes q.
LEMMA ReadRolls ==
  ASSUME RollInv, CharMapInv', NEW m \in Maps, NEW a \in Accounts,
         ReadsAnswer(m), NEW q \in Player,
         Becomes(m, a, q),
         \/ UNCHANGED fromMap
         \/ \E p \in MapsPacket : Sends(m, p) /\ SavesHim(pl[m][a], q, a, p),
         Steps(m, a, q)
  PROVE  RollOK'
<1>1. CharMapInv /\ RollOK /\ PlayersOK /\ BoxesOK
  BY DEF RollInv, CharMapInv
<1>2. /\ UNCHANGED <<db, split, map_fd>>
      /\ Linked(m) /\ toMap[m] # <<>>
  BY DEF ReadsAnswer
<1>3. /\ pl'[m][a] = q
      /\ \A n \in Maps, b \in Accounts : <<n, b>> # <<m, a>> => pl'[n][b] = pl[n][b]
  BY <1>1 DEF PlayersOK, Becomes
<1>4. /\ \A n \in Maps \ {m} : Coming(n)' = Coming(n)
      /\ Coming(m) = toMap[m] /\ Coming(m)' = Tail(toMap[m])
      /\ toMap[m] \in Seq(MapPacket)
  BY <1>1, ReadsAnswerOK
<1>5. \A b \in Accounts : Admits(Tail(toMap[m]), b) => Admits(toMap[m], b)
  <2>1. \A i \in 1..Len(Tail(toMap[m])) :
          i + 1 \in 1..Len(toMap[m]) /\ Tail(toMap[m])[i] = toMap[m][i + 1]
    BY <1>2, <1>4, HeadTailProperties
  <2> QED
    BY <2>1 DEF Admits
<1>6. /\ \A n \in Maps \ {m} : fromMap'[n] = fromMap[n]
      /\ \/ fromMap'[m] = fromMap[m]
         \/ \E p \in MapsPacket : /\ fromMap'[m] = Append(fromMap[m], p)
                                  /\ SavesHim(pl[m][a], q, a, p)
  BY <1>1, <1>2, SendsOK
<1>7. \A n \in Maps : map_fd[n] => Carries(toMap'[n], cargo'[n], Good(n))
  BY LoadsRead
<1>8. \A b \in Accounts : Admits(Coming(m)', b) => Admits(Coming(m), b)
  BY <1>4, <1>5
<1>9. \A ch : Brings(Coming(m)', ch) => Brings(Coming(m), ch)
  <2>1. \A i \in 1..Len(Tail(toMap[m])) :
          i + 1 \in 1..Len(toMap[m]) /\ Tail(toMap[m])[i] = toMap[m][i + 1]
    BY <1>2, <1>4, HeadTailProperties
  <2> QED
    BY <1>4, <2>1 DEF Brings
<1> QED
  BY <1>2, <1>3, <1>4, <1>6, <1>7, <1>8, <1>9, SessionRolls

LEMMA ReadAlone ==
  ASSUME RollInv, CharMapInv', NEW m \in Maps, ReadsAnswer(m)
  PROVE  Linked(m) /\ Coming(m) = toMap[m]
  BY DEF ReadsAnswer, Coming, Linked

LEMMA NobodyRolls ==
  ASSUME RollInv, CharMapInv', NEW m \in Maps, NEW a \in Accounts, ReadsAnswer(m),
         UNCHANGED <<pl, fromMap>>
  PROVE  RollOK'
<1>1. /\ Steps(m, a, pl[m][a]) /\ pl[m][a] \in Player
      /\ Becomes(m, a, pl[m][a])
  BY StepsStay, ReadAlone, MapFacts DEF RollInv
<1> QED
  BY <1>1, ReadRolls

LEMMA DeletedRolls ==
  ASSUME RollInv, CharMapInv', NEW m \in Maps, NEW a \in Accounts, ReadsAnswer(m),
         LoggingIn(m, a), AuthDelete(m, a), UNCHANGED fromMap
  PROVE  RollOK'
  BY StepsGone, ReadRolls DEF AuthDelete

LEMMA ClosedRolls ==
  ASSUME RollInv, CharMapInv', NEW m \in Maps, NEW a \in Accounts, ReadsAnswer(m),
         pl[m][a].st = "world",
         Becomes(m, a, [pl[m][a] EXCEPT !.client = "eof"]), UNCHANGED fromMap
  PROVE  RollOK'
<1> DEFINE r == pl[m][a]
           q == [r EXCEPT !.client = "eof"]
<1>1. r \in Player
  BY InvTypes DEF RollInv
<1>2. /\ q \in Player /\ q.st = "world" /\ q.ch = r.ch
      /\ q.data = r.data /\ Becomes(m, a, q)
  BY <1>1 DEF Player
<1> HIDE DEF q
<1>3. Steps(m, a, q)
  BY <1>2, ReadAlone, StepsKept
<1> QED
  BY <1>2, <1>3, ReadRolls

LEMMA ReadKickRolls ==
  ASSUME RollInv, CharMapInv', NEW m \in Maps, NEW a \in Accounts,
         ReadsAnswer(m), ReadKick(m, a)
  PROVE  RollOK'
<1>1. CASE LoggingIn(m, a) /\ AuthDelete(m, a) /\ UNCHANGED fromMap
  BY <1>1, DeletedRolls
<1>2. CASE pl[m][a].st = "world" /\ Quit(m, a)
  BY <1>2, QuitSaves, ReadAlone, ReadRolls
<1>3. CASE /\ pl[m][a].st = "world"
           /\ Becomes(m, a, [pl[m][a] EXCEPT !.client = "eof"])
           /\ UNCHANGED fromMap
  BY <1>3, ClosedRolls
<1>4. CASE UNCHANGED <<pl, fromMap>>
  BY <1>4, NobodyRolls
<1> QED
  BY <1>1, <1>2, <1>3, <1>4 DEF ReadKick

LEMMA ReadAuthOkRolls ==
  ASSUME RollInv, CharMapInv', NEW m \in Maps, NEW a \in Accounts, ReadsAnswer(m),
         Head(toMap[m]).cmd = "auth_ok", Head(toMap[m]).aid = a,
         ReadAuthOk(m, a, Head(toMap[m]), Head(cargo[m]))
  PROVE  RollOK'
<1> DEFINE r == pl[m][a]
           x == Head(toMap[m])
           data == Head(cargo[m])
<1>1. CharMapInv /\ r \in Player /\ PlayerOK(a, r)
  BY InvTypes DEF RollInv
<1>2. CASE UNCHANGED <<pl, fromMap>>
  BY <1>2, NobodyRolls
<1>3. CASE /\ LoggingIn(m, a) /\ x.char_id = r.ch
           /\ Becomes(m, a, [r EXCEPT !.st = "loaded", !.data = data])
           /\ Sends(m, [cmd |-> "registry", aid |-> a, char_id |-> r.ch])
  <2> DEFINE q == [r EXCEPT !.st = "loaded", !.data = data]
             p == [cmd |-> "registry", aid |-> a, char_id |-> r.ch]
  <2>1. r.st \in {"login", "loaded"} /\ data \in SUBSET (1..MaxEdits)
    BY <1>1, <1>3, ReadsAnswerOK DEF LoggingIn
  <2>2. /\ q \in Player /\ q.st = "loaded" /\ q.ch = r.ch
        /\ q.data = data
    BY <1>1, <2>1 DEF Player, Stages
  <2>3. p \in MapsPacket /\ p.cmd = "registry"
    <3>1. r.ch \in CharsOf[a] /\ r.ch \in Chars
      BY <1>1, <2>1, CharCodes DEF PlayerOK
    <3> QED
      BY <3>1 DEF MapsPacket, FromPacket, OwnPacket
  <2>4. Becomes(m, a, q) /\ Sends(m, p)
    BY <1>3
  <2>5. <<x, data>> \in Good(m)
    BY LoadsRead
  <2>6. Admits(Coming(m), a)
    <3>1. x = toMap[m][1] /\ 1 \in 1..Len(toMap[m])
      BY <1>1, MapFacts, ReadFacts
    <3>2. Kind(x, a) \in Entry
      BY DEF Kind, Entry
    <3> QED
      BY <3>1, <3>2, ReadAlone DEF Admits
  <2> HIDE DEF p, q, x, data
  <2>7. Full(x.char_id, data)
    BY <2>1, <2>5 DEF Good, x
  <2>8. Full(q.ch, q.data) /\ Has(m, q.ch)
    <3>1. x = toMap[m][1] /\ 1 \in 1..Len(toMap[m]) /\ x.cmd = "auth_ok"
      BY <1>1, MapFacts, ReadFacts DEF x
    <3>2. Brings(Coming(m), q.ch)
      BY <1>3, <2>2, <3>1, ReadAlone DEF Brings, x
    <3> QED
      BY <1>1, <1>3, <2>2, <2>7, <3>2, Haves DEF x
  <2>9. Steps(m, a, q)
    BY <2>1, <2>2, <2>6, <2>8 DEF Steps, Goes
  <2>10. SavesHim(r, q, a, p)
    BY <2>3 DEF SavesHim
  <2> QED
    BY <2>2, <2>3, <2>4, <2>9, <2>10, ReadRolls
<1>4. CASE /\ LoggingIn(m, a)
           /\ \/ AuthDelete(m, a)
              \/ Becomes(m, a, [r EXCEPT !.client = "eof"])
           /\ Sends(m, OfflineOf(m, a))
  <2> DEFINE p == OfflineOf(m, a)
             e == [r EXCEPT !.client = "eof"]
  <2>1. p \in MapsPacket
    BY <1>1, <1>4, RefusalWritten
  <2>2. \A y, z : SavesHim(y, z, a, p)
    BY DEF OfflineOf, SavesHim
  <2>3. Sends(m, p)
    BY <1>4
  <2> HIDE DEF p
  <2>4. CASE AuthDelete(m, a)
    BY <1>4, <2>1, <2>2, <2>3, <2>4, StepsGone, ReadRolls DEF AuthDelete
  <2>5. CASE Becomes(m, a, e)
    <3>1. /\ e \in Player /\ e.st = r.st /\ e.ch = r.ch
          /\ e.data = r.data
      BY <1>1 DEF Player
    <3> HIDE DEF e
    <3>2. Steps(m, a, r)
      BY ReadAlone, StepsStay
    <3>3. Steps(m, a, e)
      BY <3>1, <3>2 DEF Steps, Goes
    <3> QED
      BY <2>1, <2>2, <2>3, <2>5, <3>1, <3>3, ReadRolls
  <2> QED
    BY <1>4, <2>4, <2>5
<1> QED
  BY <1>2, <1>3, <1>4 DEF ReadAuthOk

LEMMA ReadAuthFailRolls ==
  ASSUME RollInv, CharMapInv', NEW m \in Maps, NEW a \in Accounts, ReadsAnswer(m),
         NEW x, ReadAuthFail(m, a, x)
  PROVE  RollOK'
<1>1. /\ UNCHANGED fromMap
      /\ \/ UNCHANGED pl
         \/ LoggingIn(m, a) /\ AuthDelete(m, a)
  BY DEF ReadAuthFail
<1> QED
  BY <1>1, NobodyRolls, DeletedRolls

\* Whose last save is acknowledged: nobody is being let in.
LEMMA ReadSaveAckRolls ==
  ASSUME RollInv, CharMapInv', NEW m \in Maps, NEW a \in Accounts, ReadsAnswer(m),
         Head(toMap[m]).cmd = "save_ack", Head(toMap[m]).aid = a,
         ReadSaveAck(m, a, Head(toMap[m]))
  PROVE  RollOK'
<1> DEFINE f == fromMap[m]
           t == toMap[m]
<1>1. UNCHANGED fromMap /\ Kind(Head(t), a) \in Leaving
  BY DEF ReadSaveAck, Kind, Leaving
<1>2. CASE UNCHANGED pl
  BY <1>1, <1>2, NobodyRolls
<1>3. CASE pl[m][a].st = "logout" /\ AuthDelete(m, a)
  <2>1. InOrder(Entry, Leaving, f, t, a)
    BY <1>3, ReadFacts DEF RollInv, Orderly
  <2>2. t \in Seq(MapPacket) /\ t # <<>> /\ Gone \in Player /\ Gone.st = "none"
    BY MapFacts, ReadFacts DEF RollInv
  <2>3. Head(t) = t[1] /\ 1 \in 1..Len(t)
    BY <2>2
  <2>4. "leaving" \notin Entry
    BY DEF Entry
  <2>5. Silent(Entry, f, t, a)
    <3>1. \A i \in 1..Len(t) : i = 1 \/ 1 < i
      BY <2>2
    <3> QED
      BY <1>1, <2>1, <2>3, <2>4, <3>1 DEF InOrder, Silent, Leaving
  <2>6. Steps(m, a, Gone)
    <3>1. Coming(m) = t
      BY ReadFacts DEF RollInv, Coming, Linked
    <3> QED
      BY <2>2, <2>5, <3>1 DEF Steps, Goes, InUse
  <2> QED
    BY <1>1, <1>3, <2>2, <2>6, ReadRolls DEF AuthDelete
<1> QED
  BY <1>2, <1>3 DEF ReadSaveAck

LEMMA ReadRegistryRolls ==
  ASSUME Patient, RollInv, CharMapInv', NEW m \in Maps, NEW a \in Accounts, ReadsAnswer(m),
         Head(toMap[m]).cmd = "registry", Head(toMap[m]).aid = a,
         ReadRegistry(m, a, Head(toMap[m]))
  PROVE  RollOK'
<1> DEFINE r == pl[m][a]
           q == [r EXCEPT !.st = "world"]
<1>1. UNCHANGED fromMap /\ Kind(Head(toMap[m]), a) = "registry"
  BY DEF ReadRegistry, Kind
<1>2. CASE UNCHANGED pl
  BY <1>1, <1>2, NobodyRolls
<1>3. CASE LoggingIn(m, a) /\ Becomes(m, a, q)
  <2>1. CharMapInv /\ r \in Player /\ r.st \in {"login", "loaded"}
    BY <1>3, InvTypes DEF LoggingIn, RollInv
  <2>2. r.st # "login"
    <3>1. Head(toMap[m]) = toMap[m][1] /\ 1 \in 1..Len(toMap[m])
      BY <2>1, MapFacts, ReadFacts
    <3> QED
      BY <1>1, <2>1, <3>1, ReadFacts DEF Orderly, Silent
  <2>3. /\ q \in Player /\ q.st = "world" /\ q.ch = r.ch
        /\ q.data = r.data /\ Becomes(m, a, q)
    BY <1>3, <2>1 DEF Player, Stages
  <2> HIDE DEF q
  <2>4. Steps(m, a, q)
    BY <2>1, <2>2, <2>3, StepsStay DEF Steps, Goes, InUse
  <2> QED
    BY <1>1, <2>3, <2>4, ReadRolls
<1> QED
  BY <1>2, <1>3 DEF ReadRegistry

LEMMA MapReadsRolls ==
  ASSUME Patient, RollInv, CharMapInv', NEW m \in Maps, MapReads(m)
  PROVE  RollOK'
<1> DEFINE x == Head(toMap[m])
           a == x.aid
<1>1. ReadsAnswer(m)
  BY DEF MapReads, ReadsAnswer
<1>2. a \in Accounts
  BY <1>1, ReadsAnswerOK DEF RollInv
<1>3. \/ x.cmd = "kick" /\ ReadKick(m, a)
      \/ x.cmd = "auth_ok" /\ ReadAuthOk(m, a, x, Head(cargo[m]))
      \/ x.cmd = "auth_fail" /\ ReadAuthFail(m, a, x)
      \/ x.cmd = "save_ack" /\ ReadSaveAck(m, a, x)
      \/ x.cmd = "registry" /\ ReadRegistry(m, a, x)
      \/ x.cmd = "select_ack" /\ ReadSelectAck(m, a)
  BY DEF MapReads
<1>4. ReadSelectAck(m, a) => RollOK'
  BY <1>1, <1>2, NobodyRolls, ClosedRolls DEF ReadSelectAck
<1> QED
  BY <1>1, <1>2, <1>3, <1>4, ReadKickRolls, ReadAuthOkRolls, ReadAuthFailRolls,
     ReadSaveAckRolls, ReadRegistryRolls

----------------------------------------------------------------------------
(* The char server by itself *)

LEMMA CalmerAdmits ==
  ASSUME NEW t \in Seq(MapPacket), NEW u \in Seq(MapPacket), Calmer(t, u), NEW b,
         Admits(u, b)
  PROVE  Admits(t, b)
<1>1. PICK i \in 1..Len(u) : Kind(u[i], b) \in Entry
  BY DEF Admits
<1>2. Kind(u[i], b) # "quiet"
  BY <1>1 DEF Entry
<1>3. Extended(t, u, b)
  BY DEF Calmer
<1>4. i \in 1..Len(t) /\ u[i] = t[i]
  BY <1>2, <1>3, ExtendedSpeaks
<1> QED
  BY <1>1, <1>4 DEF Admits

LEMMA CalmerBrings ==
  ASSUME NEW t \in Seq(MapPacket), NEW u \in Seq(MapPacket), Calmer(t, u), NEW ch,
         Brings(u, ch)
  PROVE  Brings(t, ch)
<1>1. PICK i \in 1..Len(u) : u[i].cmd = "auth_ok" /\ u[i].char_id = ch
  BY DEF Brings
<1> DEFINE b == u[i].aid
<1>2. Kind(u[i], b) # "quiet"
  BY <1>1 DEF Kind
<1>3. Extended(t, u, b)
  BY DEF Calmer
<1> HIDE DEF b
<1>4. i \in 1..Len(t) /\ u[i] = t[i]
  BY <1>2, <1>3, ExtendedSpeaks
<1> QED
  BY <1>1, <1>4 DEF Brings

\* Servers are sent kicks.
LEMMA KicksRoll ==
  ASSUME RollInv, CharMapInv', OnlyKicks
  PROVE  RollOK'
<1>1. /\ UNCHANGED <<map_fd, fromMap, cargo, pl, db, split>>
      /\ \A n \in Maps : Calmer(toMap[n], toMap'[n])
  BY DEF OnlyKicks, CharSideOnly
<1>2. \A n \in Maps : toMap[n] \in Seq(MapPacket) /\ toMap'[n] \in Seq(MapPacket)
  BY DEF RollInv, CharMapInv, TablesInv, QueuesOK
<1>3. TrailOK /\ SingleOK /\ HeldOK /\ SavedOK /\ LoadsOK
  BY DEF RollInv, RollOK
<1>4. TrailOK'
  <2> SUFFICES ASSUME NEW n \in Maps, NEW b \in Accounts
               PROVE  Trail(fromMap[n], Coming(n)', b, pl[n][b])
    BY <1>1 DEF TrailOK
  <2>1. Trail(fromMap[n], Coming(n), b, pl[n][b]) /\ fromMap[n] \in Seq(MapsPacket)
    BY <1>3, InvTypes DEF TrailOK, RollInv
  <2>2. Admits(Coming(n)', b) => Admits(Coming(n), b)
    BY <1>1, <1>2, CalmerAdmits DEF Coming
  <2>3. Unsaved(fromMap[n], fromMap[n], b)
    BY <2>1, UnsavedSame
  <2> QED
    BY <2>1, <2>2, <2>3, TrailGoesOn
<1>5. HeldOK' /\ SavedOK'
  BY <1>1, <1>3 DEF HeldOK, SavedOK, Full
<1>6. LoadsOK'
  <2> SUFFICES ASSUME NEW n \in Maps, map_fd[n]
               PROVE  Carries(toMap'[n], cargo[n], Good(n)')
    BY <1>1 DEF LoadsOK
  <2>1. Good(n)' = Good(n)
    BY <1>1 DEF Good, Full
  <2>2. Carries(toMap[n], cargo[n], Good(n))
    BY <1>3 DEF LoadsOK
  <2>3. Carries(toMap'[n], cargo[n], Good(n))
    BY <1>1, <1>2, <2>2, CalmCarries
  <2> QED
    BY <2>1, <2>3
<1>7. ASSUME NEW n \in Maps, NEW ch \in Chars, Has(n, ch)'
      PROVE  Has(n, ch)
  <2>1. Brings(Coming(n)', ch) => Brings(Coming(n), ch)
    BY <1>1, <1>2, CalmerBrings DEF Coming
  <2> QED
    BY <1>1, <1>7, <2>1, Haves, HavesNext DEF RollInv
<1>8. SingleOK'
  BY <1>1, <1>3, <1>7, StaysSingle
<1> QED
  BY <1>4, <1>5, <1>6, <1>8 DEF RollOK

LEMMA CharAloneRolls ==
  ASSUME RollInv,
         \/ \E fd \in Fds : \/ \E a \in Accounts : NewLogin(fd, a) \/ Returns(fd, a)
                            \/ \E ch \in Chars : Selects(fd, ch)
                            \/ LeavesList(fd)
         \/ \E a \in Accounts : KickedByLogin(a)
         \/ \E t \in CharTids : WaitingDisconnects(t)
         \/ CleansUp
  PROVE  RollOK'
<1>1. CharMapInv' /\ OnlyKicks
  BY CharAlone DEF RollInv
<1> QED
  BY <1>1, KicksRoll

----------------------------------------------------------------------------
(* The char server reads what a map server wrote *)

\* A save replaces what the char server has of its character, and nothing else does.
LEMMA StoresMoves ==
  ASSUME RollInv, NEW m \in Maps, CharReads(m), NEW x, x = Head(fromMap[m]),
         NEW ch \in Chars, db'[ch] # db[ch]
  PROVE  /\ x.cmd = "save" /\ x.char_id = ch /\ db'[ch] = x.data
         /\ Has(m, ch)
<1>1. IF x.cmd = "save" /\ SaveCounts(x) THEN Stores(m, x)
                                         ELSE UNCHANGED <<db, written>>
  BY DEF CharReads
<1>2. CharMapInv /\ db \in [Chars -> SUBSET (1..MaxEdits)]
  BY DEF RollInv, CharMapInv, StoreOK
<1>3. x.cmd = "save" /\ Stores(m, x)
  BY <1>1
<1>4. x.char_id = ch /\ db'[ch] = x.data
  BY <1>2, <1>3 DEF Stores
<1>5. fromMap[m] # <<>> /\ fromMap[m] \in Seq(MapsPacket)
  BY <1>2, ReadsRequest
<1>6. 1 \in 1..Len(fromMap[m]) /\ x = fromMap[m][1]
  BY <1>5
<1> QED
  BY <1>2, <1>3, <1>4, <1>6, Haves

\* A split ends when nobody has the character; it begins when another server has.
LEMMA SplitMoves ==
  ASSUME RollInv, NEW m \in Maps, CharReads(m), NEW n \in Maps,
         NEW ch \in Chars \ split', Has(n, ch)
  PROVE  /\ ch \notin split
         /\ cargo' # cargo /\ ch = Head(fromMap[m]).char_id => n = m
<1> DEFINE x == Head(fromMap[m])
<1>1. \/ x.cmd = "auth_req" /\ LetsIn(m, x)
      \/ UNCHANGED <<cargo, split>>
  BY DEF CharReads
<1>2. CASE UNCHANGED <<cargo, split>>
  BY <1>2
<1>3. CASE LetsIn(m, x)
  <2>1. split' = IF \E k \in Maps \ {m} : Has(k, x.char_id) THEN split \cup {x.char_id}
                 ELSE IF Has(m, x.char_id) THEN split ELSE split \ {x.char_id}
    BY <1>3 DEF LetsIn
  <2>2. CASE ch # x.char_id
    BY <2>1, <2>2
  <2>3. CASE ch = x.char_id
    <3>1. ~\E k \in Maps \ {m} : Has(k, ch)
      BY <2>1, <2>3
    <3>2. n = m
      BY <3>1
    <3> QED
      BY <2>1, <2>3, <3>1, <3>2
  <2> QED
    BY <2>2, <2>3
<1> QED
  BY <1>1, <1>2, <1>3

\* What server n has of a character stays full, unless a save of his goes before it.
LEMMA StaysFull ==
  ASSUME RollInv, NEW m \in Maps, CharReads(m), NEW x, x = Head(fromMap[m]),
         NEW n \in Maps, NEW ch \in Chars, Has(n, ch), NEW data, Full(ch, data),
         n = m /\ x.cmd = "save" /\ x.char_id = ch => x.data \subseteq data
  PROVE  Full(ch, data)'
<1> SUFFICES ASSUME ch \notin split' PROVE db'[ch] \subseteq data
  BY DEF Full
<1>1. ch \notin split /\ ch \in Chars \ split
  BY SplitMoves
<1>2. CASE db'[ch] = db[ch]
  BY <1>1, <1>2 DEF Full
<1>3. CASE db'[ch] # db[ch]
  <2>1. x.cmd = "save" /\ x.char_id = ch /\ db'[ch] = x.data /\ Has(m, ch)
    BY <1>3, StoresMoves
  <2>2. n = m
    BY <1>1, <2>1 DEF RollInv, RollOK, SingleOK
  <2> QED
    BY <2>1, <2>2
<1> QED
  BY <1>2, <1>3

\* The account of a character is who the save names.
LEMMA SameOwner ==
  ASSUME NEW x \in MapsPacket, x.cmd = "save", NEW b \in Accounts, NEW k,
         k \in CharsOf[b], k = x.char_id
  PROVE  Saves(x, b)
<1>1. x.aid \in Accounts /\ k \in CharsOf[x.aid] \cap CharsOf[b]
  BY RequestFields
<1>2. x.aid = b
  BY <1>1, OwnerAssumption
<1> QED
  BY <1>2 DEF Saves

\* Nobody about to be loaded is behind the save that is read.
LEMMA NoneBehind ==
  ASSUME RollInv, NEW m \in Maps, map_fd[m], fromMap[m] # <<>>, NEW b \in Accounts,
         Saves(Head(fromMap[m]), b)
  PROVE  /\ pl[m][b].st # "loaded"
         /\ pl[m][b].st \in {"none", "login"} => ~Admits(toMap[m], b)
<1>1. Trail(fromMap[m], Coming(m), b, pl[m][b]) /\ Coming(m) = toMap[m]
  BY DEF RollInv, RollOK, TrailOK, Coming
<1>2. fromMap[m] \in Seq(MapsPacket)
  BY InvTypes DEF RollInv
<1>3. ~NoSave(fromMap[m], b)
  <2>1. 1 \in 1..Len(fromMap[m]) /\ Head(fromMap[m]) = fromMap[m][1]
    BY <1>2
  <2> QED
    BY <2>1 DEF NoSave
<1> QED
  BY <1>1, <1>3 DEF Trail

LEMMA HeldAfterSave ==
  ASSUME RollInv, NEW m \in Maps, CharReads(m)
  PROVE  HeldOK' /\ SavedOK'
<1> DEFINE f == fromMap[m]
           x == Head(f)
<1>1. /\ CharMapInv /\ TrailOK /\ HeldOK /\ SavedOK
      /\ \A n \in Maps : fromMap[n] \in Seq(MapsPacket)
      /\ fromMap \in [Maps -> Seq(MapsPacket)]
  BY InvTypes DEF RollInv, RollOK, CharMapInv, BoxesOK
<1>2. /\ map_fd[m] /\ f # <<>> /\ x \in MapsPacket
      /\ fromMap' = [fromMap EXCEPT ![m] = Tail(f)] /\ UNCHANGED pl
  BY <1>1, ReadsRequest
<1>3. x = f[1] /\ 1 \in 1..Len(f) /\ Len(f) \in Nat
  BY <1>1, <1>2
<1>4. HeldOK'
  <2> SUFFICES ASSUME NEW n \in Maps, NEW b \in Accounts, pl[n][b].st \in InUse
               PROVE  Full(pl[n][b].ch, pl[n][b].data)'
    BY <1>2 DEF HeldOK, Full
  <2> DEFINE r == pl[n][b]
  <2>1. r.ch \in CharsOf[b] /\ r.ch \in Chars
    BY <1>1, InvTypes, CharCodes DEF PlayerOK, InUse
  <2>2. Full(r.ch, r.data) /\ Has(n, r.ch)
    BY <1>1, Haves DEF HeldOK
  <2> HIDE DEF x
  <2>3. ASSUME n = m, x.cmd = "save", x.char_id = r.ch
        PROVE  x.data \subseteq r.data
    <3>1. Saves(x, b)
      BY <1>2, <2>1, <2>3, SameOwner
    <3>2. r.st # "loaded"
      BY <1>2, <2>3, <3>1, NoneBehind DEF x
    <3>3. Trail(f, Coming(m), b, r)
      BY <1>1, <2>3 DEF TrailOK
    <3> QED
      BY <1>3, <3>1, <3>2, <3>3 DEF Trail, Older, InUse
  <2>4. ASSUME NEW ch \in Chars, NEW data, ch = r.ch, data = r.data
        PROVE  Full(ch, data)'
    BY <2>2, <2>3, <2>4, StaysFull DEF x
  <2> QED
    BY <1>2, <2>1, <2>4 DEF Full
<1>5. SavedOK'
  <2> SUFFICES ASSUME NEW n \in Maps, NEW i \in 1..Len(fromMap'[n]),
                      fromMap'[n][i].cmd = "save"
               PROVE  Full(fromMap[n][i].char_id, fromMap[n][i].data)'
    BY DEF SavedOK
  <2> DEFINE p == fromMap'[n][i]
             ch == p.char_id
             data == p.data
  <2>1. /\ p \in MapsPacket /\ Full(ch, data) /\ Has(n, ch)
        /\ n = m /\ x.cmd = "save" /\ x.char_id = ch => x.data \subseteq data
    <3>1. CASE n # m
      <4>1. fromMap'[n] = fromMap[n]
        BY <1>1, <1>2, <3>1
      <4> QED
        BY <1>1, <3>1, <4>1, Haves DEF SavedOK
    <3>2. CASE n = m
      <4>1. fromMap'[m] = Tail(f)
        BY <1>1, <1>2
      <4>2. i + 1 \in 1..Len(f) /\ p = f[i + 1] /\ 1 < i + 1
        BY <1>1, <1>2, <3>2, <4>1, HeadTailProperties
      <4>3. p \in MapsPacket /\ Full(ch, data) /\ p.cmd = "save"
        BY <1>1, <4>2 DEF SavedOK
      <4>4. Has(m, ch)
        BY <1>1, <4>2, <4>3, Haves
      <4>5. p.aid \in Accounts /\ ch \in CharsOf[p.aid]
        BY <4>3, RequestFields
      <4>6. Saves(p, p.aid)
        BY <4>3 DEF Saves
      <4> HIDE DEF p, x, ch, data
      <4>7. ASSUME x.cmd = "save", x.char_id = ch
            PROVE  x.data \subseteq data
        <5>1. Saves(x, p.aid)
          BY <1>2, <4>5, <4>7, SameOwner
        <5>2. Trail(f, Coming(m), p.aid, pl[m][p.aid])
          BY <1>1, <4>5 DEF TrailOK
        <5>3. Older(x, p.char_id, p.data)
          BY <1>3, <4>2, <4>6, <5>1, <5>2 DEF Trail
        <5> QED
          BY <5>3 DEF Older, data
      <4> QED
        BY <3>2, <4>3, <4>4, <4>7
    <3> QED
      BY <3>1, <3>2
  <2>2. ch \in Chars
    BY <2>1, RequestFields
  <2>3. ASSUME NEW k \in Chars, NEW d, k = ch, d = data PROVE Full(k, d)'
    <3> HIDE DEF ch, data, p
    <3> QED
      BY <2>1, <2>3, StaysFull DEF x
  <2> QED
    BY <2>2, <2>3 DEF Full
<1> QED
  BY <1>4, <1>5

\* What is on its way to a map server is as good as it was.
LEMMA LoadsStillGood ==
  ASSUME RollInv, NEW m \in Maps, CharReads(m), NEW n \in Maps, map_fd[n]
  PROVE  Carries(toMap[n], cargo[n], Good(n)')
<1> DEFINE x == Head(fromMap[m])
<1>1. CharMapInv /\ Carries(toMap[n], cargo[n], Good(n))
  BY DEF RollInv, RollOK, LoadsOK
<1>2. map_fd[m] /\ fromMap[m] # <<>> /\ x \in MapsPacket /\ UNCHANGED pl
  BY <1>1, ReadsRequest
<1>3. ASSUME NEW i \in 1..Len(toMap[n]), NEW d, toMap[n][i].cmd = "auth_ok",
             <<toMap[n][i], d>> \in Good(n)
      PROVE  <<toMap[n][i], d>> \in Good(n)'
  <2> DEFINE y == toMap[n][i]
             b == y.aid
             ch == y.char_id
  <2>1. /\ <<y, d>> \in Anything /\ y \in MapPacket /\ ch \in CharsOf[b]
        /\ pl[n][b].st \in {"none", "login", "loaded"} => Full(ch, d)
    BY <1>3 DEF Good, Anything
  <2>2. b \in Accounts
    BY <2>1 DEF MapPacket
  <2>3. ch \in Chars
    BY <2>1, <2>2, CharCodes
  <2>4. Has(n, ch)
    <3>1. Brings(Coming(n), ch)
      BY <1>3 DEF Brings, Coming
    <3> QED
      BY <1>1, <3>1, Haves
  <2>5. ASSUME pl[n][b].st \in {"none", "login", "loaded"},
               n = m, x.cmd = "save", x.char_id = ch
        PROVE  FALSE
    <3>1. Saves(x, b)
      BY <1>2, <2>1, <2>2, <2>5, SameOwner
    <3>2. ~Admits(toMap[n], b)
      BY <1>2, <2>2, <2>5, <3>1, NoneBehind
    <3>3. Kind(y, b) \in Entry
      BY <1>3 DEF Kind, Entry
    <3> QED
      BY <3>2, <3>3 DEF Admits
  <2> HIDE DEF y, b, ch
  <2>6. ASSUME NEW k \in Chars, k = ch, pl[n][b].st \in {"none", "login", "loaded"}
        PROVE  Full(k, d)'
    BY <2>1, <2>4, <2>5, <2>6, StaysFull
  <2>7. /\ <<y, d>> \in Anything /\ y.char_id \in CharsOf[y.aid]
        /\ pl'[n][y.aid].st \in {"none", "login", "loaded"} =>
             (y.char_id \notin split' => db'[y.char_id] \subseteq d)
    BY <1>2, <2>1, <2>3, <2>6 DEF b, ch, Full
  <2>8. <<y, d>> \in Good(n)'
    BY <2>7 DEF Good, Full
  <2> QED
    BY <2>8 DEF y
<1> QED
  BY <1>1, <1>3, CarriesOther

\* Data of a character sent with the answer that lets him in is all there is.
LEMMA LoadIsGood ==
  ASSUME RollInv, NEW m \in Maps, CharReads(m), NEW x, x = Head(fromMap[m]),
         NEW p \in MapPacket, LoadOf(x, p), x.char_id \in Chars
  PROVE  <<p, db[x.char_id]>> \in Good(m)'
<1> DEFINE d == db[x.char_id]
           ch == x.char_id
<1>1. db \in [Chars -> SUBSET (1..MaxEdits)]
  BY DEF RollInv, CharMapInv, StoreOK
<1>2. <<p, d>> \in Anything
  BY <1>1 DEF Anything
<1>3. x.cmd # "save" /\ p.char_id = ch /\ p.char_id \in CharsOf[p.aid]
  BY DEF LoadOf
<1> HIDE DEF d, ch
<1>4. db'[ch] = d
  BY <1>3, StoresMoves DEF d, ch
<1>5. <<p, d>> \in Good(m)'
  BY <1>2, <1>3, <1>4 DEF Good, Full
<1> QED
  BY <1>5 DEF d

LEMMA LoadsAfterRead ==
  ASSUME RollInv, NEW m \in Maps, CharReads(m), CharMapInv'
  PROVE  LoadsOK'
<1> DEFINE x == Head(fromMap[m])
           t == toMap[m]
<1>1. CharMapInv /\ UNCHANGED map_fd /\ Handled(m, x)
  BY RequestHandled DEF RollInv
<1>2. map_fd[m] /\ x \in MapsPacket
  BY <1>1, ReadsRequest
<1>3. \A n \in Maps : map_fd[n] => Carries(toMap[n], cargo[n], Good(n)')
  BY LoadsStillGood
<1>4. \A n \in Maps : toMap[n] \in Seq(MapPacket) /\ toMap'[n] \in Seq(MapPacket)
  BY <1>1 DEF CharMapInv, TablesInv, QueuesOK
<1>5. /\ cargo \in [Maps -> Seq(SUBSET (1..MaxEdits))]
      /\ db \in [Chars -> SUBSET (1..MaxEdits)]
  BY <1>1 DEF CharMapInv, CargoOK, StoreOK
<1> DEFINE answered(s, p) ==
             /\ Calmer(t, s) /\ toMap'[m] = Append(s, p)
             /\ IF p.cmd = "auth_ok"
                THEN /\ cargo' = [cargo EXCEPT ![m] = Append(@, db[x.char_id])]
                     /\ x.char_id \in Chars /\ LoadOf(x, p)
                ELSE UNCHANGED cargo
<1>7. /\ \A n \in Maps \ {m} : Calmer(toMap[n], toMap'[n])
      /\ \/ Calmer(t, toMap'[m]) /\ UNCHANGED cargo
         \/ \E s \in Seq(MapPacket), p \in MapPacket : answered(s, p)
  BY <1>1 DEF Handled
<1>8. /\ \A n \in Maps \ {m} : cargo'[n] = cargo[n]
      /\ Carries(toMap'[m], cargo'[m], Good(m)')
  <2>1. CASE Calmer(t, toMap'[m]) /\ UNCHANGED cargo
    BY <1>2, <1>3, <1>4, <2>1, CalmCarries
  <2>2. ASSUME NEW s \in Seq(MapPacket), NEW p \in MapPacket, answered(s, p)
        PROVE  /\ \A n \in Maps \ {m} : cargo'[n] = cargo[n]
               /\ Carries(toMap'[m], cargo'[m], Good(m)')
    <3>1. Carries(s, cargo[m], Good(m)') /\ toMap'[m] = Append(s, p)
      BY <1>2, <1>3, <1>4, <2>2, CalmCarries
    <3>2. CASE p.cmd = "auth_ok"
      <4> DEFINE d == db[x.char_id]
      <4>1. LoadOf(x, p) /\ x.char_id \in Chars
        BY <2>2, <3>2
      <4>3. <<p, d>> \in Good(m)'
        BY <4>1, LoadIsGood
      <4>4. d \in SUBSET (1..MaxEdits) /\ cargo[m] \in Seq(SUBSET (1..MaxEdits))
        BY <1>5, <4>1
      <4>5. cargo' = [cargo EXCEPT ![m] = Append(cargo[m], d)]
        BY <1>5, <2>2, <3>2
      <4> HIDE DEF d, answered, x, t
      <4>6. Carries(Append(s, p), Append(cargo[m], d), Good(m)')
        BY <3>1, <3>2, <4>3, <4>4, CarriesAppend
      <4> QED
        BY <1>5, <3>1, <4>5, <4>6
    <3>3. CASE p.cmd # "auth_ok"
      <4>1. UNCHANGED cargo
        BY <2>2, <3>3
      <4>2. Append(s, p) \in Seq(MapPacket) /\ Len(s) <= Len(Append(s, p))
            /\ \A i \in 1..Len(s) : Append(s, p)[i] = s[i]
        OBVIOUS
      <4>3. \A i \in (Len(s) + 1)..Len(Append(s, p)) : Append(s, p)[i].cmd # "auth_ok"
        BY <3>3
      <4>4. Carries(Append(s, p), cargo[m], Good(m)')
        BY <3>1, <4>2, <4>3, CarriesExtended
      <4> QED
        BY <3>1, <4>1, <4>4
    <3> QED
      BY <3>2, <3>3
  <2> HIDE DEF answered
  <2> QED
    BY <1>7, <2>1, <2>2
<1> SUFFICES ASSUME NEW n \in Maps, map_fd[n]
             PROVE  Carries(toMap'[n], cargo'[n], Good(n)')
  BY <1>1 DEF LoadsOK
<1>9. CASE n = m
  BY <1>8, <1>9
<1>10. CASE n # m
  <2>1. Calmer(toMap[n], toMap'[n]) /\ cargo'[n] = cargo[n]
    BY <1>7, <1>8, <1>10
  <2>2. Carries(toMap[n], cargo[n], Good(n)')
    BY <1>3
  <2> HIDE DEF t, x, answered
  <2>3. Carries(toMap'[n], cargo[n], Good(n)')
    BY <1>4, <2>1, <2>2, CalmCarries
  <2> QED
    BY <2>1, <2>3
<1> QED
  BY <1>9, <1>10

LEMMA TrailAfterRead ==
  ASSUME RollInv, NEW m \in Maps, CharReads(m), CharMapInv'
  PROVE  TrailOK'
<1> DEFINE x == Head(fromMap[m])
           t == toMap[m]
           f == fromMap[m]
<1>1. CharMapInv /\ TrailOK /\ UNCHANGED map_fd /\ Handled(m, x)
  BY RequestHandled DEF RollInv, RollOK
<1>2. /\ map_fd[m] /\ f # <<>> /\ f \in Seq(MapsPacket) /\ UNCHANGED pl
      /\ fromMap' = [fromMap EXCEPT ![m] = Tail(f)]
  BY <1>1, ReadsRequest
<1>3. /\ \A n \in Maps : toMap[n] \in Seq(MapPacket) /\ toMap'[n] \in Seq(MapPacket)
      /\ fromMap \in [Maps -> Seq(MapsPacket)]
  BY <1>1 DEF CharMapInv, TablesInv, QueuesOK, BoxesOK
<1>4. /\ \A n \in Maps \ {m} : Calmer(toMap[n], toMap'[n])
      /\ \/ Calmer(t, toMap'[m])
         \/ \E s \in Seq(MapPacket), p \in MapPacket :
              /\ Calmer(t, s) /\ toMap'[m] = Append(s, p)
              /\ \A b : Kind(p, b) \in {"quiet", Kind(x, b)}
  BY <1>1 DEF Handled
<1> SUFFICES ASSUME NEW n \in Maps, NEW b \in Accounts
             PROVE  Trail(fromMap'[n], Coming(n)', b, pl[n][b])
  BY <1>2 DEF TrailOK
<1>5. Trail(fromMap[n], Coming(n), b, pl[n][b]) /\ fromMap[n] \in Seq(MapsPacket)
  BY <1>1, <1>3 DEF TrailOK
<1>6. CASE n # m
  <2>1. fromMap'[n] = fromMap[n]
    BY <1>2, <1>3, <1>6
  <2>2. Admits(Coming(n)', b) => Admits(Coming(n), b)
    BY <1>1, <1>3, <1>4, <1>6, CalmerAdmits DEF Coming
  <2>3. Unsaved(fromMap[n], fromMap[n], b)
    BY <1>5, UnsavedSame
  <2> QED
    BY <1>5, <2>1, <2>2, <2>3, TrailGoesOn
<1>7. CASE n = m
  <2>1. fromMap'[m] = Tail(f) /\ Coming(m) = t /\ Coming(m)' = toMap'[m]
    BY <1>1, <1>2, <1>3 DEF Coming
  <2>2. Admits(toMap'[m], b) => Admits(t, b) \/ Kind(x, b) \in Entry
    <3>1. CASE Calmer(t, toMap'[m])
      BY <1>3, <3>1, CalmerAdmits
    <3>2. ASSUME NEW s \in Seq(MapPacket), NEW p \in MapPacket,
                 Calmer(t, s), toMap'[m] = Append(s, p),
                 Kind(p, b) \in {"quiet", Kind(x, b)}, Admits(toMap'[m], b)
          PROVE  Admits(t, b) \/ Kind(x, b) \in Entry
      <4>1. Admits(s, b) \/ Kind(p, b) \in Entry
        BY <3>2 DEF Admits
      <4>2. Kind(p, b) \in Entry => Kind(x, b) \in Entry
        BY <3>2 DEF Entry
      <4>3. Admits(s, b) => Admits(t, b)
        BY <1>3, <3>2, CalmerAdmits
      <4> QED
        BY <4>1, <4>2, <4>3
    <3> HIDE DEF t, x
    <3> QED
      BY <1>4, <3>1, <3>2
  <2>3. Trail(f, t, b, pl[m][b])
    BY <1>5, <1>7, <2>1
  <2> HIDE DEF f, t
  <2>4. Trail(Tail(f), toMap'[m], b, pl[m][b])
    BY <1>2, <2>2, <2>3, TrailRead DEF x, f
  <2> QED
    BY <1>7, <2>1, <2>4
<1> QED
  BY <1>6, <1>7

\* A server gets a character only by the answer that lets him in.
LEMMA HasAfterRead ==
  ASSUME RollInv, NEW m \in Maps, CharReads(m), CharMapInv',
         NEW n \in Maps, NEW ch \in Chars, Has(n, ch)'
  PROVE  Has(n, ch) \/ (n = m /\ ch = Head(fromMap[m]).char_id /\ cargo' # cargo)
<1> DEFINE x == Head(fromMap[m])
           t == toMap[m]
           f == fromMap[m]
<1>1. CharMapInv /\ UNCHANGED map_fd /\ Handled(m, x)
  BY RequestHandled DEF RollInv
<1>2. /\ map_fd[m] /\ f # <<>> /\ f \in Seq(MapsPacket) /\ UNCHANGED pl
      /\ fromMap' = [fromMap EXCEPT ![m] = Tail(f)]
      /\ fromMap \in [Maps -> Seq(MapsPacket)]
  BY <1>1, ReadsRequest DEF CharMapInv, BoxesOK
<1>3. /\ \A k \in Maps : toMap[k] \in Seq(MapPacket) /\ toMap'[k] \in Seq(MapPacket)
      /\ cargo \in [Maps -> Seq(SUBSET (1..MaxEdits))]
      /\ db \in [Chars -> SUBSET (1..MaxEdits)]
  BY <1>1 DEF CharMapInv, TablesInv, QueuesOK, CargoOK, StoreOK
<1>4. \/ \E a \in Accounts : pl'[n][a].st \in InUse /\ pl'[n][a].ch = ch
      \/ Brings(Coming(n)', ch)
      \/ \E i \in 1..Len(fromMap'[n]) : /\ fromMap'[n][i].cmd = "save"
                                        /\ fromMap'[n][i].char_id = ch
  BY HavesNext
<1>5. CASE \E a \in Accounts : pl'[n][a].st \in InUse /\ pl'[n][a].ch = ch
  BY <1>1, <1>2, <1>5, Haves
<1>6. ASSUME NEW i \in 1..Len(fromMap'[n]), fromMap'[n][i].cmd = "save",
             fromMap'[n][i].char_id = ch
      PROVE  Has(n, ch)
  <2>1. CASE n # m
    <3>1. fromMap'[n] = fromMap[n]
      BY <1>2, <2>1
    <3> QED
      BY <1>1, <1>6, <3>1, Haves
  <2>2. CASE n = m
    <3>1. fromMap'[m] = Tail(f)
      BY <1>2
    <3>2. i + 1 \in 1..Len(f) /\ fromMap'[m][i] = f[i + 1]
      BY <1>2, <1>6, <2>2, <3>1, HeadTailProperties
    <3> QED
      BY <1>1, <1>6, <2>2, <3>2, Haves
  <2> QED
    BY <2>1, <2>2
<1>7. ASSUME Brings(Coming(n)', ch)
      PROVE  Brings(Coming(n), ch) \/ (n = m /\ ch = x.char_id /\ cargo' # cargo)
  <2>1. CASE Calmer(toMap[n], toMap'[n])
    BY <1>1, <1>3, <1>7, <2>1, CalmerBrings DEF Coming
  <2>2. ASSUME n = m, NEW s \in Seq(MapPacket), NEW p \in MapPacket,
               Calmer(t, s), toMap'[m] = Append(s, p),
               IF p.cmd = "auth_ok"
               THEN /\ cargo' = [cargo EXCEPT ![m] = Append(@, db[x.char_id])]
                    /\ x.char_id \in Chars /\ LoadOf(x, p)
               ELSE UNCHANGED cargo
        PROVE  Brings(Coming(n), ch) \/ (n = m /\ ch = x.char_id /\ cargo' # cargo)
    <3>1. Coming(n)' = Append(s, p) /\ Coming(n) = t
      BY <1>1, <1>2, <2>2 DEF Coming
    <3>2. Brings(s, ch) \/ (p.cmd = "auth_ok" /\ p.char_id = ch)
      <4>1. Brings(Append(s, p), ch)
        BY <1>7, <3>1
      <4>2. PICK i \in 1..Len(Append(s, p)) : /\ Append(s, p)[i].cmd = "auth_ok"
                                              /\ Append(s, p)[i].char_id = ch
        BY <4>1 DEF Brings
      <4>3. \/ i \in 1..Len(s) /\ Append(s, p)[i] = s[i]
            \/ Append(s, p)[i] = p
        OBVIOUS
      <4> QED
        BY <4>2, <4>3 DEF Brings
    <3>3. CASE Brings(s, ch)
      <4>1. t \in Seq(MapPacket)
        BY <1>3
      <4> HIDE DEF t
      <4>2. Brings(t, ch)
        BY <2>2, <3>3, <4>1, CalmerBrings
      <4> QED
        BY <3>1, <4>2
    <3>4. CASE p.cmd = "auth_ok" /\ p.char_id = ch
      <4>1. x.char_id = ch
        BY <2>2, <3>4 DEF LoadOf
      <4> DEFINE c == cargo[m]
                 d == db[x.char_id]
      <4>2. c \in Seq(SUBSET (1..MaxEdits)) /\ d \in SUBSET (1..MaxEdits)
        BY <1>3, <2>2, <3>4
      <4>3. cargo'[m] = Append(c, d)
        BY <1>3, <2>2, <3>4
      <4> HIDE DEF c, d
      <4>4. Len(Append(c, d)) # Len(c)
        BY <4>2
      <4>5. cargo' # cargo
        BY <4>3, <4>4 DEF c
      <4> QED
        BY <2>2, <4>1, <4>5
    <3> QED
      BY <3>2, <3>3, <3>4
  <2>3. n = m => \/ Calmer(t, toMap'[m])
                 \/ \E s \in Seq(MapPacket), p \in MapPacket :
                      /\ Calmer(t, s) /\ toMap'[m] = Append(s, p)
                      /\ IF p.cmd = "auth_ok"
                         THEN /\ cargo' = [cargo EXCEPT ![m] = Append(@, db[x.char_id])]
                              /\ x.char_id \in Chars /\ LoadOf(x, p)
                         ELSE UNCHANGED cargo
    BY <1>1 DEF Handled
  <2>4. n # m => Calmer(toMap[n], toMap'[n])
    BY <1>1 DEF Handled
  <2> HIDE DEF x
  <2> QED
    BY <2>1, <2>2, <2>3, <2>4
<1> QED
  BY <1>1, <1>4, <1>5, <1>6, <1>7, Haves

LEMMA CharReadsRolls ==
  ASSUME RollInv, NEW m \in Maps, CharReads(m), CharMapInv'
  PROVE  RollOK'
<1>1. SingleOK'
  <2> SUFFICES ASSUME NEW n \in Maps, NEW k \in Maps, NEW ch \in Chars \ split',
                      Has(n, ch)', Has(k, ch)'
               PROVE  n = k
    BY DEF SingleOK
  <2>1. \A l \in {n, k} : \/ Has(l, ch)
                          \/ l = m /\ ch = Head(fromMap[m]).char_id /\ cargo' # cargo
    BY HasAfterRead
  <2>2. \A l \in {n, k} : Has(l, ch) =>
          /\ ch \in Chars \ split
          /\ cargo' # cargo /\ ch = Head(fromMap[m]).char_id => l = m
    BY SplitMoves
  <2>3. Has(n, ch) /\ Has(k, ch) => n = k
    BY <2>2 DEF RollInv, RollOK, SingleOK
  <2> QED
    BY <2>1, <2>2, <2>3
<1> QED
  BY <1>1, HeldAfterSave, LoadsAfterRead, TrailAfterRead DEF RollOK

----------------------------------------------------------------------------
(* Links *)

\* The link of m breaks or is made again: f is what m has written since, last saves
\* among it, and nothing is on its way to m.
LEMMA LinkRolls ==
  ASSUME RollInv, CharMapInv', NEW m \in Maps, NEW f \in Seq(MapsPacket),
         fromMap' = [fromMap EXCEPT ![m] = f], Coming(m)' = <<>>,
         map_fd'[m] => toMap'[m] = <<>>,
         cargo' = [cargo EXCEPT ![m] = <<>>],
         \A n \in Maps \ {m} : /\ map_fd'[n] = map_fd[n] /\ toMap'[n] = toMap[n]
                               /\ pl'[n] = pl[n],
         UNCHANGED <<db, split>>,
         \A a \in Accounts : pl'[m][a].st \in InUse => pl'[m][a] = pl[m][a],
         \A a \in Accounts : \A i \in 1..Len(f) : Saves(f[i], a) =>
           /\ pl'[m][a].st = "logout" /\ f[i].char_id = pl'[m][a].ch
           /\ f[i].data = pl'[m][a].data
  PROVE  RollOK'
<1>1. /\ CharMapInv /\ TrailOK /\ SingleOK /\ HeldOK /\ SavedOK /\ LoadsOK
      /\ fromMap \in [Maps -> Seq(MapsPacket)]
      /\ cargo \in [Maps -> Seq(SUBSET (1..MaxEdits))]
  BY DEF RollInv, RollOK, CharMapInv, BoxesOK, CargoOK
<1>2. /\ fromMap'[m] = f /\ cargo'[m] = <<>>
      /\ \A n \in Maps \ {m} : /\ fromMap'[n] = fromMap[n] /\ cargo'[n] = cargo[n]
                               /\ Coming(n)' = Coming(n)
  BY <1>1 DEF Coming
<1>3. TrailOK'
  <2> SUFFICES ASSUME NEW n \in Maps, NEW a \in Accounts
               PROVE  Trail(fromMap'[n], Coming(n)', a, pl'[n][a])
    BY DEF TrailOK
  <2>1. CASE n = m
    <3>1. Trail(f, <<>>, a, pl'[m][a])
      BY TrailAnew
    <3> QED
      BY <1>2, <2>1, <3>1
  <2>2. CASE n # m
    BY <1>1, <1>2, <2>2 DEF TrailOK
  <2> QED
    BY <2>1, <2>2
<1>4. HeldOK'
  <2> SUFFICES ASSUME NEW n \in Maps, NEW a \in Accounts, pl'[n][a].st \in InUse
               PROVE  Full(pl[n][a].ch, pl[n][a].data)'
    BY DEF HeldOK
  <2>1. pl'[n][a] = pl[n][a]
    OBVIOUS
  <2> QED
    BY <1>1, <2>1 DEF HeldOK, Full
\* A new save is the last of a session.
<1>5. ASSUME NEW i \in 1..Len(f), f[i].cmd = "save"
      PROVE  \E a \in Accounts : /\ pl'[m][a].st = "logout" /\ pl'[m][a] = pl[m][a]
                                 /\ f[i].char_id = pl'[m][a].ch
                                 /\ f[i].data = pl'[m][a].data
  <2>1. f[i] \in MapsPacket
    BY <1>5
  <2>2. f[i].aid \in Accounts
    BY <1>5, <2>1, RequestFields
  <2>3. Saves(f[i], f[i].aid)
    BY <1>5 DEF Saves
  <2> QED
    BY <2>2, <2>3 DEF InUse
<1>6. SavedOK'
  <2> SUFFICES ASSUME NEW n \in Maps, NEW i \in 1..Len(fromMap'[n]),
                      fromMap'[n][i].cmd = "save"
               PROVE  Full(fromMap[n][i].char_id, fromMap[n][i].data)'
    BY DEF SavedOK
  <2>1. CASE n = m
    <3>1. PICK a \in Accounts : /\ pl'[m][a].st = "logout" /\ pl'[m][a] = pl[m][a]
                                /\ f[i].char_id = pl'[m][a].ch
                                /\ f[i].data = pl'[m][a].data
      BY <1>2, <1>5, <2>1
    <3>2. pl[m][a].st \in InUse
      BY <3>1 DEF InUse
    <3> QED
      BY <1>1, <1>2, <2>1, <3>1, <3>2 DEF HeldOK, Full
  <2>2. CASE n # m
    BY <1>1, <1>2, <2>2 DEF SavedOK, Full
  <2> QED
    BY <2>1, <2>2
<1>7. LoadsOK'
  <2> SUFFICES ASSUME NEW n \in Maps, map_fd'[n]
               PROVE  Carries(toMap'[n], cargo'[n], Good(n)')
    BY DEF LoadsOK
  <2>1. CASE n = m
    BY <1>2, <2>1, CarriesEmpty
  <2>2. CASE n # m
    <3>1. Good(n)' = Good(n)
      BY <2>2 DEF Good, Full
    <3>2. Carries(toMap[n], cargo[n], Good(n))
      BY <1>1, <2>2 DEF LoadsOK
    <3> QED
      BY <1>2, <2>2, <3>1, <3>2
  <2> QED
    BY <2>1, <2>2
<1>8. ASSUME NEW n \in Maps, NEW ch \in Chars, Has(n, ch)'
      PROVE  Has(n, ch)
  <2>1. \/ \E a \in Accounts : pl'[n][a].st \in InUse /\ pl'[n][a].ch = ch
        \/ Brings(Coming(n)', ch)
        \/ \E i \in 1..Len(fromMap'[n]) : /\ fromMap'[n][i].cmd = "save"
                                          /\ fromMap'[n][i].char_id = ch
    BY <1>8, HavesNext
  <2>2. CASE n # m
    <3>1. /\ pl'[n] = pl[n] /\ fromMap'[n] = fromMap[n]
          /\ Coming(n)' = Coming(n)
      BY <1>2, <2>2
    <3>2. Brings(Coming(n)', ch) => Brings(Coming(n), ch)
      BY <3>1 DEF Brings
    <3>3. \/ \E a \in Accounts : pl[n][a].st \in InUse /\ pl[n][a].ch = ch
          \/ Brings(Coming(n), ch)
          \/ \E i \in 1..Len(fromMap[n]) : /\ fromMap[n][i].cmd = "save"
                                           /\ fromMap[n][i].char_id = ch
      BY <2>1, <3>1, <3>2
    <3> QED
      BY <1>1, <3>3, Haves
  <2>3. CASE n = m
    <3>1. ~Brings(Coming(m)', ch)
      BY DEF Brings
    <3>2. \E a \in Accounts : pl'[m][a].st \in InUse /\ pl'[m][a].ch = ch
      BY <1>2, <1>5, <2>1, <2>3, <3>1 DEF InUse
    <3> QED
      BY <1>1, <2>3, <3>2, Haves
  <2> QED
    BY <2>2, <2>3
<1>9. SingleOK'
  BY <1>1, <1>8, StaysSingle
<1> QED
  BY <1>3, <1>4, <1>6, <1>7, <1>9 DEF RollOK

\* What was under way is lost; what is held stays.
LEMMA LinkBreaksRolls ==
  ASSUME RollInv, CharMapInv', NEW m \in Maps, LinkBreaks(m)
  PROVE  RollOK'
<1>1. /\ MapDisconnects(m)
      /\ fromMap' = [fromMap EXCEPT ![m] = <<>>]
      /\ cargo' = [cargo EXCEPT ![m] = <<>>]
      /\ UNCHANGED <<pl, db, split>>
  BY DEF LinkBreaks
<1>2. CharMapInv
  BY DEF RollInv
<1>3. map_fd' = [map_fd EXCEPT ![m] = FALSE] /\ UNCHANGED toMap
  BY <1>1 DEF MapDisconnects
<1>4. ~map_fd'[m] /\ \A n \in Maps \ {m} : map_fd'[n] = map_fd[n]
  BY <1>2, <1>3, InvTypes
<1>5. Coming(m)' = <<>>
  BY <1>4 DEF Coming
<1> DEFINE e == <<>>
<1>6. /\ e \in Seq(MapsPacket) /\ fromMap' = [fromMap EXCEPT ![m] = e]
      /\ 1..Len(e) = {}
  BY <1>1
<1> HIDE DEF e
<1>7. \A a \in Accounts : \A i \in 1..Len(e) : Saves(e[i], a) =>
        /\ pl'[m][a].st = "logout" /\ e[i].char_id = pl'[m][a].ch
        /\ e[i].data = pl'[m][a].data
  BY <1>6
<1> QED
  BY <1>1, <1>3, <1>4, <1>5, <1>6, <1>7, LinkRolls

\* What is written when the link is made again is either no save, or the last save
\* of a session.
LEMMA AnnouncedSaves ==
  ASSUME CharMapInv, NEW m \in Maps, NEW i \in 1..Len(Announced(m)), NEW a,
         Saves(Announced(m)[i], a)
  PROVE  /\ pl[m][a].st = "logout" /\ Announced(m)[i].char_id = pl[m][a].ch
         /\ Announced(m)[i].data = pl[m][a].data
<1> DEFINE p == Announced(m)[i]
<1>1. PICK b \in Nodes(m) : p = NodePacket(m, b)
  BY AnnouncedOK DEF Saves
<1>2. p.cmd = "save" /\ p.aid = a
  BY DEF Saves
<1> HIDE DEF p
<1>3. ~LoggingIn(m, b)
  BY <1>1, <1>2 DEF NodePacket, GivesUp, OfflineOf
<1>4. p = SaveOf(m, b, TRUE)
  BY <1>1, <1>3 DEF NodePacket, GivesUp
<1>5. b = a /\ p.char_id = pl[m][b].ch /\ p.data = pl[m][b].data
  BY <1>2, <1>4 DEF SaveOf
<1>6. pl[m][b].st = "logout"
  BY <1>3 DEF Nodes, LoggingIn
<1> QED
  BY <1>5, <1>6 DEF p

LEMMA ReconnectsRolls ==
  ASSUME RollInv, CharMapInv', NEW m \in Maps, Reconnects(m)
  PROVE  RollOK'
<1> DEFINE f == Announced(m)
<1>1. /\ MapConnects(m)
      /\ fromMap' = [fromMap EXCEPT ![m] = f]
      /\ pl' = [pl EXCEPT ![m] = [a \in Accounts |->
                  IF GivesUp(m, a) THEN Gone ELSE pl[m][a]]]
      /\ UNCHANGED <<cargo, db, split>>
  BY DEF Reconnects, Announced
<1>2. CharMapInv
  BY DEF RollInv
<1>3. /\ ~map_fd[m] /\ map_fd' = [map_fd EXCEPT ![m] = TRUE]
      /\ toMap' = [toMap EXCEPT ![m] = <<>>]
  BY <1>1 DEF MapConnects
<1>4. /\ map_fd'[m] /\ toMap'[m] = <<>>
      /\ \A n \in Maps \ {m} : map_fd'[n] = map_fd[n] /\ toMap'[n] = toMap[n]
  BY <1>2, <1>3, InvTypes DEF CharMapInv, TablesInv, QueuesOK
<1>5. f \in Seq(MapsPacket) /\ Coming(m)' = <<>>
  BY <1>2, <1>4, AnnouncedOK DEF Coming
<1>6. cargo' = [cargo EXCEPT ![m] = <<>>]
  BY <1>1, <1>2, <1>3 DEF CharMapInv, CargoOK
<1>7. /\ \A n \in Maps \ {m} : pl'[n] = pl[n]
      /\ \A a \in Accounts : pl'[m][a] = IF LoggingIn(m, a) THEN Gone ELSE pl[m][a]
  BY <1>1, <1>2 DEF CharMapInv, PlayersOK, GivesUp
<1>8. \A a \in Accounts : pl'[m][a].st \in InUse => pl'[m][a] = pl[m][a]
  BY <1>7 DEF Gone, InUse
<1>9. ASSUME NEW a \in Accounts, NEW i \in 1..Len(f), Saves(f[i], a)
      PROVE  /\ pl'[m][a].st = "logout" /\ f[i].char_id = pl'[m][a].ch
             /\ f[i].data = pl'[m][a].data
  <2>1. /\ pl[m][a].st = "logout" /\ f[i].char_id = pl[m][a].ch
        /\ f[i].data = pl[m][a].data
    BY <1>2, <1>9, AnnouncedSaves
  <2>2. pl'[m][a] = pl[m][a]
    BY <1>7, <2>1 DEF LoggingIn
  <2> QED
    BY <2>1, <2>2
<1>10. \A n \in Maps \ {m} : /\ map_fd'[n] = map_fd[n] /\ toMap'[n] = toMap[n]
                             /\ pl'[n] = pl[n]
  BY <1>4, <1>7
<1> HIDE DEF f
<1> QED
  BY <1>1, <1>4, <1>5, <1>6, <1>8, <1>9, <1>10, LinkRolls

----------------------------------------------------------------------------
(* The whole system *)

LEMMA RollInvInit == CharMapInit => RollInv
<1> SUFFICES ASSUME CharMapInit PROVE RollInv
  OBVIOUS
<1>1. CharMapInv
  BY CharMapInitOK
<1>2. /\ \A m \in Maps : /\ fromMap[m] = <<>> /\ toMap[m] = <<>> /\ cargo[m] = <<>>
                         /\ map_fd[m] /\ Coming(m) = <<>>
      /\ \A m \in Maps, a \in Accounts : pl[m][a] = Gone
  BY DEF CharMapInit, Coming
<1>3. 1..Len(<<>>) = {}
  OBVIOUS
<1>4. TrailOK
  <2>1. \A a \in Accounts : Trail(<<>>, <<>>, a, Gone)
    BY <1>3, TrailAnew
  <2> QED
    BY <1>2, <2>1 DEF TrailOK
<1>5. HeldOK /\ SavedOK
  BY <1>2, <1>3 DEF HeldOK, SavedOK, Gone, InUse
<1>6. LoadsOK
  BY <1>2, CarriesEmpty DEF LoadsOK
<1>7. SingleOK
  <2>1. \A m \in Maps, ch \in Chars : ~Has(m, ch)
    BY <1>1, <1>2, <1>3, Haves DEF Brings, Gone, InUse
  <2> QED
    BY <2>1 DEF SingleOK
<1> QED
  BY <1>1, <1>4, <1>5, <1>6, <1>7 DEF RollInv, RollOK

LEMMA RollInvStep ==
  Patient /\ RollInv /\ [CharMapNext]_cm_vars => RollInv'
<1> SUFFICES ASSUME Patient, RollInv, [CharMapNext]_cm_vars PROVE RollInv'
  OBVIOUS
<1>1. CharMapInv'
  BY CharMapStep DEF RollInv
<1>2. CASE UNCHANGED cm_vars
  <2>1. UNCHANGED <<map_fd, toMap>>
    BY <1>2 DEF cm_vars, char_vars
  <2>2. UNCHANGED <<fromMap, cargo, pl, db, split>>
    BY <1>2 DEF cm_vars, map_vars
  <2>3. \A n : Coming(n)' = Coming(n) /\ Good(n)' = Good(n)
    BY <2>1, <2>2 DEF Coming, Good, Full
  <2>4. TrailOK /\ SingleOK /\ HeldOK /\ SavedOK /\ LoadsOK
    BY DEF RollInv, RollOK
  <2>5. TrailOK' /\ HeldOK' /\ SavedOK'
    BY <2>2, <2>3, <2>4 DEF TrailOK, HeldOK, SavedOK, Full
  <2>6. LoadsOK'
    BY <2>1, <2>2, <2>3, <2>4 DEF LoadsOK
  <2>7. \A n \in Maps, ch \in Chars : Has(n, ch)' => Has(n, ch)
    BY <2>1, <2>2 DEF Has
  <2>8. SingleOK'
    BY <2>2, <2>4, <2>7, StaysSingle
  <2> QED
    BY <1>1, <2>5, <2>6, <2>8 DEF RollInv, RollOK
<1>3. ASSUME NEW m \in Maps, NEW a \in Accounts, PlayerStep(m, a) \/ ServerStep(m, a)
      PROVE  RollOK'
  BY <1>1, <1>3, MapAloneRolls
<1>4. ASSUME NEW m \in Maps,
             \/ MapReads(m) \/ CharReads(m)
             \/ LinkBreaks(m) \/ Reconnects(m)
      PROVE  RollOK'
  BY <1>1, <1>4, MapReadsRolls, CharReadsRolls, LinkBreaksRolls, ReconnectsRolls
<1>5. ASSUME \/ \E fd \in Fds : \/ \E a \in Accounts : NewLogin(fd, a) \/ Returns(fd, a)
                                \/ \E ch \in Chars : Selects(fd, ch)
                                \/ LeavesList(fd)
             \/ \E a \in Accounts : KickedByLogin(a)
             \/ \E t \in CharTids : WaitingDisconnects(t)
             \/ CleansUp
      PROVE  RollOK'
  BY <1>5, CharAloneRolls
<1> QED
  BY <1>1, <1>2, <1>3, <1>4, <1>5 DEF CharMapNext, RollInv

\* What a save may undo.
LEMMA SaveKeeps ==
  ASSUME RollInv, NEW m \in Maps, NEW ch \in Chars, CharReads(m),
         ~(db[ch] \subseteq db'[ch])
  PROVE  ch \in split
<1> DEFINE x == Head(fromMap[m])
<1>1. x.cmd = "save" /\ x.char_id = ch /\ db'[ch] = x.data
  BY StoresMoves
<1>2. CharMapInv /\ SavedOK
  BY DEF RollInv, RollOK
<1>3. fromMap[m] # <<>> /\ fromMap[m] \in Seq(MapsPacket)
  BY <1>2, ReadsRequest
<1>4. 1 \in 1..Len(fromMap[m]) /\ x = fromMap[m][1]
  BY <1>3
<1> QED
  BY <1>1, <1>2, <1>4 DEF SavedOK, Full

\* While clients are patient, a save never undoes what the char server has of a
\* character, over links that break and are made again, unless the character was let
\* in on a map server while another still had him: a map server lets an account in
\* again only when its last save was acknowledged, so on one server no load overtakes
\* a save and no save comes after a newer one (chrif_save, chrif_save_ack,
\* chrif_on_ready, clif_parse_WantToConnection, char_parse_frommap_save_character).
THEOREM CharKeepsEdits == Patient => (CharMapSpec => NoRollback)
<1> SUFFICES ASSUME Patient PROVE CharMapSpec => NoRollback
  OBVIOUS
<1>1. RollInv /\ [CharMapNext]_cm_vars =>
        /\ RollInv'
        /\ [\A m \in Maps, ch \in Chars :
              CharReads(m) /\ ~(db[ch] \subseteq db'[ch]) => ch \in split]_cm_vars
  BY SaveKeeps, RollInvStep
<1> QED
  BY <1>1, RollInvInit, PTL DEF CharMapSpec, NoRollback
=============================================================================
