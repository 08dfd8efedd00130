------------------------- MODULE GuildStorageProofs -------------------------
(***************************************************************************)
(* The guild storage, for any number of members and goods, any number of   *)
(* packets under way and any number of broken links: it is free or in one  *)
(* pair of hands, and what members see of it is a vault.                   *)
(***************************************************************************)
EXTENDS GuildStorage, SequenceTheorems, TLAPS

\* What the servers write to each other.
ToChar == [cmd : {"req", "bound"}, who : Members]
            \cup [cmd : {"store"}, items : SUBSET Goods]
ToMap  == [cmd : {"load"}, who : Members, open : BOOLEAN, items : SUBSET Goods]
            \cup [cmd : {"saved", "unlock"}]
Storages == [cached : BOOLEAN, items : SUBSET Goods, status : BOOLEAN,
             dirty : BOOLEAN, lock : BOOLEAN]

PacketsOK == toChar \in Seq(ToChar) /\ toMap \in Seq(ToMap)
UseInv    == GuildTypeOK /\ PacketsOK /\ linked \in BOOLEAN /\ Held

----------------------------------------------------------------------------
(* Packets *)

LEMMA SingleSeq == ASSUME NEW S, NEW x \in S PROVE <<x>> \in Seq(S)
OBVIOUS

LEMMA SendsOK ==
  ASSUME UseInv, NEW p \in ToChar, Sends(p)
  PROVE  toChar' \in Seq(ToChar) /\ (~linked => toChar' = <<>>)
BY DEF UseInv, PacketsOK, GuildTypeOK, Sends

LEMMA StoreOK == UseInv => Store \in ToChar
BY DEF UseInv, GuildTypeOK, Store, ToChar

LEMMA SaveOK ==
  ASSUME UseInv, Save
  PROVE  /\ toChar' \in Seq(ToChar) /\ (~linked => toChar' = <<>>)
         /\ unsaved' \in BOOLEAN /\ lost' \in BOOLEAN
<1>1. CASE UNCHANGED <<toChar, unsaved, lost>>
  BY <1>1 DEF UseInv, PacketsOK, GuildTypeOK
<1>2. CASE Sends(Store) /\ unsaved' = FALSE /\ lost' = (lost /\ ~linked)
  BY <1>2, SendsOK, StoreOK
<1> QED
  BY <1>1, <1>2 DEF Save

\* A storage is its five fields.
LEMMA SameStorage ==
  ASSUME NEW r \in Storages, NEW s \in Storages,
         r.cached = s.cached, r.items = s.items, r.status = s.status,
         r.dirty = s.dirty, r.lock = s.lock
  PROVE  r = s
BY DEF Storages

LEMMA CloseOK ==
  ASSUME UseInv, NEW m \in Members, Close(m)
  PROVE  /\ toChar' \in Seq(ToChar) /\ (~linked => toChar' = <<>>)
         /\ stor' = [stor EXCEPT !.status = FALSE]
         /\ stor' \in Storages /\ stor'.status = FALSE
         /\ ~stor'.cached => stor' = Uncached
         /\ shut' = flag \ {m} /\ unsaved' \in BOOLEAN /\ lost' \in BOOLEAN
<1>1. /\ toChar' \in Seq(ToChar) /\ (~linked => toChar' = <<>>)
      /\ unsaved' \in BOOLEAN /\ lost' \in BOOLEAN
  <2>1. CASE Save
    BY <2>1, SaveOK
  <2>2. CASE UNCHANGED <<toChar, unsaved, lost>>
    BY <2>2 DEF UseInv, PacketsOK, GuildTypeOK
  <2>3. CASE unsaved' = (unsaved \/ stor.dirty) /\ UNCHANGED <<toChar, lost>>
    BY <2>3 DEF UseInv, PacketsOK, GuildTypeOK
  <2> QED
    BY <2>1, <2>2, <2>3 DEF Close
<1>2. stor' = [stor EXCEPT !.status = FALSE] /\ stor \in Storages
  BY DEF Close, UseInv, GuildTypeOK, Storages
<1>3. stor' \in Storages /\ stor'.status = FALSE
  BY <1>2 DEF Storages
<1>4. ~stor'.cached => stor' = Uncached
  <2>1. stor'.cached = stor.cached
    BY <1>2 DEF Storages
  <2>2. [Uncached EXCEPT !.status = FALSE] \in Storages /\ Uncached \in Storages
    BY DEF Uncached, Storages
  <2>3. [Uncached EXCEPT !.status = FALSE] = Uncached
    BY <2>2, SameStorage DEF Uncached
  <2> QED
    BY <1>2, <2>1, <2>3 DEF UseInv, GuildTypeOK
<1>5. shut' = flag \ {m}
  BY DEF Close
<1> QED
  BY <1>1, <1>2, <1>3, <1>4, <1>5

----------------------------------------------------------------------------
(* Steps of members *)

LEMMA OpeningOK ==
  ASSUME UseInv, NEW m \in Members,
         Requests(m) \/ Opens(m) \/ AutoSaves(m) \/ Comes(m)
  PROVE  UseInv'
<1>1. CASE Requests(m)
  <2>1. [cmd |-> "req", who |-> m] \in ToChar
    BY DEF ToChar
  <2>2. toChar' \in Seq(ToChar) /\ (~linked => toChar' = <<>>)
    BY <1>1, <2>1, SendsOK DEF Requests
  <2> QED
    BY <1>1, <2>2 DEF Requests, Alone, history, UseInv, PacketsOK, GuildTypeOK, Held
<1>2. CASE Opens(m)
  <2>1. stor \in Storages /\ stor' = [stor EXCEPT !.status = TRUE] /\ stor.cached
    BY <1>2 DEF Opens, UseInv, GuildTypeOK, Storages
  <2>2. stor' \in Storages /\ stor'.status /\ stor'.cached
    BY <2>1 DEF Storages
  <2>3. flag = shut /\ m \notin flag
    BY <1>2 DEF Opens, MayOpen, UseInv, GuildTypeOK, Held
  <2>4. flag' \ shut' = {m}
    BY <1>2, <2>3 DEF Opens, history
  <2> QED
    BY <1>2, <2>2, <2>4
       DEF Opens, Alone, history, UseInv, PacketsOK, GuildTypeOK, Held, Storages
<1>3. CASE AutoSaves(m)
  BY <1>3, SaveOK
     DEF AutoSaves, Alone, UseInv, PacketsOK, GuildTypeOK, Held
<1>4. CASE Comes(m)
  BY <1>4 DEF Comes, history, UseInv, PacketsOK, GuildTypeOK, Held
<1> QED
  BY <1>1, <1>2, <1>3, <1>4

LEMMA MovingOK ==
  ASSUME UseInv, NEW m \in Members, NEW g \in Goods, Adds(m, g) \/ Gets(m, g)
  PROVE  UseInv'
<1>1. stor \in Storages /\ stor.cached /\ stor.status
  BY DEF Adds, Gets, UseInv, GuildTypeOK, Uncached, Storages
<1>2. /\ stor' \in Storages /\ stor'.cached /\ stor'.status
  <2>1. CASE Adds(m, g)
    BY <1>1, <2>1 DEF Adds, Storages
  <2>2. CASE Gets(m, g)
    BY <1>1, <2>2 DEF Gets, Storages
  <2> QED
    BY <2>1, <2>2
<1>3. inv' \in [Members -> SUBSET Goods]
  BY DEF Adds, Gets, UseInv, GuildTypeOK
<1> QED
  BY <1>2, <1>3
     DEF Adds, Gets, Alone, history, UseInv, PacketsOK, GuildTypeOK, Held, Storages

LEMMA ClosingOK ==
  ASSUME UseInv, NEW m \in Members, Closes(m) \/ Quits(m)
  PROVE  UseInv'
<1>1. CASE m \in flag
  <2>1. Close(m) /\ flag' = flag \ {m}
    BY <1>1 DEF Closes, Quits
  <2>2. shut' = flag'
    BY <2>1, CloseOK
  <2> QED
    BY <2>1, <2>2, CloseOK
       DEF Closes, Quits, Alone, UseInv, PacketsOK, GuildTypeOK, Held, Storages
<1>2. CASE m \notin flag
  BY <1>2 DEF Closes, Quits, UseInv, PacketsOK, GuildTypeOK, Held
<1> QED
  BY <1>1, <1>2

LEMMA LeavingOK ==
  ASSUME UseInv, NEW m \in Members, Leaves(m)
  PROVE  UseInv'
<1> DEFINE back == inv[m] \cap Bound
           now  == [stor EXCEPT !.items = @ \cup back, !.status = FALSE,
                                !.dirty = @ \/ back # {}]
<1>1. stor \in Storages /\ back \subseteq Goods /\ linked
  BY DEF Leaves, UseInv, GuildTypeOK, Storages
<1>2. /\ stor' \in Storages /\ ~stor'.status
      /\ ~stor'.cached => stor' = Uncached
  <2>1. CASE stor.cached
    BY <1>1, <2>1 DEF Leaves, Storages
  <2>2. CASE ~stor.cached
    BY <1>1, <2>2 DEF Leaves, UseInv, GuildTypeOK, Uncached
  <2> QED
    BY <2>1, <2>2
<1>3. toChar' \in Seq(ToChar)
  <2>1. now.items \in SUBSET Goods
    BY <1>1 DEF Storages
  <2>2. [cmd |-> "store", items |-> now.items] \in ToChar
    BY <2>1 DEF ToChar
  <2> HIDE DEF now
  <2>3. \/ toChar' = toChar
        \/ toChar' = Append(toChar, [cmd |-> "store", items |-> now.items])
    BY DEF Leaves, now
  <2> QED
    BY <2>2, <2>3 DEF UseInv, PacketsOK
<1>5. inv' \in [Members -> SUBSET Goods] /\ destroyed' \subseteq Goods
  BY DEF Leaves, UseInv, GuildTypeOK
<1>6. shut' = flag' /\ flag' = flag \ {m} /\ guild' = guild \ {m}
  BY DEF Leaves
<1>7. unsaved' \in BOOLEAN /\ lost' \in BOOLEAN
  BY DEF Leaves, UseInv, GuildTypeOK
<1> HIDE DEF back, now
<1> QED
  BY <1>1, <1>2, <1>3, <1>5, <1>6, <1>7
     DEF Leaves, UseInv, PacketsOK, GuildTypeOK, Held, Storages

LEMMA PullOK ==
  ASSUME UseInv, NEW m \in Members, Pull(m)
  PROVE  UseInv'
<1> DEFINE bound == [cmd |-> "bound", who |-> m]
<1>1. stor \in Storages /\ linked /\ bound \in ToChar
  BY DEF Pull, UseInv, GuildTypeOK, Storages, ToChar
<1>2. /\ stor' \in Storages /\ stor'.cached = stor.cached
      /\ stor.cached => ~stor'.status
      /\ ~stor.cached => stor' = stor
  BY <1>1 DEF Pull, Storages
<1>3. /\ toChar' \in Seq(ToChar) /\ flag' \subseteq flag
      /\ unsaved' \in BOOLEAN /\ lost' \in BOOLEAN
      /\ shut' \subseteq flag' /\ flag' \subseteq shut'
  <2>1. Append(toChar, bound) \in Seq(ToChar)
    BY <1>1 DEF UseInv, PacketsOK
  <2>2. CASE stor.status
    <3>1. PICK n \in flag :
            /\ flag' = flag \ {n} /\ shut' = flag \ {n}
            /\ \/ /\ stor.dirty
                  /\ toChar' = toChar \o <<Store>> \o <<bound>>
                  /\ unsaved' = FALSE /\ lost' = FALSE
               \/ /\ ~stor.dirty \/ MaySkip(n)
                  /\ toChar' = Append(toChar, bound)
                  /\ unsaved' = (unsaved \/ stor.dirty)
                  /\ UNCHANGED lost
      BY <2>2 DEF Pull
    <3>2. Store \in ToChar
      BY StoreOK
    <3> HIDE DEF Store, bound
    <3>3. <<Store>> \in Seq(ToChar) /\ <<bound>> \in Seq(ToChar)
      BY <1>1, <3>2
    <3>4. toChar \o <<Store>> \o <<bound>> \in Seq(ToChar)
      BY <3>3, ConcatProperties DEF UseInv, PacketsOK
    <3> QED
      BY <2>1, <3>1, <3>4 DEF UseInv, GuildTypeOK
  <2>3. CASE ~stor.status
    BY <2>1, <2>3 DEF Pull, UseInv, GuildTypeOK, Held
  <2> QED
    BY <2>2, <2>3
<1>5. ~stor'.cached => stor' = Uncached
  BY <1>2 DEF UseInv, GuildTypeOK
<1>6. ~stor'.status
  BY <1>2 DEF UseInv, GuildTypeOK, Uncached
<1> HIDE DEF bound
<1> QED
  BY <1>1, <1>2, <1>3, <1>5, <1>6
     DEF Pull, UseInv, PacketsOK, GuildTypeOK, Held, Storages

LEMMA ClearingOK ==
  ASSUME UseInv, NEW m \in Members, Clears(m)
  PROVE  UseInv'
<1>1. PICK kept \in SUBSET stor.items :
        /\ stor' = [stor EXCEPT !.items = kept, !.dirty = @ \/ kept # stor.items,
                                !.status = FALSE, !.lock = FALSE]
        /\ destroyed' = destroyed \cup (stor.items \ kept)
        /\ unsaved' = (unsaved \/ kept # stor.items \/ (stor.status /\ stor.dirty))
  BY DEF Clears
<1>2. stor \in Storages /\ stor.cached
  BY DEF Clears, UseInv, GuildTypeOK, Storages
<1>3. stor' \in Storages /\ stor'.cached /\ ~stor'.status
  BY <1>1, <1>2 DEF Storages
<1>4. shut' = flag' /\ flag' = flag
  BY DEF Clears
<1>5. unsaved' \in BOOLEAN /\ destroyed' \subseteq Goods
  BY <1>1, <1>2 DEF UseInv, GuildTypeOK, Storages
<1> QED
  BY <1>3, <1>4, <1>5
     DEF Clears, Alone, UseInv, PacketsOK, GuildTypeOK, Held, Storages

----------------------------------------------------------------------------
(* Packets read, and the link *)

LEMMA LoadedOK ==
  ASSUME NEW items \in SUBSET Goods
  PROVE  /\ Loaded(items) \in Storages
         /\ Loaded(items).cached /\ ~Loaded(items).status /\ ~Loaded(items).dirty
         /\ Loaded(items).items = items
BY DEF Loaded, Uncached, Storages

LEMMA ReadLoadOK ==
  ASSUME UseInv, NEW p \in ToMap, p.cmd = "load", ReadLoad(p)
  PROVE  /\ stor' \in Storages /\ (~stor'.cached => stor' = Uncached)
         /\ flag' \subseteq online \cap guild
         /\ stor'.status => \E m \in Members : flag' \ shut = {m}
         /\ ~stor'.status => flag' \subseteq shut
         /\ shut \subseteq flag'
<1>1. p.who \in Members /\ p.open \in BOOLEAN /\ p.items \in SUBSET Goods
  BY DEF ToMap
<1>2. CASE LoadIgnored(p)
  BY <1>2 DEF ReadLoad, UseInv, GuildTypeOK, Held, Storages
<1>3. CASE ~LoadIgnored(p)
  <2>1. ~stor.status /\ flag = shut /\ (p.open => p.who \in online)
    BY <1>3 DEF LoadIgnored, UseInv, GuildTypeOK, Held
  <2>2. CASE p.open /\ p.who \in guild \ flag
    <3>1. /\ stor' = [Loaded(p.items) EXCEPT !.status = TRUE]
          /\ flag' = flag \cup {p.who}
      BY <1>3, <2>2 DEF ReadLoad
    <3>2. stor' \in Storages /\ stor'.status /\ stor'.cached
      BY <3>1, <1>1, LoadedOK DEF Storages
    <3>3. flag' \ shut = {p.who}
      BY <2>1, <2>2, <3>1
    <3> QED
      BY <1>1, <2>1, <2>2, <3>1, <3>2, <3>3 DEF UseInv, GuildTypeOK
  <2>3. CASE ~(p.open /\ p.who \in guild \ flag)
    <3>1. stor' = Loaded(p.items) /\ flag' = flag
      BY <1>3, <2>3 DEF ReadLoad
    <3> QED
      BY <1>1, <2>1, <3>1, LoadedOK DEF UseInv, GuildTypeOK
  <2> QED
    BY <2>2, <2>3
<1> QED
  BY <1>2, <1>3

LEMMA MapReadsOK ==
  ASSUME UseInv, MapReads
  PROVE  UseInv'
<1> DEFINE p == Head(toMap)
<1>1. toMap # <<>> /\ p \in ToMap /\ toMap' \in Seq(ToMap) /\ linked
  BY DEF MapReads, UseInv, PacketsOK, GuildTypeOK
<1>2. /\ stor' \in Storages /\ (~stor'.cached => stor' = Uncached)
      /\ flag' \subseteq online \cap guild
      /\ stor'.status => \E m \in Members : flag' \ shut = {m}
      /\ ~stor'.status => flag' \subseteq shut
      /\ shut \subseteq flag'
  <2>1. CASE p.cmd = "load" /\ ReadLoad(p)
    BY <1>1, <2>1, ReadLoadOK
  <2>2. CASE ReadSaved
    <3>1. stor \in Storages /\ flag' = flag
      BY <2>2 DEF ReadSaved, UseInv, GuildTypeOK, Storages
    <3>2. stor' = stor \/ (stor' = [stor EXCEPT !.dirty = FALSE] /\ ~stor.status)
      BY <2>2 DEF ReadSaved
    <3>3. /\ stor' \in Storages /\ stor'.cached = stor.cached
          /\ stor'.status = stor.status
      BY <3>1, <3>2 DEF Storages
    <3>4. stor = Uncached => stor' = stor
      <4>1. [Uncached EXCEPT !.dirty = FALSE] \in Storages /\ Uncached \in Storages
        BY DEF Uncached, Storages
      <4>2. [Uncached EXCEPT !.dirty = FALSE] = Uncached
        BY <4>1, SameStorage DEF Uncached
      <4> QED
        BY <3>2, <4>2
    <3> QED
      BY <3>1, <3>3, <3>4 DEF UseInv, GuildTypeOK, Held
  <2>3. CASE ReadUnlock
    <3>1. /\ stor \in Storages /\ flag' = flag
          /\ stor' = [stor EXCEPT !.lock = FALSE]
      BY <2>3 DEF ReadUnlock, UseInv, GuildTypeOK, Storages
    <3>2. /\ stor' \in Storages /\ stor'.cached = stor.cached
          /\ stor'.status = stor.status
      BY <3>1 DEF Storages
    <3>3. stor = Uncached => stor' = stor
      <4>1. [Uncached EXCEPT !.lock = FALSE] \in Storages /\ Uncached \in Storages
        BY DEF Uncached, Storages
      <4>2. [Uncached EXCEPT !.lock = FALSE] = Uncached
        BY <4>1, SameStorage DEF Uncached
      <4> QED
        BY <3>1, <4>2
    <3> QED
      BY <3>1, <3>2, <3>3 DEF UseInv, GuildTypeOK, Held
  <2> QED
    BY <2>1, <2>2, <2>3 DEF MapReads
<1> QED
  BY <1>1, <1>2 DEF MapReads, history, UseInv, PacketsOK, GuildTypeOK, Held, Storages

LEMMA CharReadsOK ==
  ASSUME UseInv, CharReads
  PROVE  UseInv'
<1> DEFINE p == Head(toChar)
<1>1. toChar # <<>> /\ p \in ToChar /\ toChar' \in Seq(ToChar) /\ linked
  BY DEF CharReads, UseInv, PacketsOK, GuildTypeOK
<1>2. /\ db' \subseteq Goods /\ inv' \in [Members -> SUBSET Goods]
      /\ toMap' \in Seq(ToMap)
  <2>1. CASE /\ p.cmd = "req" /\ toMap' = Append(toMap, Load(p.who, TRUE, db))
             /\ UNCHANGED <<db, inv>>
    <3>1. Load(p.who, TRUE, db) \in ToMap
      BY <1>1, <2>1 DEF Load, ToChar, ToMap, UseInv, GuildTypeOK
    <3>2. toMap' \in Seq(ToMap)
      BY <2>1, <3>1, AppendProperties DEF UseInv, PacketsOK
    <3>3. db' = db /\ inv' = inv
      BY <2>1
    <3> QED
      BY <3>2, <3>3 DEF UseInv, GuildTypeOK
  <2>2. CASE /\ p.cmd = "store" /\ db' = p.items
             /\ toMap' = Append(toMap, [cmd |-> "saved"]) /\ UNCHANGED inv
    <3>1. p.items \subseteq Goods /\ [cmd |-> "saved"] \in ToMap
      BY <1>1, <2>2 DEF ToChar, ToMap
    <3> QED
      BY <2>2, <3>1 DEF UseInv, PacketsOK, GuildTypeOK
  <2>3. CASE p.cmd = "bound" /\ PullsGoods(p.who)
    <3> DEFINE back == inv[p.who] \cap Bound
    <3>1. p.who \in Members
      BY <1>1, <2>3 DEF ToChar
    <3>2. back \subseteq Goods /\ db \subseteq Goods
      BY <3>1 DEF UseInv, GuildTypeOK
    <3>3. inv' \in [Members -> SUBSET Goods] /\ db' \subseteq Goods
      BY <2>3, <3>2 DEF PullsGoods, UseInv, GuildTypeOK
    <3>4. Load(p.who, FALSE, db \cup back) \in ToMap /\ [cmd |-> "unlock"] \in ToMap
      BY <3>1, <3>2 DEF Load, ToMap
    <3>5. toMap' = toMap \o (IF back # {} THEN <<Load(p.who, FALSE, db \cup back)>>
                                          ELSE <<>>) \o <<[cmd |-> "unlock"]>>
      BY <2>3 DEF PullsGoods
    <3> HIDE DEF back
    <3>6. (IF back # {} THEN <<Load(p.who, FALSE, db \cup back)>> ELSE <<>>)
            \in Seq(ToMap)
      <4>1. <<Load(p.who, FALSE, db \cup back)>> \in Seq(ToMap)
        BY <3>4, SingleSeq, Zenon
      <4> QED
        BY <4>1, EmptySeq, Zenon
    <3>7. <<[cmd |-> "unlock"]>> \in Seq(ToMap) /\ toMap \in Seq(ToMap)
      BY <3>4 DEF UseInv, PacketsOK
    <3> QED
      BY <3>3, <3>5, <3>6, <3>7, ConcatProperties
  <2> QED
    BY <2>1, <2>2, <2>3 DEF CharReads
<1> QED
  BY <1>1, <1>2 DEF CharReads, history, UseInv, PacketsOK, GuildTypeOK, Held

LEMMA LinkOK ==
  ASSUME UseInv, LinkBreaks \/ Reconnects
  PROVE  UseInv'
<1>1. CASE LinkBreaks
  <2>1. toChar' = <<>> /\ toMap' = <<>> /\ linked' = FALSE
        /\ UNCHANGED <<stor, flag, online, guild, inv, db, shut, unsaved, destroyed>>
        /\ lost' \in BOOLEAN
    BY <1>1 DEF LinkBreaks, UseInv, GuildTypeOK
  <2> QED
    BY <2>1, EmptySeq DEF UseInv, PacketsOK, GuildTypeOK, Held
<1>2. CASE Reconnects
  <2>1. Unsaved \in Seq(ToChar)
    BY StoreOK DEF Unsaved
  <2>2. unsaved' \in BOOLEAN /\ lost' \in BOOLEAN
    BY <1>2 DEF Reconnects, UseInv, GuildTypeOK
  <2> QED
    BY <1>2, <2>1, <2>2 DEF Reconnects, UseInv, PacketsOK, GuildTypeOK, Held
<1> QED
  BY <1>1, <1>2

LEMMA UseStep == UseInv /\ [GuildNext]_gs_vars => UseInv'
<1> SUFFICES ASSUME UseInv, [GuildNext]_gs_vars PROVE UseInv'
  OBVIOUS
<1>1. ASSUME NEW m \in Members, MemberStep(m) PROVE UseInv'
  BY <1>1, OpeningOK, MovingOK, ClosingOK, LeavingOK, PullOK, ClearingOK
     DEF MemberStep
<1>2. CASE UNCHANGED gs_vars
  BY <1>2 DEF gs_vars, history, UseInv, PacketsOK, GuildTypeOK, Held
<1> QED
  BY <1>1, <1>2, MapReadsOK, CharReadsOK, LinkOK DEF GuildNext

LEMMA UseInit == GuildInit => UseInv
<1> SUFFICES ASSUME GuildInit PROVE UseInv
  OBVIOUS
<1>1. PICK own \in [Goods -> Members \cup {Nobody}] :
        /\ inv = [m \in Members |-> {g \in Goods : own[g] = m}]
        /\ db = {g \in Goods : own[g] = Nobody}
  BY DEF GuildInit
<1>2. inv \in [Members -> SUBSET Goods] /\ db \subseteq Goods
  BY <1>1
<1>3. Uncached \in Storages /\ ~Uncached.status
  BY DEF Uncached, Storages
<1> QED
  BY <1>2, <1>3, EmptySeq DEF GuildInit, UseInv, PacketsOK, GuildTypeOK, Held, Storages

LEMMA UseAlways == GuildSpec => []UseInv
  BY UseInit, UseStep, PTL DEF GuildSpec

\* Every variable of the storage, its members and the link keeps its type.
THEOREM GuildTypes == GuildSpec => []GuildTypeOK
<1>1. UseInv => GuildTypeOK
  BY DEF UseInv
<1> QED
  BY <1>1, UseAlways, PTL

\* In every reachable state a storage in use is in one member's hands, and one that
\* is not in the hands of those only on whom somebody else closed it, whoever
\* opens, closes, leaves, is thrown out or clears it, and whatever the char server
\* answers
\* (src/map/storage.c, guild.c, intif.c).
THEOREM GuildHeld == GuildSpec => []Held
<1>1. UseInv => Held
  BY DEF UseInv
<1> QED
  BY <1>1, UseAlways, PTL

----------------------------------------------------------------------------
(* The vault *)

\* What members see of the storage.
Contents == IF stor.cached THEN stor.items ELSE db

\* Before the map server has the storage nothing is saved; a request is answered
\* before the first save, and an answer read before the first acknowledgement;
\* what is or will be loaded is the storage as it is, or the storage is dirty, so
\* that it is ignored; and whoever's goods are to be pulled has none.
NoSaveYet == ~stor.cached =>
  /\ \A i \in 1..Len(toChar) : toChar[i].cmd # "store"
  /\ \A i \in 1..Len(toMap) : toMap[i].cmd # "saved"
ReqsFirst == \A i \in 1..Len(toChar) : toChar[i].cmd = "req" =>
  /\ stor.dirty \/ db = Contents
  /\ \A j \in 1..Len(toMap) : toMap[j].cmd # "saved"
  /\ \A j \in 1..Len(toChar) : toChar[j].cmd = "store" => i < j
LoadsFirst == \A i \in 1..Len(toMap) : toMap[i].cmd = "load" =>
  /\ stor.dirty \/ toMap[i].items = Contents
  /\ \A j \in 1..Len(toMap) : toMap[j].cmd = "saved" => i < j
PulledAway == \A i \in 1..Len(toChar) : toChar[i].cmd = "bound" =>
  toChar[i].who \notin online /\ inv[toChar[i].who] \cap Bound = {}

\* Whoever is thrown out while he is away has nothing of the guild's.
NothingPulled == "pull goods" \notin Deeds

VaultInv == UseInv /\ NoSaveYet /\ ReqsFirst /\ LoadsFirst /\ PulledAway

\* What may be added to the packets under way to the char server.
MayFollow(p) ==
  /\ p.cmd = "store" => stor.cached
  /\ p.cmd = "req" => ~stor.cached
  /\ p.cmd = "bound" => p.who \notin online /\ inv[p.who] \cap Bound = {}
More ==
  /\ Len(toChar') >= Len(toChar)
  /\ \A i \in 1..Len(toChar) : toChar'[i] = toChar[i]
  /\ \A i \in Len(toChar) + 1..Len(toChar') : MayFollow(toChar'[i])

LEMMA BoundPacket ==
  ASSUME NEW p \in ToChar, p.cmd = "bound"
  PROVE  p = [cmd |-> "bound", who |-> p.who]
BY DEF ToChar

\* Members do no harm: they add packets, change the storage only if they mark it
\* as dirty, and leave alone whoever is away.
LEMMA MembersOK ==
  ASSUME VaultInv, UseInv', More, toMap' = toMap, db' = db,
         stor'.cached = stor.cached, stor.dirty => stor'.dirty,
         stor'.items = stor.items \/ stor'.dirty,
         \A m \in Members \ online :
           /\ inv'[m] = inv[m]
           /\ m \in online' => /\ toChar' = toChar
                              /\ \A i \in 1..Len(toChar) :
                                   toChar[i] # [cmd |-> "bound", who |-> m]
  PROVE  VaultInv'
<1>1. Len(toChar) \in Nat /\ Len(toChar') \in Nat
      /\ toChar \in Seq(ToChar) /\ toChar' \in Seq(ToChar)
  BY DEF VaultInv, UseInv, PacketsOK
<1>2. NoSaveYet'
  BY <1>1 DEF VaultInv, NoSaveYet, More, MayFollow
<1>3. stor'.dirty \/ (db = Contents => db' = Contents')
  BY DEF Contents
<1>4. ReqsFirst'
  <2> SUFFICES ASSUME NEW i \in 1..Len(toChar'), toChar'[i].cmd = "req"
               PROVE  /\ stor'.dirty \/ db' = Contents'
                      /\ \A j \in 1..Len(toMap') : toMap'[j].cmd # "saved"
                      /\ \A j \in 1..Len(toChar') : toChar'[j].cmd = "store" => i < j
    BY DEF ReqsFirst
  <2>1. CASE i \in 1..Len(toChar)
    BY <1>1, <1>3, <2>1 DEF VaultInv, ReqsFirst, More
  <2>2. CASE i \notin 1..Len(toChar)
    <3>1. ~stor.cached
      BY <1>1, <2>2 DEF More, MayFollow
    <3> QED
      BY <1>1, <1>2, <3>1 DEF NoSaveYet, Contents
  <2> QED
    BY <2>1, <2>2
<1>5. LoadsFirst'
  BY DEF VaultInv, LoadsFirst, Contents
<1>6. PulledAway'
  <2> SUFFICES ASSUME NEW i \in 1..Len(toChar'), toChar'[i].cmd = "bound"
               PROVE  /\ toChar'[i].who \notin online'
                      /\ inv'[toChar'[i].who] \cap Bound = {}
    BY DEF PulledAway
  <2>1. toChar'[i].who \in Members
    BY <1>1 DEF ToChar
  <2> DEFINE m == toChar'[i].who
  <2>2. CASE i \in 1..Len(toChar)
    <3>1. toChar'[i] = toChar[i] /\ toChar[i] \in ToChar
      BY <1>1, <2>2 DEF More
    <3>2. toChar[i] = [cmd |-> "bound", who |-> m]
      BY <3>1, BoundPacket
    <3>3. m \notin online /\ inv[m] \cap Bound = {}
      BY <2>2, <3>1 DEF VaultInv, PulledAway
    <3> QED
      BY <2>1, <2>2, <3>2, <3>3
  <2>3. CASE i \notin 1..Len(toChar)
    <3>1. m \notin online /\ inv[m] \cap Bound = {}
      BY <1>1, <2>3 DEF More, MayFollow
    <3>2. toChar' # toChar
      BY <2>3
    <3> QED
      BY <2>1, <3>1, <3>2
  <2> QED
    BY <2>2, <2>3
<1> QED
  BY <1>2, <1>4, <1>5, <1>6 DEF VaultInv

LEMMA MoreStays == ASSUME VaultInv, toChar' = toChar PROVE More
BY DEF VaultInv, UseInv, PacketsOK, More

LEMMA MoreOne ==
  ASSUME VaultInv, NEW p, toChar' = Append(toChar, p), MayFollow(p)
  PROVE  More
BY DEF VaultInv, UseInv, PacketsOK, More

LEMMA MoreTwo ==
  ASSUME VaultInv, NEW p \in ToChar, NEW q \in ToChar, MayFollow(p), MayFollow(q),
         toChar' = Append(Append(toChar, p), q)
  PROVE  More
<1>1. toChar \in Seq(ToChar)
  BY DEF VaultInv, UseInv, PacketsOK
<1>2. /\ Len(toChar') >= Len(toChar)
      /\ \A i \in 1..Len(toChar) : toChar'[i] = toChar[i]
      /\ \A i \in Len(toChar) + 1..Len(toChar') : toChar'[i] = p \/ toChar'[i] = q
  BY <1>1
<1>3. \A i \in Len(toChar) + 1..Len(toChar') : MayFollow(toChar'[i])
  BY <1>2, Zenon
<1> QED
  BY <1>2, <1>3 DEF More

LEMMA MoreSends ==
  ASSUME VaultInv, NEW p \in ToChar, Sends(p), MayFollow(p)
  PROVE  More
BY MoreStays, MoreOne DEF Sends

\* Only a storage that is here is saved.
LEMMA StoreFollows ==
  ASSUME UseInv, stor.dirty
  PROVE  MayFollow(Store) /\ stor.cached
BY DEF UseInv, GuildTypeOK, Uncached, MayFollow, Store

LEMMA MoreSaves ==
  ASSUME VaultInv, Save
  PROVE  More
<1>1. CASE UNCHANGED toChar
  BY <1>1, MoreStays
<1>2. CASE stor.dirty /\ Sends(Store)
  BY <1>2, MoreSends, StoreOK, StoreFollows DEF VaultInv
<1> QED
  BY <1>1, <1>2 DEF Save

\* A storage that only becomes free, or locked, is the same storage.
LEMMA MoreClose ==
  ASSUME VaultInv, NEW m \in Members, Close(m)
  PROVE  /\ More
         /\ stor'.cached = stor.cached /\ stor'.items = stor.items
         /\ stor'.dirty = stor.dirty
<1>1. More
  BY MoreSaves, MoreStays DEF Close
<1>2. stor' = [stor EXCEPT !.status = FALSE] /\ stor \in Storages
  BY DEF Close, VaultInv, UseInv, GuildTypeOK, Storages
<1> QED
  BY <1>1, <1>2 DEF Storages

LEMMA VaultOpening ==
  ASSUME VaultInv, UseInv', NEW m \in Members,
         Requests(m) \/ Opens(m) \/ AutoSaves(m) \/ Comes(m)
  PROVE  VaultInv' /\ UNCHANGED <<inv, Contents, destroyed>>
<1>1. CASE Requests(m)
  <2>1. [cmd |-> "req", who |-> m] \in ToChar /\ MayFollow([cmd |-> "req", who |-> m])
    BY <1>1 DEF Requests, ToChar, MayFollow
  <2>2. More
    BY <1>1, <2>1, MoreSends DEF Requests
  <2> QED
    BY <1>1, <2>2, MembersOK DEF Requests, Alone, history, Contents
<1>2. CASE Opens(m)
  <2>1. stor \in Storages /\ stor' = [stor EXCEPT !.status = TRUE]
    BY <1>2 DEF Opens, VaultInv, UseInv, GuildTypeOK, Storages
  <2>2. /\ stor'.cached = stor.cached /\ stor'.items = stor.items
        /\ stor'.dirty = stor.dirty
    BY <2>1 DEF Storages
  <2> QED
    BY <1>2, <2>2, MoreStays, MembersOK DEF Opens, Alone, history, Contents
<1>3. CASE AutoSaves(m)
  <2>1. More
    BY <1>3, MoreSaves DEF AutoSaves
  <2> QED
    BY <1>3, <2>1, MembersOK DEF AutoSaves, Alone, Contents
<1>4. CASE Comes(m)
  BY <1>4, MoreStays, MembersOK DEF Comes, history, Contents
<1> QED
  BY <1>1, <1>2, <1>3, <1>4

LEMMA VaultClosing ==
  ASSUME VaultInv, UseInv', NEW m \in Members, Closes(m) \/ Quits(m)
  PROVE  VaultInv' /\ UNCHANGED <<inv, Contents, destroyed>>
<1>1. CASE Close(m)
  BY <1>1, MoreClose, MembersOK DEF Closes, Quits, Alone, Contents
<1>2. CASE UNCHANGED <<stor, toChar>>
  BY <1>2, MoreStays, MembersOK DEF Closes, Quits, Alone, Contents
<1> QED
  BY <1>1, <1>2 DEF Closes, Quits

LEMMA VaultMoving ==
  ASSUME VaultInv, UseInv', NEW m \in Members, NEW g \in Goods,
         Adds(m, g) \/ Gets(m, g)
  PROVE  VaultInv' /\ (Guild!PutsIn(m, {g}) \/ Guild!TakesOut(m, g))
<1>1. stor \in Storages /\ stor.cached /\ stor.status /\ m \in online
  BY DEF Adds, Gets, VaultInv, UseInv, GuildTypeOK, Uncached, Storages
<1>2. /\ stor'.cached /\ stor'.dirty
      /\ \A n \in Members \ online : inv'[n] = inv[n]
  BY <1>1 DEF Adds, Gets, Storages, VaultInv, UseInv, GuildTypeOK
<1>3. VaultInv'
  BY <1>1, <1>2, MoreStays, MembersOK DEF Adds, Gets, Alone
<1>4. CASE Adds(m, g)
  <2>1. stor'.items = stor.items \cup {g}
    BY <1>1, <1>4 DEF Adds, Storages
  <2> QED
    BY <1>1, <1>2, <1>3, <1>4, <2>1 DEF Adds, history, Guild!PutsIn
<1>5. CASE Gets(m, g)
  <2>1. stor'.items = stor.items \ {g}
    BY <1>1, <1>5 DEF Gets, Storages
  <2> QED
    BY <1>1, <1>2, <1>3, <1>5, <2>1 DEF Gets, history, Guild!TakesOut
<1> QED
  BY <1>4, <1>5

LEMMA VaultLeaving ==
  ASSUME VaultInv, UseInv', NEW m \in Members, Leaves(m)
  PROVE  /\ VaultInv'
         /\ Guild!PutsIn(m, inv[m] \cap Bound) \/ Guild!Forfeits(m, inv[m] \cap Bound)
<1> DEFINE back == inv[m] \cap Bound
           now  == [stor EXCEPT !.items = @ \cup back, !.status = FALSE,
                                !.dirty = @ \/ back # {}]
<1>1. stor \in Storages /\ m \in online
  BY DEF Leaves, VaultInv, UseInv, GuildTypeOK, Storages
<1>2. /\ stor'.cached = stor.cached
      /\ stor'.items = (IF stor.cached THEN stor.items \cup back ELSE stor.items)
      /\ stor.dirty => stor'.dirty
      /\ stor'.items # stor.items => stor'.dirty
      /\ destroyed' = (IF stor.cached THEN destroyed ELSE destroyed \cup back)
  <2>1. CASE stor.cached
    BY <1>1, <2>1 DEF Leaves, Storages
  <2>2. CASE ~stor.cached
    BY <2>2 DEF Leaves
  <2> QED
    BY <2>1, <2>2
<1>3. More
  <2>1. CASE UNCHANGED toChar
    BY <2>1, MoreStays
  <2>2. CASE stor.cached /\ toChar' = Append(toChar, [cmd |-> "store", items |-> now.items])
    <3>2. MayFollow([cmd |-> "store", items |-> now.items])
      BY <2>2 DEF MayFollow
    <3> HIDE DEF now
    <3> QED
      BY <2>2, <3>2, MoreOne
  <2> QED
    BY <2>1, <2>2 DEF Leaves
<1>4. inv' = [inv EXCEPT ![m] = inv[m] \ back]
  <2>1. inv' = [inv EXCEPT ![m] = @ \ Bound] /\ inv \in [Members -> SUBSET Goods]
    BY DEF Leaves, VaultInv, UseInv, GuildTypeOK
  <2> QED
    BY <2>1
<1>5. /\ toMap' = toMap /\ db' = db /\ online' = online
      /\ \A n \in Members \ online : inv'[n] = inv[n]
  BY <1>1, <1>4 DEF Leaves
<1> HIDE DEF back, now
<1>6. VaultInv'
  BY <1>2, <1>3, <1>5, MembersOK
<1>7. Guild!PutsIn(m, back) \/ Guild!Forfeits(m, back)
  <2>1. back \subseteq inv[m]
    BY DEF back
  <2> QED
    BY <1>2, <1>4, <1>5, <2>1 DEF Guild!PutsIn, Guild!Forfeits
<1> QED
  BY <1>6, <1>7 DEF back

LEMMA VaultPull ==
  ASSUME VaultInv, UseInv', NothingPulled, NEW m \in Members, Pull(m)
  PROVE  VaultInv' /\ UNCHANGED <<inv, Contents, destroyed>>
<1> DEFINE bound == [cmd |-> "bound", who |-> m]
<1>1. /\ stor \in Storages /\ bound \in ToChar /\ MayFollow(bound)
      /\ UNCHANGED <<inv, online, toMap, db, destroyed>>
  <2>1. /\ m \notin online /\ inv[m] \cap Bound = {}
        /\ UNCHANGED <<inv, online, toMap, db, destroyed>>
    BY Zenon DEF Pull, NothingPulled
  <2>2. stor \in Storages /\ bound \in ToChar
    BY DEF VaultInv, UseInv, GuildTypeOK, Storages, ToChar
  <2> QED
    BY <2>1, <2>2 DEF MayFollow
<1>2. /\ stor'.cached = stor.cached /\ stor'.items = stor.items
      /\ stor'.dirty = stor.dirty
  BY <1>1 DEF Pull, Storages
<1>3. More
  <2>1. CASE toChar' = Append(toChar, bound)
    BY <1>1, <2>1, MoreOne
  <2>2. CASE stor.dirty /\ toChar' = toChar \o <<Store>> \o <<bound>>
    <3>1. MayFollow(Store)
      BY <2>2, StoreFollows DEF VaultInv
    <3> HIDE DEF bound
    <3>2. toChar \in Seq(ToChar) /\ Store \in ToChar /\ bound \in ToChar
      BY <1>1, StoreOK DEF VaultInv, UseInv, PacketsOK
    <3>3. toChar' = Append(Append(toChar, Store), bound)
      <4>1. toChar \o <<Store>> = Append(toChar, Store)
        BY <3>2, AppendIsConcat
      <4>2. Append(toChar, Store) \in Seq(ToChar)
        BY <3>2, AppendProperties
      <4>3. Append(Append(toChar, Store), bound)
              = Append(toChar, Store) \o <<bound>>
        BY <3>2, <4>2, AppendIsConcat
      <4> QED
        BY <2>2, <4>1, <4>3
    <3> QED
      BY <1>1, <3>1, <3>2, <3>3, MoreTwo
  <2> QED
    BY <2>1, <2>2 DEF Pull
<1> QED
  BY <1>1, <1>2, <1>3, MembersOK DEF Contents

LEMMA VaultClearing ==
  ASSUME VaultInv, UseInv', NEW m \in Members, Clears(m)
  PROVE  VaultInv' /\ \E S \in SUBSET Goods : Guild!Clear(S)
<1>1. PICK kept \in SUBSET stor.items :
        /\ stor' = [stor EXCEPT !.items = kept, !.dirty = @ \/ kept # stor.items,
                                !.status = FALSE, !.lock = FALSE]
        /\ destroyed' = destroyed \cup (stor.items \ kept)
  BY DEF Clears
<1>2. stor \in Storages /\ stor.cached
  BY DEF Clears, VaultInv, UseInv, GuildTypeOK, Storages
<1>3. /\ stor'.cached /\ stor'.items = kept
      /\ stor.dirty => stor'.dirty
      /\ kept # stor.items => stor'.dirty
  BY <1>1, <1>2 DEF Storages
<1>4. VaultInv'
  BY <1>2, <1>3, MoreStays, MembersOK DEF Clears, Alone
<1>5. stor.items \ kept \in SUBSET Goods
  BY <1>2 DEF Storages
<1>6. Guild!Clear(stor.items \ kept)
  BY <1>1, <1>2, <1>3 DEF Clears, Alone, Guild!Clear
<1> QED
  BY <1>4, <1>5, <1>6

LEMMA HeadTail ==
  ASSUME NEW S, NEW s \in Seq(S), s # <<>>
  PROVE  /\ Len(s) \in Nat /\ 1 \in 1..Len(s) /\ Head(s) = s[1]
         /\ Tail(s) \in Seq(S) /\ Len(Tail(s)) = Len(s) - 1
         /\ \A i \in 1..Len(Tail(s)) : Tail(s)[i] = s[i + 1] /\ i + 1 \in 1..Len(s)
OBVIOUS

LEMMA OneMore ==
  ASSUME NEW S, NEW s \in Seq(S), NEW x \in S, NEW t, t = Append(s, x)
  PROVE  /\ Len(s) \in Nat /\ Len(t) = Len(s) + 1
         /\ \A i \in 1..Len(s) : t[i] = s[i]
         /\ t[Len(s) + 1] = x
         /\ 1..Len(t) \subseteq 1..Len(s) \cup {Len(s) + 1}
OBVIOUS

\* A load is of the storage as it is, and an acknowledgement is read after every
\* load.
LEMMA StorageRead ==
  ASSUME VaultInv, MapReads
  PROVE  /\ stor.cached => stor'.cached
         /\ Contents' = Contents
         /\ stor.dirty => stor'.dirty \/ toMap[1].cmd = "saved"
<1> DEFINE p == Head(toMap)
<1>1. /\ toMap # <<>> /\ toMap \in Seq(ToMap) /\ p \in ToMap
      /\ p = toMap[1] /\ 1 \in 1..Len(toMap) /\ db' = db
  BY HeadTail DEF MapReads, VaultInv, UseInv, PacketsOK
<1>2. stor \in Storages
  BY DEF VaultInv, UseInv, GuildTypeOK, Storages
<1>3. CASE p.cmd = "load" /\ ReadLoad(p)
  <2>1. CASE LoadIgnored(p)
    BY <1>1, <1>3, <2>1 DEF ReadLoad, Contents
  <2>2. CASE ~LoadIgnored(p)
    <3>1. ~stor.dirty /\ p.items = Contents
      BY <1>1, <1>3, <2>2 DEF LoadIgnored, VaultInv, LoadsFirst
    <3>2. p.items \in SUBSET Goods
      BY <1>1, <1>3 DEF ToMap
    <3>3. /\ stor' = [Loaded(p.items) EXCEPT !.status = TRUE]
             \/ stor' = Loaded(p.items)
      BY <1>3, <2>2 DEF ReadLoad
    <3>4. stor'.cached /\ stor'.items = p.items
      BY <3>2, <3>3, LoadedOK DEF Storages
    <3> QED
      BY <1>1, <3>1, <3>4 DEF Contents
  <2> QED
    BY <2>1, <2>2
<1>4. CASE p.cmd = "saved" /\ ReadSaved
  <2>1. stor'.cached = stor.cached /\ stor'.items = stor.items
    BY <1>2, <1>4 DEF ReadSaved, Storages
  <2> QED
    BY <1>1, <1>4, <2>1 DEF Contents
<1>5. CASE p.cmd = "unlock" /\ ReadUnlock
  <2>1. /\ stor'.cached = stor.cached /\ stor'.items = stor.items
        /\ stor'.dirty = stor.dirty
    BY <1>2, <1>5 DEF ReadUnlock, Storages
  <2> QED
    BY <1>1, <2>1 DEF Contents
<1> QED
  BY <1>3, <1>4, <1>5 DEF MapReads

LEMMA VaultMapReads ==
  ASSUME VaultInv, UseInv', MapReads
  PROVE  VaultInv' /\ UNCHANGED <<inv, Contents, destroyed>>
<1>1. /\ toMap # <<>> /\ toMap \in Seq(ToMap) /\ toMap' = Tail(toMap)
      /\ UNCHANGED <<toChar, db, inv, online, destroyed>>
  BY DEF MapReads, history, VaultInv, UseInv, PacketsOK
<1>2. /\ Len(toMap) \in Nat /\ 1 \in 1..Len(toMap)
      /\ \A i \in 1..Len(toMap') : toMap'[i] = toMap[i + 1] /\ i + 1 \in 1..Len(toMap)
      /\ 1..Len(toMap') \subseteq Nat
  BY <1>1, HeadTail
<1>3. NoSaveYet'
  BY <1>1, <1>2, StorageRead DEF VaultInv, NoSaveYet
<1>4. ReqsFirst'
  <2> SUFFICES ASSUME NEW i \in 1..Len(toChar), toChar[i].cmd = "req"
               PROVE  /\ stor'.dirty \/ db = Contents
                      /\ \A j \in 1..Len(toMap') : toMap'[j].cmd # "saved"
                      /\ \A j \in 1..Len(toChar) : toChar[j].cmd = "store" => i < j
    BY <1>1, StorageRead DEF ReqsFirst
  <2> QED
    BY <1>2, StorageRead DEF VaultInv, ReqsFirst
<1>5. LoadsFirst'
  <2> SUFFICES ASSUME NEW i \in 1..Len(toMap'), toMap'[i].cmd = "load"
               PROVE  /\ stor'.dirty \/ toMap'[i].items = Contents
                      /\ \A j \in 1..Len(toMap') : toMap'[j].cmd = "saved" => i < j
    BY StorageRead DEF LoadsFirst
  <2>1. /\ stor.dirty \/ toMap[i + 1].items = Contents
        /\ \A j \in 1..Len(toMap) : toMap[j].cmd = "saved" => i + 1 < j
    BY <1>2 DEF VaultInv, LoadsFirst
  <2>2. toMap[1].cmd # "saved" /\ i \in Nat
    BY <1>2, <2>1
  <2>3. ASSUME NEW j \in 1..Len(toMap'), toMap'[j].cmd = "saved" PROVE i < j
    <3>1. j \in Nat /\ j + 1 \in 1..Len(toMap) /\ toMap[j + 1].cmd = "saved"
      BY <1>2, <2>3
    <3>2. i + 1 < j + 1
      BY <2>1, <3>1
    <3> QED
      BY <2>2, <3>1, <3>2
  <2>4. stor'.dirty \/ toMap'[i].items = Contents
    BY <1>2, <2>1, <2>2, StorageRead
  <2> QED
    BY <2>3, <2>4
<1>6. PulledAway'
  BY <1>1 DEF VaultInv, PulledAway
<1> QED
  BY <1>1, <1>3, <1>4, <1>5, <1>6, StorageRead DEF VaultInv

LEMMA VaultCharReads ==
  ASSUME VaultInv, UseInv', NothingPulled, CharReads
  PROVE  VaultInv' /\ UNCHANGED <<inv, Contents, destroyed>>
<1>1. /\ toChar # <<>> /\ toChar \in Seq(ToChar) /\ toMap \in Seq(ToMap)
      /\ toChar' = Tail(toChar) /\ UNCHANGED <<stor, online, destroyed>>
  BY DEF CharReads, history, VaultInv, UseInv, PacketsOK
<1>2. /\ Len(toChar) \in Nat /\ 1 \in 1..Len(toChar)
      /\ \A i \in 1..Len(toChar') :
           toChar'[i] = toChar[i + 1] /\ i + 1 \in 1..Len(toChar)
      /\ 1..Len(toChar') \subseteq Nat
  BY <1>1, HeadTail
<1>p. PICK p \in ToChar : p = Head(toChar) /\ p = toChar[1]
  BY <1>1
<1>3. PICK r \in ToMap :
        /\ toMap' = Append(toMap, r) /\ inv' = inv /\ Contents' = Contents
        /\ \/ p.cmd = "req" /\ r.cmd = "load" /\ r.items = db /\ db' = db
           \/ p.cmd = "store" /\ r.cmd = "saved"
           \/ p.cmd = "bound" /\ r.cmd = "unlock" /\ db' = db
  <2>1. CASE /\ p.cmd = "req" /\ toMap' = Append(toMap, Load(p.who, TRUE, db))
             /\ UNCHANGED <<db, inv>>
    <3>1. Load(p.who, TRUE, db) \in ToMap
      BY <2>1 DEF Load, ToChar, ToMap, VaultInv, UseInv, GuildTypeOK
    <3>2. Load(p.who, TRUE, db).cmd = "load" /\ Load(p.who, TRUE, db).items = db
      BY DEF Load
    <3> QED
      BY <1>1, <2>1, <3>1, <3>2 DEF Contents
  <2>2. CASE /\ p.cmd = "store" /\ db' = p.items
             /\ toMap' = Append(toMap, [cmd |-> "saved"]) /\ UNCHANGED inv
    <3>1. [cmd |-> "saved"] \in ToMap
      BY DEF ToMap
    <3>2. stor.cached
      BY <1>2, <1>p, <2>2 DEF VaultInv, NoSaveYet
    <3> QED
      BY <1>1, <2>2, <3>1, <3>2 DEF Contents
  <2>3. CASE p.cmd = "bound" /\ PullsGoods(p.who)
    <3>1. p.who \in Members /\ inv[p.who] \cap Bound = {}
      BY <1>2, <1>p, <2>3 DEF ToChar, VaultInv, PulledAway
    <3>2. inv' = [inv EXCEPT ![p.who] = @ \ {}] /\ db' = db \cup {}
      BY <2>3, <3>1 DEF PullsGoods
    <3>3. toMap' = toMap \o <<>> \o <<[cmd |-> "unlock"]>>
      BY <2>3, <3>1 DEF PullsGoods
    <3>4. [cmd |-> "unlock"] \in ToMap
      BY DEF ToMap
    <3>5. toMap' = Append(toMap, [cmd |-> "unlock"])
      BY <1>1, <3>3, <3>4, AppendIsConcat, ConcatEmptySeq
    <3>6. inv' = inv /\ db' = db
      BY <3>1, <3>2 DEF VaultInv, UseInv, GuildTypeOK
    <3> QED
      BY <1>1, <2>3, <3>4, <3>5, <3>6 DEF Contents
  <2> QED
    BY <1>p, <2>1, <2>2, <2>3 DEF CharReads
<1>4. /\ Len(toMap) \in Nat /\ Len(toMap') = Len(toMap) + 1
      /\ \A i \in 1..Len(toMap) : toMap'[i] = toMap[i]
      /\ toMap'[Len(toMap) + 1] = r
      /\ 1..Len(toMap') \subseteq 1..Len(toMap) \cup {Len(toMap) + 1}
  BY <1>1, <1>3, OneMore
<1>5. NoSaveYet'
  <2> SUFFICES ASSUME ~stor.cached
               PROVE  /\ \A i \in 1..Len(toChar') : toChar'[i].cmd # "store"
                      /\ \A i \in 1..Len(toMap') : toMap'[i].cmd # "saved"
    BY <1>1 DEF NoSaveYet
  <2>1. p.cmd # "store"
    BY <1>2, <1>p DEF VaultInv, NoSaveYet
  <2> QED
    BY <1>2, <1>3, <1>4, <2>1 DEF VaultInv, NoSaveYet
<1>6. p.cmd = "store" => \A i \in 1..Len(toChar) : toChar[i].cmd # "req"
  <2> SUFFICES ASSUME p.cmd = "store", NEW i \in 1..Len(toChar), toChar[i].cmd = "req"
               PROVE  FALSE
    OBVIOUS
  <2>1. i < 1 /\ i \in Nat /\ i >= 1
    BY <1>2, <1>p DEF VaultInv, ReqsFirst
  <2> QED
    BY <2>1
<1>7. ReqsFirst'
  <2> SUFFICES ASSUME NEW i \in 1..Len(toChar'), toChar'[i].cmd = "req"
               PROVE  /\ stor.dirty \/ db' = Contents
                      /\ \A j \in 1..Len(toMap') : toMap'[j].cmd # "saved"
                      /\ \A j \in 1..Len(toChar') : toChar'[j].cmd = "store" => i < j
    BY <1>1, <1>3 DEF ReqsFirst
  <2>1. p.cmd # "store" /\ i \in Nat
    BY <1>2, <1>6
  <2>2. /\ stor.dirty \/ db = Contents
        /\ \A j \in 1..Len(toMap) : toMap[j].cmd # "saved"
        /\ \A j \in 1..Len(toChar) : toChar[j].cmd = "store" => i + 1 < j
    BY <1>2 DEF VaultInv, ReqsFirst
  <2>3. ASSUME NEW j \in 1..Len(toChar'), toChar'[j].cmd = "store" PROVE i < j
    <3>1. j \in Nat /\ j + 1 \in 1..Len(toChar) /\ toChar[j + 1].cmd = "store"
      BY <1>2, <2>3
    <3>2. i + 1 < j + 1
      BY <2>2, <3>1
    <3> QED
      BY <2>1, <3>1, <3>2
  <2> QED
    BY <1>3, <1>4, <2>1, <2>2, <2>3
<1>8. LoadsFirst'
  <2> SUFFICES ASSUME NEW i \in 1..Len(toMap'), toMap'[i].cmd = "load"
               PROVE  /\ stor.dirty \/ toMap'[i].items = Contents
                      /\ \A j \in 1..Len(toMap') : toMap'[j].cmd = "saved" => i < j
    BY <1>1, <1>3 DEF LoadsFirst
  <2>1. CASE i \in 1..Len(toMap)
    BY <1>4, <2>1 DEF VaultInv, LoadsFirst
  <2>2. CASE i = Len(toMap) + 1
    <3>1. p.cmd = "req" /\ toMap'[i].items = db
      BY <1>3, <1>4, <2>2
    <3>2. /\ stor.dirty \/ db = Contents
          /\ \A j \in 1..Len(toMap) : toMap[j].cmd # "saved"
      BY <1>2, <1>p, <3>1 DEF VaultInv, ReqsFirst
    <3> QED
      BY <1>3, <1>4, <2>2, <3>1, <3>2
  <2> QED
    BY <1>4, <2>1, <2>2
<1>9. PulledAway'
  BY <1>1, <1>2, <1>3 DEF VaultInv, PulledAway
<1> QED
  BY <1>1, <1>3, <1>5, <1>7, <1>8, <1>9 DEF VaultInv

LEMMA VaultLink ==
  ASSUME VaultInv, UseInv', LinkBreaks \/ Reconnects
  PROVE  VaultInv' /\ UNCHANGED <<inv, Contents, destroyed>>
<1>1. CASE LinkBreaks
  <2>1. toChar' = <<>> /\ toMap' = <<>> /\ UNCHANGED <<stor, inv, db, destroyed>>
    BY <1>1 DEF LinkBreaks
  <2>2. 1..Len(toChar') = {} /\ 1..Len(toMap') = {}
    BY <2>1
  <2> QED
    BY <2>1, <2>2
       DEF VaultInv, NoSaveYet, ReqsFirst, LoadsFirst, PulledAway, Contents
<1>2. CASE Reconnects
  <2>1. toChar = <<>> /\ toMap = <<>> /\ UNCHANGED <<stor, online, inv, db, toMap, destroyed>>
    BY <1>2 DEF Reconnects, VaultInv, UseInv, GuildTypeOK
  <2>2. toChar' = toChar \/ (stor.dirty /\ toChar' = Append(toChar, Store))
    BY <1>2, <2>1 DEF Reconnects, Unsaved
  <2>3. More
    BY <2>2, MoreStays, MoreOne, StoreFollows DEF VaultInv
  <2> QED
    BY <2>1, <2>3, MembersOK DEF Contents
<1> QED
  BY <1>1, <1>2

LEMMA VaultStep ==
  ASSUME NothingPulled, VaultInv, [GuildNext]_gs_vars
  PROVE  VaultInv' /\ [Guild!VaultNext]_<<inv, Contents, destroyed>>
<1>1. UseInv'
  BY UseStep DEF VaultInv
<1>2. ASSUME NEW m \in Members, MemberStep(m)
      PROVE  VaultInv' /\ [Guild!VaultNext]_<<inv, Contents, destroyed>>
  <2>1. ASSUME NEW g \in Goods, Adds(m, g) \/ Gets(m, g)
        PROVE  VaultInv' /\ Guild!VaultNext
    <3>1. {g} \in SUBSET Goods
      OBVIOUS
    <3> QED
      BY <1>1, <2>1, <3>1, VaultMoving DEF Guild!VaultNext
  <2>2. CASE Leaves(m)
    <3>1. inv[m] \cap Bound \in SUBSET Goods
      BY DEF VaultInv, UseInv, GuildTypeOK
    <3> QED
      BY <1>1, <2>2, <3>1, VaultLeaving DEF Guild!VaultNext
  <2>3. CASE Clears(m)
    BY <1>1, <2>3, VaultClearing DEF Guild!VaultNext
  <2> QED
    BY <1>1, <1>2, <2>1, <2>2, <2>3, VaultOpening, VaultClosing, VaultPull
       DEF MemberStep
<1>3. CASE UNCHANGED gs_vars
  BY <1>1, <1>3, MoreStays, MembersOK DEF gs_vars, history, Contents
<1> QED
  BY <1>1, <1>2, <1>3, VaultMapReads, VaultCharReads, VaultLink DEF GuildNext

LEMMA VaultStart == GuildInit => VaultInv /\ Guild!VaultInit
<1> SUFFICES ASSUME GuildInit PROVE VaultInv /\ Guild!VaultInit
  OBVIOUS
<1>1. PICK own \in [Goods -> Members \cup {Nobody}] :
        /\ inv = [m \in Members |-> {g \in Goods : own[g] = m}]
        /\ db = {g \in Goods : own[g] = Nobody}
  BY DEF GuildInit
<1>2. stor.cached = FALSE /\ stor.items = {}
  BY DEF GuildInit, Uncached
<1>3. 1..Len(toChar) = {} /\ 1..Len(toMap) = {}
  BY DEF GuildInit
<1>4. VaultInv
  BY <1>3, UseInit DEF VaultInv, NoSaveYet, ReqsFirst, LoadsFirst, PulledAway
<1>5. /\ inv \in [Members -> SUBSET Goods] /\ db \in SUBSET Goods
      /\ destroyed = {}
      /\ \A m \in Members : /\ inv[m] \cap db = {}
                            /\ \A n \in Members \ {m} : inv[m] \cap inv[n] = {}
  BY <1>1, GoodsAssumption DEF GuildInit
<1> QED
  BY <1>2, <1>4, <1>5 DEF Guild!VaultInit

\* If nothing is pulled from a member who is away, the storage is a vault: loads
\* that come late, saves under way, acknowledgements of earlier saves and links
\* that break neither bring back what was taken out nor lose what was put in, and
\* nothing is missing but what a clearing or a member who leaves destroyed
\* (intif_parse_LoadGuildStorage, storage_guild_storagesave, int_storage.c,
\* pc_bound_clear).
THEOREM GuildIsVault ==
  ASSUME NothingPulled
  PROVE  GuildSpec => IsVault
<1>1. VaultInv /\ [GuildNext]_gs_vars
        => VaultInv' /\ [Guild!VaultNext]_<<inv, Contents, destroyed>>
  BY VaultStep
<1> QED
  BY <1>1, VaultStart, PTL
     DEF GuildSpec, IsVault, Guild!VaultSpec, Guild!vault_vars, Contents

----------------------------------------------------------------------------
(* What the char server has *)

\* A storage that may still be changed, or that waits for the link, is dirty;
\* any other is saved, or about to be.
Waiting  == stor.dirty /\ (stor.status \/ ~linked)
SaveInv  == VaultInv /\ (stor.cached /\ ~unsaved /\ ~lost => IsSaved \/ Waiting)

\* What is not a save changes nothing about what is saved.
LEMMA SavedStays ==
  ASSUME VaultInv, UseInv', IsSaved, stor'.items = stor.items, db' = db,
         \/ toChar' = toChar
         \/ \E p \in ToChar : toChar' = Append(toChar, p) /\ p.cmd # "store"
  PROVE  IsSaved'
<1>1. CASE toChar' = toChar
  BY <1>1 DEF IsSaved, IsStore
<1>2. ASSUME NEW p \in ToChar, toChar' = Append(toChar, p), p.cmd # "store"
      PROVE  IsSaved'
  <2>1. /\ Len(toChar) \in Nat /\ Len(toChar') = Len(toChar) + 1
        /\ \A i \in 1..Len(toChar) : toChar'[i] = toChar[i] /\ i \in 1..Len(toChar')
        /\ toChar'[Len(toChar) + 1] = p
        /\ 1..Len(toChar') \subseteq 1..Len(toChar) \cup {Len(toChar) + 1}
    BY <1>2, OneMore DEF VaultInv, UseInv, PacketsOK
  <2> QED
    BY <1>2, <2>1 DEF IsSaved, IsStore
<1> QED
  BY <1>1, <1>2

\* A save that is sent is the last.
LEMMA SavedNow ==
  ASSUME VaultInv, NEW p \in ToChar, p.cmd = "store", p.items = stor'.items,
         toChar' = Append(toChar, p)
  PROVE  IsSaved'
<1>1. /\ Len(toChar) \in Nat /\ Len(toChar') = Len(toChar) + 1
      /\ toChar'[Len(toChar) + 1] = p
  BY OneMore DEF VaultInv, UseInv, PacketsOK
<1>2. Len(toChar) + 1 \in 1..Len(toChar')
      /\ \A j \in 1..Len(toChar') : j <= Len(toChar) + 1
  BY <1>1
<1> QED
  BY <1>1, <1>2 DEF IsSaved, IsStore

LEMMA SavedThen ==
  ASSUME VaultInv, NEW p \in ToChar, p.cmd = "store", p.items = stor'.items,
         NEW q \in ToChar, q.cmd # "store", toChar' = toChar \o <<p>> \o <<q>>
  PROVE  IsSaved'
<1>1. toChar' = Append(Append(toChar, p), q) /\ toChar \in Seq(ToChar)
  BY AppendIsConcat, AppendProperties DEF VaultInv, UseInv, PacketsOK
<1>2. /\ Len(toChar) \in Nat /\ Len(toChar') = Len(toChar) + 2
      /\ toChar'[Len(toChar) + 1] = p /\ toChar'[Len(toChar) + 2] = q
  BY <1>1
<1>3. Len(toChar) + 1 \in 1..Len(toChar')
      /\ \A j \in 1..Len(toChar') : j <= Len(toChar) + 1 \/ j = Len(toChar) + 2
  BY <1>2
<1> QED
  BY <1>2, <1>3 DEF IsSaved, IsStore

\* Reading a packet does not change what will have been saved.
LEMMA SavedRead ==
  ASSUME VaultInv, IsSaved, UNCHANGED stor, toChar # <<>>, toChar' = Tail(toChar),
         IF IsStore(1) THEN db' = toChar[1].items ELSE db' = db
  PROVE  IsSaved'
<1>1. /\ Len(toChar) \in Nat /\ 1 \in 1..Len(toChar)
      /\ Len(toChar') = Len(toChar) - 1
      /\ \A i \in 1..Len(toChar') :
           toChar'[i] = toChar[i + 1] /\ i + 1 \in 1..Len(toChar)
      /\ 1..Len(toChar') \subseteq Nat
  BY HeadTail DEF VaultInv, UseInv, PacketsOK
<1>2. CASE db = stor.items /\ \A i \in 1..Len(toChar) : ~IsStore(i)
  BY <1>1, <1>2 DEF IsSaved, IsStore
<1>3. ASSUME NEW i \in 1..Len(toChar), IsStore(i), toChar[i].items = stor.items,
             \A j \in 1..Len(toChar) : IsStore(j) => j <= i
      PROVE  IsSaved'
  <2>1. ASSUME NEW j \in 1..Len(toChar'), toChar'[j].cmd = "store"
        PROVE  j \in Nat /\ j + 1 <= i
    BY <1>1, <1>3, <2>1 DEF IsStore
  <2>2. CASE i = 1
    <3>1. \A j \in 1..Len(toChar') : toChar'[j].cmd # "store"
      BY <2>1, <2>2
    <3> QED
      BY <1>3, <2>2, <3>1 DEF IsSaved, IsStore
  <2>3. CASE i # 1
    <3>1. i - 1 \in 1..Len(toChar') /\ toChar'[i - 1] = toChar[i]
      BY <1>1, <2>3
    <3>2. \A j \in 1..Len(toChar') : toChar'[j].cmd = "store" => j <= i - 1
      BY <2>1
    <3> QED
      BY <1>3, <3>1, <3>2 DEF IsSaved, IsStore
  <2> QED
    BY <2>2, <2>3
<1> QED
  BY <1>2, <1>3 DEF IsSaved

\* A storage that is closed with its save, if it is dirty and there is a link,
\* is saved, or waits for the link.
LEMMA SavedClose ==
  ASSUME SaveInv, UseInv', NEW m \in Members, Close(m),
         db' = db, linked' = linked
  PROVE  stor'.cached /\ ~unsaved' /\ ~lost' => (IsSaved \/ Waiting)'
<1> SUFFICES ASSUME stor'.cached, ~unsaved', ~lost' PROVE (IsSaved \/ Waiting)'
  OBVIOUS
<1>1. /\ stor'.cached = stor.cached /\ stor'.items = stor.items
      /\ stor'.dirty = stor.dirty /\ linked \in BOOLEAN
  BY MoreClose DEF SaveInv, VaultInv, UseInv
<1>2. CASE Save /\ stor.dirty /\ linked
  <2>1. Store \in ToChar /\ Store.cmd = "store" /\ Store.items = stor'.items
    BY <1>1, StoreOK DEF SaveInv, VaultInv, Store
  <2>2. toChar' = Append(toChar, Store)
    BY <1>2 DEF Save, Sends
  <2> QED
    BY <2>1, <2>2, SavedNow DEF SaveInv
<1>3. CASE stor.dirty /\ ~linked
  BY <1>1, <1>3 DEF Waiting
<1>4. CASE ~stor.dirty
  <2>1. UNCHANGED <<toChar, lost>> /\ ~unsaved
    <3>1. CASE UNCHANGED <<toChar, unsaved, lost>>
      BY <3>1
    <3>2. CASE unsaved' = (unsaved \/ stor.dirty) /\ UNCHANGED <<toChar, lost>>
      BY <3>2
    <3> QED
      BY <1>4, <3>1, <3>2 DEF Close, Save
  <2>2. IsSaved
    BY <1>1, <1>4, <2>1 DEF SaveInv, Waiting
  <2> QED
    BY <1>1, <2>1, <2>2, SavedStays DEF SaveInv
<1>5. CASE ~stor.status /\ UNCHANGED <<toChar, unsaved, lost>>
  <2>1. CASE IsSaved
    BY <1>1, <1>5, <2>1, SavedStays DEF SaveInv
  <2>2. CASE ~IsSaved
    BY <1>1, <1>5, <2>2 DEF SaveInv, Waiting
  <2> QED
    BY <2>1, <2>2
<1> QED
  BY <1>2, <1>3, <1>4, <1>5 DEF Close

LEMMA SavedMembers ==
  ASSUME SaveInv, UseInv', NEW m \in Members, MemberStep(m)
  PROVE  stor'.cached /\ ~unsaved' /\ ~lost' => (IsSaved \/ Waiting)'
<1> SUFFICES ASSUME stor'.cached, ~unsaved', ~lost' PROVE (IsSaved \/ Waiting)'
  OBVIOUS
<1>1. CASE Requests(m)
  BY <1>1 DEF Requests
<1>2. CASE Opens(m)
  <2>1. stor \in Storages /\ stor' = [stor EXCEPT !.status = TRUE]
    BY <1>2 DEF Opens, SaveInv, VaultInv, UseInv, GuildTypeOK, Storages
  <2>2. /\ stor'.cached = stor.cached /\ stor'.items = stor.items
        /\ stor'.dirty = stor.dirty /\ stor'.status
    BY <2>1 DEF Storages
  <2> QED
    BY <1>2, <2>2, SavedStays DEF Opens, Alone, history, SaveInv, Waiting
<1>3. CASE AutoSaves(m)
  <2>1. Store \in ToChar /\ Store.cmd = "store" /\ Store.items = stor'.items
    BY <1>3, StoreOK DEF AutoSaves, SaveInv, VaultInv, Store
  <2>2. toChar' = Append(toChar, Store)
    BY <1>3 DEF AutoSaves, Save, Sends
  <2> QED
    BY <2>1, <2>2, SavedNow DEF SaveInv
<1>4. CASE Comes(m)
  BY <1>4, SavedStays DEF Comes, history, SaveInv, Waiting
<1>5. ASSUME NEW g \in Goods, Adds(m, g) \/ Gets(m, g) PROVE (IsSaved \/ Waiting)'
  <2>1. stor \in Storages /\ stor.status
    BY <1>5 DEF Adds, Gets, SaveInv, VaultInv, UseInv, GuildTypeOK, Storages
  <2>2. stor'.dirty /\ stor'.status
    BY <1>5, <2>1 DEF Adds, Gets, Storages
  <2> QED
    BY <2>2 DEF Waiting
<1>6. CASE Closes(m) \/ Quits(m)
  <2>1. CASE m \in flag
    BY <1>6, <2>1, SavedClose DEF Closes, Quits, Alone
  <2>2. CASE m \notin flag
    BY <1>6, <2>2, SavedStays DEF Closes, Quits, SaveInv, Waiting
  <2> QED
    BY <2>1, <2>2
<1>7. CASE Leaves(m)
  <2> DEFINE back == inv[m] \cap Bound
             now  == [stor EXCEPT !.items = @ \cup back, !.status = FALSE,
                                  !.dirty = @ \/ back # {}]
  <2>1. /\ stor \in Storages /\ linked /\ linked' = linked /\ stor.cached
        /\ stor' = now /\ db' = db
    BY <1>7 DEF Leaves, SaveInv, VaultInv, UseInv, GuildTypeOK, Storages, Uncached
  <2>2. /\ stor'.items = stor.items \cup back /\ stor'.cached = stor.cached
        /\ stor'.dirty = (stor.dirty \/ back # {})
    BY <2>1 DEF Storages
  <2>3. CASE toChar' = Append(toChar, [cmd |-> "store", items |-> now.items])
    <3>1. toChar' = Append(toChar, [cmd |-> "store", items |-> stor'.items])
      BY <2>1, <2>3
    <3>2. [cmd |-> "store", items |-> stor'.items] \in ToChar
      BY DEF ToChar, UseInv, GuildTypeOK
    <3> QED
      BY <3>1, <3>2, SavedNow DEF SaveInv
  <2>4. CASE /\ unsaved' = (unsaved \/ back # {} \/ (stor.status /\ stor.dirty))
             /\ UNCHANGED <<toChar, lost>>
    <3>1. back = {} /\ ~unsaved /\ ~lost /\ ~(stor.status /\ stor.dirty)
      BY <2>4
    <3>2. IsSaved
      BY <2>1, <3>1 DEF SaveInv, Waiting
    <3> QED
      BY <2>1, <2>2, <2>4, <3>1, <3>2, SavedStays DEF SaveInv
  <2> QED
    BY <1>7, <2>1, <2>3, <2>4 DEF Leaves
<1>8. CASE Pull(m)
  <2> DEFINE bound == [cmd |-> "bound", who |-> m]
  <2>1. /\ stor \in Storages /\ linked /\ UNCHANGED <<db, linked>>
    BY <1>8 DEF Pull, SaveInv, VaultInv, UseInv, GuildTypeOK, Storages
  <2>2. stor'.items = stor.items /\ stor.cached
    BY <1>8, <2>1 DEF Pull, Storages
  <2>3. /\ bound \in ToChar /\ bound.cmd # "store" /\ Store \in ToChar
        /\ Store.cmd = "store" /\ Store.items = stor'.items
    BY <2>2, StoreOK DEF ToChar, SaveInv, VaultInv, Store
  <2>4. CASE toChar' = toChar \o <<Store>> \o <<bound>>
    <3> HIDE DEF bound
    <3>1. IsSaved'
      BY <2>3, <2>4, SavedThen DEF SaveInv
    <3> QED
      BY <3>1
  <2>5. CASE /\ toChar' = Append(toChar, bound) /\ ~(stor.status /\ stor.dirty)
             /\ ~unsaved /\ ~lost
    <3>1. IsSaved
      BY <2>1, <2>2, <2>5 DEF SaveInv, Waiting
    <3> HIDE DEF bound
    <3> QED
      BY <2>1, <2>2, <2>3, <2>5, <3>1, SavedStays DEF SaveInv
  <2>6. CASE /\ toChar' = Append(toChar, bound) /\ UNCHANGED lost
             /\ unsaved' = (unsaved \/ stor.dirty)
    BY <2>5, <2>6
  <2>7. CASE ~stor.status /\ toChar' = Append(toChar, bound) /\ UNCHANGED <<unsaved, lost>>
    BY <2>5, <2>7
  <2> QED
    BY <1>8, <2>4, <2>6, <2>7 DEF Pull
<1>9. CASE Clears(m)
  <2>1. PICK kept \in SUBSET stor.items :
          /\ stor' = [stor EXCEPT !.items = kept, !.dirty = @ \/ kept # stor.items,
                                  !.status = FALSE, !.lock = FALSE]
          /\ unsaved' = (unsaved \/ kept # stor.items \/ (stor.status /\ stor.dirty))
    BY <1>9 DEF Clears
  <2>2. /\ stor \in Storages /\ kept = stor.items /\ ~(stor.status /\ stor.dirty)
        /\ ~unsaved
    BY <2>1 DEF SaveInv, VaultInv, UseInv, GuildTypeOK, Storages
  <2>3. /\ stor'.cached = stor.cached /\ stor'.items = stor.items
        /\ stor'.dirty = stor.dirty
    BY <2>1, <2>2 DEF Storages
  <2>4. UNCHANGED <<db, linked, toChar, lost>>
    BY <1>9 DEF Clears, Alone
  <2>5. CASE IsSaved
    BY <2>3, <2>4, <2>5, SavedStays DEF SaveInv
  <2>6. CASE Waiting
    BY <2>2, <2>3, <2>4, <2>6 DEF Waiting
  <2> QED
    BY <2>2, <2>3, <2>4, <2>5, <2>6 DEF SaveInv
<1> QED
  BY <1>1, <1>2, <1>3, <1>4, <1>5, <1>6, <1>7, <1>8, <1>9 DEF MemberStep

LEMMA SavedMapReads ==
  ASSUME SaveInv, UseInv', MapReads
  PROVE  stor'.cached /\ ~unsaved' /\ ~lost' => (IsSaved \/ Waiting)'
<1> SUFFICES ASSUME stor'.cached, ~unsaved', ~lost' PROVE (IsSaved \/ Waiting)'
  OBVIOUS
<1> DEFINE p == Head(toMap)
<1>1. /\ toMap # <<>> /\ p \in ToMap /\ p = toMap[1] /\ 1 \in 1..Len(toMap)
      /\ UNCHANGED <<toChar, db, linked, unsaved, lost>>
  BY HeadTail DEF MapReads, history, SaveInv, VaultInv, UseInv, PacketsOK
<1>2. linked /\ stor \in Storages
  BY <1>1 DEF SaveInv, VaultInv, UseInv, GuildTypeOK, Storages
<1>3. CASE stor' = stor
  BY <1>1, <1>3, SavedStays DEF SaveInv, Waiting
<1>4. CASE p.cmd = "load" /\ ReadLoad(p) /\ ~LoadIgnored(p)
  <2>1. ~stor.dirty /\ ~stor.status /\ p.items = Contents /\ p.items \in SUBSET Goods
    BY <1>1, <1>4 DEF LoadIgnored, SaveInv, VaultInv, LoadsFirst, ToMap
  <2>2. \/ stor' = [Loaded(p.items) EXCEPT !.status = TRUE]
        \/ stor' = Loaded(p.items)
    BY <1>4 DEF ReadLoad
  <2>3. stor'.items = Contents
    BY <2>1, <2>2, LoadedOK DEF Storages
  <2>4. CASE stor.cached
    <3>1. IsSaved /\ stor'.items = stor.items
      BY <1>1, <2>1, <2>3, <2>4 DEF SaveInv, Waiting, Contents
    <3> QED
      BY <1>1, <3>1, SavedStays DEF SaveInv
  <2>5. CASE ~stor.cached
    <3>1. stor'.items = db /\ \A i \in 1..Len(toChar) : toChar[i].cmd # "store"
      BY <2>3, <2>5 DEF Contents, SaveInv, VaultInv, NoSaveYet
    <3> QED
      BY <1>1, <3>1 DEF IsSaved, IsStore
  <2> QED
    BY <2>4, <2>5
<1>5. CASE ReadSaved /\ ~stor.status
  <2>1. stor'.cached = stor.cached /\ stor'.items = stor.items
    BY <1>2, <1>5 DEF ReadSaved, Storages
  <2>2. IsSaved
    BY <1>1, <1>2, <1>5, <2>1 DEF SaveInv, Waiting
  <2> QED
    BY <1>1, <2>1, <2>2, SavedStays DEF SaveInv
<1>6. CASE ReadUnlock
  <2>1. /\ stor'.cached = stor.cached /\ stor'.items = stor.items
        /\ stor'.dirty = stor.dirty /\ stor'.status = stor.status
    BY <1>2, <1>6 DEF ReadUnlock, Storages
  <2> QED
    BY <1>1, <2>1, SavedStays DEF SaveInv, Waiting
<1> QED
  BY <1>3, <1>4, <1>5, <1>6 DEF MapReads, ReadLoad, ReadSaved

LEMMA SavedCharReads ==
  ASSUME SaveInv, UseInv', NothingPulled, CharReads
  PROVE  stor'.cached /\ ~unsaved' /\ ~lost' => (IsSaved \/ Waiting)'
<1> SUFFICES ASSUME stor'.cached, ~unsaved', ~lost' PROVE (IsSaved \/ Waiting)'
  OBVIOUS
<1>1. /\ toChar # <<>> /\ toChar' = Tail(toChar) /\ toChar \in Seq(ToChar)
      /\ UNCHANGED <<stor, linked, unsaved, lost>>
  BY DEF CharReads, history, SaveInv, VaultInv, UseInv, PacketsOK
<1>2. 1 \in 1..Len(toChar) /\ Head(toChar) = toChar[1] /\ toChar[1] \in ToChar
  BY <1>1, HeadTail
<1>3. IF IsStore(1) THEN db' = toChar[1].items ELSE db' = db
  <2>1. CASE toChar[1].cmd = "bound" /\ PullsGoods(toChar[1].who)
    <3>1. inv[toChar[1].who] \cap Bound = {}
      BY <1>2, <2>1 DEF SaveInv, VaultInv, PulledAway
    <3> QED
      BY <2>1, <3>1 DEF PullsGoods, IsStore
  <2>2. CASE toChar[1].cmd = "req" /\ db' = db
    BY <2>2 DEF IsStore
  <2>3. CASE toChar[1].cmd = "store" /\ db' = toChar[1].items
    BY <2>3 DEF IsStore
  <2> QED
    BY <1>2, <2>1, <2>2, <2>3 DEF CharReads
<1>4. CASE IsSaved
  BY <1>1, <1>3, <1>4, SavedRead DEF SaveInv
<1>5. CASE Waiting
  BY <1>1, <1>5 DEF Waiting
<1> QED
  BY <1>1, <1>4, <1>5 DEF SaveInv

LEMMA SavedLink ==
  ASSUME SaveInv, UseInv', LinkBreaks \/ Reconnects
  PROVE  stor'.cached /\ ~unsaved' /\ ~lost' => (IsSaved \/ Waiting)'
<1> SUFFICES ASSUME stor'.cached, ~unsaved', ~lost' PROVE (IsSaved \/ Waiting)'
  OBVIOUS
<1>1. CASE LinkBreaks
  <2>1. /\ toChar' = <<>> /\ linked' = FALSE /\ UNCHANGED <<stor, db, unsaved>>
        /\ ~lost /\ \A i \in DOMAIN toChar : toChar[i].cmd # "store"
    BY <1>1 DEF LinkBreaks
  <2>2. \A i \in 1..Len(toChar) : ~IsStore(i)
    BY <2>1 DEF IsStore, SaveInv, VaultInv, UseInv, PacketsOK
  <2>3. IsSaved => db = stor.items
    BY <2>2 DEF IsSaved
  <2>4. 1..Len(toChar') = {}
    BY <2>1
  <2> QED
    BY <2>1, <2>3, <2>4 DEF SaveInv, Waiting, IsSaved
<1>2. CASE Reconnects
  <2>1. /\ toChar = <<>> /\ UNCHANGED <<stor, db>>
    BY <1>2 DEF Reconnects, SaveInv, VaultInv, UseInv, GuildTypeOK
  <2>2. CASE stor.dirty /\ ~stor.status
    <3>1. toChar' = Append(toChar, Store)
      BY <1>2, <2>1, <2>2 DEF Reconnects, Unsaved
    <3>2. Store \in ToChar /\ Store.cmd = "store" /\ Store.items = stor'.items
      BY <2>1, StoreOK DEF SaveInv, VaultInv, Store
    <3> QED
      BY <3>1, <3>2, SavedNow DEF SaveInv
  <2>3. CASE ~(stor.dirty /\ ~stor.status)
    <3>1. UNCHANGED <<toChar, unsaved, lost>>
      BY <1>2, <2>1, <2>3 DEF Reconnects, Unsaved
    <3> QED
      BY <2>1, <2>3, <3>1, SavedStays DEF SaveInv, Waiting
  <2> QED
    BY <2>2, <2>3
<1> QED
  BY <1>1, <1>2

LEMMA SaveStep ==
  ASSUME NothingPulled, SaveInv, [GuildNext]_gs_vars
  PROVE  SaveInv'
<1>1. VaultInv' /\ UseInv'
  BY VaultStep DEF SaveInv, VaultInv
<1>2. CASE UNCHANGED gs_vars
  BY <1>1, <1>2, SavedStays DEF gs_vars, history, SaveInv, Waiting
<1> QED
  BY <1>1, <1>2, SavedMembers, SavedMapReads, SavedCharReads, SavedLink
     DEF GuildNext, SaveInv

\* If nothing is pulled from a member who is away, a storage that is closed and
\* not marked to be saved again is what the char server has or is about to read,
\* whichever of the saves the acknowledgement was for, unless its last save was
\* lost with the link or it was closed or changed without one
\* (storage_guild_storagesaved).
THEOREM GuildSaves ==
  ASSUME NothingPulled
  PROVE  GuildSpec => []CleanIsSaved
<1>1. GuildInit => SaveInv
  <2> SUFFICES ASSUME GuildInit PROVE SaveInv
    OBVIOUS
  <2>1. VaultInv
    BY VaultStart
  <2>2. ~stor.cached /\ lost = FALSE
    BY DEF GuildInit, Uncached
  <2> QED
    BY <2>1, <2>2 DEF SaveInv
<1>2. SaveInv /\ [GuildNext]_gs_vars => SaveInv'
  BY SaveStep
<1>3. SaveInv => CleanIsSaved
  BY DEF SaveInv, CleanIsSaved, Waiting
<1> QED
  BY <1>1, <1>2, <1>3, PTL DEF GuildSpec

=============================================================================
