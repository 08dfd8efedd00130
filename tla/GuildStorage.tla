---------------------------- MODULE GuildStorage ----------------------------
(***************************************************************************)
(* The storage of one guild (src/map/storage.c, with the parts of intif.c, *)
(* guild.c, pc.c, chrif.c and atcommand.c that use it, and                 *)
(* src/char/int_storage.c).  The char server has it in its database; a map *)
(* server loads it when it is first opened, keeps it from then on, lets    *)
(* one member at a time use it, and sends it back as a whole when it was   *)
(* changed and closed, over a link that may break.                         *)
(*                                                                         *)
(* Goods are single things that do not stack; those in Bound belong to the *)
(* guild and go back to it when their bearer is no longer a member.  What  *)
(* becomes of the players' own data is CharMap's business: here a member   *)
(* keeps his goods while he is away.  Left out: the limit of 600 slots,    *)
(* carts (they go in and out as the inventory does), disbanding the guild, *)
(* a second map server, and a player who selects his character while his   *)
(* goods are being pulled.                                                 *)
(***************************************************************************)
EXTENDS Naturals, Sequences

CONSTANTS Members, Goods,
          Bound,   \* goods that are the guild's (IBT_GUILD)
          Nobody,
          Deeds,   \* which of "leave", "clear", "pull", "pull goods", "siege" happen
          MaxBreaks, MaxPackets  \* bounds

ASSUME GoodsAssumption  == Bound \subseteq Goods /\ Nobody \notin Members
ASSUME LimitsAssumption == MaxBreaks \in Nat /\ MaxPackets \in Nat

VARIABLES
  stor,     \* gstorage->db: what the map server has of the storage
  flag,     \* members whose storage_flag is STORAGE_FLAG_GUILD
  online,   \* members who are on the map server
  guild,    \* members of the guild
  inv,      \* member -> goods he carries
  db,       \* guild_storage table
  toChar, toMap,  \* packets under way
  linked,   \* chrif->isconnected()
  breaks,   \* counted for the bound
  shut,     \* members on whom somebody else closed the storage (history)
  unsaved,  \* it was changed and closed, and not saved since (history)
  lost,     \* a save was lost with the link, and none sent since (history)
  destroyed \* goods destroyed on purpose (history)

history == <<shut, unsaved, lost, destroyed>>
gs_vars == <<stor, flag, online, guild, inv, db, toChar, toMap, linked, breaks,
             history>>

Uncached == [cached |-> FALSE, items |-> {}, status |-> FALSE, dirty |-> FALSE,
             lock |-> FALSE]
Loaded(items) == [Uncached EXCEPT !.cached = TRUE, !.items = items]

GuildTypeOK ==
  /\ stor \in [cached : BOOLEAN, items : SUBSET Goods, status : BOOLEAN,
               dirty : BOOLEAN, lock : BOOLEAN]
  /\ ~stor.cached => stor = Uncached
  /\ flag \subseteq online \cap guild
  /\ inv \in [Members -> SUBSET Goods]
  /\ db \subseteq Goods /\ destroyed \subseteq Goods
  /\ shut \subseteq flag /\ unsaved \in BOOLEAN /\ lost \in BOOLEAN
  /\ ~linked => toChar = <<>> /\ toMap = <<>>

----------------------------------------------------------------------------

Room == Len(toChar) + Len(toMap) < MaxPackets

\* intif: without a link nothing is written.
Sends(p) == toChar' = IF linked THEN Append(toChar, p) ELSE toChar
Store    == [cmd |-> "store", items |-> stor.items]

\* storage_guild_storagesave
Save == IF stor.dirty
        THEN Sends(Store) /\ unsaved' = FALSE /\ lost' = (lost /\ ~linked)
        ELSE UNCHANGED <<toChar, unsaved, lost>>

\* chrif_save: with a player goes the storage he has open, and no other; during a
\* siege nothing may be saved (prevent_save_settings).
MaySkip(m) == m \notin flag \/ "siege" \in Deeds

\* Faulty: it stays in use.
CloseKeepsStatus(m) ==
  /\ m \in flag /\ Save
  /\ shut' = flag \ {m}
  /\ UNCHANGED stor

\* storage_guild_storageclose, storage_guild_storage_quit: whoever calls it, the
\* storage is no longer in use.
Close(m) ==
  /\ \/ ~stor.status /\ UNCHANGED <<toChar, unsaved, lost>>
     \/ stor.status /\ m \in flag /\ Save
     \/ /\ stor.status /\ MaySkip(m)
        /\ unsaved' = (unsaved \/ stor.dirty)
        /\ UNCHANGED <<toChar, lost>>
  /\ stor' = [stor EXCEPT !.status = FALSE]
  /\ shut' = flag \ {m}

----------------------------------------------------------------------------
(* Members *)

Alone == UNCHANGED <<online, guild, db, toMap, linked, breaks>>

\* storage_guild_storageopen, when the storage is not here yet.
Requests(m) ==
  /\ Room /\ m \in (online \cap guild) \ flag /\ ~stor.cached
  /\ Sends([cmd |-> "req", who |-> m])
  /\ Alone /\ UNCHANGED <<stor, flag, inv, history>>

MayOpen(m) == ~stor.status /\ ~stor.lock

Opens(m) ==
  /\ Room /\ m \in (online \cap guild) \ flag /\ stor.cached
  /\ MayOpen(m)
  /\ stor' = [stor EXCEPT !.status = TRUE]
  /\ flag' = flag \cup {m}
  /\ Alone /\ UNCHANGED <<inv, toChar, history>>

\* storage_guild_storageadd, storage_guild_storageget: a locked storage is closed
\* to him instead.
Adds(m, g) ==
  /\ m \in flag /\ g \in inv[m]
  /\ stor.status /\ ~stor.lock
  /\ stor' = [stor EXCEPT !.items = @ \cup {g}, !.dirty = TRUE]
  /\ inv' = [inv EXCEPT ![m] = @ \ {g}]
  /\ Alone /\ UNCHANGED <<flag, toChar, history>>
Gets(m, g) ==
  /\ m \in flag /\ g \in stor.items
  /\ stor.status /\ ~stor.lock
  /\ stor' = [stor EXCEPT !.items = @ \ {g}, !.dirty = TRUE]
  /\ inv' = [inv EXCEPT ![m] = @ \cup {g}]
  /\ Alone /\ UNCHANGED <<flag, toChar, history>>

\* The window is closed by its owner, by a warp, or by the server.
Closes(m) ==
  /\ m \in flag
  /\ Close(m) /\ flag' = flag \ {m}
  /\ Alone /\ UNCHANGED <<inv, destroyed>>

\* pc_autosave, chrif_save
AutoSaves(m) ==
  /\ Room /\ m \in flag /\ stor.dirty /\ linked
  /\ Save
  /\ Alone /\ UNCHANGED <<stor, flag, inv, shut, destroyed>>

\* Faulty: he goes with the storage open.
QuitsHolding(m) ==
  /\ m \in online
  /\ online' = online \ {m}
  /\ UNCHANGED <<stor, flag, guild, inv, db, toChar, toMap, linked, breaks,
                 history>>

\* map_quit, unit_remove_map: a storage he has open is closed first.
Quits(m) ==
  /\ m \in online
  /\ IF m \in flag THEN Close(m) ELSE UNCHANGED <<stor, toChar, shut, unsaved, lost>>
  /\ flag' = flag \ {m}
  /\ online' = online \ {m}
  /\ UNCHANGED <<guild, inv, db, toMap, linked, breaks, destroyed>>
Comes(m) ==
  /\ m \notin online
  /\ \A i \in DOMAIN toChar : toChar[i] # [cmd |-> "bound", who |-> m]
  /\ online' = online \cup {m}
  /\ UNCHANGED <<stor, flag, guild, inv, db, toChar, toMap, linked, breaks,
                 history>>

----------------------------------------------------------------------------
(* Members who leave, and the clearing of the storage *)

\* pc_bound_clear, guild_member_withdraw: the guild's goods go into the storage if
\* it is here, and are destroyed if not; the storage is closed, whoever has it open.
Leaves(m) ==
  /\ "leave" \in Deeds /\ linked
  /\ m \in online \cap guild
  /\ inv' = [inv EXCEPT ![m] = @ \ Bound]
  /\ LET back == inv[m] \cap Bound
         now == [stor EXCEPT !.items = @ \cup back, !.status = FALSE,
                             !.dirty = @ \/ back # {}]
         save == [cmd |-> "store", items |-> now.items]
     IN \/ /\ ~stor.cached
           /\ destroyed' = destroyed \cup back
           /\ UNCHANGED <<stor, toChar, unsaved, lost>>
        \/ /\ stor.cached /\ stor' = now
           /\ UNCHANGED destroyed
           /\ \/ /\ stor.status /\ m \in flag /\ now.dirty
                 /\ toChar' = Append(toChar, save)
                 /\ unsaved' = FALSE /\ lost' = FALSE
              \/ /\ ~stor.status \/ ~now.dirty \/ MaySkip(m)
                 /\ unsaved' = (unsaved \/ back # {} \/ (stor.status /\ stor.dirty))
                 /\ UNCHANGED <<toChar, lost>>
  /\ shut' = flag \ {m}
  /\ flag' = flag \ {m}
  /\ guild' = guild \ {m}
  /\ UNCHANGED <<online, db, toMap, linked, breaks>>

\* guild_retrieveitembound, intif_itembound_req: the member who is not here is
\* left to the char server, and the storage closed and locked, if it is here.
Pull(m) ==
  /\ "pull" \in Deeds /\ linked /\ Room
  /\ m \in guild \ online /\ online \cap guild # {}
  /\ "pull goods" \in Deeds \/ inv[m] \cap Bound = {}
  /\ LET bound == [cmd |-> "bound", who |-> m] IN
       \/ /\ stor.status
          /\ \E n \in flag :
               /\ flag' = flag \ {n} /\ shut' = flag \ {n}
               /\ \/ /\ stor.dirty
                     /\ toChar' = toChar \o <<Store>> \o <<bound>>
                     /\ unsaved' = FALSE /\ lost' = FALSE
                  \/ /\ ~stor.dirty \/ MaySkip(n)
                     /\ toChar' = Append(toChar, bound)
                     /\ unsaved' = (unsaved \/ stor.dirty)
                     /\ UNCHANGED lost
       \/ /\ ~stor.status
          /\ toChar' = Append(toChar, bound)
          /\ UNCHANGED <<flag, shut, unsaved, lost>>
  /\ stor' = IF stor.cached THEN [stor EXCEPT !.status = FALSE, !.lock = TRUE] ELSE stor
  /\ guild' = guild \ {m}
  /\ UNCHANGED <<online, inv, db, toMap, linked, breaks, destroyed>>

\* @cleargstorage, by somebody who has it not open: as many slots as there are
\* goods, so what lies behind a gap stays.
Clears(m) ==
  /\ "clear" \in Deeds
  /\ m \in (online \cap guild) \ flag /\ stor.cached
  /\ \E kept \in SUBSET stor.items :
       /\ stor' = [stor EXCEPT !.items = kept, !.dirty = @ \/ kept # stor.items,
                               !.status = FALSE, !.lock = FALSE]
       /\ destroyed' = destroyed \cup (stor.items \ kept)
       /\ unsaved' = (unsaved \/ kept # stor.items \/ (stor.status /\ stor.dirty))
  /\ shut' = flag
  /\ Alone /\ UNCHANGED <<flag, inv, toChar, lost>>

----------------------------------------------------------------------------
(* Packets *)

\* Faulty: what is not saved yet is overwritten.
LoadIgnoredInUse(p) == (p.open /\ p.who \notin online) \/ stor.status
\* intif_parse_LoadGuildStorage: nobody to open it for; in use; not saved yet.
LoadIgnored(p) == \/ p.open /\ p.who \notin online
                  \/ stor.status
                  \/ stor.dirty

ReadLoad(p) ==
  \/ LoadIgnored(p) /\ UNCHANGED <<stor, flag>>
  \/ /\ ~LoadIgnored(p)
     /\ \/ /\ p.open /\ p.who \in guild \ flag
           /\ stor' = [Loaded(p.items) EXCEPT !.status = TRUE]
           /\ flag' = flag \cup {p.who}
        \/ /\ ~p.open \/ p.who \notin guild \/ p.who \in flag
           /\ stor' = Loaded(p.items)
           /\ UNCHANGED flag

\* Faulty: an acknowledgement counts for a storage in use as well.
ReadSavedAnyTime == stor' = [stor EXCEPT !.dirty = FALSE] /\ UNCHANGED flag
\* storage_guild_storagesaved
ReadSaved ==
  /\ stor' = IF stor.status THEN stor ELSE [stor EXCEPT !.dirty = FALSE]
  /\ UNCHANGED flag

\* intif_parse_Itembound_ack
ReadUnlock == stor' = [stor EXCEPT !.lock = FALSE] /\ UNCHANGED flag

MapReads ==
  /\ toMap # <<>>
  /\ toMap' = Tail(toMap)
  /\ LET p == Head(toMap) IN
       \/ p.cmd = "load" /\ ReadLoad(p)
       \/ p.cmd = "saved" /\ ReadSaved
       \/ p.cmd = "unlock" /\ ReadUnlock
  /\ UNCHANGED <<online, guild, inv, db, toChar, linked, breaks, history>>

Load(m, open, items) == [cmd |-> "load", who |-> m, open |-> open, items |-> items]

\* mapif_parse_ItemBoundRetrieve: his goods move to the storage, in the database.
PullsGoods(m) ==
  LET back == inv[m] \cap Bound IN
  /\ db' = db \cup back
  /\ inv' = [inv EXCEPT ![m] = @ \ back]
  /\ toMap' = toMap \o (IF back # {} THEN <<Load(m, FALSE, db \cup back)>> ELSE <<>>)
                    \o <<[cmd |-> "unlock"]>>

CharReads ==
  /\ toChar # <<>>
  /\ toChar' = Tail(toChar)
  /\ LET p == Head(toChar) IN
       \/ /\ p.cmd = "req"
          /\ toMap' = Append(toMap, Load(p.who, TRUE, db))
          /\ UNCHANGED <<db, inv>>
       \/ /\ p.cmd = "store"
          /\ db' = p.items
          /\ toMap' = Append(toMap, [cmd |-> "saved"])
          /\ UNCHANGED inv
       \/ p.cmd = "bound" /\ PullsGoods(p.who)
  /\ UNCHANGED <<stor, flag, online, guild, linked, breaks, history>>

----------------------------------------------------------------------------
(* The link *)

LinkBreaks ==
  /\ linked /\ breaks < MaxBreaks
  /\ linked' = FALSE
  /\ breaks' = breaks + 1
  /\ toChar' = <<>> /\ toMap' = <<>>
  /\ lost' = (lost \/ \E i \in DOMAIN toChar : toChar[i].cmd = "store")
  /\ UNCHANGED <<stor, flag, online, guild, inv, db, shut, unsaved, destroyed>>

\* Faulty: nothing is saved again.
UnsavedNone == <<>>
\* do_reconnect_storage, storage_reconnect_sub: closed storages are saved again.
Unsaved == IF stor.dirty /\ ~stor.status THEN <<Store>> ELSE <<>>

Reconnects ==
  /\ ~linked
  /\ linked' = TRUE
  /\ toChar' = Unsaved
  /\ IF Unsaved # <<>> THEN unsaved' = FALSE /\ lost' = FALSE
                       ELSE UNCHANGED <<unsaved, lost>>
  /\ UNCHANGED <<stor, flag, online, guild, inv, db, toMap, breaks, shut, destroyed>>

----------------------------------------------------------------------------

GuildInit ==
  /\ \E own \in [Goods -> Members \cup {Nobody}] :
       /\ inv = [m \in Members |-> {g \in Goods : own[g] = m}]
       /\ db = {g \in Goods : own[g] = Nobody}
  /\ stor = Uncached
  /\ flag = {} /\ online = {} /\ guild = Members
  /\ toChar = <<>> /\ toMap = <<>> /\ linked = TRUE /\ breaks = 0
  /\ shut = {} /\ unsaved = FALSE /\ lost = FALSE /\ destroyed = {}

MemberStep(m) ==
  \/ Requests(m) \/ Opens(m) \/ Closes(m) \/ AutoSaves(m) \/ Quits(m) \/ Comes(m)
  \/ Leaves(m) \/ Pull(m) \/ Clears(m)
  \/ \E g \in Goods : Adds(m, g) \/ Gets(m, g)

GuildNext == \/ \E m \in Members : MemberStep(m)
             \/ MapReads \/ CharReads \/ LinkBreaks \/ Reconnects

GuildSpec == GuildInit /\ [][GuildNext]_gs_vars

\* Both servers read their sockets, and the map server connects again.
FairGuildSpec == GuildSpec /\ WF_gs_vars(MapReads) /\ WF_gs_vars(CharReads)
                           /\ WF_gs_vars(Reconnects)

----------------------------------------------------------------------------
(* Properties *)

\* What members see is a vault: whatever is loaded, saved, acknowledged, saved
\* again or lost with the link, goods only move from hands to storage and back,
\* and none is missing but those that are destroyed on purpose
\* (intif_parse_LoadGuildStorage refuses what would undo a change).
Guild   == INSTANCE Vault WITH hands <- inv,
                               vault <- IF stor.cached THEN stor.items ELSE db
IsVault == Guild!VaultSpec

\* A storage in use is in the hands of one member, so that it gets free when he
\* closes it or goes, and a member who has it open does find it in use, unless
\* somebody else closed it on him (storage_guild_storageopen,
\* storage_guild_storageclose).
Held ==
  /\ stor.status => \E m \in Members : flag \ shut = {m}
  /\ ~stor.status => flag \subseteq shut

\* What the char server has, or is about to read, of a closed storage that is not
\* to be saved again is the storage as it is (storage_guild_storagesaved), except
\* after its last save was lost with the link, or left out when it was closed: an
\* earlier one's acknowledgement counts for it.
IsStore(i) == toChar[i].cmd = "store"
IsSaved ==
  \/ db = stor.items /\ \A i \in 1..Len(toChar) : ~IsStore(i)
  \/ \E i \in 1..Len(toChar) :
       /\ IsStore(i) /\ toChar[i].items = stor.items
       /\ \A j \in 1..Len(toChar) : IsStore(j) => j <= i
CleanIsSaved ==
  stor.cached /\ ~stor.dirty /\ ~stor.status /\ ~unsaved /\ ~lost => IsSaved

\* "Close storage for sd and save it", "Re-save any storages that were modified in
\* the disconnection time": a storage that is saved when it is closed, or would
\* be if there were a link, gets saved.
DirtyEnds ==
  stor.dirty /\ ~stor.status /\ ~unsaved ~> ~stor.dirty \/ stor.status \/ unsaved

\* No good is lost: what is taken from a member who is away is put into the
\* storage, and no save undoes that ("Lock for retrieval process").
NothingLost == Goods \subseteq stor.items \cup db \cup UNION {inv[m] : m \in Members}
=============================================================================
