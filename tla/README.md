# Brathena: a verification project in TLA+

Brathena is a server for a massively multiplayer game (C, derived from the
Hercules/eAthena family). Three kinds of processes share the work:

* the **login server** (`src/src/login`) checks passwords and hands out tickets,
* the **char server** (`src/src/char`) keeps characters and says who is online,
* **map servers** (`src/src/map`) run the world: players, monsters, trades.

Each process has one thread, driven by its sockets and timers, so a handler is
atomic within its process. What is hard is between handlers: packets of three
processes and many clients cross, links break and come back, processes die, and
timers of the past meet the records of today. That is what the modules here are
about. They are written in plain TLA+, checked with TLC on small instances, and
the central safety properties are proved with TLAPS for every instance.

## 1. Inventory

### The processes and what they remember

| Part | State | Operations | Talks to |
|---|---|---|---|
| Login server, sessions (`login.c`) | `online_db`: account -> char server (-1 only passed the password, -2 its server is gone) and a timer; `auth_db`: account -> ticket (`login_id1/2`); `server[]`: char servers connected | a client logs in; char server: "is this ticket good?", account online/offline, list of all online, all offline, wrong PIN; 30 s timer, 10 min cleanup; links come and go; the process dies | clients, char servers |
| MAC table (`mac.c`) | `onlinedb`: account -> MAC address; `bandb`: bans with expiry timers, saved in SQL | is online / add / remove; ban, unban, load, save | login server |
| Char server, sessions (`char.c`) | `online_char_db`: account -> character, map server (-1 at the list, -2 elsewhere), socket, 20 s timer; `auth_db`: ticket for moves between servers; `session[]`: one per socket; `server[]`: map servers | client connects, picks a character, goes; login server's answers, kick, accounts wanted; map server: auth request, char select, change of map server, save, on/offline, list of users, all offline; timers, cleanup; links | login server, map servers, clients |
| Map server, sessions (`chrif.c`, parts of `clif.c`, `pc.c`, `map.c`) | `auth_db`: account -> node in state login / logout / map change, with timeouts; `id_db`: players in the world | a client asks in, the char server's answer, registries, save and its acknowledgement, delayed quits, shops left behind, reconnection, kick, cleanup | char server, clients |
| Guild storage (`storage.c`, `int_storage.c`) | one copy in the database, one at the map server with "in use", "changed", "locked"; who has it open | open, add, take, close, save and its acknowledgement, leave or be expelled with the guild's goods, clear, reconnection | char server, `guild.c`, `pc.c` |
| Trade (`trade.c`) | per player: partner, window open, locked (OK / TRADE), window of 10 slots and zeny; inventories, zeny | request, answer, add, OK, cancel, commit; everything else that changes inventories | clients, inventory functions of `pc.c` |
| Shops, personal storage, duels, chat, mail, groups | per player and per room/party/guild | further protocols between two or more players | `pc.c`, char server |
| Game rules (`battle.c`, `skill.c`, `status.c`, `mob.c`, ...) | units on maps | damage, effects, AI | tables of game data |
| Scripts, maps, instances | scripts and their variables | interpreter | everything on the map server |
| Timers (`timer.c`) | `timer_data[]`, a heap of the ids that wait, a list of the ids to use again | add, add with an interval, delete, move; `do_timer` calls the functions that are due | everybody: owners keep ids, functions start and delete timers |
| Common (`socket.c`, `db.c`, `ers.c`) | sockets, hash tables, pools | used by all | the operating system |

`PROJECT.json` lists every part with its sources and what became of it.

### How the processes interact over one account

1. A client passes the password check: `login_auth_ok` records account and
   ticket, starts a 30 s timer and gives the ticket to the client.
2. The client shows it to the char server (0x65), which asks the login server
   (0x2712). The login server vouches for a ticket once and forgets it. The answer
   carries the number of the client's socket.
3. The char server lets the session in and tells the login server the account is
   online (0x272b).
4. The client picks a character; the ticket moves into the char server's own
   `auth_db`, the account is "elsewhere", and the client goes to a map server,
   which asks the char server (0x2afc) and lets the player in.
5. Back to the list, to another map server, or out: the map server returns the
   ticket or saves for the last time, and the account becomes offline at the char
   server and then at the login server.

A second login of the same account at any point starts a kick that travels the
other way, with a timer at each server in case nobody obeys.

### Which behaviours are hard

* **Identifiers are reused.** Timer ids and sockets name something else a moment
  later. An answer or a timeout may arrive for the previous owner.
* **Two tables about the same thing**, one per server, joined by a link that
  delays and, when it breaks, forgets.
* **Nobody checks who says it**: any char server may declare any account online
  or offline, any map server any character.
* **Processes die** and keep nothing of this state.
* **Something must happen eventually**: an account that is refused because it is
  online must get free, or its owner is locked out.
* **Data is in three places**: a character or a storage is in a database, in packets
  under way and in a map server's memory; each is written as a whole over the other.
* **Functions that a loop calls change what it loops over**: `do_timer` goes on with an id
  whose function deleted, moved or started timers.
* **A trade** is agreed in several steps, while both inventories live on, and
  carried out item by item.

### What makes each part correct

* Login server: a ticket is vouched for at most once, never after it was replaced
  or withdrawn; timers and records name each other; nobody waits for ever; a MAC
  address belongs to one account.
* Char server: timers and records name each other; the socket of a record is that
  account's; the server that loses an account is told; nobody waits for ever and no idle
  record stays.
* Both together: nobody is let in, anywhere, without a ticket the login server
  handed out for that account and vouched for; who plays plays a character of his own,
  although the char server takes the character from the map server; one session per
  account at the list.
* Char server and map servers: what a player did is not lost when he is kicked, his link
  breaks or he comes back at once, as long as one map server has him; what is acknowledged
  was saved; nobody waits for ever.
* Guild storage: a good is in one place, and gone only when it was destroyed on purpose; who
  has the storage open has it alone; what was changed is saved; loads, saves and
  acknowledgements that come late undo nothing.
* Timers: an owner's id is that of his own timer; it rings when due, the earliest first,
  once or at every beat, and never after he deleted it.
* Trade: partners have each other; goods move only in a swap both agreed to, as
  shown, all of it or nothing; and where the code does not keep to that, nothing is made or
  lost at least.

The hazards behind these, each with its line, are in `PROJECT.json`.

## 2. Plan

1. **LoginServer** with its abstract specification TicketOffice, and proofs. *Done.*
2. **CharServer**, then **AccountSession** = LoginServer + CharServer + the link +
   clients + the players of map servers, with proofs for both. *Done.*
3. **Trade** with its abstract specification Exchange, and proofs. *Done, apart from
   the saves after a trade.*
4. **CharMap** = CharServer + map servers + links + clients: how the data of a
   character travels; with proofs. *Done.*
5. **GuildStorage** with its abstract specification Vault, and proofs. *Done.*
6. **Timer** with its abstract specification Alarms, and proofs: what all the others
   assume of timers. *Done.*
7. Open: **MacBan** (`mac.c`: bans, timers, restarts; `login.c:1749` lifts a ban only if
   there is none, `mac.c:357` stores unsaved bans under one key, `mac.c:311` compares
   uptimes of different runs); **Db** (`db.c`: deletion under an iterator); vending and
   buying stores, parties and guilds, duels, mail, auctions, PIN codes: each a small
   protocol with a hazard of its own.

All safety properties that the passing runs check are theorems by now (section 5). Still
worth proving: OldServerTold where CharServer runs among map servers (CharMap), and the
exchange with the two saves after a trade, once those are modelled.

## 3. Modules

| Module | Models |
|---|---|
| `SessionData` | what login server and char server share: accounts, "no record", "no timer" |
| `TicketOffice` | abstract: tickets are issued, redeemed once while current, withdrawn |
| `LoginServer` | `login.c`, sessions, and the online table of `mac.c` |
| `CharServer` | `char.c`, sessions |
| `AccountSession` | EXTENDS both; the link, clients, players |
| `CharMap` | EXTENDS CharServer; `chrif.c` and its callers, links, clients |
| `Exchange` | abstract: offers stand or are taken back; two that are addressed to each other are swapped |
| `Trade` | `trade.c` with the functions of `pc.c` it calls |
| `Vault` | abstract: goods are in hands or in the vault, and move one member at a time |
| `GuildStorage` | the guild's part of `storage.c` and `int_storage.c`, and their callers |
| `Alarms` | abstract: each alarm is off or due, and rings when it is due |
| `Timer` | `timer.c` |
| `LoginServerProofs`, `CharServerProofs`, `AccountSessionProofs`, `CharMapProofs`, `RollbackProofs`, `TradeProofs`, `GuildStorageProofs`, `TimerProofs` | theorems |
| `MC...` | constants and views for TLC |

Operators named after a fault (`AuthAcceptKeepsNode`, `CloseSessionKeepsFd`, ...) are
not part of any specification: each is a plausible bug in the definition that follows
it, and shows that a property would notice.

### LoginServer

`login_online` and `login_auth` are the two tables; an absent record has
`char_server = Offline` (-3, a value the code does not use) so that every account has
a value. `login_timers` is the part of `timer_data[]` that runs
`waiting_disconnect_timer`: id -> account. Ids are a finite set and are reused as soon
as they are free. The pair of random ids of a login is a fresh number. `acked` is
history: what was vouched for.

Each packet of a char server is an action with the packet's fields as parameters and
the server's slot, guarded only by what the dispatcher checks: that the link is up.
In the stand-alone specification the char servers are adversarially sloppy: any of
them may send anything about any account at any time. `Login` is `login_auth_ok`,
whose three outcomes (the account is still on a char server; its MAC address is in
use; accepted) are actions. The result of `mmo_auth` is input.

Two lines of the code are modelled by what they do rather than what they mean:
`AuthNullNode`, where the branch that should refuse a ticket reads a field of a null
node (the process ends), and `ReadIds`, where the list of online accounts is read two
bytes before it starts: each id read is made of halves of two neighbouring words, and
is nobody's account (`Ghost`).

### CharServer

`char_online` has the record of `online_char_db` including its socket; `sess` has one
record per socket: the account it claims, the ticket it showed, whether it was let in
(`auth`), whether it is marked to be closed (`eof`). `toLogin` and `toMap` are what has
been written to the links. `SetCharOnline`, `SetCharOffline` and `SetCharSelect` are the
three functions of the same names; the handlers that call them are the actions. The
map servers may say anything about any account and any character: `char_set_char_online`
and `char_parse_frommap_set_users` do not ask whose it is.
`login_fd = -1` is the moment between the loss of the link and the reconnection timer,
in which the code has a closed descriptor. The order in which `foreach` visits a hash
table is left open (`Listed`).

### AccountSession

One char server, in `Slot`. Each server reads what the other wrote in order
(`LoginReads`, `CharReads`); each notices a broken link on its own (`LinkLost`), and what
was under way may be read before that. `LoginReads` dispatches to the very actions of
LoginServer, with what CharServer really writes in place of "anything". A client may
show any account, any character and any ticket, its own or made up, to either server. `playing` is what a map server
knows of the players it let in: enough to send back what it was shown. CharMap has the
full map server, and a login server that just vouches for clients.

### CharMap

The data of a character is the set of edits made to it: `db` is what the char server
has, `pl[m][a].data` what a map server has, `cargo` what is in the packets that let a
player in. A save replaces the set, so an edit can get lost. History are `written` (what the
char server ever had) and `split`: the characters that were let in on one map server while
another one had them, as a session, as data under way to it, or as a save it had written
(`Has`). Nothing in the code prevents that after a break, and then the older server's last
save undoes what the newer one saved; NoRollback says that nothing else does. A character
that is let in when no server has it is not split any more.

A map server has one session per account. "login" and "loaded" are a node at ST_LOGIN
before and after 0x2afd, "world" a player in `id_db`, "logout" a node at ST_LOGOUT that
waits for its acknowledgement. `client` is the socket: on, put to eof, gone. `MapReads`
dispatches on the char server's packets as `chrif_parse` and `intif_parse` do, `CharReads`
on the map servers' as `char_parse_frommap`, to the actions of CharServer. When a link
breaks, both ends notice at once; the packets are gone. `Reconnects` is
`chrif_on_ready` with `chrif_reconnect` for every node.

Clients are honest: they connect where the char server sent them, at most `MaxTries`
times on one ticket. A player goes to any map server that is connected (`Selects`): his last
map, the place he is sent back to, or, when the server of that is away, a default city, may
be anywhere, and the city replaces the map he was on. `Deeds` says
which of shops, returns to the list and kicks happen.

### GuildStorage

`stor` is the map server's copy with `storage_status`, `dirty`, `lock`; `flag` the members
who have it open; `db` the table. Goods are single things; `Bound` ones are the guild's,
and go back when their bearer leaves (`Leaves`: into the storage here) or is expelled
while he is away (`Pull`, `PullsGoods`: by the char server, in the database). Which
storages a save takes along, who may close it, and what an acknowledgement counts for,
is as the code has it. `storage_guild_storageclose` closes it for whoever has it open, and
`chrif_save` saves it only with a player who has it open, and not during a siege when
`prevent_save_settings` says so (`"siege"`, `MaySkip`). Four variables are history: `shut`, the
members on whom somebody else closed it; `unsaved`, it was changed and closed without a
save, until the next one; `lost`, a save was lost with the link, until the next one;
`destroyed`, goods that were destroyed on purpose, which are a variable of Vault too: there
a good leaves hands and vault only by being counted as destroyed.

### Trade

One inventory slot is a kind of item, an amount, and whether it is worn. Kinds are told
apart by name, cards and marks (binding, unique id); `NameOf` forgets the marks, because
`trade_check` does and `pc_additem` does not, and that difference is the point of two
helper definitions (`Same`, `Namesake`) over one set of placement rules. A window holds
slot numbers and amounts, as in the code; `shown` is what the partner's client was told
when the item was added. A commit is one action: both `impossible_trade_check`s,
`trade_check` on copies, then the items slot by slot with `pc_additem` and `pc_delitem`,
then zeny. `Checked` and `Handed` are the two loops over the windows, entry by entry, as
recursive functions, and `Total` the sums over slots. `Chance` is life going on meanwhile: loot that a party shares, ammunition and
gems used up, zeny spent and earned, equipment, leaving. `AskAnyway` are players whose
requests pass although they trade: in a chat room, or with `@trade`; their windows stay open,
perhaps locked, and are used with whom they find next.

### Timer

`timer_data`, `timer_data_num` and `free_timer_list` are the variables of the same names;
`timer_heap` is how often each id is in the heap, so that being in it twice can be said to
be wrong. The array order of the heap is left out: any id with the smallest tick may be on
top. `pass` is `do_timer`'s `tick` while it runs, `running` the id whose function it has
called: between `Call` and `Return` the function adds, deletes and moves timers, its own
too, and the clock may go on. A timer may be started for or moved to any tick, a past one
too; owners count from `gettick()`, from the tick their function was called with (`CallTick`,
which is late when the function is: `unit_walktoxy_timer`), or from the timer's own
(`timer_addtick`), so a function can start a timer that is due in the same pass (`From`).

Timers are used through their owners. An alarm is an owner's variable (`held`: a
`deletetimer`, an `invincible_timer`, ...) with what he gives to `timer_add`. Owners do what
those in `src/src/map` do: they start a timer when they have none, reset the variable when
they delete the timer and first thing in its function. `Careless` ones keep the id, as
`instance_destroy_timer` does, which then deletes its own timer; they may also delete it
later, when it belongs to somebody else. The function compared by `timer_do_delete` is all
that stops them, so the named assumption is that nobody else's timer has a careless
owner's function. In the code all instances share one function; they are safe for
another reason: the id of a timer that its own function deletes is never given out again.

## 4. What is checked

| Run | Instance | Shows |
|---|---|---|
| `login_server` | 2 accounts that compete for 1 MAC, 2 char servers, 2 timers, 2 logins | types, `TimersMatch`, `AuthedOnTheClock`, `MacTable`, `WaitingEnds`, `LostForgotten`; LoginServer implements TicketOffice |
| `char_server` | 1 account with 2 characters, 2 sockets, 2 map servers, 2 timers | types, `CharTimersMatch`, `OldServerTold`, `CharWaitingEnds`, `IdleForgotten` |
| `session_safety` | 2 accounts with 1 character each and 1 socket to share, 1 map server, queues of 2 and 1 packets, 1 login | `FdIsTheirs`, `AuthOwnTicket`, `InGamePlaysOwn`, types |
| `session_single` | 1 account, 2 sockets, 2 logins | **violation**: two sessions of one account at the list |
| `map_session` | 1 character, 2 map servers, 1 link that breaks once, 1 edit, 2 logins | types, `NoRollback`, `AckedIsSaved`, and `EntersLoaded` for patient clients |
| `map_liveness` | same with 1 map server and 3 logins, fair | `EditsSaved`, `NobodyHangs` |
| `map_blank` | 1 character, 2 packets under way, impatient clients | **violation**: a player enters the world before his character has come |
| `guild_storage` | 2 members, a good of the guild's and another, leaving, clearing, expelling, a siege, 1 break, 2 packets under way, fair | types, `Held`, `CleanIsSaved`, `DirtyEnds`; GuildStorage implements Vault |
| `guild_pull` | 3 members, one expelled while away | **violation**: the goods of the expelled member are lost |
| `trade_exchange` | 2 players, 3 kinds of items, 2 slots, windows of 2, stacks of 2, 2 events | `PartnersMutual`, types; Trade implements Exchange |
| `trade_weight` | 2 players, one finds an item | **violation**: a trade that is carried out in part |
| `timer` | 2 owners with one function, a careless one, 3 ids, ticks to 3, fair | types, `IdsInPlace`, `OwnersKnow`, `DueRings`; Timer implements Alarms |

### Bounds and why they are enough

* Two timers in the servers: one to fire late and one to be started meanwhile, so that ids
  are reused. Starting a timer needs a free one; the code never runs out, and with two ids
  and two accounts each account can have its own.
* `MaxLogins = 2`: the second login is what meets the first one's timer, ticket and
  session. Each account's third login finds what the second found. `map_liveness` has 3,
  since there kicks and returns count as logins too.
* Two accounts meet on one socket in `session_safety`: that is what can mix up answers.
  A single login suffices there because clients may show any ticket for any account.
* `MaxToLogin`, `MaxToChar`, `MaxPackets` bound packets under way: a server that would
  start something more waits. Two packets towards the login server are enough for an
  "online" to be behind an "auth"; with one answer under way, the socket it names can still
  be closed and taken. In CharMap a handler that answers or a cleanup may exceed the bound,
  so a repeated save and its acknowledgement cross even with `MaxPackets = 1`. The proofs
  have no bound.
* CharMap: one edit is enough to be lost, as it is made at any time; one break of one link
  separates two map servers that both know the account, and is followed by the saves that
  are repeated after it; two logins let the next session of a character, on the same or
  the other server, meet the last one's saves; two connections on a ticket give
  the second socket that is put to eof. `Patient` clients (all but `map_blank`) do not
  connect while registries for their account are under way; without it, `map_blank`.
* GuildStorage: two members contend for the storage; in `guild_pull` a third is expelled.
  Two packets under way let a load and a save cross. In a siege a save may be left out or
  made, so the runs with `"siege"` have the behaviours of the setting 0 as well. What an expelled member has that is
  the guild's is pulled in `guild_pull` only (`"pull goods"`), because IsVault and
  CleanIsSaved do not survive what that run shows.
* Trade: two slots make inventories full, stacks of two make stacks full, weight 3 lets
  an addition be refused; two events let something be used up and found again.
  `MaxFortune` bounds events, not trades: the trades of a run are unbounded. What IsExchange
  says is false where `pc_additem` refuses after `trade_check` passed (`trade_weight`) and after
  requests in the middle of a trade, so the instance has neither; what is left of it in those
  cases, NothingDoubled, has no run and is proved for all of them (TradeNothingDoubled).
* Timer: three ids and three owners fill every id, free some and give them out again;
  `LateLimit = 1` and `MaxNow = 3` let an interval timer be late enough to skip beats, and
  not, and a late function start a timer that is due at once. `MaxTick = 3` is the last tick
  an owner may ask for. Delays are positive: with 0 a function could start itself again at its
  own tick for ever, and `do_timer` would never return (DueRings needs that; the proofs do
  not, and take delays of any sign).

### Views and symmetry

`LoginServer` alone writes `toChar` and never reads it, `CharServer` alone neither
`toLogin` nor `toMap`, in `AccountSession` nobody reads `toMap`, in `CharMap` nobody
reads `toLogin`, nor what is written to a link that is down. The views of the MC modules
leave these out. That is sound: no guard reads them, no property mentions them except the
types of what is appended and OldServerTold, which looks at what one step appends; and
that depends on the rest of the state only. MCTimer's view leaves out the fields of
`timer_data` that nobody reads: all but the function of a timer neither in the heap nor
running, all but the tick of a deleted one in the heap. No run uses symmetry.

The runs of CharMap and GuildStorage say CHECK_DEADLOCK FALSE: there everybody may be gone
and every bound used up. All others check for deadlock.

### Fairness

Only what the servers' own loops guarantee.

* A due timer's callback runs (`WF(WaitingDisconnect(t))`, `WF(CharWaitingDisconnect(t))`),
  and the cleanup timers come round (`WF(OnlineDataCleanup)`, `WF(CharCleanup)`). Time is
  not modelled in the servers, so a timer may fire at any moment after it was started;
  that is more behaviours than the code has. Nothing is assumed of clients, other servers
  or links there: liveness holds although nobody ever answers.
* CharMap: both ends of a link are read and a lost link is made again, whoever the server
  gave up on (eof) is closed or quits after his 10 seconds, autosaves and the cleanup of
  nodes come round. That autosaves do is so with `prevent_save_settings: 0`, as the
  configuration comes (`conf/map-server.conf:132`); with another value a siege puts them off
  (`pc.c:10577`, `chrif.c:281`), which the safety runs cover, since nothing there makes an
  autosave happen. No client has to do anything. A shop may stay for ever.
* GuildStorage: both servers read their sockets, the map server connects again. No member
  has to close the storage, and no siege has to end.
* Timer: the main loop of `core.c` calls `do_timer` for ever and functions return
  (`WF(DoTimer)`); `core.c:441`. The clock need not go on.
* AccountSession and Trade have no liveness property: nothing in them is bound to happen
  without a client.

### Where the code and its comments part

Shown by runs:

1. `session_single`: `char.c:2317` stores the session's socket only in a record that was
   there before; the guard against a second session (`char.c:2312`) reads it.
2. `trade_weight`: `trade.c:260` does not check what `pc_additem` checks (weight, stack
   limits, marks); the commit goes on after a refusal. With two kinds of items that come
   and go, a slot can also change its content under a locked window, and IsExchange fails
   for that reason too.
3. `map_blank`: `intif.c:1051` gives registries to whoever is logging in with that
   character, also those asked for by an earlier connection, and that lets him into the
   world before `pc_authok` has run.
4. `guild_pull`: `intif.c:2248` locks a storage only if it is here, not if it is being
   loaded; the goods of an expelled member are put into the database under a load that is
   under way, and the next save removes them.

Read off the code while modelling it, present in the models but with no run of their own:

* `login.c:333`: `login_fromchar_auth_ack` has an answer for "no ticket", but its caller
  formats `node->mac_address` with `node == NULL` first (`AuthNullNode`).
* `login.c:672` reads at offset 6 what `char.c` writes at offset 8 (`ReadIds`).
* `trade.c:86` cancels "the previous one" by removing the partner on both sides only;
  `state.trading`, `deal_locked` and the windows stay (`Parted`). With a player in
  `AskAnyway`, PartnersMutual fails; NothingDoubled holds.
* `char.c:3314`: a last save is stored whoever has the character, so when a link broke and the
  player went on at another map server, the save that is repeated after the reconnection
  undoes what he did there. Two sessions of a character on two servers are what `split`
  records.
* `storage.c:812`: a close by somebody else leaves a changed storage unsaved until it is
  opened and closed again or the link is made again (`unsaved`), and so does a close during a
  siege (`chrif.c:281`); an earlier save's acknowledgement counts for a later save that was
  lost (`lost`); a lock set before the
  link breaks stays (`Pull`).
* `timer.c:359`: a timer deleted by its own function loses TIMER_REMOVE_HEAP, and its id is
  never used again. IdsInPlace shows it is the only way to lose one.

AuthOwnTicket, TimersMatch and the rest hold with these present.

## 5. What is proved

TLAPS checks these for all values of the constants: any number of accounts, servers,
sockets, timers, tickets, members and goods, and queues of any length.

* `LoginServerProofs!LoginTypes`, `LoginTimers`, `LoginOnTheClock`, `LoginMacs`:
  `LoginSpec => []P` for LoginTypeOK, TimersMatch, AuthedOnTheClock, MacTable. The
  invariant LoginInv is their conjunction and two facts that make them inductive: an
  absent record names no timer (OfflineNoTimer), and a waiting ticket was issued and not
  yet vouched for (TicketsFresh).
* `LoginServerProofs!LoginIsTicketOffice`: LoginServer implements TicketOffice. Every
  step maps to Issue, Redeem, Withdraw or a stutter; TicketsFresh gives the guard of
  Redeem.
* `CharServerProofs!CharTypes`, `CharTimers`, `CharFds`: `CharSpec => []P` for
  CharTypeOK, CharTimersMatch, FdIsTheirs. The invariant CharInv adds to them what a record can look like (RecordOK): only an account
  in game or elsewhere is on a timer, which is what keeps a timer from surviving the
  return to the list; and only sessions that claim an account are let in (SessOK). The
  table lemmas (one per function that sets a record) are separate from the lemmas about
  sessions, queues and the rest, and each action combines them.
* `CharServerProofs!CharTellsOld`: `CharSpec => OldServerTold`, an action property: the
  server that loses an account hears of it in the same step. The char server writes to the
  old server only if its link is up; that it always is needs a second invariant (OnLive):
  the server an account in game is on is connected, because the loss of a link takes all
  its accounts out of the game in one step.
* `AccountSessionProofs!OwnTickets`: `Spec => []AuthOwnTicket`. AuthOwnTicket is about the
  two ends of a journey, so the invariant SessionInv follows the ticket: a good answer
  under way (LinkOK), a session that was let in, a ticket put aside for a map server, a
  player, are all about a ticket in `acked`. An answer is believed only if the socket's
  session still claims exactly that account and ticket; with the packet's ticket vouched
  for, the session's is. CharInv is reused: every step of the composition is a step of
  CharServer or leaves it alone.
* `AccountSessionProofs!SessionPlaysOwn`: `Spec => []InGamePlaysOwn`. The char server alone
  does not have it: in CharSpec map servers name any character. In the composition the
  character is followed as the ticket is: it was the account's when it was picked, the ticket
  put aside names it (or none), a map server lets in only the character of the ticket, and
  says afterwards what it was shown.
* `AccountSessionProofs!SessionTypes`, `SessionFds`, `SessionTicketOffice`: in the
  composition, `[]SessionTypeOK`, `[]FdIsTheirs`, and that it still implements TicketOffice.
  Here each server is given what the other really writes, so the types of what one appends
  to a link must be those of what the other expects, and every step of the composition is
  shown to be one of LoginServer's or to leave it alone.
* `CharMapProofs!AckedSavesWritten`: `CharMapSpec => AckedIsSaved`. AckedIsSaved is about the
  moment a map server reads a 0x2b21, which names an account and a character and nothing
  that tells one session from the next; what keeps an old acknowledgement away from a new
  session is the order of the queues. What a map server has written and the char server
  not read, behind what the char server has answered and the map server not read, is one
  queue per account, and the invariant (Orderly) says for each stage of the session how
  requests that let a player in (0x2b26 and the registries) and last saves may follow each
  other in it: someone who logs in has every old acknowledgement ahead of his own answer;
  who is loaded or in the world has none under way; who leaves has nothing that lets in
  behind his first save, and all last saves under way carry what he left with (Faithful).
  The lemmas SessionBegins to SessionEnds are the life of a session in that order; one
  lemma per action puts it back into the tables. CharInv is reused: each step of the char
  server is a step of CharServer. Carries counts what the auth_ok packets under way bring
  along, so that `chrif_authok` never reads data that is not there.
* `CharMapProofs!PatientEntersLoaded`: `Patient => (CharMapSpec => EntersLoaded)`, from the
  last conjunct of Orderly: nothing under way lets in who has just connected. `map_blank`
  shows what happens without the hypothesis.
* `CharMapProofs!CharMapTypes`: `CharMapSpec => []CharMapTypeOK`, from the same invariant.
* `RollbackProofs!CharKeepsEdits`: `Patient => (CharMapSpec => NoRollback)`, with links that
  break and are made again. Orderly says what kinds of packets may follow each other;
  NoRollback needs what is in them. The invariant RollInv says that the saves of one session
  are a growing trail, each at most what the session holds, and that nobody is loaded, or
  about to be let in, before the trail behind him is stored (TrailOK); that only one server
  has a character that is not split (SingleOK); and that what that server holds (HeldOK), has
  sent (SavedOK) or is being sent (LoadsOK) has everything the char server has of the
  character. The last three are lost whenever the char server stores something, unless
  everybody who may still save over it has it: on the same server that is what TrailOK gives,
  and SingleOK says there is no other. A reconnection starts a new trail, of last saves of
  sessions that are over (LinkRolls). A character is let in where nobody has it, with what
  the char server has: that is where a split ends (HasAfterRead, LoadIsGood).
* `TradeProofs!TradeTypes`: `TradeSpec => []TradeTypeOK`, with no assumption on what happens
  to players meanwhile. No amount becomes negative because the entries in use are the first
  of a window and each names another slot (Ordered), and `impossible_trade_check` has
  compared each with its slot: after any number of deals a slot still has what the later ones
  promise (Kept, Ready).
* `TradeProofs!TradeMutual`: if `AskAnyway = {}`, `TradeSpec => []PartnersMutual`. The
  invariant adds that whoever has a partner is in the game, so that nobody looks for one
  who is gone. One lemma (PartOK) carries every way of parting: cancel, refusal, commit,
  displacement, leaving.
* `TradeProofs!TradeNothingDoubled`: `TradeSpec => NothingDoubled`, with no assumption on
  items, limits, what players find, or who may ask: whatever `pc_additem` refuses in the middle
  of a commit, both together have what they had. Balance (below) does not need that anything
  is accepted, only that a slot still has what is taken from it (Kept).
* `TradeProofs!TradeIsExchange`: `Careful => (TradeSpec => IsExchange)`. Two arguments meet in
  it.
  *Windows from step to step*: OfferInv says that a window is fair: it shows what its slots
  hold, unless that has been used up (Shows); `deal.weight` is the weight of what it shows
  (Weighed); the partner can carry it (Bearable); what stacks is in one slot (Unique); and
  who has no window open has nothing in it. `trade_check` tests none of this.
  *A commit*: `trade_check` works on copies in which a slot that is given away stays
  occupied, `trade_tradecommit` on inventories whose slots become free, so the two fill
  different slots. They go abreast all the same (Abreast): what stacks is in both, in the
  same amount, and as many slots hold something (Twins), so what finds room in the one
  does in the other; together with Bearable no `pc_additem` is refused (AbreastStep).
  Alongside is what the inventories are worth under any valuation of items (Balance), which
  with worth 1 for one item and 0 for the rest is how many of it each has.
  *Careful* is what this needs: nobody asks for a trade while he trades; what players find
  meanwhile weighs nothing and nothing else is used up; items have no limit of their own;
  items of one name are alike; what stacks is in one slot at first. The constants of
  `trade_exchange` satisfy it. Each conjunct is needed: with any one of them dropped TLC
  finds on a small instance that IsExchange fails (`trade_weight` is one of these cases).
* `GuildStorageProofs!GuildTypes`, `GuildHeld`: `GuildSpec => []P` for GuildTypeOK and
  Held, with the types of the packets under way (UseInv).
* `GuildStorageProofs!GuildIsVault`: if `"pull goods" \notin Deeds`, GuildStorage implements
  Vault, in which nothing is missing but what is counted as destroyed. What a load carries must be the storage as it is, or be ignored. Hence VaultInv:
  before the map server has the storage nothing is saved (NoSaveYet); what a request will
  read, or a load carries, is the storage as it is unless that is marked as changed, and
  requests and loads are ahead of saves and acknowledgements (ReqsFirst, LoadsFirst); whose
  goods are pulled has none of the guild's (PulledAway).
* `GuildStorageProofs!GuildSaves`: under the same assumption `[]CleanIsSaved`: the last
  save under way carries the storage as it is, unless it was changed since, and each
  action either keeps that, marks the storage as changed, writes a save, or leaves a mark
  (`unsaved`, `lost`) that lasts until the next save.
* `TimerProofs!TimerTypes`, `TimerPlaces`, `TimerOwners`: `TimerSpec => []P` for
  TimerTypeOK, IdsInPlace, OwnersKnow.
  The invariant adds HisFunc: a timer with a function has its owner's; one that waits or
  runs has an owner; one whose function runs and that will not be put back was deleted. The
  lemmas Acquires and Released say what the list of free ids loses and gains; SameTimers
  and OtherAlarm say when a step leaves an owner's timer alone.
* `TimerProofs!TimerIsAlarms`: Timer implements Alarms. Each action has a lemma: Add sets,
  Delete cancels or does nothing, Settick moves or does nothing, Call rings (and, for an
  interval timer, moves the alarm to its next beat: `Return` does that later, but nobody
  can tell), Return is done, the rest stutters.

Assumptions: only the named ASSUMEs of the modules (sets of numbers where numbers are
meant, "nobody" not among somebody, finitely many accounts, a ticket for every login,
one function per careless owner, inventories that are well formed at first), which TLC
evaluates on every run, and those the theorems state (`Patient`, `AskAnyway = {}`,
`Careful`, no pulled goods).

Sums and loops over windows (`Total`, `Checked`, `Handed`) are recursive functions over
intervals of numbers. The induction theorems of the library take an operator and cannot be
instantiated by the provers at hand; TradeProofs gets by with induction over *sets* of
numbers: the set of those for which a fact fails has no least member (Smallest, from WFMin
and NatLessThanWellFounded; Inductive, Recursion).

**Only model-checked:** liveness (TLAPS has no ENABLED or fairness reasoning here):
WaitingEnds, LostForgotten, CharWaitingEnds, IdleForgotten, EditsSaved, NobodyHangs,
DirtyEnds, DueRings. Every safety property of a passing run is a theorem.

## 6. What is not modelled

* Verdicts on passwords, bans, PINs, and the data packets of the three servers: they do
  not touch the state modelled here. Packet framing: packets are whole. Below that level
  two faults were seen: `char.c:2742` asks for fewer bytes than 0x2713 has, and
  `login.c:973` falls through to the next packet's handler.
* Time in the servers: timers fire in any order. `Timer` has ticks.
* CharMap: a change of map server (`pc_setpos` returns before it would hand a player over),
  the packets that carry names, fame, sex, bans and status changes, shops restored at
  startup, shutdown. What of a player is saved in other packets than his status.
* GuildStorage: a second map server (which would have its own copy), the limit of 600
  slots, amounts, disbanding the guild, carts (they go in and out as the inventory does), a
  player who selects his character while his goods are being pulled.
* Trade: the two saves after a trade; logs; refusals that change nothing; warps within a
  map server (a warp cancels a trade as leaving does).
* Timer: the array order of the heap and its growth, timer names, ticks that overflow, a
  system clock that is set back (the fallback of `sys_tick`).
* Game rules, scripts, maps, databases, the client's packet formats: sequential
  computations over large tables, or plain I/O. They are by far most of the code.
