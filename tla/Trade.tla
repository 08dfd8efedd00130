------------------------------- MODULE Trade -------------------------------
(***************************************************************************)
(* The trade window of the map server (src/map/trade.c): two players agree *)
(* to trade, each puts items and zeny into his window, presses OK (after   *)
(* which his window is fixed) and then TRADE; when both have, everything   *)
(* changes hands at once.  Meanwhile players win and use up things, walk   *)
(* away, leave the game and ask others.                                    *)
(*                                                                         *)
(* Slots of an inventory and of a window count from 1 (0 in the code), and *)
(* a window's untouched slot names the first one, as after memset.  The    *)
(* weight a player carries is the weight of what he has.  Refusals that    *)
(* change nothing (protected account, NPC dialogue, no permission, pending *)
(* invitations, untradable or rental items) are left out; the party or     *)
(* guild a bound item asks for stays what it is during a trade.            *)
(***************************************************************************)
EXTENDS Integers, FiniteSetsExt

CONSTANTS Players, Nobody,
          Items,      \* kinds of items: name, cards, and marks (bound, unique id)
          NoItem,     \* inventory[i].nameid = 0
          NameOf,     \* item -> its name and cards, without the marks
          Stackable,  \* items that share a slot
          Tradable,   \* items the trade window takes
          Weight,     \* item -> weight
          Limit,      \* item -> most in one slot: MAX_AMOUNT or stack.amount
          MaxWeight, MaxAmount, MaxZeny,
          MaxSlots,   \* MAX_INVENTORY
          DealSlots,  \* size of deal.item
          AskAnyway,  \* players whose requests pass while they trade: they are
                      \* in a chat room or may use @trade
          Found,      \* items a player may come by while he trades
          Used,       \* items a player may use up while he trades
          Start,      \* player -> inventory at first
          StartZeny,  \* zeny everybody has at first
          MaxFortune  \* bound: events that happen to players meanwhile

ASSUME NobodyAssumption == Nobody \notin Players
ASSUME AskAssumption    == AskAnyway \subseteq Players
ASSUME ItemsAssumption  ==
  /\ NoItem \notin Items
  /\ UNION {Stackable, Tradable, Found, Used} \subseteq Items
ASSUME BoundsAssumption ==
  /\ {MaxWeight, MaxAmount, MaxZeny, MaxSlots, DealSlots, MaxFortune} \subseteq Nat
  /\ MaxSlots > 0
  /\ Weight \in [Items -> Nat] /\ Limit \in [Items -> 0..MaxAmount]

Empty  == [item |-> NoItem, amount |-> 0, worn |-> FALSE]
Slot   == [item : Items \cup {NoItem}, amount : 0..MaxAmount, worn : BOOLEAN]
Unused == [index |-> 1, amount |-> 0, shown |-> NoItem]
NoDeal == [item |-> [k \in 1..DealSlots |-> Unused], zeny |-> 0, weight |-> 0]
Deal   == [item : [1..DealSlots -> [index  : 1..MaxSlots,
                                    amount : 0..MaxAmount,
                                    shown  : Items \cup {NoItem}]],
           zeny : 0..MaxZeny, weight : Int]

ASSUME StartAssumption ==
  /\ Start \in [Players -> [1..MaxSlots -> Slot]]
  /\ \A p \in Players, i \in 1..MaxSlots :
       Start[p][i].item = NoItem <=> Start[p][i].amount = 0
  /\ StartZeny \in 0..MaxZeny

VARIABLES
  here,         \* players in the game: map->id2sd finds them
  inventory,    \* status.inventory
  zeny,         \* status.zeny
  partner,      \* trade_partner
  trading,      \* state.trading: the trade window is open
  deal_locked,  \* 1: pressed OK, 2: pressed TRADE
  deal,         \* the window; "shown" is what the partner's client was told
  fortune       \* number of events so far

window_vars == <<partner, trading, deal_locked, deal>>
goods_vars  == <<inventory, zeny>>
trade_vars  == <<here, inventory, zeny, partner, trading, deal_locked, deal,
                 fortune>>

TradeTypeOK ==
  /\ here \subseteq Players
  /\ inventory \in [Players -> [1..MaxSlots -> Slot]]
  /\ \A p \in Players, i \in 1..MaxSlots :
       inventory[p][i].item = NoItem <=> inventory[p][i].amount = 0
  /\ zeny \in [Players -> 0..MaxZeny]
  /\ partner \in [Players -> Players \cup {Nobody}]
  /\ trading \in [Players -> BOOLEAN]
  /\ deal_locked \in [Players -> 0..2]
  /\ deal \in [Players -> Deal]
  /\ fortune \in 0..MaxFortune

----------------------------------------------------------------------------
(* Inventories *)

\* f[1] + ... + f[n]
Total(f, n) ==
  LET upto[i \in 0..n] == IF i = 0 THEN 0 ELSE upto[i - 1] + f[i] IN upto[n]

Has(v, x) == {i \in 1..MaxSlots : v[i].item \in x}
Count(v, x) == Total([i \in 1..MaxSlots |-> IF v[i].item = x THEN v[i].amount ELSE 0],
                     MaxSlots)
Load(v) == Total([i \in 1..MaxSlots |->
                    IF v[i].item = NoItem THEN 0 ELSE Weight[v[i].item] * v[i].amount],
                 MaxSlots)

\* Where n of x go: the first slot that holds something alike, if x stacks,
\* else the first free slot.  They fit if there is one and it stays within max.
SlotFor(v, x, alike) ==
  IF x \in Stackable /\ Has(v, alike) # {} THEN Has(v, alike) ELSE Has(v, {NoItem})
Fits(v, x, n, alike, max) ==
  /\ SlotFor(v, x, alike) # {}
  /\ v[Min(SlotFor(v, x, alike))].amount + n <= max
Put(v, x, n, alike) ==
  [v EXCEPT ![Min(SlotFor(v, x, alike))] =
     IF @.item = NoItem THEN [item |-> x, amount |-> n, worn |-> FALSE]
                        ELSE [item |-> @.item, amount |-> @.amount + n,
                              worn |-> @.worn]]

\* pc_additem tells items apart by their marks, trade_check does not.
Same(x)     == {x}
Namesake(x) == {y \in Items : NameOf[y] = NameOf[x]}

\* pc_additem succeeds.
Adds(v, x, n) == /\ Fits(v, x, n, Same(x), Limit[x])
                 /\ Load(v) + Weight[x] * n <= MaxWeight

\* Faulty variants, for the runs that show what each property catches, stand
\* before the definitions they replace, named after what they get wrong.
TakeKeepsSlot(v, i, n) == [v EXCEPT ![i].amount = @ - n]

\* pc_delitem.
Take(v, i, n) == IF v[i].amount = n THEN [v EXCEPT ![i] = Empty]
                                    ELSE [v EXCEPT ![i].amount = @ - n]

----------------------------------------------------------------------------
(* Requests *)

There(p) == partner[p] # Nobody /\ partner[p] \in here

\* partner' once p and whoever he was with are nobody's partner.
Parted(p) == [q \in Players |-> IF q = p \/ (There(p) /\ q = partner[p])
                                THEN Nobody ELSE partner[q]]

\* trade_traderequest, reached from clif_parse_TradeRequest and @trade.  An
\* earlier request or trade of p is dropped first.
TradeRequest(p, q) ==
  /\ {p, q} \subseteq here /\ p # q
  /\ trading[p] => p \in AskAnyway
  /\ \/ partner' = Parted(p)  \* q has a partner, is too far, may not trade
     \/ /\ Parted(p)[q] = Nobody
        /\ partner' = [Parted(p) EXCEPT ![p] = q, ![q] = p]
  /\ UNCHANGED <<here, goods_vars, trading, deal_locked, deal, fortune>>

Open(p, q) ==
  /\ trading' = [trading EXCEPT ![p] = TRUE, ![q] = TRUE]
  /\ deal' = [deal EXCEPT ![p] = NoDeal, ![q] = NoDeal]
  /\ UNCHANGED <<partner, deal_locked>>

\* trade_tradeack.  Either side of a request may answer.  A refusal and a trade
\* that cannot start (too far, busy) look alike.
TradeAck(p, accept) ==
  /\ p \in here /\ ~trading[p] /\ partner[p] # Nobody
  /\ LET q == partner[p]
         wrong == q \notin here \/ trading[q] \/ partner[q] # p IN
       IF ~wrong /\ accept
       THEN Open(p, q)
       ELSE /\ partner' = IF wrong THEN [partner EXCEPT ![p] = Nobody]
                                   ELSE [partner EXCEPT ![p] = Nobody,
                                                        ![q] = Nobody]
            /\ deal_locked' = [r \in Players |-> IF ~wrong /\ r \in {p, q}
                                                 THEN 0 ELSE deal_locked[r]]
            /\ UNCHANGED <<trading, deal>>
  /\ UNCHANGED <<here, goods_vars, fortune>>

----------------------------------------------------------------------------
(* The window *)

\* The windows of the players of S are closed, what was in them stays theirs.
Close(S) ==
  /\ partner' = [q \in Players |-> IF q \in S THEN Nobody ELSE partner[q]]
  /\ trading' = [q \in Players |-> q \notin S /\ trading[q]]
  /\ deal_locked' = [q \in Players |-> IF q \in S THEN 0 ELSE deal_locked[q]]
  /\ deal' = [q \in Players |-> IF q \in S THEN NoDeal ELSE deal[q]]

CancelOwnOnly(p) ==
  IF trading[p] THEN Close({p})
  ELSE partner' = Parted(p) /\ UNCHANGED <<trading, deal_locked, deal>>

\* trade_tradecancel: p's window and his partner's, or the pending request.
Cancel(p) ==
  IF trading[p] THEN Close({p} \cup IF There(p) THEN {partner[p]} ELSE {})
  ELSE partner' = Parted(p) /\ UNCHANGED <<trading, deal_locked, deal>>

TradeCancel(p) ==
  /\ p \in here
  /\ Cancel(p)
  /\ UNCHANGED <<here, goods_vars, fortune>>

\* Where slot i goes in p's window: where it is already, or the first slot not
\* in use.
DealSlot(p, i) == {k \in 1..DealSlots : \/ deal[p].item[k].index = i
                                        \/ deal[p].item[k].amount = 0}

MayAdd(p) == p \in here /\ trading[p] /\ deal_locked[p] = 0

\* trade_tradeadditem: n more of slot i, at most what the slot holds.  A window
\* whose partner is gone is closed instead, here and below.
TradeAddItem(p, i, n) ==
  /\ MayAdd(p)
  /\ IF ~There(p) THEN Cancel(p)
     ELSE
       /\ n <= inventory[p][i].amount
       /\ inventory[p][i].item \in Tradable
       /\ DealSlot(p, i) # {}
       /\ LET k   == Min(DealSlot(p, i))
              x   == inventory[p][i].item
              had == deal[p].item[k].amount
              now == Min({had + n, inventory[p][i].amount}) IN
            /\ Load(inventory[partner[p]]) + deal[p].weight + Weight[x] * n
                 <= MaxWeight
            /\ deal' = [deal EXCEPT
                 ![p].item[k] = [index |-> i, amount |-> now, shown |-> x],
                 ![p].weight = @ + Weight[x] * (now - had)]
       /\ UNCHANGED <<partner, trading, deal_locked>>
  /\ UNCHANGED <<here, goods_vars, fortune>>

\* trade_tradeaddzeny: an amount p has not got or his partner cannot hold closes
\* the windows.
TradeAddZeny(p, z) ==
  /\ MayAdd(p)
  /\ IF ~There(p) \/ z > zeny[p] \/ z > MaxZeny - zeny[partner[p]]
     THEN Cancel(p)
     ELSE /\ deal' = [deal EXCEPT ![p].zeny = z]
          /\ UNCHANGED <<partner, trading, deal_locked>>
  /\ UNCHANGED <<here, goods_vars, fortune>>

\* trade_tradeok.
TradeOk(p) ==
  /\ MayAdd(p)
  /\ IF There(p)
     THEN /\ deal_locked' = [deal_locked EXCEPT ![p] = 1]
          /\ UNCHANGED <<partner, trading, deal>>
     ELSE Cancel(p)
  /\ UNCHANGED <<here, goods_vars, fortune>>

----------------------------------------------------------------------------
(* trade_tradecommit *)

\* impossible_trade_check: p's window promises what he has not got, or wears.
Impossible(p) ==
  \/ deal[p].zeny > zeny[p]
  \/ \E k \in 1..DealSlots :
       LET d == deal[p].item[k]
           s == inventory[p][d.index] IN
         d.amount > (IF s.worn THEN 0 ELSE s.amount)

\* The two windows slot by slot, p's before q's.
DealCount == 2 * DealSlots
Deals(p, q) ==
  [j \in 1..DealCount |->
     LET gives == IF j % 2 = 1 THEN p ELSE q
         d == deal[gives].item[(j + 1) \div 2] IN
       [from |-> gives, to |-> IF gives = p THEN q ELSE p,
        index |-> d.index, amount |-> d.amount]]

\* trade_check on copies of both inventories: deal d is carried out.  What a
\* player gives away leaves its slot occupied.
Check(s, d) ==
  LET slot == s.inv[d.from][d.index]
      fits == /\ d.amount <= slot.amount
              /\ Fits(s.inv[d.to], slot.item, d.amount, Namesake(slot.item),
                      MaxAmount) IN
    IF ~s.ok \/ d.amount = 0 THEN s
    ELSE IF ~fits THEN [s EXCEPT !.ok = FALSE]
    ELSE [s EXCEPT
            !.inv[d.to] = Put(@, slot.item, d.amount, Namesake(slot.item)),
            !.inv[d.from][d.index].amount = @ - d.amount]

Checked(p, q) ==
  LET all == Deals(p, q)
      s[j \in 0..DealCount] ==
        IF j = 0 THEN [ok |-> TRUE, inv |-> inventory] ELSE Check(s[j - 1], all[j]) IN
    s[DealCount]

PossibleMoney(p, q) ==
  /\ deal[p].zeny <= zeny[p] /\ zeny[q] <= MaxZeny - deal[p].zeny
  /\ deal[q].zeny <= zeny[q] /\ zeny[p] <= MaxZeny - deal[q].zeny

Possible(p, q) ==
  /\ deal[p].zeny <= zeny[p] /\ zeny[q] <= MaxZeny - deal[p].zeny
  /\ deal[q].zeny <= zeny[q] /\ zeny[p] <= MaxZeny - deal[q].zeny
  /\ Checked(p, q).ok

\* A deal is done: pc_additem for the one and, if that succeeds, pc_delitem for
\* the other.
Hand(inv, d) ==
  LET x == inv[d.from][d.index].item IN
    IF d.amount = 0 \/ ~Adds(inv[d.to], x, d.amount) THEN inv
    ELSE [inv EXCEPT ![d.to] = Put(@, x, d.amount, Same(x)),
                     ![d.from] = Take(@, d.index, d.amount)]

Handed(p, q) ==
  LET all == Deals(p, q)
      inv[j \in 0..DealCount] ==
        IF j = 0 THEN inventory ELSE Hand(inv[j - 1], all[j]) IN
    inv[DealCount]

\* p gives a and gets b (pc_payzeny, pc_getzeny).
Zeny(p, a, b) == Min({MaxZeny, zeny[p] - a + b})

TradeCommit(p) ==
  /\ p \in here /\ trading[p] /\ deal_locked[p] > 0
  /\ LET q == partner[p] IN
       IF ~There(p)
       THEN Cancel(p) /\ UNCHANGED goods_vars
       ELSE IF deal_locked[q] < 2
       THEN /\ deal_locked' = [deal_locked EXCEPT ![p] = 2]
            /\ UNCHANGED <<goods_vars, partner, trading, deal>>
       ELSE IF Impossible(p) \/ Impossible(q) \/ ~Possible(p, q)
       THEN /\ Cancel(IF ~Impossible(p) /\ Impossible(q) THEN q ELSE p)
            /\ UNCHANGED goods_vars
       ELSE /\ inventory' = Handed(p, q)
            /\ zeny' = [zeny EXCEPT
                          ![p] = Zeny(p, deal[p].zeny, deal[q].zeny),
                          ![q] = Zeny(q, deal[q].zeny, deal[p].zeny)]
            /\ Close({p, q})
  /\ UNCHANGED <<here, fortune>>

----------------------------------------------------------------------------
(* What else happens to players *)

Happens == fortune < MaxFortune /\ fortune' = fortune + 1

\* Shared loot, a script, a monster's drop: pc_additem.
Finds(p, x) ==
  /\ Happens /\ p \in here
  /\ Adds(inventory[p], x, 1)
  /\ inventory' = [inventory EXCEPT ![p] = Put(@, x, 1, Same(x))]
  /\ UNCHANGED <<here, zeny, window_vars>>

\* Ammunition and what skills need: pc_delitem.
UsesUp(p, i) ==
  /\ Happens /\ p \in here
  /\ inventory[p][i].item \in Used
  /\ inventory' = [inventory EXCEPT ![p] = Take(@, i, 1)]
  /\ UNCHANGED <<here, zeny, window_vars>>

Spends(p) ==
  /\ Happens /\ p \in here /\ zeny[p] > 0
  /\ zeny' = [zeny EXCEPT ![p] = @ - 1]
  /\ UNCHANGED <<here, inventory, window_vars>>

Earns(p) ==
  /\ Happens /\ p \in here
  /\ zeny' = [zeny EXCEPT ![p] = Min({@ + 1, MaxZeny})]
  /\ UNCHANGED <<here, inventory, window_vars>>

\* Equipment is put on or taken off.
Wears(p, i) ==
  /\ Happens /\ p \in here
  /\ inventory[p][i].item \in Items \ Stackable
  /\ inventory' = [inventory EXCEPT ![p][i].worn = ~@]
  /\ UNCHANGED <<here, zeny, window_vars>>

\* The player leaves the map server: unit_remove_map cancels his trade, and
\* what is left of his session is freed.
Leaves(p) ==
  /\ Happens /\ p \in here
  /\ here' = here \ {p}
  /\ IF partner[p] # Nobody /\ trading[p] THEN Cancel(p)
     ELSE /\ partner' = Parted(p)
          /\ trading' = [trading EXCEPT ![p] = FALSE]
          /\ deal_locked' = [deal_locked EXCEPT ![p] = 0]
          /\ deal' = [deal EXCEPT ![p] = NoDeal]
  /\ UNCHANGED goods_vars

Enters(p) ==
  /\ p \notin here
  /\ here' = here \cup {p}
  /\ UNCHANGED <<goods_vars, window_vars, fortune>>

Chance(p) == \/ \E x \in Found : Finds(p, x)
             \/ \E i \in 1..MaxSlots : UsesUp(p, i) \/ Wears(p, i)
             \/ Spends(p) \/ Earns(p) \/ Leaves(p) \/ Enters(p)

----------------------------------------------------------------------------
TradeInit ==
  /\ here = Players
  /\ inventory = Start
  /\ zeny = [p \in Players |-> StartZeny]
  /\ partner = [p \in Players |-> Nobody]
  /\ trading = [p \in Players |-> FALSE]
  /\ deal_locked = [p \in Players |-> 0]
  /\ deal = [p \in Players |-> NoDeal]
  /\ fortune = 0

Window(p) ==
  \/ \E q \in Players : TradeRequest(p, q)
  \/ \E accept \in BOOLEAN : TradeAck(p, accept)
  \/ \E i \in 1..MaxSlots, n \in 1..MaxAmount : TradeAddItem(p, i, n)
  \/ \E z \in 0..MaxZeny : TradeAddZeny(p, z)
  \/ TradeOk(p) \/ TradeCancel(p) \/ TradeCommit(p)

TradeNext == \E p \in Players : Window(p) \/ Chance(p)
TradeSpec == TradeInit /\ [][TradeNext]_trade_vars

----------------------------------------------------------------------------
(* Properties *)

\* A player's partner has him for a partner, and both or neither have their
\* windows open; an open window has a partner and only an open window is locked
\* (trade_traderequest, trade_tradeack, trade_tradecancel, unit_remove_map).
PartnersMutual ==
  \A p \in Players :
    /\ partner[p] # Nobody => /\ partner[partner[p]] = p
                              /\ trading[partner[p]] = trading[p]
    /\ trading[p] => partner[p] # Nobody
    /\ deal_locked[p] > 0 => trading[p]

\* Goods change hands only when both have pressed TRADE with each other, and
\* then exactly what each was shown goes over, all of it or nothing, while both
\* go on living: items used up or found, zeny spent, players leaving.
Money == "zeny"
Wealth == [p \in Players |-> [g \in Items \cup {Money} |->
             IF g = Money THEN zeny[p] ELSE Count(inventory[p], g)]]
InWindow(p) ==
  [g \in Items \cup {Money} |->
     IF g = Money THEN deal[p].zeny
     ELSE Total([k \in 1..DealSlots |-> IF deal[p].item[k].shown = g
                                        THEN deal[p].item[k].amount ELSE 0],
                DealSlots)]
Nothing == [to |-> Nobody, goods |-> [g \in Items \cup {Money} |-> 0]]
Swap == INSTANCE Exchange
          WITH People   <- Players,
               Goods    <- Items \cup {Money},
               NoOffer  <- Nothing,
               holdings <- Wealth,
               offer    <- [p \in Players |->
                              IF deal_locked[p] = 0 THEN Nothing
                              ELSE [to |-> partner[p], goods |-> InWindow(p)]]
IsExchange == Swap!ExchangeSpec

\* Whatever pc_additem refuses at the commit, and whatever a slot holds by then,
\* nothing is lost or doubled: goods leave a player only for one he trades with,
\* both have pressed OK, and the two together have what they had
\* (trade_tradecommit).
NothingDoubled ==
  [][\A p \in Players : fortune' = fortune /\ Wealth'[p] # Wealth[p] =>
       \E q \in Players \ {p} :
         /\ partner[p] = q \/ partner[q] = p
         /\ deal_locked[p] > 0 /\ deal_locked[q] > 0
         /\ \A g \in Items \cup {Money} :
              Wealth'[p][g] + Wealth'[q][g] = Wealth[p][g] + Wealth[q][g]
         /\ \A r \in Players \ {p, q} : Wealth'[r] = Wealth[r]
    ]_trade_vars

\* When a trade is carried out everything in both windows changes hands.
AllOrNothing ==
  [][\A p, q \in Players :
       /\ fortune' = fortune /\ p # q /\ Wealth' # Wealth
       /\ trading[p] /\ trading[q] /\ ~trading'[p] /\ ~trading'[q]
       => \A g \in Items \cup {Money} :
            Wealth'[p][g] = Wealth[p][g] - InWindow(p)[g] + InWindow(q)[g]
    ]_trade_vars
=============================================================================
