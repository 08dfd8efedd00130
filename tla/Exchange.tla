------------------------------ MODULE Exchange ------------------------------
(***************************************************************************)
(* What a trade between two players promises: goods change hands only in a *)
(* swap of two standing offers that are addressed to each other, and the   *)
(* swap moves exactly what was offered, all of it, both ways.  What        *)
(* becomes of people apart from that (Fortune) touches no offer.           *)
(***************************************************************************)
EXTENDS Integers

CONSTANTS People,
          Goods,    \* kinds of goods, money among them
          NoOffer

VARIABLES holdings,  \* person -> goods -> how much
          offer      \* person -> NoOffer or [to, goods: goods -> how much]

Standing(p) == offer[p] # NoOffer

\* p puts up an offer, which then stands as it is.
Offers(p) ==
  /\ ~Standing(p) /\ Standing(p)'
  /\ \A q \in People \ {p} : offer'[q] = offer[q]
  /\ UNCHANGED holdings

\* Offers are taken back.
Withdraws ==
  /\ \A p \in People : offer'[p] \in {offer[p], NoOffer}
  /\ UNCHANGED holdings

Swaps(p, q) ==
  /\ Standing(p) /\ Standing(q) /\ p # q
  /\ offer[p].to = q /\ offer[q].to = p
  /\ \A g \in Goods : /\ offer[p].goods[g] <= holdings[p][g]
                      /\ offer[q].goods[g] <= holdings[q][g]
  /\ holdings' = [holdings EXCEPT
       ![p] = [g \in Goods |-> @[g] - offer[p].goods[g] + offer[q].goods[g]],
       ![q] = [g \in Goods |-> @[g] - offer[q].goods[g] + offer[p].goods[g]]]
  /\ offer' = [offer EXCEPT ![p] = NoOffer, ![q] = NoOffer]

Fortune(p) ==
  /\ \A q \in People \ {p} : holdings'[q] = holdings[q]
  /\ UNCHANGED offer

ExchangeInit == \A p \in People : ~Standing(p)
ExchangeNext == \/ \E p \in People : Offers(p) \/ Fortune(p)
                \/ \E p, q \in People : Swaps(p, q)
                \/ Withdraws
ExchangeSpec == ExchangeInit /\ [][ExchangeNext]_<<holdings, offer>>
=============================================================================
