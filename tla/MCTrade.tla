------------------------------ MODULE MCTrade ------------------------------
(* Two players with a stackable item, a piece of equipment and a          *)
(* weightless item, and inventories of two or three slots.                *)
EXTENDS Trade

CONSTANTS p1, p2, apple, sword, gem, none

MCPair == {p1, p2}
MCItems == {apple, sword, gem}
MCNobodyAsks == {}
MCNoItems    == {}
MCGem        == {gem}
MCApple      == {apple}

MCNameOf    == [x \in MCItems |-> x]
MCStackable == {apple, gem}
MCWeight    == [x \in MCItems |-> IF x = gem THEN 0 ELSE 1]
MCLimit     == [x \in MCItems |-> 2]

Holds(x, n) == [item |-> x, amount |-> n, worn |-> FALSE]
MCStartPair == [p \in MCPair |->
  IF p = p1 THEN <<Holds(apple, 2), Holds(gem, 1)>>
            ELSE <<Holds(sword, 1), Holds(apple, 1)>>]
Free         == [item |-> none, amount |-> 0, worn |-> FALSE]
MCStartRoom  == [p \in MCPair |->
  IF p = p1 THEN <<Holds(sword, 1), Free, Free>> ELSE <<Holds(apple, 1), Free, Free>>]
=============================================================================
