SPECIFICATION TradeSpec
CONSTANTS
  p1 = p1
  p2 = p2
  apple = apple
  sword = sword
  gem = gem
  none = none
  Players <- MCPair
  Nobody = nobody
  Items <- MCItems
  NoItem <- none
  NameOf <- MCNameOf
  Stackable <- MCStackable
  Tradable <- MCItems
  Weight <- MCWeight
  Limit <- MCLimit
  MaxWeight = 2
  MaxAmount = 2
  MaxZeny = 2
  MaxSlots = 3
  DealSlots = 2
  AskAnyway <- MCNobodyAsks
  Found <- MCApple
  Used <- MCNoItems
  Start <- MCStartRoom
  StartZeny = 1
  MaxFortune = 1
PROPERTIES
  AllOrNothing
