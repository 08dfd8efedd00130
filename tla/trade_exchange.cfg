SPECIFICATION TradeSpec
CONSTANTS
  p1 = p1
  p2 = p2
  apple = apple
  sword = sword
  gem = gem
  none = none
  Players <- MCPair
  Nobody = nobody
  Items <- MCItems
  NoItem <- none
  NameOf <- MCNameOf
  Stackable <- MCStackable
  Tradable <- MCItems
  Weight <- MCWeight
  Limit <- MCLimit
  MaxWeight = 3
  MaxAmount = 2
  MaxZeny = 2
  MaxSlots = 2
  DealSlots = 2
  AskAnyway <- MCNobodyAsks
  Found <- MCGem
  Used <- MCGem
  Start <- MCStartPair
  StartZeny = 1
  MaxFortune = 2
INVARIANTS
  TradeTypeOK
  PartnersMutual
PROPERTIES
  IsExchange
