SPECIFICATION GuildSpec
CONSTANTS
  alice = alice
  bob = bob
  carol = carol
  banner = banner
  apple = apple
  nobody = nobody
  Members <- MCMembers
  Goods <- MCGoods
  Bound <- MCBound
  Nobody <- nobody
  Deeds = {"pull","pull goods"}
  MaxBreaks = 0
  MaxPackets = 2
INVARIANTS
  NothingLost
CHECK_DEADLOCK FALSE
