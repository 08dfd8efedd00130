SPECIFICATION FairGuildSpec
CONSTANTS
  alice = alice
  bob = bob
  carol = carol
  banner = banner
  apple = apple
  nobody = nobody
  Members <- MCTwoMembers
  Goods <- MCGoods
  Bound <- MCBound
  Nobody <- nobody
  Deeds = {"leave","clear","pull","siege"}
  MaxBreaks = 1
  MaxPackets = 2
INVARIANTS
  GuildTypeOK
  Held
  CleanIsSaved
PROPERTIES
  IsVault
  DirtyEnds
CHECK_DEADLOCK FALSE
