--------------------------- MODULE MCGuildStorage ---------------------------
(* Three members, a good of the guild's and one of their own. *)
EXTENDS GuildStorage, TLC

CONSTANTS alice, bob, carol, banner, apple, nobody

MCMembers    == {alice, bob, carol}
MCTwoMembers == {alice, bob}
MCGoods      == {banner, apple}
MCBound      == {banner}
=============================================================================
