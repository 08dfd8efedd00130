------------------------------- MODULE Vault -------------------------------
(***************************************************************************)
(* What a guild expects of its storage: a good is in somebody's hands or   *)
(* in the vault, a member puts his own in and takes out what is in, and    *)
(* nothing is there twice.  What leaves hands and vault is destroyed, and  *)
(* counted as such: the vault is cleared, or somebody leaves who may not   *)
(* keep what is the guild's.  Whether the goods are at a map server, in a  *)
(* packet or in a database is nobody's concern.                            *)
(***************************************************************************)
CONSTANTS Members, Goods

VARIABLES hands,  \* member -> the goods he has
          vault,  \* the goods stored
          destroyed  \* the goods destroyed on purpose

vault_vars == <<hands, vault, destroyed>>

VaultInit ==
  /\ hands \in [Members -> SUBSET Goods]
  /\ vault \in SUBSET Goods /\ destroyed = {}
  /\ \A m \in Members : /\ hands[m] \cap vault = {}
                        /\ \A n \in Members \ {m} : hands[m] \cap hands[n] = {}

PutsIn(m, S) ==
  /\ S \subseteq hands[m]
  /\ hands' = [hands EXCEPT ![m] = @ \ S]
  /\ vault' = vault \cup S
  /\ UNCHANGED destroyed

TakesOut(m, g) ==
  /\ g \in vault
  /\ hands' = [hands EXCEPT ![m] = @ \cup {g}]
  /\ vault' = vault \ {g}
  /\ UNCHANGED destroyed

Forfeits(m, S) ==
  /\ S \subseteq hands[m]
  /\ hands' = [hands EXCEPT ![m] = @ \ S]
  /\ destroyed' = destroyed \cup S
  /\ UNCHANGED vault

Clear(S) ==
  /\ S \subseteq vault
  /\ vault' = vault \ S
  /\ destroyed' = destroyed \cup S
  /\ UNCHANGED hands

VaultNext ==
  \/ \E m \in Members, S \in SUBSET Goods : PutsIn(m, S) \/ Forfeits(m, S)
  \/ \E m \in Members, g \in Goods : TakesOut(m, g)
  \/ \E S \in SUBSET Goods : Clear(S)

VaultSpec == VaultInit /\ [][VaultNext]_vault_vars
=============================================================================
