---------------------------- MODULE SessionData ----------------------------
(***************************************************************************)
(* What the login server and the char server have in common: accounts, and *)
(* records that may wait for a timer (src/common/timer.c).                 *)
(***************************************************************************)
EXTENDS Integers, Sequences, FiniteSets

CONSTANTS Accounts,   \* account ids of players
          NoAccount   \* what a free timer works for

ASSUME AccountsAssumption == NoAccount \notin Accounts /\ IsFiniteSet(Accounts)

\* char_server / server: "the online table has no record of this account".
Offline == -3

\* waiting_disconnect: no timer pending.
INVALID_TIMER == -1
=============================================================================
