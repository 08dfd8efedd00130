---------------------------- MODULE TicketOffice ----------------------------
(***************************************************************************)
(* What the login server promises about tickets, whatever it is asked and  *)
(* whatever it loses: an account has at most one ticket, every ticket is   *)
(* new, and a ticket is redeemed at most once, while it is the account's   *)
(* current one.                                                            *)
(***************************************************************************)
EXTENDS Naturals

CONSTANT Holders   \* accounts

VARIABLES current,   \* holder -> its ticket, 0 for none
          issued,    \* number of tickets issued
          redeemed   \* <<holder, ticket>> that were redeemed

Issue(a) ==
  /\ issued' = issued + 1
  /\ current' = [current EXCEPT ![a] = issued + 1]
  /\ UNCHANGED redeemed

Redeem(a) ==
  /\ current[a] # 0
  /\ <<a, current[a]>> \notin redeemed
  /\ redeemed' = redeemed \cup {<<a, current[a]>>}
  /\ current' = [current EXCEPT ![a] = 0]
  /\ UNCHANGED issued

Withdraw(S) ==
  /\ current' = [a \in Holders |-> IF a \in S THEN 0 ELSE current[a]]
  /\ UNCHANGED <<issued, redeemed>>

OfficeInit == /\ current = [a \in Holders |-> 0]
              /\ issued = 0
              /\ redeemed = {}
OfficeNext == \/ \E a \in Holders : Issue(a) \/ Redeem(a)
              \/ \E S \in SUBSET Holders : Withdraw(S)
OfficeSpec == OfficeInit /\ [][OfficeNext]_<<current, issued, redeemed>>
=============================================================================
