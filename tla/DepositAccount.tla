---------------------------- MODULE DepositAccount -----------------------------
(***************************************************************************)
(* What the deposit ledger promises about each user's investment in one    *)
(* Cycle.  An amount is confirmed, then booked in the ledger as a deposit; *)
(* a user who asks to invest more has the new amount confirmed later, and  *)
(* only the difference is booked.  So no ISK is booked twice, and nothing  *)
(* is booked that was not confirmed.  Participation, the code, is shown to *)
(* implement this module.                                                  *)
(***************************************************************************)
EXTENDS Naturals

CONSTANT User

VARIABLES
    confirmed,   \* confirmed[u]: the investment of u that counts as received
    booked       \* booked[u]: the deposits of u in the ledger

accountVars == <<confirmed, booked>>

Init ==
    /\ confirmed = [u \in User |-> 0]
    /\ booked = [u \in User |-> 0]

\* The investments of the other users stay.
OnlyOf(u) == \A v \in User \ {u} : confirmed'[v] = confirmed[v]

\* The whole investment is confirmed anew, what is booked already included.
Confirm(u) ==
    /\ confirmed' \in [User -> Nat]
    /\ confirmed'[u] >= booked[u]
    /\ OnlyOf(u)
    /\ UNCHANGED booked

\* What is confirmed and not booked yet is booked by one entry.
Book(u) ==
    /\ booked' = [booked EXCEPT ![u] = confirmed[u]]
    /\ UNCHANGED confirmed

\* An investment both confirmed and booked at once.
Deposit(u) ==
    /\ confirmed[u] = 0 /\ booked[u] = 0
    /\ confirmed' \in [User -> Nat]
    /\ OnlyOf(u)
    /\ booked' = [booked EXCEPT ![u] = confirmed'[u]]

\* The amount is about to change: only what is booked still counts.
Reopen(u) ==
    /\ confirmed' = [confirmed EXCEPT ![u] = booked[u]]
    /\ UNCHANGED booked

\* The participations of the users in S are given up, with their accounts.
GiveUp(S) ==
    /\ confirmed' = [u \in User |-> IF u \in S THEN 0 ELSE confirmed[u]]
    /\ booked' = [u \in User |-> IF u \in S THEN 0 ELSE booked[u]]

Next ==
    \/ \E u \in User : Confirm(u) \/ Book(u) \/ Deposit(u) \/ Reopen(u)
    \/ \E S \in SUBSET User : GiveUp(S)

Spec == Init /\ [][Next]_accountVars

================================================================================
