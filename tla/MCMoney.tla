-------------------------------- MODULE MCMoney --------------------------------
(***************************************************************************)
(* Small instances of SettlementMoney: j has a JingleYield program with    *)
(* all of the investment locked, n invested more, may add to it and comes  *)
(* close to the cap; n has auto rollover.  The Cycle makes a loss, a       *)
(* profit, or enough profit to complete the program.                       *)
(***************************************************************************)
EXTENDS SettlementMoney

CONSTANTS j, n

MCUser == {j, n}
MCInvested == [u \in MCUser |-> IF u = j THEN 4 ELSE 6]
MCProfits == {-2, 5, 10}
MCExtra == [u \in MCUser |-> IF u = j THEN 0 ELSE 1]
MCCustom == [u \in MCUser |-> 1]
MCAuto == [u \in MCUser |-> IF u = j THEN "none" ELSE "FULL_PAYOUT"]
MCLocked == [u \in MCUser |-> 4]

================================================================================
