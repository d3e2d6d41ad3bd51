----------------------------- MODULE MCAllocation ------------------------------
(***************************************************************************)
(* Small instances of Allocation: one item type planned on two lines for   *)
(* two stations, three buys that together exceed the plan, and a sale at   *)
(* each station.  The buy 1 does not fit on line 1 alone; the sale 4 is    *)
(* larger than line 1.                                                     *)
(***************************************************************************)
EXTENDS Allocation

MCTx == 1..5
MCLine == 1..2
MCBuys == {1, 2, 3}
MCQty == [t \in MCTx |-> IF t \in {1, 4} THEN 3 ELSE 1]
MCMatches == [t \in MCTx |-> CASE t = 4 -> {1} [] t = 5 -> {2} [] OTHER -> {1, 2}]
MCPlanned == [l \in MCLine |-> 2]

================================================================================
