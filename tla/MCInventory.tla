------------------------------ MODULE MCInventory ------------------------------
(***************************************************************************)
(* A small instance of SettlementInventory: two Cycles, so that one is      *)
(* settled into the other.  A planned line has one unit; the orders found  *)
(* in the game have two, so that a line can be sold in part.  Three lines  *)
(* are enough for one in the settled Cycle, one that carries its stock,    *)
(* and one more that a repeated open adds.                                 *)
(***************************************************************************)
EXTENDS SettlementInventory

\* Sound: only invariants are checked, and a Cycle is told from another by its
\* status and its lines.
CycleSymmetry == Permutations(Cycle)

================================================================================
