------------------------------ MODULE MCLifecycle ------------------------------
(***************************************************************************)
(* Small instances of CycleLifecycle.  Three Cycles let one be completed,  *)
(* one open and one planned at once; the number of requests in flight is   *)
(* what the configurations vary.  Runs, failures and crashes are unbounded.*)
(***************************************************************************)
EXTENDS CycleLifecycle, TLC

\* Sound for the runs that check no liveness: Cycles differ in status only.
CycleSymmetry == Permutations(Cycle)

================================================================================
