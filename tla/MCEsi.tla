--------------------------------- MODULE MCEsi ---------------------------------
(***************************************************************************)
(* Two callers of one URL, u, which may change while they run, and one of  *)
(* another, the page w, which is always fetched.  One slot, or two while   *)
(* the limit is widened, so that calls wait for them.                      *)
(***************************************************************************)
EXTENDS EsiClient, TLC

CONSTANTS c1, c2, c3, u, v, w

\* The two callers of u differ only in name.
Symmetry == Permutations({c1, c2})
MCWants == (c1 :> {u}) @@ (c2 :> {u}) @@ (c3 :> {w})
MCLastPeriod == (u :> 2) @@ (w :> 1)

================================================================================
