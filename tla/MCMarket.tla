-------------------------------- MODULE MCMarket --------------------------------
(***************************************************************************)
(* Two types, two packages that share a line, one of which has both types, *)
(* committed together or one after the other; a batch and another one that *)
(* reuses its key.                                                         *)
(***************************************************************************)
EXTENDS MarketLines, TLC

CONSTANTS s, t, p1, p2, key, b1, b2, r1

MCItems == (p1 :> (s :> 1 @@ t :> 1)) @@ (p2 :> (s :> 2 @@ t :> 0))
MCPlan == {{p1}, {p2}, {p1, p2}}
MCKeyOf == [b \in Batch |-> key]

================================================================================
