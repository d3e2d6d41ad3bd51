------------------------------ MODULE MCCollector ------------------------------
(***************************************************************************)
(* Three orders on two pages: two of one type, of which the first can be   *)
(* traded in part, and one of another type, which is taken to have expired *)
(* when it is missed.                                                      *)
(***************************************************************************)
EXTENDS MarketCollector, TLC

CONSTANTS s, t, r1

MCTypeOf == (1 :> s) @@ (2 :> t) @@ (3 :> t)
MCSize == (1 :> 2) @@ (2 :> 1) @@ (3 :> 1)

================================================================================
