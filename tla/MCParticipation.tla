---------------------------- MODULE MCParticipation ----------------------------
(***************************************************************************)
(* Small instances of Participation.  p asks for two units and sends two   *)
(* donations, the second more than asked for; t asks for three and sends   *)
(* one that an admin has to attribute.  The instances differ in how well   *)
(* the memo of the first donation is spelt, and in how many of the         *)
(* requests may be cut short.                                              *)
(***************************************************************************)
EXTENDS Participation, TLC

CONSTANTS p, t, d1, d2, d3

MCDonor == (d1 :> p) @@ (d2 :> p) @@ (d3 :> t)
MCIsk == (d1 :> 2) @@ (d2 :> 1) @@ (d3 :> 2)
MCMemo == (d1 :> "exact") @@ (d2 :> "contains") @@ (d3 :> "none")
MCMisspelt == [MCMemo EXCEPT ![d1] = "typo"]
MCAsk == (p :> {2}) @@ (t :> {3})

================================================================================
