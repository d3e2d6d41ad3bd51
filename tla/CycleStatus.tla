------------------------------ MODULE CycleStatus ------------------------------
(***************************************************************************)
(* What the trading Cycles promise to everyone who looks at them.  A Cycle *)
(* is planned, opened and completed, at most one is Open at a time, and    *)
(* opening a planned Cycle completes the one that was Open in the same     *)
(* step.  CycleLifecycle, the admin requests as the code runs them, is     *)
(* shown to implement this module when requests do not overlap.            *)
(***************************************************************************)

CONSTANT Cycle            \* the Cycles that may ever be planned

VARIABLE status           \* status[c]: the status column of the row of c

\* "none": no row yet; "deleted": the row is gone for good.
Status == {"none", "PLANNED", "OPEN", "COMPLETED", "deleted"}

TypeOK == status \in [Cycle -> Status]

Init == status = [c \in Cycle |-> "none"]

Plan(c) ==
    /\ status[c] = "none"
    /\ status' = [status EXCEPT ![c] = "PLANNED"]

Discard(c) ==
    /\ status[c] = "PLANNED"
    /\ status' = [status EXCEPT ![c] = "deleted"]

\* Nobody ever sees two Open Cycles, or none between the two.
Open(c) ==
    /\ status[c] = "PLANNED"
    /\ status' = [d \in Cycle |-> CASE d = c -> "OPEN"
                                    [] d # c /\ status[d] = "OPEN" -> "COMPLETED"
                                    [] OTHER -> status[d]]

Close(c) ==
    /\ status[c] = "OPEN"
    /\ status' = [status EXCEPT ![c] = "COMPLETED"]

Next == \E c \in Cycle : Plan(c) \/ Discard(c) \/ Open(c) \/ Close(c)

Spec == Init /\ [][Next]_status

================================================================================
