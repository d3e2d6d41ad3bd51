---------------------------- MODULE CycleLifecycle -----------------------------
(***************************************************************************)
(* The admin requests that move a trading Cycle through its life, as the   *)
(* API runs them: POST cycles/:id/open (openPlannedCycle), POST            *)
(* cycles/:id/close (settleOpenCycle), DELETE cycles/:id                   *)
(* (deletePlannedCycle) and the planning of a new Cycle.                   *)
(*                                                                         *)
(* A request is a chain of awaited calls; between two of them the server   *)
(* may serve any other request, and the process may die.  pc[r] names the  *)
(* call request r is about to make.  What the Settlement steps do to the   *)
(* Cycle's lines is the subject of SettlementInventory, which extends      *)
(* this module; here only their outcome counts.                            *)
(***************************************************************************)
EXTENDS FiniteSets

CONSTANTS
    Cycle,           \* the Cycles that may be planned
    Request,         \* slots for the admin requests in flight; reused
    NoCycle,         \* the null of the code's nullable Cycles
    OpenableStatus   \* statuses of the Cycles admins ask to open

ASSUME NoCycleAssumption == NoCycle \notin Cycle

\* The API accepts every existing row; the web page offers only "PLANNED".
ASSUME OpenableAssumption == OpenableStatus \subseteq {"PLANNED", "OPEN", "COMPLETED"}

VARIABLES
    status,    \* status[c]: the status column of c, or "none"/"deleted"
    pc,        \* pc[r]: the awaited call that is next in request r
    target,    \* target[r]: the Cycle to open or to delete
    prevOpen,  \* prevOpen[r]: the Open Cycle read when r started
    toClose,   \* toClose[r]: the Open Cycle read inside the transaction
    report,    \* report[r]: the settlement steps recorded so far
    outcome    \* outcome[r]: how the request ended

local == <<target, prevOpen, toClose, report, outcome>>
vars == <<status, pc, target, prevOpen, toClose, report, outcome>>

Status == {"none", "PLANNED", "OPEN", "COMPLETED", "deleted"}

StrictStep == {"wallet_import", "transaction_allocation", "rollover_buyback",
               "close_previous_cycle"}
RecoverableStep == {"payout_creation", "cycle_rollover"}
Step == StrictStep \cup RecoverableStep
StepStatus == {"none", "succeeded", "failed", "skipped"}

PC == {"idle", "readOpen", "candidates", "import", "allocate", "buyback",
       "transition", "commit", "close", "payouts", "rollover", "purchase",
       "discard"}

TypeOK ==
    /\ status \in [Cycle -> Status]
    /\ pc \in [Request -> PC]
    /\ target \in [Request -> Cycle \cup {NoCycle}]
    /\ prevOpen \in [Request -> Cycle \cup {NoCycle}]
    /\ toClose \in [Request -> Cycle \cup {NoCycle}]
    /\ report \in [Request -> [Step -> StepStatus]]
    /\ outcome \in [Request -> {"none", "returned", "threw", "crashed"}]

EmptyReport == [s \in Step |-> "none"]

Init ==
    /\ status = [c \in Cycle |-> "none"]
    /\ pc = [r \in Request |-> "idle"]
    /\ target = [r \in Request |-> NoCycle]
    /\ prevOpen = [r \in Request |-> NoCycle]
    /\ toClose = [r \in Request |-> NoCycle]
    /\ report = [r \in Request |-> EmptyReport]
    /\ outcome = [r \in Request |-> "none"]

--------------------------------------------------------------------------------
(* Helpers.                                                                *)

Exists(c) == c \in Cycle /\ status[c] \in {"PLANNED", "OPEN", "COMPLETED"}

\* findFirst(status = OPEN): null when there is none.  With several Open
\* Cycles the latest startedAt wins; the dates are left out, so any may.
CurrentOpen ==
    LET open == {c \in Cycle : status[c] = "OPEN"}
    IN  IF open = {} THEN {NoCycle} ELSE open

\* previousCycleToSettle, or the cycle the close request settles.
Settled(r) == IF prevOpen[r] = target[r] THEN NoCycle ELSE prevOpen[r]

\* A new request takes the slot r.
Start(r, first, t, open) ==
    /\ pc[r] = "idle"
    /\ pc' = [pc EXCEPT ![r] = first]
    /\ target' = [target EXCEPT ![r] = t]
    /\ prevOpen' = [prevOpen EXCEPT ![r] = open]
    /\ toClose' = [toClose EXCEPT ![r] = NoCycle]
    /\ report' = [report EXCEPT ![r] = EmptyReport]
    /\ outcome' = [outcome EXCEPT ![r] = "none"]

\* The awaited call at here resolves and the request goes on at next.
Advance(r, here, next) ==
    /\ pc[r] = here
    /\ pc' = [pc EXCEPT ![r] = next]

Record(r, step, s) == report' = [report EXCEPT ![r][step] = s]

\* The handler of r ends, with how \in {"returned", "threw"}.
End(r, how) ==
    /\ pc' = [pc EXCEPT ![r] = "idle"]
    /\ outcome' = [outcome EXCEPT ![r] = how]

--------------------------------------------------------------------------------
(* Planning and deleting.                                                  *)

\* planCycle: a new row, with the status the schema gives it by default.
PlanCycle(c) ==
    /\ status[c] = "none"
    /\ status' = [status EXCEPT ![c] = "PLANNED"]
    /\ UNCHANGED <<pc, local>>

\* Mutant: the status check is dropped.
BeginDeleteAnyStatus(r, c) ==
    /\ Exists(c)
    /\ Start(r, "discard", c, NoCycle)
    /\ UNCHANGED status

\* deletePlannedCycle up to its checks: the status is read here ...
BeginDelete(r, c) ==
    /\ status[c] = "PLANNED"
    /\ Start(r, "discard", c, NoCycle)
    /\ UNCHANGED status

\* Mutant: the row is kept under a status the schema does not have.
DeleteCycleSoftly(r) ==
    /\ pc[r] = "discard"
    /\ status' = [status EXCEPT ![target[r]] = "ARCHIVED"]
    /\ End(r, "returned")
    /\ UNCHANGED <<target, prevOpen, toClose, report>>

\* ... and the row deleted here, whatever its status has become.
DeleteCycle(r) ==
    /\ pc[r] = "discard"
    /\ IF Exists(target[r])
       THEN /\ status' = [status EXCEPT ![target[r]] = "deleted"]
            /\ End(r, "returned")
       ELSE /\ End(r, "threw")
            /\ UNCHANGED status
    /\ UNCHANGED <<target, prevOpen, toClose, report>>

--------------------------------------------------------------------------------
(* openPlannedCycle                                                        *)

\* The target's row is read: it must exist, its status is not looked at.
BeginOpen(r, t) ==
    /\ status[t] \in OpenableStatus
    /\ Start(r, "readOpen", t, NoCycle)
    /\ UNCHANGED status

ReadOpenCycle(r) ==
    /\ Advance(r, "readOpen", "candidates")
    /\ \E c \in CurrentOpen : prevOpen' = [prevOpen EXCEPT ![r] = c]
    /\ UNCHANGED <<status, target, toClose, report, outcome>>

\* Mutant: the previous Cycle is not settled before the transition.
BuildCandidatesSkipStrict(r) ==
    /\ Advance(r, "candidates", "transition")
    /\ UNCHANGED <<status, local>>

\* Mutant: the wallets are not imported before the allocation.
BuildCandidatesSkipImport(r) ==
    /\ Advance(r, "candidates", IF Settled(r) = NoCycle THEN "transition" ELSE "allocate")
    /\ UNCHANGED <<status, local>>

\* Mutant: the previous Cycle is closed before its Strict steps run.
BuildCandidatesCloseFirst(r) ==
    /\ Advance(r, "candidates", IF Settled(r) = NoCycle THEN "transition" ELSE "import")
    /\ status' = [c \in Cycle |-> IF c = Settled(r) THEN "COMPLETED" ELSE status[c]]
    /\ UNCHANGED local

\* Rollover line candidates and their Jita prices; then the Strict steps, when
\* there is a Cycle to settle.
BuildCandidates(r) ==
    /\ Advance(r, "candidates", IF Settled(r) = NoCycle THEN "transition" ELSE "import")
    /\ UNCHANGED <<status, local>>

\* Mutant: the transaction opens the target and closes nothing.
TransitionReadNothing(r) ==
    /\ Advance(r, "transition", "commit")
    /\ toClose' = [toClose EXCEPT ![r] = NoCycle]
    /\ UNCHANGED <<status, target, prevOpen, report, outcome>>

\* The transaction re-reads the Open Cycle, through a connection of its own.
TransitionRead(r) ==
    /\ Advance(r, "transition", "commit")
    /\ \E c \in CurrentOpen :
          toClose' = [toClose EXCEPT ![r] = IF c = target[r] THEN NoCycle ELSE c]
    /\ UNCHANGED <<status, target, prevOpen, report, outcome>>

\* The rows the transaction updates: both must still exist, or it rolls back.
Updated(r) == {target[r], toClose[r]} \ {NoCycle}

TransitionCommit(r) ==
    /\ \A c \in Updated(r) : Exists(c)
    /\ Advance(r, "commit", IF Settled(r) = NoCycle THEN "purchase" ELSE "payouts")
    /\ status' = [c \in Cycle |-> IF c = target[r] THEN "OPEN"
                                  ELSE IF c = toClose[r] THEN "COMPLETED"
                                  ELSE status[c]]
    /\ IF Settled(r) = NoCycle
       THEN UNCHANGED report
       ELSE Record(r, "close_previous_cycle", "succeeded")
    /\ UNCHANGED <<target, prevOpen, toClose, outcome>>

\* processInventoryPurchaseIfPresent, the notifications and the response.
Purchase(r) ==
    /\ pc[r] = "purchase"
    /\ End(r, "returned")
    /\ UNCHANGED <<status, target, prevOpen, toClose, report>>

--------------------------------------------------------------------------------
(* settleOpenCycle                                                         *)

\* Only the Cycle that is read as the current Open Cycle can be settled.
BeginSettle(r, c) ==
    /\ c \in CurrentOpen \cap Cycle
    /\ Start(r, "import", NoCycle, c)
    /\ UNCHANGED status

CloseCycle(r) ==
    /\ Exists(prevOpen[r])
    /\ Advance(r, "close", "payouts")
    /\ status' = [status EXCEPT ![prevOpen[r]] = "COMPLETED"]
    /\ Record(r, "close_previous_cycle", "succeeded")
    /\ UNCHANGED <<target, prevOpen, toClose, outcome>>

--------------------------------------------------------------------------------
(* runStrictSteps and runRecoverableSteps, shared by both requests         *)

WalletImport(r) ==
    /\ Advance(r, "import", "allocate")
    /\ Record(r, "wallet_import", "succeeded")
    /\ UNCHANGED <<status, target, prevOpen, toClose, outcome>>

Allocate(r) ==
    /\ Advance(r, "allocate", "buyback")
    /\ Record(r, "transaction_allocation", "succeeded")
    /\ UNCHANGED <<status, target, prevOpen, toClose, outcome>>

Buyback(r) ==
    /\ Advance(r, "buyback", IF target[r] = NoCycle THEN "close" ELSE "transition")
    /\ Record(r, "rollover_buyback", "succeeded")
    /\ UNCHANGED <<status, target, prevOpen, toClose, outcome>>

\* A failing Recoverable step is recorded and the request goes on.
Payouts(r) ==
    /\ Advance(r, "payouts", "rollover")
    /\ \E s \in {"succeeded", "failed"} : Record(r, "payout_creation", s)
    /\ UNCHANGED <<status, target, prevOpen, toClose, outcome>>

\* Mutant: Rollover is reported done although there is no target.
RolloverWithoutTarget(r) ==
    /\ pc[r] = "rollover"
    /\ Record(r, "cycle_rollover", "succeeded")
    /\ IF target[r] = NoCycle
       THEN End(r, "returned")
       ELSE Advance(r, "rollover", "purchase") /\ UNCHANGED outcome
    /\ UNCHANGED <<status, target, prevOpen, toClose>>

\* Mutant: the skipped step never returns.
RolloverHangs(r) ==
    /\ pc[r] = "rollover"
    /\ IF target[r] = NoCycle
       THEN Record(r, "cycle_rollover", "skipped") /\ UNCHANGED pc
       ELSE /\ \E s \in {"succeeded", "failed"} : Record(r, "cycle_rollover", s)
            /\ Advance(r, "rollover", "purchase")
    /\ UNCHANGED <<status, target, prevOpen, toClose, outcome>>

\* Without a target Cycle the step is skipped and the request returns.
Rollover(r) ==
    /\ pc[r] = "rollover"
    /\ IF target[r] = NoCycle
       THEN Record(r, "cycle_rollover", "skipped") /\ End(r, "returned")
       ELSE /\ \E s \in {"succeeded", "failed"} : Record(r, "cycle_rollover", s)
            /\ Advance(r, "rollover", "purchase")
            /\ UNCHANGED outcome
    /\ UNCHANGED <<status, target, prevOpen, toClose>>

--------------------------------------------------------------------------------
(* Failures                                                                *)

\* The calls whose failure is recorded as a failed Strict step.
FailedStep ==
    [import |-> "wallet_import", allocate |-> "transaction_allocation",
     buyback |-> "rollover_buyback", close |-> "close_previous_cycle"]

\* Any call that is not caught ends the request; a transaction that fails has
\* changed nothing.
Fail(r) ==
    /\ pc[r] \notin {"idle", "payouts", "rollover"}
    /\ End(r, "threw")
    /\ IF pc[r] \in DOMAIN FailedStep
       THEN Record(r, FailedStep[pc[r]], "failed")
       ELSE UNCHANGED report
    /\ UNCHANGED <<status, target, prevOpen, toClose>>

\* The process dies: every request in flight is lost, the database stays.
Crash ==
    /\ \E r \in Request : pc[r] # "idle"
    /\ pc' = [r \in Request |-> "idle"]
    /\ outcome' = [r \in Request |-> IF pc[r] = "idle" THEN outcome[r] ELSE "crashed"]
    /\ UNCHANGED <<status, target, prevOpen, toClose, report>>

--------------------------------------------------------------------------------
\* What the chain of r does next when no call fails.
Proceed(r) ==
    \/ DeleteCycle(r)
    \/ ReadOpenCycle(r) \/ BuildCandidates(r)
    \/ WalletImport(r) \/ Allocate(r) \/ Buyback(r)
    \/ TransitionRead(r) \/ TransitionCommit(r) \/ CloseCycle(r)
    \/ Payouts(r) \/ Rollover(r) \/ Purchase(r)

Next ==
    \/ \E c \in Cycle : PlanCycle(c)
    \/ \E r \in Request, c \in Cycle : BeginDelete(r, c) \/ BeginOpen(r, c) \/ BeginSettle(r, c)
    \/ \E r \in Request : Proceed(r) \/ Fail(r)
    \/ Crash

Spec == Init /\ [][Next]_vars

\* Every awaited call of a request settles: it resolves or it rejects.
FairSpec == Spec /\ \A r \in Request : WF_vars(Proceed(r) \/ Fail(r))

--------------------------------------------------------------------------------
(* Properties.  Those marked [serial] are promised to an admin whose        *)
(* requests do not overlap.                                                 *)

InFlight(r) == pc[r] # "idle"

StrictSucceeded(r) ==
    \A s \in StrictStep \ {"close_previous_cycle"} : report[r][s] = "succeeded"

\* [serial] At most one Cycle is an Open Cycle (CONTEXT.md:72); nothing in the
\* schema enforces it, only the close-and-open transaction of openPlannedCycle.
AtMostOneOpen ==
    \A c, d \in Cycle : status[c] = "OPEN" /\ status[d] = "OPEN" => c = d

\* [serial] A Cycle leaves OPEN only through a request that settles this very
\* Cycle and has imported, allocated and bought back for it before: also the
\* close inside the transaction, which re-reads which Cycle is Open.
StrictBeforeClose ==
    [][\A c \in Cycle : status[c] = "OPEN" /\ status'[c] = "COMPLETED" =>
          \E r \in Request : InFlight(r) /\ Settled(r) = c /\ StrictSucceeded(r)]_vars

\* [serial] A request that a failing Strict step ends leaves the Cycle it was
\* settling Open and the Cycle it was to open Planned: the admin can retry.
StrictFailureChangesNothing ==
    [][\A r \in Request :
          /\ InFlight(r)
          /\ outcome'[r] = "threw"
          /\ \E s \in StrictStep : report'[r][s] = "failed"
          => /\ status'[Settled(r)] = "OPEN"
             /\ target[r] # NoCycle => status'[target[r]] = "PLANNED"]_vars

\* The report of a request that settles a Cycle has no gaps: a step is only
\* recorded once every step before it is, and only after Strict steps that
\* succeeded.  A request that settles nothing records nothing.
ReportInOrder ==
    \A r \in Request :
        LET did(s) == report[r][s] = "succeeded"
            recorded(s) == report[r][s] # "none"
        IN  /\ recorded("transaction_allocation") => did("wallet_import")
            /\ recorded("rollover_buyback") => did("transaction_allocation")
            /\ recorded("close_previous_cycle") => did("rollover_buyback")
            /\ recorded("payout_creation") => did("close_previous_cycle")
            /\ recorded("cycle_rollover") => recorded("payout_creation")
            /\ (\E s \in Step : recorded(s)) => Settled(r) # NoCycle

\* [serial] The response tells the truth: whoever gets a report about a settled
\* Cycle knows it COMPLETED with every Strict step done, and that Rollover was
\* skipped exactly when no target was opened (CONTEXT.md:79).
ReportTruth ==
    \A r \in Request :
        outcome[r] = "returned" /\ Settled(r) # NoCycle =>
            /\ status[Settled(r)] = "COMPLETED"
            /\ \A s \in StrictStep : report[r][s] = "succeeded"
            /\ report[r]["payout_creation"] \in {"succeeded", "failed"}
            /\ report[r]["cycle_rollover"] = "skipped" <=> target[r] = NoCycle
            /\ target[r] # NoCycle => status[target[r]] \in {"OPEN", "COMPLETED"}

\* [serial] To everyone who reads the Cycles, the long chain of awaited calls
\* looks like the one step of CycleStatus, whatever fails or crashes on the way.
Abstract == INSTANCE CycleStatus
ImplementsCycleStatus == Abstract!Spec

\* A request never hangs: a failure on any of its steps, caught or not, still
\* takes it to a response.
RequestsEnd == \A r \in Request : InFlight(r) ~> ~InFlight(r)

================================================================================
