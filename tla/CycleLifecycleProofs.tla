------------------------- MODULE CycleLifecycleProofs --------------------------
(***************************************************************************)
(* Theorems about CycleLifecycle and about SettlementInventory, which      *)
(* extends it, for every set of Cycles and every number of lines and       *)
(* units.  Type correctness and the order of the report hold for any       *)
(* number of overlapping requests; what is promised to an admin who waits  *)
(* for the answer before asking again assumes Serial, what holds while     *)
(* no COMPLETED Cycle is opened again NotReopened, and what allocations    *)
(* could disturb JobWaits or NotReallocated.                               *)
(***************************************************************************)
EXTENDS SettlementInventory, FiniteSetTheorems, SequenceTheorems, TLAPS

\* A recorded step leaves every report a report.
LEMMA RecordType ==
    ASSUME report \in [Request -> [Step -> StepStatus]],
           NEW r \in Request, NEW step, NEW s \in StepStatus, Record(r, step, s)
    PROVE  report' \in [Request -> [Step -> StepStatus]]
<1>1. report[r] \in [Step -> StepStatus]
  OBVIOUS
<1>2. [report[r] EXCEPT ![step] = s] \in [Step -> StepStatus]
  BY <1>1
<1> QED
  BY <1>2 DEF Record

\* Type correctness (also a run): every action keeps the columns in their types.
THEOREM TypeCorrect == Spec => []TypeOK
<1> USE DEF TypeOK, Status, PC
<1>1. Init => TypeOK
  BY DEF Init, EmptyReport, StepStatus
<1>2. TypeOK /\ [Next]_vars => TypeOK'
  <2> SUFFICES ASSUME TypeOK, [Next]_vars PROVE TypeOK'
    OBVIOUS
  <2>1. ASSUME NEW c \in Cycle, PlanCycle(c) PROVE TypeOK'
    BY <2>1 DEF PlanCycle, local
  <2>2. ASSUME NEW r \in Request, NEW c \in Cycle,
               BeginDelete(r, c) \/ BeginOpen(r, c) \/ BeginSettle(r, c)
        PROVE  TypeOK'
    <3>1. EmptyReport \in [Step -> StepStatus]
      BY DEF EmptyReport, StepStatus
    <3>2. status' = status /\ \E first \in PC, t, open \in Cycle \cup {NoCycle} : Start(r, first, t, open)
      BY <2>2 DEF BeginDelete, BeginOpen, BeginSettle
    <3> QED
      BY <3>1, <3>2 DEF Start
  <2>3. ASSUME NEW r \in Request, DeleteCycle(r) PROVE TypeOK'
    BY <2>3 DEF DeleteCycle, Exists, End
  <2>4. ASSUME NEW r \in Request, ReadOpenCycle(r) PROVE TypeOK'
    BY <2>4 DEF ReadOpenCycle, CurrentOpen, Advance
  <2>5. ASSUME NEW r \in Request, BuildCandidates(r) PROVE TypeOK'
    BY <2>5 DEF BuildCandidates, Advance, local
  <2>6. ASSUME NEW r \in Request, WalletImport(r) \/ Allocate(r) \/ Buyback(r)
        PROVE  TypeOK'
    BY <2>6, RecordType DEF WalletImport, Allocate, Buyback, Advance, StepStatus
  <2>7. ASSUME NEW r \in Request, TransitionRead(r) PROVE TypeOK'
    BY <2>7 DEF TransitionRead, CurrentOpen, Advance
  <2>8. ASSUME NEW r \in Request, TransitionCommit(r) PROVE TypeOK'
    BY <2>8, RecordType DEF TransitionCommit, Advance, StepStatus
  <2>9. ASSUME NEW r \in Request, CloseCycle(r) PROVE TypeOK'
    BY <2>9, RecordType DEF CloseCycle, Exists, Advance, StepStatus
  <2>10. ASSUME NEW r \in Request, Payouts(r) \/ Rollover(r) \/ Purchase(r)
         PROVE  TypeOK'
    <3>1. CASE Payouts(r)
      BY <3>1, RecordType DEF Payouts, Advance, StepStatus
    <3>2. CASE Rollover(r) /\ target[r] = NoCycle
      BY <3>2, RecordType DEF Rollover, End, StepStatus
    <3>3. CASE Rollover(r) /\ target[r] # NoCycle
      BY <3>3, RecordType DEF Rollover, Advance, StepStatus
    <3>4. CASE Purchase(r)
      BY <3>4 DEF Purchase, End
    <3> QED
      BY <2>10, <3>1, <3>2, <3>3, <3>4
  <2>11. ASSUME NEW r \in Request, Fail(r) PROVE TypeOK'
    BY <2>11, RecordType DEF Fail, FailedStep, End, StepStatus
  <2>12. CASE Crash
    BY <2>12 DEF Crash
  <2>13. CASE UNCHANGED vars
    BY <2>13 DEF vars
  <2> QED
    BY <2>1, <2>2, <2>3, <2>4, <2>5, <2>6, <2>7, <2>8, <2>9, <2>10, <2>11, <2>12, <2>13
    DEF Next, Proceed
<1> QED
  BY <1>1, <1>2, PTL DEF Spec

--------------------------------------------------------------------------------
(* The report, for any number of requests.                                 *)

\* The report of r holds exactly the steps in done, each succeeded.
Reported(r, done) ==
    \A s \in Step : report[r][s] = IF s \in done THEN "succeeded" ELSE "none"

BeforeClose == {"wallet_import", "transaction_allocation", "rollover_buyback"}

\* What the place a request has reached says about its report and its Cycles.
ReportAt(r) ==
    /\ pc[r] \in {"discard", "readOpen"} => prevOpen[r] = NoCycle
    /\ pc[r] \in {"discard", "readOpen", "candidates"} =>
          target[r] \in Cycle /\ Reported(r, {})
    /\ pc[r] = "import" => Settled(r) # NoCycle /\ Reported(r, {})
    /\ pc[r] = "allocate" => Settled(r) # NoCycle /\ Reported(r, {"wallet_import"})
    /\ pc[r] = "buyback" =>
          Settled(r) # NoCycle /\ Reported(r, {"wallet_import", "transaction_allocation"})
    /\ pc[r] \in {"transition", "commit"} =>
          target[r] \in Cycle /\ Reported(r, IF Settled(r) = NoCycle THEN {} ELSE BeforeClose)
    /\ pc[r] = "close" =>
          target[r] = NoCycle /\ Settled(r) # NoCycle /\ Reported(r, BeforeClose)
    /\ pc[r] = "payouts" => Settled(r) # NoCycle /\ Reported(r, StrictStep)
    /\ pc[r] = "rollover" =>
          /\ Settled(r) # NoCycle
          /\ \A s \in StrictStep : report[r][s] = "succeeded"
          /\ report[r]["payout_creation"] \in {"succeeded", "failed"}
          /\ report[r]["cycle_rollover"] = "none"
    /\ pc[r] = "purchase" =>
          /\ target[r] \in Cycle
          /\ IF Settled(r) = NoCycle
             THEN Reported(r, {})
             ELSE /\ \A s \in StrictStep : report[r][s] = "succeeded"
                  /\ report[r]["payout_creation"] \in {"succeeded", "failed"}
                  /\ report[r]["cycle_rollover"] \in {"succeeded", "failed"}
    /\ pc[r] # "idle" => outcome[r] = "none"

ReportInv == ReportInOrder /\ \A r \in Request : ReportAt(r)

\* ReportInOrder of one request, so that a step is proved for one at a time.
InOrder(r) ==
    /\ report[r]["transaction_allocation"] # "none" => report[r]["wallet_import"] = "succeeded"
    /\ report[r]["rollover_buyback"] # "none" => report[r]["transaction_allocation"] = "succeeded"
    /\ report[r]["close_previous_cycle"] # "none" => report[r]["rollover_buyback"] = "succeeded"
    /\ report[r]["payout_creation"] # "none" => report[r]["close_previous_cycle"] = "succeeded"
    /\ report[r]["cycle_rollover"] # "none" => report[r]["payout_creation"] # "none"
    /\ (\E s \in Step : report[r][s] # "none") => Settled(r) # NoCycle

LEMMA InOrderEach == ReportInOrder <=> \A r \in Request : InOrder(r)
  BY DEF ReportInOrder, InOrder

\* Only the request that acts, or a crash, changes what is local to a request.
LEMMA OthersKeep ==
    ASSUME NEW q \in Request, ReportAt(q), InOrder(q),
           UNCHANGED <<target[q], prevOpen[q], toClose[q], report[q]>>,
           \/ pc'[q] = "idle"
           \/ UNCHANGED <<pc[q], outcome[q]>>
    PROVE  ReportAt(q)' /\ InOrder(q)'
  BY DEF ReportAt, InOrder, Settled, Reported

\* The report grows in the order of the Strict and Recoverable steps.
LEMMA ReportStep == TypeOK /\ ReportInv /\ [Next]_vars => ReportInv'
<1> SUFFICES ASSUME TypeOK, ReportInv, [Next]_vars,
                    NEW q \in Request
             PROVE  ReportAt(q)' /\ InOrder(q)'
  BY InOrderEach DEF ReportInv, ReportInOrder, InOrder
<1>a. ReportAt(q) /\ InOrder(q)
  BY InOrderEach DEF ReportInv
<1> USE <1>a DEF TypeOK
<1>1. ASSUME NEW c \in Cycle, PlanCycle(c) PROVE ReportAt(q)' /\ InOrder(q)'
  BY <1>1, OthersKeep DEF PlanCycle, local
<1>2. ASSUME NEW r \in Request, NEW c \in Cycle,
             BeginDelete(r, c) \/ BeginOpen(r, c) \/ BeginSettle(r, c)
      PROVE  ReportAt(q)' /\ InOrder(q)'
  <2>1. CASE r = q
    BY <1>2, <2>1, NoCycleAssumption
    DEF BeginDelete, BeginOpen, BeginSettle, Start, ReportAt, InOrder, Settled, Reported,
        EmptyReport, Step, StrictStep, RecoverableStep
  <2>2. CASE r # q
    BY <1>2, <2>2, OthersKeep DEF BeginDelete, BeginOpen, BeginSettle, Start
  <2> QED BY <2>1, <2>2
<1>3. ASSUME NEW r \in Request, DeleteCycle(r) PROVE ReportAt(q)' /\ InOrder(q)'
  BY <1>3, OthersKeep DEF DeleteCycle, End
<1>4. ASSUME NEW r \in Request, ReadOpenCycle(r) PROVE ReportAt(q)' /\ InOrder(q)'
  <2>1. CASE r = q
    BY <1>4, <2>1 DEF ReadOpenCycle, Advance, ReportAt, InOrder, Reported, Step, StrictStep, RecoverableStep
  <2>2. CASE r # q
    BY <1>4, <2>2, OthersKeep DEF ReadOpenCycle, Advance
  <2> QED BY <2>1, <2>2
<1>5. ASSUME NEW r \in Request, BuildCandidates(r) PROVE ReportAt(q)' /\ InOrder(q)'
  <2>1. CASE r = q
    BY <1>5, <2>1 DEF BuildCandidates, Advance, local, ReportAt, InOrder, Reported, Settled
  <2>2. CASE r # q
    BY <1>5, <2>2, OthersKeep DEF BuildCandidates, Advance, local
  <2> QED BY <2>1, <2>2
<1>6. ASSUME NEW r \in Request, WalletImport(r) \/ Allocate(r) \/ Buyback(r)
      PROVE  ReportAt(q)' /\ InOrder(q)'
  <2>1. CASE r = q
    BY <1>6, <2>1 DEF WalletImport, Allocate, Buyback, Advance, Record, ReportAt, InOrder, Reported,
       Settled, BeforeClose, Step, StrictStep, RecoverableStep
  <2>2. CASE r # q
    BY <1>6, <2>2, OthersKeep DEF WalletImport, Allocate, Buyback, Advance, Record
  <2> QED BY <2>1, <2>2
<1>7. ASSUME NEW r \in Request, TransitionRead(r) PROVE ReportAt(q)' /\ InOrder(q)'
  <2>1. CASE r = q
    BY <1>7, <2>1 DEF TransitionRead, Advance, ReportAt, InOrder, Reported, Settled
  <2>2. CASE r # q
    BY <1>7, <2>2, OthersKeep DEF TransitionRead, Advance
  <2> QED BY <2>1, <2>2
<1>8. ASSUME NEW r \in Request, TransitionCommit(r) PROVE ReportAt(q)' /\ InOrder(q)'
  <2>1. CASE r = q
    BY <1>8, <2>1 DEF TransitionCommit, Advance, Record, ReportAt, InOrder, Reported, Settled,
       BeforeClose, Step, StrictStep, RecoverableStep
  <2>2. CASE r # q
    BY <1>8, <2>2, OthersKeep DEF TransitionCommit, Advance, Record
  <2> QED BY <2>1, <2>2
<1>9. ASSUME NEW r \in Request, CloseCycle(r) PROVE ReportAt(q)' /\ InOrder(q)'
  <2>1. CASE r = q
    BY <1>9, <2>1 DEF CloseCycle, Advance, Record, ReportAt, InOrder, Reported, Settled,
       BeforeClose, Step, StrictStep, RecoverableStep
  <2>2. CASE r # q
    BY <1>9, <2>2, OthersKeep DEF CloseCycle, Advance, Record
  <2> QED BY <2>1, <2>2
<1>10. ASSUME NEW r \in Request, Payouts(r) \/ Rollover(r) \/ Purchase(r)
       PROVE  ReportAt(q)' /\ InOrder(q)'
  <2>1. CASE r = q
    BY <1>10, <2>1 DEF Payouts, Rollover, Purchase, Advance, Record, End, ReportAt, InOrder, Reported,
       Settled, Step, StrictStep, RecoverableStep
  <2>2. CASE r # q
    BY <1>10, <2>2, OthersKeep DEF Payouts, Rollover, Purchase, Advance, Record, End
  <2> QED BY <2>1, <2>2
<1>11. ASSUME NEW r \in Request, Fail(r) PROVE ReportAt(q)' /\ InOrder(q)'
  <2>1. CASE r = q
    BY <1>11, <2>1 DEF Fail, FailedStep, Record, End, ReportAt, InOrder, Reported, Settled,
       BeforeClose, Step, StrictStep, RecoverableStep
  <2>2. CASE r # q
    BY <1>11, <2>2, OthersKeep DEF Fail, FailedStep, Record, End
  <2> QED BY <2>1, <2>2
<1>12. CASE Crash
  BY <1>12, OthersKeep DEF Crash
<1>13. CASE UNCHANGED vars
  BY <1>13, OthersKeep DEF vars
<1> QED
  BY <1>1, <1>2, <1>3, <1>4, <1>5, <1>6, <1>7, <1>8, <1>9, <1>10, <1>11, <1>12, <1>13
  DEF Next, Proceed

LEMMA ReportInit == Init => ReportInv
  BY InOrderEach DEF Init, ReportInv, ReportAt, InOrder, EmptyReport, Step, StrictStep, RecoverableStep

LEMMA ReportInvariant == Spec => [](TypeOK /\ ReportInv)
  BY TypeCorrect, ReportInit, ReportStep, PTL DEF Spec

\* However many requests overlap, no report has a gap: ReportInOrder.
THEOREM ReportsInOrder == Spec => []ReportInOrder
  BY ReportInvariant, PTL DEF ReportInv

--------------------------------------------------------------------------------
(* One request at a time.                                                  *)

Serial == \A q, r \in Request : q = r

\* Where a request has read the Open Cycle and not yet changed it.
Deciding == {"candidates", "import", "allocate", "buyback", "transition", "commit", "close"}

\* What a request has read about the Open Cycle is still true.
ReadIsFresh(r) ==
    /\ pc[r] \in Deciding => \A c \in Cycle : status[c] = "OPEN" <=> c = prevOpen[r]
    /\ pc[r] = "commit" => toClose[r] = Settled(r)

SerialInv == AtMostOneOpen /\ \A r \in Request : ReadIsFresh(r)

LEMMA SerialInit == Init => SerialInv
  BY DEF Init, SerialInv, AtMostOneOpen, ReadIsFresh, Deciding

\* Nobody else runs between the read of the Open Cycle and its use.
LEMMA SerialStep ==
    ASSUME Serial, TypeOK, ReportInv, SerialInv, [Next]_vars
    PROVE  SerialInv'
<1> USE NoCycleAssumption DEF TypeOK, SerialInv, AtMostOneOpen, ReadIsFresh, Deciding
<1>1. ASSUME NEW c \in Cycle, PlanCycle(c) PROVE SerialInv'
  BY <1>1 DEF PlanCycle, local, Settled
<1>2. ASSUME NEW r \in Request, NEW c \in Cycle,
             BeginDelete(r, c) \/ BeginOpen(r, c) \/ BeginSettle(r, c)
      PROVE  SerialInv'
  BY <1>2 DEF Serial, BeginDelete, BeginOpen, BeginSettle, Start, CurrentOpen
<1>3. ASSUME NEW r \in Request, DeleteCycle(r) PROVE SerialInv'
  BY <1>3 DEF Serial, DeleteCycle, End
<1>4. ASSUME NEW r \in Request, ReadOpenCycle(r) PROVE SerialInv'
  BY <1>4 DEF Serial, ReadOpenCycle, Advance, CurrentOpen
<1>5. ASSUME NEW r \in Request, BuildCandidates(r) PROVE SerialInv'
  BY <1>5 DEF Serial, BuildCandidates, Advance, local
<1>6. ASSUME NEW r \in Request, WalletImport(r) \/ Allocate(r) \/ Buyback(r)
      PROVE  SerialInv'
  BY <1>6 DEF Serial, WalletImport, Allocate, Buyback, Advance, Record
<1>7. ASSUME NEW r \in Request, TransitionRead(r) PROVE SerialInv'
  BY <1>7 DEF Serial, TransitionRead, Advance, CurrentOpen, Settled
<1>8. ASSUME NEW r \in Request, TransitionCommit(r) PROVE SerialInv'
  <2>1. pc[r] = "commit" /\ ReadIsFresh(r) /\ toClose[r] = Settled(r)
    BY <1>8 DEF TransitionCommit, Advance
  <2>2. \A c \in Cycle : status'[c] = "OPEN" => c = target[r]
    BY <1>8, <2>1 DEF TransitionCommit, Settled
  <2>3. \A q \in Request : pc'[q] \notin Deciding
    BY <1>8 DEF Serial, TransitionCommit, Advance
  <2> QED BY <2>2, <2>3
<1>9. ASSUME NEW r \in Request, CloseCycle(r) PROVE SerialInv'
  BY <1>9 DEF Serial, CloseCycle, Advance
<1>10. ASSUME NEW r \in Request, Payouts(r) \/ Rollover(r) \/ Purchase(r)
       PROVE  SerialInv'
  BY <1>10 DEF Serial, Payouts, Rollover, Purchase, Advance, End
<1>11. ASSUME NEW r \in Request, Fail(r) PROVE SerialInv'
  BY <1>11 DEF Serial, Fail, End
<1>12. CASE Crash
  BY <1>12 DEF Crash
<1>13. CASE UNCHANGED vars
  BY <1>13 DEF vars, Settled
<1> QED
  BY <1>1, <1>2, <1>3, <1>4, <1>5, <1>6, <1>7, <1>8, <1>9, <1>10, <1>11, <1>12, <1>13
  DEF Next, Proceed

LEMMA SerialInvariant ==
    ASSUME Serial PROVE Spec => [](TypeOK /\ ReportInv /\ SerialInv)
<1>1. Init => SerialInv
  BY SerialInit
<1>2. TypeOK /\ ReportInv /\ SerialInv /\ [Next]_vars => SerialInv'
  BY Serial, SerialStep
<1> QED
  BY <1>1, <1>2, ReportInvariant, PTL DEF Spec

\* Serial requests never leave two Open Cycles, whatever fails or crashes, and
\* whatever status the Cycle to open has.
THEOREM OneOpenCycle == ASSUME Serial PROVE Spec => []AtMostOneOpen
  BY SerialInvariant, PTL DEF SerialInv

\* Serial requests complete a Cycle only after its own Strict steps:
\* StrictBeforeClose.
THEOREM StrictStepsFirst == ASSUME Serial PROVE Spec => StrictBeforeClose
<1> DEFINE Closing ==
      \A c \in Cycle : status[c] = "OPEN" /\ status'[c] = "COMPLETED" =>
          \E r \in Request : InFlight(r) /\ Settled(r) = c /\ StrictSucceeded(r)
<1>1. ASSUME TypeOK, ReportInv, SerialInv, [Next]_vars PROVE [Closing]_vars
  <2> SUFFICES ASSUME NEW c \in Cycle, status[c] = "OPEN", status'[c] = "COMPLETED"
               PROVE  \E r \in Request : InFlight(r) /\ Settled(r) = c /\ StrictSucceeded(r)
    OBVIOUS
  <2>1. PICK r \in Request : TransitionCommit(r) \/ CloseCycle(r)
    BY <1>1 DEF TypeOK, vars, local, Next, Proceed, PlanCycle, BeginDelete, BeginOpen, BeginSettle,
       DeleteCycle, ReadOpenCycle, BuildCandidates, WalletImport, Allocate, Buyback,
       TransitionRead, Payouts, Rollover, Purchase, Fail, Crash
  <2>2. ReportAt(r) /\ ReadIsFresh(r)
    BY <1>1 DEF ReportInv, SerialInv
  <2>3. CASE TransitionCommit(r)
    BY <2>2, <2>3, NoCycleAssumption
    DEF TypeOK, TransitionCommit, Advance, ReadIsFresh, ReportAt, Reported, InFlight, StrictSucceeded,
        BeforeClose, Step, StrictStep, RecoverableStep
  <2>4. CASE CloseCycle(r)
    BY <2>2, <2>4, NoCycleAssumption
    DEF TypeOK, CloseCycle, Advance, ReadIsFresh, ReportAt, Reported, InFlight, StrictSucceeded,
        BeforeClose, Settled, Step, StrictStep, RecoverableStep
  <2> QED BY <2>1, <2>3, <2>4
<1> QED
  BY <1>1, SerialInvariant, PTL DEF Spec, StrictBeforeClose

--------------------------------------------------------------------------------
(* One request at a time, none of which opens a COMPLETED Cycle: PLANNED    *)
(* ones, as the web page does, or the OPEN one, as a repeated request does. *)

NotReopened == OpenableStatus \subseteq {"PLANNED", "OPEN"}

\* The rows a request works on have the status it believes they have.
RowsOf(r) ==
    /\ pc[r] \in {"discard", "readOpen"} => target[r] \in Cycle
    /\ pc[r] # "idle" /\ target[r] # NoCycle =>
          status[target[r]] \in IF pc[r] \in {"payouts", "rollover", "purchase"}
                                THEN {"OPEN"} ELSE {"PLANNED", "OPEN"}
    /\ pc[r] = "discard" => status[target[r]] = "PLANNED"
    /\ pc[r] \in {"payouts", "rollover", "purchase"} /\ Settled(r) # NoCycle =>
          status[Settled(r)] = "COMPLETED"

RowsInv == ReportTruth /\ \A r \in Request : RowsOf(r)

LEMMA RowsInit == Init => RowsInv
  BY DEF Init, RowsInv, RowsOf, ReportTruth

\* No other request moves the rows of the one that runs.
LEMMA RowsStep ==
    ASSUME Serial, NotReopened, TypeOK, ReportInv, SerialInv, RowsInv, [Next]_vars
    PROVE  RowsInv'
<1> USE NoCycleAssumption DEF TypeOK, RowsInv, RowsOf, ReportTruth
<1>1. ASSUME NEW c \in Cycle, PlanCycle(c) PROVE RowsInv'
  BY <1>1 DEF PlanCycle, local, Settled
<1>2. ASSUME NEW r \in Request, NEW c \in Cycle,
             BeginDelete(r, c) \/ BeginOpen(r, c) \/ BeginSettle(r, c)
      PROVE  RowsInv'
  <2>1. CASE BeginDelete(r, c) \/ BeginSettle(r, c)
    BY <1>2, <2>1 DEF Serial, BeginDelete, BeginSettle, Start
  <2>2. CASE BeginOpen(r, c)
    <3>1. status[c] \in {"PLANNED", "OPEN"}
      BY <2>2, NotReopened DEF NotReopened, BeginOpen
    <3> QED BY <1>2, <2>2, <3>1 DEF Serial, BeginOpen, Start
  <2> QED BY <1>2, <2>1, <2>2
<1>3. ASSUME NEW r \in Request, DeleteCycle(r) PROVE RowsInv'
  BY <1>3 DEF Serial, DeleteCycle, End, Exists, ReportInv, ReportAt, Settled
<1>4. ASSUME NEW r \in Request, ReadOpenCycle(r) PROVE RowsInv'
  BY <1>4 DEF Serial, ReadOpenCycle, Advance, ReportInv, ReportAt
<1>5. ASSUME NEW r \in Request, BuildCandidates(r) PROVE RowsInv'
  BY <1>5 DEF Serial, BuildCandidates, Advance, local, ReportInv, ReportAt
<1>6. ASSUME NEW r \in Request, WalletImport(r) \/ Allocate(r) \/ Buyback(r)
      PROVE  RowsInv'
  BY <1>6 DEF Serial, WalletImport, Allocate, Buyback, Advance, Record, ReportInv, ReportAt
<1>7. ASSUME NEW r \in Request, TransitionRead(r) PROVE RowsInv'
  BY <1>7 DEF Serial, TransitionRead, Advance, ReportInv, ReportAt
<1>8. ASSUME NEW r \in Request, TransitionCommit(r) PROVE RowsInv'
  BY <1>8 DEF Serial, TransitionCommit, Advance, ReportInv, ReportAt, SerialInv, ReadIsFresh, Settled
<1>9. ASSUME NEW r \in Request, CloseCycle(r) PROVE RowsInv'
  BY <1>9 DEF Serial, CloseCycle, Advance, ReportInv, ReportAt, Settled
<1>10. ASSUME NEW r \in Request, Payouts(r) \/ Rollover(r) \/ Purchase(r)
       PROVE  RowsInv'
  <2>1. CASE Payouts(r)
    BY <1>10, <2>1 DEF Serial, Payouts, Advance, ReportInv, ReportAt, Settled
  <2>2. CASE Rollover(r) /\ target[r] = NoCycle
    BY <2>2 DEF Serial, Rollover, Record, End, ReportInv, ReportAt, Settled, Step, StrictStep, RecoverableStep
  <2>3. CASE Rollover(r) /\ target[r] # NoCycle
    BY <2>3 DEF Serial, Rollover, Advance, ReportInv, ReportAt, Settled
  <2>4. CASE Purchase(r)
    BY <2>4 DEF Serial, Purchase, End, ReportInv, ReportAt, Settled, Step, StrictStep, RecoverableStep
  <2> QED BY <1>10, <2>1, <2>2, <2>3, <2>4
<1>11. ASSUME NEW r \in Request, Fail(r) PROVE RowsInv'
  BY <1>11 DEF Serial, Fail, End
<1>12. CASE Crash
  BY <1>12 DEF Crash, Settled
<1>13. CASE UNCHANGED vars
  BY <1>13 DEF vars, Settled
<1> QED
  BY <1>1, <1>2, <1>3, <1>4, <1>5, <1>6, <1>7, <1>8, <1>9, <1>10, <1>11, <1>12, <1>13
  DEF Next, Proceed

LEMMA RowsInvariant ==
    ASSUME Serial, NotReopened
    PROVE  Spec => [](TypeOK /\ ReportInv /\ SerialInv /\ RowsInv)
<1>1. Init => RowsInv
  BY RowsInit
<1>2. TypeOK /\ ReportInv /\ SerialInv /\ RowsInv /\ [Next]_vars => RowsInv'
  BY Serial, NotReopened, RowsStep
<1> QED
  BY <1>1, <1>2, SerialInvariant, PTL DEF Spec

\* A returned report is true of the database, until the slot is reused.
THEOREM ReportsAreTrue == ASSUME Serial, NotReopened PROVE Spec => []ReportTruth
  BY RowsInvariant, PTL DEF RowsInv

\* A failing Strict step leaves the Cycle to settle OPEN and the one to open
\* PLANNED: StrictFailureChangesNothing.
THEOREM StrictFailureIsHarmless ==
    ASSUME Serial, NotReopened PROVE Spec => StrictFailureChangesNothing
<1> DEFINE Harmless ==
      \A r \in Request :
          /\ InFlight(r)
          /\ outcome'[r] = "threw"
          /\ \E s \in StrictStep : report'[r][s] = "failed"
          => /\ status'[Settled(r)] = "OPEN"
             /\ target[r] # NoCycle => status'[target[r]] = "PLANNED"
<1>1. ASSUME TypeOK, ReportInv, SerialInv, RowsInv, [Next]_vars PROVE [Harmless]_vars
  <2> SUFFICES ASSUME NEW r \in Request, pc[r] # "idle", outcome'[r] = "threw",
                      NEW s \in StrictStep, report'[r][s] = "failed"
               PROVE  /\ status'[Settled(r)] = "OPEN"
                      /\ target[r] # NoCycle => status'[target[r]] = "PLANNED"
    BY DEF InFlight
  <2>1. ReportAt(r) /\ ReadIsFresh(r) /\ RowsOf(r) /\ outcome[r] = "none"
    BY <1>1 DEF ReportInv, ReportAt, SerialInv, RowsInv
  <2>2. \A t \in Step : Reported(r, {}) => report[r][t] = "none"
    BY DEF Reported
  <2>3. s \in Step /\ pc[r] \in PC
    BY <1>1 DEF Step, TypeOK
  <2>4. report[r][s] # "failed"
    BY <2>1, <2>3 DEF ReportAt, Reported, PC
  <2>5. DeleteCycle(r) \/ Fail(r)
    <3>1. ASSUME NEW q \in Request, Proceed(q) PROVE DeleteCycle(r)
      BY <1>1, <2>1, <3>1, Serial
      DEF Serial, TypeOK, Proceed, ReadOpenCycle, BuildCandidates, WalletImport, Allocate, Buyback, TransitionRead,
          TransitionCommit, CloseCycle, Payouts, Rollover, Purchase, End, local
    <3>2. ASSUME NEW q \in Request, Fail(q) PROVE Fail(r)
      BY <3>2, Serial DEF Serial
    <3>3. ASSUME NEW c \in Cycle, PlanCycle(c) PROVE FALSE
      BY <2>1, <3>3 DEF PlanCycle, local
    <3>4. ASSUME NEW q \in Request, NEW c \in Cycle, BeginDelete(q, c) \/ BeginOpen(q, c) \/ BeginSettle(q, c)
          PROVE  FALSE
      BY <3>4, Serial DEF Serial, BeginDelete, BeginOpen, BeginSettle, Start
    <3>5. ~Crash
      BY <1>1 DEF Crash, TypeOK
    <3>6. ~UNCHANGED vars
      BY <2>1 DEF vars
    <3> QED BY <1>1, <3>1, <3>2, <3>3, <3>4, <3>5, <3>6 DEF Next
  <2>6. CASE DeleteCycle(r)
    BY <2>4, <2>6 DEF DeleteCycle
  <2>7. CASE Fail(r)
    <3>1. UNCHANGED status /\ pc[r] \in {"import", "allocate", "buyback", "close"}
      BY <2>4, <2>7 DEF Fail, FailedStep
    <3>2. Settled(r) # NoCycle /\ Settled(r) \in Cycle /\ Settled(r) = prevOpen[r]
      BY <1>1, <2>1, <3>1 DEF ReportAt, Settled, TypeOK
    <3>3. status[Settled(r)] = "OPEN"
      BY <2>1, <3>1, <3>2 DEF ReadIsFresh, Deciding
    <3>4. target[r] # NoCycle => status[target[r]] = "PLANNED"
      BY <1>1, <2>1, <3>1, <3>2 DEF RowsOf, ReadIsFresh, Deciding, Settled, TypeOK
    <3> QED BY <3>1, <3>3, <3>4
  <2> QED BY <2>5, <2>6, <2>7
<1> QED
  BY <1>1, RowsInvariant, PTL DEF Spec, StrictFailureChangesNothing

\* The chain of awaited calls implements the one-step Cycle of CycleStatus.
THEOREM ImplementsAbstract ==
    ASSUME Serial, NotReopened PROVE Spec => ImplementsCycleStatus
<1> USE DEF Abstract!Next, Abstract!Plan, Abstract!Discard, Abstract!Open, Abstract!Close
<1>1. Init => Abstract!Init
  BY DEF Init, Abstract!Init
<1>2. ASSUME TypeOK, ReportInv, SerialInv, RowsInv, [Next]_vars
      PROVE  [Abstract!Next]_status
  <2>1. ASSUME NEW c \in Cycle, PlanCycle(c) PROVE Abstract!Next
    BY <2>1 DEF PlanCycle
  <2>2. ASSUME NEW r \in Request, DeleteCycle(r) PROVE Abstract!Next \/ UNCHANGED status
    <3>1. target[r] \in Cycle /\ status[target[r]] = "PLANNED"
      BY <1>2, <2>2, NoCycleAssumption DEF RowsInv, RowsOf, DeleteCycle
    <3> QED BY <2>2, <3>1 DEF DeleteCycle
  <2>3. ASSUME NEW r \in Request, TransitionCommit(r) PROVE Abstract!Next \/ UNCHANGED status
    <3>1. /\ target[r] \in Cycle
          /\ status[target[r]] \in {"PLANNED", "OPEN"}
          /\ toClose[r] = Settled(r)
          /\ \A c \in Cycle : status[c] = "OPEN" <=> c = prevOpen[r]
      BY <1>2, <2>3, NoCycleAssumption
      DEF TypeOK, ReportInv, ReportAt, SerialInv, ReadIsFresh, Deciding, RowsInv, RowsOf,
          TransitionCommit, Advance
    <3>2. CASE status[target[r]] = "PLANNED"
      <4>1. toClose[r] = prevOpen[r]
        BY <3>1, <3>2 DEF Settled
      <4>2. Abstract!Open(target[r])
        BY <2>3, <3>1, <3>2, <4>1 DEF TransitionCommit
      <4> QED BY <3>1, <4>2
    \* The repeated open of the OPEN Cycle changes no status.
    <3>3. CASE status[target[r]] = "OPEN"
      <4>1. toClose[r] = NoCycle
        BY <3>1, <3>3 DEF Settled
      <4> QED
        BY <1>2, <2>3, <3>1, <3>3, <4>1, NoCycleAssumption DEF TransitionCommit, TypeOK
    <3> QED BY <3>1, <3>2, <3>3
  <2>4. ASSUME NEW r \in Request, CloseCycle(r) PROVE Abstract!Next
    <3>1. prevOpen[r] \in Cycle /\ status[prevOpen[r]] = "OPEN"
      BY <1>2, <2>4 DEF TypeOK, SerialInv, ReadIsFresh, Deciding, CloseCycle, Advance, Exists
    <3> QED BY <2>4, <3>1 DEF CloseCycle
  <2>5. ASSUME NEW r \in Request,
               \/ ReadOpenCycle(r) \/ BuildCandidates(r) \/ WalletImport(r) \/ Allocate(r)
               \/ Buyback(r) \/ TransitionRead(r) \/ Payouts(r) \/ Rollover(r) \/ Purchase(r)
               \/ Fail(r)
        PROVE  UNCHANGED status
    BY <2>5 DEF ReadOpenCycle, BuildCandidates, WalletImport, Allocate, Buyback, TransitionRead,
       Payouts, Rollover, Purchase, Fail
  <2>6. ASSUME NEW r \in Request, NEW c \in Cycle,
               BeginDelete(r, c) \/ BeginOpen(r, c) \/ BeginSettle(r, c)
        PROVE  UNCHANGED status
    BY <2>6 DEF BeginDelete, BeginOpen, BeginSettle
  <2>7. CASE Crash \/ UNCHANGED vars
    BY <2>7 DEF Crash, vars
  <2> QED
    BY <1>2, <2>1, <2>2, <2>3, <2>4, <2>5, <2>6, <2>7 DEF Next, Proceed
<1> QED
  BY <1>1, <1>2, RowsInvariant, PTL DEF Spec, ImplementsCycleStatus, Abstract!Spec

--------------------------------------------------------------------------------
(* The lines, for any number of requests and an hourly job that overlaps.  *)

\* A step of the inventory is a step of the requests, or leaves them alone.
LEMMA StepBelow == InventoryNext => Next \/ UNCHANGED vars
<1> SUFFICES ASSUME InventoryNext PROVE Next \/ UNCHANGED vars
  OBVIOUS
<1>1. ASSUME NEW c \in Cycle, CreateLine(c) \/ AllocateTransactions(c) \/ (PlanCycle(c) /\ UNCHANGED inventory)
      PROVE  Next \/ UNCHANGED vars
  BY <1>1 DEF CreateLine, AllocateTransactions, Next
<1>2. CASE HourlyJob
  BY <1>2 DEF HourlyJob
<1>3. ASSUME NEW r \in Request, NEW c \in Cycle, BeginLines(r, c) PROVE Next
  BY <1>3 DEF BeginLines, Next
<1>4. ASSUME NEW r \in Request, \/ DeleteLines(r) \/ BuildLineCandidates(r) \/ AllocateLines(r)
                                \/ TransitionReadLines(r) \/ TransitionLines(r)
      PROVE  Next
  BY <1>4 DEF DeleteLines, BuildLineCandidates, AllocateLines, TransitionReadLines, TransitionLines,
     Next, Proceed
<1>5. ASSUME NEW r \in Request,
             AllocateNext(r) \/ ReadStock(r) \/ BookSale(r) \/ MarkSold(r) \/ ReadRollovers(r) \/ BookPurchase(r)
      PROVE  UNCHANGED vars
  BY <1>5 DEF AllocateNext, ReadStock, BookSale, MarkSold, ReadRollovers, BookPurchase
<1>6. ASSUME NEW r \in Request, BuybackLines(r) \/ PurchaseLines(r) \/ FailLines(r) PROVE Next
  BY <1>6 DEF BuybackLines, PurchaseLines, FailLines, Next, Proceed
<1>7. ASSUME NEW r \in Request,
             ReadOpenCycle(r) \/ WalletImport(r) \/ CloseCycle(r) \/ Payouts(r) \/ Rollover(r)
      PROVE  Next
  BY <1>7 DEF Next, Proceed
<1>8. CASE CrashLines
  BY <1>8 DEF CrashLines, Next
<1> QED BY <1>1, <1>2, <1>3, <1>4, <1>5, <1>6, <1>7, <1>8 DEF InventoryNext

LEMMA LifecycleBelow == InventorySpec => Spec
<1>1. InventoryInit => Init
  BY DEF InventoryInit
<1>2. [InventoryNext]_allVars => [Next]_vars
  BY StepBelow DEF allVars
<1> QED BY <1>1, <1>2, PTL DEF InventorySpec, Spec

Works == [read : BOOLEAN, todo : SUBSET Item, now : Item \cup {NoItem}]

\* A rollover line has stock, or the purchase would book nothing.
LinesTyped == lines \in Seq(Line) /\ \A i \in DOMAIN lines : lines[i].rollover => lines[i].bought # 0

WorkTyped ==
    /\ cand \in [Request -> SUBSET Candidate] /\ \A r \in Request : IsFiniteSet(cand[r])
    /\ work \in [Request -> Works]

InventoryTyped == TypeOK /\ LinesTyped /\ WorkTyped

LEMMA DomainOfLines ==
    ASSUME lines \in Seq(Line)
    PROVE  /\ DOMAIN lines = 1..Len(lines) /\ Len(lines) \in Nat
           /\ \A i \in DOMAIN lines : lines[i] \in Line /\ i \in Nat \ {0}
  BY LenProperties, ElementOfSeq

LEMMA NothingToDo == NoItem \notin Item /\ NoWork \in Works /\ NoWork.now = NoItem /\ NoWork.todo = {} /\ NoWork.read = FALSE
  BY DEF NoItem, Item, NoWork, Works

\* An update of one row.
LEMMA LineUpdated ==
    ASSUME lines \in Seq(Line), NEW i \in DOMAIN lines, NEW new \in Line, lines' = [lines EXCEPT ![i] = new]
    PROVE  /\ lines' \in Seq(Line) /\ DOMAIN lines' = DOMAIN lines
           /\ lines'[i] = new /\ \A j \in DOMAIN lines : j # i => lines'[j] = lines[j]
<1>1. i \in 1..Len(lines)
  BY DomainOfLines
<1> QED BY <1>1, ExceptSeq, DomainOfLines

\* A new row.
LEMMA LineAppended ==
    ASSUME lines \in Seq(Line), NEW new \in Line, lines' = Append(lines, new)
    PROVE  /\ lines' \in Seq(Line) /\ DOMAIN lines' = DOMAIN lines \cup {Len(lines) + 1}
           /\ lines'[Len(lines) + 1] = new /\ \A j \in DOMAIN lines : lines'[j] = lines[j]
           /\ Len(lines) + 1 \notin DOMAIN lines
<1>1. lines' \in Seq(Line) /\ Len(lines') = Len(lines) + 1
      /\ (\A j \in 1..Len(lines) : lines'[j] = lines[j]) /\ lines'[Len(lines) + 1] = new
  BY AppendProperties
<1>2. DOMAIN lines' = 1..Len(lines') /\ DOMAIN lines = 1..Len(lines) /\ Len(lines) \in Nat
  BY <1>1, LenProperties
<1> QED BY <1>1, <1>2

\* The order a set is put in names each of its members once.
LEMMA SetInOrder ==
    ASSUME NEW S, IsFiniteSet(S)
    PROVE  LET s == SetToSeq(S)
           IN  /\ Cardinality(S) \in Nat /\ s \in [1..Cardinality(S) -> S]
               /\ \A i, j \in 1..Cardinality(S) : s[i] = s[j] => i = j
<1>1. Cardinality(S) \in Nat /\ ExistsBijection(1..Cardinality(S), S)
  BY FS_CardinalityType
<1>2. PICK f \in [1..Cardinality(S) -> S] : IsInjective(f)
  BY <1>1 DEF ExistsBijection, Bijection, Injection, IsInjective
<1>3. \E g \in [1..Cardinality(S) -> S] : IsInjective(g)
  BY <1>2
<1>4. SetToSeq(S) \in [1..Cardinality(S) -> S] /\ IsInjective(SetToSeq(S))
  BY <1>3 DEF SetToSeq
<1> QED BY <1>1, <1>4 DEF IsInjective

LEMMA EmptyLineTyped ==
    ASSUME NEW c \in Cycle
    PROVE  /\ EmptyLine(c) \in Line /\ EmptyLine(c).cycle = c /\ ~EmptyLine(c).rollover /\ ~EmptyLine(c).priced
           /\ EmptyLine(c).bought = 0 /\ EmptyLine(c).sold = 0 /\ EmptyLine(c).traded = 0
           /\ EmptyLine(c).sellBooked = 0 /\ EmptyLine(c).buyBooked = 0 /\ EmptyLine(c).fromLine = 0
  BY InventoryAssumption DEF EmptyLine, Line

LEMMA RolloverLineTyped ==
    ASSUME TypeOK, NEW r \in Request, target[r] \in Cycle, NEW k \in Candidate
    PROVE  LET l == RolloverLine(r, k)
           IN  /\ l \in Line /\ l.cycle = target[r] /\ l.rollover /\ l.bought = k.units /\ l.planned = k.units
               /\ l.sold = 0 /\ l.traded = 0 /\ l.sellBooked = 0 /\ l.buyBooked = 0
               /\ l.from = Settled(r) /\ l.fromLine = k.line /\ l.bought # 0
<1>1. Settled(r) \in Cycle \cup {NoCycle}
  BY DEF TypeOK, Settled
<1>2. k.units \in Nat /\ k.units # 0 /\ k.priced \in BOOLEAN /\ k.line \in Nat
  BY DEF Candidate
<1> QED BY <1>1, <1>2, InventoryAssumption DEF RolloverLine, EmptyLine, Line

\* What one transaction adds to the lines.
LEMMA LinesCarried ==
    ASSUME InventoryTyped, NEW r \in Request, target[r] \in Cycle, lines' = lines \o RolloverLines(r)
    PROVE  /\ lines' \in Seq(Line) /\ DOMAIN lines \subseteq DOMAIN lines'
           /\ \A i \in DOMAIN lines : lines'[i] = lines[i]
           /\ \A i \in DOMAIN lines' \ DOMAIN lines : \E k \in cand[r] : lines'[i] = RolloverLine(r, k)
           /\ \A i, j \in DOMAIN lines' \ DOMAIN lines :
                 (\E k \in cand[r] : lines'[i] = RolloverLine(r, k) /\ lines'[j] = RolloverLine(r, k)
                                     /\ \A l \in cand[r] : l.line = k.line => l = k) => i = j
<1> DEFINE ks == SetToSeq(cand[r])
           n == Cardinality(cand[r])
           new == RolloverLines(r)
<1>1. n \in Nat /\ ks \in [1..n -> cand[r]] /\ \A i, j \in 1..n : ks[i] = ks[j] => i = j
  BY SetInOrder DEF InventoryTyped, WorkTyped
<1>2. new = [i \in 1..n |-> RolloverLine(r, ks[i])]
  BY <1>1 DEF RolloverLines
<1> HIDE DEF ks, n, new
<1>3. \A k \in cand[r] : RolloverLine(r, k) \in Line /\ RolloverLine(r, k).fromLine = k.line
  BY RolloverLineTyped DEF InventoryTyped, WorkTyped
<1>4. new \in Seq(Line) /\ Len(new) = n
  <2>1. new \in [1..n -> Line]
    BY <1>1, <1>2, <1>3
  <2>2. new \in Seq(Line)
    BY <1>1, <2>1, SeqDef
  <2> QED BY <1>1, <2>1, <2>2, LenProperties
<1>5. /\ lines \in Seq(Line) /\ DOMAIN lines = 1..Len(lines) /\ Len(lines) \in Nat
  BY DomainOfLines DEF InventoryTyped, LinesTyped
<1>6. /\ lines' \in Seq(Line) /\ Len(lines') = Len(lines) + n
      /\ \A i \in 1..(Len(lines) + n) : lines'[i] = IF i <= Len(lines) THEN lines[i] ELSE new[i - Len(lines)]
  BY <1>4, <1>5, ConcatProperties DEF new
<1>7. DOMAIN lines' = 1..(Len(lines) + n)
  BY <1>6, LenProperties
<1>8. ASSUME NEW i \in DOMAIN lines' \ DOMAIN lines
      PROVE  i - Len(lines) \in 1..n /\ lines'[i] = RolloverLine(r, ks[i - Len(lines)]) /\ ks[i - Len(lines)] \in cand[r]
  <2>1. i - Len(lines) \in 1..n /\ ~(i <= Len(lines))
    BY <1>1, <1>5, <1>7
  <2>2. lines'[i] = new[i - Len(lines)]
    BY <1>6, <1>7, <2>1
  <2> QED BY <1>1, <1>2, <2>1, <2>2
<1>9. ASSUME NEW i \in DOMAIN lines' \ DOMAIN lines, NEW j \in DOMAIN lines' \ DOMAIN lines, NEW k \in cand[r],
             lines'[i] = RolloverLine(r, k), lines'[j] = RolloverLine(r, k),
             \A l \in cand[r] : l.line = k.line => l = k
      PROVE  i = j
  <2>1. /\ i - Len(lines) \in 1..n /\ lines'[i] = RolloverLine(r, ks[i - Len(lines)]) /\ ks[i - Len(lines)] \in cand[r]
        /\ j - Len(lines) \in 1..n /\ lines'[j] = RolloverLine(r, ks[j - Len(lines)]) /\ ks[j - Len(lines)] \in cand[r]
    BY <1>8
  <2>2. PICK a \in cand[r] : a = ks[i - Len(lines)] /\ lines'[i] = RolloverLine(r, a)
    BY <2>1
  <2>3. PICK b \in cand[r] : b = ks[j - Len(lines)] /\ lines'[j] = RolloverLine(r, b)
    BY <2>1
  <2>4. a.line = k.line
    <3>1. RolloverLine(r, a).fromLine = a.line /\ RolloverLine(r, k).fromLine = k.line
      BY <1>3
    <3> QED BY <1>9, <2>2, <3>1
  <2>5. b.line = k.line
    <3>1. RolloverLine(r, b).fromLine = b.line /\ RolloverLine(r, k).fromLine = k.line
      BY <1>3
    <3> QED BY <1>9, <2>3, <3>1
  <2>6. ks[i - Len(lines)] = ks[j - Len(lines)]
    BY <1>9, <2>2, <2>3, <2>4, <2>5
  <2>7. i - Len(lines) = j - Len(lines)
    BY <1>1, <2>1, <2>6
  <2> QED BY <1>5, <1>7, <2>7
<1>10. DOMAIN lines \subseteq DOMAIN lines' /\ \A i \in DOMAIN lines : lines'[i] = lines[i]
  BY <1>1, <1>5, <1>6, <1>7
<1> QED BY <1>6, <1>8, <1>9, <1>10

\* One run of the allocation on one line.
IsAllocated(old, l) ==
    /\ l \in Line
    /\ l.cycle = old.cycle /\ l.rollover = old.rollover /\ l.from = old.from /\ l.fromLine = old.fromLine
    /\ l.planned = old.planned /\ l.sellBooked = old.sellBooked /\ l.buyBooked = old.buyBooked
    /\ l.bought \in old.bought..old.planned /\ l.sold <= l.bought
    /\ l.sold >= old.sold /\ l.traded = old.traded + (l.sold - old.sold)
    /\ l.priced <=> old.priced \/ l.bought > old.bought

LEMMA AllocationShape ==
    ASSUME lines \in Seq(Line), NEW c, AllocateLine(c)
    PROVE  \E i \in Rows(c) : \E l \in Line : IsAllocated(lines[i], l) /\ lines' = [lines EXCEPT ![i] = l]
<1>1. PICK i \in Rows(c) : \E l \in Allocated(lines[i]) :
              l.sold <= l.bought /\ lines' = [lines EXCEPT ![i] = l]
  BY DEF AllocateLine
<1> DEFINE old == lines[i]
<1>2. PICK l \in Allocated(old) : l.sold <= l.bought /\ lines' = [lines EXCEPT ![i] = l]
  BY <1>1
<1>3. old \in Line
  BY DomainOfLines DEF Rows
<1> HIDE DEF old
<1>4. PICK b \in old.bought .. old.planned, s \in old.sold .. old.planned :
          l = AllocatedTo(old, b, s)
  BY <1>2 DEF Allocated
<1> DEFINE priced == old.priced \/ b > old.bought
           traded == old.traded + (s - old.sold)
<1>5. b \in Nat /\ s \in Nat /\ s >= old.sold /\ traded \in Nat
  BY <1>3, <1>4 DEF Line
<1>6. priced \in BOOLEAN
  BY Zenon
<1>7. priced <=> old.priced \/ b > old.bought
  OBVIOUS
<1>8. l = [old EXCEPT !.bought = b, !.sold = s, !.traded = traded, !.priced = priced]
  BY <1>4 DEF AllocatedTo
<1> HIDE DEF priced
<1>9. /\ l \in Line /\ l.bought = b /\ l.sold = s /\ l.traded = traded /\ l.priced = priced
      /\ l.cycle = old.cycle /\ l.rollover = old.rollover /\ l.from = old.from /\ l.fromLine = old.fromLine
      /\ l.planned = old.planned /\ l.sellBooked = old.sellBooked /\ l.buyBooked = old.buyBooked
  BY <1>3, <1>5, <1>6, <1>8 DEF Line
<1>10. IsAllocated(old, l)
  BY <1>2, <1>4, <1>5, <1>7, <1>9 DEF IsAllocated
<1> QED BY <1>2, <1>9, <1>10 DEF old

LEMMA AllocationTypedLines ==
    ASSUME LinesTyped, NEW c, AllocateLine(c)
    PROVE  LinesTyped'
<1>1. PICK i \in Rows(c) : \E l \in Line : IsAllocated(lines[i], l) /\ lines' = [lines EXCEPT ![i] = l]
  BY AllocationShape DEF LinesTyped
<1>2. PICK l \in Line : IsAllocated(lines[i], l) /\ lines' = [lines EXCEPT ![i] = l]
  BY <1>1
<1>3. i \in DOMAIN lines /\ lines[i] \in Line /\ lines \in Seq(Line)
  BY DomainOfLines DEF LinesTyped, Rows
<1>4. l.rollover => l.bought # 0
  <2>1. PICK old \in Line : old = lines[i]
    BY <1>3
  <2>2. old.rollover => old.bought # 0
    BY <1>3, <2>1 DEF LinesTyped
  <2>3. l.rollover = old.rollover /\ l.bought \in old.bought..old.planned /\ old.bought \in Nat
    BY <1>2, <2>1 DEF IsAllocated, Line
  <2> QED BY <2>2, <2>3
<1> QED BY <1>2, <1>3, <1>4, LineUpdated DEF LinesTyped

\* An update of a counter of one row, if it exists.
LEMMA CounterTyped ==
    ASSUME LinesTyped, NEW i, NEW n \in Nat,
           \/ lines' = [lines EXCEPT ![i].sellBooked = @ + n]
           \/ lines' = [lines EXCEPT ![i].buyBooked = @ + n]
           \/ lines' = [lines EXCEPT ![i].sold = @ + n]
    PROVE  LinesTyped'
<1>1. CASE i \in DOMAIN lines
  <2>1. lines[i] \in Line /\ lines \in Seq(Line)
    BY <1>1, DomainOfLines DEF LinesTyped
  <2>3. PICK old \in Line : old = lines[i]
    BY <2>1
  <2>2. PICK l : lines' = [lines EXCEPT ![i] = l] /\ l \in Line /\ l.rollover = lines[i].rollover /\ l.bought = lines[i].bought
    <3>1. CASE lines' = [lines EXCEPT ![i].sellBooked = @ + n]
      <4> DEFINE l == [old EXCEPT !.sellBooked = old.sellBooked + n]
      <4>1. l \in Line /\ l.rollover = old.rollover /\ l.bought = old.bought
        BY DEF Line
      <4>2. lines' = [lines EXCEPT ![i] = l]
        BY <1>1, <2>1, <2>3, <3>1
      <4> QED BY <2>3, <4>1, <4>2
    <3>2. CASE lines' = [lines EXCEPT ![i].buyBooked = @ + n]
      <4> DEFINE l == [old EXCEPT !.buyBooked = old.buyBooked + n]
      <4>1. l \in Line /\ l.rollover = old.rollover /\ l.bought = old.bought
        BY DEF Line
      <4>2. lines' = [lines EXCEPT ![i] = l]
        BY <1>1, <2>1, <2>3, <3>2
      <4> QED BY <2>3, <4>1, <4>2
    <3>3. CASE lines' = [lines EXCEPT ![i].sold = @ + n]
      <4> DEFINE l == [old EXCEPT !.sold = old.sold + n]
      <4>1. l \in Line /\ l.rollover = old.rollover /\ l.bought = old.bought
        BY DEF Line
      <4>2. lines' = [lines EXCEPT ![i] = l]
        BY <1>1, <2>1, <2>3, <3>3
      <4> QED BY <2>3, <4>1, <4>2
    <3> QED BY <3>1, <3>2, <3>3
  <2> QED BY <1>1, <2>1, <2>2, LineUpdated DEF LinesTyped
<1>2. CASE i \notin DOMAIN lines
  <2>1. lines' = lines
    BY <1>2, DomainOfLines DEF LinesTyped
  <2> QED BY <2>1 DEF LinesTyped
<1> QED BY <1>1, <1>2

LEMMA FieldsOfWork ==
    ASSUME WorkTyped, NEW r \in Request
    PROVE  /\ work[r] \in Works /\ work[r].todo \in SUBSET Item /\ work[r].read \in BOOLEAN
           /\ work[r].now \in Item \cup {NoItem} /\ work[r].now.units \in Nat
           /\ \A k \in work[r].todo : k.line \in Nat \ {0} /\ k.units \in Nat \ {0}
           /\ \A k \in Item : k.line \in Nat \ {0} /\ k.units \in Nat \ {0}
<1>1. work[r] \in Works
  BY DEF WorkTyped
<1>2. \A k \in Item : k.line \in Nat \ {0} /\ k.units \in Nat \ {0}
  BY DEF Item
<1>3. NoItem.units \in Nat
  BY DEF NoItem
<1> QED BY <1>1, <1>2, <1>3 DEF Works

\* The candidates read from a Cycle are finitely many and have something left.
LEMMA CandidatesTyped ==
    ASSUME LinesTyped, NEW c, NEW jita \in BOOLEAN
    PROVE  CandidatesFrom(c, jita) \in SUBSET Candidate /\ IsFiniteSet(CandidatesFrom(c, jita))
<1> DEFINE S == {j \in Rows(c) : Unsold(j)}
           K(i) == [line |-> i, units |-> Remaining(i), priced |-> lines[i].priced \/ jita]
           f == [i \in S |-> K(i)]
           T == {K(i) : i \in S}
<1>1. /\ DOMAIN lines = 1..Len(lines) /\ Len(lines) \in Nat
      /\ \A i \in DOMAIN lines : lines[i] \in Line /\ i \in Nat \ {0}
  BY DomainOfLines DEF LinesTyped
<1>2. IsFiniteSet(S)
  <2>1. IsFiniteSet(1..Len(lines))
    BY <1>1, FS_Interval
  <2>2. S \in SUBSET (1..Len(lines))
    BY <1>1 DEF Rows
  <2> QED BY <2>1, <2>2, FS_Subset
<1>3. f \in Surjection(S, T)
  BY DEF Surjection
<1>4. IsFiniteSet(T)
  BY <1>2, <1>3, FS_Surjection
<1>5. ASSUME NEW i \in S PROVE K(i) \in Candidate
  <2>1. PICK old \in Line : old = lines[i]
    BY <1>1, <1>5 DEF Rows
  <2>2. Remaining(i) \in Nat \ {0}
    BY <1>5, <2>1 DEF Line, Unsold, Remaining
  <2> DEFINE p == lines[i].priced \/ jita
  <2>3. p \in BOOLEAN
    BY Zenon
  <2> HIDE DEF p
  <2>4. i \in Nat
    BY <1>1, <1>5 DEF Rows
  <2>5. [line |-> i, units |-> Remaining(i), priced |-> p] \in Candidate
    BY <2>2, <2>3, <2>4 DEF Candidate
  <2> QED BY <2>5 DEF p
<1>6. CandidatesFrom(c, jita) = T
  BY Zenon DEF CandidatesFrom
<1> QED BY <1>4, <1>5, <1>6

LEMMA TodoTyped ==
    ASSUME LinesTyped, NEW c, NEW r \in Request
    PROVE  BuybackTodo(c) \in SUBSET Item /\ PurchaseTodo(r) \in SUBSET Item
<1>1. \A i \in DOMAIN lines : lines[i] \in Line /\ i \in Nat \ {0}
  BY DomainOfLines DEF LinesTyped
<1>2. ASSUME NEW i \in Rows(c), Unsold(i) PROVE [line |-> i, units |-> Remaining(i)] \in Item
  <2>1. PICK old \in Line : old = lines[i]
    BY <1>1, <1>2 DEF Rows
  <2>2. Remaining(i) \in Nat \ {0}
    BY <1>2, <2>1 DEF Line, Unsold, Remaining
  <2> QED BY <1>1, <2>2 DEF Item, Rows
<1>3. ASSUME NEW i \in Rows(target[r]), lines[i].rollover PROVE [line |-> i, units |-> lines[i].bought] \in Item
  <2>1. i \in DOMAIN lines /\ lines[i].bought # 0
    BY <1>3 DEF LinesTyped, Rows
  <2>2. PICK old \in Line : old = lines[i]
    BY <1>1, <2>1
  <2>3. lines[i].bought \in Nat \ {0}
    BY <2>1, <2>2 DEF Line
  <2> QED BY <1>1, <2>1, <2>3 DEF Item
<1>4. BuybackTodo(c) \in SUBSET Item
  BY <1>2 DEF BuybackTodo
<1>5. PurchaseTodo(r) \in SUBSET Item
  BY <1>3 DEF PurchaseTodo
<1> QED BY <1>4, <1>5

LEMMA TypedStep ==
    ASSUME InventoryTyped, ReportInv, TypeOK', InventoryNext
    PROVE  InventoryTyped'
<1> USE DEF InventoryTyped
<1>1. ASSUME NEW c \in Cycle, CreateLine(c) \/ AllocateTransactions(c) \/ (PlanCycle(c) /\ UNCHANGED inventory)
      PROVE  LinesTyped' /\ WorkTyped'
  <2>1. CASE UNCHANGED inventory
    BY <2>1 DEF inventory, LinesTyped, WorkTyped
  <2>2. CASE CreateLine(c)
    <3>1. lines' = Append(lines, EmptyLine(c)) /\ UNCHANGED <<cand, work>>
      BY <2>2 DEF CreateLine
    <3> QED BY <3>1, LineAppended, EmptyLineTyped DEF LinesTyped, WorkTyped
  <2>3. CASE AllocateTransactions(c)
    BY <2>3, AllocationTypedLines DEF AllocateTransactions, WorkTyped
  <2> QED BY <1>1, <2>1, <2>2, <2>3
<1>2. CASE HourlyJob
  BY <1>2, AllocationTypedLines DEF HourlyJob, WorkTyped
<1>3. ASSUME NEW r \in Request, NEW c \in Cycle, BeginLines(r, c) PROVE LinesTyped' /\ WorkTyped'
  BY <1>3 DEF BeginLines, inventory, LinesTyped, WorkTyped
<1>4. ASSUME NEW r \in Request, DeleteLines(r) PROVE LinesTyped' /\ WorkTyped'
  <2> DEFINE gone(i) == Exists(target[r]) /\ lines[i].cycle = target[r]
  <2>1. lines \in Seq(Line) /\ DOMAIN lines = 1..Len(lines) /\ Len(lines) \in Nat
    BY DomainOfLines DEF LinesTyped
  <2>2. lines' = [i \in DOMAIN lines |-> IF gone(i) THEN [lines[i] EXCEPT !.cycle = NoCycle] ELSE lines[i]]
    BY <1>4 DEF DeleteLines
  <2> HIDE DEF gone
  <2>3. ASSUME NEW i \in DOMAIN lines
        PROVE  lines'[i] \in Line /\ (lines'[i].rollover => lines'[i].bought # 0)
    <3>1. PICK old \in Line : old = lines[i] /\ (old.rollover => old.bought # 0)
      BY DomainOfLines DEF LinesTyped
    <3>2. lines'[i] = old \/ lines'[i] = [old EXCEPT !.cycle = NoCycle]
      BY <2>2, <3>1
    <3>3. [old EXCEPT !.cycle = NoCycle] \in Line /\ [old EXCEPT !.cycle = NoCycle].rollover = old.rollover
          /\ [old EXCEPT !.cycle = NoCycle].bought = old.bought
      BY DEF Line
    <3> QED BY <3>1, <3>2, <3>3
  <2>4. DOMAIN lines' = DOMAIN lines
    BY <2>2
  <2>5. lines' \in [1..Len(lines) -> Line]
    BY <2>1, <2>2, <2>3
  <2>6. lines' \in Seq(Line)
    BY <2>1, <2>5, SeqDef
  <2> QED BY <1>4, <2>3, <2>4, <2>6 DEF DeleteLines, LinesTyped, WorkTyped
<1>5. ASSUME NEW r \in Request, BuildLineCandidates(r) PROVE LinesTyped' /\ WorkTyped'
  <2>1. PICK jita \in BOOLEAN : \E ks \in IF Settled(r) = NoCycle THEN OrderCandidates(jita)
                                          ELSE {CandidatesFrom(Settled(r), jita)} :
                                    cand' = [cand EXCEPT ![r] = ks]
    BY <1>5 DEF BuildLineCandidates
  <2>2. PICK ks : /\ cand' = [cand EXCEPT ![r] = ks]
                  /\ ks \in OrderCandidates(jita) \/ ks = CandidatesFrom(Settled(r), jita)
    BY <2>1
  <2>3. \A k \in OrderCandidates(jita) : k \in SUBSET Candidate /\ IsFiniteSet(k)
    <3>1. [line |-> 0, units |-> OrderUnits, priced |-> jita] \in Candidate
      BY InventoryAssumption DEF Candidate
    <3> DEFINE order == [line |-> 0, units |-> OrderUnits, priced |-> jita]
    <3>2. OrderCandidates(jita) = {{}, {order}}
      BY DEF OrderCandidates
    <3> HIDE DEF order
    <3>3. order \in Candidate
      BY <3>1 DEF order
    <3>4. IsFiniteSet({}) /\ IsFiniteSet({order})
      BY FS_EmptySet, FS_Singleton
    <3> QED BY <3>2, <3>3, <3>4
  <2>4. ks \in SUBSET Candidate /\ IsFiniteSet(ks)
    BY <2>2, <2>3, CandidatesTyped
  <2> QED BY <1>5, <2>2, <2>4 DEF BuildLineCandidates, LinesTyped, WorkTyped
<1>6. ASSUME NEW r \in Request, AllocateNext(r) \/ AllocateLines(r) PROVE LinesTyped' /\ WorkTyped'
  BY <1>6, AllocationTypedLines DEF AllocateNext, AllocateLines, inventory, LinesTyped, WorkTyped
<1>7. ASSUME NEW r \in Request, TransitionReadLines(r) PROVE LinesTyped' /\ WorkTyped'
  BY <1>7 DEF TransitionReadLines, inventory, LinesTyped, WorkTyped
<1>8. ASSUME NEW r \in Request, TransitionLines(r) PROVE LinesTyped' /\ WorkTyped'
  <2>1. /\ TransitionCommit(r) /\ lines' = lines \o RolloverLines(r)
        /\ cand' = [cand EXCEPT ![r] = {}] /\ work' = work
    BY <1>8 DEF TransitionLines
  <2>2. target[r] \in Cycle
    BY <2>1 DEF ReportInv, ReportAt, TransitionCommit, Advance
  <2>3. /\ lines' \in Seq(Line) /\ \A i \in DOMAIN lines : lines'[i] = lines[i]
        /\ \A i \in DOMAIN lines' \ DOMAIN lines : \E k \in cand[r] : lines'[i] = RolloverLine(r, k)
    BY <2>1, <2>2, LinesCarried
  <2>4. \A k \in cand[r] : RolloverLine(r, k).bought # 0
    BY <2>2, RolloverLineTyped DEF WorkTyped
  <2>5. \A i \in DOMAIN lines' : lines'[i].rollover => lines'[i].bought # 0
    BY <2>3, <2>4 DEF LinesTyped
  <2> QED BY <2>1, <2>3, <2>5, FS_EmptySet DEF LinesTyped, WorkTyped
<1>9. ASSUME NEW r \in Request, ReadStock(r) \/ ReadRollovers(r) PROVE LinesTyped' /\ WorkTyped'
  <2>1. PICK new \in Works : work' = [work EXCEPT ![r] = new] /\ UNCHANGED <<lines, cand>>
    <3>1. CASE ReadStock(r)
      <4>1. [read |-> TRUE, todo |-> BuybackTodo(prevOpen[r]), now |-> NoItem] \in Works
        BY TodoTyped DEF Works
      <4> QED BY <3>1, <4>1 DEF ReadStock
    <3>2. CASE ReadRollovers(r)
      <4>1. [read |-> TRUE, todo |-> PurchaseTodo(r), now |-> NoItem] \in Works
        BY TodoTyped DEF Works
      <4> QED BY <3>2, <4>1 DEF ReadRollovers
    <3> QED BY <1>9, <3>1, <3>2
  <2> QED BY <2>1 DEF LinesTyped, WorkTyped
<1>10. ASSUME NEW r \in Request, BookSale(r) \/ BookPurchase(r) PROVE LinesTyped' /\ WorkTyped'
  <2>1. PICK k \in work[r].todo :
            /\ \/ lines' = [lines EXCEPT ![k.line].sellBooked = @ + k.units]
               \/ lines' = [lines EXCEPT ![k.line].buyBooked = @ + k.units]
            /\ \/ work' = [work EXCEPT ![r].todo = @ \ {k}, ![r].now = k]
               \/ work' = [work EXCEPT ![r].todo = @ \ {k}]
            /\ cand' = cand
    BY <1>10 DEF BookSale, BookPurchase
  <2>2. LinesTyped'
    BY <2>1, FieldsOfWork, CounterTyped
  <2>3. WorkTyped'
    <3>1. PICK w \in Works : w = work[r]
      BY FieldsOfWork
    <3>2. [w EXCEPT !.todo = w.todo \ {k}, !.now = k] \in Works /\ [w EXCEPT !.todo = w.todo \ {k}] \in Works
      BY <2>1, <3>1 DEF Works
    <3>3. \/ work' = [work EXCEPT ![r] = [w EXCEPT !.todo = w.todo \ {k}, !.now = k]]
          \/ work' = [work EXCEPT ![r] = [w EXCEPT !.todo = w.todo \ {k}]]
      BY <2>1, <3>1 DEF WorkTyped
    <3> QED BY <2>1, <3>2, <3>3 DEF WorkTyped
  <2> QED BY <2>2, <2>3
<1>11. ASSUME NEW r \in Request, MarkSold(r) PROVE LinesTyped' /\ WorkTyped'
  <2>1. /\ lines' = [lines EXCEPT ![work[r].now.line].sold = @ + work[r].now.units]
        /\ work' = [work EXCEPT ![r].now = NoItem] /\ cand' = cand
    BY <1>11 DEF MarkSold
  <2>2. LinesTyped'
    BY <2>1, FieldsOfWork, CounterTyped
  <2>3. PICK w \in Works : w = work[r]
    BY FieldsOfWork
  <2>4. [w EXCEPT !.now = NoItem] \in Works
    BY <2>3 DEF Works
  <2>5. work' = [work EXCEPT ![r] = [w EXCEPT !.now = NoItem]]
    BY <2>1, <2>3 DEF WorkTyped
  <2> QED BY <2>1, <2>2, <2>4, <2>5 DEF WorkTyped
<1>12. ASSUME NEW r \in Request, BuybackLines(r) \/ PurchaseLines(r) PROVE LinesTyped' /\ WorkTyped'
  BY <1>12, NothingToDo DEF BuybackLines, PurchaseLines, LinesTyped, WorkTyped
<1>13. ASSUME NEW r \in Request, FailLines(r) PROVE LinesTyped' /\ WorkTyped'
  BY <1>13, NothingToDo, FS_EmptySet DEF FailLines, LinesTyped, WorkTyped
<1>14. ASSUME NEW r \in Request, \/ ReadOpenCycle(r) \/ WalletImport(r) \/ CloseCycle(r)
                                 \/ Payouts(r) \/ Rollover(r), UNCHANGED inventory
       PROVE  LinesTyped' /\ WorkTyped'
  BY <1>14 DEF inventory, LinesTyped, WorkTyped
<1>15. CASE CrashLines
  BY <1>15, NothingToDo, FS_EmptySet DEF CrashLines, LinesTyped, WorkTyped
<1> QED
  BY <1>1, <1>2, <1>3, <1>4, <1>5, <1>6, <1>7, <1>8, <1>9, <1>10, <1>11, <1>12, <1>13, <1>14, <1>15
  DEF InventoryNext

LEMMA InventoryInvariant == InventorySpec => [](InventoryTyped /\ ReportInv)
<1>1. InventoryInit => InventoryTyped
  <2> SUFFICES ASSUME InventoryInit PROVE LinesTyped /\ WorkTyped /\ TypeOK
    BY DEF InventoryTyped
  <2>1. <<>> \in Seq(Line) /\ DOMAIN <<>> = {}
    BY EmptySeq
  <2>2. LinesTyped /\ WorkTyped
    BY <2>1, NothingToDo, FS_EmptySet DEF InventoryInit, LinesTyped, WorkTyped
  <2>3. TypeOK
    BY DEF InventoryInit, Init, TypeOK, Status, PC, EmptyReport, StepStatus
  <2> QED BY <2>2, <2>3
<1>2. InventoryTyped /\ ReportInv /\ TypeOK' /\ [InventoryNext]_allVars => InventoryTyped'
  <2>1. InventoryTyped /\ TypeOK' /\ UNCHANGED allVars => InventoryTyped'
    BY DEF allVars, inventory, InventoryTyped, LinesTyped, WorkTyped
  <2> QED BY <2>1, TypedStep
<1> QED
  BY <1>1, <1>2, LifecycleBelow, ReportInvariant, PTL DEF InventorySpec

\* The stock of the Cycles stays well formed for any number of overlapping
\* requests and an hourly job that overlaps with them: InventoryTypeOK.  Nothing
\* is ever carried over, bought back or bought in a quantity of zero.
THEOREM InventoryTypeCorrect == InventorySpec => []InventoryTypeOK
<1>1. InventoryTyped => InventoryTypeOK
  BY FieldsOfWork DEF InventoryTyped, InventoryTypeOK, LinesTyped, WorkTyped
<1> QED BY <1>1, InventoryInvariant, PTL

--------------------------------------------------------------------------------
(* What is sold, for one request at a time and a job that waits for it.    *)

JobWaits == ~JobOverlaps

SoldAll(i) == lines[i].priced => lines[i].sold = lines[i].bought

\* The loop of the buyback: what it read about the rows it has yet to update is
\* still true, and no row with stock and a cost is missing from it.
Stocked(r) ==
    /\ \A k \in work[r].todo :
          k.line \in Rows(prevOpen[r]) /\ k.units = Remaining(k.line) /\ k.line # work[r].now.line
    /\ work[r].now # NoItem =>
          LET i == work[r].now.line
          IN  /\ i \in Rows(prevOpen[r]) /\ work[r].now.units = Remaining(i)
              /\ lines[i].sold + work[r].now.units <= lines[i].traded + lines[i].sellBooked
    /\ work[r].read => \A i \in Rows(prevOpen[r]) :
          SoldAll(i) \/ i = work[r].now.line \/ \E k \in work[r].todo : k.line = i

\* Between the buyback and the close nothing of the settled Cycle is left.
WorkInv(r) ==
    /\ pc[r] \notin {"buyback", "purchase"} => work[r] = NoWork
    /\ ~work[r].read => work[r] = NoWork
    /\ pc[r] = "buyback" => Stocked(r)
    /\ pc[r] \in {"transition", "commit", "close"} /\ Settled(r) # NoCycle =>
          \A i \in Rows(Settled(r)) : SoldAll(i)

\* By hand admins may find late buys for a COMPLETED Cycle, whose stock nobody
\* sells back any more.
NotReallocated == "COMPLETED" \notin AllocatableStatus

StaysSoldOut == NotReallocated => SoldOut

SoldInv == NoOversell /\ StaysSoldOut /\ \A r \in Request : WorkInv(r)

\* An update of one row that keeps its Cycle.
LEMMA OversellKept ==
    ASSUME InventoryTyped, NoOversell, NEW i \in DOMAIN lines, NEW new \in Line,
           lines' = [lines EXCEPT ![i] = new],
           new.sold <= new.bought, new.sold <= new.traded + new.sellBooked
    PROVE  NoOversell'
  BY LineUpdated DEF InventoryTyped, LinesTyped, NoOversell

\* What the allocation makes of one row.
LEMMA AllocationKept ==
    ASSUME InventoryTyped, NoOversell, StaysSoldOut, NEW c \in Cycle, UNCHANGED status, AllocateLine(c),
           NotReallocated => status[c] # "COMPLETED"
    PROVE  NoOversell' /\ StaysSoldOut'
<1>1. PICK i \in Rows(c) : \E l \in Line : IsAllocated(lines[i], l) /\ lines' = [lines EXCEPT ![i] = l]
  BY AllocationShape DEF InventoryTyped, LinesTyped
<1>2. PICK l \in Line : IsAllocated(lines[i], l) /\ lines' = [lines EXCEPT ![i] = l]
  BY <1>1
<1>3. i \in DOMAIN lines /\ lines[i] \in Line /\ lines \in Seq(Line) /\ lines[i].cycle = c
  BY DomainOfLines DEF InventoryTyped, LinesTyped, Rows
<1>4. PICK old \in Line : old = lines[i]
  BY <1>3
<1>5. old.sold <= old.bought /\ old.sold <= old.traded + old.sellBooked
  BY <1>3, <1>4 DEF NoOversell
<1>6. l.sold <= l.bought /\ l.sold <= l.traded + l.sellBooked
  BY <1>2, <1>4, <1>5 DEF IsAllocated, Line
<1>7. NoOversell'
  BY <1>2, <1>3, <1>6, OversellKept
<1>8. /\ DOMAIN lines' = DOMAIN lines /\ lines'[i].cycle = c
      /\ \A j \in DOMAIN lines : j # i => lines'[j] = lines[j]
  BY <1>2, <1>3, LineUpdated DEF IsAllocated
<1>9. StaysSoldOut'
  BY <1>8 DEF StaysSoldOut, SoldOut, Rows
<1> QED BY <1>7, <1>9

\* The rows stay as they are, and so does the request's view of them.
LEMMA ViewKept ==
    ASSUME NEW r \in Request, WorkInv(r), UNCHANGED <<lines, target[r], prevOpen[r], work[r], pc[r]>>
    PROVE  WorkInv(r)'
  BY DEF WorkInv, Stocked, Settled, Rows, Remaining, SoldAll

\* Where nothing is in the hands of a request, nothing is promised.
LEMMA NothingInHand ==
    ASSUME NEW r \in Request, work'[r] = NoWork,
           pc'[r] \in {"transition", "commit", "close"} =>
               Settled(r)' = NoCycle \/ \A i \in Rows(Settled(r))' : SoldAll(i)'
    PROVE  WorkInv(r)'
<1>1. NoWork.read = FALSE /\ NoWork.todo = {} /\ NoWork.now = NoItem
  BY NothingToDo
<1>2. Stocked(r)'
  BY <1>1 DEF Stocked
<1> QED BY <1>2 DEF WorkInv

\* The synthetic buy of the purchase touches nothing else of its row.
LEMMA BuyBooked ==
    ASSUME LinesTyped, NEW i, NEW n \in Nat, lines' = [lines EXCEPT ![i].buyBooked = @ + n]
    PROVE  /\ DOMAIN lines' = DOMAIN lines
           /\ \A j \in DOMAIN lines :
                 /\ lines'[j].cycle = lines[j].cycle /\ lines'[j].sold = lines[j].sold
                 /\ lines'[j].bought = lines[j].bought /\ lines'[j].priced = lines[j].priced
                 /\ lines'[j].traded = lines[j].traded /\ lines'[j].sellBooked = lines[j].sellBooked
                 /\ lines'[j].rollover = lines[j].rollover /\ lines'[j].planned = lines[j].planned
                 /\ lines'[j].from = lines[j].from /\ lines'[j].fromLine = lines[j].fromLine
                 /\ lines'[j].buyBooked = IF j = i THEN lines[j].buyBooked + n ELSE lines[j].buyBooked
<1>1. DOMAIN lines' = DOMAIN lines
  OBVIOUS
<1>2. ASSUME NEW j \in DOMAIN lines
      PROVE  LET new == lines'[j]
             IN  /\ new.cycle = lines[j].cycle /\ new.sold = lines[j].sold
                 /\ new.bought = lines[j].bought /\ new.priced = lines[j].priced
                 /\ new.traded = lines[j].traded /\ new.sellBooked = lines[j].sellBooked
                 /\ new.rollover = lines[j].rollover /\ new.planned = lines[j].planned
                 /\ new.from = lines[j].from /\ new.fromLine = lines[j].fromLine
                 /\ new.buyBooked = IF j = i THEN lines[j].buyBooked + n ELSE lines[j].buyBooked
  <2>1. PICK old \in Line : old = lines[j]
    BY DomainOfLines DEF LinesTyped
  <2>2. lines'[j] = IF j = i THEN [old EXCEPT !.buyBooked = old.buyBooked + n] ELSE old
    BY <2>1
  <2> QED BY <2>1, <2>2 DEF Line
<1> QED BY <1>1, <1>2

\* Whoever runs alone keeps the rows sold out that it found or made so.
LEMMA SoldStep ==
    ASSUME Serial, JobWaits, InventoryTyped, ReportInv, SerialInv, SoldInv, TypeOK', InventoryNext
    PROVE  SoldInv'
<1> USE DEF SoldInv
<1>a. \A r \in Request : WorkInv(r) /\ ReportAt(r) /\ ReadIsFresh(r)
  BY DEF ReportInv, SerialInv
<1>b. NoCycle \notin Cycle /\ TypeOK
  BY NoCycleAssumption DEF InventoryTyped
<1>1. ASSUME NEW c \in Cycle, CreateLine(c) \/ (PlanCycle(c) /\ UNCHANGED inventory)
      PROVE  SoldInv'
  <2>1. CASE PlanCycle(c) /\ UNCHANGED inventory
    <3>1. lines' = lines /\ work' = work /\ \A d \in Cycle : status'[d] = "COMPLETED" => status[d] = "COMPLETED"
      BY <2>1, <1>b DEF PlanCycle, inventory, TypeOK
    <3>2. UNCHANGED <<pc, target, prevOpen>>
      BY <2>1 DEF PlanCycle, local
    <3>3. NoOversell' /\ StaysSoldOut'
      BY <3>1 DEF NoOversell, StaysSoldOut, SoldOut, Rows
    <3>4. \A r \in Request : WorkInv(r)'
      BY <3>1, <3>2, <1>a, ViewKept
    <3> QED BY <3>3, <3>4
  <2>2. CASE CreateLine(c)
    <3>1. lines' = Append(lines, EmptyLine(c)) /\ UNCHANGED <<status, pc, target, prevOpen, work>>
      BY <2>2 DEF CreateLine, vars
    <3> DEFINE n == Len(lines) + 1
               new == EmptyLine(c)
    <3>2. /\ DOMAIN lines' = DOMAIN lines \cup {n} /\ lines'[n] = new /\ \A j \in DOMAIN lines : lines'[j] = lines[j]
          /\ n \notin DOMAIN lines
          /\ ~new.priced /\ new.sold = 0 /\ new.bought = 0 /\ new.traded = 0 /\ new.sellBooked = 0
      BY <3>1, LineAppended, EmptyLineTyped DEF InventoryTyped, LinesTyped
    <3> HIDE DEF n, new
    <3>3. NoOversell' /\ StaysSoldOut'
      BY <3>1, <3>2 DEF NoOversell, StaysSoldOut, SoldOut, Rows
    <3>4. ASSUME NEW r \in Request PROVE WorkInv(r)'
      <4>1. WorkInv(r)
        BY <1>a
      <4> QED BY <3>1, <3>2, <4>1 DEF WorkInv, Stocked, Settled, Rows, Remaining, SoldAll
    <3> QED BY <3>3, <3>4
  <2> QED BY <1>1, <2>1, <2>2
<1>2. ASSUME \/ HourlyJob
             \/ \E c \in Cycle : AllocateTransactions(c)
      PROVE  SoldInv'
  <2>1. PICK c \in Cycle : /\ AllocateLine(c) /\ JobMayRun /\ UNCHANGED <<vars, cand, work>>
                           /\ status[c] = "OPEN" \/ status[c] \in AllocatableStatus
    <3>1. CASE HourlyJob
      <4>1. \A c \in CurrentOpen \cap Cycle : status[c] = "OPEN"
        BY NoCycleAssumption DEF CurrentOpen
      <4> QED BY <3>1, <4>1 DEF HourlyJob
    <3>2. CASE \E c \in Cycle : AllocateTransactions(c)
      BY <3>2 DEF AllocateTransactions
    <3> QED BY <1>2, <3>1, <3>2
  <2>2. UNCHANGED <<status, pc>> /\ (NotReallocated => status[c] # "COMPLETED")
    BY <2>1 DEF vars, NotReallocated
  <2>3. NoOversell' /\ StaysSoldOut'
    BY <2>1, <2>2, AllocationKept
  <2>4. \A r \in Request : pc[r] = "idle"
    BY <2>1 DEF JobMayRun, JobWaits, InFlight
  <2>5. ASSUME NEW r \in Request PROVE WorkInv(r)'
    <3>1. work'[r] = NoWork /\ pc'[r] = "idle"
      BY <1>a, <2>1, <2>2, <2>4 DEF WorkInv
    <3> QED BY <3>1, NothingInHand
  <2> QED BY <2>3, <2>5
<1>3. ASSUME NEW r \in Request, NEW c \in Cycle, BeginLines(r, c) PROVE SoldInv'
  <2>1. UNCHANGED <<status, lines, work>> /\ pc[r] = "idle" /\ pc'[r] \in {"discard", "readOpen", "import"}
    BY <1>3, <1>b DEF BeginLines, BeginDelete, BeginOpen, BeginSettle, Start, inventory, TypeOK
  <2>2. NoOversell' /\ StaysSoldOut'
    BY <2>1 DEF NoOversell, StaysSoldOut, SoldOut, Rows
  <2>3. WorkInv(r)'
    BY <1>a, <2>1, NothingInHand DEF WorkInv
  <2> QED BY <2>2, <2>3 DEF Serial
<1>4. ASSUME NEW r \in Request, DeleteLines(r) PROVE SoldInv'
  <2> DEFINE gone(i) == Exists(target[r]) /\ lines[i].cycle = target[r]
  <2>1. lines \in Seq(Line)
    BY DEF InventoryTyped, LinesTyped
  <2>2. lines' = [i \in DOMAIN lines |-> IF gone(i) THEN [lines[i] EXCEPT !.cycle = NoCycle] ELSE lines[i]]
    BY <1>4 DEF DeleteLines
  <2> HIDE DEF gone
  <2>3. ASSUME NEW i \in DOMAIN lines
        PROVE  /\ lines'[i].cycle = lines[i].cycle \/ lines'[i].cycle = NoCycle
               /\ lines'[i].sold = lines[i].sold /\ lines'[i].bought = lines[i].bought
               /\ lines'[i].priced = lines[i].priced
               /\ lines'[i].traded = lines[i].traded /\ lines'[i].sellBooked = lines[i].sellBooked
    <3>1. PICK old \in Line : old = lines[i]
      BY <2>1, DomainOfLines
    <3>2. lines'[i] = old \/ lines'[i] = [old EXCEPT !.cycle = NoCycle]
      BY <2>2, <3>1
    <3> QED BY <3>1, <3>2 DEF Line
  <2>4. DOMAIN lines' = DOMAIN lines
    BY <2>2
  <2>5. NoOversell'
    BY <2>3, <2>4 DEF NoOversell
  <2>6. \A c \in Cycle : status'[c] = "COMPLETED" => status[c] = "COMPLETED"
    BY <1>4, <1>b DEF DeleteLines, DeleteCycle, TypeOK
  <2>7. StaysSoldOut'
    BY <1>b, <2>3, <2>4, <2>6 DEF StaysSoldOut, SoldOut, Rows
  <2>8. work' = work /\ pc[r] = "discard" /\ pc'[r] = "idle"
    BY <1>4, <1>b DEF DeleteLines, DeleteCycle, End, TypeOK
  <2>9. WorkInv(r)'
    BY <1>a, <2>8, NothingInHand DEF WorkInv
  <2> QED BY <2>5, <2>7, <2>9 DEF Serial
<1>5. ASSUME NEW r \in Request, BuildLineCandidates(r) PROVE SoldInv'
  <2>1. UNCHANGED <<status, lines, work, target, prevOpen>> /\ pc[r] = "candidates"
        /\ pc'[r] = IF Settled(r) = NoCycle THEN "transition" ELSE "import"
    BY <1>5, <1>b DEF BuildLineCandidates, BuildCandidates, Advance, local, TypeOK
  <2>2. NoOversell' /\ StaysSoldOut'
    BY <2>1 DEF NoOversell, StaysSoldOut, SoldOut, Rows
  <2>3. Settled(r)' = Settled(r)
    BY <2>1 DEF Settled
  <2>4. WorkInv(r)'
    BY <1>a, <2>1, <2>3, NothingInHand DEF WorkInv
  <2> QED BY <2>2, <2>4 DEF Serial
<1>6. ASSUME NEW r \in Request, AllocateNext(r) \/ AllocateLines(r) PROVE SoldInv'
  <2>1. /\ UNCHANGED <<status, work>> /\ pc[r] = "allocate" /\ pc'[r] \in {"allocate", "buyback"}
        /\ AllocateLine(prevOpen[r]) \/ UNCHANGED lines
    BY <1>6, <1>b DEF AllocateNext, AllocateLines, Allocate, Advance, inventory, vars, TypeOK
  <2>2. prevOpen[r] \in Cycle /\ status[prevOpen[r]] = "OPEN"
    BY <1>a, <1>b, <2>1 DEF ReportAt, ReadIsFresh, Deciding, Settled, TypeOK
  <2>3. NoOversell' /\ StaysSoldOut'
    <3>1. CASE AllocateLine(prevOpen[r])
      BY <2>1, <2>2, <3>1, AllocationKept
    <3>2. CASE UNCHANGED lines
      BY <2>1, <3>2 DEF NoOversell, StaysSoldOut, SoldOut, Rows
    <3> QED BY <2>1, <3>1, <3>2
  <2>4. WorkInv(r)'
    BY <1>a, <2>1, NothingInHand DEF WorkInv
  <2> QED BY <2>3, <2>4 DEF Serial
<1>7. ASSUME NEW r \in Request, TransitionReadLines(r) PROVE SoldInv'
  <2>1. UNCHANGED <<status, lines, work, target, prevOpen>> /\ pc[r] = "transition" /\ pc'[r] = "commit"
    BY <1>7, <1>b DEF TransitionReadLines, TransitionRead, Advance, inventory, TypeOK
  <2>2. NoOversell' /\ StaysSoldOut'
    BY <2>1 DEF NoOversell, StaysSoldOut, SoldOut, Rows
  <2>3. WorkInv(r)'
    <3>1. WorkInv(r)
      BY <1>a
    <3> QED BY <2>1, <3>1, NothingInHand DEF WorkInv, Settled, Rows, SoldAll
  <2> QED BY <2>2, <2>3 DEF Serial
<1>8. ASSUME NEW r \in Request, TransitionLines(r) PROVE SoldInv'
  <2>1. /\ pc[r] = "commit" /\ pc'[r] \in {"purchase", "payouts"}
        /\ UNCHANGED <<target, prevOpen, work>> /\ target[r] \in Cycle
        /\ lines' = lines \o RolloverLines(r) /\ toClose[r] = Settled(r)
        /\ status' = [c \in Cycle |-> IF c = target[r] THEN "OPEN"
                                      ELSE IF c = toClose[r] THEN "COMPLETED" ELSE status[c]]
    BY <1>8, <1>a, <1>b DEF TransitionLines, TransitionCommit, Advance, ReportAt, ReadIsFresh, TypeOK
  <2>2. /\ DOMAIN lines \subseteq DOMAIN lines' /\ \A i \in DOMAIN lines : lines'[i] = lines[i]
        /\ \A i \in DOMAIN lines' \ DOMAIN lines : \E k \in cand[r] : lines'[i] = RolloverLine(r, k)
    BY <2>1, LinesCarried
  <2>3. \A k \in cand[r] : /\ RolloverLine(r, k).cycle = target[r] /\ RolloverLine(r, k).sold = 0
                           /\ RolloverLine(r, k).bought \in Nat
                           /\ RolloverLine(r, k).traded = 0 /\ RolloverLine(r, k).sellBooked = 0
    BY <1>b, <2>1, RolloverLineTyped DEF InventoryTyped, WorkTyped, Line
  <2>4. \A i \in DOMAIN lines' \ DOMAIN lines :
            /\ lines'[i].cycle = target[r] /\ lines'[i].sold = 0 /\ lines'[i].bought \in Nat
            /\ lines'[i].traded = 0 /\ lines'[i].sellBooked = 0
    BY <2>2, <2>3
  <2>5. NoOversell'
    BY <2>2, <2>4 DEF NoOversell
  <2>6. toClose[r] # NoCycle => \A i \in Rows(toClose[r]) : SoldAll(i)
    BY <1>a, <2>1 DEF WorkInv
  <2>7. StaysSoldOut'
    BY <2>1, <2>2, <2>4, <2>6, <1>b DEF StaysSoldOut, SoldOut, Rows, SoldAll
  <2>8. WorkInv(r)'
    BY <1>a, <2>1, NothingInHand DEF WorkInv
  <2> QED BY <2>5, <2>7, <2>8 DEF Serial
<1>9. ASSUME NEW r \in Request, ReadStock(r) PROVE SoldInv'
  <2>1. UNCHANGED <<status, lines, target, prevOpen, pc>> /\ pc[r] = "buyback"
        /\ work'[r] = [read |-> TRUE, todo |-> BuybackTodo(prevOpen[r]), now |-> NoItem]
    BY <1>9 DEF ReadStock, vars, InventoryTyped, WorkTyped
  <2>2. NoOversell' /\ StaysSoldOut'
    BY <2>1 DEF NoOversell, StaysSoldOut, SoldOut, Rows
  <2>3. work'[r].read /\ work'[r].todo = BuybackTodo(prevOpen[r]) /\ work'[r].now = NoItem /\ NoItem.line = 0
    BY <2>1 DEF NoItem
  <2>4. \A k \in BuybackTodo(prevOpen[r]) :
            k.line \in Rows(prevOpen[r]) /\ k.units = Remaining(k.line) /\ k.line # 0
    <3>1. \A i \in Rows(prevOpen[r]) : i # 0
      BY DomainOfLines DEF Rows, InventoryTyped, LinesTyped
    <3> QED BY <3>1 DEF BuybackTodo
  <2>5. ASSUME NEW i \in Rows(prevOpen[r])
        PROVE  SoldAll(i) \/ \E k \in BuybackTodo(prevOpen[r]) : k.line = i
    <3>1. CASE lines[i].priced /\ Unsold(i)
      <4>1. [line |-> i, units |-> Remaining(i)] \in BuybackTodo(prevOpen[r])
        BY <3>1 DEF BuybackTodo
      <4> QED BY <4>1
    <3>2. CASE ~Unsold(i)
      <4>1. PICK old \in Line : old = lines[i]
        BY DomainOfLines DEF Rows, InventoryTyped, LinesTyped
      <4>2. old.sold <= old.bought /\ ~(old.sold < old.bought)
        BY <3>2, <4>1 DEF NoOversell, Rows, Unsold
      <4>3. old.sold = old.bought
        BY <4>2 DEF Line
      <4> QED BY <4>1, <4>3 DEF SoldAll
    <3>3. CASE ~lines[i].priced
      BY <3>3 DEF SoldAll
    <3> QED BY <3>1, <3>2, <3>3
  <2>6. Stocked(r)'
    BY <2>1, <2>3, <2>4, <2>5 DEF Stocked, Rows, Remaining, SoldAll
  <2>7. WorkInv(r)'
    BY <2>1, <2>3, <2>6 DEF WorkInv
  <2> QED BY <2>2, <2>7 DEF Serial
<1>10. ASSUME NEW r \in Request, BookSale(r) PROVE SoldInv'
  <2>1. PICK k \in work[r].todo :
            /\ NextItem(r, "buyback", k)
            /\ lines' = [lines EXCEPT ![k.line].sellBooked = @ + k.units]
            /\ work' = [work EXCEPT ![r].todo = @ \ {k}, ![r].now = k]
            /\ UNCHANGED <<vars, cand>>
    BY <1>10 DEF BookSale
  <2>2. /\ Stocked(r) /\ work[r].now = NoItem /\ pc[r] = "buyback" /\ work[r].read /\ k \in Item
        /\ UNCHANGED <<status, pc, target, prevOpen>>
    <3>1. work[r] # NoWork
      BY NothingToDo, <2>1
    <3> QED BY <1>a, <2>1, <3>1, FieldsOfWork DEF WorkInv, NextItem, vars, InventoryTyped
  <2> DEFINE i == k.line
  <2>3. i \in Rows(prevOpen[r]) /\ k.units = Remaining(i)
    BY <2>1, <2>2 DEF Stocked
  <2>4. PICK old \in Line : old = lines[i]
    BY <2>3, DomainOfLines DEF Rows, InventoryTyped, LinesTyped
  <2> DEFINE new == [old EXCEPT !.sellBooked = old.sellBooked + k.units]
  <2>5. /\ new \in Line /\ new.sold = old.sold /\ new.bought = old.bought /\ new.priced = old.priced
        /\ new.cycle = old.cycle /\ new.traded = old.traded /\ new.sellBooked = old.sellBooked + k.units
    BY <2>2 DEF Line, Item
  <2> HIDE DEF new
  <2>6. lines' = [lines EXCEPT ![i] = new]
    BY <2>1, <2>4 DEF new
  <2>7. i \in DOMAIN lines /\ old.sold <= old.bought /\ old.sold <= old.traded + old.sellBooked
    BY <2>3, <2>4 DEF NoOversell, Rows
  <2>8. /\ DOMAIN lines' = DOMAIN lines /\ lines'[i] = new /\ \A j \in DOMAIN lines : j # i => lines'[j] = lines[j]
    BY <2>5, <2>6, <2>7, LineUpdated DEF InventoryTyped, LinesTyped
  <2>9. NoOversell'
    <3>1. new.sold <= new.bought /\ new.sold <= new.traded + new.sellBooked
      BY <2>2, <2>4, <2>5, <2>7 DEF Line, Item
    <3> QED BY <2>5, <2>6, <2>7, <3>1, OversellKept
  <2>10. \A j \in DOMAIN lines : /\ lines'[j].cycle = lines[j].cycle /\ lines'[j].sold = lines[j].sold
                                 /\ lines'[j].bought = lines[j].bought /\ lines'[j].priced = lines[j].priced
    BY <2>4, <2>5, <2>8
  <2>11. StaysSoldOut'
    BY <2>2, <2>8, <2>10 DEF StaysSoldOut, SoldOut, Rows
  <2>12. work'[r].read /\ work'[r].todo = work[r].todo \ {k} /\ work'[r].now = k
    <3>1. PICK w \in Works : w = work[r]
      BY FieldsOfWork DEF InventoryTyped
    <3>2. work'[r] = [w EXCEPT !.todo = w.todo \ {k}, !.now = k]
      BY <2>1, <3>1 DEF InventoryTyped, WorkTyped
    <3> QED BY <2>2, <3>1, <3>2 DEF Works
  <2>13. \A l \in work[r].todo \ {k} :
             l.line \in Rows(prevOpen[r]) /\ l.units = Remaining(l.line) /\ l.line # i
    <3>1. \A l \in work[r].todo : l \in Item
      BY FieldsOfWork DEF InventoryTyped
    <3>2. \A l \in work[r].todo : l.line \in Rows(prevOpen[r]) /\ l.units = Remaining(l.line)
      BY <2>2 DEF Stocked
    <3>3. \A l \in Item : l.line = k.line /\ l.units = k.units => l = k
      BY <2>2 DEF Item
    <3> QED BY <2>3, <3>1, <3>2, <3>3
  <2>14. \A j \in Rows(prevOpen[r]) : SoldAll(j) \/ j = i \/ \E l \in work[r].todo \ {k} : l.line = j
    <3>1. NoItem.line = 0 /\ \A j \in Rows(prevOpen[r]) : j # 0
      BY DomainOfLines DEF Rows, InventoryTyped, LinesTyped, NoItem
    <3> QED BY <2>2, <3>1 DEF Stocked
  <2>15. lines'[i].sold + k.units <= lines'[i].traded + lines'[i].sellBooked
    BY <2>2, <2>4, <2>5, <2>7, <2>8 DEF Line, Item
  <2>16. \A j \in DOMAIN lines : Remaining(j)' = Remaining(j) /\ (SoldAll(j) => SoldAll(j)')
    BY <2>10 DEF Remaining, SoldAll
  <2>17. Rows(prevOpen[r])' = Rows(prevOpen[r])
    BY <2>2, <2>8, <2>10 DEF Rows
  <2>18. Rows(prevOpen[r]) \subseteq DOMAIN lines
    BY DEF Rows
  <2>19. Stocked(r)'
    BY <2>3, <2>12, <2>13, <2>14, <2>15, <2>16, <2>17, <2>18 DEF Stocked, Remaining
  <2>20. WorkInv(r)'
    BY <2>2, <2>12, <2>19 DEF WorkInv
  <2> QED BY <2>9, <2>11, <2>20 DEF Serial
<1>11. ASSUME NEW r \in Request, MarkSold(r) PROVE SoldInv'
  <2> DEFINE k == work[r].now
             i == k.line
  <2>1. /\ pc[r] = "buyback" /\ k # NoItem /\ lines' = [lines EXCEPT ![i].sold = @ + k.units]
        /\ work' = [work EXCEPT ![r].now = NoItem] /\ UNCHANGED <<status, pc, target, prevOpen>>
    BY <1>11 DEF MarkSold, vars
  <2>2. /\ Stocked(r) /\ work[r].read /\ k \in Item
        /\ i \in Rows(prevOpen[r]) /\ k.units = Remaining(i)
        /\ lines[i].sold + k.units <= lines[i].traded + lines[i].sellBooked
    <3>1. work[r] # NoWork
      BY NothingToDo, <2>1
    <3>2. Stocked(r) /\ work[r].read
      BY <1>a, <2>1, <3>1 DEF WorkInv
    <3> QED BY <2>1, <3>2, FieldsOfWork DEF Stocked, InventoryTyped
  <2>3. k.units \in Nat
    BY <2>2 DEF Item
  <2> HIDE DEF k
  <2>4. PICK old \in Line : old = lines[i]
    BY <2>2, DomainOfLines DEF Rows, InventoryTyped, LinesTyped
  <2> DEFINE new == [old EXCEPT !.sold = old.sold + k.units]
  <2>5. /\ new \in Line /\ new.sold = old.sold + k.units /\ new.bought = old.bought /\ new.priced = old.priced
        /\ new.cycle = old.cycle /\ new.traded = old.traded /\ new.sellBooked = old.sellBooked
    BY <2>3 DEF Line
  <2> HIDE DEF new
  <2>6. lines' = [lines EXCEPT ![i] = new]
    BY <2>1, <2>4 DEF new
  <2>7. i \in DOMAIN lines /\ k.units = old.bought - old.sold
    BY <2>2, <2>4 DEF Rows, Remaining
  <2>8. /\ DOMAIN lines' = DOMAIN lines /\ lines'[i] = new /\ \A j \in DOMAIN lines : j # i => lines'[j] = lines[j]
    BY <2>5, <2>6, <2>7, LineUpdated DEF InventoryTyped, LinesTyped
  <2>9. new.sold = new.bought
    BY <2>4, <2>5, <2>7 DEF Line
  <2>10. NoOversell'
    <3>1. new.sold <= new.bought /\ new.sold <= new.traded + new.sellBooked
      <4>1. old.sold + k.units <= old.traded + old.sellBooked
        BY <2>2, <2>4
      <4> QED BY <2>5, <2>9, <4>1 DEF Line
    <3> QED BY <2>5, <2>6, <2>7, <3>1, OversellKept
  <2>11. \A j \in DOMAIN lines : /\ lines'[j].cycle = lines[j].cycle
                                 /\ SoldAll(j) \/ j = i => SoldAll(j)'
    BY <2>4, <2>5, <2>8, <2>9 DEF SoldAll
  <2>12. StaysSoldOut'
    BY <2>1, <2>8, <2>11 DEF StaysSoldOut, SoldOut, Rows, SoldAll
  <2>13. work'[r].read /\ work'[r].todo = work[r].todo /\ work'[r].now = NoItem
    <3>1. PICK w \in Works : w = work[r]
      BY FieldsOfWork DEF InventoryTyped
    <3>2. work'[r] = [w EXCEPT !.now = NoItem]
      BY <2>1, <3>1 DEF InventoryTyped, WorkTyped
    <3> QED BY <2>2, <3>1, <3>2 DEF Works
  <2>14. \A l \in work[r].todo :
             l.line \in Rows(prevOpen[r]) /\ l.units = Remaining(l.line) /\ l.line # i /\ l.line # 0
    <3>1. \A l \in work[r].todo : l \in Item /\ l.line # 0
      BY FieldsOfWork DEF InventoryTyped
    <3> QED BY <2>2, <3>1 DEF Stocked, k
  <2>15. \A j \in Rows(prevOpen[r]) : SoldAll(j) \/ j = i \/ \E l \in work[r].todo : l.line = j
    BY <2>2 DEF Stocked, k
  <2>16. \A j \in DOMAIN lines : j # i => Remaining(j)' = Remaining(j)
    BY <2>8 DEF Remaining
  <2>17. Rows(prevOpen[r])' = Rows(prevOpen[r])
    BY <2>1, <2>8, <2>11 DEF Rows
  <2>18. Rows(prevOpen[r]) \subseteq DOMAIN lines
    BY DEF Rows
  <2>19. Stocked(r)'
    <3>1. NoItem.line = 0
      BY DEF NoItem
    <3> QED BY <2>11, <2>13, <2>14, <2>15, <2>16, <2>17, <2>18, <3>1 DEF Stocked, Remaining
  <2>20. WorkInv(r)'
    BY <2>1, <2>13, <2>19 DEF WorkInv
  <2> QED BY <2>10, <2>12, <2>20 DEF Serial
<1>12. ASSUME NEW r \in Request, BuybackLines(r) PROVE SoldInv'
  <2>1. /\ LoopDone(r) /\ pc[r] = "buyback" /\ pc'[r] \in {"close", "transition"} /\ work'[r] = NoWork
        /\ UNCHANGED <<status, lines, target, prevOpen>>
    BY <1>12, <1>b DEF BuybackLines, Buyback, Advance, TypeOK, InventoryTyped, WorkTyped
  <2>2. NoOversell' /\ StaysSoldOut'
    BY <2>1 DEF NoOversell, StaysSoldOut, SoldOut, Rows
  <2>3. \A i \in Rows(prevOpen[r]) : SoldAll(i)
    <3>1. Stocked(r) /\ NoItem.line = 0 /\ \A i \in Rows(prevOpen[r]) : i # 0
      BY <1>a, <2>1, DomainOfLines DEF Rows, InventoryTyped, LinesTyped, NoItem, WorkInv
    <3> QED BY <2>1, <3>1 DEF Stocked, LoopDone
  <2>4. Settled(r)' = NoCycle \/ \A i \in Rows(Settled(r))' : SoldAll(i)'
    BY <2>1, <2>3 DEF Settled, Rows, SoldAll
  <2>5. WorkInv(r)'
    BY <2>1, <2>4, NothingInHand
  <2> QED BY <2>2, <2>5 DEF Serial
<1>13. ASSUME NEW r \in Request, ReadRollovers(r) PROVE SoldInv'
  <2>1. UNCHANGED <<status, lines, pc>> /\ pc[r] = "purchase"
        /\ work'[r] = [read |-> TRUE, todo |-> PurchaseTodo(r), now |-> NoItem]
    BY <1>13 DEF ReadRollovers, vars, InventoryTyped, WorkTyped
  <2>2. NoOversell' /\ StaysSoldOut'
    BY <2>1 DEF NoOversell, StaysSoldOut, SoldOut, Rows
  <2>3. WorkInv(r)'
    BY <2>1 DEF WorkInv
  <2> QED BY <2>2, <2>3 DEF Serial
<1>14. ASSUME NEW r \in Request, BookPurchase(r) PROVE SoldInv'
  <2>1. PICK k \in work[r].todo :
            /\ NextItem(r, "purchase", k)
            /\ lines' = [lines EXCEPT ![k.line].buyBooked = @ + k.units]
            /\ work' = [work EXCEPT ![r].todo = @ \ {k}]
            /\ UNCHANGED <<vars, cand>>
    BY <1>14 DEF BookPurchase
  <2>2. pc[r] = "purchase" /\ UNCHANGED <<status, pc>> /\ work[r].read
    <3>1. work[r] # NoWork
      BY NothingToDo, <2>1
    <3> QED BY <1>a, <2>1, <3>1 DEF WorkInv, NextItem, vars
  <2>3. work'[r].read
    <3>1. PICK w \in Works : w = work[r]
      BY FieldsOfWork DEF InventoryTyped
    <3>2. work'[r] = [w EXCEPT !.todo = w.todo \ {k}]
      BY <2>1, <3>1 DEF InventoryTyped, WorkTyped
    <3> QED BY <2>2, <3>1, <3>2 DEF Works
  <2>4. WorkInv(r)'
    BY <2>2, <2>3 DEF WorkInv
  <2>5. /\ DOMAIN lines' = DOMAIN lines
        /\ \A j \in DOMAIN lines : /\ lines'[j].cycle = lines[j].cycle /\ lines'[j].sold = lines[j].sold
                                   /\ lines'[j].bought = lines[j].bought /\ lines'[j].priced = lines[j].priced
                                   /\ lines'[j].traded = lines[j].traded
                                   /\ lines'[j].sellBooked = lines[j].sellBooked
    BY <2>1, BuyBooked, FieldsOfWork DEF InventoryTyped
  <2>6. NoOversell' /\ StaysSoldOut'
    BY <2>2, <2>5 DEF NoOversell, StaysSoldOut, SoldOut, Rows
  <2> QED BY <2>4, <2>6 DEF Serial
<1>15. ASSUME NEW r \in Request, PurchaseLines(r) \/ FailLines(r) PROVE SoldInv'
  <2>1. UNCHANGED <<status, lines>> /\ pc'[r] = "idle" /\ work'[r] = NoWork
    BY <1>15, <1>b DEF PurchaseLines, Purchase, FailLines, Fail, End, TypeOK, InventoryTyped, WorkTyped
  <2>2. NoOversell' /\ StaysSoldOut'
    BY <2>1 DEF NoOversell, StaysSoldOut, SoldOut, Rows
  <2>3. WorkInv(r)'
    BY <2>1, NothingInHand
  <2> QED BY <2>2, <2>3 DEF Serial
<1>16. ASSUME NEW r \in Request, ReadOpenCycle(r) \/ WalletImport(r) \/ Payouts(r) \/ Rollover(r),
              UNCHANGED inventory
       PROVE  SoldInv'
  <2>1. UNCHANGED <<status, lines, work>> /\ pc[r] \notin {"buyback", "purchase"}
        /\ pc'[r] \notin {"transition", "commit", "close"}
    BY <1>16, <1>b DEF ReadOpenCycle, WalletImport, Payouts, Rollover, Advance, End, TypeOK, inventory
  <2>2. NoOversell' /\ StaysSoldOut'
    BY <2>1 DEF NoOversell, StaysSoldOut, SoldOut, Rows
  <2>3. WorkInv(r)'
    BY <1>a, <2>1, NothingInHand DEF WorkInv
  <2> QED BY <2>2, <2>3 DEF Serial
<1>17. ASSUME NEW r \in Request, CloseCycle(r), UNCHANGED inventory PROVE SoldInv'
  <2>1. /\ pc[r] = "close" /\ pc'[r] = "payouts" /\ UNCHANGED <<lines, work, target, prevOpen>>
        /\ target[r] = NoCycle /\ Settled(r) # NoCycle
        /\ status' = [status EXCEPT ![prevOpen[r]] = "COMPLETED"]
    BY <1>17, <1>a, <1>b DEF CloseCycle, Advance, ReportAt, inventory, TypeOK
  <2>2. \A i \in Rows(prevOpen[r]) : SoldAll(i)
    BY <1>a, <2>1 DEF WorkInv, Settled
  <2>3. NoOversell' /\ StaysSoldOut'
    BY <1>b, <2>1, <2>2 DEF NoOversell, StaysSoldOut, SoldOut, Rows, SoldAll, TypeOK
  <2>4. WorkInv(r)'
    BY <1>a, <2>1, NothingInHand DEF WorkInv
  <2> QED BY <2>3, <2>4 DEF Serial
<1>18. CASE CrashLines
  <2>1. UNCHANGED <<status, lines>> /\ \A r \in Request : work'[r] = NoWork /\ pc'[r] = "idle"
    BY <1>18 DEF CrashLines, Crash
  <2>2. NoOversell' /\ StaysSoldOut'
    BY <2>1 DEF NoOversell, StaysSoldOut, SoldOut, Rows
  <2>3. \A r \in Request : WorkInv(r)'
    BY <2>1, NothingInHand
  <2> QED BY <2>2, <2>3
<1> QED
  BY <1>1, <1>2, <1>3, <1>4, <1>5, <1>6, <1>7, <1>8, <1>9, <1>10, <1>11, <1>12, <1>13, <1>14, <1>15,
     <1>16, <1>17, <1>18
  DEF InventoryNext

LEMMA SoldInvariant ==
    ASSUME Serial, JobWaits PROVE InventorySpec => [](InventoryTyped /\ ReportInv /\ SerialInv /\ SoldInv)
<1>1. InventoryInit => SoldInv
  <2> SUFFICES ASSUME InventoryInit PROVE SoldInv
    OBVIOUS
  <2>1. DOMAIN lines = {}
    BY EmptySeq DEF InventoryInit
  <2>2. \A r \in Request : work[r] = NoWork /\ pc[r] = "idle"
    BY DEF InventoryInit, Init
  <2>3. NoOversell /\ StaysSoldOut
    BY <2>1 DEF NoOversell, StaysSoldOut, SoldOut, Rows
  <2>4. \A r \in Request : WorkInv(r)
    BY <2>2, NothingToDo DEF WorkInv
  <2> QED BY <2>3, <2>4 DEF SoldInv
<1>2. InventoryTyped /\ ReportInv /\ SerialInv /\ SoldInv /\ TypeOK' /\ [InventoryNext]_allVars => SoldInv'
  <2>1. SoldInv /\ UNCHANGED allVars => SoldInv'
    BY ViewKept DEF allVars, vars, inventory, SoldInv, NoOversell, StaysSoldOut, SoldOut, Rows
  <2> QED BY <2>1, SoldStep, Serial, JobWaits
<1>3. InventoryTyped => TypeOK
  BY DEF InventoryTyped
<1>4. Spec => [](TypeOK /\ ReportInv /\ SerialInv)
  BY Serial, SerialInvariant
<1> QED
  BY <1>1, <1>2, <1>3, <1>4, InventoryInvariant, LifecycleBelow, PTL DEF InventorySpec

\* No line is ever oversold and every sale is backed by an allocation:
\* NoOversell, for every number of lines and units, whatever fails or dies
\* between the synthetic sale and the update of the line.
THEOREM LinesNeverOversold == ASSUME Serial, JobWaits PROVE InventorySpec => []NoOversell
  BY SoldInvariant, PTL DEF SoldInv

\* A COMPLETED Cycle keeps no stock that has a cost: SoldOut, also when a
\* COMPLETED Cycle is opened again.
THEOREM CompletedIsSoldOut ==
    ASSUME Serial, JobWaits, NotReallocated PROVE InventorySpec => []SoldOut
<1>1. SoldInv => SoldOut
  BY NotReallocated DEF SoldInv, StaysSoldOut
<1> QED BY <1>1, SoldInvariant, PTL

--------------------------------------------------------------------------------
(* What is carried over, for one request at a time that opens no COMPLETED *)
(* Cycle.  Allocations, for a Cycle of any status, may run at any time.    *)

\* A row and where its stock comes from.  A row that carries stock is in a Cycle
\* that was opened with it; the row it comes from is in a Cycle closed with that.
Carried(i) ==
    /\ lines[i].rollover => /\ lines[i].cycle \in Cycle /\ status[lines[i].cycle] \in {"OPEN", "COMPLETED"}
                            /\ lines[i].planned = lines[i].bought /\ lines[i].from # lines[i].cycle
    /\ ~lines[i].rollover => lines[i].buyBooked = 0 /\ lines[i].fromLine = 0
    /\ lines[i].buyBooked \in {0, lines[i].bought}
    /\ lines[i].fromLine # 0 =>
          /\ lines[i].from \in Cycle /\ status[lines[i].from] = "COMPLETED"
          /\ lines[i].fromLine \in DOMAIN lines /\ lines[lines[i].fromLine].cycle = lines[i].from

OneFromEach == \A i, j \in DOMAIN lines : lines[i].fromLine # 0 /\ lines[i].fromLine = lines[j].fromLine => i = j

CarriedInv == OneFromEach /\ \A i \in DOMAIN lines : Carried(i)

\* The candidates a request holds are rows of the Cycle it settles, each once.
CandInv(r) ==
    /\ cand[r] # {} => pc[r] \in {"import", "allocate", "buyback", "transition", "commit"} /\ target[r] # NoCycle
    /\ \A k \in cand[r] : k.line = 0 \/ (Settled(r) # NoCycle /\ k.line \in Rows(Settled(r)))
    /\ \A k, l \in cand[r] : k.line # 0 /\ k.line = l.line => k = l

HandInv(r) ==
    /\ pc[r] \notin {"buyback", "purchase"} => work[r] = NoWork
    /\ ~work[r].read => work[r] = NoWork

Paid(i) == lines[i].rollover /\ lines[i].priced => lines[i].buyBooked = lines[i].bought

\* After the commit the rows of a Cycle that was not Open before are those this
\* request put there.
OpenedRows(r) ==
    pc[r] \in {"payouts", "rollover", "purchase"} /\ target[r] \notin {NoCycle, prevOpen[r]} =>
        /\ \A i \in Rows(target[r]) : lines[i].rollover => lines[i].from = Settled(r)
        /\ ~work[r].read => \A i \in Rows(target[r]) : lines[i].buyBooked = 0

\* The loop of the purchase has the rows that are not paid for yet; none, when the
\* target was Open before.
ToPay(r) ==
    pc[r] = "purchase" /\ work[r].read =>
        /\ work[r].now = NoItem
        /\ \A k \in work[r].todo :
              /\ k.line \in Rows(target[r]) /\ lines[k.line].rollover
              /\ lines[k.line].buyBooked = 0 /\ k.units = lines[k.line].bought
        /\ prevOpen[r] # target[r] =>
              \A i \in Rows(target[r]) : Paid(i) \/ \E k \in work[r].todo : k.line = i

PaidFor(r) ==
    outcome[r] = "returned" /\ target[r] \notin {NoCycle, prevOpen[r]} => \A i \in Rows(target[r]) : Paid(i)

PurchaseInv(r) == HandInv(r) /\ OpenedRows(r) /\ ToPay(r) /\ PaidFor(r)

MoveInv == CarriedInv /\ \A r \in Request : CandInv(r) /\ PurchaseInv(r)

\* What no update of a row but the commit and the purchase touches.
RowsKept ==
    /\ DOMAIN lines \subseteq DOMAIN lines'
    /\ \A j \in DOMAIN lines :
          /\ lines'[j].cycle = lines[j].cycle /\ lines'[j].rollover = lines[j].rollover
          /\ lines'[j].from = lines[j].from /\ lines'[j].fromLine = lines[j].fromLine
          /\ lines[j].buyBooked = lines'[j].buyBooked
          /\ lines[j].rollover => /\ lines'[j].planned = lines[j].planned /\ lines'[j].bought = lines[j].bought
                                  /\ lines'[j].priced = lines[j].priced
    /\ \A j \in DOMAIN lines' \ DOMAIN lines :
          ~lines'[j].rollover /\ lines'[j].buyBooked = 0 /\ lines'[j].fromLine = 0

LEMMA SameRowsKept == UNCHANGED lines => RowsKept
  BY DEF RowsKept

LEMMA NewRowKept ==
    ASSUME InventoryTyped, NEW c \in Cycle, CreateLine(c)
    PROVE  RowsKept
  BY LineAppended, EmptyLineTyped DEF CreateLine, InventoryTyped, LinesTyped, RowsKept

\* A rollover row is planned with what it has: the allocation adds nothing to it.
LEMMA AllocationKeepsRows ==
    ASSUME InventoryTyped, CarriedInv, NEW c, AllocateLine(c)
    PROVE  RowsKept
<1>1. PICK i \in Rows(c) : \E l \in Line : IsAllocated(lines[i], l) /\ lines' = [lines EXCEPT ![i] = l]
  BY AllocationShape DEF InventoryTyped, LinesTyped
<1>2. PICK l \in Line : IsAllocated(lines[i], l) /\ lines' = [lines EXCEPT ![i] = l]
  BY <1>1
<1>3. i \in DOMAIN lines /\ lines[i] \in Line /\ lines \in Seq(Line)
  BY DomainOfLines DEF InventoryTyped, LinesTyped, Rows
<1>4. /\ DOMAIN lines' = DOMAIN lines /\ lines'[i] = l
      /\ \A j \in DOMAIN lines : j # i => lines'[j] = lines[j]
  BY <1>2, <1>3, LineUpdated
<1>5. PICK old \in Line : old = lines[i]
  BY <1>3
<1>6. ASSUME old.rollover PROVE l.bought = old.bought /\ l.priced = old.priced
  <2>1. old.planned = old.bought
    BY <1>3, <1>5, <1>6 DEF CarriedInv, Carried
  <2>2. l.bought \in old.bought..old.planned /\ (l.priced <=> old.priced \/ l.bought > old.bought)
    BY <1>2, <1>5 DEF IsAllocated
  <2>3. l.bought = old.bought
    BY <2>1, <2>2 DEF Line
  <2>4. ~(l.bought > old.bought)
    BY <2>3 DEF Line
  <2>5. l.priced <=> old.priced
    BY <2>2, <2>4
  <2>6. l.priced \in BOOLEAN /\ old.priced \in BOOLEAN
    BY DEF Line
  <2> QED BY <2>3, <2>5, <2>6
<1>7. /\ l.cycle = old.cycle /\ l.rollover = old.rollover /\ l.from = old.from /\ l.fromLine = old.fromLine
      /\ l.planned = old.planned /\ l.buyBooked = old.buyBooked
  BY <1>2, <1>5 DEF IsAllocated
<1> QED BY <1>4, <1>5, <1>6, <1>7 DEF RowsKept

\* The same of a counter of the buyback.
LEMMA BuybackKeepsRows ==
    ASSUME LinesTyped, NEW i, NEW n,
           \/ lines' = [lines EXCEPT ![i].sellBooked = @ + n]
           \/ lines' = [lines EXCEPT ![i].sold = @ + n]
    PROVE  RowsKept
<1>1. DOMAIN lines' = DOMAIN lines
  OBVIOUS
<1>2. ASSUME NEW j \in DOMAIN lines
      PROVE  /\ lines'[j].cycle = lines[j].cycle /\ lines'[j].rollover = lines[j].rollover
             /\ lines'[j].from = lines[j].from /\ lines'[j].fromLine = lines[j].fromLine
             /\ lines'[j].buyBooked = lines[j].buyBooked /\ lines'[j].planned = lines[j].planned
             /\ lines'[j].bought = lines[j].bought /\ lines'[j].priced = lines[j].priced
  <2>1. PICK old \in Line : old = lines[j]
    BY DomainOfLines DEF LinesTyped
  <2>2. \/ lines'[j] = old
        \/ lines'[j] = [old EXCEPT !.sellBooked = old.sellBooked + n]
        \/ lines'[j] = [old EXCEPT !.sold = old.sold + n]
    BY <2>1
  <2> QED BY <2>1, <2>2 DEF Line
<1> QED BY <1>1, <1>2 DEF RowsKept

\* An OPEN or COMPLETED Cycle stays one, a COMPLETED one for good.
OnlyForward ==
    \A c \in Cycle : /\ status[c] \in {"OPEN", "COMPLETED"} => status'[c] \in {"OPEN", "COMPLETED"}
                     /\ status[c] = "COMPLETED" => status'[c] = "COMPLETED"

LEMMA CarriedKept ==
    ASSUME InventoryTyped, CarriedInv, RowsKept, OnlyForward
    PROVE  CarriedInv'
<1>1. OneFromEach'
  BY DEF CarriedInv, OneFromEach, RowsKept
<1>2. ASSUME NEW i \in DOMAIN lines PROVE Carried(i)'
  <2>1. Carried(i)
    BY DEF CarriedInv
  <2>2. /\ lines'[i].cycle = lines[i].cycle /\ lines'[i].rollover = lines[i].rollover
        /\ lines'[i].from = lines[i].from /\ lines'[i].fromLine = lines[i].fromLine
        /\ lines[i].buyBooked = lines'[i].buyBooked
        /\ lines[i].rollover => lines'[i].planned = lines[i].planned /\ lines'[i].bought = lines[i].bought
    BY DEF RowsKept
  <2>3. lines[i].fromLine \in DOMAIN lines =>
            /\ lines[i].fromLine \in DOMAIN lines'
            /\ lines'[lines[i].fromLine].cycle = lines[lines[i].fromLine].cycle
    BY DEF RowsKept
  <2>4. /\ lines[i].cycle \in Cycle /\ status[lines[i].cycle] \in {"OPEN", "COMPLETED"} =>
              status'[lines[i].cycle] \in {"OPEN", "COMPLETED"}
        /\ lines[i].from \in Cycle /\ status[lines[i].from] = "COMPLETED" => status'[lines[i].from] = "COMPLETED"
    BY DEF OnlyForward
  <2> QED BY <2>1, <2>2, <2>3, <2>4 DEF Carried
<1>3. ASSUME NEW i \in DOMAIN lines' \ DOMAIN lines PROVE Carried(i)'
  BY <1>3 DEF RowsKept, Carried
<1> QED BY <1>1, <1>2, <1>3 DEF CarriedInv

\* Nothing but the rows changes for q.
LEMMA RequestKept ==
    ASSUME InventoryTyped, CarriedInv, RowsKept, NEW q \in Request, CandInv(q), PurchaseInv(q), target[q] \in Cycle \cup {NoCycle},
           UNCHANGED <<pc[q], target[q], prevOpen[q], outcome[q], cand[q], work[q]>>
    PROVE  CandInv(q)' /\ PurchaseInv(q)'
<1>1. Settled(q)' = Settled(q)
  BY DEF Settled
<1>2. ASSUME NEW c PROVE Rows(c) \subseteq Rows(c)'
  BY DEF Rows, RowsKept
<1>3. ASSUME NEW c, NEW i \in Rows(c)'
      PROVE  \/ i \in Rows(c) /\ i \in DOMAIN lines
             \/ ~lines'[i].rollover /\ lines'[i].buyBooked = 0
  BY DEF Rows, RowsKept
<1>4. \A i \in DOMAIN lines : Paid(i) => Paid(i)'
  BY DEF Paid, RowsKept
<1>5. CandInv(q)'
  BY <1>1, <1>2 DEF CandInv
<1>6. HandInv(q)'
  BY DEF PurchaseInv, HandInv
<1>7. OpenedRows(q)'
  BY <1>1, <1>3 DEF PurchaseInv, OpenedRows, RowsKept
<1>8. ToPay(q)'
  <2> SUFFICES ASSUME pc[q] = "purchase", work[q].read PROVE ToPay(q)'
    BY DEF ToPay
  <2>1. \A k \in work[q].todo :
              /\ k.line \in Rows(target[q])' /\ lines'[k.line].rollover
              /\ lines'[k.line].buyBooked = 0 /\ k.units = lines'[k.line].bought
    BY <1>2 DEF PurchaseInv, ToPay, Rows, RowsKept
  <2>2. prevOpen[q] # target[q] =>
            \A i \in Rows(target[q])' : Paid(i)' \/ \E k \in work[q].todo : k.line = i
    BY <1>3, <1>4 DEF PurchaseInv, ToPay, Paid
  <2> QED BY <2>1, <2>2 DEF PurchaseInv, ToPay
<1>9. PaidFor(q)'
  BY <1>3, <1>4 DEF PurchaseInv, PaidFor, Paid
<1> QED BY <1>5, <1>6, <1>7, <1>8, <1>9 DEF PurchaseInv

\* A request outside its purchase that has returned nothing.
LEMMA NothingToPay ==
    ASSUME NEW q \in Request, HandInv(q)', pc'[q] \notin {"payouts", "rollover", "purchase"},
           outcome'[q] # "returned" \/ target'[q] = NoCycle
    PROVE  PurchaseInv(q)'
  BY DEF PurchaseInv, OpenedRows, ToPay, PaidFor

LEMMA MoveStep ==
    ASSUME Serial, NotReopened, InventoryTyped, ReportInv, SerialInv, RowsInv, MoveInv, TypeOK', InventoryNext
    PROVE  MoveInv'
<1>a. ASSUME NEW r \in Request
      PROVE  /\ ReportAt(r) /\ ReadIsFresh(r) /\ RowsOf(r) /\ CandInv(r) /\ PurchaseInv(r) /\ HandInv(r)
             /\ target[r] \in Cycle \cup {NoCycle} /\ prevOpen[r] \in Cycle \cup {NoCycle}
             /\ pc[r] # "idle" => outcome[r] = "none"
  BY DEF ReportInv, ReportAt, SerialInv, RowsInv, MoveInv, PurchaseInv, InventoryTyped, TypeOK
<1>b. NoCycle \notin Cycle /\ TypeOK
  BY NoCycleAssumption DEF InventoryTyped
<1>c. CarriedInv
  BY DEF MoveInv
<1>1. ASSUME NEW c \in Cycle, CreateLine(c) \/ (PlanCycle(c) /\ UNCHANGED inventory)
      PROVE  MoveInv'
  <2>1. UNCHANGED <<pc, target, prevOpen, outcome, cand, work>>
    BY <1>1 DEF CreateLine, PlanCycle, vars, local, inventory
  <2>2. OnlyForward
    BY <1>1, <1>b DEF CreateLine, PlanCycle, vars, OnlyForward, TypeOK
  <2>3. RowsKept
    BY <1>1, NewRowKept, SameRowsKept DEF inventory
  <2> QED BY <1>a, <1>c, <2>1, <2>2, <2>3, CarriedKept, RequestKept DEF MoveInv
<1>2. ASSUME \/ HourlyJob
             \/ \E c \in Cycle : AllocateTransactions(c)
      PROVE  MoveInv'
  <2>1. PICK c \in Cycle : AllocateLine(c) /\ UNCHANGED <<vars, cand, work>>
    BY <1>2 DEF HourlyJob, AllocateTransactions
  <2>2. UNCHANGED <<status, pc, target, prevOpen, outcome, cand, work>>
    BY <2>1 DEF vars
  <2>3. OnlyForward
    BY <2>2 DEF OnlyForward
  <2>4. RowsKept
    BY <1>c, <2>1, AllocationKeepsRows
  <2> QED BY <1>a, <1>c, <2>2, <2>3, <2>4, CarriedKept, RequestKept DEF MoveInv
<1>3. ASSUME NEW r \in Request, NEW c \in Cycle, BeginLines(r, c) PROVE MoveInv'
  <2>1. /\ UNCHANGED <<status, lines, work, cand>> /\ pc[r] = "idle" /\ pc'[r] \in {"discard", "readOpen", "import"}
        /\ outcome'[r] = "none"
    BY <1>3, <1>b DEF BeginLines, BeginDelete, BeginOpen, BeginSettle, Start, inventory, TypeOK
  <2>2. CarriedInv'
    BY <1>c, <2>1, SameRowsKept, CarriedKept DEF OnlyForward
  <2>3. cand[r] = {}
    BY <1>a, <2>1 DEF CandInv
  <2>4. CandInv(r)'
    BY <2>1, <2>3 DEF CandInv
  <2>5. HandInv(r)'
    BY <1>a, <2>1 DEF HandInv
  <2>6. PurchaseInv(r)'
    BY <2>1, <2>5, NothingToPay
  <2> QED BY <2>2, <2>4, <2>6 DEF MoveInv, Serial
<1>4. ASSUME NEW r \in Request, DeleteLines(r) PROVE MoveInv'
  <2> DEFINE gone(i) == Exists(target[r]) /\ lines[i].cycle = target[r]
  <2>1. lines' = [i \in DOMAIN lines |-> IF gone(i) THEN [lines[i] EXCEPT !.cycle = NoCycle] ELSE lines[i]]
    BY <1>4 DEF DeleteLines
  <2>2. target[r] \in Cycle /\ status[target[r]] = "PLANNED" /\ pc[r] = "discard"
    BY <1>4, <1>a, <1>b DEF DeleteLines, DeleteCycle, RowsOf
  <2>3. /\ status' = [status EXCEPT ![target[r]] = "deleted"] /\ pc'[r] = "idle"
        /\ UNCHANGED <<target, prevOpen, cand, work>>
    BY <1>4, <1>b, <2>2 DEF DeleteLines, DeleteCycle, End, Exists, TypeOK
  <2>4. \A i \in DOMAIN lines : gone(i) <=> lines[i].cycle = target[r]
    BY <2>2 DEF Exists
  <2> HIDE DEF gone
  <2>5. ASSUME NEW i \in DOMAIN lines
        PROVE  /\ lines'[i].cycle = IF gone(i) THEN NoCycle ELSE lines[i].cycle
               /\ lines'[i].rollover = lines[i].rollover
               /\ lines'[i].from = lines[i].from /\ lines'[i].fromLine = lines[i].fromLine
               /\ lines'[i].buyBooked = lines[i].buyBooked /\ lines'[i].planned = lines[i].planned
               /\ lines'[i].bought = lines[i].bought /\ lines'[i].priced = lines[i].priced
    <3>1. PICK old \in Line : old = lines[i]
      BY DomainOfLines DEF InventoryTyped, LinesTyped
    <3>2. lines'[i] = IF gone(i) THEN [old EXCEPT !.cycle = NoCycle] ELSE old
      BY <2>1, <3>1
    <3> QED BY <3>1, <3>2 DEF Line
  <2>6. DOMAIN lines' = DOMAIN lines
    BY <2>1
  <2>7. ASSUME NEW i \in DOMAIN lines PROVE Carried(i)'
    <3>1. Carried(i)
      BY <1>c DEF CarriedInv
    <3>2. lines[i].rollover => ~gone(i) /\ lines[i].cycle # target[r]
      BY <2>2, <2>4, <3>1 DEF Carried
    <3>3. lines[i].fromLine # 0 =>
              /\ lines[i].from # target[r] /\ lines[i].fromLine \in DOMAIN lines
              /\ ~gone(lines[i].fromLine) /\ lines'[lines[i].fromLine].cycle = lines[i].from
      BY <2>2, <2>4, <2>5, <3>1 DEF Carried
    <3> QED BY <1>b, <2>3, <2>5, <2>6, <3>1, <3>2, <3>3 DEF Carried, TypeOK
  <2>8. CarriedInv'
    BY <1>c, <2>5, <2>6, <2>7 DEF CarriedInv, OneFromEach
  <2>9. cand[r] = {}
    BY <1>a, <2>2 DEF CandInv
  <2>10. CandInv(r)'
    BY <2>3, <2>9 DEF CandInv
  <2>11. HandInv(r)'
    BY <1>a, <2>2, <2>3 DEF HandInv
  <2>12. \A i \in DOMAIN lines' : lines'[i].cycle # target[r]
    BY <1>b, <2>2, <2>4, <2>5, <2>6
  <2>13. PurchaseInv(r)'
    BY <2>3, <2>11, <2>12 DEF PurchaseInv, OpenedRows, ToPay, PaidFor, Rows
  <2> QED BY <2>8, <2>10, <2>13 DEF MoveInv, Serial
<1>5. ASSUME NEW r \in Request, BuildLineCandidates(r) PROVE MoveInv'
  <2>1. /\ UNCHANGED <<status, lines, work, target, prevOpen, outcome>> /\ pc[r] = "candidates"
        /\ pc'[r] \in {"transition", "import"}
    BY <1>5, <1>b DEF BuildLineCandidates, BuildCandidates, Advance, local, TypeOK
  <2>2. CarriedInv'
    BY <1>c, <2>1, SameRowsKept, CarriedKept DEF OnlyForward
  <2>3. PICK jita \in BOOLEAN : \E ks \in IF Settled(r) = NoCycle THEN OrderCandidates(jita)
                                          ELSE {CandidatesFrom(Settled(r), jita)} :
                                    cand' = [cand EXCEPT ![r] = ks]
    BY <1>5 DEF BuildLineCandidates
  <2>4. /\ Settled(r) = NoCycle => cand'[r] \in OrderCandidates(jita)
        /\ Settled(r) # NoCycle => cand'[r] = CandidatesFrom(Settled(r), jita)
    BY <2>3 DEF InventoryTyped, WorkTyped
  <2>5. \A k \in cand'[r] : k.line = 0 \/ (Settled(r) # NoCycle /\ k.line \in Rows(Settled(r)))
    <3>1. \A ks \in OrderCandidates(jita) : \A k \in ks : k.line = 0
      BY DEF OrderCandidates
    <3>2. \A k \in CandidatesFrom(Settled(r), jita) : k.line \in Rows(Settled(r))
      BY DEF CandidatesFrom
    <3> QED BY <2>4, <3>1, <3>2
  <2>6. \A k, l \in cand'[r] : k.line # 0 /\ k.line = l.line => k = l
    <3>1. \A ks \in OrderCandidates(jita) : \A k \in ks : k.line = 0
      BY DEF OrderCandidates
    <3>2. \A k, l \in CandidatesFrom(Settled(r), jita) : k.line = l.line => k = l
      BY DEF CandidatesFrom
    <3> QED BY <2>4, <3>1, <3>2
  <2>7. Rows(Settled(r))' = Rows(Settled(r)) /\ Settled(r)' = Settled(r)
    BY <2>1 DEF Settled, Rows
  <2>8. CandInv(r)'
    <3>1. target[r] # NoCycle
      BY <1>a, <1>b, <2>1 DEF ReportAt
    <3> QED BY <2>1, <2>5, <2>6, <2>7, <3>1 DEF CandInv
  <2>9. HandInv(r)'
    BY <1>a, <2>1 DEF HandInv
  <2>10. PurchaseInv(r)'
    BY <1>a, <2>1, <2>9, NothingToPay
  <2> QED BY <2>2, <2>8, <2>10 DEF MoveInv, Serial
\* From the candidates to the commit, nothing happens to the rows that are carried.
<1>6. ASSUME NEW r \in Request,
             AllocateNext(r) \/ AllocateLines(r) \/ TransitionReadLines(r) \/ ReadStock(r)
             \/ BookSale(r) \/ MarkSold(r) \/ BuybackLines(r) \/ (WalletImport(r) /\ UNCHANGED inventory)
      PROVE  MoveInv'
  <2>1. /\ UNCHANGED <<status, target, prevOpen, outcome, cand>>
        /\ pc[r] \in {"import", "allocate", "buyback", "transition"}
        /\ \/ pc'[r] \in {"allocate", "buyback", "transition", "commit"}
           \/ pc'[r] = "close" /\ target[r] = NoCycle
    BY <1>6, <1>b DEF AllocateNext, AllocateLines, Allocate, TransitionReadLines, TransitionRead, ReadStock, BookSale, MarkSold,
       NextItem, BuybackLines, Buyback, WalletImport, Advance, inventory, vars, TypeOK
  <2>2. RowsKept
    <3>1. CASE AllocateNext(r)
      BY <1>c, <3>1, AllocationKeepsRows DEF AllocateNext
    <3>2. CASE BookSale(r) \/ MarkSold(r)
      <4>1. PICK i, n : \/ lines' = [lines EXCEPT ![i].sellBooked = @ + n]
                        \/ lines' = [lines EXCEPT ![i].sold = @ + n]
        BY <3>2 DEF BookSale, MarkSold
      <4> QED BY <4>1, BuybackKeepsRows DEF InventoryTyped
    <3>3. CASE \/ AllocateLines(r) \/ TransitionReadLines(r) \/ ReadStock(r) \/ BuybackLines(r)
               \/ (WalletImport(r) /\ UNCHANGED inventory)
      BY <3>3, SameRowsKept DEF AllocateLines, TransitionReadLines, ReadStock, BuybackLines, inventory
    <3> QED BY <1>6, <3>1, <3>2, <3>3
  <2>3. CarriedInv'
    BY <1>c, <2>1, <2>2, CarriedKept DEF OnlyForward
  <2>4. CandInv(r)'
    <3>1. \A c : Rows(c) \subseteq Rows(c)'
      BY <2>2 DEF RowsKept, Rows
    <3> QED BY <1>a, <2>1, <3>1 DEF CandInv, Settled
  <2>5. HandInv(r)'
    <3>1. PICK w \in Works : w = work[r]
      BY FieldsOfWork DEF InventoryTyped
    <3>2. CASE \/ AllocateNext(r) \/ AllocateLines(r) \/ TransitionReadLines(r)
               \/ (WalletImport(r) /\ UNCHANGED inventory)
      <4>1. work' = work /\ pc[r] \in {"allocate", "transition", "import"}
        BY <1>b, <3>2 DEF AllocateNext, AllocateLines, Allocate, TransitionReadLines, TransitionRead, WalletImport, Advance, inventory, TypeOK
      <4> QED BY <1>a, <4>1 DEF HandInv
    <3>3. CASE ReadStock(r)
      <4>1. work'[r].read /\ pc'[r] = "buyback"
        BY <3>3 DEF ReadStock, vars, InventoryTyped, WorkTyped
      <4> QED BY <4>1 DEF HandInv
    <3>4. CASE BookSale(r) \/ MarkSold(r)
      <4>1. work[r] # NoWork /\ pc'[r] = "buyback"
        BY <3>4, NothingToDo DEF BookSale, MarkSold, NextItem, vars
      <4>2. w.read
        BY <1>a, <3>1, <4>1 DEF HandInv
      <4>3. \E k : work'[r] = [w EXCEPT !.todo = w.todo \ {k}, !.now = k] \/ work'[r] = [w EXCEPT !.now = NoItem]
        BY <3>1, <3>4 DEF BookSale, MarkSold, InventoryTyped, WorkTyped
      <4>4. work'[r].read
        BY <4>2, <4>3 DEF Works
      <4> QED BY <4>1, <4>4 DEF HandInv
    <3>5. CASE BuybackLines(r)
      <4>1. work'[r] = NoWork
        BY <3>5 DEF BuybackLines, InventoryTyped, WorkTyped
      <4> QED BY <4>1 DEF HandInv
    <3> QED BY <1>6, <3>2, <3>3, <3>4, <3>5
  <2>6. PurchaseInv(r)'
    BY <1>a, <2>1, <2>5, NothingToPay
  <2> QED BY <2>3, <2>4, <2>6 DEF MoveInv, Serial
\* The commit closes the Cycle the candidates come from and opens the one they go to.
<1>7. ASSUME NEW r \in Request, TransitionLines(r) PROVE MoveInv'
  <2>1. /\ pc[r] = "commit" /\ pc'[r] \in {"purchase", "payouts"} /\ target[r] \in Cycle
        /\ UNCHANGED <<target, prevOpen, outcome, work>> /\ cand'[r] = {}
        /\ lines' = lines \o RolloverLines(r) /\ toClose[r] = Settled(r)
        /\ status' = [c \in Cycle |-> IF c = target[r] THEN "OPEN"
                                      ELSE IF c = toClose[r] THEN "COMPLETED" ELSE status[c]]
        /\ status[target[r]] \in {"PLANNED", "OPEN"} /\ Settled(r) # target[r]
        /\ Settled(r) # NoCycle => Settled(r) \in Cycle /\ status[Settled(r)] = "OPEN"
    <3>1. /\ pc[r] = "commit" /\ pc'[r] \in {"purchase", "payouts"}
          /\ UNCHANGED <<target, prevOpen, outcome, work>> /\ cand'[r] = {}
          /\ lines' = lines \o RolloverLines(r)
          /\ status' = [c \in Cycle |-> IF c = target[r] THEN "OPEN"
                                        ELSE IF c = toClose[r] THEN "COMPLETED" ELSE status[c]]
      BY <1>7, <1>b DEF TransitionLines, TransitionCommit, Advance, TypeOK, InventoryTyped, WorkTyped
    <3>2. target[r] \in Cycle /\ toClose[r] = Settled(r) /\ status[target[r]] \in {"PLANNED", "OPEN"}
      BY <1>a, <1>b, <3>1 DEF ReportAt, ReadIsFresh, RowsOf
    <3>3. Settled(r) # target[r]
          /\ (Settled(r) # NoCycle => Settled(r) \in Cycle /\ status[Settled(r)] = "OPEN")
      BY <1>a, <1>b, <3>1, <3>2 DEF ReadIsFresh, Deciding, Settled, TypeOK
    <3> QED BY <3>1, <3>2, <3>3
  <2> DEFINE N == DOMAIN lines' \ DOMAIN lines
  <2>2. /\ DOMAIN lines \subseteq DOMAIN lines' /\ \A i \in DOMAIN lines : lines'[i] = lines[i]
        /\ \A i \in N : \E k \in cand[r] : lines'[i] = RolloverLine(r, k)
        /\ \A i, j \in N :
              (\E k \in cand[r] : lines'[i] = RolloverLine(r, k) /\ lines'[j] = RolloverLine(r, k)
                                  /\ \A l \in cand[r] : l.line = k.line => l = k) => i = j
    BY <2>1, LinesCarried
  <2>3. ASSUME NEW i \in N
        PROVE  /\ lines'[i].cycle = target[r] /\ lines'[i].rollover /\ lines'[i].planned = lines'[i].bought
               /\ lines'[i].buyBooked = 0 /\ lines'[i].from = Settled(r)
               /\ \E k \in cand[r] : lines'[i] = RolloverLine(r, k) /\ lines'[i].fromLine = k.line
    <3>1. PICK k \in cand[r] : lines'[i] = RolloverLine(r, k)
      BY <2>2
    <3>2. k \in Candidate
      BY DEF InventoryTyped, WorkTyped
    <3> QED BY <2>1, <3>1, <3>2, RolloverLineTyped, <1>b
  <2>4. OnlyForward
    BY <2>1 DEF OnlyForward
  <2>5. \A i \in DOMAIN lines : lines[i].fromLine # 0 =>
            lines[i].fromLine \in DOMAIN lines /\ lines[lines[i].fromLine].cycle \in Cycle
            /\ status[lines[lines[i].fromLine].cycle] = "COMPLETED"
    BY <1>c DEF CarriedInv, Carried
  <2>6. \A i \in N : lines'[i].fromLine # 0 =>
            /\ lines'[i].fromLine \in DOMAIN lines /\ Settled(r) # NoCycle
            /\ lines[lines'[i].fromLine].cycle = Settled(r)
    BY <1>a, <2>3 DEF CandInv, Rows
  <2>7. ASSUME NEW i \in DOMAIN lines PROVE Carried(i)'
    <3>1. Carried(i) /\ lines'[i] = lines[i]
      BY <1>c, <2>2 DEF CarriedInv
    <3>2. lines[i].fromLine \in DOMAIN lines =>
              lines[i].fromLine \in DOMAIN lines' /\ lines'[lines[i].fromLine] = lines[lines[i].fromLine]
      BY <2>2
    <3> QED BY <2>4, <3>1, <3>2 DEF Carried, OnlyForward
  <2>8. ASSUME NEW i \in N PROVE Carried(i)'
    <3>1. lines'[i].fromLine # 0 => lines'[i].fromLine \in DOMAIN lines' /\ lines'[lines'[i].fromLine].cycle = Settled(r)
      BY <2>2, <2>6
    <3>2. lines'[i].fromLine # 0 => Settled(r) \in Cycle /\ status'[Settled(r)] = "COMPLETED"
      BY <2>1, <2>6
    <3> QED BY <2>1, <2>3, <3>1, <3>2 DEF Carried
  <2>9. OneFromEach'
    <3> SUFFICES ASSUME NEW i \in DOMAIN lines', NEW j \in DOMAIN lines',
                        lines'[i].fromLine # 0, lines'[i].fromLine = lines'[j].fromLine
                 PROVE  i = j
      BY DEF OneFromEach
    <3>1. CASE i \in N /\ j \in N
      <4>1. PICK k \in cand[r] : lines'[i] = RolloverLine(r, k) /\ lines'[i].fromLine = k.line
        BY <2>3, <3>1
      <4>2. PICK l \in cand[r] : lines'[j] = RolloverLine(r, l) /\ lines'[j].fromLine = l.line
        BY <2>3, <3>1
      <4>3. \A m \in cand[r] : m.line = k.line => m = k
        BY <1>a, <4>1 DEF CandInv
      <4>4. l = k
        BY <4>1, <4>2, <4>3
      <4> QED BY <2>2, <3>1, <4>1, <4>2, <4>3, <4>4
    <3>2. CASE i \in DOMAIN lines /\ j \in DOMAIN lines
      BY <1>c, <2>2, <3>2 DEF CarriedInv, OneFromEach
    <3>3. CASE (i \in N /\ j \in DOMAIN lines) \/ (i \in DOMAIN lines /\ j \in N)
      BY <2>1, <2>2, <2>5, <2>6, <3>3
    <3> QED BY <3>1, <3>2, <3>3
  <2>10. CandInv(r)'
    BY <2>1 DEF CandInv
  <2>11. HandInv(r)' /\ work'[r] = NoWork
    BY <1>a, <2>1 DEF HandInv
  <2>12. OpenedRows(r)'
    <3> SUFFICES ASSUME prevOpen[r] # target[r] PROVE OpenedRows(r)'
      BY <2>1 DEF OpenedRows
    <3>1. status[target[r]] = "PLANNED"
      BY <1>a, <2>1 DEF ReadIsFresh, Deciding
    <3>2. \A i \in DOMAIN lines : lines[i].cycle = target[r] => ~lines[i].rollover /\ lines[i].buyBooked = 0
      BY <1>c, <2>1, <3>1 DEF CarriedInv, Carried
    <3> QED BY <2>1, <2>2, <2>3, <3>2 DEF OpenedRows, Rows, Settled
  <2>13. ToPay(r)'
    BY <2>11, NothingToDo DEF ToPay
  <2>14. PaidFor(r)'
    BY <1>a, <2>1 DEF PaidFor
  <2> QED BY <2>7, <2>8, <2>9, <2>10, <2>11, <2>12, <2>13, <2>14 DEF MoveInv, CarriedInv, PurchaseInv, Serial
\* Payouts and participation rollovers leave the rows alone.
<1>8. ASSUME NEW r \in Request, Payouts(r) \/ Rollover(r) \/ CloseCycle(r), UNCHANGED inventory PROVE MoveInv'
  <2>1. /\ UNCHANGED <<target, prevOpen, lines, cand, work>> /\ pc[r] \in {"close", "payouts", "rollover"}
        /\ pc'[r] \in {"idle", "payouts", "rollover", "purchase"}
        /\ pc'[r] = "idle" => target[r] = NoCycle
        /\ pc'[r] # "idle" => outcome'[r] = "none"
        /\ pc[r] = "close" => target[r] = NoCycle
    BY <1>8, <1>a, <1>b DEF Payouts, Rollover, CloseCycle, Advance, End, ReportAt, inventory, TypeOK
  <2>2. OnlyForward
    BY <1>8, <1>b DEF Payouts, Rollover, CloseCycle, OnlyForward, TypeOK
  <2>3. CarriedInv'
    BY <1>c, <2>1, <2>2, SameRowsKept, CarriedKept
  <2>4. cand[r] = {}
    BY <1>a, <2>1 DEF CandInv
  <2>5. CandInv(r)'
    BY <2>1, <2>4 DEF CandInv
  <2>6. work[r] = NoWork
    BY <1>a, <2>1 DEF HandInv
  <2>7. HandInv(r)' /\ ToPay(r)'
    BY <2>1, <2>6, NothingToDo DEF HandInv, ToPay
  <2>8. OpenedRows(r)'
    BY <1>a, <2>1 DEF PurchaseInv, OpenedRows, Rows, Settled
  <2>9. PaidFor(r)'
    BY <2>1 DEF PaidFor
  <2> QED BY <2>3, <2>5, <2>7, <2>8, <2>9 DEF MoveInv, PurchaseInv, Serial
<1>9. ASSUME NEW r \in Request, ReadRollovers(r) PROVE MoveInv'
  <2>1. /\ UNCHANGED <<status, lines, pc, target, prevOpen, outcome, cand>> /\ pc[r] = "purchase"
        /\ work'[r] = [read |-> TRUE, todo |-> PurchaseTodo(r), now |-> NoItem] /\ ~work[r].read
        /\ target[r] \in Cycle
    BY <1>9, <1>a DEF ReadRollovers, vars, ReportAt, InventoryTyped, WorkTyped
  <2>2. CarriedInv'
    BY <1>c, <2>1, SameRowsKept, CarriedKept DEF OnlyForward
  <2>3. CandInv(r)'
    BY <1>a, <2>1 DEF CandInv
  <2>4. work'[r].read /\ work'[r].todo = PurchaseTodo(r) /\ work'[r].now = NoItem
    BY <2>1
  <2>5. prevOpen[r] # target[r] =>
            \A i \in Rows(target[r]) : lines[i].buyBooked = 0 /\ (lines[i].rollover => lines[i].from = prevOpen[r])
    BY <1>a, <1>b, <2>1 DEF PurchaseInv, OpenedRows, Settled
  \* No row of the target carries stock of the target.
  <2>12. prevOpen[r] = target[r] => PurchaseTodo(r) = {}
    BY <1>b, <1>c, <2>1 DEF PurchaseTodo, Rows, CarriedInv, Carried
  <2>6. \A k \in PurchaseTodo(r) : k.line \in Rows(target[r]) /\ lines[k.line].rollover
                                   /\ lines[k.line].buyBooked = 0 /\ k.units = lines[k.line].bought
    BY <2>5, <2>12 DEF PurchaseTodo
  <2>7. ASSUME prevOpen[r] # target[r], NEW i \in Rows(target[r]) PROVE Paid(i) \/ \E k \in PurchaseTodo(r) : k.line = i
    <3>1. CASE lines[i].rollover /\ lines[i].priced
      <4>1. [line |-> i, units |-> lines[i].bought] \in PurchaseTodo(r)
        BY <2>5, <2>7, <3>1 DEF PurchaseTodo
      <4> QED BY <4>1
    <3>2. CASE ~(lines[i].rollover /\ lines[i].priced)
      BY <3>2 DEF Paid
    <3> QED BY <3>1, <3>2
  <2>8. HandInv(r)'
    BY <2>1, <2>4 DEF HandInv
  <2>9. OpenedRows(r)'
    BY <1>a, <2>1, <2>4 DEF PurchaseInv, OpenedRows, Rows, Settled
  <2>10. ToPay(r)'
    BY <2>1, <2>4, <2>6, <2>7 DEF ToPay, Rows, Paid
  <2>11. PaidFor(r)'
    BY <1>a, <2>1 DEF PaidFor
  <2> QED BY <2>2, <2>3, <2>8, <2>9, <2>10, <2>11 DEF MoveInv, PurchaseInv, Serial
<1>10. ASSUME NEW r \in Request, BookPurchase(r) PROVE MoveInv'
  <2>1. PICK k \in work[r].todo :
            /\ NextItem(r, "purchase", k)
            /\ lines' = [lines EXCEPT ![k.line].buyBooked = @ + k.units]
            /\ work' = [work EXCEPT ![r].todo = @ \ {k}]
            /\ UNCHANGED <<vars, cand>>
    BY <1>10 DEF BookPurchase
  <2>2. /\ pc[r] = "purchase" /\ UNCHANGED <<status, pc, target, prevOpen, outcome, cand>> /\ work[r].read
        /\ target[r] \in Cycle
    <3>1. work[r] # NoWork
      BY NothingToDo, <2>1
    <3> QED BY <1>a, <2>1, <3>1 DEF HandInv, NextItem, vars, ReportAt
  <2>3. /\ work[r].now = NoItem
        /\ \A l \in work[r].todo : l.line \in Rows(target[r]) /\ lines[l.line].rollover
                                    /\ lines[l.line].buyBooked = 0 /\ l.units = lines[l.line].bought
        /\ prevOpen[r] # target[r] =>
              \A i \in Rows(target[r]) : Paid(i) \/ \E l \in work[r].todo : l.line = i
    BY <1>a, <2>2 DEF PurchaseInv, ToPay
  <2>4. k \in Item /\ k.units \in Nat /\ \A l \in work[r].todo : l \in Item
    BY FieldsOfWork DEF InventoryTyped, Item
  <2>5. work'[r].read /\ work'[r].todo = work[r].todo \ {k} /\ work'[r].now = NoItem
    <3>1. PICK w \in Works : w = work[r]
      BY FieldsOfWork DEF InventoryTyped
    <3>2. work'[r] = [w EXCEPT !.todo = w.todo \ {k}]
      BY <2>1, <3>1 DEF InventoryTyped, WorkTyped
    <3> QED BY <2>2, <2>3, <3>1, <3>2 DEF Works
  <2>6. /\ DOMAIN lines' = DOMAIN lines
        /\ \A j \in DOMAIN lines :
              /\ lines'[j].cycle = lines[j].cycle /\ lines'[j].bought = lines[j].bought
              /\ lines'[j].priced = lines[j].priced
              /\ lines'[j].rollover = lines[j].rollover /\ lines'[j].planned = lines[j].planned
              /\ lines'[j].from = lines[j].from /\ lines'[j].fromLine = lines[j].fromLine
              /\ lines'[j].buyBooked = IF j = k.line THEN lines[j].buyBooked + k.units ELSE lines[j].buyBooked
    BY <2>1, <2>4, BuyBooked DEF InventoryTyped
  <2>7. \A j \in DOMAIN lines : lines'[j].buyBooked = IF j = k.line THEN lines[j].bought ELSE lines[j].buyBooked
    BY <2>1, <2>3, <2>4, <2>6
  <2>8. k.line \in DOMAIN lines /\ lines[k.line].rollover
    BY <2>1, <2>3 DEF Rows
  <2>9. \A i \in DOMAIN lines : Carried(i)'
    <3> SUFFICES ASSUME NEW i \in DOMAIN lines PROVE Carried(i)'
      OBVIOUS
    <3>1. Carried(i)
      BY <1>c DEF CarriedInv
    <3>2. lines[i].fromLine \in DOMAIN lines => lines'[lines[i].fromLine].cycle = lines[lines[i].fromLine].cycle
      BY <2>6
    <3> QED BY <2>2, <2>6, <2>7, <2>8, <3>1, <3>2 DEF Carried
  <2>10. CarriedInv'
    BY <1>c, <2>6, <2>9 DEF CarriedInv, OneFromEach
  <2>11. CandInv(r)'
    BY <1>a, <2>2 DEF CandInv
  <2>12. HandInv(r)'
    BY <2>2, <2>5 DEF HandInv
  <2>13. OpenedRows(r)'
    BY <1>a, <2>2, <2>5, <2>6 DEF PurchaseInv, OpenedRows, Rows, Settled
  <2>14. \A l \in work[r].todo \ {k} : l.line # k.line
    <3>1. \A l \in Item : l.line = k.line /\ l.units = k.units => l = k
      BY <2>4 DEF Item
    <3> QED BY <2>1, <2>3, <2>4, <3>1
  <2>15. Rows(target[r])' = Rows(target[r]) /\ Rows(target[r]) \subseteq DOMAIN lines
    BY <2>2, <2>6 DEF Rows
  <2>16. ToPay(r)'
    <3>1. \A l \in work[r].todo \ {k} : /\ l.line \in Rows(target[r])' /\ lines'[l.line].rollover
                                         /\ lines'[l.line].buyBooked = 0 /\ l.units = lines'[l.line].bought
      BY <2>3, <2>6, <2>7, <2>14, <2>15
    <3>2. prevOpen[r] # target[r] =>
              \A i \in Rows(target[r])' : Paid(i)' \/ \E l \in work[r].todo \ {k} : l.line = i
      BY <2>3, <2>6, <2>7, <2>15 DEF Paid
    <3> QED BY <2>2, <2>5, <3>1, <3>2 DEF ToPay
  <2>17. PaidFor(r)'
    BY <1>a, <2>2 DEF PaidFor
  <2> QED BY <2>10, <2>11, <2>12, <2>13, <2>16, <2>17 DEF MoveInv, PurchaseInv, Serial
<1>11. ASSUME NEW r \in Request, PurchaseLines(r) PROVE MoveInv'
  <2>1. /\ UNCHANGED <<status, lines, target, prevOpen, cand>> /\ pc[r] = "purchase" /\ pc'[r] = "idle"
        /\ LoopDone(r) /\ work'[r] = NoWork
    BY <1>11, <1>b DEF PurchaseLines, Purchase, End, TypeOK, InventoryTyped, WorkTyped
  <2>2. CarriedInv'
    BY <1>c, <2>1, SameRowsKept, CarriedKept DEF OnlyForward
  <2>3. CandInv(r)'
    BY <1>a, <2>1 DEF CandInv
  <2>4. prevOpen[r] # target[r] => \A i \in Rows(target[r]) : Paid(i)
    BY <1>a, <2>1 DEF PurchaseInv, ToPay, LoopDone
  <2>5. HandInv(r)' /\ OpenedRows(r)' /\ ToPay(r)'
    BY <2>1 DEF HandInv, OpenedRows, ToPay
  <2>6. PaidFor(r)'
    BY <2>1, <2>4 DEF PaidFor, Rows, Paid
  <2> QED BY <2>2, <2>3, <2>5, <2>6 DEF MoveInv, PurchaseInv, Serial
<1>12. ASSUME NEW r \in Request, FailLines(r) \/ (ReadOpenCycle(r) /\ UNCHANGED inventory) PROVE MoveInv'
  <2>1. /\ UNCHANGED <<status, lines>> /\ pc'[r] \in {"idle", "candidates"} /\ cand'[r] = {} /\ work'[r] = NoWork
        /\ outcome'[r] # "returned"
    BY <1>12, <1>a, <1>b DEF FailLines, Fail, ReadOpenCycle, Advance, End, CandInv, HandInv, inventory, TypeOK,
       InventoryTyped, WorkTyped
  <2>2. CarriedInv'
    BY <1>c, <2>1, SameRowsKept, CarriedKept DEF OnlyForward
  <2>3. CandInv(r)' /\ HandInv(r)'
    BY <2>1 DEF CandInv, HandInv
  <2>4. PurchaseInv(r)'
    BY <2>1, <2>3, NothingToPay
  <2> QED BY <2>2, <2>3, <2>4 DEF MoveInv, Serial
<1>13. CASE CrashLines
  <2>1. /\ UNCHANGED <<status, lines, target, prevOpen>>
        /\ \A r \in Request : /\ pc'[r] = "idle" /\ cand'[r] = {} /\ work'[r] = NoWork
                              /\ outcome'[r] \in {outcome[r], "crashed"}
    BY <1>13, <1>b DEF CrashLines, Crash, TypeOK
  <2>2. CarriedInv'
    BY <1>c, <2>1, SameRowsKept, CarriedKept DEF OnlyForward
  <2>3. ASSUME NEW r \in Request PROVE CandInv(r)' /\ PurchaseInv(r)'
    <3>1. CandInv(r)' /\ HandInv(r)' /\ OpenedRows(r)' /\ ToPay(r)'
      BY <2>1 DEF CandInv, HandInv, OpenedRows, ToPay
    <3>2. PaidFor(r)'
      BY <1>a, <2>1 DEF PurchaseInv, PaidFor, Rows, Paid
    <3> QED BY <3>1, <3>2 DEF PurchaseInv
  <2> QED BY <2>2, <2>3 DEF MoveInv
<1> QED
  BY <1>1, <1>2, <1>3, <1>4, <1>5, <1>6, <1>7, <1>8, <1>9, <1>10, <1>11, <1>12, <1>13
  DEF InventoryNext

LEMMA MoveInvariant ==
    ASSUME Serial, NotReopened
    PROVE  InventorySpec => [](InventoryTyped /\ RowsInv /\ MoveInv)
<1>1. InventoryInit => MoveInv
  <2> SUFFICES ASSUME InventoryInit PROVE MoveInv
    OBVIOUS
  <2>1. DOMAIN lines = {}
    BY EmptySeq DEF InventoryInit
  <2>2. \A r \in Request : work[r] = NoWork /\ cand[r] = {} /\ pc[r] = "idle" /\ outcome[r] = "none"
    BY DEF InventoryInit, Init
  <2> QED BY <2>1, <2>2
      DEF MoveInv, CarriedInv, OneFromEach, CandInv, PurchaseInv, HandInv, OpenedRows, ToPay, PaidFor
<1>2. /\ InventoryTyped /\ ReportInv /\ SerialInv /\ RowsInv /\ MoveInv /\ TypeOK' /\ [InventoryNext]_allVars
      => MoveInv'
  <2>1. ASSUME InventoryTyped, MoveInv, UNCHANGED allVars PROVE MoveInv'
    <3>1. UNCHANGED <<status, lines, pc, target, prevOpen, outcome, cand, work>>
      BY <2>1 DEF allVars, vars, inventory
    <3>2. CarriedInv'
      BY <2>1, <3>1, SameRowsKept, CarriedKept DEF MoveInv, OnlyForward
    <3>3. ASSUME NEW r \in Request PROVE CandInv(r)' /\ PurchaseInv(r)'
      BY <2>1, <3>1, SameRowsKept, RequestKept DEF MoveInv, InventoryTyped, TypeOK
    <3> QED BY <3>2, <3>3 DEF MoveInv
  <2> QED BY <2>1, MoveStep, Serial, NotReopened
<1>3. InventoryTyped => TypeOK
  BY DEF InventoryTyped
<1>4. Spec => [](TypeOK /\ ReportInv /\ SerialInv /\ RowsInv)
  BY Serial, NotReopened, RowsInvariant
<1> QED
  BY <1>1, <1>2, <1>3, <1>4, InventoryInvariant, LifecycleBelow, PTL DEF InventorySpec

\* Stock moves to the next Cycle once and is charged at most once: StockMovesOnce.
\* It holds while allocations run in between, however often a request fails or
\* dies after its commit and is repeated for the Cycle that is OPEN by then: what
\* is carried comes from a Cycle that was closed in the same transaction, and it
\* is charged by the time the request that carried it returns.
THEOREM StockMovesOnlyOnce == ASSUME Serial, NotReopened PROVE InventorySpec => []StockMovesOnce
<1>1. MoveInv => StockMovesOnce
  <2> SUFFICES ASSUME MoveInv PROVE CarriedOnce /\ PurchasedOnce
    BY DEF StockMovesOnce
  <2>1. CarriedOnce
    BY DEF MoveInv, CarriedInv, Carried, OneFromEach, CarriedOnce
  <2>2. \A i \in DOMAIN lines : lines[i].buyBooked \in {0, lines[i].bought}
    BY DEF MoveInv, CarriedInv, Carried
  <2>3. ASSUME NEW r \in Request, outcome[r] = "returned", target[r] \notin {NoCycle, prevOpen[r]},
               NEW i \in Rows(target[r]), lines[i].rollover, lines[i].priced
        PROVE  lines[i].buyBooked = lines[i].bought
    BY <2>3 DEF MoveInv, PurchaseInv, PaidFor, Paid
  <2> QED BY <2>1, <2>2, <2>3 DEF PurchasedOnce
<1> QED BY <1>1, MoveInvariant, PTL

================================================================================
