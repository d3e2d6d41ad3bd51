-------------------------- MODULE SettlementInventory --------------------------
(***************************************************************************)
(* The stock of the trading Cycles while admin requests move them: what    *)
(* the Strict steps, the open transition and the rollover purchase do to   *)
(* the Cycle's lines and to the synthetic allocations that book the stock  *)
(* out of the settled Cycle and into the next one.                         *)
(*                                                                         *)
(* The module extends CycleLifecycle: each step of a request is the step   *)
(* there together with its effect on the lines.  Buyback and purchase make *)
(* several updates outside any transaction; each is a step of its own.     *)
(***************************************************************************)
EXTENDS CycleLifecycle, Naturals, SequencesExt

CONSTANTS
    Units,        \* the largest number of units planned on a line
    OrderUnits,   \* the units of a sell order found in the game
    MaxBooked,    \* bound: how many units the synthetic sales of a line may add up to
    PlannedLines, \* bound: admins create a line while there are fewer lines than this
    MaxLines,     \* bound: how many lines there may be in all
    JobOverlaps,  \* may lines be allocated to while a request is in flight?
    AllocatableStatus   \* statuses of the Cycles admins allocate to by hand

ASSUME InventoryAssumption ==
    /\ Units \in Nat \ {0} /\ OrderUnits \in Nat \ {0}
    /\ MaxBooked \in Nat /\ PlannedLines \in Nat /\ MaxLines \in Nat
    /\ JobOverlaps \in BOOLEAN

\* The API allocates to every existing Cycle.
ASSUME AllocatableAssumption == AllocatableStatus \subseteq {"PLANNED", "OPEN", "COMPLETED"}

VARIABLES
    lines,   \* the rows of cycle_lines, in the order of creation
    cand,    \* cand[r]: the rollover line candidates r holds in memory
    work     \* work[r]: the loop of a buyback or purchase in request r

inventory == <<lines, cand, work>>
allVars == <<vars, inventory>>

NoItem == [line |-> 0, units |-> 0]
NoWork == [read |-> FALSE, todo |-> {}, now |-> NoItem]

\* A line: traded is the part of sold that wallet sales account for; sellBooked
\* and buyBooked are the units of its synthetic rollover allocations.
Line == [cycle : Cycle \cup {NoCycle}, planned : Nat, bought : Nat, sold : Nat,
         priced : BOOLEAN, rollover : BOOLEAN, from : Cycle \cup {NoCycle}, fromLine : Nat,
         traded : Nat, sellBooked : Nat, buyBooked : Nat]

\* Only something is ever carried over or booked.
Item == [line : Nat \ {0}, units : Nat \ {0}]
Candidate == [line : Nat, units : Nat \ {0}, priced : BOOLEAN]

InventoryTypeOK ==
    /\ TypeOK
    /\ lines \in Seq(Line)
    /\ \A r \in Request :
          /\ cand[r] \subseteq Candidate
          /\ work[r].todo \subseteq Item
          /\ work[r].now \in Item \cup {NoItem}
          /\ work[r].read \in BOOLEAN

InventoryInit ==
    /\ Init
    /\ lines = <<>>
    /\ cand = [r \in Request |-> {}]
    /\ work = [r \in Request |-> NoWork]

--------------------------------------------------------------------------------
\* The lines of the Cycle c; a line of a deleted Cycle has NoCycle.
Rows(c) == {i \in DOMAIN lines : lines[i].cycle = c}

Remaining(i) == lines[i].bought - lines[i].sold
Unsold(i) == lines[i].sold < lines[i].bought

EmptyLine(c) ==
    [cycle |-> c, planned |-> Units, bought |-> 0, sold |-> 0, priced |-> FALSE,
     rollover |-> FALSE, from |-> NoCycle, fromLine |-> 0,
     traded |-> 0, sellBooked |-> 0, buyBooked |-> 0]

\* createCycleLine, for a Cycle of any status.
CreateLine(c) ==
    /\ Exists(c)
    /\ Len(lines) < PlannedLines
    /\ lines' = Append(lines, EmptyLine(c))
    /\ UNCHANGED <<vars, cand, work>>

\* The line with b units bought and s sold; a buy gives it a cost.
AllocatedTo(l, b, s) ==
    [l EXCEPT !.bought = b, !.sold = s, !.traded = l.traded + (s - l.sold),
              !.priced = l.priced \/ b > l.bought]

\* What a run of the allocation may make of a line: buys up to the planned
\* units, then sales up to the bought ones.
Allocated(l) == {AllocatedTo(l, b, s) : b \in l.bought .. l.planned, s \in l.sold .. l.planned}

\* A run updates its lines one after the other, any number of them, and may die
\* between two.
AllocateLine(c) ==
    \E i \in Rows(c) : \E l \in Allocated(lines[i]) :
        /\ l.sold <= l.bought
        /\ lines' = [lines EXCEPT ![i] = l]

\* Runs outside the requests: they may be told to wait for them.
JobMayRun == JobOverlaps \/ \A r \in Request : ~InFlight(r)

\* The hourly job allocates the wallet activity of the Open Cycle, if there is one.
HourlyJob ==
    /\ JobMayRun
    /\ \E c \in CurrentOpen \cap Cycle : AllocateLine(c)
    /\ UNCHANGED <<vars, cand, work>>

\* POST cycles/:id/allocate: an admin names the Cycle.
AllocateTransactions(c) ==
    /\ JobMayRun
    /\ status[c] \in AllocatableStatus
    /\ AllocateLine(c)
    /\ UNCHANGED <<vars, cand, work>>

\* The Strict step: line after line, then its end.
AllocateNext(r) ==
    /\ pc[r] = "allocate"
    /\ AllocateLine(prevOpen[r])
    /\ UNCHANGED <<vars, cand, work>>

AllocateLines(r) ==
    /\ Allocate(r)
    /\ UNCHANGED inventory

--------------------------------------------------------------------------------
(* openPlannedCycle: candidates and transaction                            *)

\* Mutant: sold out lines are carried over too.
CandidatesOfAll(c, jita) ==
    {[line |-> i, units |-> Remaining(i), priced |-> lines[i].priced \/ jita] : i \in Rows(c)}

\* The remaining stock of the settled Cycle, read before its Strict steps run.
\* A line without cost has the price jita says, if Jita has one.
CandidatesFrom(c, jita) ==
    {[line |-> i, units |-> Remaining(i), priced |-> lines[i].priced \/ jita] :
        i \in {j \in Rows(c) : Unsold(j)}}

\* Without one, the sell orders the tracked characters have in the game.
OrderCandidates(jita) == {{}, {[line |-> 0, units |-> OrderUnits, priced |-> jita]}}

BuildLineCandidates(r) ==
    /\ BuildCandidates(r)
    /\ \E jita \in BOOLEAN :
          \E ks \in IF Settled(r) = NoCycle THEN OrderCandidates(jita)
                    ELSE {CandidatesFrom(Settled(r), jita)} :
              cand' = [cand EXCEPT ![r] = ks]
    /\ UNCHANGED <<lines, work>>

\* A rollover line starts out bought, with nothing sold.
RolloverLine(r, k) ==
    [EmptyLine(target[r]) EXCEPT !.planned = k.units, !.bought = k.units, !.priced = k.priced,
                                 !.rollover = TRUE, !.from = Settled(r), !.fromLine = k.line]

RolloverLines(r) ==
    LET ks == SetToSeq(cand[r]) IN [n \in DOMAIN ks |-> RolloverLine(r, ks[n])]

TransitionReadLines(r) ==
    /\ TransitionRead(r)
    /\ UNCHANGED inventory

\* One transaction closes, opens and creates the rollover lines.
TransitionLines(r) ==
    /\ TransitionCommit(r)
    /\ Len(lines) + Cardinality(cand[r]) <= MaxLines
    /\ lines' = lines \o RolloverLines(r)
    /\ cand' = [cand EXCEPT ![r] = {}]
    /\ UNCHANGED work

--------------------------------------------------------------------------------
(* processInventoryBuyback                                                 *)

\* Mutant: only lines that already sold something are bought back.
BuybackTodoOfSold(c) ==
    {[line |-> i, units |-> Remaining(i)] :
        i \in {j \in Rows(c) : Unsold(j) /\ lines[j].priced /\ lines[j].sold > 0}}

\* The remaining units of all lines are read once.  Lines without cost are
\* skipped with an error in the log.
BuybackTodo(c) ==
    {[line |-> i, units |-> Remaining(i)] : i \in {j \in Rows(c) : Unsold(j) /\ lines[j].priced}}

ReadStock(r) ==
    /\ pc[r] = "buyback" /\ ~work[r].read
    /\ work' = [work EXCEPT ![r] = [read |-> TRUE, todo |-> BuybackTodo(prevOpen[r]), now |-> NoItem]]
    /\ UNCHANGED <<vars, lines, cand>>

\* The next line of the loop, whose row still exists.
NextItem(r, at, k) ==
    /\ pc[r] = at /\ work[r].now = NoItem /\ k \in work[r].todo
    /\ lines[k.line].cycle # NoCycle

\* First the synthetic sale is written ...
BookSale(r) == \E k \in work[r].todo :
    /\ NextItem(r, "buyback", k)
    /\ lines[k.line].sellBooked + k.units <= MaxBooked
    /\ lines' = [lines EXCEPT ![k.line].sellBooked = @ + k.units]
    /\ work' = [work EXCEPT ![r].todo = @ \ {k}, ![r].now = k]
    /\ UNCHANGED <<vars, cand>>

\* Mutant: the whole line is sold back, not what remains of it.
MarkBoughtSold(r) ==
    LET k == work[r].now
    IN  /\ pc[r] = "buyback" /\ k # NoItem /\ lines[k.line].cycle # NoCycle
        /\ lines' = [lines EXCEPT ![k.line].sold = @ + lines[k.line].bought]
        /\ work' = [work EXCEPT ![r].now = NoItem]
        /\ UNCHANGED <<vars, cand>>

\* ... then the line is incremented by the units read at the start.
MarkSold(r) ==
    LET k == work[r].now
    IN  /\ pc[r] = "buyback" /\ k # NoItem /\ lines[k.line].cycle # NoCycle
        /\ lines' = [lines EXCEPT ![k.line].sold = @ + k.units]
        /\ work' = [work EXCEPT ![r].now = NoItem]
        /\ UNCHANGED <<vars, cand>>

LoopDone(r) == work[r].read /\ work[r].todo = {} /\ work[r].now = NoItem

BuybackLines(r) ==
    /\ LoopDone(r)
    /\ Buyback(r)
    /\ work' = [work EXCEPT ![r] = NoWork]
    /\ UNCHANGED <<lines, cand>>

--------------------------------------------------------------------------------
(* processInventoryPurchaseIfPresent                                       *)

\* Mutant: the filter is forgotten.
PurchaseTodoOfAll(r) ==
    {[line |-> i, units |-> lines[i].bought] :
        i \in {j \in Rows(target[r]) : lines[j].rollover /\ lines[j].priced}}

\* The rollover lines of the opened Cycle; those of the Cycle that was Open
\* when the request started, if one was.
PurchaseTodo(r) ==
    {[line |-> i, units |-> lines[i].bought] :
        i \in {j \in Rows(target[r]) :
                  /\ lines[j].rollover /\ lines[j].priced
                  /\ prevOpen[r] # NoCycle => lines[j].from = prevOpen[r]}}

ReadRollovers(r) ==
    /\ pc[r] = "purchase" /\ ~work[r].read
    /\ work' = [work EXCEPT ![r] = [read |-> TRUE, todo |-> PurchaseTodo(r), now |-> NoItem]]
    /\ UNCHANGED <<vars, lines, cand>>

\* The synthetic buy; the cost written after it is the cost the line has.
BookPurchase(r) == \E k \in work[r].todo :
    /\ NextItem(r, "purchase", k)
    /\ lines' = [lines EXCEPT ![k.line].buyBooked = @ + k.units]
    /\ work' = [work EXCEPT ![r].todo = @ \ {k}]
    /\ UNCHANGED <<vars, cand>>

PurchaseLines(r) ==
    /\ LoopDone(r)
    /\ Purchase(r)
    /\ work' = [work EXCEPT ![r] = NoWork]
    /\ UNCHANGED <<lines, cand>>

--------------------------------------------------------------------------------
(* The other requests                                                      *)

\* The lines of a deleted Cycle go with it (onDelete: Cascade).
DeleteLines(r) ==
    /\ DeleteCycle(r)
    /\ lines' = [i \in DOMAIN lines |->
                    IF Exists(target[r]) /\ lines[i].cycle = target[r]
                    THEN [lines[i] EXCEPT !.cycle = NoCycle] ELSE lines[i]]
    /\ UNCHANGED <<cand, work>>

\* An await that throws between two updates leaves what was written.
FailLines(r) ==
    /\ Fail(r)
    /\ cand' = [cand EXCEPT ![r] = {}]
    /\ work' = [work EXCEPT ![r] = NoWork]
    /\ UNCHANGED lines

CrashLines ==
    /\ Crash
    /\ cand' = [r \in Request |-> {}]
    /\ work' = [r \in Request |-> NoWork]
    /\ UNCHANGED lines

BeginLines(r, c) ==
    /\ BeginDelete(r, c) \/ BeginOpen(r, c) \/ BeginSettle(r, c)
    /\ UNCHANGED inventory

InventoryNext ==
    \/ \E c \in Cycle :
          CreateLine(c) \/ AllocateTransactions(c) \/ (PlanCycle(c) /\ UNCHANGED inventory)
    \/ HourlyJob
    \/ \E r \in Request, c \in Cycle : BeginLines(r, c)
    \/ \E r \in Request :
          \/ DeleteLines(r) \/ BuildLineCandidates(r)
          \/ AllocateNext(r) \/ AllocateLines(r)
          \/ TransitionReadLines(r) \/ TransitionLines(r)
          \/ ReadStock(r) \/ BookSale(r) \/ MarkSold(r) \/ BuybackLines(r)
          \/ ReadRollovers(r) \/ BookPurchase(r) \/ PurchaseLines(r)
          \/ FailLines(r)
          \/ /\ \/ ReadOpenCycle(r) \/ WalletImport(r) \/ CloseCycle(r)
                \/ Payouts(r) \/ Rollover(r)
             /\ UNCHANGED inventory
    \/ CrashLines

InventorySpec == InventoryInit /\ [][InventoryNext]_allVars

--------------------------------------------------------------------------------
(* Properties                                                              *)

\* No line ever shows more units sold than bought, nor a sale nobody can find: each
\* is in an allocation that a wallet sale or the buyback wrote before.  What the
\* buyback adds was read before its updates, by a loop that is not a transaction
\* and that a failed or crashed request runs again.
NoOversell ==
    \A i \in DOMAIN lines :
        /\ lines[i].sold <= lines[i].bought
        /\ lines[i].sold <= lines[i].traded + lines[i].sellBooked

\* A COMPLETED Cycle keeps no stock: every line that has a cost is sold out.
\* (Lines without cost are skipped, see BuybackTodo.)
SoldOut ==
    \A c \in Cycle : status[c] = "COMPLETED" =>
        \A i \in Rows(c) : lines[i].priced => lines[i].sold = lines[i].bought

\* Stock is carried over once, into the Cycle that replaced the one it comes
\* from: no two live lines come from one line, and the source is COMPLETED.
CarriedOnce ==
    \A i \in DOMAIN lines :
        lines[i].cycle # NoCycle /\ lines[i].fromLine # 0 =>
            /\ status[lines[i].from] = "COMPLETED"
            /\ lines[lines[i].fromLine].cycle = lines[i].from
            /\ \A j \in DOMAIN lines : lines[j].fromLine = lines[i].fromLine => j = i

\* No line is ever charged twice, and when the request that switched the Cycles
\* returns, every line it carried over has a synthetic buy of all its units, if it
\* has a cost.  Repeated after the commit, an open reads its target as the Open
\* Cycle: it charges nothing, so lines that a crash left unpaid stay unpaid.
PurchasedOnce ==
    /\ \A i \in DOMAIN lines : lines[i].buyBooked \in {0, lines[i].bought}
    /\ \A r \in Request :
          outcome[r] = "returned" /\ target[r] \notin {NoCycle, prevOpen[r]} =>
              \A i \in Rows(target[r]) :
                  lines[i].rollover /\ lines[i].priced => lines[i].buyBooked = lines[i].bought

\* [serial] The stock of a settled Cycle moves to the next one once and is charged
\* there at most once, although the request that moves it fails or dies after the
\* commit and is repeated for the Cycle that is OPEN by then; exactly once, when
\* it returns.  (The repeated open also records the game's sell orders as lines:
\* they come from no line and are charged by nobody.)
StockMovesOnce == CarriedOnce /\ PurchasedOnce

================================================================================
