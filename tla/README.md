# Trading Cycles: a TLA+ model of the EVE money-making API

The program runs a small investment fund in a game. Participants commit ISK to a
trading **Cycle**; admins trade with it for some weeks; at the end the Cycle is
**settled**: wallets are imported, trades are matched to the Cycle's lines, the
stock is bought back, payouts are computed, and what participants want to keep
invested is rolled over into the next Cycle. `CONTEXT.md` defines the words.

The code is a NestJS server over PostgreSQL. A request is a chain of `await`s:
between two of them the server serves other requests, any of them can throw, and
the process can die. Few of the chains are database transactions and none takes a
lock, so what makes the code hard is the order in which its small updates reach
the database, and what a retry finds there. That is what the modules model.

Paths below are relative to the repository; services without a path are in
`apps/api/src/tradecraft/cycles/services/`.

## 1. The system

| Component | State | Operations | Status |
|---|---|---|---|
| Cycle Lifecycle (`cycle-lifecycle`, `cycle-settlement-runner`, `cycle-settlement-report.builder`, `cycle.service`) | `cycles.status` | plan, delete, open (settles the Open Cycle first), settle without successor | modelled, proved |
| Settlement inventory (`cycle-rollover.service`: buyback, line candidates, purchase; `cycle-line`) | `cycle_lines`, synthetic `sell_allocations` and `buy_allocations` | read candidates, buy back, create rollover lines, book the purchase | partly modelled, proved |
| Transaction allocation (`wallet/services/allocation.service`) | `wallet_transactions`, allocations, totals of the lines | allocate buys, then sales | modelled, safety proved |
| Payouts, JingleYield, participation rollover (`payout`, `jingle-yield`, `cycle-rollover.processRollovers`) | `cycle_participations`, `jingle_yield_programs` | snapshot payouts, count interest, create default rollovers, deduct and roll over, finalize, backfill, mark as sent | partly modelled, safety proved |
| Participation and Payment Matching (`participation`, `payment-matching`, `participation-caps`, `ledger-entry`) | participations before and after the opening, deposits in the ledger, the baseline | opt in, increase, match, validate, opt out, refund, add to the Open Cycle | partly modelled, proved |
| Wallet import (`wallet/services/wallet.service`) | `wallet_transactions`, `wallet_journal` | page through ESI, newest first | modelled, safety proved |
| Market packages and pricing scripts (`market/services/package`, `arbitrage`, `pricing`) | packages, their links to lines, planned units, idempotency rows | commit, fail or complete a package, confirm a batch | partly modelled, proved |
| ESI client (`apps/api/src/esi`) | semaphore and its limit, calls in flight, two caches | `fetchJson`, `withMaxConcurrency` | modelled, proved |
| Collectors (`npc-market`, `self-market`) | snapshots, baseline, trade aggregates | collect a station, fail, try again | NPC collector modelled, proved |
| Tokens and OAuth state (`apps/api/src/characters`) | tokens, states | refresh, log in | not yet |
| Jobs, notifications | cron | collect, remind | not modelled |
| Profit, capital, fees, reports | none of their own | sums over the rows of others | not modelled, no control to check |
| Arbitrage packager, liquidity, game data, web application, shared packages | - | computation, input and output | not modelled |

How they interact:

- `openPlannedCycle` calls the rollover service (candidates, purchase), the
  settlement runner (the Strict steps before its transaction, the Recoverable
  steps after it) and the Cycle service (the close, inside the transaction).
- The runner calls wallet import, allocation, buyback, payouts, and rollovers.
- The allocation is called by an hourly job, by three admin endpoints and by the
  settlement (`open-cycle-wallet-refresh`), with nothing to keep them apart.
- The lines are shared by allocation, buyback, purchase and the packages; the
  participations by payment matching, payouts, rollovers and the admin pages.
- The wallet import feeds the allocation (transactions) and the payment matching
  (donations in the journal). It, the collectors and the market pages all fetch
  through the one ESI client of the process.

What is hard, and what makes a component correct:

| Component | Hard behaviour | Must hold |
|---|---|---|
| Lifecycle | checks made one await before their use; crash anywhere; failing steps | one Open Cycle; nothing completed unsettled; a failed Strict step changes no status; the report is true and has no gap; every request ends |
| Inventory | loops of two updates each; numbers read before the loop; retry after a crash | no unit sold twice; priced stock sold out; stock carried over once and charged at most once, although the open is repeated |
| Allocation | the run works on copies; runs overlap; transactions come late | no unit allocated twice; no line beyond its plan; all activity is allocated in the end |
| Money | parallel updates, some of which fail; two updates per rollover; admin retries; payouts sent meanwhile | a payout is fixed once; a rollover is deducted once; interest counted once; recovery completes |
| Participation | greedy matching by memo; increases in between; row, ledger and baseline written one after another | a deposit is booked once, for what was confirmed; a donation is counted once each time its donor is asked to pay; the baseline counts validated capital only |
| Wallet import | stops at the largest id seen, stores the newest page first; the wallet grows and shifts the pages | an import that gets through has no gap; what is missing is fetched later |
| Market lines | packages share lines; a loss writes what it computed from an earlier read while the job increments the same rows; a batch is applied before its key is stored | lines keep their stock and what is under way; a stored answer is final |
| ESI client | lookups after an await; wake-ups that take a slot later; a limit that moves | one fetch per URL; no older answer than before; no caller left waiting |
| Collector | rows in batches, then a transaction; pages shift while they are fetched | the baseline is a whole snapshot; no trade counted twice, none missed |

`PROJECT.json` lists 40 places in the code where one of these bites ("hazards"),
with the property that covers each, or why none does.

## 2. The modules

| Module | Models |
|---|---|
| `CycleStatus` | Abstract specification: a Cycle is planned, discarded, opened or closed in one step. |
| `CycleLifecycle` | The requests on Cycles as chains of awaited calls. Its steps map to `CycleStatus`. |
| `SettlementInventory` | Extends `CycleLifecycle`: each step together with what it does to the lines. |
| `Allocation` | Runs of the transaction allocation over the lines of one Cycle. |
| `SettlementMoney` | The Recoverable steps of one settlement, and the admin's follow-up. |
| `DepositAccount` | Abstract specification: per user, an amount is confirmed, then booked by the difference. |
| `Participation` | The participations of one Cycle, their donations, deposits and baseline. Implements `DepositAccount`. |
| `WalletImport` | Imports of one character's wallet. |
| `MarketLines` | Packages and batches over the lines of the Open Cycle, and the hourly job between their reads and writes. |
| `EsiClient` | `fetchJson`: caches, calls in flight, semaphore. |
| `MarketCollector` | The collector of an NPC station's order book. |
| `Totals` | Sums of quantities over rows, counted unit by unit. |
| `CycleLifecycleProofs` | Theorems about `CycleLifecycle`, then about `SettlementInventory`, whose invariants rest on those of the lifecycle. |
| `CycleLinesProofs` | Theorems about `Allocation` and `MarketLines`. |
| `TotalsProofs` | Lemmas about sums. |
| `SettlementMoneyProofs`, `ParticipationProofs`, `WalletImportProofs`, `EsiClientProofs`, `MarketCollectorProofs` | Theorems about the module each is named after. |
| `MCLifecycle`, `MCInventory`, `MCAllocation`, `MCMoney`, `MCParticipation`, `MCWallet`, `MCMarket`, `MCEsi`, `MCCollector` | Small instances for the model checker. |

`SettlementInventory` is composed with `CycleLifecycle` step by step (it conjoins
the action of that module with the effect on `lines`, `cand`, `work`), so that what
a request does to the stock is interleaved and crashed with everything else.
`Allocation` is the close-up of the steps `AllocateLine` there, which bring one line
to any outcome of a run, buys up to the plan and sales up to the bought; a run is
any number of these steps and may end after any of them.
`SettlementMoney` is the close-up of the steps `Payouts` and `Rollover`, of
which `CycleLifecycle` only says that they succeed or fail. The others meet these
at one table each: `WalletImport` says when the transactions that `Allocation`
takes in any order are in the database; `MarketLines` adds what the market side
does to the lines, with the allocation as the reading of the lines and the two
increments it amounts to there;
`Participation` ends where the Cycle is open and `SettlementMoney` begins.

### CycleLifecycle

`status` is the column, with "none" before the row exists and "deleted" after.
`pc[r]` names the call that request `r` is about to await; `target`, `prevOpen`
and `toClose` are the handler's variables (`cycle`, `openCycle` and the Cycle read
again in the transaction); `report` and `outcome` what the admin gets.

| Action | Code |
|---|---|
| `PlanCycle`, `BeginDelete`/`DeleteCycle` | `planCycle`, `deletePlannedCycle`: the check and the delete are two calls |
| `BeginOpen`, `ReadOpenCycle`, `BuildCandidates` | `openPlannedCycle` up to the Strict steps |
| `WalletImport`, `Allocate`, `Buyback` | `runStrictSteps` |
| `TransitionRead`, `TransitionCommit` | the transaction: it reads the Open Cycle through a connection of its own (`getCurrentOpenCycle`), so the read is not part of it |
| `BeginSettle`, `CloseCycle` | `settleOpenCycle` |
| `Payouts`, `Rollover` | `runRecoverableSteps`: failures are recorded, the request goes on |
| `Purchase` | `processInventoryPurchaseIfPresent`, after the commit |
| `Fail`, `Crash` | any awaited call rejects; the process dies |

The API opens a Cycle of any status; the web page offers only planned ones.
`OpenableStatus` says which are asked for. The passing runs have PLANNED and OPEN
ones: an admin whose open died after the commit repeats it from a page that still
shows the Cycle as planned, and the API takes it. Opening a COMPLETED Cycle again is left out, as the
Cycle would take over stock that was carried into its successors.

### SettlementInventory

A line is a record with its planned, bought and sold units, whether it has a cost
(`priced`), where it was carried over from, and three totals of rows in other
tables: units of wallet sales (`traded`), of synthetic sales (`sellBooked`) and of
synthetic buys (`buyBooked`). The buyback reads the remaining units of all lines
(`ReadStock`) and then, for each, creates the synthetic sale (`BookSale`) and
increments the line (`MarkSold`): three calls, each of which may be the last one.
ISK amounts are left out; whether a line has a cost is kept because the code
branches on it.

An allocation updates one line per step: `HourlyJob` those of the Open Cycle,
`AllocateTransactions` those of the Cycle an admin names (`POST cycles/:id/allocate`; the
API takes any, `AllocatableStatus` says which are named), `AllocateNext` those of the
Cycle a settlement is about to close, until `AllocateLines` ends that Strict step. The first two
come between requests, unless `JobOverlaps`.

### Allocation

Transactions are numbered by date, lines by creation. `run[a]` holds the local
variables of a run: the transactions it loaded, its copy of the lines, the
transaction at hand. Buys and sales are the same loop over other columns
(`side`). `Upsert` writes the allocation row, `Increment` the line.

### SettlementMoney

`source[u]` and `target[u]` are the participations of user `u` in the settled
Cycle and in the next one. `req[r]` is a request (`settle`, `finalize`, `backfill`)
with its locals; `landing[r]` the snapshot updates that `Promise.all` has issued:
when one fails the request goes on, and the others still land. Amounts are small
integers and the shares of the profit are rounded as cents are in the code.

| Action | Code |
|---|---|
| `Compute`, `CountInterest`, `Issue`, `Land`, `Persisted` | `computePayouts`, `applyCyclePayouts` (a transaction per program), `persistPayouts` |
| `Ensure`, `EnsureAuto`, `EnsureJingle` | creation of default rollovers; a failing create skips those behind it |
| `Select`, `ReadPayout`, `UpdateTarget`, `UpdateSource`, `EndRollovers` | the loop of `processRollovers` |
| `MarkSent` | an admin sends a payout that the admin page lists as due, `markPayoutAsSent` |
| `FailCall`, `FailLanding`, `CrashMoney` | failures |

### Participation and DepositAccount

`part[u]` is the row of user `u` (its `id` counts the rows the user has created, so that
a request notices that the row it read is gone), `booked[u]` the sum of its ledger
entries, `baseline` the column `initialCapitalIsk`. `req[r]` holds what a request
has read: the row, for the matcher the rows and donations it has left.

| Action | Code |
|---|---|
| `StartCreate`/`Create`, `StartIncrease`/`Increase`, `StartOptOut`/`Delete`/`OptOut` | `createParticipation`, `increaseParticipation`, `optOutParticipation`: checks, awaits, one update |
| `StartMatch`, `ReadDonations`, `MatchOne`, `BookMatch`, `EndMatch` | `matchParticipationPayments`; `Score` is the scoring in its loop (`payment-matching.service.ts:136-172`) |
| `StartValidate`, `Validate`, `SumDeposits`, `AppendDeposit`, `ReadBaseline`, `RaiseBaseline` | `adminValidatePayment` and what it calls |
| `Refund`, `AddToOpenCycle`, `OpenCycle` | `adminMarkRefund`, `adminCreateParticipationForOpenCycle`, the part of the transition that deals with participations |
| `Arrive` | a donation in the wallet journal |
| `CutShort` | any awaited call rejects, or the process dies |

`DepositAccount` knows two numbers per user. `confirmed` is mapped to `Received`: the
amount of a validated participation, and otherwise what is booked, since a payment
already received stays received while a new amount awaits its validation. `booked`
is the ledger. A matched payment is `Confirm`, then `Book`; an increase is `Reopen`;
the deletions are `GiveUp`. Any user may ask for more after paying, be matched
again, be validated with a donation of anybody, linked or not, and be added by an admin.
Two history variables say what the properties claim of such users. `counted[d]` counts the
bookings of donation `d` by the matcher since its donor was last asked to pay: opting in,
asking for more and being added by an admin ask anew, and the code then may, and
does, take donations again that it has booked and not linked. `rematched` are the users
whose donations were matched although deposits of theirs are in the ledger: the
matcher then sets the amount to what it found and books all of it beside what was
booked, and the refinement gives up their accounts (both numbers are mapped
to 0, which is `GiveUp`).

### WalletImport

Transactions and journal entries are numbered as they are made. `imp[i]` holds the
locals of `importForCharacter`: `stopAt`, the id to page back from, the page just
fetched. `FetchTx`/`StoreTx` is the loop over the transactions, `FetchJr`/`StoreJr` the
one over the journal, `Make` the wallet, `CutImport` a failure, which
`importAllLinked` logs.

### MarketLines

One line per type (`line[t]`; `born` counts the lines created), the packages with
their status and their links to the lines. No isolation level is set
(`prisma.service.ts`), so PostgreSQL's READ COMMITTED holds: what a transaction has read and
not written can change before it writes. `StartCommit`/`WritePlan` (`commitPlan`) and
`StartFail`/`WriteFailed` (`markPackageFailed`) are therefore a step that reads the lines and a later one that
writes and commits figures computed from them; `RollBack` ends either. The job
has its own copy (`job`): `ReadLines` loads it for the buys, then for the sales, and
`AllocateBuy`/`AllocateSell` decide by the copy and increment the row. `CloseCycle` is one
transaction that writes statuses only. `crossed` is a history flag of a line:
units were sold from it by figures that a loss had changed, or removed as lost by
figures that a sale had. `Lookup`/`Apply`/`Save` is a batch of the pricing script, which
may stop in between; `saved[k]` is the batch whose response is stored for key `k`.

### EsiClient

A body is its version at ESI. Time is counted per URL, by the expiries of its
answers (`period`), since all the code asks is whether an entry has expired; an entry is
valid up to the period `exp`. `call[c]` is a caller in `fetchJson`:
it looks in memory (`Enter`), in the database (`ReadDb`, `UseRow`), joins or begins a
fetch (`Fetch`), takes or awaits a slot (`Acquire`, `TakeSlot`), sends the request
(`Answer`, `TooManyErrors`, `Retry`, `Rotate`, `Fail`) and saves the answer
(`Persist`). `Widen`/`Restore` is `withMaxConcurrency`; `Expire`, `Forget`, `CleanUp` are
time, the memory cache's eviction and the cleanup job.

### MarketCollector

A snapshot maps every order to the units left. `Begin`, `FetchFirst`, `FetchPage`,
`LoadPrevious`, `Flush`, `Finalize` are `collectStationOnce`; `FailRun` stops it
anywhere. `Place`, `Trade`, `Withdraw` are the market, which goes on meanwhile.

## 3. What the runs show

"[serial]" in a module marks what is promised while requests (or runs) do not
overlap, which is how admins work and what the code relies on. The violation
runs show what happens otherwise, or where the code departs from its documents.

| Run | Instance | Shows |
|---|---|---|
| `lifecycle_serial` | 3 Cycles, 1 request slot | Through any sequence of requests, failures and crashes: at most one Open Cycle, every completed Cycle was settled, a failed Strict step leaves both Cycles as they were, reports are true and without gaps, the chain refines `CycleStatus`, every request ends. |
| `lifecycle_two_opens` (violation) | 2 slots | Two overlapping opens leave two Open Cycles (`CONTEXT.md:72` allows one). |
| `inventory_serial` | 2 Cycles, up to 3 lines, planned, carried over or found in sell orders, 1 slot, allocations in between, opens repeated | No oversell, every sale has its row, no priced stock left in a completed Cycle, stock is carried over once and charged at most once, exactly once when the request that switched the Cycles returns. |
| `allocation_serial` | 5 transactions, 2 lines, 1 run slot, 3 failures | No unit is allocated twice, lines stay within their plan, totals never exceed the rows, each run is exhaustive, and all activity is allocated in the end. |
| `money_serial` | 2 users, 1 slot, 1 failure or crash | Payouts are fixed once and interest with them, rollovers are deducted once, to the same amount and without creating ISK, and the admin's follow-up completes. |
| `participation_serial` | 2 users, both of whom may ask for more and be added by an admin, 3 donations, 1 slot, 1 request cut short | The chain of reads and writes implements `DepositAccount` for who is not matched again, a donation is booked once each time its donor is asked to pay, the baseline is backed by validated amounts. |
| `participation_forgotten` (violation) | same, no failure, a paid participation is increased | A user who pays, asks for more and is not validated again loses the row, with the payment still in the ledger (`participation.service.ts:945` marks payments for refund). |
| `wallet_overlap` | 2 import slots, pages of 2, 3 entries of each kind, 1 import cut short | An import that gets to the journal has left no gap above the id it stops at; the journal becomes complete. |
| `wallet_gap` (violation) | 1 slot | An import that stops after its first page leaves a gap that no later import fills (`wallet.service.ts:18`). |
| `market_serial` | 2 types, 2 packages on a shared line, 2 batches with one key, 1 slot, the job at any time | Lines keep their stock and what is under way, and are not oversold but where a loss and a sale cross; after a response is stored nothing with its key is applied. |
| `esi_shared` | 3 callers, 2 URLs, 1 slot or 2 while widened | One fetch per URL, no older answer than a caller could know of, nobody left behind, slots counted right. |
| `collector_serial` | 3 orders on 2 pages, 3 runs, any of which fails | The baseline is a whole snapshot; the aggregates are bounds of the trades. |

Each property of a passing run has a mutant: a plausible bug in one action
("Mutant:" in the modules) under which the same run finds the property violated.

### Bounds

- **Three Cycles**: one completed, one open, one planned at once; a fourth could
  only repeat a role. **Two** in the inventory, the settled one and its successor.
- **One slot or two**: a slot is reused, so one slot gives any number of requests
  one after the other. Two are enough for every race found.
- **Lines**: admins create a line while there is none (`PlannedLines = 1`; of
  one unit, `Units = 1`); a sell order has two units (`OrderUnits = 2`). That gives lines
  sold in part, priced and unpriced ones. `MaxLines = 3` is room for the line that is settled, the
  one that carries its stock, and the sell order that a repeated open adds; it
  stops a request at `TransitionLines` only. `MaxBooked = 2`
  bounds the synthetic sales that repeated crashes write for a line: room for one
  whole retry. It stops a request at `BookSale` only.
- **Allocation**: three buys exceed the plan of both lines, the first does not fit
  on one of them; sales match one line each. Three failures let both the row and
  the increment fail for a buy and again for its sale.
- **Money**: invested 4 and 6, cap 9, so that `n` reaches the cap with its payout
  and with its extra; profits -2 (the payout of `j` falls below its locked principal),
  5 (interest without completion) and 10 (interest completes the program).
  `last` lets the minimum number of Cycles complete it instead. A loss is never
  larger than one investment: a snapshot that is written in part charges the whole
  loss to the participations that are left (a hazard listed without a property),
  and payouts would turn negative.

- **Participation**: asks of 2 and 3 and increases of 1 under caps of 4: `p` may ask for
  more twice, the third increase is refused; `t` once. Two rows per user allow one
  opt-out and return, or to be added to the Open Cycle after the row was deleted.
  `p`'s two donations come to more than `p` asks for at first, and only the better one
  is linked by a match.
- **Wallet**: three entries on pages of two: a gap of one page, a page that is
  short, and entries that move to the next page while the wallet grows.
- **Market**: two packages share a line, one has both types; they are committed
  together or one after the other. Two sends per batch, and two lines per type, one after
  another, so that a deleted line is created again. A line of three units can be
  bought, sold and lost in part on either side of a read.
- **ESI**: `u` changes once; two callers of it and one of another URL make one wait
  while a third joins. Two attempts per request. The two callers of `u` are
  symmetric; only invariants are checked.
- **Collector**: three runs: a baseline, one that fails, one that counts. `MaxRuns`
  bounds their ids.

### Fairness

- `CycleLifecycle`: every awaited call settles, it resolves or rejects
  (`WF(Proceed \/ Fail)`). Nothing says that it succeeds.
- `Allocation`: the cron job starts a run every hour and the awaits of a run settle
  (`WF(StepRun)`), and at most `MaxFailures` runs fail: with failures for ever nothing
  can be promised.
- `SettlementMoney`: the awaits of a request settle, the settlement takes place, and
  the admin follows up: `StartFinalize` and `StartBackfill` are strongly fair, as
  they compete for one slot. That is what `CONTEXT.md` asks of an Admin Recovery
  Flow. Sending payouts is never fair: an admin need not.

- `WalletImport`: the hourly job starts imports and their awaits settle: some import
  always takes a step (`WalletFairness`). It may be the one that is cut short, at
  most `MaxFailures` times.
- The other modules state safety only and need none.

## 4. What is proved

The theorems hold for every value of the constants that the modules' assumptions
allow and, where nothing else is said, for any number of overlapping requests,
runs, imports, callers or collections, any of which fails anywhere.

| Theorem | Assumes | Says |
|---|---|---|
| **`CycleLifecycleProofs`**, the lifecycle | | |
| `TypeCorrect` | - | `TypeOK` is an invariant. |
| `ReportsInOrder` | - | No report has a gap. |
| `OneOpenCycle` | `Serial` | At most one Open Cycle, whatever status the target has. |
| `StrictStepsFirst` | `Serial` | A Cycle is completed only after its own Strict steps. |
| `ReportsAreTrue` | `Serial`, `NotReopened` | A report agrees with the database. |
| `StrictFailureIsHarmless` | `Serial`, `NotReopened` | A failed Strict step leaves one Cycle OPEN and the other PLANNED. |
| `ImplementsAbstract` | `Serial`, `NotReopened` | `Spec => CycleStatus!Spec`. |
| **`CycleLifecycleProofs`**, the inventory | | |
| `InventoryTypeCorrect` | - | `InventoryTypeOK` is an invariant. |
| `LinesNeverOversold` | `Serial`, `JobWaits` | No line is sold beyond its stock, nor without an allocation. |
| `CompletedIsSoldOut` | `Serial`, `JobWaits`, `NotReallocated` | A completed Cycle keeps no stock that has a cost. |
| `StockMovesOnlyOnce` | `Serial`, `NotReopened` | A line is carried over once, from a completed Cycle, and charged at most once, however often the open is repeated; exactly once when it returns. |
| **`CycleLinesProofs`**, the allocation | | |
| `AllocationTyped` | - | `AllocTypeOK` is an invariant. |
| `RowsBehindTotals` | - | The totals of a line never exceed the rows behind them. |
| `NothingAllocatedTwice` | `SerialRuns` | A transaction is allocated for no more units than it has. |
| `LinesWithinPlan` | `SerialRuns` | A line is bought up to its plan and sold up to what was bought. |
| `RunsAreExhaustive` | `SerialRuns` | A run that ends leaves nothing that fits on a line. |
| **`CycleLinesProofs`**, the packages | | |
| `MarketTyped` | - | `MarketTypeOK` is an invariant. |
| `LinesKeepRoom` | `SerialRequests` | A line holds its stock and the units of its active packages, wherever the job falls between reads and writes, and is not oversold but where figures crossed. |
| `StoredAnswerStands` | `SerialRequests` | After a response is stored, nothing with its key is applied. |
| **`SettlementMoneyProofs`** | | |
| `MoneyTyped` | - | `MoneyTypeOK` is an invariant. |
| `RolloverHappensOnce` | `Serial` | A rollover is deducted once and repeated to the same amount. |
| `SnapshotIsFinal` | `Serial` | A payout is written once and changed by its deduction only; interest is counted once. |
| `DeductionsBalance` | `Serial`, `LossCovered` | The target gets what is deducted, within the cap and the payout. |
| **`ParticipationProofs`** | | |
| `ParticipationTyped` | - | `PartTypeOK` is an invariant. |
| `BaselineBacked` | `Serial`, `AsOffered` | The baseline never exceeds the validated amounts. |
| `ImplementsAccount` | `Serial` | `Participation` implements `DepositAccount`, for everybody until matched again. |
| `DonationsCountOnce` | `Serial` | The matcher books a donation once each time its donor is asked to pay. |
| **`WalletImportProofs`** | | |
| `WalletTyped` | - | `WalletTypeOK` is an invariant. |
| `ImportLeavesNoGap` | - | An import that gets to the journal leaves no gap above the id it stops at. |
| **`EsiClientProofs`** | | |
| `EsiTyped` | - | `EsiTypeOK`: the semaphore counts right, the limit never falls to 0. |
| `FlightIsSingle` | - | A URL is fetched by one call at a time. |
| `NobodyIsLeft` | - | Who waits will be told, who joined has a fetch to wait for. |
| `NeverTakenBack` | - | No caller gets an older body than it could know of. |
| **`MarketCollectorProofs`** | | |
| `CollectorTyped` | - | `CollectorTypeOK` is an invariant. |
| `BaselineIsWhole` | - | The baseline is one collection's whole snapshot. |
| `TradesAreBounded` | `Serial` | The aggregates bound the units that were traded. |

The conditions are hypotheses of the theorems, not assumptions of the modules:

- `Serial`, `SerialRuns`, `SerialRequests`: there is one slot, so requests (runs,
  collections) follow one another. The run `lifecycle_two_opens` shows that
  `OneOpenCycle` needs it; section 5 says what overlapping does elsewhere.
- `NotReopened`: no COMPLETED Cycle is opened again (`OpenableStatus` is within PLANNED
  and OPEN).
- `JobWaits`: allocations, by the hourly job or by hand, run between requests.
- `NotReallocated`: admins do not allocate to COMPLETED Cycles by hand.
- `LossCovered`: no loss is larger than any one investment. The retry of a snapshot
  that was written in part divides the whole loss among those who are left, perhaps
  one, whose payout would turn negative.
- `AsOffered`: admins validate rows that await their investment, as the page offers.

What the modules assume is named in each of them (`EsiAssumption`,
`ImportAssumption`, ...) and says what kind of thing a constant is. `OrderUnits > 0` in
`SettlementInventory` is the code's: it skips a type found in no quantity
(`cycle-rollover.service.ts:477`).

### The invariants behind them

Except for some of the types, none of the properties is inductive.

- **Sums.** `Total(f, S)` is the number of units of the members of `S`, so that what a
  sum does when one summand grows, or a member comes or goes, follows from the
  library's theorems on cardinality without induction. `TotalsProofs` states it once
  for all modules. It is why the sets that are summed over are assumed finite.
- **Lifecycle.** `ReportAt(r)`: what the place `pc[r]` says about the report and the Cycles
  of `r` (at "buyback", import and allocation are recorded and there is a Cycle to
  settle). It does not mention other requests, which is why it holds for any number of
  them. `ReadIsFresh`: in a serial world, what a request has read (`prevOpen`,
  `toClose`) is still the Open Cycle at every place where it will be used. This is what
  makes the check at the start of a request good for the update at its end. `RowsOf(r)`:
  the rows a request will update still have the status it relies on, so that each
  commit is one legal step of `CycleStatus`.
- **Inventory.** Each of its steps is a step of the lifecycle or a stutter, so all of the
  above holds. `Stocked(r)`: what the buyback read about the rows it has yet to
  update is still true, and no row with stock and a cost is missing from its list;
  `WorkInv`: hence nothing is left between the buyback and the close. For
  the carry-over: `Carried`, a line that was carried over comes from a completed
  Cycle, and `OneFromEach`, no two come from the same line; `CandInv`, the candidates are
  lines of the Cycle to settle, which is still open, each once; `OpenedRows`, `ToPay` and `PaidFor`
  follow the purchase through its loop. A repeated open finds the target as the Open
  Cycle, so its list of lines to pay is empty (`ToPay`). Allocations may run all the while,
  as none of these mentions what is sold.
- **Allocation.** `RowsAhead`: the rows of a line exceed its total by at least the units of the
  runs that are between the row and its increment. That needs nothing about how runs
  interleave. For serial runs `Fresh`, the copy a run works on agrees with the
  database but for the units in hand; `LeftIsLeft`, what it thinks is left of a
  transaction is; `Walked`, a transaction it has passed fits nowhere.
- **Packages.** `Sound`: a line has planned what it bought, and so has every copy of it.
  `CopyFits(copy, l)`, for the job: its copy agrees on what was sold, and has no more room
  than the row, since a loss takes at least as much of the plan as of the stock.
  `ReadFits(read, l)`, for a request between its read and its write: the plan is as it was read and
  the stock has only grown. `UnderWay(t)` sums the units of
  the active packages over their links, and stays within the plan; `RequestFits`: the
  packages of a commit are new, and the one to be lost is still under way or was
  completed with all others. `KeyIsFree`: between the
  lookup and the storing of a response the key is still without one; `StoredIsApplied`.
- **Money.** `Agree(u)`: the two rows and the program of a user fit together; above all,
  a target that was updated when its source was not has the amount that a repetition
  computes again (`Due`, a function of what no one changes in between). `Fresh`: payouts
  that are computed and not written are for users who are still OPTED_IN. `Computes` and
  `Rolls` say that what a request holds is still what the rows say. `Covered`, for the
  balance: no payout is negative, written, computed or in flight.
- **Participation.** `Place(r)`: what a request has read about a row is still true; only
  a refund comes in between, which changes nothing but its status. `Adds(r)`: there is
  room below what backs the baseline for what a validation is about to add. `Pays(r)`:
  what a request will book is what is missing between the ledger and the amount, and
  what the matcher books for a user who is not `rematched` is the first deposit; so
  each write of a handler is one step of `DepositAccount` or none. `Counts(r)`: no
  donation of a user the matcher has left to match was counted since the user was asked;
  `CountedInv`: nor was any of a user whose investment is awaited.
- **Wallet.** `Behind(i)`, everything from the `from_id` of the next page on is
  stored, down to the id where the import stops; `WholePage(i)`, a page has no gap and is
  the last one if it is not full. Both stay true while the wallet grows and while others
  store more, so nothing is needed about the other imports. Pages are intervals, whose
  sizes come from the library's theorem on the cardinality of an interval.
- **ESI client.** `OwnFlight`, that `inflight[k] = c` exactly if `c` fetches `k`, which is
  `OneFlight` call by call; `Joined`; `Distinct`, no call is queued twice, so that the one
  that is woken leaves the queue; `SlotsOK`, the count of the slots and the members of the
  queue; `Tended`, somebody holds a slot, or is about to, while others wait. The
  last one rests on the limit being positive: who finds no slot free finds one in use.
  Each action changes one call, or ends a fetch (`ShapeEnd`).
  Of the caches, `Stamped`: all that is kept of a URL, in memory, in the
  database or in a call's hands, has expired or is the newest body; hence `Ahead`, what had
  not expired when a call began is not older than what was known then; and `Landed`, an
  answer that is about to be returned is the newest anybody has. `Landed` needs
  `OneFlight`: a second fetch of the same URL could save an older answer in between.
- **Collector.** `OwnIds`, a run has an id of its own, which is not the baseline's, and
  nothing is stored under it before it writes; `Written`, a run that writes has stored what
  it was shown but for the types left to do. For the bounds, `Seen`: what was
  shown of an order later is not more than before, and what it lacked then was traded;
  `LowerTold`: the lower bound has counted no more than each order lacked when it was last seen in
  a baseline; `UpperMissed`: the upper bound has counted all that orders lost
  since their first baseline.

Only model-checked: liveness (`RequestsEnd`, `EventuallyAllocated`,
`RecoveryCompletes`, `JournalConverges`), since the prover handles no fairness, and the
three counterexamples.

## 5. What is not claimed

- **Overlap.** The properties marked [serial] fail with overlapping requests. In the
  inventory allocations run between requests (`JobOverlaps = FALSE`); if one runs
  between the reading of the stock and the updates of a buyback, `NoOversell` fails.
  `MarketLines` has the job between the steps of a request, but one run of it; two
  runs at once are a matter of `Allocation` (two slots), where `NoDoubleAllocation` and `WithinCapacity` fail.
- **Isolation.** The database reads committed data. An update by `increment` is
  atomic and sees the row as it is. A transaction that reads rows and writes figures
  computed from them is split in two steps where a request or a job can change those
  rows in between: `commitPlan` and `markPackageFailed` in `MarketLines`, the reading of the Open Cycle in the
  open transition. In `commitPlan` the reads of one line after another are one step. One step
  remain the transition's writes, `completePackagesForCycle`, the transaction of
  `applyCyclePayouts`, that of the collector, and `adminCreateParticipationForOpenCycle`, whose
  new baseline is computed from a read within its transaction: two of them at once, or one and a late
  validation, lose one of two amounts, which is the overlap excluded for `BaselineIsBacked`.
- **Crossing figures.** When a loss and a sale of the same units fall between
  each other's reads and writes, a line is sold beyond what it has bought; and buys allocated between the read and
  the write of a loss are lost from `unitsBought`, though their rows stay. `LinesHoldPackages`
  says what survives, and exempts from the bound on sales only the lines that `crossed`.
- **Repeated opens.** The open that is repeated for the Cycle that is OPEN charges nothing:
  the lines that a crash left unpaid after the commit stay unpaid. With no other Cycle to
  settle it records the sell orders found in the game as rollover lines once
  more, charged by nobody. After a buyback that was cut short before the commit, a
  repeated open no longer finds the lines that were bought back among its
  candidates: that stock is not carried over. The page of the web application offers planned Cycles only; a
  repeated open comes from a page that is out of date or from another client.
- **COMPLETED Cycles.** `POST cycles/:id/allocate` takes any Cycle. Late buys allocated to a
  COMPLETED one are stock that nobody sells back, so `SoldOut` would not survive it;
  `NoOversell` does, and is proved for any `AllocatableStatus`. Opening a COMPLETED Cycle
  again breaks `CarriedOnce`, whose source is COMPLETED no more.
- **The target of a settlement** is one OPEN Cycle in `SettlementMoney`; the profit
  share is the default one, and rollover intents are chosen before the opening.
- **Amounts**: `Decimal(28,2)` is read into floating point numbers in the code; the
  model rounds shares and is otherwise exact.
- **Interest lost**: when a settlement fails before the interest is counted,
  finalizing writes the payouts without it. `SnapshotStands` bounds the count from
  above only.
- **What the modules show beyond the runs.** These follow from the code and
  can be seen in traces of the modules (two slots, or another value of a constant);
  they are listed as hazards rather than kept as runs. With overlapping requests, the
  transition may complete a Cycle that was never settled
  (`cycle-lifecycle.service.ts:91`); two allocation runs allocate units
  twice; two validations into an Open Cycle lose one of the two amounts; two
  collections of a station count the same trades twice. With requests one after
  another, what the next Cycle takes over is not always what was bought back, since it
  is read before the allocation; a Cycle completes with its unpriced stock unsold;
  after a loss a custom rollover pays out locked principal; a payout already sent
  is rolled over all the same; the default rollover of a participant who opted out while
  the program is active blocks those behind it (`OptedOut = {}` in the run).
- **Donations matched again**: the matcher sets the amount to the donations that no
  row is linked to, and links only the best of those it matches. After the increase of
  a matched participation a second match counts some of them again, or forgets
  those that are linked: the ledger and the amount no longer agree. The same happens to a user
  whose row, with its link, was deleted at the opening and whom an admin adds to
  the Open Cycle as not paid yet. All of it is in the model and in the run;
  `DonationCountedOnce` is claimed for each time the user is asked to pay, not for the life of
  the donation, and `ImplementsDepositAccount` for everybody until matched again.
  A donation that an admin links to another user's row by hand is no booking of the matcher.
- **Deposits lost**: a match that dies between the participation and its deposit leaves
  the amount confirmed and nothing booked; nobody matches it again.
  `DepositAccount` allows a `Confirm` without a `Book`.
- **Batches**: a batch is applied twice when the process dies between the
  transaction and the storing of its response, or when two requests with one key
  overlap. `pricing-script.controller.ts:70` calls the endpoint idempotent; `AnsweredOnce`
  says what holds, from the moment the response is stored.
- **The web's part**: admins validate rows that await their investment and refund
  those that opted out (`Validatable`, `Refundable`), as the admin page offers; the
  API checks neither.
- **ESI**: one process. The limit may be exceeded by callers that come between a
  wake-up and the woken caller's turn; the run shows that the count is right, not
  that the limit holds. Progress under a fair ESI is not checked.
- **Market**: one destination; a line per type, so that two commits that both create the
  line of a type, which the code would let make two, are left out (with two slots the second waits);
  `confirmListing`, listed units, `confirmReprice` and ISK are left out.
- **Collector**: sell and buy orders are told apart by the type; pages come from the station live,
  not through the cache of the ESI client; the self-market collector is left out.
- **Wallet**: the admin job that deletes wallet rows is left out; `JournalConverges` holds
  of a journal from which nothing is deleted.
- **Allocation**: `EventuallyAllocated` counts rows. The total of a line may stay behind its
  rows for good after a crash between the two (`TotalsHaveRows` is one-sided).
- **Rounding**: `DeductionBalances` is an inequality at the cap of a FULL_PAYOUT: a difference of
  1 ISK between what is deducted and what the target gets would not be seen there.
- **`createCycle`**, the older way to plan a Cycle, is `PlanCycle` as far as the
  status goes; its opening balance lines are not modelled, nor are
  `updateCycleLine` and `deleteCycleLine`.

## 6. Plan

1. *Done:* `CycleStatus`, `CycleLifecycle`; `SettlementInventory`;
   `Allocation`; `SettlementMoney`; `DepositAccount`, `Participation`;
   `WalletImport`; `MarketLines`; `EsiClient`; `MarketCollector`.
   Proved: what section 4 lists, which is all but the liveness properties.
2. Proofs that are left: bounds on what an overlapping job or request can do. A
   candidate, not checked yet: with `JobOverlaps`, a line is oversold by no more than the
   job has sold since the stock was read.
3. Tokens and OAuth state: two refreshes of one token at once. What is lost depends
   on whether the login server rotates refresh tokens, which the code does not say.
4. The self-market collector, which replaces its one snapshot in the transaction
   that counts.

## 7. Running it

    tlc -config MCLifecycle_Serial.cfg MCLifecycle
    tlapm CycleLifecycleProofs.tla    # and each of the other *Proofs modules

Each `.cfg` is named after its module and run. The largest runs, `inventory_serial`,
`participation_serial`, `collector_serial`, `market_serial` and `esi_shared`, have 1.8 to
3 million distinct states; each takes one to three minutes with two workers. The proof modules take from a few
seconds to about three minutes each (`CycleLifecycleProofs`, `SettlementMoneyProofs`,
`ParticipationProofs`).
