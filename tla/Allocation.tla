------------------------------ MODULE Allocation -------------------------------
(***************************************************************************)
(* Transaction Allocation: matching the wallet transactions of the         *)
(* tracked characters to the lines of one Cycle, as AllocationService      *)
(* does.  A run (of the hourly job, of an admin, or of a settlement) loads *)
(* the transactions and the lines once, then walks the transactions by     *)
(* date; for each it reads what is already allocated, and for each line    *)
(* with capacity it writes an allocation row and increments the line.      *)
(* Nothing is a transaction and nothing keeps two runs apart.              *)
(***************************************************************************)
EXTENDS Naturals, FiniteSetsExt, Totals

CONSTANTS
    Run,         \* slots for the allocation runs in flight; reused
    Tx,          \* the wallet transactions, numbered by date: \subseteq Nat
    Line,        \* the lines of the Cycle, numbered by creation: \subseteq Nat
    Buys,        \* the transactions that are buys; the others are sales
    Qty,         \* Qty[t]: units traded in t
    Matches,     \* Matches[t]: lines of t's type (for a sale, at its station)
    Planned,     \* Planned[l]: units planned on l
    MaxFailures  \* bound: how many runs fail or crash

ASSUME AllocationAssumption ==
    /\ Tx \subseteq Nat /\ Line \subseteq Nat \ {0} /\ 0 \notin Tx
    /\ IsFiniteSet(Run) /\ IsFiniteSet(Tx) /\ IsFiniteSet(Line)
    /\ Buys \subseteq Tx
    /\ Qty \in [Tx -> Nat \ {0}]
    /\ Matches \in [Tx -> SUBSET Line]
    /\ Planned \in [Line -> Nat]
    /\ MaxFailures \in Nat

VARIABLES
    imported,  \* the transactions the wallet import has stored
    alloc,     \* alloc[t][l]: units in the allocation row of t and l
    bought,    \* bought[l]: units_bought of l
    sold,      \* sold[l]: units_sold of l
    run,       \* run[a]: the local variables of run a
    failures   \* how many runs failed so far

allocVars == <<imported, alloc, bought, sold, run, failures>>

\* side: which half of allocateAll; txs: the transactions loaded, of which todo
\* are left; bought and sold: the lines as loaded, kept up to date with the run's
\* own updates; tx and left: the transaction at hand and its units to allocate;
\* line and units: the row just written, whose line is to be incremented.
NoRun == [pc |-> "idle", side |-> "buy", txs |-> {}, todo |-> {},
          bought |-> [l \in Line |-> 0], sold |-> [l \in Line |-> 0],
          tx |-> 0, left |-> 0, line |-> 0, units |-> 0]

AllocTypeOK ==
    /\ imported \subseteq Tx
    /\ alloc \in [Tx -> [Line -> Nat]]
    /\ bought \in [Line -> Nat]
    /\ sold \in [Line -> Nat]
    /\ \A a \in Run :
          /\ run[a].pc \in {"idle", "txs", "lines", "next", "upsert", "increment"}
          /\ run[a].side \in {"buy", "sell"}
          /\ run[a].todo \subseteq run[a].txs
          /\ run[a].txs \subseteq (IF run[a].side = "buy" THEN Buys ELSE Tx \ Buys)
          /\ run[a].bought \in [Line -> Nat] /\ run[a].sold \in [Line -> Nat]
          /\ run[a].pc \in {"upsert", "increment"} => run[a].tx \in imported /\ run[a].left > 0
          /\ run[a].pc = "increment" => run[a].line \in Matches[run[a].tx] /\ run[a].units > 0
    /\ failures \in 0..MaxFailures

AllocInit ==
    /\ imported = {}
    /\ alloc = [t \in Tx |-> [l \in Line |-> 0]]
    /\ bought = [l \in Line |-> 0]
    /\ sold = [l \in Line |-> 0]
    /\ run = [a \in Run |-> NoRun]
    /\ failures = 0

--------------------------------------------------------------------------------
\* The sum of the allocation rows of t that are not rollovers.
AlreadyAllocated(t) == Total(alloc[t], Line)

\* Units that line l can still take, by what run a knows of it.
Capacity(a, l) ==
    IF run[a].side = "buy"
    THEN IF run[a].bought[l] < Planned[l] THEN Planned[l] - run[a].bought[l] ELSE 0
    ELSE IF run[a].sold[l] < run[a].bought[l] THEN run[a].bought[l] - run[a].sold[l] ELSE 0

Open(a, t) == {l \in Matches[t] : Capacity(a, l) > 0}

Becomes(a, rec) == run' = [run EXCEPT ![a] = rec]

--------------------------------------------------------------------------------
\* The wallet import stores a transaction; ESI may be late with it.
Import(t) ==
    /\ t \notin imported
    /\ imported' = imported \cup {t}
    /\ UNCHANGED <<alloc, bought, sold, run, failures>>

StartRun(a) ==
    /\ run[a].pc = "idle"
    /\ Becomes(a, [NoRun EXCEPT !.pc = "txs"])
    /\ UNCHANGED <<imported, alloc, bought, sold, failures>>

LoadTxs(a) ==
    /\ run[a].pc = "txs"
    /\ LET txs == IF run[a].side = "buy" THEN imported \cap Buys ELSE imported \ Buys
       IN  Becomes(a, [run[a] EXCEPT !.pc = "lines", !.txs = txs, !.todo = txs])
    /\ UNCHANGED <<imported, alloc, bought, sold, failures>>

LoadLines(a) ==
    /\ run[a].pc = "lines"
    /\ Becomes(a, [run[a] EXCEPT !.pc = "next", !.bought = bought, !.sold = sold])
    /\ UNCHANGED <<imported, alloc, bought, sold, failures>>

\* Mutant: what is already allocated is not subtracted.
NextTxForgetful(a) ==
    /\ run[a].pc = "next" /\ run[a].todo # {}
    /\ LET t == Min(run[a].todo)
       IN  Becomes(a, IF Open(a, t) = {}
                  THEN [run[a] EXCEPT !.todo = @ \ {t}]
                  ELSE [run[a] EXCEPT !.pc = "upsert", !.todo = @ \ {t}, !.tx = t, !.left = Qty[t]])
    /\ UNCHANGED <<imported, alloc, bought, sold, failures>>

\* Mutant: a transaction that is used up is not skipped.
NextTxNoSkip(a) ==
    /\ run[a].pc = "next" /\ run[a].todo # {}
    /\ LET t == Min(run[a].todo)
       IN  Becomes(a, IF Open(a, t) = {}
                  THEN [run[a] EXCEPT !.todo = @ \ {t}]
                  ELSE [run[a] EXCEPT !.pc = "upsert", !.todo = @ \ {t}, !.tx = t,
                                      !.left = Qty[t] - AlreadyAllocated(t)])
    /\ UNCHANGED <<imported, alloc, bought, sold, failures>>

\* Mutant: a transaction that is allocated in part is taken for used up.
NextTxAnyAllocation(a) ==
    /\ run[a].pc = "next" /\ run[a].todo # {}
    /\ LET t == Min(run[a].todo)
           done == AlreadyAllocated(t) > 0 \/ Open(a, t) = {}
       IN  Becomes(a, IF done
                  THEN [run[a] EXCEPT !.todo = @ \ {t}]
                  ELSE [run[a] EXCEPT !.pc = "upsert", !.todo = @ \ {t}, !.tx = t, !.left = Qty[t]])
    /\ UNCHANGED <<imported, alloc, bought, sold, failures>>

\* The earliest transaction left: skipped when all of it is allocated, or when
\* no matching line has capacity.
NextTx(a) ==
    /\ run[a].pc = "next" /\ run[a].todo # {}
    /\ LET t == Min(run[a].todo)
           done == AlreadyAllocated(t) >= Qty[t] \/ Open(a, t) = {}
       IN  Becomes(a, IF done
                  THEN [run[a] EXCEPT !.todo = @ \ {t}]
                  ELSE [run[a] EXCEPT !.pc = "upsert", !.todo = @ \ {t}, !.tx = t,
                                      !.left = Qty[t] - AlreadyAllocated(t)])
    /\ UNCHANGED <<imported, alloc, bought, sold, failures>>

\* Mutant: the capacity of the line is not looked at.
UpsertAll(a) ==
    /\ run[a].pc = "upsert"
    /\ LET l == Min(Open(a, run[a].tx))
           n == run[a].left
       IN  /\ alloc' = [alloc EXCEPT ![run[a].tx][l] = @ + n]
           /\ Becomes(a, [run[a] EXCEPT !.pc = "increment", !.line = l, !.units = n])
    /\ UNCHANGED <<imported, bought, sold, failures>>

\* Mutant: an existing row is overwritten, not incremented.
UpsertOverwriting(a) ==
    /\ run[a].pc = "upsert"
    /\ LET l == Min(Open(a, run[a].tx))
           n == Min({run[a].left, Capacity(a, l)})
       IN  /\ alloc' = [alloc EXCEPT ![run[a].tx][l] = n]
           /\ Becomes(a, [run[a] EXCEPT !.pc = "increment", !.line = l, !.units = n])
    /\ UNCHANGED <<imported, bought, sold, failures>>

\* As much of the transaction as fits goes to the first line with capacity: the
\* row is created or incremented ...
Upsert(a) ==
    /\ run[a].pc = "upsert"
    /\ LET l == Min(Open(a, run[a].tx))
           n == Min({run[a].left, Capacity(a, l)})
       IN  /\ alloc' = [alloc EXCEPT ![run[a].tx][l] = @ + n]
           /\ Becomes(a, [run[a] EXCEPT !.pc = "increment", !.line = l, !.units = n])
    /\ UNCHANGED <<imported, bought, sold, failures>>

\* Mutant: only the first matching line is tried.
IncrementedOnce(a) ==
    LET l == run[a].line
        n == run[a].units
        me == IF run[a].side = "buy" THEN [run[a] EXCEPT !.bought[l] = @ + n]
              ELSE [run[a] EXCEPT !.sold[l] = @ + n]
    IN  [me EXCEPT !.left = @ - n, !.pc = "next", !.line = 0, !.units = 0]

\* The run's copy of the lines after its increment; it goes on with the next
\* line, or the next transaction.
Incremented(a) ==
    LET l == run[a].line
        n == run[a].units
        me == IF run[a].side = "buy" THEN [run[a] EXCEPT !.bought[l] = @ + n]
              ELSE [run[a] EXCEPT !.sold[l] = @ + n]
        more == run[a].left > n /\ Open(a, run[a].tx) \ {l} # {}
    IN  [me EXCEPT !.left = @ - n, !.pc = IF more THEN "upsert" ELSE "next",
                   !.line = 0, !.units = 0]

\* ... then the totals of the line, by an atomic increment.
Increment(a) ==
    /\ run[a].pc = "increment"
    /\ LET l == run[a].line
           n == run[a].units
       IN  IF run[a].side = "buy"
           THEN bought' = [bought EXCEPT ![l] = @ + n] /\ UNCHANGED sold
           ELSE sold' = [sold EXCEPT ![l] = @ + n] /\ UNCHANGED bought
    /\ Becomes(a, Incremented(a))
    /\ UNCHANGED <<imported, alloc, failures>>

\* After the buys the sales; then the run returns.
EndSide(a) ==
    /\ run[a].pc = "next" /\ run[a].todo = {}
    /\ Becomes(a, IF run[a].side = "buy" THEN [NoRun EXCEPT !.pc = "txs", !.side = "sell"] ELSE NoRun)
    /\ UNCHANGED <<imported, alloc, bought, sold, failures>>

\* An await throws, or the process dies: what is written stays.
FailRun(a) ==
    /\ run[a].pc # "idle"
    /\ failures < MaxFailures
    /\ failures' = failures + 1
    /\ Becomes(a, NoRun)
    /\ UNCHANGED <<imported, alloc, bought, sold>>

StepRun(a) ==
    \/ StartRun(a) \/ LoadTxs(a) \/ LoadLines(a) \/ NextTx(a)
    \/ Upsert(a) \/ Increment(a) \/ EndSide(a)

AllocNext ==
    \/ \E t \in Tx : Import(t)
    \/ \E a \in Run : StepRun(a) \/ FailRun(a)

AllocSpec == AllocInit /\ [][AllocNext]_allocVars

\* The cron job starts a run every hour, and the awaits of a run settle.
AllocFairSpec == AllocSpec /\ \A a \in Run : WF_allocVars(StepRun(a))

--------------------------------------------------------------------------------
(* Properties.  Those marked [serial] are promised while runs do not        *)
(* overlap.                                                                 *)

\* [serial] No unit of a wallet transaction is allocated twice, over all lines
\* and all runs, also by the runs after one that stopped between the row and the
\* line (allocation.service.ts:176).
NoDoubleAllocation == \A t \in Tx : AlreadyAllocated(t) <= Qty[t]

\* [serial] No line is filled beyond its plan, nor sold beyond what was bought,
\* though a run decides by the copy of the lines it loaded at its start.
WithinCapacity == \A l \in Line : bought[l] <= Planned[l] /\ sold[l] <= bought[l]

\* The totals of a line never exceed its allocation rows: the row is written
\* first, so a run that stops in between leaves too low a total, never units
\* without a transaction behind them.
TotalsHaveRows ==
    \A l \in Line :
        /\ bought[l] <= Total([t \in Tx |-> alloc[t][l]], Buys)
        /\ sold[l] <= Total([t \in Tx |-> alloc[t][l]], Tx \ Buys)

\* The lines of t have no room for more of t.
Full(t) ==
    \A l \in Matches[t] : IF t \in Buys THEN bought[l] >= Planned[l] ELSE sold[l] >= bought[l]

\* [serial] When a run has walked through its transactions, it has left nothing
\* to allocate: each transaction it loaded is used up, or every line that
\* matches it is full.  The next run over the same transactions changes nothing.
Exhaustive ==
    [][\A a \in Run : EndSide(a) =>
          \A t \in run[a].txs : AlreadyAllocated(t) = Qty[t] \/ Full(t)]_allocVars

\* [serial] The wallet activity catches up: once a transaction is imported, the
\* hourly runs bring it to the lines as far as these have room, although some
\* runs fail and the import stores transactions out of order.
EventuallyAllocated ==
    \A t \in Tx : t \in imported ~> (AlreadyAllocated(t) = Qty[t] \/ Full(t))

================================================================================
