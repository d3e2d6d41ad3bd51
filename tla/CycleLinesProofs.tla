--------------------------- MODULE CycleLinesProofs ---------------------------
(***************************************************************************)
(* What the two writers of a Cycle's lines promise.                        *)
(*                                                                         *)
(* Allocation, for all transactions, lines and plans: the totals of the    *)
(* lines have rows behind them, for any number of runs at once; and while  *)
(* runs do not overlap, nothing is allocated twice or beyond the plan, and *)
(* a run leaves nothing it could have allocated.                           *)
(*                                                                         *)
(* MarketLines, for all types, packages, plans, batches and keys: while    *)
(* requests do not overlap, what a line has room for, with the job's       *)
(* allocations between what a request reads and what it writes, and what   *)
(* becomes of the idempotency keys.                                        *)
(***************************************************************************)
EXTENDS Allocation, MarketLines, TotalsProofs

(* --------------------------- 1. The allocation --------------------------- *)

\* The job awaits a run before it starts the next one.
SerialRuns == \A a, b \in Run : a = b

Sides == {"buy", "sell"}
TxsOf(s) == IF s = "buy" THEN Buys ELSE Tx \ Buys

RunType == [pc : {"idle", "txs", "lines", "next", "upsert", "increment"}, side : Sides,
            txs : SUBSET Tx, todo : SUBSET Tx, bought : [Line -> Nat], sold : [Line -> Nat],
            tx : Tx \cup {0}, left : Nat, line : Line \cup {0}, units : Nat]

RunsTyped ==
    /\ imported \subseteq Tx
    /\ alloc \in [Tx -> [Line -> Nat]]
    /\ bought \in [Line -> Nat] /\ sold \in [Line -> Nat]
    /\ run \in [Run -> RunType]
    /\ failures \in 0..MaxFailures

\* Capacity, of a run's local variables.
Room(r, l) ==
    IF r.side = "buy"
    THEN IF r.bought[l] < Planned[l] THEN Planned[l] - r.bought[l] ELSE 0
    ELSE IF r.sold[l] < r.bought[l] THEN r.bought[l] - r.sold[l] ELSE 0

\* What a run knows at the place where it is.
Local(r) ==
    /\ r.txs \subseteq TxsOf(r.side) /\ r.todo \subseteq r.txs
    /\ r.pc \in {"upsert", "increment"} => r.tx \in r.txs \ r.todo /\ r.left > 0
    /\ r.pc = "upsert" => \E l \in Matches[r.tx] : Room(r, l) > 0
    /\ r.pc = "increment" =>
          /\ r.line \in Matches[r.tx]
          /\ r.units \in 1..r.left /\ r.units <= Room(r, r.line)
          /\ r.units = r.left \/ r.units = Room(r, r.line)

Locals == \A a \in Run : Local(run[a]) /\ run[a].txs \subseteq imported

\* The units of side s whose row is written and whose line l is not yet incremented.
Pending(s, l) ==
    [a \in Run |-> IF run[a].pc = "increment" /\ run[a].side = s /\ run[a].line = l
                   THEN run[a].units ELSE 0]
Column(l) == [t \in Tx |-> alloc[t][l]]
Counted(s) == IF s = "buy" THEN bought ELSE sold

\* TotalsHaveRows counts what is on its way to the lines as well.
RowsAhead ==
    \A s \in Sides, l \in Line :
        Counted(s)[l] + Total(Pending(s, l), Run) <= Total(Column(l), TxsOf(s))

AllocInv == RunsTyped /\ Locals /\ RowsAhead

\* In a serial world a run's copy of the lines is the lines.
Fresh ==
    \A a \in Run : run[a].pc \in {"next", "upsert", "increment"} =>
        run[a].bought = bought /\ run[a].sold = sold

\* ... and what a run holds of its transaction is what is not allocated of it.
LeftIsLeft ==
    \A a \in Run :
        LET r == run[a]
        IN  /\ r.pc = "upsert" => Qty[r.tx] = AlreadyAllocated(r.tx) + r.left
            /\ r.pc = "increment" => Qty[r.tx] + r.units = AlreadyAllocated(r.tx) + r.left

InHand(r, t) == r.pc \in {"upsert", "increment"} /\ t = r.tx

\* What a run has walked past is allocated as far as possible.
Walked ==
    \A a \in Run : \A t \in run[a].txs \ run[a].todo :
        InHand(run[a], t) \/ AlreadyAllocated(t) = Qty[t] \/ Full(t)

SerialInv == Fresh /\ LeftIsLeft /\ Walked /\ NoDoubleAllocation /\ WithinCapacity

--------------------------------------------------------------------------------
(* Numbers. *)

\* The smallest of some naturals is one of them.
LEMMA MinOfNats ==
    ASSUME NEW S \in SUBSET Nat, S # {}
    PROVE  Min(S) \in S /\ \A x \in S : Min(S) <= x
<1>1. PICK y \in S : \A z \in S : ~(<<z, y>> \in OpToRel(<, Nat))
  BY WFMin, NatLessThanWellFounded
<1>2. \A z \in S : ~(z < y)
  BY <1>1 DEF OpToRel
<1>3. \A z \in S : y <= z
  BY <1>2
<1> QED BY <1>3 DEF Min

LEMMA MinOfTwo ==
    ASSUME NEW m \in Nat, NEW n \in Nat
    PROVE  /\ Min({m, n}) \in Nat /\ Min({m, n}) <= m /\ Min({m, n}) <= n
           /\ Min({m, n}) = m \/ Min({m, n}) = n
  BY MinOfNats

\* The sums are those of naturals over finite sets.
LEMMA Sums ==
    ASSUME RunsTyped
    PROVE  /\ \A t \in Tx : /\ AlreadyAllocated(t) \in Nat
                            /\ \A l \in Line : alloc[t][l] \in Nat /\ alloc[t][l] <= AlreadyAllocated(t)
           /\ \A s \in Sides : TxsOf(s) \subseteq Tx /\ IsFiniteSet(TxsOf(s))
           /\ \A l \in Line, t \in Tx : Column(l)[t] = alloc[t][l] /\ Column(l)[t] \in Nat
           /\ \A s \in Sides, l \in Line : Total(Column(l), TxsOf(s)) \in Nat
           /\ \A s \in Sides, l \in Line : \A a \in Run : Pending(s, l)[a] \in Nat
           /\ \A s \in Sides, l \in Line : Total(Pending(s, l), Run) \in Nat
<1>1. IsFiniteSet(Run) /\ IsFiniteSet(Tx) /\ IsFiniteSet(Line)
  BY AllocationAssumption
<1>2. \A t \in Tx, l \in Line : alloc[t][l] \in Nat
  BY DEF RunsTyped
<1>3. ASSUME NEW t \in Tx
      PROVE  AlreadyAllocated(t) \in Nat /\ \A l \in Line : alloc[t][l] <= AlreadyAllocated(t)
  BY <1>1, <1>2, UnitsFinite, TotalBoundsEach DEF AlreadyAllocated
<1>4. \A s \in Sides : TxsOf(s) \subseteq Tx /\ IsFiniteSet(TxsOf(s))
  <2>1. \A s \in Sides : TxsOf(s) \in SUBSET Tx
    BY AllocationAssumption DEF TxsOf, Sides
  <2> QED BY <1>1, <2>1, FS_Subset
<1>5. \A l \in Line, t \in Tx : Column(l)[t] = alloc[t][l] /\ Column(l)[t] \in Nat
  BY <1>2 DEF Column
<1>6. \A s \in Sides, l \in Line : Total(Column(l), TxsOf(s)) \in Nat
  BY <1>4, <1>5, UnitsFinite
<1>7. \A s \in Sides, l \in Line : \A a \in Run : Pending(s, l)[a] \in Nat
  BY DEF Pending, RunsTyped, RunType
<1>8. \A s \in Sides, l \in Line : Total(Pending(s, l), Run) \in Nat
  BY <1>1, <1>7, UnitsFinite
<1> QED BY <1>2, <1>3, <1>4, <1>5, <1>6, <1>7, <1>8

--------------------------------------------------------------------------------
(* The invariant for any number of runs. *)

LEMMA NoRunIs == /\ NoRun \in RunType /\ Local(NoRun)
                 /\ NoRun.pc = "idle" /\ NoRun.txs = {} /\ NoRun.todo = {}
  BY DEF NoRun, RunType, Local, TxsOf, Sides

LEMMA AllocStart == AllocInit => AllocInv
<1> SUFFICES ASSUME AllocInit PROVE AllocInv
  OBVIOUS
<1>1. RunsTyped
  BY NoRunIs, AllocationAssumption DEF AllocInit, RunsTyped
<1>2. Locals
  BY NoRunIs DEF AllocInit, Locals
<1>3. \A s \in Sides, l \in Line : Counted(s)[l] = 0
  BY DEF AllocInit, Counted
<1>4. ASSUME NEW s \in Sides, NEW l \in Line PROVE Total(Pending(s, l), Run) = 0
  <2>1. \A a \in Run : Pending(s, l)[a] = 0
    BY NoRunIs DEF AllocInit, Pending
  <2> QED BY <2>1, AllocationAssumption, TotalZero
<1>5. RowsAhead
  BY <1>1, <1>3, <1>4, Sums DEF RowsAhead
<1> QED BY <1>1, <1>2, <1>5 DEF AllocInv

\* A step that writes no row and leaves the lines alone.
LEMMA RunStep ==
    ASSUME AllocInv, NEW a \in Run, NEW new \in RunType, Local(new), new.txs \subseteq imported,
           new.pc # "increment", run' = [run EXCEPT ![a] = new],
           UNCHANGED <<imported, alloc, bought, sold>>, failures' \in 0..MaxFailures
    PROVE  AllocInv'
<1>1. RunsTyped'
  BY DEF AllocInv, RunsTyped
<1>2. run'[a] = new /\ \A b \in Run \ {a} : run'[b] = run[b]
  BY DEF AllocInv, RunsTyped
<1>3. Locals'
  BY <1>2 DEF AllocInv, Locals
<1>4. ASSUME NEW s \in Sides, NEW l \in Line
      PROVE  Total(Pending(s, l)', Run) <= Total(Pending(s, l), Run)
  <2>1. \A b \in Run : Pending(s, l)'[b] \in Nat /\ Pending(s, l)[b] \in Nat
    BY <1>1, Sums DEF AllocInv, RunsTyped, Pending, RunType
  <2>2. \A b \in Run : Pending(s, l)'[b] <= Pending(s, l)[b]
    BY <1>2, <2>1 DEF Pending
  <2> QED BY <2>1, <2>2, AllocationAssumption, TotalMonotonic
<1>5. RowsAhead'
  <2> SUFFICES ASSUME NEW s \in Sides, NEW l \in Line
               PROVE  (Counted(s)[l] + Total(Pending(s, l), Run) <= Total(Column(l), TxsOf(s)))'
    BY DEF RowsAhead
  <2>1. Counted(s)' = Counted(s) /\ Column(l)' = Column(l)
    BY DEF Counted, Column
  <2>2. Counted(s)[l] \in Nat
    BY DEF AllocInv, RunsTyped, Counted
  <2>3. Total(Pending(s, l), Run)' = Total(Pending(s, l)', Run)
    OBVIOUS
  <2>4. Total(Pending(s, l)', Run) \in Nat
    <3>1. \A b \in Run : Pending(s, l)'[b] \in Nat
      BY <1>1 DEF RunsTyped, Pending, RunType
    <3> QED BY <3>1, AllocationAssumption, UnitsFinite
  <2> QED
    BY <1>4, <2>1, <2>2, <2>3, <2>4, Sums DEF AllocInv, RowsAhead
<1> QED BY <1>1, <1>3, <1>5 DEF AllocInv

LEMMA CapacityIsRoom ==
    ASSUME RunsTyped, NEW a \in Run, NEW l \in Line
    PROVE  Capacity(a, l) = Room(run[a], l) /\ Room(run[a], l) \in Nat
  BY AllocationAssumption DEF Capacity, Room, RunsTyped, RunType

\* The earliest transaction left is skipped or taken in hand.
LEMMA NextTxShape ==
    ASSUME AllocInv, NEW a \in Run, NextTx(a)
    PROVE  \E t \in run[a].todo, new \in RunType :
              /\ run' = [run EXCEPT ![a] = new]
              /\ new.side = run[a].side /\ new.txs = run[a].txs /\ new.todo = run[a].todo \ {t}
              /\ new.bought = run[a].bought /\ new.sold = run[a].sold
              /\ \/ /\ new.pc = "next"
                    /\ AlreadyAllocated(t) >= Qty[t] \/ \A l \in Matches[t] : Room(run[a], l) = 0
                 \/ /\ new.pc = "upsert" /\ new.tx = t /\ new.left > 0
                    /\ Qty[t] = AlreadyAllocated(t) + new.left
                    /\ \E l \in Matches[t] : Room(run[a], l) > 0
<1> DEFINE t == Min(run[a].todo)
           skipped == [run[a] EXCEPT !.todo = @ \ {t}]
           taken == [run[a] EXCEPT !.pc = "upsert", !.todo = @ \ {t}, !.tx = t,
                                   !.left = Qty[t] - AlreadyAllocated(t)]
           done == AlreadyAllocated(t) >= Qty[t] \/ Open(a, t) = {}
<1>1. run[a] \in RunType /\ run[a].todo \subseteq Tx /\ run[a].todo # {} /\ run[a].pc = "next"
  BY DEF AllocInv, RunsTyped, RunType, NextTx
<1>2. t \in run[a].todo /\ t \in Tx
  BY <1>1, MinOfNats, AllocationAssumption
<1>3. AlreadyAllocated(t) \in Nat /\ Qty[t] \in Nat
  BY <1>2, Sums, AllocationAssumption DEF AllocInv
<1>4. \A l \in Matches[t] : l \in Line /\ Capacity(a, l) = Room(run[a], l) /\ Room(run[a], l) \in Nat
  BY <1>2, CapacityIsRoom, AllocationAssumption DEF AllocInv
<1>5. run' = [run EXCEPT ![a] = IF done THEN skipped ELSE taken]
  BY DEF NextTx, Becomes
<1>6. CASE done
  <2>1. /\ skipped \in RunType /\ skipped.pc = "next"
        /\ skipped.side = run[a].side /\ skipped.txs = run[a].txs /\ skipped.todo = run[a].todo \ {t}
        /\ skipped.bought = run[a].bought /\ skipped.sold = run[a].sold
    BY <1>1 DEF RunType
  <2>2. AlreadyAllocated(t) >= Qty[t] \/ \A l \in Matches[t] : Room(run[a], l) = 0
    BY <1>4, <1>6 DEF Open
  <2>3. run' = [run EXCEPT ![a] = skipped]
    BY <1>5, <1>6
  <2> HIDE DEF t, skipped
  <2> QED BY <1>2, <2>1, <2>2, <2>3
<1>7. CASE ~done
  <2>1. Qty[t] - AlreadyAllocated(t) \in Nat /\ Qty[t] - AlreadyAllocated(t) > 0
    BY <1>3, <1>7
  <2>2. /\ taken \in RunType /\ taken.pc = "upsert" /\ taken.tx = t
        /\ taken.left = Qty[t] - AlreadyAllocated(t)
        /\ taken.side = run[a].side /\ taken.txs = run[a].txs /\ taken.todo = run[a].todo \ {t}
        /\ taken.bought = run[a].bought /\ taken.sold = run[a].sold
    BY <1>1, <1>2, <2>1 DEF RunType
  <2>3. \E l \in Matches[t] : Room(run[a], l) > 0
    BY <1>4, <1>7 DEF Open
  <2>4. run' = [run EXCEPT ![a] = taken]
    BY <1>5, <1>7
  <2>5. Qty[t] = AlreadyAllocated(t) + taken.left
    BY <1>3, <2>2
  <2> HIDE DEF t, taken
  <2> QED BY <1>2, <2>1, <2>2, <2>3, <2>4, <2>5
<1> QED BY <1>6, <1>7

\* Units of the transaction in hand, as many as fit, go to a line with room.
LEMMA UpsertShape ==
    ASSUME AllocInv, NEW a \in Run, Upsert(a)
    PROVE  \E l \in Matches[run[a].tx], n \in 1..run[a].left :
              /\ n <= Room(run[a], l) /\ (n = run[a].left \/ n = Room(run[a], l))
              /\ alloc' = [alloc EXCEPT ![run[a].tx] = [alloc[run[a].tx] EXCEPT ![l] = @ + n]]
              /\ run' = [run EXCEPT ![a] =
                            [run[a] EXCEPT !.pc = "increment", !.line = l, !.units = n]]
<1> DEFINE t == run[a].tx
           l == Min(Open(a, t))
           n == Min({run[a].left, Capacity(a, l)})
<1>1. run[a].pc = "upsert" /\ t \in run[a].txs /\ run[a].left \in Nat \ {0} /\ t \in Tx
  BY DEF AllocInv, RunsTyped, Locals, Local, RunType, Upsert
<1>2. \A k \in Matches[t] : k \in Line /\ Capacity(a, k) = Room(run[a], k) /\ Room(run[a], k) \in Nat
  BY <1>1, CapacityIsRoom, AllocationAssumption DEF AllocInv
<1>3. Open(a, t) # {}
  BY <1>1, <1>2 DEF AllocInv, Locals, Local, Open
<1>4. Open(a, t) \in SUBSET Nat
  BY <1>1, AllocationAssumption DEF Open
<1>5. l \in Open(a, t)
  BY <1>3, <1>4, MinOfNats
<1>6. l \in Matches[t] /\ Room(run[a], l) \in Nat \ {0} /\ Capacity(a, l) = Room(run[a], l)
  BY <1>2, <1>5 DEF Open
<1>7. n \in Nat /\ n <= run[a].left /\ n <= Room(run[a], l) /\ (n = run[a].left \/ n = Room(run[a], l))
  BY <1>1, <1>6, MinOfTwo
<1>8. n \in 1..run[a].left
  BY <1>1, <1>6, <1>7
<1>9. /\ alloc' = [alloc EXCEPT ![t] = [alloc[t] EXCEPT ![l] = @ + n]]
      /\ run' = [run EXCEPT ![a] = [run[a] EXCEPT !.pc = "increment", !.line = l, !.units = n]]
  BY <1>1 DEF Upsert, Becomes, AllocInv, RunsTyped
<1> HIDE DEF l, n
<1> QED BY <1>6, <1>7, <1>8, <1>9

\* The line of the row just written is incremented, in the table and in the
\* run's copy; the run goes on with another line only if one has room.
LEMMA IncrementShape ==
    ASSUME AllocInv, NEW a \in Run, Increment(a)
    PROVE  LET r == run[a]
               l == r.line
               n == r.units
           IN  \E new \in RunType :
              /\ run' = [run EXCEPT ![a] = new]
              /\ IF r.side = "buy"
                 THEN /\ bought' = [bought EXCEPT ![l] = @ + n] /\ sold' = sold
                      /\ new.bought = [r.bought EXCEPT ![l] = @ + n] /\ new.sold = r.sold
                 ELSE /\ sold' = [sold EXCEPT ![l] = @ + n] /\ bought' = bought
                      /\ new.sold = [r.sold EXCEPT ![l] = @ + n] /\ new.bought = r.bought
              /\ new.side = r.side /\ new.txs = r.txs /\ new.todo = r.todo /\ new.tx = r.tx
              /\ new.left = r.left - n
              /\ \/ /\ new.pc = "upsert" /\ r.left > n
                    /\ \E k \in Matches[r.tx] \ {l} : Room(r, k) > 0
                 \/ /\ new.pc = "next"
                    /\ r.left = n \/ \A k \in Matches[r.tx] \ {l} : Room(r, k) = 0
<1> DEFINE r == run[a]
           l == r.line
           n == r.units
           me == IF r.side = "buy" THEN [r EXCEPT !.bought = [r.bought EXCEPT ![l] = @ + n]]
                 ELSE [r EXCEPT !.sold = [r.sold EXCEPT ![l] = @ + n]]
           more == r.left > n /\ Open(a, r.tx) \ {l} # {}
           new == [me EXCEPT !.left = @ - n, !.pc = IF more THEN "upsert" ELSE "next",
                             !.line = 0, !.units = 0]
<1>1. /\ r \in RunType /\ r.pc = "increment" /\ r.tx \in Tx /\ l \in Line
      /\ n \in 1..r.left /\ r.left \in Nat
  BY AllocationAssumption DEF AllocInv, RunsTyped, Locals, Local, RunType, Increment
<1>2. \A k \in Matches[r.tx] : Capacity(a, k) = Room(r, k) /\ Room(r, k) \in Nat
  BY <1>1, CapacityIsRoom, AllocationAssumption DEF AllocInv
<1>3. Incremented(a) = new
  BY <1>1 DEF Incremented, RunType
<1>4. run' = [run EXCEPT ![a] = new]
  BY <1>3 DEF Increment, Becomes
<1>5. /\ r.bought \in [Line -> Nat] /\ r.sold \in [Line -> Nat] /\ r.left - n \in Nat
      /\ [r.bought EXCEPT ![l] = @ + n] \in [Line -> Nat]
      /\ [r.sold EXCEPT ![l] = @ + n] \in [Line -> Nat]
  BY <1>1 DEF RunType
<1>6. /\ me \in RunType /\ me.left = r.left
      /\ me.side = r.side /\ me.txs = r.txs /\ me.todo = r.todo /\ me.tx = r.tx
      /\ IF r.side = "buy" THEN me.bought = [r.bought EXCEPT ![l] = @ + n] /\ me.sold = r.sold
         ELSE me.sold = [r.sold EXCEPT ![l] = @ + n] /\ me.bought = r.bought
  <2>1. CASE r.side = "buy"
    BY <1>1, <1>5, <2>1 DEF RunType
  <2>2. CASE r.side # "buy"
    BY <1>1, <1>5, <2>2 DEF RunType
  <2> QED BY <2>1, <2>2
<1>7. IF r.side = "buy" THEN bought' = [bought EXCEPT ![l] = @ + n] /\ sold' = sold
      ELSE sold' = [sold EXCEPT ![l] = @ + n] /\ bought' = bought
  BY DEF Increment
<1> HIDE DEF me
<1>8. /\ new \in RunType /\ new.left = r.left - n /\ new.pc = IF more THEN "upsert" ELSE "next"
      /\ new.side = r.side /\ new.txs = r.txs /\ new.todo = r.todo /\ new.tx = r.tx
      /\ new.bought = me.bought /\ new.sold = me.sold
  BY <1>1, <1>5, <1>6 DEF RunType
<1>9. more => r.left > n /\ \E k \in Matches[r.tx] \ {l} : Room(r, k) > 0
  BY <1>2 DEF Open
<1>10. ~more => r.left = n \/ \A k \in Matches[r.tx] \ {l} : Room(r, k) = 0
  BY <1>1, <1>2 DEF Open
<1> HIDE DEF new, more
<1> QED
  BY <1>4, <1>6, <1>7, <1>8, <1>9, <1>10

LEMMA NextTxStep == ASSUME AllocInv, NEW a \in Run, NextTx(a) PROVE AllocInv'
<1>1. PICK t \in run[a].todo, new \in RunType :
              /\ run' = [run EXCEPT ![a] = new]
              /\ new.side = run[a].side /\ new.txs = run[a].txs /\ new.todo = run[a].todo \ {t}
              /\ new.bought = run[a].bought /\ new.sold = run[a].sold
              /\ \/ new.pc = "next"
                 \/ /\ new.pc = "upsert" /\ new.tx = t /\ new.left > 0
                    /\ \E l \in Matches[t] : Room(run[a], l) > 0
  BY NextTxShape
<1>2. Local(run[a]) /\ run[a].txs \subseteq imported /\ failures \in 0..MaxFailures
  BY DEF AllocInv, Locals, RunsTyped
<1>3. \A l : Room(new, l) = Room(run[a], l)
  BY <1>1 DEF Room
<1>4. Local(new) /\ new.txs \subseteq imported /\ new.pc # "increment"
  BY <1>1, <1>2, <1>3 DEF Local
<1>5. UNCHANGED <<imported, alloc, bought, sold, failures>>
  BY DEF NextTx
<1> QED BY <1>1, <1>2, <1>4, <1>5, RunStep

\* The other steps that write nothing.
LEMMA QuietStep ==
    ASSUME AllocInv, NEW a \in Run,
           StartRun(a) \/ LoadTxs(a) \/ LoadLines(a) \/ EndSide(a) \/ FailRun(a)
    PROVE  AllocInv'
<1>1. /\ run[a] \in RunType /\ Local(run[a]) /\ run[a].txs \subseteq imported
      /\ failures \in 0..MaxFailures /\ MaxFailures \in Nat
      /\ imported \subseteq Tx /\ bought \in [Line -> Nat] /\ sold \in [Line -> Nat]
  BY AllocationAssumption DEF AllocInv, Locals, RunsTyped
<1>2. UNCHANGED <<imported, alloc, bought, sold>> /\ failures' \in 0..MaxFailures
  BY <1>1 DEF StartRun, LoadTxs, LoadLines, EndSide, FailRun
<1>3. CASE StartRun(a)
  <2> DEFINE new == [NoRun EXCEPT !.pc = "txs"]
  <2>1. new \in RunType /\ Local(new) /\ new.txs \subseteq imported /\ new.pc = "txs"
    BY DEF NoRun, RunType, Sides, Local
  <2>2. run' = [run EXCEPT ![a] = new]
    BY <1>3 DEF StartRun, Becomes
  <2> HIDE DEF new
  <2> QED BY <1>2, <2>1, <2>2, RunStep
<1>4. CASE LoadTxs(a)
  <2> DEFINE txs == IF run[a].side = "buy" THEN imported \cap Buys ELSE imported \ Buys
             new == [run[a] EXCEPT !.pc = "lines", !.txs = txs, !.todo = txs]
  <2>1. txs \subseteq imported /\ txs \subseteq Tx /\ txs \subseteq TxsOf(run[a].side)
    BY <1>1 DEF TxsOf
  <2> HIDE DEF txs
  <2>2. /\ new \in RunType /\ new.txs = txs /\ new.todo = txs /\ new.pc = "lines"
        /\ new.side = run[a].side
    BY <1>1, <2>1 DEF RunType
  <2>3. run' = [run EXCEPT ![a] = new]
    BY <1>4 DEF LoadTxs, Becomes, txs
  <2> HIDE DEF new
  <2>4. Local(new)
    BY <2>1, <2>2 DEF Local
  <2> QED BY <1>2, <2>1, <2>2, <2>3, <2>4, RunStep
<1>5. CASE LoadLines(a)
  <2> DEFINE new == [run[a] EXCEPT !.pc = "next", !.bought = bought, !.sold = sold]
  <2>1. /\ new \in RunType /\ new.pc = "next" /\ new.txs = run[a].txs /\ new.todo = run[a].todo
        /\ new.side = run[a].side
    BY <1>1 DEF RunType
  <2>2. run' = [run EXCEPT ![a] = new]
    BY <1>5 DEF LoadLines, Becomes
  <2> HIDE DEF new
  <2>3. Local(new)
    BY <1>1, <2>1 DEF Local
  <2> QED BY <1>1, <1>2, <2>1, <2>2, <2>3, RunStep
<1>6. CASE EndSide(a)
  <2> DEFINE sales == [NoRun EXCEPT !.pc = "txs", !.side = "sell"]
  <2>1. sales \in RunType /\ Local(sales) /\ sales.txs \subseteq imported /\ sales.pc = "txs"
    BY DEF NoRun, RunType, Sides, Local
  <2>2. run' = [run EXCEPT ![a] = sales] \/ run' = [run EXCEPT ![a] = NoRun]
    BY <1>6 DEF EndSide, Becomes
  <2> HIDE DEF sales
  <2> QED BY <1>2, <2>1, <2>2, RunStep, NoRunIs
<1>7. CASE FailRun(a)
  <2>1. run' = [run EXCEPT ![a] = NoRun]
    BY <1>7 DEF FailRun, Becomes
  <2> QED BY <1>2, <2>1, RunStep, NoRunIs
<1> QED BY <1>3, <1>4, <1>5, <1>6, <1>7

\* The row is written: the units become pending.
LEMMA UpsertStep == ASSUME AllocInv, NEW a \in Run, Upsert(a) PROVE AllocInv'
<1> DEFINE t == run[a].tx
<1>1. PICK l \in Matches[t], n \in 1..run[a].left :
              /\ n <= Room(run[a], l) /\ (n = run[a].left \/ n = Room(run[a], l))
              /\ alloc' = [alloc EXCEPT ![t] = [alloc[t] EXCEPT ![l] = @ + n]]
              /\ run' = [run EXCEPT ![a] =
                            [run[a] EXCEPT !.pc = "increment", !.line = l, !.units = n]]
  BY UpsertShape
<1> DEFINE new == [run[a] EXCEPT !.pc = "increment", !.line = l, !.units = n]
<1>2. /\ run[a] \in RunType /\ Local(run[a]) /\ run[a].txs \subseteq imported
      /\ run[a].pc = "upsert" /\ t \in run[a].txs /\ run[a].left \in Nat
      /\ UNCHANGED <<imported, bought, sold, failures>>
  BY DEF AllocInv, Locals, Local, RunsTyped, RunType, Upsert
<1>3. t \in Tx /\ l \in Line /\ n \in Nat \ {0} /\ n <= run[a].left
  BY <1>1, <1>2, AllocationAssumption DEF RunType
<1>4. /\ new \in RunType /\ new.pc = "increment" /\ new.line = l /\ new.units = n
      /\ new.side = run[a].side /\ new.txs = run[a].txs /\ new.todo = run[a].todo
      /\ new.tx = t /\ new.left = run[a].left
      /\ new.bought = run[a].bought /\ new.sold = run[a].sold
  BY <1>2, <1>3 DEF RunType
<1>5. run' = [run EXCEPT ![a] = new]
  BY <1>1
<1> HIDE DEF new
<1>6. Room(new, l) = Room(run[a], l)
  BY <1>4 DEF Room
<1>7. Local(new) /\ new.txs \subseteq imported
  BY <1>1, <1>2, <1>3, <1>4, <1>6 DEF Local
<1>8. RunsTyped'
  BY <1>1, <1>2, <1>3, <1>4, <1>5 DEF AllocInv, RunsTyped
<1>9. run'[a] = new /\ \A b \in Run \ {a} : run'[b] = run[b]
  BY <1>5 DEF AllocInv, RunsTyped
<1>10. Locals'
  BY <1>2, <1>7, <1>9 DEF AllocInv, Locals
<1>11. ASSUME NEW s \in Sides, NEW k \in Line
       PROVE  (Counted(s)[k] + Total(Pending(s, k), Run) <= Total(Column(k), TxsOf(s)))'
  <2>1. Counted(s)' = Counted(s) /\ Counted(s)[k] \in Nat
    BY <1>2 DEF Counted, AllocInv, RunsTyped
  <2>2. /\ \A u \in Tx : Column(k)'[u] = alloc'[u][k] /\ Column(k)'[u] \in Nat
        /\ \A u \in Tx : Column(k)[u] = alloc[u][k] /\ Column(k)[u] \in Nat
    BY <1>8 DEF Column, AllocInv, RunsTyped
  <2>3. /\ \A b \in Run : Pending(s, k)'[b] \in Nat /\ Pending(s, k)[b] \in Nat
        /\ \A b \in Run \ {a} : Pending(s, k)'[b] = Pending(s, k)[b]
        /\ Pending(s, k)[a] = 0
        /\ Pending(s, k)'[a] = IF run[a].side = s /\ l = k THEN n ELSE 0
    BY <1>2, <1>3, <1>4, <1>8, <1>9 DEF Pending, AllocInv, RunsTyped, RunType
  <2>4. /\ TxsOf(s) \subseteq Tx /\ IsFiniteSet(TxsOf(s))
        /\ Total(Column(k), TxsOf(s)) \in Nat /\ Total(Pending(s, k), Run) \in Nat
    BY Sums DEF AllocInv
  <2>5. Counted(s)[k] + Total(Pending(s, k), Run) <= Total(Column(k), TxsOf(s))
    BY DEF AllocInv, RowsAhead
  <2>6. CASE run[a].side = s /\ l = k
    <3>1. t \in TxsOf(s)
      BY <1>2, <2>6 DEF Local
    <3>2. Column(k)'[t] = Column(k)[t] + n /\ \A u \in Tx \ {t} : Column(k)'[u] = Column(k)[u]
      BY <1>1, <1>3, <2>2, <2>6 DEF AllocInv, RunsTyped
    <3>3. Total(Column(k)', TxsOf(s)) = Total(Column(k), TxsOf(s)) - Column(k)[t] + Column(k)'[t]
      BY <2>2, <2>4, <3>1, <3>2, TotalChange
    <3>4. Total(Pending(s, k)', Run) = Total(Pending(s, k), Run) - Pending(s, k)[a] + Pending(s, k)'[a]
      BY <2>3, AllocationAssumption, TotalChange
    <3>5. Total(Column(k)', TxsOf(s)) = Total(Column(k), TxsOf(s)) + n
      BY <1>3, <2>2, <2>4, <3>2, <3>3
    <3>6. Total(Pending(s, k)', Run) = Total(Pending(s, k), Run) + n
      BY <1>3, <2>3, <2>4, <2>6, <3>4
    <3> QED BY <1>3, <2>1, <2>4, <2>5, <3>5, <3>6
  <2>7. CASE ~(run[a].side = s /\ l = k)
    <3>1. \A u \in TxsOf(s) : Column(k)'[u] = Column(k)[u]
      <4>1. CASE l # k
        BY <1>1, <1>3, <2>2, <2>4, <4>1 DEF AllocInv, RunsTyped
      <4>2. CASE run[a].side # s
        <5>1. t \notin TxsOf(s)
          BY <1>2, <4>2, AllocationAssumption DEF Local, TxsOf, Sides, RunType
        <5> QED BY <1>1, <1>3, <2>2, <2>4, <5>1 DEF AllocInv, RunsTyped
      <4> QED BY <2>7, <4>1, <4>2
    <3>2. Total(Column(k)', TxsOf(s)) = Total(Column(k), TxsOf(s))
      BY <3>1, TotalSame
    <3>3. Total(Pending(s, k)', Run) = Total(Pending(s, k), Run)
      BY <2>3, <2>7, TotalSame
    <3> QED BY <2>1, <2>5, <3>2, <3>3
  <2> QED BY <2>6, <2>7
<1> QED BY <1>8, <1>10, <1>11 DEF AllocInv, RowsAhead

\* The line is incremented: pending units become counted units.
LEMMA IncrementStep == ASSUME AllocInv, NEW a \in Run, Increment(a) PROVE AllocInv'
<1> DEFINE r == run[a]
           l == r.line
           n == r.units
<1>1. PICK new \in RunType :
              /\ run' = [run EXCEPT ![a] = new]
              /\ IF r.side = "buy"
                 THEN /\ bought' = [bought EXCEPT ![l] = @ + n] /\ sold' = sold
                      /\ new.bought = [r.bought EXCEPT ![l] = @ + n] /\ new.sold = r.sold
                 ELSE /\ sold' = [sold EXCEPT ![l] = @ + n] /\ bought' = bought
                      /\ new.sold = [r.sold EXCEPT ![l] = @ + n] /\ new.bought = r.bought
              /\ new.side = r.side /\ new.txs = r.txs /\ new.todo = r.todo /\ new.tx = r.tx
              /\ new.left = r.left - n
              /\ \/ /\ new.pc = "upsert" /\ r.left > n
                    /\ \E k \in Matches[r.tx] \ {l} : Room(r, k) > 0
                 \/ new.pc = "next"
  BY IncrementShape
<1>2. /\ r \in RunType /\ Local(r) /\ r.txs \subseteq imported /\ r.pc = "increment"
      /\ r.tx \in Tx /\ r.tx \in r.txs \ r.todo /\ l \in Line /\ l \in Matches[r.tx]
      /\ r.left \in Nat /\ n \in Nat /\ n <= r.left
      /\ UNCHANGED <<imported, alloc, failures>>
  <2>1. r \in RunType /\ Local(r) /\ r.txs \subseteq imported
    BY DEF AllocInv, Locals, RunsTyped
  <2>2. r.pc = "increment" /\ UNCHANGED <<imported, alloc, failures>>
    BY DEF Increment
  <2>3. /\ r.tx \in r.txs \ r.todo /\ l \in Matches[r.tx] /\ n \in 1..r.left
        /\ r.left \in Nat /\ r.txs \subseteq Tx
    BY <2>1, <2>2 DEF Local, RunType
  <2>4. r.tx \in Tx
    BY <2>3
  <2>5. l \in Line
    BY <2>3, <2>4, AllocationAssumption
  <2>6. n \in Nat /\ n <= r.left
    BY <2>3
  <2> HIDE DEF r, l, n
  <2> QED BY <2>1, <2>2, <2>3, <2>4, <2>5, <2>6
<1>3. \A k \in Matches[r.tx] \ {l} : Room(new, k) = Room(r, k)
  <2>1. \A k \in Matches[r.tx] : k \in Line
    BY <1>2, AllocationAssumption
  <2>2. \A k \in Line \ {l} : new.bought[k] = r.bought[k] /\ new.sold[k] = r.sold[k]
    BY <1>1, <1>2 DEF RunType
  <2> QED BY <1>1, <2>1, <2>2 DEF Room
<1>4. Local(new) /\ new.txs \subseteq imported
  BY <1>1, <1>2, <1>3 DEF Local
<1>5. bought' \in [Line -> Nat] /\ sold' \in [Line -> Nat]
  <2>1. CASE r.side = "buy"
    BY <1>1, <1>2, <2>1 DEF AllocInv, RunsTyped
  <2>2. CASE r.side # "buy"
    BY <1>1, <1>2, <2>2 DEF AllocInv, RunsTyped
  <2> QED BY <2>1, <2>2
<1>6. RunsTyped'
  BY <1>1, <1>2, <1>5 DEF AllocInv, RunsTyped
<1>7. run'[a] = new /\ \A b \in Run \ {a} : run'[b] = run[b]
  BY <1>1 DEF AllocInv, RunsTyped
<1>8. Locals'
  BY <1>2, <1>4, <1>7 DEF AllocInv, Locals
<1>9. ASSUME NEW s \in Sides, NEW k \in Line
      PROVE  (Counted(s)[k] + Total(Pending(s, k), Run) <= Total(Column(k), TxsOf(s)))'
  <2>1. Column(k)' = Column(k)
    BY <1>2 DEF Column
  <2>2. Counted(s)[k] \in Nat
    BY DEF Counted, AllocInv, RunsTyped
  <2>3. /\ \A b \in Run : Pending(s, k)'[b] \in Nat /\ Pending(s, k)[b] \in Nat
        /\ \A b \in Run \ {a} : Pending(s, k)'[b] = Pending(s, k)[b]
        /\ Pending(s, k)[a] = IF r.side = s /\ l = k THEN n ELSE 0
        /\ Pending(s, k)'[a] = 0
    BY <1>1, <1>2, <1>6, <1>7 DEF Pending, AllocInv, RunsTyped, RunType
  <2>4. Total(Column(k), TxsOf(s)) \in Nat /\ Total(Pending(s, k), Run) \in Nat
    BY Sums DEF AllocInv
  <2>5. Counted(s)[k] + Total(Pending(s, k), Run) <= Total(Column(k), TxsOf(s))
    BY DEF AllocInv, RowsAhead
  <2>6. Total(Pending(s, k)', Run) = Total(Pending(s, k), Run) - Pending(s, k)[a] + Pending(s, k)'[a]
    BY <2>3, AllocationAssumption, TotalChange
  <2>7. Counted(s)'[k] = IF r.side = s /\ l = k THEN Counted(s)[k] + n ELSE Counted(s)[k]
    BY <1>1, <1>2 DEF Counted, AllocInv, RunsTyped, Sides, RunType
  <2> QED BY <1>2, <2>1, <2>2, <2>3, <2>4, <2>5, <2>6, <2>7
<1> QED BY <1>6, <1>8, <1>9 DEF AllocInv, RowsAhead

\* Import and stuttering.
LEMMA OtherStep ==
    ASSUME AllocInv, imported \subseteq imported', imported' \subseteq Tx,
           UNCHANGED <<alloc, bought, sold, run, failures>>
    PROVE  AllocInv'
  BY DEF AllocInv, RunsTyped, Locals, RowsAhead, Counted, Pending, Column

LEMMA AllocStep == AllocInv /\ [AllocNext]_allocVars => AllocInv'
<1> SUFFICES ASSUME AllocInv, [AllocNext]_allocVars PROVE AllocInv'
  OBVIOUS
<1>1. ASSUME NEW t \in Tx, Import(t) PROVE AllocInv'
  BY <1>1, OtherStep DEF Import, AllocInv, RunsTyped
<1>2. ASSUME NEW a \in Run, StepRun(a) PROVE AllocInv'
  BY <1>2, QuietStep, NextTxStep, UpsertStep, IncrementStep DEF StepRun
<1>3. ASSUME NEW a \in Run, FailRun(a) PROVE AllocInv'
  BY <1>3, QuietStep
<1>4. CASE UNCHANGED allocVars
  BY <1>4, OtherStep DEF allocVars, AllocInv, RunsTyped
<1> QED BY <1>1, <1>2, <1>3, <1>4 DEF AllocNext

\* Each column keeps its type and each run is where its transactions and its
\* lines allow, for any number of overlapping runs (also a run, for one).
THEOREM AllocationTyped == AllocSpec => []AllocTypeOK
<1>1. AllocInv => AllocTypeOK
  <2> SUFFICES ASSUME AllocInv, NEW a \in Run
      PROVE  /\ run[a].pc \in {"idle", "txs", "lines", "next", "upsert", "increment"}
             /\ run[a].side \in {"buy", "sell"}
             /\ run[a].todo \subseteq run[a].txs
             /\ run[a].txs \subseteq (IF run[a].side = "buy" THEN Buys ELSE Tx \ Buys)
             /\ run[a].bought \in [Line -> Nat] /\ run[a].sold \in [Line -> Nat]
             /\ run[a].pc \in {"upsert", "increment"} => run[a].tx \in imported /\ run[a].left > 0
             /\ run[a].pc = "increment" => run[a].line \in Matches[run[a].tx] /\ run[a].units > 0
    BY DEF AllocInv, RunsTyped, AllocTypeOK
  <2>1. run[a] \in RunType /\ Local(run[a]) /\ run[a].txs \subseteq imported
    BY DEF AllocInv, RunsTyped, Locals
  <2> QED BY <2>1 DEF RunType, Local, TxsOf, Sides
<1> QED BY <1>1, AllocStart, AllocStep, PTL DEF AllocSpec

\* The totals of a line never exceed its allocation rows, for any number of
\* overlapping runs and wherever each of them stops (also a run, for one).
THEOREM RowsBehindTotals == AllocSpec => []TotalsHaveRows
<1>1. AllocInv => TotalsHaveRows
  <2> SUFFICES ASSUME AllocInv, NEW l \in Line
      PROVE  bought[l] <= Total(Column(l), Buys) /\ sold[l] <= Total(Column(l), Tx \ Buys)
    BY DEF TotalsHaveRows, Column
  <2>1. \A s \in Sides : /\ Counted(s)[l] + Total(Pending(s, l), Run) <= Total(Column(l), TxsOf(s))
                         /\ Total(Pending(s, l), Run) \in Nat /\ Total(Column(l), TxsOf(s)) \in Nat
                         /\ Counted(s)[l] \in Nat
    BY Sums DEF AllocInv, RowsAhead, Counted, RunsTyped
  <2>2. \A s \in Sides : Counted(s)[l] <= Total(Column(l), TxsOf(s))
    BY <2>1
  <2> QED BY <2>2 DEF Sides, Counted, TxsOf
<1> QED BY <1>1, AllocStart, AllocStep, PTL DEF AllocSpec

--------------------------------------------------------------------------------
(* Runs that do not overlap. *)

LEMMA SerialStart == AllocInit => SerialInv
<1> SUFFICES ASSUME AllocInit PROVE SerialInv
  OBVIOUS
<1>1. \A a \in Run : run[a].pc = "idle" /\ run[a].txs = {}
  BY NoRunIs DEF AllocInit
<1>2. ASSUME NEW t \in Tx PROVE AlreadyAllocated(t) = 0
  <2>1. \A l \in Line : alloc[t][l] = 0
    BY DEF AllocInit
  <2> QED BY <2>1, AllocationAssumption, TotalZero DEF AlreadyAllocated
<1>3. NoDoubleAllocation
  BY <1>2, AllocationAssumption DEF NoDoubleAllocation
<1>4. WithinCapacity
  BY AllocationAssumption DEF WithinCapacity, AllocInit
<1> QED BY <1>1, <1>3, <1>4 DEF SerialInv, Fresh, LeftIsLeft, Walked

\* A step that writes nothing, and after which the run has no transaction in hand.
LEMMA SerialRunStep ==
    ASSUME SerialRuns, AllocInv, SerialInv, NEW a \in Run, NEW new,
           run' = [run EXCEPT ![a] = new], UNCHANGED <<alloc, bought, sold>>,
           new.pc \in {"idle", "txs", "lines", "next"},
           new.pc = "next" => new.bought = bought /\ new.sold = sold,
           \A t \in new.txs \ new.todo : AlreadyAllocated(t) = Qty[t] \/ Full(t)
    PROVE  SerialInv'
<1>1. \A b \in Run : run'[b] = new
  BY DEF SerialRuns, AllocInv, RunsTyped
<1>2. /\ \A t : AlreadyAllocated(t)' = AlreadyAllocated(t) /\ Full(t)' = Full(t)
      /\ NoDoubleAllocation' /\ WithinCapacity'
  BY DEF AlreadyAllocated, Full, SerialInv, NoDoubleAllocation, WithinCapacity
<1>3. Fresh' /\ LeftIsLeft'
  BY <1>1 DEF Fresh, LeftIsLeft
<1>4. Walked'
  BY <1>1, <1>2 DEF Walked
<1> QED BY <1>2, <1>3, <1>4 DEF SerialInv

LEMMA SerialQuietStep ==
    ASSUME SerialRuns, AllocInv, SerialInv, NEW a \in Run,
           StartRun(a) \/ LoadTxs(a) \/ LoadLines(a) \/ EndSide(a) \/ FailRun(a)
    PROVE  SerialInv'
<1>1. run[a] \in RunType /\ UNCHANGED <<alloc, bought, sold>>
  BY DEF AllocInv, RunsTyped, StartRun, LoadTxs, LoadLines, EndSide, FailRun
<1>2. CASE StartRun(a)
  <2> DEFINE new == [NoRun EXCEPT !.pc = "txs"]
  <2>1. new.pc = "txs" /\ new.txs = {} /\ run' = [run EXCEPT ![a] = new]
    BY <1>2 DEF StartRun, Becomes, NoRun
  <2> HIDE DEF new
  <2> QED BY <1>1, <2>1, SerialRunStep
<1>3. CASE LoadTxs(a)
  <2> DEFINE txs == IF run[a].side = "buy" THEN imported \cap Buys ELSE imported \ Buys
             new == [run[a] EXCEPT !.pc = "lines", !.txs = txs, !.todo = txs]
  <2>1. new.pc = "lines" /\ new.txs = txs /\ new.todo = txs /\ run' = [run EXCEPT ![a] = new]
    BY <1>1, <1>3 DEF LoadTxs, Becomes, RunType
  <2> HIDE DEF new, txs
  <2> QED BY <1>1, <2>1, SerialRunStep
<1>4. CASE LoadLines(a)
  <2> DEFINE new == [run[a] EXCEPT !.pc = "next", !.bought = bought, !.sold = sold]
  <2>1. /\ new.pc = "next" /\ new.txs = run[a].txs /\ new.todo = run[a].todo
        /\ new.bought = bought /\ new.sold = sold /\ run' = [run EXCEPT ![a] = new]
    BY <1>1, <1>4 DEF LoadLines, Becomes, RunType
  <2>2. \A t \in new.txs \ new.todo : AlreadyAllocated(t) = Qty[t] \/ Full(t)
    BY <1>4, <2>1 DEF LoadLines, SerialInv, Walked, InHand
  <2> HIDE DEF new
  <2> QED BY <1>1, <2>1, <2>2, SerialRunStep
<1>5. CASE EndSide(a)
  <2> DEFINE sales == [NoRun EXCEPT !.pc = "txs", !.side = "sell"]
  <2>1. sales.pc = "txs" /\ sales.txs = {}
    BY DEF NoRun
  <2>2. run' = [run EXCEPT ![a] = sales] \/ run' = [run EXCEPT ![a] = NoRun]
    BY <1>5 DEF EndSide, Becomes
  <2> HIDE DEF sales
  <2> QED BY <1>1, <2>1, <2>2, SerialRunStep, NoRunIs
<1>6. CASE FailRun(a)
  <2>1. run' = [run EXCEPT ![a] = NoRun]
    BY <1>6 DEF FailRun, Becomes
  <2> QED BY <1>1, <2>1, SerialRunStep, NoRunIs
<1> QED BY <1>2, <1>3, <1>4, <1>5, <1>6

\* Lines in which a run that is up to date sees no room are full.
LEMMA NoRoomIsFull ==
    ASSUME AllocInv, SerialInv, NEW a \in Run, run[a].pc \in {"next", "upsert", "increment"},
           NEW t \in TxsOf(run[a].side), NEW l \in Line, Room(run[a], l) = 0
    PROVE  IF t \in Buys THEN bought[l] >= Planned[l] ELSE sold[l] >= bought[l]
<1>1. /\ run[a].bought = bought /\ run[a].sold = sold /\ run[a].side \in Sides
      /\ bought[l] \in Nat /\ sold[l] \in Nat /\ Planned[l] \in Nat
  BY AllocationAssumption DEF AllocInv, RunsTyped, RunType, SerialInv, Fresh
<1> QED BY <1>1 DEF Room, TxsOf, Sides

LEMMA SerialNextTxStep ==
    ASSUME SerialRuns, AllocInv, SerialInv, NEW a \in Run, NextTx(a) PROVE SerialInv'
<1>1. PICK t \in run[a].todo, new \in RunType :
              /\ run' = [run EXCEPT ![a] = new]
              /\ new.side = run[a].side /\ new.txs = run[a].txs /\ new.todo = run[a].todo \ {t}
              /\ new.bought = run[a].bought /\ new.sold = run[a].sold
              /\ \/ /\ new.pc = "next"
                    /\ AlreadyAllocated(t) >= Qty[t] \/ \A l \in Matches[t] : Room(run[a], l) = 0
                 \/ /\ new.pc = "upsert" /\ new.tx = t /\ new.left > 0
                    /\ Qty[t] = AlreadyAllocated(t) + new.left
                    /\ \E l \in Matches[t] : Room(run[a], l) > 0
  BY NextTxShape
<1>2. /\ run[a].pc = "next" /\ UNCHANGED <<alloc, bought, sold>>
      /\ run[a].txs \subseteq TxsOf(run[a].side) /\ t \in run[a].txs /\ t \in Tx
      /\ run[a].bought = bought /\ run[a].sold = sold
  BY <1>1 DEF AllocInv, RunsTyped, Locals, Local, RunType, NextTx, SerialInv, Fresh
<1>3. \A u \in run[a].txs \ run[a].todo : AlreadyAllocated(u) = Qty[u] \/ Full(u)
  BY <1>2 DEF SerialInv, Walked, InHand
<1>4. CASE new.pc = "next"
  <2>1. AlreadyAllocated(t) = Qty[t] \/ Full(t)
    <3>1. CASE AlreadyAllocated(t) >= Qty[t]
      BY <1>2, <3>1, Sums, AllocationAssumption DEF AllocInv, SerialInv, NoDoubleAllocation
    <3>2. CASE \A l \in Matches[t] : Room(run[a], l) = 0
      BY <1>2, <3>2, NoRoomIsFull, AllocationAssumption DEF Full
    <3> QED BY <1>1, <1>4, <3>1, <3>2
  <2>2. \A u \in new.txs \ new.todo : AlreadyAllocated(u) = Qty[u] \/ Full(u)
    BY <1>1, <1>3, <2>1
  <2> QED BY <1>1, <1>2, <1>4, <2>2, SerialRunStep
<1>5. CASE new.pc # "next"
  <2>1. \A b \in Run : run'[b] = new
    BY <1>1 DEF SerialRuns, AllocInv, RunsTyped
  <2>2. /\ \A u : AlreadyAllocated(u)' = AlreadyAllocated(u) /\ Full(u)' = Full(u)
        /\ NoDoubleAllocation' /\ WithinCapacity'
    BY <1>2 DEF AlreadyAllocated, Full, SerialInv, NoDoubleAllocation, WithinCapacity
  <2>3. Fresh'
    BY <1>1, <1>2, <2>1 DEF Fresh
  <2>4. LeftIsLeft'
    BY <1>1, <1>5, <2>1, <2>2 DEF LeftIsLeft
  <2>5. Walked'
    BY <1>1, <1>3, <1>5, <2>1, <2>2 DEF Walked, InHand
  <2> QED BY <2>2, <2>3, <2>4, <2>5 DEF SerialInv
<1> QED BY <1>4, <1>5

LEMMA SerialUpsertStep ==
    ASSUME SerialRuns, AllocInv, SerialInv, NEW a \in Run, Upsert(a) PROVE SerialInv'
<1> DEFINE r == run[a]
<1>0. PICK t \in Tx : t = r.tx
  BY DEF AllocInv, RunsTyped, Locals, Local, RunType, Upsert
<1>1. PICK l \in Matches[r.tx], n \in 1..r.left :
              /\ n <= Room(r, l) /\ (n = r.left \/ n = Room(r, l))
              /\ alloc' = [alloc EXCEPT ![r.tx] = [alloc[r.tx] EXCEPT ![l] = @ + n]]
              /\ run' = [run EXCEPT ![a] = [r EXCEPT !.pc = "increment", !.line = l, !.units = n]]
  BY UpsertShape
<1> DEFINE new == [r EXCEPT !.pc = "increment", !.line = l, !.units = n]
<1>2. /\ r \in RunType /\ r.pc = "upsert" /\ t \in r.txs /\ t \in Tx /\ r.left \in Nat
      /\ r.bought = bought /\ r.sold = sold /\ UNCHANGED <<bought, sold>>
  BY <1>0 DEF AllocInv, RunsTyped, Locals, Local, RunType, Upsert, SerialInv, Fresh
<1>3. l \in Line /\ n \in Nat /\ n <= r.left
  BY <1>0, <1>1, <1>2, AllocationAssumption
<1>4. /\ new.pc = "increment" /\ new.units = n /\ new.txs = r.txs /\ new.todo = r.todo
      /\ new.tx = t /\ new.left = r.left /\ new.bought = bought /\ new.sold = sold
  BY <1>0, <1>2 DEF RunType
<1>5. \A b \in Run : run'[b] = new
  BY <1>1 DEF SerialRuns, AllocInv, RunsTyped
<1> HIDE DEF new
<1>6. RunsTyped' /\ RunsTyped
  BY UpsertStep DEF AllocInv
<1>7. \A u \in Tx : AlreadyAllocated(u) \in Nat /\ AlreadyAllocated(u)' \in Nat
  <2> SUFFICES ASSUME NEW u \in Tx
               PROVE  Total(alloc[u], Line) \in Nat /\ Total(alloc'[u], Line) \in Nat
    BY DEF AlreadyAllocated
  <2>1. \A k \in Line : alloc[u][k] \in Nat /\ alloc'[u][k] \in Nat
    BY <1>6 DEF RunsTyped
  <2> QED BY <2>1, AllocationAssumption, UnitsFinite
<1>8. \A u \in Tx \ {t} : AlreadyAllocated(u)' = AlreadyAllocated(u)
  BY <1>0, <1>1, <1>6 DEF AlreadyAllocated, RunsTyped
<1>9. AlreadyAllocated(t)' = AlreadyAllocated(t) + n
  <2>1. /\ \A k \in Line : alloc[t][k] \in Nat /\ alloc'[t][k] \in Nat
        /\ \A k \in Line \ {l} : alloc'[t][k] = alloc[t][k]
        /\ alloc'[t][l] = alloc[t][l] + n
    BY <1>0, <1>1, <1>2, <1>3, <1>6 DEF RunsTyped
  <2>2. Total(alloc'[t], Line) = Total(alloc[t], Line) - alloc[t][l] + alloc'[t][l]
    BY <1>3, <2>1, AllocationAssumption, TotalChange
  <2>3. AlreadyAllocated(t) = Total(alloc[t], Line) /\ AlreadyAllocated(t)' = Total(alloc'[t], Line)
    BY DEF AlreadyAllocated
  <2> QED BY <1>2, <1>3, <1>7, <2>1, <2>2, <2>3
<1>10. Qty[t] = AlreadyAllocated(t) + r.left /\ Qty[t] \in Nat
  BY <1>0, <1>2, AllocationAssumption DEF SerialInv, LeftIsLeft
<1>11. NoDoubleAllocation'
  <2>1. AlreadyAllocated(t)' <= Qty[t]
    BY <1>2, <1>3, <1>7, <1>9, <1>10
  <2>2. \A u \in Tx \ {t} : AlreadyAllocated(u)' <= Qty[u]
    BY <1>8 DEF SerialInv, NoDoubleAllocation
  <2> QED BY <2>1, <2>2 DEF NoDoubleAllocation
<1>12. LeftIsLeft'
  BY <1>2, <1>3, <1>4, <1>5, <1>7, <1>9, <1>10 DEF LeftIsLeft
<1>13. WithinCapacity' /\ \A u : Full(u)' = Full(u)
  BY <1>2 DEF SerialInv, WithinCapacity, Full
<1>14. Fresh'
  BY <1>2, <1>4, <1>5 DEF Fresh
<1>15. Walked'
  <2>1. \A u \in r.txs \ r.todo : u \in Tx /\ (u = t \/ AlreadyAllocated(u) = Qty[u] \/ Full(u))
    BY <1>0, <1>2 DEF SerialInv, Walked, InHand, RunType
  <2> QED BY <1>4, <1>5, <1>8, <1>13, <2>1 DEF Walked, InHand
<1> QED BY <1>11, <1>12, <1>13, <1>14, <1>15 DEF SerialInv

LEMMA SerialIncrementStep ==
    ASSUME SerialRuns, AllocInv, SerialInv, NEW a \in Run, Increment(a) PROVE SerialInv'
<1> DEFINE r == run[a]
<1>0. PICK t \in Tx, l \in Line, n \in Nat : t = r.tx /\ l = r.line /\ n = r.units
  <2>1. r \in RunType /\ Local(r) /\ r.pc = "increment"
    BY DEF AllocInv, RunsTyped, Locals, Increment
  <2>2. r.tx \in Tx /\ r.line \in Matches[r.tx] /\ r.units \in Nat
    BY <2>1 DEF Local, RunType
  <2> QED BY <2>2, AllocationAssumption
<1>1. PICK new \in RunType :
              /\ run' = [run EXCEPT ![a] = new]
              /\ IF r.side = "buy"
                 THEN /\ bought' = [bought EXCEPT ![r.line] = @ + r.units] /\ sold' = sold
                      /\ new.bought = [r.bought EXCEPT ![r.line] = @ + r.units] /\ new.sold = r.sold
                 ELSE /\ sold' = [sold EXCEPT ![r.line] = @ + r.units] /\ bought' = bought
                      /\ new.sold = [r.sold EXCEPT ![r.line] = @ + r.units] /\ new.bought = r.bought
              /\ new.side = r.side /\ new.txs = r.txs /\ new.todo = r.todo /\ new.tx = r.tx
              /\ new.left = r.left - r.units
              /\ \/ /\ new.pc = "upsert" /\ r.left > r.units
                    /\ \E k \in Matches[r.tx] \ {r.line} : Room(r, k) > 0
                 \/ /\ new.pc = "next"
                    /\ r.left = r.units \/ \A k \in Matches[r.tx] \ {r.line} : Room(r, k) = 0
  BY IncrementShape
<1>2. /\ r \in RunType /\ Local(r) /\ r.pc = "increment" /\ UNCHANGED alloc
      /\ r.bought = bought /\ r.sold = sold
      /\ bought \in [Line -> Nat] /\ sold \in [Line -> Nat] /\ Planned \in [Line -> Nat]
      /\ Matches[t] \in SUBSET Line
  BY AllocationAssumption DEF AllocInv, RunsTyped, Locals, Increment, SerialInv, Fresh
<1>3. /\ t \in r.txs \ r.todo /\ r.txs \subseteq TxsOf(r.side) /\ r.side \in Sides /\ r.left \in Nat
      /\ l \in Matches[t] /\ n > 0 /\ n <= r.left /\ n <= Room(r, l) /\ (n = r.left \/ n = Room(r, l))
  BY <1>0, <1>2 DEF Local, RunType
<1>4. \A b \in Run : run'[b] = new
  BY <1>1 DEF SerialRuns, AllocInv, RunsTyped
<1>5. IF r.side = "buy"
      THEN /\ bought'[l] = bought[l] + n /\ \A k \in Line \ {l} : bought'[k] = bought[k]
           /\ sold' = sold /\ new.bought = bought' /\ new.sold = sold'
      ELSE /\ sold'[l] = sold[l] + n /\ \A k \in Line \ {l} : sold'[k] = sold[k]
           /\ bought' = bought /\ new.bought = bought' /\ new.sold = sold'
  <2>1. CASE r.side = "buy"
    BY <1>0, <1>1, <1>2, <2>1
  <2>2. CASE r.side # "buy"
    BY <1>0, <1>1, <1>2, <2>2
  <2> QED BY <2>1, <2>2
<1>6. Room(r, l) = IF r.side = "buy" THEN Planned[l] - bought[l] ELSE bought[l] - sold[l]
  BY <1>2, <1>3 DEF Room
<1>7. WithinCapacity'
  <2>1. \A k \in Line : bought[k] <= Planned[k] /\ sold[k] <= bought[k]
    BY DEF SerialInv, WithinCapacity
  <2>2. \A k \in Line : (bought[k] <= Planned[k] /\ sold[k] <= bought[k])'
    <3>1. CASE r.side = "buy"
      BY <1>2, <1>3, <1>5, <1>6, <2>1, <3>1
    <3>2. CASE r.side # "buy"
      BY <1>2, <1>3, <1>5, <1>6, <2>1, <3>2
    <3> QED BY <3>1, <3>2
  <2> QED BY <2>2 DEF WithinCapacity
<1>8. /\ \A u : AlreadyAllocated(u)' = AlreadyAllocated(u)
      /\ NoDoubleAllocation'
  BY <1>2 DEF AlreadyAllocated, SerialInv, NoDoubleAllocation
<1>9. Fresh'
  <2>1. new.bought = bought' /\ new.sold = sold'
    BY <1>5
  <2> QED BY <1>4, <2>1 DEF Fresh
<1>10. Qty[t] + n = AlreadyAllocated(t) + r.left /\ Qty[t] \in Nat /\ AlreadyAllocated(t) \in Nat
  BY <1>0, <1>2, Sums, AllocationAssumption DEF AllocInv, SerialInv, LeftIsLeft
<1>11. LeftIsLeft'
  <2>1. new.pc # "increment" /\ new.tx = t /\ new.left = r.left - n
    BY <1>0, <1>1
  <2>2. Qty[t] = AlreadyAllocated(t) + new.left
    BY <1>3, <1>10, <2>1
  <2> QED BY <1>4, <1>8, <2>1, <2>2 DEF LeftIsLeft
<1>12. \A u \in TxsOf(r.side) : u \in Tx /\ (Full(u) => Full(u)')
  <2> SUFFICES ASSUME NEW u \in TxsOf(r.side) PROVE u \in Tx /\ (Full(u) => Full(u)')
    OBVIOUS
  <2>1. u \in Tx /\ Matches[u] \in SUBSET Line
    BY <1>3, AllocationAssumption DEF TxsOf
  <2>2. CASE r.side = "buy"
    BY <1>2, <1>5, <2>1, <2>2 DEF Full, TxsOf
  <2>3. CASE r.side # "buy"
    BY <1>2, <1>5, <2>1, <2>3 DEF Full, TxsOf
  <2> QED BY <2>1, <2>2, <2>3
<1>13. new.pc = "next" => AlreadyAllocated(t) = Qty[t] \/ Full(t)'
  <2> SUFFICES ASSUME new.pc = "next", r.left # n PROVE Full(t)'
    BY <1>3, <1>10
  <2>1. n = Room(r, l) /\ \A k \in Matches[t] \ {l} : Room(r, k) = 0
    BY <1>0, <1>1, <1>3
  <2>2. \A k \in Matches[t] \ {l} : IF t \in Buys THEN bought[k] >= Planned[k] ELSE sold[k] >= bought[k]
    BY <1>2, <1>3, <2>1, NoRoomIsFull
  <2>3. CASE r.side = "buy"
    <3>1. t \in Buys /\ bought'[l] = Planned[l]
      BY <1>2, <1>3, <1>5, <1>6, <2>1, <2>3 DEF TxsOf
    <3> QED BY <1>2, <1>5, <2>2, <2>3, <3>1 DEF Full
  <2>4. CASE r.side # "buy"
    <3>1. t \notin Buys /\ sold'[l] = bought[l]
      BY <1>2, <1>3, <1>5, <1>6, <2>1, <2>4 DEF TxsOf
    <3> QED BY <1>2, <1>5, <2>2, <2>4, <3>1 DEF Full
  <2> QED BY <2>3, <2>4
<1>14. Walked'
  <2>1. \A u \in r.txs \ r.todo : u \in TxsOf(r.side) /\ (u = t \/ AlreadyAllocated(u) = Qty[u] \/ Full(u))
    BY <1>0, <1>2, <1>3 DEF SerialInv, Walked, InHand
  <2>2. new.txs = r.txs /\ new.todo = r.todo /\ new.tx = t /\ new.pc \in {"upsert", "next"}
    BY <1>0, <1>1
  <2> QED BY <1>4, <1>8, <1>12, <1>13, <2>1, <2>2 DEF Walked, InHand
<1> QED BY <1>7, <1>8, <1>9, <1>11, <1>14 DEF SerialInv

LEMMA SerialStep == ASSUME SerialRuns PROVE AllocInv /\ SerialInv /\ [AllocNext]_allocVars => SerialInv'
<1> SUFFICES ASSUME AllocInv, SerialInv, [AllocNext]_allocVars PROVE SerialInv'
  OBVIOUS
<1>1. CASE UNCHANGED <<alloc, bought, sold, run>>
  BY <1>1 DEF SerialInv, Fresh, LeftIsLeft, Walked, InHand, AlreadyAllocated, Full,
              NoDoubleAllocation, WithinCapacity
<1>2. ASSUME NEW a \in Run, StepRun(a) \/ FailRun(a) PROVE SerialInv'
  BY <1>2, SerialRuns, SerialQuietStep, SerialNextTxStep, SerialUpsertStep, SerialIncrementStep DEF StepRun
<1> QED BY <1>1, <1>2 DEF AllocNext, Import, allocVars

LEMMA SerialInvariant == ASSUME SerialRuns PROVE AllocSpec => [](AllocInv /\ SerialInv)
<1>1. AllocInit => AllocInv /\ SerialInv
  BY AllocStart, SerialStart
<1>2. AllocInv /\ SerialInv /\ [AllocNext]_allocVars => (AllocInv /\ SerialInv)'
  BY SerialRuns, AllocStep, SerialStep
<1> QED BY <1>1, <1>2, PTL DEF AllocSpec

\* While runs do not overlap, no unit of a transaction is allocated twice, over
\* all lines and through all runs, whichever of them stop half way (also a run).
THEOREM NothingAllocatedTwice == ASSUME SerialRuns PROVE AllocSpec => []NoDoubleAllocation
<1>1. AllocInv /\ SerialInv => NoDoubleAllocation
  BY DEF SerialInv
<1> QED BY <1>1, SerialRuns, SerialInvariant, PTL

\* While runs do not overlap, no line is bought beyond its plan or sold beyond
\* what was bought, though runs decide by the copy they loaded (also a run).
THEOREM LinesWithinPlan == ASSUME SerialRuns PROVE AllocSpec => []WithinCapacity
<1>1. AllocInv /\ SerialInv => WithinCapacity
  BY DEF SerialInv
<1> QED BY <1>1, SerialRuns, SerialInvariant, PTL

\* While runs do not overlap, a run that has walked through its transactions
\* has left nothing that a line had room for (also a run).
THEOREM RunsAreExhaustive == ASSUME SerialRuns PROVE AllocSpec => Exhaustive
<1> DEFINE Left == \A a \in Run : EndSide(a) =>
                       \A t \in run[a].txs : AlreadyAllocated(t) = Qty[t] \/ Full(t)
<1>1. AllocInv /\ SerialInv => Left
  BY DEF SerialInv, Walked, InHand, EndSide
<1>2. AllocInv /\ SerialInv /\ [AllocNext]_allocVars => [Left]_allocVars
  BY <1>1
<1> QED BY <1>2, SerialRuns, SerialInvariant, PTL DEF AllocSpec, Exhaustive


(* ------------------- 2. The packages and the market pages ------------------- *)

\* The local variables of a request.
ReqType == [pc : {"idle", "apply", "save", "commit", "fail"}, batch : Batch \cup {NoBatch},
            packages : SUBSET Package, units : [Type -> Nat], read : [Type -> LineRecord]]

\* A batch that is applied is one, and a plan creates no more lines than the bound allows.
RequestLocal(me) ==
    /\ me.pc \in {"apply", "save"} => me.batch \in Batch
    /\ me.pc = "commit" =>
          \A t \in Type : me.units[t] > 0 => me.read[t].exists \/ me.read[t].born < MaxLines

ScriptInv ==
    /\ saved \in [Key -> Batch \cup {NoBatch}]
    /\ \A k \in Key : saved[k] # NoBatch => KeyOf[saved[k]] = k
    /\ sends \in [Batch -> 0..MaxSends]
    /\ applied \in [Key -> Nat]
    /\ req \in [Request -> ReqType] /\ \A r \in Request : RequestLocal(req[r])

LinesTyped ==
    /\ cycle \in {"OPEN", "CLOSED"}
    /\ line \in [Type -> LineRecord]
    /\ pkg \in [Package -> {"none", "active", "failed", "completed"}]
    /\ link \in [Package -> [Type -> Nat]]
    /\ \A p \in Package : pkg[p] \in {"none", "failed"} => \A t \in Type : link[p][t] = 0
    /\ job \in [side : {"none", "buy", "sell"}, lines : [Type -> LineRecord]]

TypesInv == LinesTyped /\ ScriptInv

\* A line that is created, and what is left of one that is deleted.
Created(b, n) == [exists |-> TRUE, born |-> b, planned |-> n, bought |-> 0, sold |-> 0, crossed |-> FALSE]
Deleted(b) == [exists |-> FALSE, born |-> b, planned |-> 0, bought |-> 0, sold |-> 0, crossed |-> FALSE]

LEMMA CreatedIs ==
    ASSUME NEW b \in 0..MaxLines, NEW n \in Nat
    PROVE  /\ Created(b, n) \in LineRecord /\ Created(b, n).planned = n /\ Created(b, n).bought = 0
           /\ Created(b, n).sold = 0 /\ Created(b, n).born = b /\ Created(b, n).exists
  BY DEF Created, LineRecord

LEMMA DeletedIs ==
    ASSUME NEW b \in 0..MaxLines
    PROVE  /\ Deleted(b) \in LineRecord /\ Deleted(b).planned = 0 /\ Deleted(b).bought = 0
           /\ Deleted(b).sold = 0 /\ Deleted(b).born = b /\ ~Deleted(b).exists
  BY DEF Deleted, LineRecord

LEMMA NoLineIs == NoLine = Deleted(0) /\ NoLine \in LineRecord /\ NoLines \in [Type -> LineRecord]
<1>1. NoLine = Deleted(0) /\ 0 \in 0..MaxLines
  BY MarketAssumption DEF NoLine, Deleted
<1> QED BY <1>1, DeletedIs DEF NoLines

LEMMA NoRequestIs == NoRequest \in ReqType /\ NoRequest.pc = "idle" /\ NoRequest.packages = {}
<1>1. [t \in Type |-> 0] \in [Type -> Nat]
  OBVIOUS
<1> QED BY <1>1, NoLineIs DEF NoRequest, ReqType

\* What a plan does to a line.
LEMMA PlannedIs ==
    ASSUME NEW t \in Type, line[t] \in LineRecord, NEW units \in Nat, NEW read \in LineRecord,
           units > 0 => SameRow(read, line[t]) /\ (read.exists \/ read.born < MaxLines)
    PROVE  LET new == LinePlanned(t, units, read)
           IN  /\ new \in LineRecord
               /\ units = 0 => new = line[t]
               /\ units > 0 /\ read.exists =>
                     /\ new.exists = line[t].exists /\ new.born = line[t].born /\ new.crossed = line[t].crossed
                     /\ new.bought = line[t].bought /\ new.sold = line[t].sold /\ new.planned = read.planned + units
               /\ units > 0 /\ ~read.exists => new = Created(line[t].born + 1, units) /\ line[t].born + 1 \in 0..MaxLines
<1> DEFINE new == LinePlanned(t, units, read)
<1>1. CASE units = 0
  BY <1>1 DEF LinePlanned
<1>2. CASE units > 0 /\ read.exists
  <2>1. new = [line[t] EXCEPT !.planned = read.planned + units] /\ read.planned + units \in Nat
    BY <1>2 DEF LinePlanned, LineRecord
  <2> HIDE DEF new
  <2>2. /\ new \in LineRecord
        /\ new.exists = line[t].exists /\ new.born = line[t].born /\ new.crossed = line[t].crossed
        /\ new.bought = line[t].bought /\ new.sold = line[t].sold /\ new.planned = read.planned + units
    BY <2>1 DEF LineRecord
  <2> QED BY <1>2, <2>2 DEF new
<1>3. CASE units > 0 /\ ~read.exists
  <2>1. new = [NoLine EXCEPT !.exists = TRUE, !.born = read.born + 1, !.planned = units]
    BY <1>3 DEF LinePlanned
  <2>2. read.born = line[t].born /\ read.born + 1 \in 0..MaxLines
    BY <1>3, MarketAssumption DEF SameRow, LineRecord
  <2>3. new = Created(line[t].born + 1, units)
    BY <2>1, <2>2, Zenon DEF NoLine, Created
  <2> QED BY <1>3, <2>2, <2>3, CreatedIs
<1> QED BY <1>1, <1>2, <1>3

\* What the loss of a package does to a line.
LEMMA LostIs ==
    ASSUME NEW units \in Nat, NEW read \in LineRecord
    PROVE  /\ Lost(units, read) \in Nat /\ Lost(units, read) <= units
           /\ Lost(units, read) > 0 => read.sold + Lost(units, read) <= read.bought
  BY DEF Lost, LineRecord

LEMMA AfterLossIs ==
    ASSUME NEW now \in LineRecord, NEW read \in LineRecord, NEW lost \in Nat,
           lost > 0 => read.sold + lost <= read.bought
    PROVE  LET new == AfterLoss(now, read, lost)
           IN  /\ new \in LineRecord
               /\ lost = 0 => new = now
               /\ lost > 0 =>
                     \/ /\ new = Deleted(now.born) /\ read.planned <= lost
                     \/ /\ new.exists = now.exists /\ new.born = now.born /\ new.sold = now.sold
                        /\ new.bought = read.bought - lost
                        /\ new.planned = IF read.planned > lost + read.sold THEN read.planned - lost ELSE read.sold
                        /\ ~new.crossed => ~now.crossed /\ now.sold = read.sold
<1> DEFINE new == AfterLoss(now, read, lost)
           gone == read.sold = 0 /\ read.bought <= lost /\ read.planned <= lost
<1>1. CASE lost = 0
  BY <1>1 DEF AfterLoss
<1>2. CASE lost > 0 /\ gone
  <2>1. new = [NoLine EXCEPT !.born = now.born] /\ now.born \in 0..MaxLines
    BY <1>2 DEF AfterLoss, LineRecord
  <2>2. new = Deleted(now.born)
    BY <2>1, Zenon DEF NoLine, Deleted
  <2> QED BY <1>2, <2>1, <2>2, DeletedIs
<1>3. CASE lost > 0 /\ ~gone
  <2> DEFINE planned == IF read.planned > lost + read.sold THEN read.planned - lost ELSE read.sold
  <2>1. new = Reduced(now, read, lost)
    BY <1>3 DEF AfterLoss
  <2>2. read.bought - lost \in Nat /\ planned \in Nat
    BY <1>3 DEF LineRecord
  <2>3. new = [now EXCEPT !.bought = read.bought - lost, !.planned = planned,
                          !.crossed = now.crossed \/ now.sold # read.sold]
    BY <2>1, Zenon DEF Reduced
  <2> DEFINE crossed == now.crossed \/ now.sold # read.sold
  <2>4. crossed \in BOOLEAN
    OBVIOUS
  <2>5. new = [now EXCEPT !.bought = read.bought - lost, !.planned = planned, !.crossed = crossed]
    BY <2>3
  <2> HIDE DEF new, planned, crossed
  <2>6. /\ new \in LineRecord /\ new.exists = now.exists /\ new.born = now.born /\ new.sold = now.sold
        /\ new.bought = read.bought - lost /\ new.planned = planned /\ new.crossed = crossed
    BY <2>2, <2>4, <2>5 DEF LineRecord
  <2>7. ~crossed => ~now.crossed /\ now.sold = read.sold
    BY DEF crossed
  <2> QED BY <1>3, <2>6, <2>7 DEF new, planned
<1> QED BY <1>1, <1>2, <1>3

\* The units of a plan are finite in number.
LEMMA UnitsOfNat == ASSUME NEW S \in Plan, NEW t \in Type PROVE UnitsOf(S, t) \in Nat
<1> DEFINE items == [p \in Package |-> Items[p][t]]
<1>1. S \subseteq Package /\ IsFiniteSet(S)
  BY MarketAssumption, FS_Subset
<1>2. \A p \in S : items[p] \in Nat
  BY <1>1, MarketAssumption
<1> HIDE DEF items
<1>3. Total(items, S) \in Nat
  BY <1>1, <1>2, UnitsFinite
<1> QED BY <1>3 DEF UnitsOf, items

LEMMA TypesStart == MarketInit => TypesInv
  BY NoLineIs, NoRequestIs, MarketAssumption DEF MarketInit, TypesInv, LinesTyped, ScriptInv, RequestLocal

\* A request that starts, goes on or ends.
LEMMA RequestStep ==
    ASSUME ScriptInv, UNCHANGED <<saved, sends, applied>>, NEW r \in Request, NEW new \in ReqType, RequestLocal(new),
           req' = [req EXCEPT ![r] = new]
    PROVE  ScriptInv'
  BY DEF ScriptInv, RequestLocal

LEMMA DoneStep ==
    ASSUME ScriptInv, UNCHANGED script, NEW r \in Request, Done(r) PROVE ScriptInv'
<1>1. RequestLocal(NoRequest)
  BY NoRequestIs DEF RequestLocal
<1> QED BY <1>1, NoRequestIs, RequestStep DEF Done, script

\* The requests that start, by their local variables.
LEMMA StartCommitIs ==
    ASSUME LinesTyped, NEW r \in Request, NEW S \in Plan, StartCommit(r, S)
    PROVE  LET new == [pc |-> "commit", batch |-> NoBatch, packages |-> S,
                       units |-> [t \in Type |-> UnitsOf(S, t)], read |-> line]
           IN  new \in ReqType /\ RequestLocal(new) /\ req' = [req EXCEPT ![r] = new]
<1> DEFINE u == [t \in Type |-> UnitsOf(S, t)]
           new == [pc |-> "commit", batch |-> NoBatch, packages |-> S, units |-> u, read |-> line]
<1>1. u \in [Type -> Nat] /\ S \in SUBSET Package /\ line \in [Type -> LineRecord]
  BY UnitsOfNat, MarketAssumption DEF LinesTyped
<1>2. \A t \in Type : u[t] > 0 => line[t].exists \/ line[t].born < MaxLines
  BY DEF StartCommit
<1>3. req' = [req EXCEPT ![r] = new]
  BY Zenon DEF StartCommit, HasRead
<1>4. new \in ReqType /\ new.pc = "commit" /\ new.units = u /\ new.read = line
  <2> HIDE DEF u
  <2> QED BY <1>1 DEF ReqType
<1>5. RequestLocal(new)
  <2> HIDE DEF new, u
  <2> QED BY <1>2, <1>4 DEF RequestLocal
<1> QED BY <1>3, <1>4, <1>5

LEMMA StartFailIs ==
    ASSUME LinesTyped, NEW r \in Request, NEW p \in Package, StartFail(r, p)
    PROVE  LET new == [pc |-> "fail", batch |-> NoBatch, packages |-> {p}, units |-> link[p], read |-> line]
           IN  new \in ReqType /\ RequestLocal(new) /\ req' = [req EXCEPT ![r] = new]
<1> DEFINE new == [pc |-> "fail", batch |-> NoBatch, packages |-> {p}, units |-> link[p], read |-> line]
<1>1. link[p] \in [Type -> Nat] /\ line \in [Type -> LineRecord]
  BY DEF LinesTyped
<1>2. req' = [req EXCEPT ![r] = new]
  BY Zenon DEF StartFail, HasRead
<1>3. new \in ReqType /\ new.pc = "fail"
  BY <1>1 DEF ReqType
<1>4. RequestLocal(new)
  BY <1>3 DEF RequestLocal
<1> QED BY <1>2, <1>3, <1>4

LEMMA LookupIs ==
    ASSUME NEW r \in Request, NEW b \in Batch, Lookup(r, b), saved[KeyOf[b]] = NoBatch
    PROVE  LET new == [pc |-> "apply", batch |-> b, packages |-> {}, units |-> [t \in Type |-> 0], read |-> NoLines]
           IN  new \in ReqType /\ RequestLocal(new) /\ req' = [req EXCEPT ![r] = new]
<1> DEFINE u == [t \in Type |-> 0]
           new == [pc |-> "apply", batch |-> b, packages |-> {}, units |-> u, read |-> NoLines]
<1>1. u \in [Type -> Nat] /\ NoLines \in [Type -> LineRecord]
  BY NoLineIs
<1>2. req' = [req EXCEPT ![r] = new]
  BY Zenon DEF Lookup, NoRequest
<1>3. new \in ReqType /\ new.pc = "apply" /\ new.batch = b
  <2> HIDE DEF u
  <2> QED BY <1>1 DEF ReqType
<1>4. RequestLocal(new)
  BY <1>3 DEF RequestLocal
<1> QED BY <1>2, <1>3, <1>4

\* What is sent, applied and stored keeps its type; a batch is stored for its key.
LEMMA ScriptStep == ASSUME TypesInv, [MarketNext]_marketVars PROVE ScriptInv'
<1> USE DEF TypesInv
<1>1. CASE UNCHANGED <<saved, sends, applied, req>>
  BY <1>1 DEF ScriptInv, RequestLocal
<1>2. ASSUME NEW r \in Request, NEW S \in Plan, StartCommit(r, S) PROVE ScriptInv'
  <2>1. UNCHANGED <<saved, sends, applied>>
    BY <1>2 DEF StartCommit, script
  <2> QED BY <1>2, <2>1, StartCommitIs, RequestStep
<1>3. ASSUME NEW r \in Request, NEW p \in Package, StartFail(r, p) PROVE ScriptInv'
  <2>1. UNCHANGED <<saved, sends, applied>>
    BY <1>3 DEF StartFail, script
  <2> QED BY <1>3, <2>1, StartFailIs, RequestStep
<1>4. ASSUME NEW r \in Request, WritePlan(r) \/ WriteFailed(r) \/ RollBack(r) \/ CutShort(r) PROVE ScriptInv'
  BY <1>4, DoneStep DEF WritePlan, WriteFailed, RollBack, CutShort
<1>5. ASSUME NEW r \in Request, NEW b \in Batch, Lookup(r, b) PROVE ScriptInv'
  <2>1. UNCHANGED <<saved, applied>> /\ sends' \in [Batch -> 0..MaxSends]
    BY <1>5, MarketAssumption DEF Lookup, ScriptInv
  <2>2. CASE saved[KeyOf[b]] # NoBatch
    BY <1>5, <2>1, <2>2 DEF Lookup, ScriptInv, RequestLocal
  <2>3. CASE saved[KeyOf[b]] = NoBatch
    <3>1. PICK new \in ReqType : RequestLocal(new) /\ req' = [req EXCEPT ![r] = new]
      BY <1>5, <2>3, LookupIs
    <3> QED BY <2>1, <3>1 DEF ScriptInv, RequestLocal
  <2> QED BY <2>2, <2>3
<1>6. ASSUME NEW r \in Request, Apply(r) PROVE ScriptInv'
  <2>1. req[r].batch \in Batch /\ KeyOf[req[r].batch] \in Key /\ req[r] \in ReqType
    BY <1>6, MarketAssumption DEF Apply, ScriptInv, RequestLocal
  <2>2. applied' \in [Key -> Nat] /\ UNCHANGED <<saved, sends>>
    BY <1>6, <2>1 DEF Apply, ScriptInv
  <2>3. /\ req' \in [Request -> ReqType] /\ req'[r].pc = "save" /\ req'[r].batch = req[r].batch
        /\ \A q \in Request \ {r} : req'[q] = req[q]
    BY <1>6, <2>1 DEF Apply, ScriptInv, ReqType
  <2> QED BY <2>1, <2>2, <2>3 DEF ScriptInv, RequestLocal
<1>7. ASSUME NEW r \in Request, Save(r) PROVE ScriptInv'
  <2> DEFINE b == req[r].batch
             k == KeyOf[b]
  <2>1. b \in Batch /\ k \in Key
    BY <1>7, MarketAssumption DEF Save, ScriptInv, RequestLocal
  <2>2. saved' = saved \/ saved' = [saved EXCEPT ![k] = b]
    BY <1>7 DEF Save
  <2>3. UNCHANGED <<sends, applied>> /\ req' = [req EXCEPT ![r] = NoRequest]
    BY <1>7 DEF Save, Done
  <2>4. saved' \in [Key -> Batch \cup {NoBatch}] /\ \A j \in Key : saved'[j] # NoBatch => KeyOf[saved'[j]] = j
    BY <2>1, <2>2 DEF ScriptInv
  <2> QED BY NoRequestIs, <2>3, <2>4 DEF ScriptInv, RequestLocal
<1> QED
  BY <1>1, <1>2, <1>3, <1>4, <1>5, <1>6, <1>7
  DEF MarketNext, CloseCycle, ReadLines, AllocateBuy, AllocateSell, script, marketVars

\* A unit that is bought or sold changes a row and its copy.
LEMMA BuyIs ==
    ASSUME LinesTyped, NEW t \in Type, AllocateBuy(t)
    PROVE  \E new \in LineRecord, copy \in LineRecord :
              /\ line' = [line EXCEPT ![t] = new]
              /\ job' = [side |-> job.side, lines |-> [job.lines EXCEPT ![t] = copy]]
              /\ new = [line[t] EXCEPT !.bought = line[t].bought + 1]
              /\ copy = [job.lines[t] EXCEPT !.bought = job.lines[t].bought + 1]
<1> DEFINE l == line[t]
           c == job.lines[t]
           new == [l EXCEPT !.bought = l.bought + 1]
           copy == [c EXCEPT !.bought = c.bought + 1]
<1>1. l \in LineRecord /\ c \in LineRecord /\ job.lines \in [Type -> LineRecord]
  BY DEF LinesTyped
<1>2. new \in LineRecord /\ copy \in LineRecord
  <2> HIDE DEF l, c
  <2> QED BY <1>1 DEF LineRecord
<1>3. line' = [line EXCEPT ![t] = new]
  BY DEF AllocateBuy, LinesTyped
<1>4. job' = [side |-> job.side, lines |-> [job.lines EXCEPT ![t] = copy]]
  <2>1. job' = [job EXCEPT !.lines = [job.lines EXCEPT ![t] = copy]]
    BY <1>1 DEF AllocateBuy
  <2> HIDE DEF copy
  <2> QED BY <2>1 DEF LinesTyped
<1> QED BY <1>2, <1>3, <1>4

LEMMA SoldIs ==
    ASSUME NEW l \in LineRecord, NEW n \in Nat, NEW crossed \in BOOLEAN
    PROVE  LET new == [l EXCEPT !.sold = n, !.crossed = crossed]
           IN  /\ new \in LineRecord /\ new.exists = l.exists /\ new.born = l.born /\ new.planned = l.planned
               /\ new.bought = l.bought /\ new.sold = n /\ new.crossed = crossed
<1> DEFINE new == [l EXCEPT !.sold = n, !.crossed = crossed]
<1>1. new = [l EXCEPT !.sold = n, !.crossed = crossed]
  OBVIOUS
<1> HIDE DEF new
<1>2. /\ new \in LineRecord /\ new.exists = l.exists /\ new.born = l.born /\ new.planned = l.planned
      /\ new.bought = l.bought /\ new.sold = n /\ new.crossed = crossed
  BY <1>1 DEF LineRecord
<1> QED BY <1>2 DEF new

LEMMA SellIs ==
    ASSUME LinesTyped, NEW t \in Type, AllocateSell(t)
    PROVE  \E new \in LineRecord, copy \in LineRecord, crossed \in BOOLEAN :
              /\ line' = [line EXCEPT ![t] = new]
              /\ job' = [side |-> job.side, lines |-> [job.lines EXCEPT ![t] = copy]]
              /\ new = [line[t] EXCEPT !.sold = line[t].sold + 1, !.crossed = crossed]
              /\ copy = [job.lines[t] EXCEPT !.sold = job.lines[t].sold + 1]
              /\ ~crossed => ~line[t].crossed /\ line[t].bought = job.lines[t].bought
<1> DEFINE l == line[t]
           c == job.lines[t]
           crossed == l.crossed \/ l.bought # c.bought
           new == [l EXCEPT !.sold = l.sold + 1, !.crossed = crossed]
           copy == [c EXCEPT !.sold = c.sold + 1]
<1>1. l \in LineRecord /\ c \in LineRecord /\ job.lines \in [Type -> LineRecord]
  BY DEF LinesTyped
<1>2. crossed \in BOOLEAN
  OBVIOUS
<1>3. new \in LineRecord /\ copy \in LineRecord
  <2> HIDE DEF l, c, crossed
  <2>1. l.sold + 1 \in Nat /\ copy \in LineRecord
    BY <1>1 DEF LineRecord
  <2> QED BY <1>1, <1>2, <2>1, SoldIs
<1>4. line' = [line EXCEPT ![t] = new]
  BY Zenon DEF AllocateSell
<1>5. job' = [side |-> job.side, lines |-> [job.lines EXCEPT ![t] = copy]]
  <2>1. job' = [job EXCEPT !.lines = [job.lines EXCEPT ![t] = copy]]
    BY <1>1 DEF AllocateSell
  <2> HIDE DEF copy
  <2> QED BY <2>1 DEF LinesTyped
<1>6. ~crossed => ~l.crossed /\ l.bought = c.bought
  OBVIOUS
<1> HIDE DEF crossed, new, copy
<1>7. new = [l EXCEPT !.sold = l.sold + 1, !.crossed = crossed] /\ copy = [c EXCEPT !.sold = c.sold + 1]
  BY DEF new, copy
<1> QED BY <1>2, <1>3, <1>4, <1>5, <1>6, <1>7, Zenon

LEMMA LinesTypedStep == ASSUME TypesInv, [MarketNext]_marketVars PROVE LinesTyped'
<1> USE DEF TypesInv
<1>1. CASE UNCHANGED <<cycle, line, pkg, link, job>>
  BY <1>1 DEF LinesTyped
<1>2. ASSUME NEW r \in Request, WritePlan(r) PROVE LinesTyped'
  <2> DEFINE me == req[r]
  <2>1. me \in ReqType /\ RequestLocal(me) /\ me.pc = "commit"
    BY <1>2 DEF WritePlan, ScriptInv
  <2>2. ASSUME NEW t \in Type PROVE LinePlanned(t, me.units[t], me.read[t]) \in LineRecord
    <3>1. /\ me.units[t] \in Nat /\ me.read[t] \in LineRecord /\ line[t] \in LineRecord
          /\ me.units[t] > 0 => /\ SameRow(me.read[t], line[t])
                                /\ me.read[t].exists \/ me.read[t].born < MaxLines
      BY <1>2, <2>1 DEF WritePlan, RequestLocal, ReqType, LinesTyped
    <3> QED BY <3>1, PlannedIs
  <2>3. line' = [t \in Type |-> LinePlanned(t, me.units[t], me.read[t])]
    BY <1>2 DEF WritePlan
  <2>4. line' \in [Type -> LineRecord]
    BY <2>2, <2>3
  <2>5. /\ UNCHANGED <<cycle, job>>
        /\ pkg' = [p \in Package |-> IF p \in me.packages THEN "active" ELSE pkg[p]]
        /\ link' = [p \in Package |-> IF p \in me.packages THEN Items[p] ELSE link[p]]
    BY <1>2 DEF WritePlan
  <2> HIDE DEF me
  <2> QED BY <2>4, <2>5, MarketAssumption DEF LinesTyped
<1>3. ASSUME NEW r \in Request, WriteFailed(r) PROVE LinesTyped'
  <2> DEFINE me == req[r]
             lost == [t \in Type |-> Lost(me.units[t], me.read[t])]
  <2>1. me \in ReqType
    BY DEF ScriptInv
  <2>2. ASSUME NEW t \in Type PROVE AfterLoss(line[t], me.read[t], lost[t]) \in LineRecord
    <3>1. me.units[t] \in Nat /\ me.read[t] \in LineRecord /\ line[t] \in LineRecord
      BY <2>1 DEF ReqType, LinesTyped
    <3>2. lost[t] \in Nat /\ (lost[t] > 0 => me.read[t].sold + lost[t] <= me.read[t].bought)
      BY <3>1, LostIs
    <3> QED BY <3>1, <3>2, AfterLossIs
  <2>3. line' = [t \in Type |-> AfterLoss(line[t], me.read[t], lost[t])]
    BY <1>3 DEF WriteFailed
  <2>4. line' \in [Type -> LineRecord]
    BY <2>2, <2>3
  <2>5. /\ UNCHANGED <<cycle, job>>
        /\ pkg' = [p \in Package |-> IF p \in me.packages THEN "failed" ELSE pkg[p]]
        /\ link' = [p \in Package |-> [t \in Type |-> IF p \in me.packages \/ ~line'[t].exists THEN 0 ELSE link[p][t]]]
    BY <1>3 DEF WriteFailed, LinksLeft
  <2> HIDE DEF me, lost
  <2> QED BY <2>4, <2>5 DEF LinesTyped
<1>4. CASE CloseCycle
  BY <1>4 DEF CloseCycle, LinesTyped
<1>5. ASSUME NEW s \in {"buy", "sell"}, ReadLines(s) PROVE LinesTyped'
  BY <1>5 DEF ReadLines, LinesTyped, packages
<1>6. ASSUME NEW t \in Type, AllocateBuy(t) PROVE LinesTyped'
  <2>1. PICK new \in LineRecord, copy \in LineRecord :
            /\ line' = [line EXCEPT ![t] = new]
            /\ job' = [side |-> job.side, lines |-> [job.lines EXCEPT ![t] = copy]]
    BY <1>6, BuyIs
  <2>2. UNCHANGED <<cycle, pkg, link>>
    BY <1>6 DEF AllocateBuy, packages
  <2> QED BY <2>1, <2>2 DEF LinesTyped
<1>7. ASSUME NEW t \in Type, AllocateSell(t) PROVE LinesTyped'
  <2>1. PICK new \in LineRecord, copy \in LineRecord :
            /\ line' = [line EXCEPT ![t] = new]
            /\ job' = [side |-> job.side, lines |-> [job.lines EXCEPT ![t] = copy]]
    <3>1. PICK new \in LineRecord, copy \in LineRecord, crossed \in BOOLEAN :
              /\ line' = [line EXCEPT ![t] = new]
              /\ job' = [side |-> job.side, lines |-> [job.lines EXCEPT ![t] = copy]]
              /\ new = [line[t] EXCEPT !.sold = line[t].sold + 1, !.crossed = crossed]
              /\ copy = [job.lines[t] EXCEPT !.sold = job.lines[t].sold + 1]
              /\ ~crossed => ~line[t].crossed /\ line[t].bought = job.lines[t].bought
      BY <1>7, SellIs, Zenon
    <3> QED BY <3>1, Zenon
  <2>2. UNCHANGED <<cycle, pkg, link>>
    BY <1>7 DEF AllocateSell, packages
  <2> QED BY <2>1, <2>2 DEF LinesTyped
<1> QED
  BY <1>1, <1>2, <1>3, <1>4, <1>5, <1>6, <1>7
  DEF MarketNext, StartCommit, StartFail, Lookup, Apply, RollBack, CutShort, Save, packages, marketVars

LEMMA TypesStep == TypesInv /\ [MarketNext]_marketVars => TypesInv'
  BY ScriptStep, LinesTypedStep DEF TypesInv

\* Lines, packages, links, stored responses and requests keep their types, and a
\* package that is not under way has no units on any line, however many requests
\* overlap (also a run, for one request at a time).
THEOREM MarketTyped == MarketSpec => []MarketTypeOK
<1>1. TypesInv => MarketTypeOK
  <2> SUFFICES ASSUME TypesInv PROVE MarketTypeOK
    OBVIOUS
  <2>1. \A p \in Package : pkg[p] \in {"none", "failed"} => link[p] = [t \in Type |-> 0]
    BY DEF TypesInv, LinesTyped
  <2> QED BY <2>1 DEF TypesInv, LinesTyped, ScriptInv, ReqType, MarketTypeOK
<1> QED BY <1>1, TypesStart, TypesStep, PTL DEF MarketSpec

--------------------------------------------------------------------------------
(* The idempotency keys. *)

\* The script waits for an answer before it sends again, as the admins do.
SerialRequests == \A r, q \in Request : r = q

\* The batch a request is about to apply, or has applied, has a key without a
\* response: in a serial world the lookup at its start is still true.
KeyIsFree ==
    \A r \in Request :
        /\ req[r].pc \in {"apply", "save"} => saved[KeyOf[req[r].batch]] = NoBatch
        /\ req[r].pc = "save" => applied[KeyOf[req[r].batch]] > 0

StoredIsApplied == \A k \in Key : saved[k] # NoBatch => applied[k] > 0

KeysInv == KeyIsFree /\ StoredIsApplied

LEMMA KeysStart == MarketInit => KeysInv
  BY NoRequestIs DEF MarketInit, KeysInv, KeyIsFree, StoredIsApplied

LEMMA ApplyStep == ASSUME TypesInv, KeysInv, NEW r \in Request, Apply(r) PROVE KeysInv'
<1>1. /\ req[r].pc = "apply" /\ UNCHANGED saved
      /\ applied' = [applied EXCEPT ![KeyOf[req[r].batch]] = @ + 1]
      /\ req' = [req EXCEPT ![r].pc = "save"]
  BY DEF Apply, packages
<1>2. req[r].batch \in Batch /\ KeyOf[req[r].batch] \in Key
  BY <1>1, MarketAssumption DEF TypesInv, ScriptInv, RequestLocal
<1>3. applied' \in [Key -> Nat] /\ (\A k \in Key : applied'[k] >= applied[k])
      /\ applied'[KeyOf[req[r].batch]] > 0
  BY <1>1, <1>2 DEF TypesInv, ScriptInv
<1>4. /\ req'[r].pc = "save" /\ req'[r].batch = req[r].batch
      /\ \A q \in Request \ {r} : req'[q] = req[q]
  BY <1>1 DEF TypesInv, ScriptInv, ReqType
<1>5. \A q \in Request : req[q].pc \in {"apply", "save"} => KeyOf[req[q].batch] \in Key
  BY MarketAssumption DEF TypesInv, ScriptInv, RequestLocal
<1>6. KeyIsFree'
  BY <1>1, <1>2, <1>3, <1>4, <1>5 DEF KeysInv, TypesInv, ScriptInv, KeyIsFree
<1> QED
  BY <1>1, <1>3, <1>6 DEF KeysInv, TypesInv, ScriptInv, StoredIsApplied

\* A request that is neither about to apply a batch nor has applied one.
LEMMA OtherRequest ==
    ASSUME SerialRequests, TypesInv, KeysInv, UNCHANGED <<saved, applied>>, NEW r \in Request,
           NEW new \in ReqType, new.pc \notin {"apply", "save"}, req' = [req EXCEPT ![r] = new]
    PROVE  KeysInv'
  BY DEF KeysInv, TypesInv, ScriptInv, KeyIsFree, StoredIsApplied, SerialRequests

LEMMA KeysStep == ASSUME SerialRequests, TypesInv, KeysInv, [MarketNext]_marketVars PROVE KeysInv'
<1>1. CASE UNCHANGED <<saved, applied, req>>
  BY <1>1 DEF KeysInv, KeyIsFree, StoredIsApplied
<1>2. ASSUME NEW r \in Request, NEW S \in Plan, StartCommit(r, S) PROVE KeysInv'
  <2>1. UNCHANGED <<saved, applied>>
    BY <1>2 DEF StartCommit, script
  <2>2. PICK new \in ReqType : new.pc = "commit" /\ req' = [req EXCEPT ![r] = new]
    BY <1>2, StartCommitIs DEF TypesInv
  <2> QED BY <2>1, <2>2, OtherRequest
<1>3. ASSUME NEW r \in Request, NEW p \in Package, StartFail(r, p) PROVE KeysInv'
  <2>1. UNCHANGED <<saved, applied>>
    BY <1>3 DEF StartFail, script
  <2>2. PICK new \in ReqType : new.pc = "fail" /\ req' = [req EXCEPT ![r] = new]
    BY <1>3, StartFailIs DEF TypesInv
  <2> QED BY <2>1, <2>2, OtherRequest
<1>4. ASSUME NEW r \in Request, WritePlan(r) \/ WriteFailed(r) \/ RollBack(r) \/ CutShort(r) PROVE KeysInv'
  <2>1. UNCHANGED <<saved, applied>> /\ Done(r)
    BY <1>4 DEF WritePlan, WriteFailed, RollBack, CutShort, script
  <2> QED BY <2>1, NoRequestIs, OtherRequest DEF Done
<1>5. ASSUME NEW r \in Request, NEW b \in Batch, Lookup(r, b) PROVE KeysInv'
  <2>1. CASE saved[KeyOf[b]] # NoBatch
    BY <1>5, <2>1 DEF Lookup, KeysInv, KeyIsFree, StoredIsApplied
  <2>2. CASE saved[KeyOf[b]] = NoBatch
    <3>1. PICK new \in ReqType : new.pc = "apply" /\ new.batch = b /\ req' = [req EXCEPT ![r] = new]
      BY <1>5, <2>2, LookupIs
    <3>2. UNCHANGED <<saved, applied>>
      BY <1>5 DEF Lookup
    <3> QED BY <2>2, <3>1, <3>2 DEF KeysInv, TypesInv, ScriptInv, KeyIsFree, StoredIsApplied
  <2> QED BY <2>1, <2>2
<1>6. ASSUME NEW r \in Request, Save(r) PROVE KeysInv'
  <2> DEFINE k == KeyOf[req[r].batch]
  <2>1. /\ req[r].pc = "save" /\ UNCHANGED applied
        /\ saved' = [saved EXCEPT ![k] = req[r].batch]
        /\ req' = [req EXCEPT ![r] = NoRequest]
    BY <1>6 DEF Save, Done, KeysInv, KeyIsFree
  <2>2. req[r].batch \in Batch /\ k \in Key /\ applied[k] > 0
    BY <2>1, MarketAssumption DEF KeysInv, KeyIsFree, TypesInv, ScriptInv, RequestLocal
  <2>3. \A q \in Request : req'[q] = NoRequest
    BY <2>1, SerialRequests DEF SerialRequests, TypesInv, ScriptInv
  <2> QED
    BY <2>1, <2>2, <2>3, NoRequestIs DEF KeysInv, TypesInv, ScriptInv, KeyIsFree, StoredIsApplied
<1> QED
  BY <1>1, <1>2, <1>3, <1>4, <1>5, <1>6, ApplyStep
  DEF MarketNext, CloseCycle, ReadLines, AllocateBuy, AllocateSell, script, marketVars

\* A stored response stands, and nothing with its key is applied again, however
\* many batches share a key and wherever confirmBatchScript stops (also a run).
THEOREM StoredAnswerStands == ASSUME SerialRequests PROVE MarketSpec => AnsweredOnce
<1> DEFINE Stands == \A k \in Key : saved[k] # NoBatch =>
                         applied[k] > 0 /\ applied'[k] = applied[k] /\ saved'[k] = saved[k]
<1>1. ASSUME TypesInv, KeysInv, [MarketNext]_marketVars PROVE [Stands]_marketVars
  <2>1. ASSUME UNCHANGED <<saved, applied>> PROVE Stands
    BY <1>1, <2>1 DEF KeysInv, StoredIsApplied
  <2>2. ASSUME NEW r \in Request, Apply(r) PROVE Stands
    <3>1. req[r].batch \in Batch /\ saved[KeyOf[req[r].batch]] = NoBatch
      BY <1>1, <2>2 DEF KeysInv, KeyIsFree, TypesInv, ScriptInv, RequestLocal, Apply
    <3> QED
      BY <1>1, <2>2, <3>1 DEF KeysInv, TypesInv, ScriptInv, StoredIsApplied, Apply, packages
  <2>3. ASSUME NEW r \in Request, Save(r) PROVE Stands
    <3>1. req[r].batch \in Batch /\ saved[KeyOf[req[r].batch]] = NoBatch
      BY <1>1, <2>3 DEF KeysInv, KeyIsFree, TypesInv, ScriptInv, RequestLocal, Save
    <3> QED
      BY <1>1, <2>3, <3>1 DEF KeysInv, TypesInv, ScriptInv, StoredIsApplied, Save
  <2> QED
    BY <1>1, <2>1, <2>2, <2>3
    DEF MarketNext, StartCommit, StartFail, WritePlan, WriteFailed, CloseCycle, ReadLines, AllocateBuy,
        AllocateSell, Lookup, RollBack, CutShort, script, marketVars
<1>2. TypesInv /\ KeysInv /\ [MarketNext]_marketVars => (TypesInv /\ KeysInv)'
  BY SerialRequests, KeysStep, TypesStep
<1>3. MarketInit => TypesInv /\ KeysInv
  BY TypesStart, KeysStart
<1> QED
  BY <1>1, <1>2, <1>3, PTL DEF MarketSpec, AnsweredOnce

--------------------------------------------------------------------------------
(* The lines and their packages. *)

\* A line has planned what it bought; where there is none nothing was planned or sold.
Sound(l) ==
    /\ l.bought <= l.planned
    /\ ~l.exists => l.planned = 0 /\ l.sold = 0

\* By its copy of a line the job sells no other units than there are, unless some are
\* lost meanwhile, and has no more room than the line: a loss takes as much of the
\* plan as of the stock.
CopyFits(copy, l) ==
    /\ copy.born <= l.born
    /\ SameRow(copy, l) => copy.sold = l.sold /\ copy.planned + l.bought <= l.planned + copy.bought

\* What a transaction has read of a line is true until it writes, but for what the job
\* allocates.
ReadFits(read, l) ==
    /\ SameRow(read, l) /\ read.planned = l.planned /\ read.bought <= l.bought
    /\ Sound(read)

Links(t) == [p \in Package |-> link[p][t]]
UnderWay(t) == Total(Links(t), Active)

LineFits(l, copy) ==
    /\ Sound(l) /\ (~l.crossed => l.sold <= l.bought)
    /\ Sound(copy) /\ CopyFits(copy, l)

\* The packages of a plan are new; the one that is lost is under way, unless the Cycle
\* was closed meanwhile.
RequestFits(me) ==
    /\ me.pc \in {"commit", "fail"} => \A t \in Type : ReadFits(me.read[t], line[t])
    /\ me.pc = "commit" => /\ me.packages \in Plan /\ \A p \in me.packages : pkg[p] = "none"
                           /\ \A t \in Type : me.units[t] = UnitsOf(me.packages, t)
    /\ me.pc = "fail" => \E p \in Package :
                           /\ me.packages = {p} /\ me.units = link[p]
                           /\ pkg[p] = "active" \/ (pkg[p] = "completed" /\ Active = {})

RoomInv ==
    /\ \A t \in Type : LineFits(line[t], job.lines[t]) /\ UnderWay(t) <= line[t].planned
    /\ \A r \in Request : RequestFits(req[r])

\* The packages under way are packages, finitely many, with a sum of their units.
LEMMA UnderWayIs ==
    ASSUME link \in [Package -> [Type -> Nat]], NEW t \in Type
    PROVE  /\ Active \subseteq Package /\ IsFiniteSet(Active)
           /\ \A p \in Package : Links(t)[p] = link[p][t] /\ Links(t)[p] \in Nat
           /\ UnderWay(t) \in Nat
<1>1. Active \in SUBSET Package /\ IsFiniteSet(Active)
  <2>1. Active \in SUBSET Package
    BY DEF Active
  <2> QED BY <2>1, FS_Subset, MarketAssumption
<1>2. \A p \in Package : Links(t)[p] = link[p][t] /\ Links(t)[p] \in Nat
  BY DEF Links
<1> QED BY <1>1, <1>2, UnitsFinite DEF UnderWay

LEMMA IdleFits == RequestFits(NoRequest)
  BY NoRequestIs DEF RequestFits

LEMMA RoomStart == MarketInit => RoomInv
<1> SUFFICES ASSUME MarketInit PROVE RoomInv
  OBVIOUS
<1>1. /\ NoLine.bought = 0 /\ NoLine.planned = 0 /\ NoLine.sold = 0 /\ NoLine.born = 0 /\ ~NoLine.exists
  BY DEF NoLine
<1>2. LineFits(NoLine, NoLine)
  BY <1>1 DEF LineFits, Sound, CopyFits, SameRow
<1>3. ASSUME NEW t \in Type PROVE UnderWay(t) = 0
  <2>1. Active = {}
    BY DEF Active, MarketInit
  <2> QED BY <2>1, TotalOfNone DEF UnderWay
<1> QED BY <1>1, <1>2, <1>3, IdleFits DEF MarketInit, RoomInv, NoLines

\* A request starts, goes on or ends, and touches nothing else.
LEMMA QuietRequest ==
    ASSUME TypesInv, RoomInv, UNCHANGED <<line, job, pkg, link>>, NEW r \in Request, NEW new, RequestFits(new),
           req' = [req EXCEPT ![r] = new]
    PROVE  RoomInv'
<1>1. \A t \in Type : UnderWay(t)' = UnderWay(t)
  BY DEF UnderWay, Links, Active
<1>2. ASSUME NEW q \in Request PROVE RequestFits(req[q])'
  <2>1. req'[q] = new \/ req'[q] = req[q]
    BY DEF TypesInv, ScriptInv
  <2>2. RequestFits(req'[q])
    BY <2>1 DEF RoomInv
  <2> QED BY <2>2 DEF RequestFits, Active
<1> QED BY <1>1, <1>2 DEF RoomInv

LEMMA QuietLines ==
    ASSUME RoomInv, UNCHANGED <<line, job, pkg, link, req>> PROVE RoomInv'
<1>1. \A t \in Type : UnderWay(t)' = UnderWay(t)
  BY DEF UnderWay, Links, Active
<1> QED BY <1>1 DEF RoomInv, RequestFits, Active

\* What is read is true at once.
LEMMA StartStep ==
    ASSUME TypesInv, RoomInv, NEW r \in Request,
           \/ \E S \in Plan : StartCommit(r, S)
           \/ \E p \in Package : StartFail(r, p)
           \/ \E b \in Batch : Lookup(r, b)
    PROVE  RoomInv'
<1>1. \A t \in Type : ReadFits(line[t], line[t])
  <2>1. \A t \in Type : line[t] \in LineRecord /\ Sound(line[t])
    BY DEF TypesInv, LinesTyped, RoomInv, LineFits
  <2> QED BY <2>1 DEF ReadFits, SameRow, LineRecord
<1>2. ASSUME NEW S \in Plan, StartCommit(r, S) PROVE RoomInv'
  <2> DEFINE u == [t \in Type |-> UnitsOf(S, t)]
             new == [pc |-> "commit", batch |-> NoBatch, packages |-> S, units |-> u, read |-> line]
  <2>1. req' = [req EXCEPT ![r] = new] /\ UNCHANGED <<line, job, pkg, link>>
    BY <1>2, StartCommitIs DEF TypesInv, StartCommit, packages
  <2>2. \A p \in S : pkg[p] = "none"
    BY <1>2 DEF StartCommit
  <2>3. \A t \in Type : u[t] = UnitsOf(S, t)
    OBVIOUS
  <2>4. new.pc = "commit" /\ new.packages = S /\ new.units = u /\ new.read = line
    OBVIOUS
  <2> HIDE DEF u, new
  <2>5. RequestFits(new)
    BY <1>1, <2>2, <2>3, <2>4 DEF RequestFits
  <2> QED BY <2>1, <2>5, QuietRequest
<1>3. ASSUME NEW p \in Package, StartFail(r, p) PROVE RoomInv'
  <2> DEFINE new == [pc |-> "fail", batch |-> NoBatch, packages |-> {p}, units |-> link[p], read |-> line]
  <2>1. req' = [req EXCEPT ![r] = new] /\ UNCHANGED <<line, job, pkg, link>>
    BY <1>3, StartFailIs DEF TypesInv, StartFail, packages
  <2>2. pkg[p] = "active"
    BY <1>3 DEF StartFail
  <2>3. new.pc = "fail" /\ new.packages = {p} /\ new.units = link[p] /\ new.read = line
    OBVIOUS
  <2> HIDE DEF new
  <2>4. RequestFits(new)
    BY <1>1, <2>2, <2>3 DEF RequestFits
  <2> QED BY <2>1, <2>4, QuietRequest
<1>4. ASSUME NEW b \in Batch, Lookup(r, b) PROVE RoomInv'
  <2>1. UNCHANGED <<line, job, pkg, link>>
    BY <1>4 DEF Lookup, packages
  <2>2. CASE saved[KeyOf[b]] # NoBatch
    BY <1>4, <2>1, <2>2, QuietLines DEF Lookup
  <2>3. CASE saved[KeyOf[b]] = NoBatch
    <3>1. PICK new : new.pc = "apply" /\ req' = [req EXCEPT ![r] = new]
      BY <1>4, <2>3, LookupIs
    <3>2. RequestFits(new)
      BY <3>1 DEF RequestFits
    <3> QED BY <2>1, <3>1, <3>2, QuietRequest
  <2> QED BY <2>2, <2>3
<1> QED BY <1>2, <1>3, <1>4

LEMMA EndStep ==
    ASSUME TypesInv, RoomInv, NEW r \in Request, Apply(r) \/ RollBack(r) \/ CutShort(r) \/ Save(r)
    PROVE  RoomInv'
<1>1. UNCHANGED <<line, job, pkg, link>>
  BY DEF Apply, RollBack, CutShort, Save, packages
<1>2. CASE Apply(r)
  <2> DEFINE new == [req[r] EXCEPT !.pc = "save"]
  <2>1. req' = [req EXCEPT ![r] = new] /\ req[r] \in ReqType
    BY <1>2 DEF Apply, TypesInv, ScriptInv
  <2>2. new.pc = "save"
    BY <2>1 DEF ReqType
  <2> HIDE DEF new
  <2>3. RequestFits(new)
    BY <2>2 DEF RequestFits
  <2> QED BY <1>1, <2>1, <2>3, QuietRequest
<1>3. CASE RollBack(r) \/ CutShort(r) \/ Save(r)
  BY <1>1, <1>3, IdleFits, QuietRequest DEF RollBack, CutShort, Save, Done
<1> QED BY <1>2, <1>3

LEMMA CloseStep == ASSUME TypesInv, RoomInv, CloseCycle PROVE RoomInv'
<1>1. /\ UNCHANGED <<line, link, job, req>> /\ Active' = {}
      /\ \A p \in Package : /\ pkg[p] = "none" => pkg'[p] = "none"
                            /\ pkg[p] \in {"active", "completed"} => pkg'[p] = "completed"
  BY DEF CloseCycle, Active, TypesInv, LinesTyped
<1>2. \A t \in Type : UnderWay(t)' = 0 /\ line[t].planned \in Nat
  BY <1>1, TotalOfNone DEF UnderWay, TypesInv, LinesTyped, LineRecord
<1>3. ASSUME NEW q \in Request PROVE RequestFits(req[q])'
  <2>1. RequestFits(req[q])
    BY DEF RoomInv
  <2>2. \A S \in Plan : S \subseteq Package
    BY MarketAssumption
  <2> QED BY <1>1, <2>1, <2>2 DEF RequestFits
<1> QED BY <1>1, <1>2, <1>3 DEF RoomInv

\* The job changes neither packages nor plans.
LEMMA JobStep ==
    ASSUME TypesInv, RoomInv, UNCHANGED <<pkg, link, req>>,
           \A t \in Type : /\ LineFits(line'[t], job'.lines[t])
                           /\ SameRow(line[t], line'[t])
                           /\ line'[t].planned = line[t].planned /\ line[t].bought <= line'[t].bought,
           \A t \in Type : line'[t].bought \in Nat
    PROVE  RoomInv'
<1>1. \A t \in Type : UnderWay(t)' = UnderWay(t)
  BY DEF UnderWay, Links, Active
<1>2. ASSUME NEW q \in Request PROVE RequestFits(req[q])'
  <2>1. ASSUME NEW t \in Type, req[q].pc \in {"commit", "fail"} PROVE ReadFits(req[q].read[t], line'[t])
    <3>1. ReadFits(req[q].read[t], line[t]) /\ req[q].read[t] \in LineRecord /\ line[t] \in LineRecord
      BY <2>1 DEF RoomInv, RequestFits, TypesInv, ScriptInv, LinesTyped, ReqType
    <3> QED BY <3>1 DEF ReadFits, SameRow, LineRecord
  <2> QED BY <2>1 DEF RoomInv, RequestFits, Active
<1> QED BY <1>1, <1>2 DEF RoomInv

LEMMA ReadLinesStep == ASSUME TypesInv, RoomInv, NEW s, ReadLines(s) PROVE RoomInv'
<1>1. UNCHANGED <<pkg, link, req, line>> /\ job'.lines = line
  BY DEF ReadLines, packages
<1>2. \A t \in Type : line[t] \in LineRecord /\ LineFits(line[t], job.lines[t])
  BY DEF TypesInv, LinesTyped, RoomInv
<1>3. \A t \in Type : LineFits(line[t], line[t]) /\ SameRow(line[t], line[t]) /\ line[t].bought <= line[t].bought
                      /\ line[t].bought \in Nat
  BY <1>2 DEF LineFits, CopyFits, SameRow, LineRecord
<1> QED BY <1>1, <1>3, JobStep

LEMMA BuyStep == ASSUME TypesInv, RoomInv, NEW t \in Type, AllocateBuy(t) PROVE RoomInv'
<1> DEFINE l == line[t]
           c == job.lines[t]
<1>1. PICK new \in LineRecord, copy \in LineRecord :
          /\ line' = [line EXCEPT ![t] = new]
          /\ job' = [side |-> job.side, lines |-> [job.lines EXCEPT ![t] = copy]]
          /\ new = [l EXCEPT !.bought = l.bought + 1]
          /\ copy = [c EXCEPT !.bought = c.bought + 1]
  BY BuyIs, Zenon DEF TypesInv
<1>2. /\ UNCHANGED <<pkg, link, req>> /\ c.bought < c.planned /\ SameRow(c, l)
      /\ line \in [Type -> LineRecord] /\ job.lines \in [Type -> LineRecord] /\ LineFits(l, c)
  BY DEF AllocateBuy, packages, TypesInv, LinesTyped, RoomInv
<1> HIDE DEF l, c
<1>3. l \in LineRecord /\ c \in LineRecord
  BY <1>2 DEF l, c
<1>4. /\ new.exists = l.exists /\ new.born = l.born /\ new.planned = l.planned /\ new.bought = l.bought + 1
      /\ new.sold = l.sold /\ new.crossed = l.crossed
      /\ copy.exists = c.exists /\ copy.born = c.born /\ copy.planned = c.planned /\ copy.bought = c.bought + 1
      /\ copy.sold = c.sold
  BY <1>1, <1>3 DEF LineRecord
<1>5. l.sold <= l.bought \/ l.crossed
  BY <1>2 DEF LineFits
<1>6. new.sold <= new.bought \/ new.crossed
  BY <1>3, <1>4, <1>5 DEF LineRecord
<1>7. Sound(new) /\ Sound(copy) /\ CopyFits(copy, new)
  BY <1>2, <1>3, <1>4 DEF LineFits, Sound, CopyFits, SameRow, LineRecord
<1>8. LineFits(new, copy) /\ SameRow(l, new) /\ new.planned = l.planned /\ l.bought <= new.bought /\ new.bought \in Nat
  BY <1>3, <1>4, <1>6, <1>7 DEF LineFits, SameRow, LineRecord
<1>9. \A u \in Type \ {t} : line'[u] = line[u] /\ job'.lines[u] = job.lines[u]
                            /\ LineFits(line[u], job.lines[u]) /\ line[u] \in LineRecord
  BY <1>1, <1>2 DEF RoomInv
<1>10. line'[t] = new /\ job'.lines[t] = copy
  BY <1>1, <1>2
<1>11. \A u \in Type \ {t} : SameRow(line[u], line[u]) /\ line[u].bought <= line[u].bought /\ line[u].bought \in Nat
  BY <1>9 DEF SameRow, LineRecord
<1> QED BY <1>2, <1>8, <1>9, <1>10, <1>11, JobStep DEF l

LEMMA SellStep == ASSUME TypesInv, RoomInv, NEW t \in Type, AllocateSell(t) PROVE RoomInv'
<1> DEFINE l == line[t]
           c == job.lines[t]
<1>1. PICK new \in LineRecord, copy \in LineRecord, crossed \in BOOLEAN :
          /\ line' = [line EXCEPT ![t] = new]
          /\ job' = [side |-> job.side, lines |-> [job.lines EXCEPT ![t] = copy]]
          /\ new = [l EXCEPT !.sold = l.sold + 1, !.crossed = crossed]
          /\ copy = [c EXCEPT !.sold = c.sold + 1]
          /\ ~crossed => ~l.crossed /\ l.bought = c.bought
  BY SellIs, Zenon DEF TypesInv
<1>2. /\ UNCHANGED <<pkg, link, req>> /\ c.sold < c.bought /\ SameRow(c, l)
      /\ line \in [Type -> LineRecord] /\ job.lines \in [Type -> LineRecord] /\ LineFits(l, c)
  BY DEF AllocateSell, packages, TypesInv, LinesTyped, RoomInv
<1> HIDE DEF l, c
<1>3. l \in LineRecord /\ c \in LineRecord /\ l.sold + 1 \in Nat
  BY <1>2 DEF l, c, LineRecord
<1>4. /\ new.exists = l.exists /\ new.born = l.born /\ new.planned = l.planned /\ new.bought = l.bought
      /\ new.sold = l.sold + 1 /\ new.crossed = crossed
  <2> DEFINE n == l.sold + 1
  <2>1. new = [l EXCEPT !.sold = n, !.crossed = crossed] /\ n \in Nat /\ l \in LineRecord
    BY <1>1, <1>3, Zenon
  <2> HIDE DEF n
  <2>2. /\ new.exists = l.exists /\ new.born = l.born /\ new.planned = l.planned /\ new.bought = l.bought
        /\ new.sold = n /\ new.crossed = crossed
    BY <2>1 DEF LineRecord
  <2> QED BY <2>2 DEF n
<1>5. /\ copy.exists = c.exists /\ copy.born = c.born /\ copy.planned = c.planned /\ copy.bought = c.bought
      /\ copy.sold = c.sold + 1
  BY <1>1, <1>3 DEF LineRecord
<1>6. c.sold = l.sold
  BY <1>2 DEF LineFits, CopyFits
<1>7. crossed \/ l.bought = c.bought
  BY <1>1
<1>8. crossed \/ new.sold <= new.bought
  BY <1>2, <1>3, <1>4, <1>6, <1>7 DEF LineRecord
<1>9. c.exists
  BY <1>2, <1>3 DEF LineFits, Sound, LineRecord
<1>10. Sound(new) /\ Sound(copy) /\ CopyFits(copy, new)
  BY <1>2, <1>3, <1>4, <1>5, <1>6, <1>9 DEF LineFits, Sound, CopyFits, SameRow, LineRecord
<1>11. LineFits(new, copy)
  BY <1>4, <1>8, <1>10 DEF LineFits
<1>12. SameRow(l, new) /\ new.planned = l.planned /\ l.bought <= new.bought /\ new.bought \in Nat
  BY <1>3, <1>4 DEF SameRow, LineRecord
<1>13. \A u \in Type \ {t} : line'[u] = line[u] /\ job'.lines[u] = job.lines[u]
                             /\ LineFits(line[u], job.lines[u]) /\ line[u] \in LineRecord
  BY <1>1, <1>2 DEF RoomInv
<1>14. line'[t] = new /\ job'.lines[t] = copy
  BY <1>1, <1>2
<1>15. \A u \in Type \ {t} : SameRow(line[u], line[u]) /\ line[u].bought <= line[u].bought /\ line[u].bought \in Nat
  BY <1>13 DEF SameRow, LineRecord
<1> QED BY <1>2, <1>11, <1>12, <1>13, <1>14, <1>15, JobStep DEF l

\* A plan adds as many units to a line as its packages have on their way to it.
LEMMA CommitStep ==
    ASSUME SerialRequests, TypesInv, RoomInv, NEW r \in Request, WritePlan(r) PROVE RoomInv'
<1> DEFINE me == req[r]
           S == me.packages
<1>1. /\ me \in ReqType /\ RequestLocal(me) /\ RequestFits(me) /\ me.pc = "commit"
      /\ \A q \in Request : req'[q] = NoRequest
  BY SerialRequests DEF WritePlan, Done, TypesInv, ScriptInv, RoomInv, SerialRequests
<1>2. /\ UNCHANGED <<cycle, job>>
      /\ line' = [t \in Type |-> LinePlanned(t, me.units[t], me.read[t])]
      /\ pkg' = [p \in Package |-> IF p \in S THEN "active" ELSE pkg[p]]
      /\ link' = [p \in Package |-> IF p \in S THEN Items[p] ELSE link[p]]
      /\ \A t \in Type : me.units[t] > 0 => SameRow(me.read[t], line[t])
  BY DEF WritePlan
<1>3. S \in Plan /\ S \subseteq Package /\ (\A p \in S : pkg[p] = "none") /\ S \cap Active = {}
  BY <1>1, MarketAssumption DEF RequestFits, Active
<1>4. \A t \in Type : me.units[t] = UnitsOf(S, t) /\ ReadFits(me.read[t], line[t])
  BY <1>1 DEF RequestFits
<1>5. \A t \in Type : /\ me.units[t] \in Nat /\ me.read[t] \in LineRecord /\ line[t] \in LineRecord
                      /\ job.lines[t] \in LineRecord
                      /\ me.units[t] > 0 => me.read[t].exists \/ me.read[t].born < MaxLines
  BY <1>1 DEF ReqType, RequestLocal, TypesInv, LinesTyped
<1> HIDE DEF me, S
<1>6. IsFiniteSet(S) /\ link \in [Package -> [Type -> Nat]]
  BY <1>3, FS_Subset, MarketAssumption DEF TypesInv, LinesTyped
<1>7. link' \in [Package -> [Type -> Nat]] /\ Active' = Active \cup S
  BY <1>2, <1>3, <1>6, MarketAssumption DEF Active
<1>8. ASSUME NEW t \in Type
      PROVE  UnderWay(t) \in Nat /\ UnderWay(t)' = UnderWay(t) + me.units[t]
  <2> DEFINE items == [p \in Package |-> Items[p][t]]
             links == [p \in Package |-> link'[p][t]]
  <2>1. /\ Active \subseteq Package /\ IsFiniteSet(Active) /\ UnderWay(t) \in Nat
        /\ \A p \in Package : Links(t)[p] = link[p][t]
    BY <1>6, UnderWayIs
  <2>2. \A p \in Package : items[p] = Items[p][t] /\ items[p] \in Nat
    BY MarketAssumption
  <2>3. \A p \in Package : links[p] \in Nat
    BY <1>7
  <2>4. (\A p \in S : links[p] = items[p]) /\ (\A p \in Active : links[p] = Links(t)[p])
    BY <1>2, <1>3, <2>1, <2>2
  <2>5. UnderWay(t)' = Total(links, Active \cup S)
    BY <1>7 DEF UnderWay, Links
  <2>6. me.units[t] = Total(items, S)
    BY <1>4 DEF UnitsOf
  <2> HIDE DEF items, links
  <2>7. Total(links, Active \cup S) = Total(links, Active) + Total(links, S)
    BY <1>3, <1>6, <2>1, <2>3, TotalOfUnion
  <2>8. Total(links, Active) = UnderWay(t)
    BY <2>4, TotalSame DEF UnderWay
  <2>9. Total(links, S) = Total(items, S)
    BY <2>4, TotalSame
  <2> QED BY <2>1, <2>5, <2>6, <2>7, <2>8, <2>9
<1>9. ASSUME NEW t \in Type
      PROVE  LineFits(line'[t], job.lines[t]) /\ line'[t].planned = line[t].planned + me.units[t]
  <2> DEFINE l == line[t]
             c == job.lines[t]
             u == me.units[t]
             read == me.read[t]
             new == LinePlanned(t, u, read)
  <2>1. LineFits(l, c) /\ ReadFits(read, l) /\ l \in LineRecord /\ c \in LineRecord /\ u \in Nat /\ read \in LineRecord
    BY <1>4, <1>5 DEF RoomInv
  <2>2. /\ u = 0 => new = l
        /\ u > 0 /\ read.exists =>
              /\ new.exists = l.exists /\ new.born = l.born /\ new.crossed = l.crossed
              /\ new.bought = l.bought /\ new.sold = l.sold /\ new.planned = read.planned + u
        /\ u > 0 /\ ~read.exists => new = Created(l.born + 1, u) /\ l.born + 1 \in 0..MaxLines
    BY <1>2, <1>5, PlannedIs
  <2>3. line'[t] = new
    BY <1>2
  <2> HIDE DEF new, l, c, u, read
  <2>4. CASE u = 0
    BY <2>1, <2>2, <2>3, <2>4 DEF l, c, u, LineRecord
  <2>5. CASE u > 0 /\ read.exists
    <3>1. new.planned = l.planned + u
      BY <2>1, <2>2, <2>5 DEF ReadFits
    <3>2. new.crossed \/ new.sold <= new.bought
      BY <2>1, <2>2, <2>5 DEF LineFits
    <3>3. l.exists
      BY <2>1, <2>5 DEF ReadFits, SameRow
    <3>4. Sound(new) /\ CopyFits(c, new)
      <4>1. c.born <= l.born /\ (SameRow(c, l) => c.sold = l.sold /\ c.planned + l.bought <= l.planned + c.bought)
        BY <2>1 DEF LineFits, CopyFits
      <4>2. SameRow(c, new) <=> SameRow(c, l)
        BY <2>2, <2>5 DEF SameRow
      <4>3. ASSUME SameRow(c, l) PROVE c.sold = new.sold /\ c.planned + new.bought <= new.planned + c.bought
        BY <2>1, <2>2, <2>5, <3>1, <4>1, <4>3 DEF LineRecord
      <4>4. new.bought <= new.planned /\ new.exists /\ c.born <= new.born
        <5>1. l.bought <= l.planned /\ l.bought \in Nat /\ l.planned \in Nat
          BY <2>1 DEF LineFits, Sound, LineRecord
        <5>2. new.bought = l.bought /\ new.born = l.born /\ (new.exists <=> l.exists)
          BY <2>2, <2>5
        <5>3. new.bought <= new.planned /\ c.born <= new.born
          BY <2>1, <3>1, <4>1, <5>1, <5>2
        <5> QED BY <3>3, <5>2, <5>3
      <4> QED BY <4>2, <4>3, <4>4 DEF Sound, CopyFits
    <3> QED BY <2>1, <2>3, <3>1, <3>2, <3>4 DEF LineFits, l, c, u
  <2>6. CASE u > 0 /\ ~read.exists
    <3>1. new = Created(l.born + 1, u) /\ l.born + 1 \in 0..MaxLines
      BY <2>2, <2>6
    <3>2. new.planned = u /\ new.bought = 0 /\ new.sold = 0 /\ new.born = l.born + 1 /\ new.exists
      BY <2>1, <3>1, CreatedIs
    <3>3. l.planned = 0
      BY <2>1, <2>6 DEF ReadFits, Sound
    <3>4. Sound(new) /\ CopyFits(c, new) /\ new.sold <= new.bought
      <4>1. c.born <= l.born /\ c.born \in Nat /\ l.born \in Nat
        BY <2>1 DEF LineFits, CopyFits, LineRecord
      <4>2. ~SameRow(c, new) /\ c.born <= new.born
        <5>1. c.born # new.born /\ c.born <= new.born
          BY <3>2, <4>1
        <5> QED BY <5>1 DEF SameRow
      <4>3. new.bought <= new.planned /\ new.sold <= new.bought
        BY <2>1, <2>6, <3>2
      <4> QED BY <3>2, <4>2, <4>3 DEF Sound, CopyFits
    <3>5. Sound(c)
      BY <2>1 DEF LineFits
    <3>6. line'[t].planned = line[t].planned + me.units[t]
      BY <2>1, <2>3, <3>2, <3>3 DEF l, u
    <3> QED BY <2>3, <3>4, <3>5, <3>6 DEF LineFits, c
  <2> QED BY <2>1, <2>4, <2>5, <2>6
<1>10. \A t \in Type : LineFits(line'[t], job.lines[t]) /\ UnderWay(t)' <= line'[t].planned
  <2>1. \A t \in Type : UnderWay(t) <= line[t].planned /\ line[t].planned \in Nat
    BY <1>5 DEF RoomInv, LineRecord
  <2> QED BY <1>5, <1>8, <1>9, <2>1
<1> QED BY <1>1, <1>2, <1>10, IdleFits DEF RoomInv, RequestFits, NoRequest

\* A package that is lost takes no more from a line than its own units there, of the
\* plan as of the stock.
LEMMA FailedStep ==
    ASSUME SerialRequests, TypesInv, RoomInv, NEW r \in Request, WriteFailed(r) PROVE RoomInv'
<1> DEFINE me == req[r]
           lost == [t \in Type |-> Lost(me.units[t], me.read[t])]
<1>1. /\ me \in ReqType /\ RequestFits(me) /\ me.pc = "fail"
      /\ \A q \in Request : req'[q] = NoRequest
  BY SerialRequests DEF WriteFailed, Done, TypesInv, ScriptInv, RoomInv, SerialRequests
<1>2. PICK p \in Package : /\ me.packages = {p} /\ me.units = link[p]
                           /\ pkg[p] = "active" \/ (pkg[p] = "completed" /\ Active = {})
  BY <1>1 DEF RequestFits
<1>3. /\ UNCHANGED job
      /\ line' = [t \in Type |-> AfterLoss(line[t], me.read[t], lost[t])]
      /\ pkg' = [q \in Package |-> IF q \in me.packages THEN "failed" ELSE pkg[q]]
      /\ link' = [q \in Package |-> [t \in Type |-> IF q \in me.packages \/ ~line'[t].exists THEN 0 ELSE link[q][t]]]
  BY DEF WriteFailed, LinksLeft
<1>4. \A t \in Type : /\ ReadFits(me.read[t], line[t]) /\ me.read[t] \in LineRecord /\ me.units[t] \in Nat
                      /\ line[t] \in LineRecord /\ job.lines[t] \in LineRecord
                      /\ lost[t] = Lost(me.units[t], me.read[t])
  BY <1>1 DEF RequestFits, ReqType, TypesInv, LinesTyped
<1>5. \A t \in Type : /\ lost[t] \in Nat /\ lost[t] <= link[p][t]
                      /\ lost[t] > 0 => me.read[t].sold + lost[t] <= me.read[t].bought
  BY <1>2, <1>4, LostIs
<1> HIDE DEF me, lost
<1>6. /\ link \in [Package -> [Type -> Nat]] /\ link' \in [Package -> [Type -> Nat]]
      /\ \A q \in Package, t \in Type : /\ link'[q][t] <= link[q][t]
                                        /\ ~line'[t].exists => link'[q][t] = 0
      /\ Active' = Active \ {p} /\ (p \in Active \/ Active = {})
  BY <1>2, <1>3 DEF TypesInv, LinesTyped, Active
<1>7. ASSUME NEW t \in Type
      PROVE  /\ UnderWay(t)' \in Nat
             /\ UnderWay(t)' + link[p][t] <= UnderWay(t) \/ UnderWay(t)' = 0
             /\ ~line'[t].exists => UnderWay(t)' = 0
  <2> DEFINE links == [q \in Package |-> link'[q][t]]
  <2>1. /\ Active \subseteq Package /\ IsFiniteSet(Active) /\ UnderWay(t) \in Nat
        /\ \A q \in Package : Links(t)[q] = link[q][t] /\ Links(t)[q] \in Nat
    BY <1>6, UnderWayIs
  <2>2. \A q \in Package : links[q] \in Nat /\ links[q] <= Links(t)[q]
                           /\ (~line'[t].exists => links[q] = 0)
    BY <1>6, <2>1
  <2>3. UnderWay(t)' = Total(links, Active \ {p})
    BY <1>6 DEF UnderWay, Links
  <2> HIDE DEF links
  <2>4. IsFiniteSet(Active \ {p})
    BY <2>1, FS_RemoveElement
  <2>5. Total(links, Active \ {p}) <= Total(Links(t), Active \ {p})
    BY <2>1, <2>2, <2>4, TotalMonotonic
  <2>6. Total(links, Active \ {p}) \in Nat
    BY <2>1, <2>2, <2>4, UnitsFinite
  <2>7. ~line'[t].exists => Total(links, Active \ {p}) = 0
    BY <2>1, <2>2, <2>4, TotalZero
  <2>8. CASE p \in Active
    <3>1. UnderWay(t) = Total(Links(t), Active \ {p}) + Links(t)[p] /\ Total(Links(t), Active \ {p}) \in Nat
      BY <2>1, <2>8, TotalSplit DEF UnderWay
    <3> QED BY <2>1, <2>3, <2>5, <2>6, <2>7, <3>1
  <2>9. CASE Active = {}
    <3>1. Total(links, Active \ {p}) = 0
      BY <2>9, TotalOfNone
    <3> QED BY <2>3, <3>1
  <2> QED BY <1>6, <2>8, <2>9
<1>8. ASSUME NEW t \in Type
      PROVE  LineFits(line'[t], job.lines[t]) /\ UnderWay(t)' <= line'[t].planned
  <2> DEFINE l == line[t]
             c == job.lines[t]
             n == lost[t]
             read == me.read[t]
             new == AfterLoss(l, read, n)
  <2>1. /\ LineFits(l, c) /\ ReadFits(read, l) /\ l \in LineRecord /\ c \in LineRecord /\ read \in LineRecord
        /\ n \in Nat /\ n <= link[p][t] /\ (n > 0 => read.sold + n <= read.bought)
        /\ link[p][t] \in Nat /\ UnderWay(t) \in Nat /\ UnderWay(t) <= l.planned
    BY <1>4, <1>5, <1>6, UnderWayIs DEF RoomInv
  <2>2. line'[t] = new
    BY <1>3
  <2> HIDE DEF l, c, n, read
  <2>3. /\ new \in LineRecord
        /\ n = 0 => new = l
        /\ n > 0 =>
              \/ /\ new = Deleted(l.born) /\ read.planned <= n
              \/ /\ new.exists = l.exists /\ new.born = l.born /\ new.sold = l.sold
                 /\ new.bought = read.bought - n
                 /\ new.planned = IF read.planned > n + read.sold THEN read.planned - n ELSE read.sold
                 /\ ~new.crossed => ~l.crossed /\ l.sold = read.sold
    BY <2>1, AfterLossIs
  <2> HIDE DEF new
  <2>4. /\ UnderWay(t)' \in Nat /\ (UnderWay(t)' + link[p][t] <= UnderWay(t) \/ UnderWay(t)' = 0)
        /\ ~new.exists => UnderWay(t)' = 0
    BY <1>7, <2>2
  <2>5. CASE n = 0
    <3>1. new = l
      BY <2>3, <2>5
    <3>2. UnderWay(t)' <= l.planned
      BY <2>1, <2>4 DEF LineRecord
    <3> QED BY <2>1, <2>2, <3>1, <3>2 DEF c
  <2>6. CASE n > 0 /\ new = Deleted(l.born)
    <3>1. new.planned = 0 /\ new.bought = 0 /\ new.sold = 0 /\ new.born = l.born /\ ~new.exists
      BY <2>1, <2>6, DeletedIs DEF LineRecord
    <3>2. Sound(new) /\ CopyFits(c, new) /\ new.sold <= new.bought /\ Sound(c)
      BY <2>1, <3>1 DEF LineFits, Sound, CopyFits, SameRow, LineRecord
    <3>3. UnderWay(t)' <= new.planned
      BY <2>4, <3>1
    <3> QED BY <2>2, <3>2, <3>3 DEF LineFits, c
  <2>7. CASE /\ n > 0 /\ new.exists = l.exists /\ new.born = l.born /\ new.sold = l.sold
             /\ new.bought = read.bought - n
             /\ new.planned = IF read.planned > n + read.sold THEN read.planned - n ELSE read.sold
             /\ ~new.crossed => ~l.crossed /\ l.sold = read.sold
    <3>1. /\ read.planned = l.planned /\ read.bought <= l.bought /\ SameRow(read, l)
          /\ read.bought <= read.planned /\ (~read.exists => read.planned = 0)
      BY <2>1 DEF ReadFits, Sound
    <3>2. read.sold + n <= read.bought
      BY <2>1, <2>7
    <3>3. l.exists
      BY <2>1, <2>7, <3>1, <3>2 DEF SameRow, LineRecord
    <3>4. new.planned + n >= l.planned /\ new.bought + n <= l.bought /\ new.bought <= new.planned
      BY <2>1, <2>7, <3>1, <3>2 DEF LineRecord
    <3>5. new.crossed \/ new.sold <= new.bought
      BY <2>1, <2>7, <3>2 DEF LineRecord
    <3>6. Sound(new)
      BY <2>7, <3>3, <3>4 DEF Sound
    <3>7. c.born <= l.born /\ (SameRow(c, l) => c.sold = l.sold /\ c.planned + l.bought <= l.planned + c.bought)
      BY <2>1 DEF LineFits, CopyFits
    <3>8. SameRow(c, new) <=> SameRow(c, l)
      BY <2>7 DEF SameRow
    <3>9. CopyFits(c, new)
      <4>1. c.born <= new.born
        BY <2>7, <3>7
      <4>2. ASSUME SameRow(c, l) PROVE c.sold = new.sold /\ c.planned + new.bought <= new.planned + c.bought
        BY <2>1, <2>3, <2>7, <3>4, <3>7, <4>2 DEF LineRecord
      <4> QED BY <3>8, <4>1, <4>2 DEF CopyFits
    <3>10. UnderWay(t)' <= new.planned
      BY <2>1, <2>3, <2>4, <3>4 DEF LineRecord
    <3> QED BY <2>1, <2>2, <3>5, <3>6, <3>9, <3>10 DEF LineFits, c
  <2> QED BY <2>1, <2>3, <2>5, <2>6, <2>7
<1> QED BY <1>1, <1>3, <1>8, IdleFits DEF RoomInv, RequestFits, NoRequest

LEMMA RoomStep == ASSUME SerialRequests, TypesInv, RoomInv, [MarketNext]_marketVars PROVE RoomInv'
<1>1. CASE UNCHANGED marketVars
  BY <1>1, QuietLines DEF marketVars
<1> QED
  BY <1>1, StartStep, EndStep, CloseStep, ReadLinesStep, BuyStep, SellStep, CommitStep, FailedStep DEF MarketNext

\* A line has room for its stock and for the packages under way on it, however
\* many packages share it, are lost or partly sold, and wherever the allocations of
\* a run fall between what a request reads and what it writes (also a run).
THEOREM LinesKeepRoom == ASSUME SerialRequests PROVE MarketSpec => []LinesHoldPackages
<1>1. RoomInv => LinesHoldPackages
  BY DEF RoomInv, LineFits, Sound, LinesHoldPackages, UnderWay, Links
<1>2. TypesInv /\ RoomInv /\ [MarketNext]_marketVars => (TypesInv /\ RoomInv)'
  BY SerialRequests, TypesStep, RoomStep
<1>3. MarketInit => TypesInv /\ RoomInv
  BY TypesStart, RoomStart
<1> QED BY <1>1, <1>2, <1>3, PTL DEF MarketSpec

===============================================================================
