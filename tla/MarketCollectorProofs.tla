------------------------- MODULE MarketCollectorProofs -------------------------
(***************************************************************************)
(* What MarketCollector promises, for every market: of the baseline with   *)
(* any number of runs at once, of the aggregates for one run at a time.    *)
(***************************************************************************)
EXTENDS MarketCollector, TotalsProofs

\* As much of the type as the proof needs.
RunType == [pc : {"idle", "first", "pages", "write"}, id : Ids \cup {0}, prev : Ids \cup {0},
            pages : SUBSET Int, curr : Snapshot, base : Snapshot, todo : SUBSET Type]

Typed ==
    /\ left \in Snapshot
    /\ ran \in 0..MaxRuns /\ baseline \in 0..ran
    /\ rows \in [Ids -> Snapshot] /\ saw \in [Ids -> Snapshot]
    /\ run \in [Run -> RunType]

Active(r) == run[r].pc # "idle"

\* A run has an id of its own, which is not the baseline and at which nothing is
\* stored before it writes.
OwnIds ==
    /\ \A r \in Run : Active(r) => run[r].id \in 1..ran /\ run[r].id # baseline
    /\ \A r, q \in Run : Active(r) /\ Active(q) /\ run[r].id = run[q].id => r = q
    /\ \A b \in Ids : b > ran => rows[b] = Empty
    /\ \A r \in Run : run[r].pc \in {"first", "pages"} => rows[run[r].id] = Empty

\* A run that writes has stored what it was shown, but for the types left to do.
Written ==
    \A r \in Run : run[r].pc = "write" =>
        /\ saw[run[r].id] = run[r].curr
        /\ \A o \in Order : TypeOf[o] \notin run[r].todo => rows[run[r].id][o] = run[r].curr[o]

CollectorInv == Typed /\ OwnIds /\ Written /\ BaselineWhole

LEMMA Fields ==
    ASSUME CollectorInv, NEW r \in Run
    PROVE  /\ run[r].id \in Ids \cup {0} /\ run[r].prev \in Ids \cup {0}
           /\ run[r].pages \in SUBSET Int
           /\ run[r].curr \in [Order -> Nat] /\ run[r].base \in [Order -> Nat]
           /\ run[r].todo \in SUBSET Type
           /\ Active(r) => run[r].id \in Ids /\ run[r].id # baseline /\ run[r].id <= ran
  BY CollectorAssumption DEF CollectorInv, Typed, RunType, OwnIds, Active, Snapshot, Ids

LEMMA CollectorStart == CollectorInit => CollectorInv
<1> SUFFICES ASSUME CollectorInit PROVE CollectorInv
  OBVIOUS
<1>1. Empty \in Snapshot
  BY DEF Empty, Snapshot
<1>2. NoRun \in RunType /\ NoRun.pc = "idle"
  BY <1>1 DEF NoRun, RunType
<1>3. Typed
  BY <1>1, <1>2, CollectorAssumption DEF CollectorInit, Typed
<1>4. \A r \in Run : run[r].pc = "idle"
  BY <1>2 DEF CollectorInit
<1> QED
  BY <1>3, <1>4 DEF CollectorInit, CollectorInv, OwnIds, Written, BaselineWhole, Active

\* What the market does changes nothing the invariant is about.
LEMMA MarketStep ==
    ASSUME CollectorInv, NEW o \in Order, Place(o) \/ Trade(o) \/ Withdraw(o)
    PROVE  CollectorInv'
<1>1. left' \in Snapshot
  BY CollectorAssumption DEF CollectorInv, Typed, Snapshot, Place, Trade, Withdraw
<1>2. UNCHANGED <<ran, baseline, rows, saw, run>>
  BY DEF Place, Trade, Withdraw, station, history
<1> QED
  BY <1>1, <1>2 DEF CollectorInv, Typed, OwnIds, Written, BaselineWhole, Active

LEMMA BeginStep == ASSUME CollectorInv, NEW r \in Run, Begin(r) PROVE CollectorInv'
<1> DEFINE new == [NoRun EXCEPT !.pc = "first", !.id = ran + 1, !.prev = baseline]
<1>1. /\ UNCHANGED <<left, baseline, rows, saw>>
      /\ run[r].pc = "idle" /\ ran < MaxRuns /\ ran' = ran + 1
      /\ run' = [run EXCEPT ![r] = new]
  BY DEF Begin, book, station, history
<1>2. ran \in Nat /\ ran + 1 \in Ids /\ baseline \in Ids \cup {0} /\ baseline <= ran /\ MaxRuns \in Nat
  BY <1>1, CollectorAssumption DEF CollectorInv, Typed, Ids
<1>3. new.pc = "first" /\ new.id = ran + 1 /\ new \in RunType
  BY <1>2 DEF NoRun, RunType, Empty, Snapshot
<1> HIDE DEF new
<1>4. Typed'
  BY <1>1, <1>2, <1>3 DEF CollectorInv, Typed
<1>5. run'[r] = new /\ \A q \in Run \ {r} : run'[q] = run[q]
  BY <1>1 DEF CollectorInv, Typed
<1>6. OwnIds'
  <2>1. \A q \in Run : (Active(q))' => run'[q].id \in 1..ran' /\ run'[q].id # baseline'
    BY <1>1, <1>2, <1>3, <1>5 DEF CollectorInv, OwnIds, Active
  <2>2. \A q \in Run \ {r} : (Active(q))' => run'[q].id < run'[r].id
    BY <1>1, <1>2, <1>3, <1>5 DEF CollectorInv, OwnIds, Active
  <2>3. \A p, q \in Run : (Active(p) /\ Active(q))' /\ run'[p].id = run'[q].id => p = q
    BY <1>2, <1>3, <1>5, <2>2 DEF CollectorInv, OwnIds, Active
  <2>4. \A b \in Ids : b > ran' => rows'[b] = Empty
    BY <1>1, <1>2 DEF CollectorInv, OwnIds, Ids
  <2>5. \A q \in Run : run'[q].pc \in {"first", "pages"} => rows'[run'[q].id] = Empty
    BY <1>1, <1>2, <1>3, <1>5 DEF CollectorInv, OwnIds, Ids
  <2> QED BY <2>1, <2>3, <2>4, <2>5 DEF OwnIds
<1>7. Written' /\ BaselineWhole'
  BY <1>1, <1>3, <1>5 DEF CollectorInv, Written, BaselineWhole
<1> QED
  BY <1>4, <1>6, <1>7 DEF CollectorInv

LEMMA FetchStep ==
    ASSUME CollectorInv, NEW r \in Run, FetchFirst(r) \/ FetchPage(r) PROVE CollectorInv'
<1>1. UNCHANGED <<left, ran, baseline, rows, saw>>
  BY DEF FetchFirst, FetchPage, Step, book, station, history
<1>2. \A n \in Int : Ingest(r, n) \in Snapshot
  <2>1. left \in [Order -> Nat] /\ run[r].curr \in [Order -> Nat]
    BY Fields DEF CollectorInv, Typed, Snapshot
  <2> QED BY <2>1 DEF Ingest, Snapshot
<1>3. \E n \in Int, rest \in SUBSET Int :
          /\ run[r].pc \in {"first", "pages"}
          /\ run' = [run EXCEPT ![r].pc = "pages", ![r].curr = Ingest(r, n), ![r].pages = rest]
  <2>1. CASE FetchFirst(r)
    <3>1. 2..Pages \in SUBSET Int
      OBVIOUS
    <3>2. 1 \in Int
      OBVIOUS
    <3>3. /\ run[r].pc = "first"
          /\ run' = [run EXCEPT ![r].pc = "pages", ![r].curr = Ingest(r, 1), ![r].pages = 2..Pages]
      BY <2>1 DEF FetchFirst, Step
    <3> QED BY <3>1, <3>2, <3>3, Zenon
  <2>2. CASE FetchPage(r)
    <3>1. PICK n \in run[r].pages : /\ run[r].pc = "pages"
                                    /\ run' = [run EXCEPT ![r].curr = Ingest(r, n), ![r].pages = @ \ {n}]
      BY <2>2 DEF FetchPage, Step
    <3>2. n \in Int /\ run[r].pages \ {n} \in SUBSET Int
      BY Fields
    <3>3. run' = [run EXCEPT ![r].pc = "pages", ![r].curr = Ingest(r, n), ![r].pages = run[r].pages \ {n}]
      BY <3>1 DEF CollectorInv, Typed, RunType
    <3> QED BY <3>1, <3>2, <3>3
  <2> QED BY <2>1, <2>2
<1>4. PICK n \in Int, rest \in SUBSET Int :
          /\ run[r].pc \in {"first", "pages"}
          /\ run' = [run EXCEPT ![r].pc = "pages", ![r].curr = Ingest(r, n), ![r].pages = rest]
  BY <1>3
<1>5. Ingest(r, n) \in Snapshot
  BY <1>2
<1>6. /\ run'[r] \in RunType /\ run'[r].pc = "pages" /\ run'[r].id = run[r].id
      /\ \A q \in Run \ {r} : run'[q] = run[q]
  BY <1>4, <1>5 DEF CollectorInv, Typed, RunType
<1>7. Typed'
  BY <1>1, <1>4, <1>6 DEF CollectorInv, Typed
<1>8. OwnIds'
  <2>1. \A q \in Run : run'[q].id = run[q].id /\ ((Active(q))' <=> Active(q))
    BY <1>4, <1>6 DEF Active
  <2> QED BY <1>1, <1>4, <1>6, <2>1 DEF CollectorInv, OwnIds
<1>9. Written' /\ BaselineWhole'
  BY <1>1, <1>6 DEF CollectorInv, Written, BaselineWhole
<1> QED
  BY <1>7, <1>8, <1>9 DEF CollectorInv

LEMMA LoadStep == ASSUME CollectorInv, NEW r \in Run, LoadPrevious(r) PROVE CollectorInv'
<1> DEFINE base == IF run[r].prev = 0 THEN Empty ELSE rows[run[r].prev]
           todo == TypesOf(run[r].curr) \cup TypesOf(base)
<1>1. UNCHANGED <<left, ran, baseline, rows>>
  BY DEF LoadPrevious, Step, book, station
<1>2. base \in Snapshot /\ todo \in SUBSET Type
  BY CollectorAssumption, Fields DEF CollectorInv, Typed, Snapshot, Empty, TypesOf
<1>3. \A o \in Order : TypeOf[o] \notin todo => run[r].curr[o] = 0
  <2>1. run[r].curr \in [Order -> Nat]
    BY Fields
  <2> QED BY <2>1 DEF TypesOf
<1>4. /\ run[r].pc = "pages"
      /\ run' = [run EXCEPT ![r].pc = "write", ![r].base = base, ![r].todo = todo]
      /\ saw' = [saw EXCEPT ![run[r].id] = run[r].curr]
  BY DEF LoadPrevious, Step
<1>5. run[r].id \in Ids /\ run[r].id # baseline /\ rows[run[r].id] = Empty
  BY <1>4, Fields DEF CollectorInv, OwnIds, Active
<1> HIDE DEF base, todo
<1>6. /\ run'[r] \in RunType /\ run'[r].pc = "write" /\ run'[r].id = run[r].id
      /\ run'[r].curr = run[r].curr /\ run'[r].todo = todo
      /\ \A q \in Run \ {r} : run'[q] = run[q]
  BY <1>2, <1>4 DEF CollectorInv, Typed, RunType
<1>7. Typed' /\ OwnIds' /\ Written'
  <2>1. Typed'
    BY <1>1, <1>4, <1>5, <1>6, Fields DEF CollectorInv, Typed, Snapshot
  <2>2. \A q \in Run : run'[q].id = run[q].id /\ ((Active(q))' <=> Active(q))
    BY <1>4, <1>6 DEF Active
  <2>3. OwnIds'
    BY <1>1, <1>4, <1>6, <2>2 DEF CollectorInv, OwnIds
  <2>4. saw'[run[r].id] = run[r].curr /\ \A b \in Ids : b # run[r].id => saw'[b] = saw[b]
    BY <1>4, <1>5 DEF CollectorInv, Typed
  <2>5. \A q \in Run \ {r} : run[q].pc = "write" => run[q].id \in Ids /\ run[q].id # run[r].id
    BY <1>4, Fields DEF CollectorInv, OwnIds, Active
  <2>6. Written'
    BY <1>1, <1>3, <1>5, <1>6, <2>4, <2>5, Fields DEF CollectorInv, Written, Empty
  <2> QED BY <2>1, <2>3, <2>6
<1>8. BaselineWhole'
  BY <1>1, <1>4, <1>5 DEF CollectorInv, Typed, BaselineWhole, Ids
<1> QED
  BY <1>7, <1>8 DEF CollectorInv

LEMMA FlushStep == ASSUME CollectorInv, NEW r \in Run, Flush(r) PROVE CollectorInv'
<1>1. UNCHANGED <<left, ran, baseline, saw>>
  BY DEF Flush, Step, book, history
<1>2. PICK S \in SUBSET run[r].todo :
          /\ run[r].pc = "write"
          /\ rows' = [rows EXCEPT ![run[r].id] =
                         [o \in Order |-> IF TypeOf[o] \in S THEN run[r].curr[o] ELSE @[o]]]
          /\ run' = [run EXCEPT ![r].todo = @ \ S]
  BY DEF Flush, Step
<1> DEFINE row == [o \in Order |-> IF TypeOf[o] \in S THEN run[r].curr[o] ELSE rows[run[r].id][o]]
<1>3. run[r].id \in Ids /\ run[r].id # baseline /\ run[r].id <= ran
  BY <1>2, Fields DEF Active
<1>4. row \in Snapshot /\ rows' = [rows EXCEPT ![run[r].id] = row]
  <2>1. run[r].curr \in [Order -> Nat] /\ rows[run[r].id] \in [Order -> Nat]
    BY <1>3, Fields DEF CollectorInv, Typed, Snapshot
  <2>2. row \in Snapshot
    BY <2>1 DEF Snapshot
  <2> QED BY <1>2, <1>3, <2>2 DEF CollectorInv, Typed
<1>5. \A o \in Order : TypeOf[o] \notin run[r].todo \ S => row[o] = run[r].curr[o]
  BY <1>2 DEF CollectorInv, Written
<1> HIDE DEF row
<1>6. /\ run'[r] \in RunType /\ run'[r].pc = "write" /\ run'[r].id = run[r].id
      /\ run'[r].curr = run[r].curr /\ run'[r].todo = run[r].todo \ S
      /\ \A q \in Run \ {r} : run'[q] = run[q]
  BY <1>2 DEF CollectorInv, Typed, RunType
<1>7. Typed' /\ OwnIds' /\ Written'
  <2>1. Typed'
    BY <1>1, <1>2, <1>3, <1>4, <1>6 DEF CollectorInv, Typed
  <2>2. \A q \in Run : run'[q].id = run[q].id /\ ((Active(q))' <=> Active(q))
    BY <1>2, <1>6 DEF Active
  <2>3. rows'[run[r].id] = row /\ \A b \in Ids : b # run[r].id => rows'[b] = rows[b]
    BY <1>3, <1>4 DEF CollectorInv, Typed
  <2>4. \A q \in Run \ {r} : Active(q) => run[q].id \in Ids /\ run[q].id # run[r].id
    BY <1>2, Fields DEF CollectorInv, OwnIds, Active
  <2>5. \A b \in Ids : b > ran => rows'[b] = Empty
    BY <1>3, <2>3 DEF CollectorInv, Typed, OwnIds, Ids
  <2>6. \A q \in Run : run'[q].pc \in {"first", "pages"} => rows'[run'[q].id] = Empty
    BY <1>6, <2>3, <2>4 DEF CollectorInv, OwnIds, Active
  <2>7. OwnIds'
    BY <1>1, <2>2, <2>5, <2>6 DEF CollectorInv, OwnIds
  <2>8. Written'
    BY <1>1, <1>2, <1>5, <1>6, <2>3, <2>4 DEF CollectorInv, Written, Active
  <2> QED BY <2>1, <2>7, <2>8
<1>9. BaselineWhole'
  BY <1>1, <1>3, <1>4 DEF CollectorInv, Typed, BaselineWhole, Ids
<1> QED
  BY <1>7, <1>9 DEF CollectorInv

LEMMA FinalizeStep == ASSUME CollectorInv, NEW r \in Run, Finalize(r) PROVE CollectorInv'
<1>1. /\ UNCHANGED <<left, ran, rows, saw>>
      /\ run[r].pc = "write" /\ run[r].todo = {}
      /\ baseline' = run[r].id
      /\ run' = [run EXCEPT ![r] = NoRun]
  BY DEF Finalize, Advance, Step, book
<1>2. rows[run[r].id] = saw[run[r].id]
  <2>1. \A o \in Order : rows[run[r].id][o] = saw[run[r].id][o]
    BY <1>1 DEF CollectorInv, Written
  <2>2. rows[run[r].id] \in Snapshot /\ saw[run[r].id] \in Snapshot
    BY <1>1, Fields DEF CollectorInv, Typed, Active
  <2> QED BY <2>1, <2>2 DEF Snapshot
<1>3. run[r].id \in 1..ran /\ \A q \in Run \ {r} : Active(q) => run[q].id # run[r].id
  BY <1>1 DEF CollectorInv, OwnIds, Active
<1>4. NoRun \in RunType /\ NoRun.pc = "idle"
  BY DEF NoRun, RunType, Empty, Snapshot
<1>5. Typed'
  BY <1>1, <1>3, <1>4 DEF CollectorInv, Typed
<1>6. OwnIds'
  BY <1>1, <1>3, <1>4 DEF CollectorInv, Typed, OwnIds, Active
<1>7. Written' /\ BaselineWhole'
  BY <1>1, <1>2, <1>4 DEF CollectorInv, Typed, Written, BaselineWhole
<1> QED
  BY <1>5, <1>6, <1>7 DEF CollectorInv

LEMMA FailStep == ASSUME CollectorInv, NEW r \in Run, FailRun(r) PROVE CollectorInv'
<1>1. UNCHANGED <<left, ran, rows, saw, baseline>> /\ run' = [run EXCEPT ![r] = NoRun]
  BY DEF FailRun, book, station, history
<1>2. NoRun \in RunType /\ NoRun.pc = "idle"
  BY DEF NoRun, RunType, Empty, Snapshot
<1> QED
  BY <1>1, <1>2 DEF CollectorInv, Typed, OwnIds, Written, BaselineWhole, Active

\* The baseline points to a whole snapshot, for any number of overlapping runs of
\* collectStationOnce, each of which may fail anywhere (also a run).
THEOREM BaselineIsWhole == CollectorSpec => []BaselineWhole
<1>1. CollectorInv /\ [CollectorNext]_collectorVars => CollectorInv'
  <2>1. ASSUME CollectorInv, UNCHANGED collectorVars PROVE CollectorInv'
    BY <2>1
    DEF collectorVars, book, station, history, CollectorInv, Typed, OwnIds, Written, BaselineWhole, Active
  <2> QED
    BY <2>1, MarketStep, BeginStep, FetchStep, LoadStep, FlushStep, FinalizeStep, FailStep DEF CollectorNext
<1>2. CollectorInv => BaselineWhole
  BY DEF CollectorInv
<1> QED
  BY <1>1, <1>2, CollectorStart, PTL DEF CollectorSpec

--------------------------------------------------------------------------------
(* The type invariant                                                        *)

\* What CollectorTypeOK says besides: of the market, the aggregates and the runs.
Book ==
    /\ placed \subseteq Order /\ traded \in Snapshot
    /\ \A o \in Order : left[o] + traded[o] <= Size[o] /\ (o \notin placed => left[o] + traded[o] = 0)

Aggregates == first \in Snapshot /\ lower \in [Type -> Nat] /\ upper \in [Type -> Nat]

Marks == \A r \in Run : run[r].pages \subseteq Nat \ {0} /\ run[r].id <= ran /\ run[r].prev <= ran

TypedInv == CollectorInv /\ Book /\ Aggregates /\ Marks

\* What the market holds, order by order.
LEMMA Quantities ==
    ASSUME TypedInv
    PROVE  /\ left \in [Order -> Nat] /\ traded \in [Order -> Nat] /\ first \in [Order -> Nat]
           /\ Size \in [Order -> Nat] /\ \A o \in Order : Size[o] > 0
           /\ baseline \in Nat /\ ran \in Nat
           /\ baseline # 0 => baseline \in Ids /\ rows[baseline] \in [Order -> Nat]
  BY CollectorAssumption DEF TypedInv, Book, Aggregates, CollectorInv, Typed, Snapshot, Ids

\* What a run counts is a number of units.
LEMMA CountsAreNat ==
    ASSUME NEW base \in [Order -> Nat], NEW curr \in [Order -> Nat], NEW t
    PROVE  Shrunk(base, curr, t) \in Nat /\ Gone(base, curr, t) \in Nat
<1> DEFINE by == [o \in Order |-> base[o] - curr[o]]
           S == {o \in Order : TypeOf[o] = t /\ curr[o] > 0 /\ base[o] > curr[o]}
           G == {o \in Order \ Expiring : TypeOf[o] = t /\ curr[o] = 0}
<1>1. IsFiniteSet(S) /\ IsFiniteSet(G)
  <2>1. S \subseteq Order /\ G \subseteq Order
    OBVIOUS
  <2> QED BY <2>1, CollectorAssumption, FS_Subset
<1>2. \A o \in S : by[o] \in Nat
  OBVIOUS
<1>3. \A o \in G : base[o] \in Nat
  OBVIOUS
<1> HIDE DEF by, S, G
<1>4. Total(by, S) \in Nat /\ Total(base, G) \in Nat
  BY <1>1, <1>2, <1>3, UnitsFinite
<1> QED BY <1>4 DEF Shrunk, Gone, by, S, G

LEMMA TypedStart == CollectorInit => TypedInv
<1> SUFFICES ASSUME CollectorInit PROVE TypedInv
  OBVIOUS
<1>1. Empty \in Snapshot /\ \A o \in Order : Empty[o] = 0
  BY DEF Empty, Snapshot
<1>2. NoRun.pages = {} /\ NoRun.id = 0 /\ NoRun.prev = 0
  BY DEF NoRun
<1>3. Book
  BY <1>1, CollectorAssumption DEF CollectorInit, Book
<1>4. Aggregates
  BY <1>1 DEF CollectorInit, Aggregates
<1>5. Marks
  BY <1>2 DEF CollectorInit, Marks
<1> QED BY <1>3, <1>4, <1>5, CollectorStart DEF TypedInv

\* What the market does: an order shrinks, is gone, or is placed and was not before.
LEMMA MarketShape ==
    ASSUME TypedInv, NEW m \in Order, Place(m) \/ Trade(m) \/ Withdraw(m)
    PROVE  /\ UNCHANGED <<station, ran, run, history>>
           /\ placed \subseteq placed' /\ placed' \subseteq Order
           /\ left' \in [Order -> Nat] /\ traded' \in [Order -> Nat]
           /\ \A o \in Order :
                 \/ /\ left'[o] <= left[o] /\ traded[o] <= traded'[o]
                    /\ left'[o] + traded'[o] <= left[o] + traded[o]
                    /\ left'[o] > 0 => left'[o] + traded'[o] = left[o] + traded[o]
                 \/ /\ o \notin placed /\ o \in placed'
                    /\ left'[o] = Size[o] /\ traded[o] = 0 /\ traded'[o] = 0
<1>1. left \in [Order -> Nat] /\ traded \in [Order -> Nat] /\ Size \in [Order -> Nat]
  BY Quantities
<1>2. CASE Place(m)
  <2>1. left[m] = 0 /\ traded[m] = 0
    BY <1>1, <1>2 DEF TypedInv, Book, Place
  <2> QED BY <1>1, <1>2, <2>1 DEF TypedInv, Book, Place
<1>3. CASE Trade(m)
  <2>1. /\ left' = [left EXCEPT ![m] = left[m] - 1] /\ traded' = [traded EXCEPT ![m] = traded[m] + 1]
        /\ left[m] > 0 /\ UNCHANGED <<placed, station, ran, run, history>>
    BY <1>3 DEF Trade
  <2>2. left[m] - 1 \in Nat /\ traded[m] + 1 \in Nat
    BY <1>1, <2>1
  <2>3. \A o \in Order : /\ left'[o] = IF o = m THEN left[m] - 1 ELSE left[o]
                         /\ traded'[o] = IF o = m THEN traded[m] + 1 ELSE traded[o]
    BY <1>1, <2>1
  <2>4. left' \in [Order -> Nat] /\ traded' \in [Order -> Nat]
    BY <1>1, <2>1, <2>2
  <2>5. ASSUME NEW o \in Order
        PROVE  /\ left'[o] <= left[o] /\ traded[o] <= traded'[o]
               /\ left'[o] + traded'[o] = left[o] + traded[o]
    BY <1>1, <2>3
  <2> QED BY <1>1, <2>1, <2>4, <2>5 DEF TypedInv, Book
<1>4. CASE Withdraw(m)
  <2>1. \A o \in Order : left'[o] = (IF o = m THEN 0 ELSE left[o]) /\ traded'[o] = traded[o]
    BY <1>1, <1>4 DEF Withdraw
  <2> QED BY <1>1, <1>4, <2>1 DEF TypedInv, Book, Withdraw
<1> QED BY <1>2, <1>3, <1>4

LEMMA TypedMarketStep ==
    ASSUME TypedInv, NEW m \in Order, Place(m) \/ Trade(m) \/ Withdraw(m)
    PROVE  TypedInv'
<1>1. CollectorInv'
  BY MarketStep DEF TypedInv
<1>2. /\ UNCHANGED <<ran, run, first, lower, upper>>
      /\ placed \subseteq placed' /\ placed' \subseteq Order
      /\ left' \in [Order -> Nat] /\ traded' \in [Order -> Nat]
  BY MarketShape DEF station, history
<1>3. ASSUME NEW o \in Order
      PROVE  left'[o] + traded'[o] <= Size[o] /\ (o \notin placed' => left'[o] + traded'[o] = 0)
  <2>1. left[o] + traded[o] <= Size[o] /\ (o \notin placed => left[o] + traded[o] = 0)
    BY DEF TypedInv, Book
  <2> QED BY <1>2, <2>1, MarketShape, Quantities
<1>4. Book' /\ Aggregates' /\ Marks'
  BY <1>2, <1>3 DEF TypedInv, Book, Aggregates, Marks, Snapshot
<1> QED BY <1>1, <1>4 DEF TypedInv

\* What a run does, except at its end, concerns the run itself and its rows.
LEMMA RunShape ==
    ASSUME TypedInv, NEW r \in Run,
           Begin(r) \/ FetchFirst(r) \/ FetchPage(r) \/ LoadPrevious(r) \/ Flush(r) \/ FailRun(r)
    PROVE  /\ UNCHANGED <<placed, left, traded, lower, upper, first, baseline>>
           /\ \A q \in Run \ {r} : run'[q] = run[q]
           /\ ran \in Nat /\ ran' \in Nat /\ ran <= ran'
           /\ run'[r].pages \subseteq Nat \ {0} /\ run'[r].id <= ran' /\ run'[r].prev <= ran'
<1>1. /\ run \in [Run -> RunType] /\ ran \in Nat /\ baseline \in Nat /\ baseline <= ran
      /\ run[r].pages \subseteq Nat \ {0} /\ run[r].id <= ran /\ run[r].prev <= ran
      /\ run[r].id \in Nat /\ run[r].prev \in Nat
  BY CollectorAssumption DEF TypedInv, CollectorInv, Typed, RunType, Marks, Ids
<1>2. NoRun.pages = {} /\ NoRun.id = 0 /\ NoRun.prev = 0
  BY DEF NoRun
<1>3. CASE Begin(r)
  <2> DEFINE new == [NoRun EXCEPT !.pc = "first", !.id = ran + 1, !.prev = baseline]
  <2>1. new.pages = {} /\ new.id = ran + 1 /\ new.prev = baseline
    BY DEF NoRun
  <2>2. run' = [run EXCEPT ![r] = new] /\ ran' = ran + 1 /\ UNCHANGED <<book, station, history>>
    BY <1>3 DEF Begin
  <2> HIDE DEF new
  <2> QED BY <1>1, <2>1, <2>2 DEF book, station, history
<1>4. CASE FetchFirst(r)
  <2>1. 2..Pages \subseteq Nat \ {0}
    OBVIOUS
  <2> QED BY <1>1, <1>4, <2>1 DEF FetchFirst, Step, book, station, history, RunType
<1>5. CASE FetchPage(r)
  <2>1. PICK n \in run[r].pages :
            run' = [run EXCEPT ![r].curr = Ingest(r, n), ![r].pages = @ \ {n}]
    BY <1>5 DEF FetchPage
  <2>2. /\ \A q \in Run \ {r} : run'[q] = run[q]
        /\ run'[r].pages = run[r].pages \ {n} /\ run'[r].id = run[r].id /\ run'[r].prev = run[r].prev
    BY <1>1, <2>1 DEF RunType
  <2>3. UNCHANGED <<placed, left, traded, lower, upper, first, baseline, ran>>
    BY <1>5 DEF FetchPage, Step, book, station, history
  <2> QED BY <1>1, <2>2, <2>3
<1>6. CASE LoadPrevious(r)
  BY <1>1, <1>6 DEF LoadPrevious, Step, book, station, RunType
<1>7. CASE Flush(r)
  BY <1>1, <1>7 DEF Flush, Step, book, history, RunType
<1>8. CASE FailRun(r)
  BY <1>1, <1>2, <1>8 DEF FailRun, book, station, history
<1> QED BY <1>3, <1>4, <1>5, <1>6, <1>7, <1>8

LEMMA TypedRunStep ==
    ASSUME TypedInv, NEW r \in Run,
           Begin(r) \/ FetchFirst(r) \/ FetchPage(r) \/ LoadPrevious(r) \/ Flush(r) \/ FailRun(r)
    PROVE  TypedInv'
<1>1. CollectorInv'
  BY BeginStep, FetchStep, LoadStep, FlushStep, FailStep DEF TypedInv
<1>2. Book' /\ Aggregates'
  BY RunShape DEF TypedInv, Book, Aggregates
<1>3. Marks'
  <2>1. \A q \in Run : run[q].id \in Nat /\ run[q].prev \in Nat
    BY CollectorAssumption DEF TypedInv, CollectorInv, Typed, RunType, Ids
  <2>2. ASSUME NEW q \in Run \ {r}
        PROVE  run'[q].pages \subseteq Nat \ {0} /\ run'[q].id <= ran' /\ run'[q].prev <= ran'
    BY <2>1, RunShape DEF TypedInv, Marks
  <2> QED BY <2>2, RunShape DEF Marks
<1> QED BY <1>1, <1>2, <1>3 DEF TypedInv

LEMMA TypedFinalizeStep == ASSUME TypedInv, NEW r \in Run, Finalize(r) PROVE TypedInv'
<1>1. CollectorInv'
  BY FinalizeStep DEF TypedInv
<1>2. /\ UNCHANGED <<placed, left, traded, ran>> /\ Merge(r)
      /\ first' = [o \in Order |-> IF first[o] = 0 THEN run[r].curr[o] ELSE first[o]]
      /\ run' = [run EXCEPT ![r] = NoRun]
  BY DEF Finalize, Advance, Step, book
<1>3. run[r].curr \in [Order -> Nat] /\ run[r].base \in [Order -> Nat]
  BY Fields DEF TypedInv
<1>4. \A t : Shrunk(run[r].base, run[r].curr, t) \in Nat /\ Gone(run[r].base, run[r].curr, t) \in Nat
  BY <1>3, CountsAreNat
<1>5. Aggregates'
  <2>1. first' \in Snapshot
    BY <1>2, <1>3, Quantities DEF Snapshot
  <2>2. lower' \in [Type -> Nat] /\ upper' \in [Type -> Nat]
    <3> DEFINE counts == IF run[r].prev = 0 THEN 0 ELSE 1
    <3>1. counts = 0 \/ counts = 1
      OBVIOUS
    <3>2. /\ lower' = [t \in Type |-> lower[t] + counts * Shrunk(run[r].base, run[r].curr, t)]
          /\ upper' = [t \in Type |-> upper[t]
                        + counts * (Shrunk(run[r].base, run[r].curr, t) + Gone(run[r].base, run[r].curr, t))]
      BY <1>2 DEF Merge
    <3> HIDE DEF counts
    <3>3. CASE counts = 0
      BY <1>4, <3>2, <3>3 DEF TypedInv, Aggregates
    <3>4. CASE counts = 1
      BY <1>4, <3>2, <3>4 DEF TypedInv, Aggregates
    <3> QED BY <3>1, <3>3, <3>4
  <2> QED BY <2>1, <2>2 DEF Aggregates
<1>6. Marks'
  <2>1. NoRun.pages = {} /\ NoRun.id = 0 /\ NoRun.prev = 0
    BY DEF NoRun
  <2>2. ran \in Nat /\ run \in [Run -> RunType]
    BY Quantities DEF TypedInv, CollectorInv, Typed
  <2> QED BY <1>2, <2>1, <2>2 DEF TypedInv, Marks
<1>7. Book'
  BY <1>2 DEF TypedInv, Book
<1> QED BY <1>1, <1>5, <1>6, <1>7 DEF TypedInv

LEMMA TypedStep == TypedInv /\ [CollectorNext]_collectorVars => TypedInv'
<1>1. ASSUME TypedInv, UNCHANGED collectorVars PROVE TypedInv'
  BY <1>1 DEF collectorVars, book, station, history, TypedInv, Book, Aggregates, Marks,
              CollectorInv, Typed, OwnIds, Written, BaselineWhole, Active
<1> QED
  BY <1>1, TypedMarketStep, TypedRunStep, TypedFinalizeStep DEF CollectorNext

LEMMA TypedAsStated == TypedInv => CollectorTypeOK
<1> SUFFICES ASSUME TypedInv PROVE CollectorTypeOK
  OBVIOUS
<1>1. ran \in 0..MaxRuns /\ baseline \in 0..ran /\ left \in Snapshot
      /\ rows \in [Ids -> Snapshot] /\ saw \in [Ids -> Snapshot] /\ run \in [Run -> RunType]
  BY DEF TypedInv, CollectorInv, Typed
<1>2. ASSUME NEW r \in Run PROVE run[r] \in Local
  <2>1. run[r] \in RunType /\ run[r].pages \in SUBSET (Nat \ {0})
    BY <1>1 DEF TypedInv, Marks
  <2> QED BY <2>1 DEF RunType, Local
<1> QED
  BY <1>1, <1>2 DEF TypedInv, Book, Aggregates, Marks, CollectorTypeOK

\* The aggregates and the snapshots stay quantities, and no order is traded beyond
\* its size, for any number of overlapping runs of collectStationOnce (also a run).
THEOREM CollectorTyped == CollectorSpec => []CollectorTypeOK
  BY TypedStart, TypedStep, TypedAsStated, PTL DEF CollectorSpec

--------------------------------------------------------------------------------
(* The aggregates, when the cron job starts no run while it has one in flight *)

Serial == \A r, q \in Run : r = q

OfType(t) == {o \in Order : TypeOf[o] = t}

\* The units of o in the baseline.
Base(o) == IF baseline = 0 THEN 0 ELSE rows[baseline][o]

\* An order in the book has lost units to trades only.
Sold == \A o \in Order : left[o] > 0 => o \in placed /\ left[o] + traded[o] = Size[o]

\* o was in the book with v units left: what it has lost since is not more than
\* what is gone now, and what it had lost before was traded.
SeenAs(v, o) == v <= Size[o] /\ (v > 0 => o \in placed /\ left[o] <= v /\ Size[o] <= v + traded[o])

\* What was seen later is not more.
Seen ==
    \A o \in Order :
        /\ SeenAs(Base(o), o) /\ SeenAs(first[o], o)
        /\ Base(o) <= first[o] /\ (baseline = 0 => first[o] = 0)
        /\ \A r \in Run :
              /\ SeenAs(run[r].curr[o], o)
              /\ run[r].curr[o] > 0 /\ Base(o) > 0 => run[r].curr[o] <= Base(o)
              /\ run[r].curr[o] > 0 /\ first[o] > 0 => run[r].curr[o] <= first[o]

\* No other run has moved the baseline meanwhile.
Abreast ==
    \A r \in Run :
        /\ Active(r) => run[r].prev = baseline
        /\ run[r].pc = "write" => \A o \in Order : run[r].base[o] = Base(o)

\* The units of each order that the lower bounds may have counted when r ends: those
\* the order lacks in the baseline or, if it is not there, in what r was shown.
Told(r) ==
    [o \in Order |-> IF Base(o) > 0 THEN Size[o] - Base(o)
                     ELSE IF run[r].curr[o] > 0 THEN Size[o] - run[r].curr[o]
                     ELSE traded[o]]

LowerTold ==
    \A t \in Type : /\ lower[t] <= Total(traded, OfType(t))
                    /\ \A r \in Run : lower[t] <= Total(Told(r), OfType(t))

\* The units each order has lost since its first baseline, which are in the upper bounds.
Missed == [o \in Order |-> first[o] - Base(o)]

UpperMissed == \A t \in Type : Total(Missed, OfType(t) \ Expiring) <= upper[t]

BoundsInv == Sold /\ Seen /\ Abreast /\ LowerTold /\ UpperMissed

LEMMA TypeIsFinite ==
    ASSUME NEW t
    PROVE  IsFiniteSet(OfType(t)) /\ IsFiniteSet(OfType(t) \ Expiring) /\ OfType(t) \subseteq Order
<1>1. OfType(t) \subseteq Order /\ OfType(t) \ Expiring \subseteq Order
  BY DEF OfType
<1> QED BY <1>1, CollectorAssumption, FS_Subset

LEMMA BaseIsNat == ASSUME TypedInv, NEW o \in Order PROVE Base(o) \in Nat
  BY Quantities DEF Base

\* What may have been counted was traded.
LEMMA ToldWasTraded ==
    ASSUME TypedInv, Seen, NEW r \in Run, NEW o \in Order
    PROVE  Told(r)[o] \in Nat /\ Told(r)[o] <= traded[o]
<1>1. /\ Base(o) \in Nat /\ traded[o] \in Nat /\ Size[o] \in Nat /\ run[r].curr[o] \in Nat
  BY BaseIsNat, Quantities, Fields DEF TypedInv
<1>2. SeenAs(Base(o), o) /\ SeenAs(run[r].curr[o], o)
  BY DEF Seen
<1> QED BY <1>1, <1>2 DEF Told, SeenAs

LEMMA BoundsStart == CollectorInit => BoundsInv
<1> SUFFICES ASSUME CollectorInit PROVE BoundsInv
  OBVIOUS
<1>1. \A o \in Order : Empty[o] = 0
  BY DEF Empty
<1>2. NoRun.pc = "idle" /\ NoRun.curr = Empty
  BY DEF NoRun
<1>3. \A o \in Order : Base(o) = 0
  BY DEF CollectorInit, Base
<1>4. Sold /\ Seen /\ Abreast
  <2>1. \A o \in Order : left[o] = 0 /\ first[o] = 0 /\ Size[o] \in Nat
    BY <1>1, CollectorAssumption DEF CollectorInit
  <2>2. \A r \in Run : run[r].pc = "idle" /\ \A o \in Order : run[r].curr[o] = 0
    BY <1>1, <1>2 DEF CollectorInit
  <2> QED BY <1>3, <2>1, <2>2 DEF Sold, Seen, SeenAs, Abreast, Active
<1>5. \A o \in Order : Missed[o] = 0 /\ traded[o] = 0 /\ \A r \in Run : Told(r)[o] = 0
  BY <1>1, <1>2, <1>3 DEF CollectorInit, Missed, Told
<1>6. LowerTold
  <2> SUFFICES ASSUME NEW t \in Type
               PROVE  /\ lower[t] <= Total(traded, OfType(t))
                      /\ \A r \in Run : lower[t] <= Total(Told(r), OfType(t))
    BY DEF LowerTold
  <2>1. lower[t] = 0
    BY DEF CollectorInit
  <2>2. Total(traded, OfType(t)) = 0
    BY <1>5, TypeIsFinite, TotalZero
  <2>3. ASSUME NEW r \in Run PROVE Total(Told(r), OfType(t)) = 0
    BY <1>5, TypeIsFinite, TotalZero
  <2> QED BY <2>1, <2>2, <2>3
<1>7. UpperMissed
  <2> SUFFICES ASSUME NEW t \in Type PROVE Total(Missed, OfType(t) \ Expiring) <= upper[t]
    BY DEF UpperMissed
  <2>1. Total(Missed, OfType(t) \ Expiring) = 0
    BY <1>5, TypeIsFinite, TotalZero
  <2> QED BY <2>1 DEF CollectorInit
<1> QED BY <1>4, <1>6, <1>7 DEF BoundsInv

LEMMA BoundsMarketStep ==
    ASSUME TypedInv, BoundsInv, NEW m \in Order, Place(m) \/ Trade(m) \/ Withdraw(m)
    PROVE  BoundsInv'
<1>1. /\ UNCHANGED <<baseline, rows, lower, upper, run, first>>
      /\ placed \subseteq placed'
      /\ left' \in [Order -> Nat] /\ traded' \in [Order -> Nat]
  BY MarketShape DEF station, history
<1>2. /\ left \in [Order -> Nat] /\ traded \in [Order -> Nat] /\ Size \in [Order -> Nat]
  BY Quantities
<1>3. \A o \in Order : (Base(o))' = Base(o)
  BY <1>1 DEF Base
<1>4. Sold'
  BY <1>1, <1>2, MarketShape DEF BoundsInv, Sold
<1>5. ASSUME NEW o \in Order, NEW v \in Nat, SeenAs(v, o) PROVE SeenAs(v, o)'
  BY <1>1, <1>2, <1>5, MarketShape DEF SeenAs
<1>6. Seen'
  <2>1. ASSUME NEW o \in Order
        PROVE  /\ Base(o) \in Nat /\ first[o] \in Nat /\ \A r \in Run : run[r].curr[o] \in Nat
    BY BaseIsNat, Quantities, Fields DEF TypedInv
  <2> QED BY <1>1, <1>3, <1>5, <2>1 DEF BoundsInv, Seen, SeenAs
<1>7. Abreast'
  BY <1>1, <1>3 DEF BoundsInv, Abreast, Active
<1>9. LowerTold'
  <2> SUFFICES ASSUME NEW t \in Type
               PROVE  /\ lower[t] <= Total(traded', OfType(t))
                      /\ \A r \in Run : lower[t] <= Total(Told(r)', OfType(t))
    BY <1>1 DEF LowerTold, OfType
  <2>1. lower[t] \in Nat /\ lower[t] <= Total(traded, OfType(t))
    BY DEF TypedInv, Aggregates, BoundsInv, LowerTold
  <2>2. \A o \in OfType(t) : traded[o] \in Nat /\ traded'[o] \in Nat /\ traded[o] <= traded'[o]
    <3>1. \A o \in Order : traded[o] <= traded'[o]
      BY <1>1, <1>2, MarketShape
    <3> QED BY <1>1, <1>2, <3>1, TypeIsFinite
  <2>3. Total(traded, OfType(t)) <= Total(traded', OfType(t))
    BY <2>2, TypeIsFinite, TotalMonotonic
  <2>4. Total(traded, OfType(t)) \in Nat /\ Total(traded', OfType(t)) \in Nat
    BY <2>2, TypeIsFinite, UnitsFinite
  <2>5. ASSUME NEW r \in Run PROVE lower[t] <= Total(Told(r)', OfType(t))
    <3>0. ASSUME NEW o \in OfType(t)
          PROVE  Told(r)[o] \in Nat /\ Told(r)'[o] \in Nat /\ Told(r)[o] <= Told(r)'[o]
      <4>1. o \in Order
        BY TypeIsFinite
      <4>2. Told(r)[o] \in Nat /\ Told(r)[o] <= traded[o]
        BY <4>1, ToldWasTraded DEF BoundsInv
      <4>3. Told(r)'[o] = Told(r)[o] \/ (Told(r)[o] = traded[o] /\ Told(r)'[o] = traded'[o])
        BY <1>1, <1>3, <4>1 DEF Told
      <4> QED BY <2>2, <4>2, <4>3
    <3>1. \A o \in OfType(t) : Told(r)[o] \in Nat /\ Told(r)'[o] \in Nat
      BY <3>0
    <3>2. \A o \in OfType(t) : Told(r)[o] <= Told(r)'[o]
      BY <3>0
    <3>3. Total(Told(r), OfType(t)) <= Total(Told(r)', OfType(t))
      BY <3>1, <3>2, TypeIsFinite, TotalMonotonic
    <3>4. Total(Told(r), OfType(t)) \in Nat /\ Total(Told(r)', OfType(t)) \in Nat
      BY <3>1, TypeIsFinite, UnitsFinite
    <3>5. lower[t] <= Total(Told(r), OfType(t))
      BY DEF BoundsInv, LowerTold
    <3> QED BY <2>1, <3>3, <3>4, <3>5
  <2> QED BY <2>1, <2>3, <2>4, <2>5
<1>10. UpperMissed'
  <2>1. Missed' = Missed
    BY <1>1, <1>3 DEF Missed
  <2> QED BY <1>1, <2>1 DEF BoundsInv, UpperMissed, OfType
<1> QED BY <1>4, <1>6, <1>7, <1>9, <1>10 DEF BoundsInv

\* Until it ends, a run changes nothing but what it was shown: it sees an order as it
\* is now, as it saw it before, or not at all.
LEMMA BoundsCarried ==
    ASSUME Serial, TypedInv, BoundsInv, NEW r \in Run, Abreast',
           UNCHANGED <<placed, left, traded, lower, upper, first, baseline>>,
           \A o \in Order : (Base(o))' = Base(o),
           \A o \in Order : \/ run'[r].curr[o] = run[r].curr[o] \/ run'[r].curr[o] = 0
                            \/ left[o] > 0 /\ run'[r].curr[o] = left[o]
    PROVE  BoundsInv'
<1>1. \A q \in Run : q = r
  BY DEF Serial
<1>2. ASSUME NEW o \in Order
      PROVE  /\ Base(o) \in Nat /\ first[o] \in Nat /\ run[r].curr[o] \in Nat
             /\ left[o] \in Nat /\ traded[o] \in Nat /\ Size[o] \in Nat
  BY BaseIsNat, Quantities, Fields DEF TypedInv
<1>3. Sold'
  BY DEF BoundsInv, Sold
<1>4. Seen'
  <2>1. ASSUME NEW o \in Order
        PROVE  /\ SeenAs(run'[r].curr[o], o)
               /\ run'[r].curr[o] > 0 /\ Base(o) > 0 => run'[r].curr[o] <= Base(o)
               /\ run'[r].curr[o] > 0 /\ first[o] > 0 => run'[r].curr[o] <= first[o]
    <3>1. /\ SeenAs(Base(o), o) /\ SeenAs(first[o], o) /\ SeenAs(run[r].curr[o], o)
          /\ run[r].curr[o] > 0 /\ Base(o) > 0 => run[r].curr[o] <= Base(o)
          /\ run[r].curr[o] > 0 /\ first[o] > 0 => run[r].curr[o] <= first[o]
      BY DEF BoundsInv, Seen
    <3>2. CASE run'[r].curr[o] = run[r].curr[o]
      BY <3>1, <3>2
    <3>3. CASE run'[r].curr[o] = 0
      BY <1>2, <3>3 DEF SeenAs
    <3>4. CASE left[o] > 0 /\ run'[r].curr[o] = left[o]
      BY <1>2, <3>1, <3>4 DEF SeenAs, BoundsInv, Sold
    <3> QED BY <3>2, <3>3, <3>4
  <2>2. ASSUME NEW o \in Order
        PROVE  /\ SeenAs(Base(o), o) /\ SeenAs(first[o], o)
               /\ Base(o) <= first[o] /\ (baseline = 0 => first[o] = 0)
    BY DEF BoundsInv, Seen
  <2> QED BY <1>1, <2>1, <2>2 DEF Seen, SeenAs
<1>5. ASSUME NEW o \in Order
      PROVE  Told(r)[o] \in Nat /\ Told(r)'[o] \in Nat /\ Told(r)[o] <= Told(r)'[o]
  <2>1. Told(r)[o] \in Nat /\ Told(r)[o] <= traded[o]
    BY ToldWasTraded DEF BoundsInv
  <2>2. Told(r)'[o] = IF Base(o) > 0 THEN Size[o] - Base(o)
                      ELSE IF run'[r].curr[o] > 0 THEN Size[o] - run'[r].curr[o]
                      ELSE traded[o]
    BY DEF Told
  <2>3. CASE run'[r].curr[o] = run[r].curr[o]
    <3>1. Told(r)'[o] = Told(r)[o]
      BY <2>2, <2>3 DEF Told
    <3> QED BY <2>1, <3>1
  <2>4. CASE Base(o) > 0
    <3>1. Told(r)'[o] = Told(r)[o]
      BY <2>2, <2>4 DEF Told
    <3> QED BY <2>1, <3>1
  <2>5. CASE Base(o) = 0 /\ run'[r].curr[o] = 0
    BY <1>2, <2>1, <2>2, <2>5
  <2>6. CASE Base(o) = 0 /\ left[o] > 0 /\ run'[r].curr[o] = left[o]
    <3>1. left[o] + traded[o] = Size[o]
      BY <2>6 DEF BoundsInv, Sold
    <3> QED BY <1>2, <2>1, <2>2, <2>6, <3>1
  <2> QED BY <1>2, <2>3, <2>4, <2>5, <2>6
<1>6. LowerTold'
  <2> SUFFICES ASSUME NEW t \in Type
               PROVE  /\ lower[t] <= Total(traded, OfType(t))
                      /\ lower[t] <= Total(Told(r)', OfType(t))
    BY <1>1 DEF LowerTold, OfType
  <2>1. lower[t] \in Nat /\ lower[t] <= Total(traded, OfType(t)) /\ lower[t] <= Total(Told(r), OfType(t))
    BY DEF TypedInv, Aggregates, BoundsInv, LowerTold
  <2>2. \A o \in OfType(t) : Told(r)[o] \in Nat /\ Told(r)'[o] \in Nat /\ Told(r)[o] <= Told(r)'[o]
    BY <1>5, TypeIsFinite
  <2>3. Total(Told(r), OfType(t)) <= Total(Told(r)', OfType(t))
    BY <2>2, TypeIsFinite, TotalMonotonic
  <2>4. Total(Told(r), OfType(t)) \in Nat /\ Total(Told(r)', OfType(t)) \in Nat
    BY <2>2, TypeIsFinite, UnitsFinite
  <2> QED BY <2>1, <2>3, <2>4
<1>7. UpperMissed'
  <2>1. Missed' = Missed
    BY DEF Missed
  <2> QED BY <2>1 DEF BoundsInv, UpperMissed, OfType
<1> QED BY <1>3, <1>4, <1>6, <1>7 DEF BoundsInv

LEMMA BoundsRunStep ==
    ASSUME Serial, TypedInv, BoundsInv, NEW r \in Run,
           Begin(r) \/ FetchFirst(r) \/ FetchPage(r) \/ LoadPrevious(r) \/ Flush(r) \/ FailRun(r)
    PROVE  BoundsInv'
<1>1. UNCHANGED <<placed, left, traded, lower, upper, first, baseline>>
  BY RunShape
<1>2. \A q \in Run : q = r
  BY DEF Serial
<1>3. run \in [Run -> RunType] /\ run[r] \in RunType
  BY DEF TypedInv, CollectorInv, Typed
<1>4. \A o \in Order : Empty[o] = 0
  BY DEF Empty
<1>5. NoRun.pc = "idle" /\ NoRun.curr = Empty
  BY DEF NoRun
<1>6. CASE Begin(r)
  <2> DEFINE new == [NoRun EXCEPT !.pc = "first", !.id = ran + 1, !.prev = baseline]
  <2>1. new.pc = "first" /\ new.prev = baseline /\ new.curr = Empty
    BY DEF NoRun
  <2>2. run' = [run EXCEPT ![r] = new] /\ UNCHANGED rows
    BY <1>6 DEF Begin, station
  <2> HIDE DEF new
  <2>3. run'[r] = new
    BY <1>3, <2>2
  <2>4. Abreast'
    BY <1>1, <1>2, <2>1, <2>3 DEF Abreast
  <2>5. \A o \in Order : (Base(o))' = Base(o)
    BY <1>1, <2>2 DEF Base
  <2> QED BY <1>1, <1>4, <2>1, <2>3, <2>4, <2>5, BoundsCarried
<1>7. CASE FetchFirst(r) \/ FetchPage(r)
  <2>1. UNCHANGED rows
    BY <1>7 DEF FetchFirst, FetchPage, station
  <2>2. \E n \in Int : /\ Active(r) /\ run'[r].pc = "pages" /\ run'[r].prev = run[r].prev
                       /\ run'[r].curr = Ingest(r, n)
    <3>1. CASE FetchFirst(r)
      <4>1. run' = [run EXCEPT ![r].pc = "pages", ![r].curr = Ingest(r, 1), ![r].pages = 2..Pages]
            /\ run[r].pc = "first"
        BY <3>1 DEF FetchFirst, Step
      <4>2. run'[r].pc = "pages" /\ run'[r].prev = run[r].prev /\ run'[r].curr = Ingest(r, 1)
        BY <1>3, <4>1 DEF RunType
      <4> QED BY <4>1, <4>2 DEF Active
    <3>2. CASE FetchPage(r)
      <4>1. PICK n \in run[r].pages :
                /\ run[r].pc = "pages"
                /\ run' = [run EXCEPT ![r].curr = Ingest(r, n), ![r].pages = @ \ {n}]
        BY <3>2 DEF FetchPage, Step
      <4>2. run'[r].pc = "pages" /\ run'[r].prev = run[r].prev /\ run'[r].curr = Ingest(r, n)
        BY <1>3, <4>1 DEF RunType
      <4>3. n \in Int
        BY <1>3 DEF RunType
      <4> QED BY <4>1, <4>2, <4>3 DEF Active
    <3> QED BY <1>7, <3>1, <3>2
  <2>3. PICK n \in Int : /\ Active(r) /\ run'[r].pc = "pages" /\ run'[r].prev = run[r].prev
                         /\ run'[r].curr = Ingest(r, n)
    BY <2>2
  <2>4. Abreast'
    BY <1>1, <1>2, <2>3 DEF BoundsInv, Abreast, Active
  <2>5. \A o \in Order : (Base(o))' = Base(o)
    BY <1>1, <2>1 DEF Base
  <2>6. ASSUME NEW o \in Order
        PROVE  \/ run'[r].curr[o] = run[r].curr[o]
               \/ left[o] > 0 /\ run'[r].curr[o] = left[o]
    BY <2>3 DEF Ingest, Page, Live
  <2> QED BY <1>1, <2>4, <2>5, <2>6, BoundsCarried
<1>8. CASE LoadPrevious(r)
  <2> DEFINE base == IF run[r].prev = 0 THEN Empty ELSE rows[run[r].prev]
             todo == TypesOf(run[r].curr) \cup TypesOf(base)
  <2>1. /\ run' = [run EXCEPT ![r].pc = "write", ![r].base = base, ![r].todo = todo]
        /\ run[r].pc = "pages" /\ UNCHANGED rows
    BY <1>8 DEF LoadPrevious, Step, station
  <2>2. \A o \in Order : base[o] = Base(o)
    BY <1>4, <2>1 DEF BoundsInv, Abreast, Active, Base
  <2> HIDE DEF base, todo
  <2>3. run'[r].pc = "write" /\ run'[r].base = base /\ run'[r].prev = run[r].prev /\ run'[r].curr = run[r].curr
    BY <1>3, <2>1 DEF RunType
  <2>4. \A o \in Order : (Base(o))' = Base(o)
    BY <1>1, <2>1 DEF Base
  <2>5. run[r].prev = baseline
    BY <2>1 DEF BoundsInv, Abreast, Active
  <2>6. Abreast'
    BY <1>1, <1>2, <2>2, <2>3, <2>4, <2>5 DEF Abreast
  <2> QED BY <1>1, <2>3, <2>4, <2>6, BoundsCarried
<1>9. CASE Flush(r)
  <2>1. PICK S \in SUBSET run[r].todo :
            /\ run[r].pc = "write"
            /\ rows' = [rows EXCEPT ![run[r].id] =
                           [o \in Order |-> IF TypeOf[o] \in S THEN run[r].curr[o] ELSE @[o]]]
            /\ run' = [run EXCEPT ![r].todo = @ \ S]
    BY <1>9 DEF Flush, Step
  <2>2. run'[r].pc = run[r].pc /\ run'[r].base = run[r].base /\ run'[r].prev = run[r].prev
        /\ run'[r].curr = run[r].curr
    BY <1>3, <2>1 DEF RunType
  <2>3. run[r].id # baseline
    BY <2>1, Fields DEF TypedInv, Active
  <2>4. rows'[baseline] = rows[baseline] \/ baseline = 0
    <3>1. baseline # 0 => baseline \in Ids
      BY Quantities
    <3>2. rows \in [Ids -> Snapshot]
      BY DEF TypedInv, CollectorInv, Typed
    <3> QED BY <2>1, <2>3, <3>1, <3>2
  <2>5. \A o \in Order : (Base(o))' = Base(o)
    BY <1>1, <2>4 DEF Base
  <2>6. Abreast'
    BY <1>1, <1>2, <2>1, <2>2, <2>5 DEF BoundsInv, Abreast, Active
  <2> QED BY <1>1, <2>2, <2>5, <2>6, BoundsCarried
<1>10. CASE FailRun(r)
  <2>1. run' = [run EXCEPT ![r] = NoRun] /\ UNCHANGED rows
    BY <1>10 DEF FailRun, station
  <2>2. run'[r] = NoRun
    BY <1>3, <2>1
  <2>3. Abreast'
    BY <1>2, <1>5, <2>2 DEF Abreast, Active
  <2>4. \A o \in Order : (Base(o))' = Base(o)
    BY <1>1, <2>1 DEF Base
  <2> QED BY <1>1, <1>4, <1>5, <2>2, <2>3, <2>4, BoundsCarried
<1> QED BY <1>6, <1>7, <1>8, <1>9, <1>10

\* What r has shrunk and missed, order by order.
ShrunkBy(r) ==
    [o \in Order |-> IF run[r].curr[o] > 0 /\ run[r].base[o] > run[r].curr[o]
                     THEN run[r].base[o] - run[r].curr[o] ELSE 0]
GoneBy(r) == [o \in Order |-> IF run[r].curr[o] = 0 THEN run[r].base[o] ELSE 0]

LEMMA CountsByOrder ==
    ASSUME TypedInv, NEW r \in Run, NEW t
    PROVE  /\ Shrunk(run[r].base, run[r].curr, t) = Total(ShrunkBy(r), OfType(t))
           /\ Gone(run[r].base, run[r].curr, t) = Total(GoneBy(r), OfType(t) \ Expiring)
<1>1. run[r].curr \in [Order -> Nat] /\ run[r].base \in [Order -> Nat]
  BY Fields DEF TypedInv
<1>2. Shrunk(run[r].base, run[r].curr, t) = Total(ShrunkBy(r), OfType(t))
  <2> DEFINE by == [o \in Order |-> run[r].base[o] - run[r].curr[o]]
             T == {o \in Order : TypeOf[o] = t /\ run[r].curr[o] > 0 /\ run[r].base[o] > run[r].curr[o]}
  <2>1. T \subseteq OfType(t)
    BY DEF OfType
  <2>2. \A o \in T : ShrunkBy(r)[o] = by[o]
    BY DEF ShrunkBy
  <2>3. \A o \in OfType(t) \ T : ShrunkBy(r)[o] = 0
    BY DEF ShrunkBy, OfType
  <2> HIDE DEF by, T
  <2>4. Total(ShrunkBy(r), OfType(t)) = Total(by, T)
    BY <2>1, <2>2, <2>3, TotalOfPart
  <2> QED BY <2>4 DEF Shrunk, by, T
<1>3. Gone(run[r].base, run[r].curr, t) = Total(GoneBy(r), OfType(t) \ Expiring)
  <2> DEFINE T == {o \in Order \ Expiring : TypeOf[o] = t /\ run[r].curr[o] = 0}
  <2>1. T \subseteq OfType(t) \ Expiring
    BY DEF OfType
  <2>2. \A o \in T : GoneBy(r)[o] = run[r].base[o]
    BY DEF GoneBy
  <2>3. \A o \in (OfType(t) \ Expiring) \ T : GoneBy(r)[o] = 0
    BY DEF GoneBy, OfType
  <2> HIDE DEF T
  <2>4. Total(GoneBy(r), OfType(t) \ Expiring) = Total(run[r].base, T)
    BY <2>1, <2>2, <2>3, TotalOfPart
  <2> QED BY <2>4 DEF Gone, T
<1> QED BY <1>2, <1>3

LEMMA BoundsFinalizeStep ==
    ASSUME Serial, TypedInv, BoundsInv, NEW r \in Run, Finalize(r)
    PROVE  BoundsInv'
<1>1. /\ UNCHANGED <<placed, left, traded, rows>> /\ Merge(r)
      /\ run[r].pc = "write" /\ run[r].todo = {} /\ baseline' = run[r].id
      /\ first' = [o \in Order |-> IF first[o] = 0 THEN run[r].curr[o] ELSE first[o]]
      /\ run' = [run EXCEPT ![r] = NoRun]
  BY DEF Finalize, Advance, Step, book
<1>2. run'[r] = NoRun /\ NoRun.pc = "idle" /\ \A o \in Order : NoRun.curr[o] = 0
  BY <1>1 DEF TypedInv, CollectorInv, Typed, NoRun, Empty
<1>3. \A q \in Run : q = r
  BY DEF Serial
<1>4. baseline' # 0
  <2>1. run[r].id \in Ids
    BY <1>1, Fields DEF TypedInv, Active
  <2> QED BY <1>1, <2>1, CollectorAssumption DEF Ids
<1>5. ASSUME NEW o \in Order
      PROVE  /\ (Base(o))' = run[r].curr[o] /\ run[r].base[o] = Base(o)
             /\ Base(o) \in Nat /\ first[o] \in Nat /\ run[r].curr[o] \in Nat
             /\ left[o] \in Nat /\ traded[o] \in Nat /\ Size[o] \in Nat
             /\ first'[o] = IF first[o] = 0 THEN run[r].curr[o] ELSE first[o]
             /\ SeenAs(Base(o), o) /\ SeenAs(first[o], o) /\ SeenAs(run[r].curr[o], o)
             /\ Base(o) <= first[o] /\ (baseline = 0 => first[o] = 0)
             /\ run[r].curr[o] > 0 /\ Base(o) > 0 => run[r].curr[o] <= Base(o)
             /\ run[r].curr[o] > 0 /\ first[o] > 0 => run[r].curr[o] <= first[o]
  <2>1. (Base(o))' = run[r].curr[o]
    BY <1>1, <1>4 DEF Base, TypedInv, CollectorInv, Written
  <2>2. run[r].base[o] = Base(o)
    BY <1>1 DEF BoundsInv, Abreast
  <2> QED BY <1>1, <2>1, <2>2, BaseIsNat, Quantities, Fields DEF TypedInv, BoundsInv, Seen
<1>6. Sold'
  BY <1>1 DEF BoundsInv, Sold
<1>7. Seen'
  <2>1. ASSUME NEW o \in Order
        PROVE  /\ SeenAs(run[r].curr[o], o) /\ SeenAs(first'[o], o) /\ SeenAs(0, o)
               /\ run[r].curr[o] <= first'[o]
    BY <1>5 DEF SeenAs
  <2> QED BY <1>1, <1>2, <1>3, <1>4, <1>5, <2>1 DEF Seen, SeenAs
<1>8. Abreast'
  BY <1>2, <1>3 DEF Abreast, Active
<1>9. ASSUME NEW o \in Order
      PROVE  /\ Told(r)[o] \in Nat /\ Told(r)[o] <= traded[o]
             /\ ShrunkBy(r)[o] \in Nat /\ GoneBy(r)[o] \in Nat /\ Missed[o] \in Nat
             /\ Told(r)'[o] \in Nat /\ Told(r)'[o] <= traded[o]
             /\ Told(r)[o] + ShrunkBy(r)[o] <= Told(r)'[o]
             /\ Missed'[o] \in Nat
             /\ Missed'[o] <= Missed[o] + (ShrunkBy(r)[o] + GoneBy(r)[o])
             /\ baseline = 0 => Missed'[o] = 0
  <2>1. Told(r)[o] \in Nat /\ Told(r)[o] <= traded[o]
    BY ToldWasTraded DEF BoundsInv
  <2>2. /\ Told(r)'[o] = IF run[r].curr[o] > 0 THEN Size[o] - run[r].curr[o] ELSE traded[o]
        /\ Told(r)[o] = IF Base(o) > 0 THEN Size[o] - Base(o)
                        ELSE IF run[r].curr[o] > 0 THEN Size[o] - run[r].curr[o] ELSE traded[o]
    BY <1>1, <1>2, <1>5 DEF Told
  <2>3. /\ ShrunkBy(r)[o] = IF run[r].curr[o] > 0 /\ Base(o) > run[r].curr[o]
                            THEN Base(o) - run[r].curr[o] ELSE 0
        /\ GoneBy(r)[o] = IF run[r].curr[o] = 0 THEN Base(o) ELSE 0
        /\ Missed[o] = first[o] - Base(o) /\ Missed'[o] = first'[o] - run[r].curr[o]
    BY <1>5 DEF ShrunkBy, GoneBy, Missed
  <2>4. Told(r)'[o] \in Nat /\ Told(r)'[o] <= traded[o] /\ Told(r)[o] + ShrunkBy(r)[o] <= Told(r)'[o]
    BY <1>5, <2>1, <2>2, <2>3 DEF SeenAs
  <2>5. ShrunkBy(r)[o] \in Nat /\ GoneBy(r)[o] \in Nat /\ Missed[o] \in Nat /\ Missed'[o] \in Nat
    BY <1>5, <2>3
  <2>6. Missed'[o] <= Missed[o] + (ShrunkBy(r)[o] + GoneBy(r)[o])
    BY <1>5, <2>3
  <2>7. baseline = 0 => Missed'[o] = 0
    BY <1>5, <2>3
  <2> QED BY <2>1, <2>4, <2>5, <2>6, <2>7
<1>10. ASSUME NEW t \in Type
       PROVE  /\ lower'[t] = lower[t] \/ lower'[t] = lower[t] + Total(ShrunkBy(r), OfType(t))
              /\ \/ baseline = 0 /\ upper'[t] = upper[t]
                 \/ upper'[t] = upper[t] + (Total(ShrunkBy(r), OfType(t))
                                             + Total(GoneBy(r), OfType(t) \ Expiring))
              /\ lower[t] \in Nat /\ upper[t] \in Nat
              /\ Total(ShrunkBy(r), OfType(t)) \in Nat /\ Total(GoneBy(r), OfType(t) \ Expiring) \in Nat
  <2>1. lower[t] \in Nat /\ upper[t] \in Nat
    BY DEF TypedInv, Aggregates
  <2>2. \A o \in OfType(t) : ShrunkBy(r)[o] \in Nat /\ GoneBy(r)[o] \in Nat
    BY <1>9, TypeIsFinite
  <2>3. Total(ShrunkBy(r), OfType(t)) \in Nat /\ Total(GoneBy(r), OfType(t) \ Expiring) \in Nat
    BY <2>2, TypeIsFinite, UnitsFinite
  <2>4. run[r].prev = baseline
    BY <1>1 DEF BoundsInv, Abreast, Active
  <2> DEFINE counts == IF run[r].prev = 0 THEN 0 ELSE 1
  <2>5. /\ lower'[t] = lower[t] + counts * Total(ShrunkBy(r), OfType(t))
        /\ upper'[t] = upper[t] + counts * (Total(ShrunkBy(r), OfType(t))
                                             + Total(GoneBy(r), OfType(t) \ Expiring))
    BY <1>1, CountsByOrder DEF Merge
  <2>6. CASE baseline = 0
    BY <2>1, <2>3, <2>4, <2>5, <2>6
  <2>7. CASE baseline # 0
    BY <2>1, <2>3, <2>4, <2>5, <2>7
  <2> QED BY <2>1, <2>3, <2>6, <2>7
<1>11. LowerTold'
  <2> SUFFICES ASSUME NEW t \in Type
               PROVE  /\ lower'[t] <= Total(traded, OfType(t))
                      /\ lower'[t] <= Total(Told(r)', OfType(t))
    BY <1>1, <1>3 DEF LowerTold, OfType
  <2> DEFINE both == [o \in Order |-> Told(r)[o] + ShrunkBy(r)[o]]
  <2>0. IsFiniteSet(OfType(t)) /\ OfType(t) \subseteq Order
    BY TypeIsFinite
  <2>1. \A o \in OfType(t) : /\ Told(r)[o] \in Nat /\ ShrunkBy(r)[o] \in Nat
                             /\ both[o] = Told(r)[o] + ShrunkBy(r)[o]
    BY <1>9, <2>0
  <2>2. \A o \in OfType(t) : /\ both[o] \in Nat /\ Told(r)'[o] \in Nat /\ traded[o] \in Nat
                             /\ both[o] <= Told(r)'[o] /\ Told(r)'[o] <= traded[o]
    <3>1. ASSUME NEW o \in Order
          PROVE  /\ both[o] \in Nat /\ Told(r)'[o] \in Nat /\ traded[o] \in Nat
                 /\ both[o] <= Told(r)'[o] /\ Told(r)'[o] <= traded[o]
      <4>1. both[o] = Told(r)[o] + ShrunkBy(r)[o]
        OBVIOUS
      <4> HIDE DEF both
      <4> QED BY <1>5, <1>9, <4>1
    <3> HIDE DEF both
    <3> QED BY <2>0, <3>1
  <2> HIDE DEF both
  <2>3. Total(both, OfType(t)) = Total(Told(r), OfType(t)) + Total(ShrunkBy(r), OfType(t))
    BY <2>1, <2>0, TotalOfSum
  <2>4. Total(both, OfType(t)) <= Total(Told(r)', OfType(t))
    BY <2>2, <2>0, TotalMonotonic
  <2>5. Total(Told(r)', OfType(t)) <= Total(traded, OfType(t))
    BY <2>2, <2>0, TotalMonotonic
  <2>6. /\ Total(Told(r), OfType(t)) \in Nat /\ Total(Told(r)', OfType(t)) \in Nat
        /\ Total(traded, OfType(t)) \in Nat
    BY <2>1, <2>2, <2>0, UnitsFinite
  <2>7. lower[t] <= Total(Told(r), OfType(t))
    BY DEF BoundsInv, LowerTold
  <2>8. /\ lower'[t] = lower[t] \/ lower'[t] = lower[t] + Total(ShrunkBy(r), OfType(t))
        /\ lower[t] \in Nat /\ Total(ShrunkBy(r), OfType(t)) \in Nat
    BY <1>10
  <2> QED BY <2>3, <2>4, <2>5, <2>6, <2>7, <2>8
<1>12. UpperMissed'
  <2> SUFFICES ASSUME NEW t \in Type
               PROVE  Total(Missed', OfType(t) \ Expiring) <= upper'[t]
    BY DEF UpperMissed, OfType
  <2> DEFINE N == OfType(t) \ Expiring
             more == [o \in Order |-> ShrunkBy(r)[o] + GoneBy(r)[o]]
             all == [o \in Order |-> Missed[o] + more[o]]
  <2>1. /\ IsFiniteSet(N) /\ N \subseteq OfType(t) /\ IsFiniteSet(OfType(t)) /\ OfType(t) \subseteq Order
    BY TypeIsFinite
  <2>2. \A o \in N : /\ ShrunkBy(r)[o] \in Nat /\ GoneBy(r)[o] \in Nat
                     /\ more[o] = ShrunkBy(r)[o] + GoneBy(r)[o]
    BY <1>9, <2>1
  <2>3. \A o \in N : Missed[o] \in Nat /\ more[o] \in Nat /\ all[o] = Missed[o] + more[o]
    BY <1>9, <2>1
  <2>4. \A o \in N : Missed'[o] \in Nat /\ all[o] \in Nat /\ Missed'[o] <= all[o]
    BY <1>9, <2>1
  <2>5. \A o \in OfType(t) : ShrunkBy(r)[o] \in Nat
    BY <1>9, <2>1
  <2> HIDE DEF more, all
  <2>6. Total(more, N) = Total(ShrunkBy(r), N) + Total(GoneBy(r), N)
    BY <2>1, <2>2, TotalOfSum
  <2>7. Total(all, N) = Total(Missed, N) + Total(more, N)
    BY <2>1, <2>3, TotalOfSum
  <2>8. Total(Missed', N) <= Total(all, N)
    BY <2>1, <2>4, TotalMonotonic
  <2>9. Total(ShrunkBy(r), N) <= Total(ShrunkBy(r), OfType(t))
    BY <2>1, <2>5, TotalSubset
  <2>10. /\ Total(Missed, N) \in Nat /\ Total(Missed', N) \in Nat
         /\ Total(ShrunkBy(r), N) \in Nat /\ Total(GoneBy(r), N) \in Nat
    BY <2>1, <2>2, <2>3, <2>4, UnitsFinite
  <2>11. Total(Missed, N) <= upper[t]
    BY DEF BoundsInv, UpperMissed
  <2>12. CASE baseline = 0
    <3>1. \A o \in N : Missed'[o] = 0
      BY <1>9, <2>1, <2>12
    <3>2. Total(Missed', N) = 0
      BY <2>1, <3>1, TotalZero
    <3>3. upper'[t] \in Nat
      BY TypedFinalizeStep DEF TypedInv, Aggregates
    <3> QED BY <3>2, <3>3
  <2>13. CASE baseline # 0
    BY <1>10, <2>6, <2>7, <2>8, <2>9, <2>10, <2>11, <2>13
  <2> QED BY <2>12, <2>13
<1> QED BY <1>6, <1>7, <1>8, <1>11, <1>12 DEF BoundsInv

LEMMA BoundsAsStated == TypedInv /\ BoundsInv => TradesBounded
<1> SUFFICES ASSUME TypedInv, BoundsInv, NEW t \in Type
             PROVE  /\ lower[t] <= TotalOf(traded, t)
                    /\ LET had == {o \in Order \ Expiring : TypeOf[o] = t /\ first[o] > 0}
                       IN  upper[t] >= Total([o \in had |-> first[o] - rows[baseline][o]], had)
  BY DEF TradesBounded
<1>1. lower[t] <= TotalOf(traded, t)
  BY DEF BoundsInv, LowerTold, TotalOf, OfType
<1> DEFINE had == {o \in Order \ Expiring : TypeOf[o] = t /\ first[o] > 0}
           lost == [o \in had |-> first[o] - rows[baseline][o]]
<1>2. /\ had \subseteq OfType(t) \ Expiring /\ IsFiniteSet(OfType(t) \ Expiring)
      /\ OfType(t) \ Expiring \subseteq Order
  BY TypeIsFinite DEF OfType
<1>3. \A o \in had : lost[o] = Missed[o]
  <2>1. \A o \in Order : first[o] > 0 => baseline # 0
    BY Quantities DEF BoundsInv, Seen
  <2> QED BY <2>1 DEF Missed, Base
<1>4. \A o \in Order : Missed[o] \in Nat
  BY BaseIsNat, Quantities DEF BoundsInv, Seen, Missed
<1> HIDE DEF had, lost
<1>5. Total(lost, had) = Total(Missed, had)
  BY <1>3, TotalSame
<1>6. Total(Missed, had) <= Total(Missed, OfType(t) \ Expiring)
  BY <1>2, <1>4, TotalSubset
<1>7. Total(Missed, OfType(t) \ Expiring) <= upper[t] /\ upper[t] \in Nat
  BY DEF BoundsInv, UpperMissed, TypedInv, Aggregates
<1>8. Total(Missed, OfType(t) \ Expiring) \in Nat /\ Total(Missed, had) \in Nat
  <2>1. IsFiniteSet(had)
    BY <1>2, FS_Subset
  <2> QED BY <1>2, <1>4, <2>1, UnitsFinite
<1>9. upper[t] >= Total(lost, had)
  BY <1>5, <1>6, <1>7, <1>8
<1> QED BY <1>1, <1>9 DEF had, lost

\* With one run of collectStationOnce at a time, which may fail anywhere while the
\* book shifts under it: the lower bound counts traded units only and each of them
\* once, and the upper bound has every unit that a baseline had and a later one lacks.
THEOREM TradesAreBounded ==
    ASSUME Serial
    PROVE  CollectorSpec => []TradesBounded
<1>1. CollectorInit => TypedInv /\ BoundsInv
  BY TypedStart, BoundsStart
<1>2. TypedInv /\ BoundsInv /\ [CollectorNext]_collectorVars => (TypedInv /\ BoundsInv)'
  <2>1. ASSUME BoundsInv, UNCHANGED collectorVars PROVE BoundsInv'
    BY <2>1 DEF collectorVars, book, station, history, BoundsInv, Sold, Seen, SeenAs, Base,
                Abreast, Active, LowerTold, Told, UpperMissed, Missed, OfType
  <2> QED
    BY <2>1, TypedStep, BoundsMarketStep, BoundsRunStep, BoundsFinalizeStep DEF CollectorNext
<1> QED
  BY <1>1, <1>2, BoundsAsStated, PTL DEF CollectorSpec

================================================================================
