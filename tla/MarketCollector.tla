---------------------------- MODULE MarketCollector ----------------------------
(***************************************************************************)
(* The collector of an NPC station's order book.  It tells how much was    *)
(* traded from what is missing between two snapshots: the units by which   *)
(* an order has shrunk were traded, an order that is gone may have been.   *)
(* The first alone are the lower bound of a day's trades, both together    *)
(* the upper one.                                                          *)
(*                                                                         *)
(* A run fetches the book page by page while it changes, writes its        *)
(* snapshot in batches under an id of its own, and then, in a transaction, *)
(* adds what it has counted and points the station's baseline to that id.  *)
(* A snapshot is the units left of every order, 0 for an order it lacks.   *)
(***************************************************************************)
EXTENDS Naturals, Totals

CONSTANTS
    Order,       \* the orders that may be placed, numbered as ESI lists them
    Type,        \* the types of items
    TypeOf,      \* TypeOf[o]: the type of o
    Size,        \* Size[o]: the units of o when it is placed
    Expiring,    \* orders whose expiry is close to the time at which they are missed
    PageSize,    \* orders on a page of ESI
    Run,         \* slots for the runs in flight; reused
    MaxRuns      \* bound: runs that are started

ASSUME CollectorAssumption ==
    /\ Order \subseteq Nat /\ IsFiniteSet(Order) /\ TypeOf \in [Order -> Type] /\ Size \in [Order -> Nat \ {0}]
    /\ Expiring \subseteq Order /\ PageSize \in Nat \ {0} /\ MaxRuns \in Nat

VARIABLES
    placed,     \* orders that were placed
    left,       \* left[o]: units of o in the book; 0 before it is placed and once it is gone
    traded,     \* traded[o]: units of o that were traded
    baseline,   \* the id of the station's baseline, 0 for none
    rows,       \* rows[b]: the snapshot stored under the id b
    lower,      \* lower[t], upper[t]: the aggregates of type t, without the
    upper,      \*   orders that are gone and with them
    ran,        \* how many runs were started; their ids
    run,        \* run[r]: the local variables of the run in slot r
    saw,        \* saw[b]: what the run with id b was shown (history)
    first       \* first[o]: the units of o in the first baseline that had it (history)

book == <<placed, left, traded>>
station == <<baseline, rows, lower, upper>>
history == <<saw, first>>
collectorVars == <<book, station, ran, run, history>>

Snapshot == [Order -> Nat]
Empty == [o \in Order |-> 0]
Ids == 1..MaxRuns

\* id: its baselineId; prev: the baseline it found; pages: those it has yet to fetch;
\* curr: what it was shown; base: the snapshot of prev; todo: types not written yet.
NoRun == [pc |-> "idle", id |-> 0, prev |-> 0, pages |-> {}, curr |-> Empty, base |-> Empty, todo |-> {}]

Local == [pc : {"idle", "first", "pages", "write"}, id : Ids \cup {0}, prev : Ids \cup {0},
          pages : SUBSET (Nat \ {0}), curr : Snapshot, base : Snapshot, todo : SUBSET Type]

CollectorTypeOK ==
    /\ placed \subseteq Order /\ left \in Snapshot /\ traded \in Snapshot
    /\ \A o \in Order : left[o] + traded[o] <= Size[o] /\ (o \notin placed => left[o] + traded[o] = 0)
    /\ ran \in 0..MaxRuns /\ baseline \in 0..ran
    /\ rows \in [Ids -> Snapshot] /\ saw \in [Ids -> Snapshot] /\ first \in Snapshot
    /\ lower \in [Type -> Nat] /\ upper \in [Type -> Nat]
    /\ run \in [Run -> Local]
    /\ \A r \in Run : run[r].id <= ran /\ run[r].prev <= ran

CollectorInit ==
    /\ placed = {} /\ left = Empty /\ traded = Empty
    /\ baseline = 0 /\ rows = [b \in Ids |-> Empty]
    /\ lower = [t \in Type |-> 0] /\ upper = [t \in Type |-> 0]
    /\ ran = 0 /\ run = [r \in Run |-> NoRun]
    /\ saw = [b \in Ids |-> Empty] /\ first = Empty

--------------------------------------------------------------------------------
(* The market                                                              *)

Place(o) ==
    /\ o \notin placed
    /\ placed' = placed \cup {o}
    /\ left' = [left EXCEPT ![o] = Size[o]]
    /\ UNCHANGED <<traded, station, ran, run, history>>

\* The last unit takes the order out of the book.
Trade(o) ==
    /\ left[o] > 0
    /\ left' = [left EXCEPT ![o] = @ - 1]
    /\ traded' = [traded EXCEPT ![o] = @ + 1]
    /\ UNCHANGED <<placed, station, ran, run, history>>

\* The order is cancelled, or expires.
Withdraw(o) ==
    /\ left[o] > 0
    /\ left' = [left EXCEPT ![o] = 0]
    /\ UNCHANGED <<placed, traded, station, ran, run, history>>

Live == {o \in Order : left[o] > 0}
Pages == (Cardinality(Live) + PageSize - 1) \div PageSize
Page(n) == {o \in Live : Cardinality({m \in Live : m < o}) \div PageSize = n - 1}

--------------------------------------------------------------------------------
(* collectStationOnce                                                      *)

Step(r, from) == run[r].pc = from /\ UNCHANGED <<book, ran>>

\* What is on page n is added to what r was shown; an order that has moved from
\* page to page is there as it was seen last.
Ingest(r, n) == [o \in Order |-> IF o \in Page(n) THEN left[o] ELSE run[r].curr[o]]

\* A run with a new id, from the cron job or an admin.
Begin(r) ==
    /\ run[r].pc = "idle" /\ ran < MaxRuns
    /\ ran' = ran + 1
    /\ run' = [run EXCEPT ![r] = [NoRun EXCEPT !.pc = "first", !.id = ran + 1, !.prev = baseline]]
    /\ UNCHANGED <<book, station, history>>

\* Mutant: the other pages are counted from 0.
FetchFirstOfZero(r) ==
    /\ Step(r, "first")
    /\ run' = [run EXCEPT ![r].pc = "pages", ![r].curr = Ingest(r, 1), ![r].pages = {n - 2 : n \in 2..Pages}]
    /\ UNCHANGED <<station, history>>

\* The first page tells how many there are ...
FetchFirst(r) ==
    /\ Step(r, "first")
    /\ run' = [run EXCEPT ![r].pc = "pages", ![r].curr = Ingest(r, 1), ![r].pages = 2..Pages]
    /\ UNCHANGED <<station, history>>

\* ... and the others arrive in any order.
FetchPage(r) == \E n \in run[r].pages :
    /\ Step(r, "pages")
    /\ run' = [run EXCEPT ![r].curr = Ingest(r, n), ![r].pages = @ \ {n}]
    /\ UNCHANGED <<station, history>>

TypesOf(snapshot) == {TypeOf[o] : o \in {m \in Order : snapshot[m] > 0}}

\* Mutant: the types of the book alone are looked at.
LoadPreviousOfBook(r) ==
    /\ Step(r, "pages") /\ run[r].pages = {}
    /\ LET base == IF run[r].prev = 0 THEN Empty ELSE rows[run[r].prev]
       IN  run' = [run EXCEPT ![r].pc = "write",
                       ![r].base = [o \in Order |-> IF TypeOf[o] \in TypesOf(run[r].curr) THEN base[o] ELSE 0],
                       ![r].todo = TypesOf(run[r].curr)]
    /\ saw' = [saw EXCEPT ![run[r].id] = run[r].curr]
    /\ UNCHANGED <<station, first>>

\* The snapshot of the baseline; the types to look at are those of the book and of
\* this snapshot.
LoadPrevious(r) ==
    /\ Step(r, "pages") /\ run[r].pages = {}
    /\ LET base == IF run[r].prev = 0 THEN Empty ELSE rows[run[r].prev]
       IN  run' = [run EXCEPT ![r].pc = "write", ![r].base = base,
                       ![r].todo = TypesOf(run[r].curr) \cup TypesOf(base)]
    /\ saw' = [saw EXCEPT ![run[r].id] = run[r].curr]
    /\ UNCHANGED <<station, first>>

\* The rows of some types are written, whenever a batch is full and at the end.
Flush(r) == \E S \in SUBSET run[r].todo \ {{}} :
    /\ Step(r, "write")
    /\ rows' = [rows EXCEPT ![run[r].id] =
                   [o \in Order |-> IF TypeOf[o] \in S THEN run[r].curr[o] ELSE @[o]]]
    /\ run' = [run EXCEPT ![r].todo = @ \ S]
    /\ UNCHANGED <<baseline, lower, upper, history>>

\* The units by which orders of type t have shrunk, and those of orders that are
\* gone and have not expired.
Shrunk(base, curr, t) ==
    Total([o \in Order |-> base[o] - curr[o]],
          {o \in Order : TypeOf[o] = t /\ curr[o] > 0 /\ base[o] > curr[o]})
Gone(base, curr, t) ==
    Total(base, {o \in Order \ Expiring : TypeOf[o] = t /\ curr[o] = 0})

\* The aggregates get what r has counted, if there was a baseline to count from.
Merge(r) ==
    LET counts == IF run[r].prev = 0 THEN 0 ELSE 1
    IN  /\ lower' = [t \in Type |-> lower[t] + counts * Shrunk(run[r].base, run[r].curr, t)]
        /\ upper' = [t \in Type |-> upper[t]
                        + counts * (Shrunk(run[r].base, run[r].curr, t) + Gone(run[r].base, run[r].curr, t))]

Advance(r) ==
    /\ baseline' = run[r].id
    /\ first' = [o \in Order |-> IF first[o] = 0 THEN run[r].curr[o] ELSE first[o]]
    /\ run' = [run EXCEPT ![r] = NoRun]

\* Mutant: the baseline advances although rows are not written yet.
FinalizeEarly(r) ==
    /\ Step(r, "write")
    /\ Merge(r) /\ Advance(r)
    /\ UNCHANGED <<rows, saw>>

\* Mutant: the aggregates are saved in a transaction of their own, so that a run
\* which fails before the next one leaves them behind.
FinalizeTwice(r) ==
    /\ Step(r, "write") /\ run[r].todo = {}
    /\ Merge(r)
    /\ \/ Advance(r)
       \/ run' = [run EXCEPT ![r] = NoRun] /\ UNCHANGED <<baseline, first>>
    /\ UNCHANGED <<rows, saw>>

\* One transaction, once all types are written.
Finalize(r) ==
    /\ Step(r, "write") /\ run[r].todo = {}
    /\ Merge(r) /\ Advance(r)
    /\ UNCHANGED <<rows, saw>>

\* ESI or the database fails, or the process dies; rows that were written stay.
FailRun(r) ==
    /\ run[r].pc # "idle"
    /\ run' = [run EXCEPT ![r] = NoRun]
    /\ UNCHANGED <<book, station, ran, history>>

--------------------------------------------------------------------------------
CollectorNext ==
    \/ \E o \in Order : Place(o) \/ Trade(o) \/ Withdraw(o)
    \/ \E r \in Run :
          Begin(r) \/ FetchFirst(r) \/ FetchPage(r) \/ LoadPrevious(r) \/ Flush(r) \/ Finalize(r) \/ FailRun(r)

CollectorSpec == CollectorInit /\ [][CollectorNext]_collectorVars

--------------------------------------------------------------------------------
(* Properties.  The cron job starts no run while it has one in flight; what  *)
(* is promised while no admin starts another is marked [serial].             *)

TotalOf(f, t) == Total(f, {o \in Order : TypeOf[o] = t})

\* "only after full success does this pointer advance"
\* (schema.prisma:279): the snapshot the baseline points to is all that its run
\* was shown, whatever runs overlap or are cut short between two batches.
BaselineWhole == baseline # 0 => rows[baseline] = saw[baseline]

\* [serial] The aggregates are the bounds they are called (schema.prisma:257): no
\* unit is in the lower one that was not traded, and no unit is counted twice,
\* although runs fail at any point and pages shift while they are fetched; and every
\* unit that one baseline has and a later one lacks is in the upper one, unless
\* its order is taken to have expired.
TradesBounded ==
    \A t \in Type :
        /\ lower[t] <= TotalOf(traded, t)
        /\ LET had == {o \in Order \ Expiring : TypeOf[o] = t /\ first[o] > 0}
           IN  upper[t] >= Total([o \in had |-> first[o] - rows[baseline][o]], had)

================================================================================
