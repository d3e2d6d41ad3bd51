------------------------------- MODULE MarketLines -------------------------------
(***************************************************************************)
(* The lines of the Open Cycle as the market side changes them: a plan is  *)
(* committed as packages linked to lines, packages are lost and the lines  *)
(* reduced, the hourly job allocates the wallet's transactions, and the    *)
(* pricing script sends a batch with an idempotency key, and again when it *)
(* has no answer.                                                          *)
(*                                                                         *)
(* The database reads committed data (no isolation level is set), so a     *)
(* transaction that reads a line and writes figures computed from it is a  *)
(* step that reads and a later one that writes and commits: rows it has    *)
(* written stay locked in between, rows it has only read do not.  The job  *)
(* decides by its own copy of the lines and increments the rows.           *)
(*                                                                         *)
(* Any request may be cut short.  There is one destination.  ISK is left   *)
(* out: costs, fees and collateral decide nothing here; so are the units   *)
(* listed, which nothing but a page reads.                                 *)
(***************************************************************************)
EXTENDS Naturals, Totals

CONSTANTS
    Type,          \* the types of items, one line each
    Package,       \* the packages that may be committed
    Items,         \* Items[p]: the units of each type in package p
    Plan,          \* the plans that may be committed: sets of packages
    Batch,         \* what the script may confirm
    Key,           \* idempotency keys
    KeyOf,         \* KeyOf[b]: the key of batch b
    Request,       \* slots for the requests in flight; reused
    NoBatch,       \* no batch
    MaxSends,      \* bound: how often a batch is sent; 3 in api_client.py
    MaxLines       \* bound: lines created for a type, one after another

ASSUME MarketAssumption ==
    /\ Items \in [Package -> [Type -> Nat]] /\ Plan \subseteq SUBSET Package /\ IsFiniteSet(Package)
    /\ KeyOf \in [Batch -> Key] /\ NoBatch \notin Batch
    /\ MaxSends \in Nat /\ MaxLines \in Nat

VARIABLES
    cycle,     \* the status of the Cycle
    line,      \* line[t]: the line of type t, or NoLine
    pkg,       \* pkg[p]: the status of package p, "none" before it is committed
    link,      \* link[p][t]: unitsCommitted of p on the line of t; 0 for no link
    job,       \* the side the hourly job allocates, and its copy of the lines
    saved,     \* saved[k]: the batch whose response is stored for key k
    req,       \* req[r]: the local variables of request r
    sends,     \* sends[b]: how often batch b was sent
    applied    \* applied[k]: how often a batch with key k was applied (history)

marketVars == <<cycle, line, pkg, link, job, saved, req, sends, applied>>
packages == <<pkg, link>>
script == <<saved, sends, applied>>

\* born: lines created for this type so far, so that a row is never taken for another
\* one; exists: there is one now; crossed: units were sold from it, or removed as
\* lost, by figures that the other had changed since they were read (history).
NoLine == [exists |-> FALSE, born |-> 0, planned |-> 0, bought |-> 0, sold |-> 0, crossed |-> FALSE]
NoLines == [t \in Type |-> NoLine]

\* packages: those committed, or the one that is lost; units: what they add to the line
\* of each type, or what the one has there; read: the lines as read.
NoRequest == [pc |-> "idle", batch |-> NoBatch, packages |-> {}, units |-> [t \in Type |-> 0], read |-> NoLines]
Done(r) == req' = [req EXCEPT ![r] = NoRequest]

LineRecord == [exists : BOOLEAN, born : 0..MaxLines, planned : Nat, bought : Nat, sold : Nat, crossed : BOOLEAN]

MarketTypeOK ==
    /\ cycle \in {"OPEN", "CLOSED"}
    /\ line \in [Type -> LineRecord]
    /\ pkg \in [Package -> {"none", "active", "failed", "completed"}]
    /\ link \in [Package -> [Type -> Nat]]
    /\ \A p \in Package : pkg[p] \in {"none", "failed"} => link[p] = [t \in Type |-> 0]
    /\ job \in [side : {"none", "buy", "sell"}, lines : [Type -> LineRecord]]
    /\ saved \in [Key -> Batch \cup {NoBatch}] /\ \A k \in Key : saved[k] # NoBatch => KeyOf[saved[k]] = k
    /\ req \in [Request -> [pc : {"idle", "apply", "save", "commit", "fail"}, batch : Batch \cup {NoBatch},
                            packages : SUBSET Package, units : [Type -> Nat], read : [Type -> LineRecord]]]
    /\ sends \in [Batch -> 0..MaxSends]
    /\ applied \in [Key -> Nat]

MarketInit ==
    /\ cycle = "OPEN"
    /\ line = NoLines
    /\ pkg = [p \in Package |-> "none"] /\ link = [p \in Package |-> [t \in Type |-> 0]]
    /\ job = [side |-> "none", lines |-> NoLines]
    /\ saved = [k \in Key |-> NoBatch] /\ sends = [b \in Batch |-> 0] /\ applied = [k \in Key |-> 0]
    /\ req = [r \in Request |-> NoRequest]

--------------------------------------------------------------------------------
(* Plans and packages                                                      *)

UnitsOf(S, t) == Total([p \in Package |-> Items[p][t]], S)

\* The row that was read, or none, is still the one of its type.
SameRow(l, k) == l.exists = k.exists /\ l.born = k.born

\* A transaction that has read the lines.
HasRead(pc, S, units) == [pc |-> pc, batch |-> NoBatch, packages |-> S, units |-> units, read |-> line]

\* commitPlan: there is an Open Cycle, which is looked up before the transaction.  The
\* packages are new; their units are added up by type, and the lines looked up.
StartCommit(r, S) ==
    /\ req[r].pc = "idle" /\ cycle = "OPEN"
    /\ \A p \in S : pkg[p] = "none" /\ \A q \in Request : p \notin req[q].packages
    /\ \A t \in Type : UnitsOf(S, t) > 0 => line[t].exists \/ line[t].born < MaxLines
    /\ req' = [req EXCEPT ![r] = HasRead("commit", S, [t \in Type |-> UnitsOf(S, t)])]
    /\ UNCHANGED <<cycle, line, packages, job, script>>

\* A line that was found gets the units it had and the new ones, another is created ...
LinePlanned(t, units, read) ==
    IF units = 0 THEN line[t]
    ELSE IF read.exists THEN [line[t] EXCEPT !.planned = read.planned + units]
    ELSE [NoLine EXCEPT !.exists = TRUE, !.born = read.born + 1, !.planned = units]

\* ... and every package is linked to its lines.  The Cycle may have closed since.  An
\* update of a row that is gone rolls back; two commits that both create the line of
\* a type would make two, which line cannot hold: the second one waits here.
WritePlan(r) ==
    /\ req[r].pc = "commit"
    /\ LET me == req[r]
       IN  /\ \A t \in Type : me.units[t] > 0 => SameRow(me.read[t], line[t])
           /\ line' = [t \in Type |-> LinePlanned(t, me.units[t], me.read[t])]
           /\ pkg' = [p \in Package |-> IF p \in me.packages THEN "active" ELSE pkg[p]]
           /\ link' = [p \in Package |-> IF p \in me.packages THEN Items[p] ELSE link[p]]
    /\ Done(r)
    /\ UNCHANGED <<cycle, job, script>>

\* markPackageFailed: the package is active; it is read with its links and their lines.
StartFail(r, p) ==
    /\ req[r].pc = "idle" /\ pkg[p] = "active"
    /\ req' = [req EXCEPT ![r] = HasRead("fail", {p}, link[p])]
    /\ UNCHANGED <<cycle, line, packages, job, script>>

\* Mutant: all units of the package are removed, whatever was sold.
LostWhole(units, l) == IF units <= l.bought THEN units ELSE l.bought

\* The units of a package that can be removed from line l: those not sold yet.
Lost(units, l) ==
    IF l.sold >= l.bought THEN 0 ELSE IF units <= l.bought - l.sold THEN units ELSE l.bought - l.sold

\* A line that loses units gets what it had without them, and keeps a plan for what
\* was sold ...
Reduced(now, read, lost) ==
    [now EXCEPT !.bought = read.bought - lost,
                !.planned = IF read.planned > lost + read.sold THEN read.planned - lost ELSE read.sold,
                !.crossed = @ \/ now.sold # read.sold]

\* ... and is deleted when there is nothing left of what was read.
AfterLoss(now, read, lost) ==
    IF lost = 0 THEN now
    ELSE IF read.sold = 0 /\ read.bought <= lost /\ read.planned <= lost THEN [NoLine EXCEPT !.born = now.born]
    ELSE Reduced(now, read, lost)

\* Mutant: a package keeps its link to a line from which it takes nothing.
LeftLinks(r) ==
    [p \in Package |-> [t \in Type |->
        IF ~line'[t].exists \/ (p \in req[r].packages /\ Lost(req[r].units[t], req[r].read[t]) > 0)
        THEN 0 ELSE link[p][t]]]

\* The links of the package go, and with a line that is deleted those of the others.
LinksLeft(r) ==
    [p \in Package |-> [t \in Type |-> IF p \in req[r].packages \/ ~line'[t].exists THEN 0 ELSE link[p][t]]]

\* The figures written are those computed from what was read.  The package is marked
\* whatever became of it; the write of a line that is gone rolls back.
WriteFailed(r) ==
    /\ req[r].pc = "fail"
    /\ LET me == req[r]
           lost == [t \in Type |-> Lost(me.units[t], me.read[t])]
       IN  /\ \A t \in Type : lost[t] > 0 => SameRow(me.read[t], line[t])
           /\ line' = [t \in Type |-> AfterLoss(line[t], me.read[t], lost[t])]
           /\ pkg' = [p \in Package |-> IF p \in me.packages THEN "failed" ELSE pkg[p]]
    /\ link' = LinksLeft(r)
    /\ Done(r)
    /\ UNCHANGED <<cycle, job, script>>

\* The settlement closes the Cycle and completes its packages.
CloseCycle ==
    /\ cycle = "OPEN"
    /\ cycle' = "CLOSED"
    /\ pkg' = [p \in Package |-> IF pkg[p] = "active" THEN "completed" ELSE pkg[p]]
    /\ UNCHANGED <<line, link, job, script, req>>

--------------------------------------------------------------------------------
(* The wallet, as Allocation says: the job reads the lines once for each   *)
(* side, buys first, and one run follows another.                          *)

\* A run starts with a new copy, whatever became of the last one; so does its second side.
ReadLines(s) ==
    /\ s = "sell" => job.side = "buy"
    /\ job' = [side |-> s, lines |-> line]
    /\ UNCHANGED <<cycle, line, packages, script, req>>

\* A unit bought is allocated to a line that has room in the copy; the row and the copy
\* are incremented.  The update of a row that is gone fails, and the run with it.
AllocateBuy(t) ==
    /\ job.side = "buy" /\ job.lines[t].bought < job.lines[t].planned
    /\ SameRow(job.lines[t], line[t])
    /\ line' = [line EXCEPT ![t].bought = @ + 1]
    /\ job' = [job EXCEPT !.lines[t].bought = @ + 1]
    /\ UNCHANGED <<cycle, packages, script, req>>

\* A unit sold, of a line that has stock in the copy.
AllocateSell(t) ==
    /\ job.side = "sell" /\ job.lines[t].sold < job.lines[t].bought
    /\ SameRow(job.lines[t], line[t])
    /\ line' = [line EXCEPT ![t].sold = @ + 1,
                             ![t].crossed = @ \/ line[t].bought # job.lines[t].bought]
    /\ job' = [job EXCEPT !.lines[t].sold = @ + 1]
    /\ UNCHANGED <<cycle, packages, script, req>>

--------------------------------------------------------------------------------
(* The pricing script                                                      *)

\* Mutant: a stored response is looked up by key and payload.
LookupByPayload(r, b) ==
    /\ req[r].pc = "idle" /\ sends[b] < MaxSends
    /\ sends' = [sends EXCEPT ![b] = @ + 1]
    /\ IF saved[KeyOf[b]] = b THEN UNCHANGED req
       ELSE req' = [req EXCEPT ![r] = [NoRequest EXCEPT !.pc = "apply", !.batch = b]]
    /\ UNCHANGED <<cycle, line, packages, job, saved, applied>>

\* confirmBatchScript: the script sends batch b, for the first time or again.  A
\* key that was used is answered with what is stored, or with an error if it
\* was used for something else.
Lookup(r, b) ==
    /\ req[r].pc = "idle" /\ sends[b] < MaxSends
    /\ sends' = [sends EXCEPT ![b] = @ + 1]
    /\ IF saved[KeyOf[b]] # NoBatch THEN UNCHANGED req
       ELSE req' = [req EXCEPT ![r] = [NoRequest EXCEPT !.pc = "apply", !.batch = b]]
    /\ UNCHANGED <<cycle, line, packages, job, saved, applied>>

\* One transaction, of fees and units listed; an update of a line that is gone fails,
\* the others stand.
Apply(r) ==
    /\ req[r].pc = "apply"
    /\ applied' = [applied EXCEPT ![KeyOf[req[r].batch]] = @ + 1]
    /\ req' = [req EXCEPT ![r].pc = "save"]
    /\ UNCHANGED <<cycle, line, packages, job, saved, sends>>

\* A transaction is rolled back, and the caller is told so.
RollBack(r) ==
    /\ req[r].pc \in {"apply", "commit", "fail"}
    /\ Done(r)
    /\ UNCHANGED <<cycle, line, packages, job, script>>

\* The process dies, or a call rejects, after the batch was applied and before its
\* response is stored.
CutShort(r) ==
    /\ req[r].pc = "save"
    /\ Done(r)
    /\ UNCHANGED <<cycle, line, packages, job, script>>

\* The response is stored, unless one with the same key won.
Save(r) ==
    /\ req[r].pc = "save"
    /\ LET k == KeyOf[req[r].batch]
       IN  saved' = IF saved[k] = NoBatch THEN [saved EXCEPT ![k] = req[r].batch] ELSE saved
    /\ Done(r)
    /\ UNCHANGED <<cycle, line, packages, job, sends, applied>>

--------------------------------------------------------------------------------
MarketNext ==
    \/ \E r \in Request, S \in Plan : StartCommit(r, S)
    \/ \E r \in Request, p \in Package : StartFail(r, p)
    \/ \E r \in Request : WritePlan(r) \/ WriteFailed(r)
    \/ CloseCycle
    \/ \E s \in {"buy", "sell"} : ReadLines(s)
    \/ \E t \in Type : AllocateBuy(t) \/ AllocateSell(t)
    \/ \E r \in Request, b \in Batch : Lookup(r, b)
    \/ \E r \in Request : Apply(r) \/ RollBack(r) \/ CutShort(r) \/ Save(r)

MarketSpec == MarketInit /\ [][MarketNext]_marketVars

--------------------------------------------------------------------------------
(* Properties                                                              *)

Active == {p \in Package : pkg[p] = "active"}

\* [serial requests, the job at any time] However packages that share a line are
\* committed, lost and partly sold, and wherever a run of the job falls between what
\* such a request reads and what it writes: the plan of a line has room for its stock
\* and for the units of the packages still under way, of which a package that is
\* lost takes none with it; and nothing is sold that was not bought, unless units of
\* the line were sold and lost at the same time, each by figures the other changed.
LinesHoldPackages ==
    \A t \in Type :
        /\ Total([p \in Package |-> link[p][t]], Active) <= line[t].planned
        /\ line[t].bought <= line[t].planned
        /\ ~line[t].crossed => line[t].sold <= line[t].bought

\* [serial] A response that is stored is the answer to every batch with its key from
\* then on: it is that of a batch that was applied, it stays, and nothing with this
\* key is applied again, although the script sends the batch again or uses the key
\* for another one, and the process may die before the response is stored.
AnsweredOnce ==
    [][\A k \in Key : saved[k] # NoBatch =>
          applied[k] > 0 /\ applied'[k] = applied[k] /\ saved'[k] = saved[k]]_marketVars

================================================================================
