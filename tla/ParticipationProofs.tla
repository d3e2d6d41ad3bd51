-------------------------- MODULE ParticipationProofs --------------------------
(***************************************************************************)
(* What Participation promises, for all users, donations, amounts and      *)
(* caps.  Type correctness holds for any number of overlapping requests;   *)
(* the rest assumes that they do not overlap, and the baseline that admins *)
(* validate what the page offers.                                          *)
(***************************************************************************)
EXTENDS Participation, TotalsProofs

\* Where a request is about one user.
About == PartPC \ {"idle", "donations", "match"}

Local == [pc : PartPC, user : User \cup {NoUser}, row : Row, todo : SUBSET [user : User, row : Row],
          free : SUBSET Donation, isk : Nat, from : SUBSET Donation]

Tables ==
    /\ cycle \in {"PLANNED", "OPEN"} /\ baseline \in Nat
    /\ part \in [User -> Row] /\ rows \in [User -> 0..MaxRows]
    /\ booked \in [User -> Nat] /\ counted \in [Donation -> Nat]
    /\ rematched \subseteq User /\ arrived \subseteq Donation
    /\ failures \in 0..MaxFailures

Requests ==
    /\ req \in [Request -> Local]
    /\ \A r \in Request : req[r].pc \in About => req[r].user \in User

Typed == Tables /\ Requests

--------------------------------------------------------------------------------
(* Type correctness                                                        *)

LEMMA NothingTyped ==
    /\ NoRow \in Row /\ NoRow.id = 0 /\ NoRow.status = "none" /\ NoRow.amount = 0 /\ ~NoRow.validated
    /\ NoRequest \in Local /\ NoRequest.pc = "idle" /\ NoRequest.todo = {}
<1>1. 0 \in 0..MaxRows
  BY ParticipationAssumption
<1>2. NoRow \in Row
  BY <1>1 DEF NoRow, Row
<1> QED BY <1>2 DEF NoRow, NoRequest, Local, PartPC

LEMMA TypedStart == PartInit => Typed
<1>1. 0 \in 0..MaxRows /\ 0 \in 0..MaxFailures
  BY ParticipationAssumption
<1> QED BY <1>1, NothingTyped DEF PartInit, Typed, Tables, Requests, About

LEMMA FieldsTyped ==
    ASSUME Typed, NEW r \in Request
    PROVE  /\ req[r] \in Local /\ req[r].pc \in PartPC /\ req[r].user \in User \cup {NoUser}
           /\ req[r].row \in Row /\ req[r].todo \in SUBSET [user : User, row : Row]
           /\ req[r].free \in SUBSET Donation /\ req[r].isk \in Nat /\ req[r].from \in SUBSET Donation
           /\ req[r].pc \in About => req[r].user \in User
  BY DEF Typed, Requests, Local

\* What is left of a request after it took a step.
LEMMA RequestStep ==
    ASSUME Typed, NEW r \in Request, NEW new \in Local, Becomes(r, new),
           new.pc \in About => new.user \in User
    PROVE  /\ Requests' /\ req'[r] = new
           /\ \A q \in Request \ {r} : req'[q] = req[q]
<1>1. req' \in [Request -> Local] /\ \A q \in Request : req'[q] = IF q = r THEN new ELSE req[q]
  BY DEF Typed, Requests, Becomes
<1> QED BY <1>1 DEF Typed, Requests

LEMMA RequestEnds ==
    ASSUME Typed, NEW r \in Request, Done(r)
    PROVE  /\ Requests' /\ req'[r] = NoRequest
           /\ \A q \in Request \ {r} : req'[q] = req[q]
<1>1. NoRequest.pc \notin About
  BY NothingTyped DEF About
<1> QED BY <1>1, NothingTyped, RequestStep DEF Done

\* One row changes.
LEMMA RowStep ==
    ASSUME Typed, NEW u \in User, NEW new \in Row, part' = [part EXCEPT ![u] = new]
    PROVE  part' \in [User -> Row] /\ part'[u] = new /\ \A v \in User \ {u} : part'[v] = part[v]
  BY DEF Typed, Tables

LEMMA RowFields ==
    ASSUME Typed, NEW u \in User
    PROVE  /\ part[u] \in Row /\ part[u].id \in 0..MaxRows /\ part[u].status \in PartStatus \cup {"none"}
           /\ part[u].amount \in Nat /\ part[u].principal \in Nat /\ part[u].validated \in BOOLEAN
           /\ part[u].link \in Donation \cup {NoDonation}
  BY DEF Typed, Tables, Row

\* What was donated by who is asked to pay counts anew.
LEMMA AskedTyped ==
    ASSUME Typed, NEW u \in User, Asked(u)
    PROVE  /\ counted' \in [Donation -> Nat]
           /\ \A d \in Donation : counted'[d] = IF Donor[d] = u THEN 0 ELSE counted[d]
  BY DEF Asked, Typed, Tables

\* A new row: what Insert does.
LEMMA InsertShape ==
    ASSUME Typed, NEW u \in User, NEW isk \in Nat, NEW status \in PartStatus, Insert(u, status, isk)
    PROVE  /\ part' \in [User -> Row] /\ rows' \in [User -> 0..MaxRows]
           /\ Asked(u) /\ rematched' = rematched \ {u}
           /\ counted' \in [Donation -> Nat] /\ rematched' \subseteq User
           /\ \A v \in User \ {u} : part'[v] = part[v]
           /\ part'[u].id # 0 /\ part'[u].status = status /\ part'[u].amount = isk
           /\ part'[u].validated <=> status = "OPTED_IN"
<1> DEFINE validated == status = "OPTED_IN"
           new == [id |-> rows[u] + 1, status |-> status, amount |-> isk, principal |-> isk,
                   validated |-> validated, link |-> NoDonation]
<1>1. part' = [part EXCEPT ![u] = new] /\ rows' = [rows EXCEPT ![u] = rows[u] + 1]
  BY DEF Insert
<1>2. validated \in BOOLEAN
  BY Zenon
<1>3. rows[u] + 1 \in 1..MaxRows
  BY ParticipationAssumption DEF Insert, Typed, Tables
<1>4. rows' \in [User -> 0..MaxRows]
  BY <1>1, <1>3 DEF Typed, Tables
<1> HIDE DEF validated
<1>5. new \in Row
  BY <1>2, <1>3 DEF Row
<1>6. new.id # 0 /\ new.status = status /\ new.amount = isk /\ new.validated = validated
  BY <1>3
<1> HIDE DEF new
<1>7. part'[u] = new /\ part' \in [User -> Row] /\ \A v \in User \ {u} : part'[v] = part[v]
  BY <1>1, <1>5, RowStep
<1>8. part'[u].validated <=> status = "OPTED_IN"
  <2>1. part'[u].validated = validated
    BY <1>6, <1>7
  <2> QED BY <2>1, Zenon DEF validated
<1>9. Asked(u) /\ rematched' = rematched \ {u} /\ rematched' \subseteq User
  BY DEF Insert, Typed, Tables
<1>10. counted' \in [Donation -> Nat]
  BY <1>9, AskedTyped
<1> QED BY <1>4, <1>6, <1>7, <1>8, <1>9, <1>10

\* A new ledger entry.
LEMMA AppendShape ==
    ASSUME Typed, NEW u \in User, NEW isk \in Nat, Append(u, isk)
    PROVE  /\ booked' \in [User -> Nat]
           /\ booked'[u] = booked[u] + isk /\ \A v \in User \ {u} : booked'[v] = booked[v]
<1>1. \A v \in User : booked[v] \in Nat
  BY DEF Typed, Tables
<1>2. booked \in [User -> Nat] /\ booked' = [booked EXCEPT ![u] = booked[u] + isk]
  BY DEF Typed, Tables, Append
<1> QED BY <1>1, <1>2

Quiet == UNCHANGED <<cycle, baseline, part, rows, ledger, arrived>>

LEMMA QuietTyped ==
    ASSUME Typed, Quiet, Requests', failures' \in 0..MaxFailures
    PROVE  Typed'
  BY DEF Quiet, Typed, Tables, ledger

\* A request reads the row it is about.
LEMMA StartShape ==
    ASSUME Typed, NEW r \in Request, NEW u \in User, NEW pc \in {"increase", "delete", "optOut"},
           Start(r, pc, u), Quiet, UNCHANGED failures
    PROVE  /\ Typed'
           /\ req'[r].pc = pc /\ req'[r].user = u /\ req'[r].row = part[u] /\ req'[r].from = {}
<1> DEFINE new == [NoRequest EXCEPT !.pc = pc, !.user = u, !.row = part[u]]
<1>1. Becomes(r, new)
  BY DEF Start
<1>2. /\ new \in Local /\ new.pc = pc /\ new.user = u /\ new.row = part[u] /\ new.from = {}
  BY NothingTyped, RowFields DEF NoRequest, Local, PartPC
<1> HIDE DEF new
<1>3. Requests' /\ req'[r] = new
  BY <1>1, <1>2, RequestStep
<1>4. failures' \in 0..MaxFailures
  BY DEF Typed, Tables
<1> QED BY <1>2, <1>3, <1>4, QuietTyped

LEMMA StartCreateShape ==
    ASSUME Typed, NEW r \in Request, NEW u \in User, StartCreate(r, u)
    PROVE  Typed' /\ Quiet /\ cycle = "PLANNED" /\ req'[r].pc = "create" /\ req[r].pc = "idle"
<1>1. PICK isk \in Ask[u] :
          /\ Becomes(r, [NoRequest EXCEPT !.pc = "create", !.user = u, !.isk = isk])
          /\ cycle = "PLANNED" /\ req[r].pc = "idle" /\ Quiet /\ UNCHANGED failures
  BY DEF StartCreate, Quiet
<1> DEFINE new == [NoRequest EXCEPT !.pc = "create", !.user = u, !.isk = isk]
<1>2. isk \in Nat
  BY ParticipationAssumption
<1>3. new \in Local /\ new.pc = "create" /\ new.user = u
  BY <1>2, NothingTyped DEF NoRequest, Local, PartPC
<1>4. Becomes(r, new)
  BY <1>1
<1> HIDE DEF new
<1>5. Requests' /\ req'[r] = new
  BY <1>3, <1>4, RequestStep
<1>6. failures' \in 0..MaxFailures
  BY <1>1 DEF Typed, Tables
<1> QED BY <1>1, <1>3, <1>5, <1>6, QuietTyped

LEMMA CreateShape ==
    ASSUME Typed, NEW r \in Request, Create(r)
    PROVE  /\ Typed' /\ Done(r) /\ req[r].pc = "create"
           /\ UNCHANGED <<cycle, baseline, booked, arrived, failures>>
           /\ \/ UNCHANGED <<part, counted, rematched>>
              \/ \E u \in User :
                    /\ u = req[r].user /\ part[u].id = 0
                    /\ \A v \in User \ {u} : part'[v] = part[v]
                    /\ part'[u].id # 0 /\ part'[u].status = "AWAITING_INVESTMENT" /\ ~part'[u].validated
                    /\ Asked(u) /\ rematched' = rematched \ {u}
<1>1. /\ Done(r) /\ req[r].pc = "create" /\ UNCHANGED <<cycle, baseline, booked, arrived, failures>>
      /\ Requests'
  BY RequestEnds DEF Create, Calls
<1>2. req[r].user \in User /\ req[r].isk \in Nat
  BY <1>1, FieldsTyped DEF About, PartPC
<1>3. CASE Exists(req[r].user)
  <2>1. UNCHANGED <<part, rows, counted, rematched>>
    BY <1>3 DEF Create
  <2> QED BY <1>1, <2>1 DEF Typed, Tables, ledger
<1>4. CASE ~Exists(req[r].user)
  <2> DEFINE u == req[r].user
  <2>1. Insert(u, "AWAITING_INVESTMENT", req[r].isk) /\ part[u].id = 0
    BY <1>4 DEF Create, Exists
  <2>2. /\ part' \in [User -> Row] /\ rows' \in [User -> 0..MaxRows]
        /\ \A v \in User \ {u} : part'[v] = part[v]
        /\ part'[u].id # 0 /\ part'[u].status = "AWAITING_INVESTMENT" /\ ~part'[u].validated
        /\ Asked(u) /\ rematched' = rematched \ {u}
        /\ counted' \in [Donation -> Nat] /\ rematched' \subseteq User
    BY <1>2, <2>1, InsertShape DEF PartStatus
  <2>3. Typed'
    BY <1>1, <2>2 DEF Typed, Tables, ledger
  <2> QED BY <1>1, <1>2, <2>1, <2>2, <2>3
<1> QED BY <1>3, <1>4

\* What a request does to the row it has read, if it is still there.
LEMMA IncreaseShape ==
    ASSUME Typed, NEW r \in Request, Increase(r)
    PROVE  /\ Typed' /\ Done(r) /\ req[r].pc = "increase"
           /\ UNCHANGED <<cycle, baseline, booked, rematched, arrived, failures>>
           /\ \/ UNCHANGED <<part, counted>>
              \/ \E u \in User :
                    /\ u = req[r].user /\ part[u].id = req[r].row.id
                    /\ \A v \in User \ {u} : part'[v] = part[v]
                    /\ part'[u].id = part[u].id /\ part'[u].status = "AWAITING_INVESTMENT"
                    /\ ~part'[u].validated /\ part'[u].amount = req[r].row.amount + More
                    /\ part'[u].link = part[u].link /\ Asked(u)
<1> DEFINE u == req[r].user
           row == req[r].row
           new == [part[u] EXCEPT !.amount = row.amount + More, !.principal = row.principal + More,
                                  !.status = "AWAITING_INVESTMENT", !.validated = FALSE]
<1>1. /\ Done(r) /\ req[r].pc = "increase" /\ UNCHANGED <<cycle, baseline, rows, booked, rematched, arrived, failures>>
      /\ Requests'
  BY RequestEnds DEF Increase, Calls
<1>2. u \in User /\ row \in Row /\ row.amount \in Nat /\ row.principal \in Nat
  BY <1>1, FieldsTyped DEF About, PartPC, Row
<1>3. CASE Same(r)
  <2>1. part' = [part EXCEPT ![u] = new] /\ Asked(u)
    BY <1>2, <1>3 DEF Increase, Typed, Tables
  <2>2. More \in Nat
    BY ParticipationAssumption
  <2>3. /\ new.id = part[u].id /\ new.status = "AWAITING_INVESTMENT" /\ ~new.validated
        /\ new.amount = row.amount + More /\ new.link = part[u].link
    BY <1>2, RowFields DEF Row
  <2>4. row.amount + More \in Nat /\ row.principal + More \in Nat /\ part[u] \in Row
    BY <1>2, <2>2, RowFields
  <2>5. new \in Row
    BY <2>4 DEF Row, PartStatus
  <2> HIDE DEF new
  <2>6. part' \in [User -> Row] /\ part'[u] = new /\ \A v \in User \ {u} : part'[v] = part[v]
    BY <1>2, <2>1, <2>5, RowStep
  <2>7. Typed'
    BY <1>1, <1>2, <2>1, <2>6, AskedTyped DEF Typed, Tables
  <2> QED BY <1>1, <1>2, <1>3, <2>1, <2>3, <2>6, <2>7 DEF Same
<1>4. CASE ~Same(r)
  <2>1. UNCHANGED <<part, counted>>
    BY <1>4 DEF Increase
  <2> QED BY <1>1, <2>1 DEF Typed, Tables, ledger
<1> QED BY <1>3, <1>4

LEMMA DeleteShape ==
    ASSUME Typed, NEW r \in Request, Delete(r)
    PROVE  /\ Typed' /\ Done(r) /\ req[r].pc = "delete"
           /\ UNCHANGED <<cycle, baseline, counted, rematched, arrived, failures>>
           /\ \/ UNCHANGED <<part, booked>>
              \/ \E u \in User :
                    /\ u = req[r].user /\ part[u].id = req[r].row.id
                    /\ \A v \in User \ {u} : part'[v] = part[v] /\ booked'[v] = booked[v]
                    /\ part'[u] = NoRow /\ booked'[u] = 0
<1> DEFINE u == req[r].user
<1>1. /\ Done(r) /\ req[r].pc = "delete" /\ UNCHANGED <<cycle, baseline, rows, counted, rematched, arrived, failures>>
      /\ Requests'
  BY RequestEnds DEF Delete, Calls
<1>2. u \in User
  BY <1>1, FieldsTyped DEF About, PartPC
<1>3. CASE Same(r)
  <2>1. part' = [part EXCEPT ![u] = NoRow] /\ booked' = [booked EXCEPT ![u] = 0]
    BY <1>3 DEF Delete
  <2>2. part' \in [User -> Row] /\ part'[u] = NoRow /\ \A v \in User \ {u} : part'[v] = part[v]
    BY <1>2, <2>1, NothingTyped, RowStep
  <2>3. booked' \in [User -> Nat] /\ booked'[u] = 0 /\ \A v \in User \ {u} : booked'[v] = booked[v]
    BY <1>2, <2>1 DEF Typed, Tables
  <2>4. Typed'
    BY <1>1, <2>2, <2>3 DEF Typed, Tables
  <2> QED BY <1>1, <1>2, <1>3, <2>2, <2>3, <2>4 DEF Same
<1>4. CASE ~Same(r)
  <2>1. UNCHANGED <<part, booked>>
    BY <1>4 DEF Delete
  <2> QED BY <1>1, <2>1 DEF Typed, Tables
<1> QED BY <1>3, <1>4

\* A row whose status changes and nothing else.
LEMMA StatusStep ==
    ASSUME Typed, NEW u \in User, NEW status \in PartStatus, part' = [part EXCEPT ![u].status = status]
    PROVE  /\ part' \in [User -> Row] /\ \A v \in User \ {u} : part'[v] = part[v]
           /\ part'[u].id = part[u].id /\ part'[u].amount = part[u].amount
           /\ part'[u].principal = part[u].principal /\ part'[u].link = part[u].link
           /\ part'[u].validated = part[u].validated /\ part'[u].status = status
<1> DEFINE new == [part[u] EXCEPT !.status = status]
<1>1. part' = [part EXCEPT ![u] = new]
  BY DEF Typed, Tables
<1>2. /\ new \in Row /\ new.id = part[u].id /\ new.amount = part[u].amount
      /\ new.principal = part[u].principal /\ new.link = part[u].link
      /\ new.validated = part[u].validated /\ new.status = status
  BY RowFields DEF Row
<1> HIDE DEF new
<1> QED BY <1>1, <1>2, RowStep

\* The status of at most one row has changed, to another than AWAITING_INVESTMENT.
OnlyStatus ==
    \/ UNCHANGED part
    \/ \E u \in User :
          /\ part[u].id # 0 /\ \A v \in User \ {u} : part'[v] = part[v]
          /\ part'[u].id = part[u].id /\ part'[u].amount = part[u].amount
          /\ part'[u].principal = part[u].principal /\ part'[u].link = part[u].link
          /\ part'[u].validated = part[u].validated
          /\ part'[u].status # "AWAITING_INVESTMENT"

LEMMA OptOutShape ==
    ASSUME Typed, NEW r \in Request, OptOut(r)
    PROVE  /\ Typed' /\ Done(r) /\ req[r].pc = "optOut" /\ (req[r].row.id # 0 => OnlyStatus)
           /\ UNCHANGED <<cycle, baseline, ledger, arrived, failures>>
<1> DEFINE u == req[r].user
<1>1. /\ Done(r) /\ req[r].pc = "optOut" /\ UNCHANGED <<cycle, baseline, rows, ledger, arrived, failures>>
      /\ Requests'
  BY RequestEnds DEF OptOut, Calls
<1>2. u \in User
  BY <1>1, FieldsTyped DEF About, PartPC
<1>3. CASE Same(r)
  <2>1. part' = [part EXCEPT ![u].status = "OPTED_OUT"]
    BY <1>3 DEF OptOut
  <2>2. part' \in [User -> Row] /\ (req[r].row.id # 0 => OnlyStatus)
    BY <1>2, <1>3, <2>1, StatusStep DEF PartStatus, OnlyStatus, Same
  <2> QED BY <1>1, <2>2 DEF Typed, Tables, ledger
<1>4. CASE ~Same(r)
  <2>1. UNCHANGED part
    BY <1>4 DEF OptOut
  <2> QED BY <1>1, <2>1 DEF Typed, Tables, ledger, OnlyStatus
<1> QED BY <1>3, <1>4

LEMMA RefundShape ==
    ASSUME Typed, NEW u \in User, Refund(u)
    PROVE  /\ Typed' /\ OnlyStatus
           /\ UNCHANGED <<cycle, baseline, ledger, arrived, req, failures>>
<1>1. part' = [part EXCEPT ![u].status = "REFUNDED"]
  BY DEF Refund
<1>2. part' \in [User -> Row] /\ OnlyStatus
  BY <1>1, StatusStep DEF PartStatus, OnlyStatus, Refund, Exists
<1> QED BY <1>2 DEF Refund, Typed, Tables, Requests, ledger

\* The matcher.
LEMMA StartMatchShape ==
    ASSUME Typed, NEW r \in Request, StartMatch(r)
    PROVE  /\ Typed' /\ Quiet /\ req[r].pc = "idle" /\ req'[r].pc = "donations"
           /\ \A t \in req'[r].todo : t.user \in User /\ t.row = part[t.user]
                                       /\ part[t.user].status = "AWAITING_INVESTMENT"
<1> DEFINE awaiting == {u \in User : part[u].status = "AWAITING_INVESTMENT"}
           todo == {[user |-> u, row |-> part[u]] : u \in awaiting}
           new == [NoRequest EXCEPT !.pc = "donations", !.todo = todo]
<1>1. Becomes(r, new) /\ req[r].pc = "idle" /\ Quiet /\ UNCHANGED failures
  BY DEF StartMatch, Quiet
<1>2. \A t \in todo : t.user \in User /\ t.row = part[t.user] /\ part[t.user].status = "AWAITING_INVESTMENT"
  OBVIOUS
<1>3. todo \in SUBSET [user : User, row : Row]
  BY RowFields
<1> HIDE DEF todo
<1>4. new \in Local /\ new.pc = "donations" /\ new.todo = todo
  BY <1>3, NothingTyped DEF NoRequest, Local, PartPC
<1> HIDE DEF new
<1>5. Requests' /\ req'[r] = new
  BY <1>1, <1>4, RequestStep DEF About
<1>6. failures' \in 0..MaxFailures
  BY <1>1 DEF Typed, Tables
<1> QED BY <1>1, <1>2, <1>4, <1>5, <1>6, QuietTyped

LEMMA ReadDonationsShape ==
    ASSUME Typed, NEW r \in Request, ReadDonations(r)
    PROVE  /\ Typed' /\ Quiet /\ req[r].pc = "donations" /\ req'[r].pc = "match"
           /\ req'[r].todo = req[r].todo
<1> DEFINE free == arrived \ Linked
           new == [req[r] EXCEPT !.pc = "match", !.free = free]
<1>1. Becomes(r, new) /\ req[r].pc = "donations" /\ Quiet /\ UNCHANGED failures
  BY DEF ReadDonations, Quiet, Calls
<1>2. free \in SUBSET Donation
  BY DEF Typed, Tables
<1> HIDE DEF free
<1>3. new \in Local /\ new.pc = "match" /\ new.todo = req[r].todo
  BY <1>2, FieldsTyped DEF Local, PartPC
<1> HIDE DEF new
<1>4. Requests' /\ req'[r] = new
  BY <1>1, <1>3, RequestStep DEF About
<1>5. failures' \in 0..MaxFailures
  BY <1>1 DEF Typed, Tables
<1> QED BY <1>1, <1>3, <1>4, <1>5, QuietTyped

\* What donations add up to.
LEMMA DonationsTyped ==
    ASSUME NEW S \in SUBSET Donation
    PROVE  Total(Isk, S) \in Nat
<1>1. IsFiniteSet(S) /\ \A d \in S : Isk[d] \in Nat
  BY ParticipationAssumption, FS_Subset
<1> QED BY <1>1, UnitsFinite

\* The participation t is matched with the donations in match.
Matches(r, t, match) ==
    /\ t \in req[r].todo /\ t.user \in User /\ part[t.user].id = t.row.id
    /\ match = Matched(t.user, t.row.amount, req[r].free) /\ match # {}
    /\ rematched' = IF booked[t.user] = 0 THEN rematched ELSE rematched \cup {t.user}
    /\ \A v \in User \ {t.user} : part'[v] = part[v]
    /\ part'[t.user].id = part[t.user].id /\ part'[t.user].status = "OPTED_IN"
    /\ part'[t.user].validated /\ part'[t.user].amount = Total(Isk, match)
    /\ req'[r].pc = "bookMatch" /\ req'[r].user = t.user /\ req'[r].row = t.row
    /\ req'[r].todo = req[r].todo \ {t} /\ req'[r].isk = Total(Isk, match) /\ req'[r].from = match

LEMMA MatchOneShape ==
    ASSUME Typed, NEW r \in Request, MatchOne(r)
    PROVE  /\ Typed' /\ req[r].pc = "match"
           /\ UNCHANGED <<cycle, baseline, booked, counted, arrived, failures>>
           /\ \/ UNCHANGED <<part, rematched>> /\ Done(r)
              \/ UNCHANGED <<part, rematched>> /\ req'[r].pc = "match" /\ req'[r].todo \subseteq req[r].todo
              \/ \E t, match : Matches(r, t, match)
<1>1. PICK t \in req[r].todo :
          LET u == t.user
              match == Matched(u, t.row.amount, req[r].free)
              isk == Total(Isk, match)
          IN  /\ Calls(r, "match")
              /\ IF match = {} THEN Becomes(r, [req[r] EXCEPT !.todo = @ \ {t}]) /\ UNCHANGED <<part, rematched>>
                 ELSE IF part[u].id # t.row.id THEN Done(r) /\ UNCHANGED <<part, rematched>>
                 ELSE /\ rematched' = IF booked[u] = 0 THEN rematched ELSE rematched \cup {u}
                      /\ \E best \in match :
                            /\ \A d \in match : Score(d, t.row.amount) <= Score(best, t.row.amount)
                            /\ part' = [part EXCEPT ![u].amount = isk, ![u].status = "OPTED_IN",
                                                    ![u].validated = TRUE, ![u].link = best]
                      /\ Becomes(r, [req[r] EXCEPT !.pc = "bookMatch", !.user = u, !.row = t.row,
                                        !.todo = @ \ {t}, !.isk = isk, !.from = match])
              /\ UNCHANGED <<cycle, baseline, rows, booked, counted, arrived, failures>>
  BY DEF MatchOne
<1> DEFINE u == t.user
           match == Matched(u, t.row.amount, req[r].free)
           isk == Total(Isk, match)
<1>2. req[r].pc = "match" /\ UNCHANGED <<cycle, baseline, rows, booked, counted, arrived, failures>>
  BY <1>1 DEF Calls
<1>3. t \in [user : User, row : Row] /\ u \in User /\ t.row \in Row /\ req[r] \in Local
  BY <1>1, FieldsTyped
<1>4. match \in SUBSET Donation /\ isk \in Nat
  <2>1. match \in SUBSET Donation
    BY FieldsTyped DEF Matched
  <2> QED BY <2>1, DonationsTyped
<1>5. CASE match = {}
  <2> DEFINE new == [req[r] EXCEPT !.todo = @ \ {t}]
  <2>1. Becomes(r, new) /\ UNCHANGED <<part, rematched>>
    BY <1>1, <1>5
  <2>2. new \in Local /\ new.pc = "match" /\ new.todo \subseteq req[r].todo
    BY <1>2, FieldsTyped DEF Local
  <2> HIDE DEF new
  <2>3. Requests' /\ req'[r] = new
    BY <2>1, <2>2, RequestStep DEF About
  <2> QED BY <1>2, <2>1, <2>2, <2>3 DEF Typed, Tables, ledger
<1>6. CASE match # {} /\ part[u].id # t.row.id
  <2>1. Done(r) /\ UNCHANGED <<part, rematched>>
    BY <1>1, <1>6
  <2>2. Requests'
    BY <2>1, RequestEnds
  <2> QED BY <1>2, <2>1, <2>2 DEF Typed, Tables, ledger
<1>7. CASE match # {} /\ part[u].id = t.row.id
  <2>1. PICK best \in match :
            part' = [part EXCEPT ![u].amount = isk, ![u].status = "OPTED_IN",
                                 ![u].validated = TRUE, ![u].link = best]
    BY <1>1, <1>7
  <2> DEFINE row == [part[u] EXCEPT !.amount = isk, !.status = "OPTED_IN", !.validated = TRUE, !.link = best]
             new == [req[r] EXCEPT !.pc = "bookMatch", !.user = u, !.row = t.row,
                                   !.todo = @ \ {t}, !.isk = isk, !.from = match]
  <2>2. Becomes(r, new) /\ rematched' = IF booked[u] = 0 THEN rematched ELSE rematched \cup {u}
    BY <1>1, <1>7
  <2> HIDE DEF match, isk
  <2>3. part' = [part EXCEPT ![u] = row]
    BY <1>3, <2>1 DEF Typed, Tables
  <2>4. best \in Donation /\ part[u] \in Row
    BY <1>3, <1>4, <2>1, RowFields
  <2>5. row \in Row
    BY <1>4, <2>4 DEF Row, PartStatus
  <2>6. row.id = part[u].id /\ row.status = "OPTED_IN" /\ row.validated /\ row.amount = isk
    BY <2>4 DEF Row
  <2> HIDE DEF row
  <2>7. part' \in [User -> Row] /\ part'[u] = row /\ \A v \in User \ {u} : part'[v] = part[v]
    BY <1>3, <2>3, <2>5, RowStep
  <2>8. /\ new \in Local /\ new.pc = "bookMatch" /\ new.user = u /\ new.row = t.row
        /\ new.todo = req[r].todo \ {t} /\ new.isk = isk /\ new.from = match
    BY <1>3, <1>4, FieldsTyped DEF Local, PartPC
  <2> HIDE DEF new
  <2>9. Requests' /\ req'[r] = new
    BY <1>3, <2>2, <2>8, RequestStep
  <2>10. Typed'
    BY <1>2, <1>3, <2>2, <2>7, <2>9 DEF Typed, Tables
  <2>11. Matches(r, t, match)
    BY <1>3, <1>7, <2>2, <2>6, <2>7, <2>8, <2>9 DEF Matches, match, isk
  <2> QED BY <1>2, <2>10, <2>11
<1> QED BY <1>5, <1>6, <1>7

\* One entry is appended for the participation of u, if it is still there.
Books(r, u) ==
    /\ u = req[r].user /\ part[u].id = req[r].row.id
    /\ booked'[u] = booked[u] + req[r].isk /\ \A v \in User \ {u} : booked'[v] = booked[v]

LEMMA BooksShape ==
    ASSUME Typed, NEW r \in Request, NEW u \in User, u = req[r].user, Same(r),
           Append(u, req[r].isk)
    PROVE  Books(r, u) /\ booked' \in [User -> Nat]
<1>1. req[r].isk \in Nat
  BY FieldsTyped
<1> QED BY <1>1, AppendShape DEF Books, Same

LEMMA BookMatchShape ==
    ASSUME Typed, NEW r \in Request, BookMatch(r)
    PROVE  /\ Typed' /\ req[r].pc = "bookMatch"
           /\ UNCHANGED <<cycle, baseline, part, rematched, arrived, failures>>
           /\ \/ UNCHANGED <<booked, counted>> /\ Done(r)
              \/ /\ req'[r].pc = "match" /\ req'[r].todo = req[r].todo /\ \E u \in User : Books(r, u)
                 /\ \A d \in Donation : counted'[d] = IF d \in req[r].from THEN counted[d] + 1 ELSE counted[d]
<1>1. req[r].pc = "bookMatch" /\ UNCHANGED <<cycle, baseline, part, rows, rematched, arrived, failures>>
  BY DEF BookMatch, Calls
<1>2. req[r].user \in User
  BY <1>1, FieldsTyped DEF About, PartPC
<1>3. CASE Same(r)
  <2> DEFINE free == req[r].free \ req[r].from
             new == [req[r] EXCEPT !.pc = "match", !.free = free]
  <2>1. /\ Becomes(r, new) /\ Append(req[r].user, req[r].isk)
        /\ counted' = [d \in Donation |-> counted[d] + IF d \in req[r].from THEN 1 ELSE 0]
    BY <1>3 DEF BookMatch
  <2>2. Books(r, req[r].user) /\ booked' \in [User -> Nat]
    BY <1>2, <1>3, <2>1, BooksShape
  <2>7. /\ counted' \in [Donation -> Nat]
        /\ \A d \in Donation : counted'[d] = IF d \in req[r].from THEN counted[d] + 1 ELSE counted[d]
    BY <2>1 DEF Typed, Tables
  <2>3. free \in SUBSET Donation
    BY FieldsTyped
  <2> HIDE DEF free
  <2>4. new \in Local /\ new.pc = "match" /\ new.todo = req[r].todo
    BY <2>3, FieldsTyped DEF Local, PartPC
  <2> HIDE DEF new
  <2>5. Requests' /\ req'[r] = new
    BY <2>1, <2>4, RequestStep DEF About
  <2>6. Typed'
    BY <1>1, <2>2, <2>5, <2>7 DEF Typed, Tables
  <2> QED BY <1>1, <1>2, <2>2, <2>4, <2>5, <2>6, <2>7
<1>4. CASE ~Same(r)
  <2>1. Done(r) /\ UNCHANGED <<booked, counted>>
    BY <1>4 DEF BookMatch
  <2>2. Requests'
    BY <2>1, RequestEnds
  <2> QED BY <1>1, <2>1, <2>2 DEF Typed, Tables, ledger
<1> QED BY <1>3, <1>4

\* A request that ends, or is cut short, without an effect.
LEMMA EndShape ==
    ASSUME Typed, NEW r \in Request, EndMatch(r) \/ CutShort(r)
    PROVE  Typed' /\ Quiet /\ Done(r)
<1>1. Quiet /\ Done(r)
  BY DEF EndMatch, CutShort, Quiet, ledger
<1>2. failures' \in 0..MaxFailures
  BY ParticipationAssumption DEF EndMatch, CutShort, Typed, Tables
<1> QED BY <1>1, <1>2, RequestEnds, QuietTyped

LEMMA ArriveShape ==
    ASSUME Typed, NEW d \in Donation, Arrive(d)
    PROVE  Typed' /\ UNCHANGED <<cycle, baseline, part, ledger, req>>
  BY DEF Arrive, Typed, Tables, Requests, ledger

\* Admins.
LEMMA StartValidateShape ==
    ASSUME Typed, NEW r \in Request, NEW u \in User, StartValidate(r, u)
    PROVE  /\ Typed' /\ Quiet /\ part[u].id # 0 /\ req[r].pc = "idle"
           /\ part[u].status \in Validatable
           /\ req'[r].pc = "validate" /\ req'[r].user = u /\ req'[r].row = part[u]
<1>1. PICK from \in {{}} \cup {{d} : d \in arrived} :
          Becomes(r, [NoRequest EXCEPT !.pc = "validate", !.user = u, !.row = part[u], !.from = from])
  BY DEF StartValidate
<1> DEFINE new == [NoRequest EXCEPT !.pc = "validate", !.user = u, !.row = part[u], !.from = from]
<1>2. from \in SUBSET Donation
  BY <1>1 DEF Typed, Tables
<1>3. /\ part[u].id # 0 /\ req[r].pc = "idle" /\ part[u].status \in Validatable
      /\ Quiet /\ UNCHANGED failures
  BY DEF StartValidate, Exists, Quiet
<1>4. new \in Local /\ new.pc = "validate" /\ new.user = u /\ new.row = part[u] /\ new.from = from
  BY <1>2, NothingTyped, RowFields DEF NoRequest, Local, PartPC
<1>5. Becomes(r, new)
  BY <1>1
<1> HIDE DEF new
<1>6. Requests' /\ req'[r] = new
  BY <1>4, <1>5, RequestStep
<1>7. failures' \in 0..MaxFailures
  BY <1>3 DEF Typed, Tables
<1> QED BY <1>2, <1>3, <1>4, <1>6, <1>7, QuietTyped

LEMMA ValidateShape ==
    ASSUME Typed, NEW r \in Request, Validate(r)
    PROVE  /\ Typed' /\ req[r].pc = "validate"
           /\ UNCHANGED <<cycle, baseline, ledger, arrived, failures>>
           /\ \/ UNCHANGED part /\ Done(r)
              \/ \E u \in User :
                    /\ u = req[r].user /\ part[u].id = req[r].row.id
                    /\ \A v \in User \ {u} : part'[v] = part[v]
                    /\ part'[u].id = part[u].id /\ part'[u].status = "OPTED_IN"
                    /\ part'[u].validated /\ part'[u].amount = part[u].amount
                    /\ req'[r].pc = "sum" /\ req'[r].user = u /\ req'[r].row = part'[u]
                    /\ req'[r].from = req[r].from
<1>1. req[r].pc = "validate" /\ UNCHANGED <<cycle, baseline, rows, ledger, arrived, failures>>
  BY DEF Validate, Calls
<1>2. req[r].user \in User /\ req[r].from \in SUBSET Donation
  BY <1>1, FieldsTyped DEF About, PartPC
<1>3. CASE Same(r)
  <2> DEFINE u == req[r].user
             link == IF req[r].from = {} THEN NoDonation ELSE CHOOSE d \in req[r].from : TRUE
             row == [part[u] EXCEPT !.status = "OPTED_IN", !.validated = TRUE, !.link = link]
             new == [req[r] EXCEPT !.pc = "sum", !.row = part'[u]]
  <2>1. /\ part' = [part EXCEPT ![u].status = "OPTED_IN", ![u].validated = TRUE, ![u].link = link]
        /\ Becomes(r, new)
    BY <1>3 DEF Validate
  <2>2. link \in Donation \cup {NoDonation}
    BY <1>2
  <2> HIDE DEF link
  <2>3. part' = [part EXCEPT ![u] = row]
    BY <1>2, <2>1 DEF Typed, Tables
  <2>4. part[u] \in Row
    BY <1>2, RowFields
  <2>5. row \in Row
    BY <2>2, <2>4 DEF Row, PartStatus
  <2>6. row.id = part[u].id /\ row.status = "OPTED_IN" /\ row.validated /\ row.amount = part[u].amount
    BY <2>4 DEF Row
  <2> HIDE DEF row
  <2>7. part' \in [User -> Row] /\ part'[u] = row /\ \A v \in User \ {u} : part'[v] = part[v]
    BY <1>2, <2>3, <2>5, RowStep
  <2>8. /\ new \in Local /\ new.pc = "sum" /\ new.user = u /\ new.row = part'[u]
        /\ new.from = req[r].from
    BY <2>5, <2>7, FieldsTyped DEF Local, PartPC
  <2> HIDE DEF new
  <2>9. Requests' /\ req'[r] = new
    BY <1>2, <2>1, <2>8, RequestStep
  <2>10. Typed'
    BY <1>1, <2>7, <2>9 DEF Typed, Tables, ledger
  <2> QED BY <1>1, <1>2, <1>3, <2>6, <2>7, <2>8, <2>9, <2>10 DEF Same
<1>4. CASE ~Same(r)
  <2>1. Done(r) /\ UNCHANGED part
    BY <1>4 DEF Validate
  <2>2. Requests'
    BY <2>1, RequestEnds
  <2> QED BY <1>1, <2>1, <2>2 DEF Typed, Tables, ledger
<1> QED BY <1>3, <1>4

LEMMA SumDepositsShape ==
    ASSUME Typed, NEW r \in Request, SumDeposits(r)
    PROVE  /\ Typed' /\ Quiet /\ req[r].pc = "sum"
           /\ \/ Done(r)
              \/ LET paid == IF Same(r) THEN booked[req[r].user] ELSE 0
                 IN  /\ req[r].row.amount > paid
                     /\ req'[r].pc = "append" /\ req'[r].isk = req[r].row.amount - paid
                     /\ req'[r].user = req[r].user /\ req'[r].row = req[r].row /\ req'[r].from = req[r].from
<1> DEFINE paid == IF Same(r) THEN booked[req[r].user] ELSE 0
           isk == req[r].row.amount - paid
           new == [req[r] EXCEPT !.pc = "append", !.isk = isk]
<1>1. req[r].pc = "sum" /\ Quiet /\ UNCHANGED failures
  BY DEF SumDeposits, Calls, Quiet
<1>2. req[r].user \in User /\ req[r].row.amount \in Nat /\ paid \in Nat
  BY <1>1, FieldsTyped DEF About, PartPC, Row, Typed, Tables
<1>3. failures' \in 0..MaxFailures
  BY <1>1 DEF Typed, Tables
<1>4. CASE req[r].row.amount <= paid
  <2>1. Done(r)
    BY <1>4 DEF SumDeposits
  <2> QED BY <1>1, <1>3, <2>1, RequestEnds, QuietTyped
<1>5. CASE ~(req[r].row.amount <= paid)
  <2>1. Becomes(r, new)
    BY <1>5 DEF SumDeposits
  <2>2. isk \in Nat /\ req[r].row.amount > paid
    BY <1>2, <1>5
  <2> HIDE DEF isk, paid
  <2>3. /\ new \in Local /\ new.pc = "append" /\ new.isk = isk
        /\ new.user = req[r].user /\ new.row = req[r].row /\ new.from = req[r].from
    BY <2>2, FieldsTyped DEF Local, PartPC
  <2> HIDE DEF new
  <2>4. Requests' /\ req'[r] = new
    BY <1>2, <2>1, <2>3, RequestStep
  <2>5. Typed'
    BY <1>1, <1>3, <2>4, QuietTyped
  <2> QED BY <1>1, <2>2, <2>3, <2>4, <2>5 DEF isk, paid
<1> QED BY <1>4, <1>5

LEMMA AppendDepositShape ==
    ASSUME Typed, NEW r \in Request, AppendDeposit(r)
    PROVE  /\ Typed' /\ req[r].pc = "append"
           /\ UNCHANGED <<cycle, baseline, part, counted, rematched, arrived, failures>>
           /\ \/ UNCHANGED booked /\ Done(r)
              \/ req'[r].pc = "cycle" /\ req'[r].isk = req[r].isk /\ \E u \in User : Books(r, u)
<1>1. req[r].pc = "append" /\ UNCHANGED <<cycle, baseline, part, rows, counted, rematched, arrived, failures>>
  BY DEF AppendDeposit, Calls
<1>2. req[r].user \in User
  BY <1>1, FieldsTyped DEF About, PartPC
<1>3. CASE Same(r)
  <2> DEFINE new == [req[r] EXCEPT !.pc = "cycle"]
  <2>1. Becomes(r, new) /\ Append(req[r].user, req[r].isk)
    BY <1>3 DEF AppendDeposit
  <2>2. Books(r, req[r].user) /\ booked' \in [User -> Nat]
    BY <1>2, <1>3, <2>1, BooksShape
  <2>3. new \in Local /\ new.pc = "cycle" /\ new.user = req[r].user /\ new.isk = req[r].isk
    BY FieldsTyped DEF Local, PartPC
  <2> HIDE DEF new
  <2>4. Requests' /\ req'[r] = new
    BY <1>2, <2>1, <2>3, RequestStep
  <2>5. Typed'
    BY <1>1, <2>2, <2>4 DEF Typed, Tables
  <2> QED BY <1>1, <1>2, <2>2, <2>3, <2>4, <2>5
<1>4. CASE ~Same(r)
  <2>1. Done(r) /\ UNCHANGED booked
    BY <1>4 DEF AppendDeposit
  <2>2. Requests'
    BY <2>1, RequestEnds
  <2> QED BY <1>1, <2>1, <2>2 DEF Typed, Tables, ledger
<1> QED BY <1>3, <1>4

LEMMA ReadBaselineShape ==
    ASSUME Typed, NEW r \in Request, ReadBaseline(r)
    PROVE  /\ Typed' /\ Quiet /\ req[r].pc = "cycle"
           /\ \/ Done(r)
              \/ cycle = "OPEN" /\ req'[r].pc = "raise" /\ req'[r].isk = baseline + req[r].isk
<1> DEFINE isk == baseline + req[r].isk
           new == [req[r] EXCEPT !.pc = "raise", !.isk = isk]
<1>1. req[r].pc = "cycle" /\ Quiet /\ UNCHANGED failures
  BY DEF ReadBaseline, Calls, Quiet
<1>2. req[r].user \in User /\ isk \in Nat
  BY <1>1, FieldsTyped DEF About, PartPC, Typed, Tables
<1>3. failures' \in 0..MaxFailures
  BY <1>1 DEF Typed, Tables
<1>4. CASE cycle # "OPEN"
  <2>1. Done(r)
    BY <1>4 DEF ReadBaseline
  <2> QED BY <1>1, <1>3, <2>1, RequestEnds, QuietTyped
<1>5. CASE cycle = "OPEN"
  <2>1. Becomes(r, new)
    BY <1>5 DEF ReadBaseline
  <2> HIDE DEF isk
  <2>2. new \in Local /\ new.pc = "raise" /\ new.isk = isk /\ new.user = req[r].user
    BY <1>2, FieldsTyped DEF Local, PartPC
  <2> HIDE DEF new
  <2>3. Requests' /\ req'[r] = new
    BY <1>2, <2>1, <2>2, RequestStep
  <2>4. Typed'
    BY <1>1, <1>3, <2>3, QuietTyped
  <2> QED BY <1>1, <1>5, <2>2, <2>3, <2>4 DEF isk
<1> QED BY <1>4, <1>5

LEMMA RaiseBaselineShape ==
    ASSUME Typed, NEW r \in Request, RaiseBaseline(r)
    PROVE  /\ Typed' /\ Done(r) /\ req[r].pc = "raise" /\ baseline' = req[r].isk
           /\ UNCHANGED <<cycle, part, ledger, arrived, failures>>
<1>1. /\ Done(r) /\ req[r].pc = "raise" /\ baseline' = req[r].isk
      /\ UNCHANGED <<cycle, part, rows, ledger, arrived, failures>>
  BY DEF RaiseBaseline, Calls
<1>2. Requests' /\ req[r].isk \in Nat
  BY <1>1, RequestEnds, FieldsTyped
<1> QED BY <1>1, <1>2 DEF Typed, Tables, ledger

LEMMA AddToOpenCycleShape ==
    ASSUME Typed, NEW r \in Request, NEW u \in User, AddToOpenCycle(r, u)
    PROVE  /\ Typed' /\ cycle = "OPEN" /\ req[r].pc = "idle" /\ part[u].id = 0
           /\ UNCHANGED <<cycle, arrived, req, failures>>
           /\ \A v \in User \ {u} : part'[v] = part[v] /\ booked'[v] = booked[v]
           /\ Asked(u) /\ rematched' = rematched \ {u}
           /\ part'[u].id # 0 /\ part'[u].amount \in Nat
           /\ \/ /\ part'[u].status = "OPTED_IN" /\ part'[u].validated
                 /\ booked'[u] = booked[u] + part'[u].amount
                 /\ baseline' = baseline + part'[u].amount
              \/ /\ part'[u].status = "AWAITING_INVESTMENT" /\ ~part'[u].validated
                 /\ UNCHANGED <<booked, baseline>>
<1>1. PICK isk \in Ask[u], paid \in BOOLEAN :
          /\ Insert(u, IF paid THEN "OPTED_IN" ELSE "AWAITING_INVESTMENT", isk)
          /\ IF paid THEN Append(u, isk) /\ baseline' = baseline + isk
                     ELSE UNCHANGED <<booked, baseline>>
  BY DEF AddToOpenCycle
<1>2. isk \in Nat
  BY ParticipationAssumption
<1>3. cycle = "OPEN" /\ req[r].pc = "idle" /\ part[u].id = 0 /\ UNCHANGED <<cycle, arrived, req, failures>>
  BY DEF AddToOpenCycle, Exists
<1>4. CASE paid
  <2>1. Insert(u, "OPTED_IN", isk) /\ Append(u, isk) /\ baseline' = baseline + isk
    BY <1>1, <1>4
  <2>2. /\ part' \in [User -> Row] /\ rows' \in [User -> 0..MaxRows]
        /\ Asked(u) /\ rematched' = rematched \ {u}
        /\ counted' \in [Donation -> Nat] /\ rematched' \subseteq User
        /\ \A v \in User \ {u} : part'[v] = part[v]
        /\ part'[u].id # 0 /\ part'[u].status = "OPTED_IN" /\ part'[u].amount = isk
        /\ part'[u].validated
    BY <1>2, <2>1, InsertShape DEF PartStatus
  <2>3. /\ booked' \in [User -> Nat]
        /\ booked'[u] = booked[u] + isk /\ \A v \in User \ {u} : booked'[v] = booked[v]
    BY <1>2, <2>1, AppendShape
  <2>4. baseline' \in Nat
    BY <1>2, <2>1 DEF Typed, Tables
  <2>5. Typed'
    BY <1>3, <2>2, <2>3, <2>4 DEF Typed, Tables, Requests
  <2> QED BY <1>2, <1>3, <2>1, <2>2, <2>3, <2>5
<1>5. CASE ~paid
  <2>1. Insert(u, "AWAITING_INVESTMENT", isk) /\ UNCHANGED <<booked, baseline>>
    BY <1>1, <1>5
  <2>2. /\ part' \in [User -> Row] /\ rows' \in [User -> 0..MaxRows]
        /\ Asked(u) /\ rematched' = rematched \ {u}
        /\ counted' \in [Donation -> Nat] /\ rematched' \subseteq User
        /\ \A v \in User \ {u} : part'[v] = part[v]
        /\ part'[u].id # 0 /\ part'[u].status = "AWAITING_INVESTMENT" /\ part'[u].amount = isk
        /\ ~part'[u].validated
    BY <1>2, <2>1, InsertShape DEF PartStatus
  <2>3. Typed'
    BY <1>3, <2>1, <2>2 DEF Typed, Tables, Requests, ledger
  <2> QED BY <1>2, <1>3, <2>1, <2>2, <2>3 DEF ledger
<1> QED BY <1>4, <1>5

\* The amounts of some users add up to a number.
Amounts == [u \in User |-> part[u].amount]

LEMMA AmountsTyped ==
    ASSUME Typed, NEW S \in SUBSET User
    PROVE  TotalOf(S) \in Nat /\ IsFiniteSet(S) /\ \A u \in User : Amounts[u] \in Nat
<1>1. IsFiniteSet(S)
  BY ParticipationAssumption, FS_Subset
<1>2. \A u \in User : Amounts[u] \in Nat
  BY RowFields DEF Amounts
<1>3. Total(Amounts, S) \in Nat
  BY <1>1, <1>2, UnitsFinite
<1> QED BY <1>1, <1>2, <1>3 DEF TotalOf, Amounts

\* The participations that the opening deletes and those that it counts.
Gone == {u \in User : part[u].status \in {"AWAITING_INVESTMENT", "REFUNDED"}}
Counting == {u \in User : part[u].status = "OPTED_IN" /\ part[u].validated}

LEMMA OpenCycleShape ==
    ASSUME Typed, NEW r \in Request, OpenCycle(r)
    PROVE  /\ Typed' /\ cycle = "PLANNED" /\ cycle' = "OPEN" /\ req[r].pc = "idle"
           /\ UNCHANGED <<counted, rematched, arrived, req, failures>>
           /\ \A u \in Gone : part'[u] = NoRow /\ booked'[u] = 0
           /\ \A u \in User \ Gone : part'[u] = part[u] /\ booked'[u] = booked[u]
           /\ baseline' = TotalOf(Counting)
<1>1. /\ part' = [u \in User |-> IF u \in Gone THEN NoRow ELSE part[u]]
      /\ booked' = [u \in User |-> IF u \in Gone THEN 0 ELSE booked[u]]
  BY DEF OpenCycle, Gone
<1>2. /\ cycle = "PLANNED" /\ cycle' = "OPEN" /\ req[r].pc = "idle"
      /\ UNCHANGED <<rows, counted, rematched, arrived, req, failures>> /\ baseline' = TotalOf(Counting)
  BY DEF OpenCycle, Counting
<1>3. part' \in [User -> Row] /\ booked' \in [User -> Nat]
  BY <1>1, NothingTyped DEF Typed, Tables
<1>4. baseline' \in Nat
  BY <1>2, AmountsTyped DEF Counting
<1>5. Typed'
  BY <1>2, <1>3, <1>4 DEF Typed, Tables, Requests
<1>6. Gone \subseteq User
  BY DEF Gone
<1> QED BY <1>1, <1>2, <1>5, <1>6

LEMMA StartIncreaseShape ==
    ASSUME Typed, NEW r \in Request, NEW u \in User, StartIncrease(r, u)
    PROVE  /\ Typed' /\ Quiet /\ req[r].pc = "idle" /\ part[u].id # 0 /\ cycle = "PLANNED"
           /\ req'[r].pc = "increase" /\ req'[r].user = u /\ req'[r].row = part[u]
<1>1. Start(r, "increase", u) /\ Quiet /\ UNCHANGED failures
  BY DEF StartIncrease, Quiet
<1>2. /\ Typed' /\ req[r].pc = "idle"
      /\ req'[r].pc = "increase" /\ req'[r].user = u /\ req'[r].row = part[u]
  BY <1>1, StartShape DEF Start
<1>3. part[u].id # 0 /\ cycle = "PLANNED"
  BY DEF StartIncrease, Exists
<1> QED BY <1>1, <1>2, <1>3, Zenon

LEMMA StartOptOutShape ==
    ASSUME Typed, NEW r \in Request, NEW u \in User, StartOptOut(r, u)
    PROVE  /\ Typed' /\ Quiet /\ req[r].pc = "idle" /\ part[u].id # 0 /\ cycle = "PLANNED"
           /\ req'[r].user = u /\ req'[r].row = part[u]
           /\ \/ req'[r].pc = "delete" /\ part[u].status = "AWAITING_INVESTMENT"
              \/ req'[r].pc = "optOut"
<1>1. /\ Quiet /\ UNCHANGED failures /\ part[u].id # 0 /\ cycle = "PLANNED"
      /\ \/ Start(r, "delete", u) /\ part[u].status = "AWAITING_INVESTMENT"
         \/ Start(r, "optOut", u)
  BY DEF StartOptOut, Exists, Quiet
<1>2. CASE Start(r, "delete", u) /\ part[u].status = "AWAITING_INVESTMENT"
  BY <1>1, <1>2, StartShape DEF Start
<1>3. CASE Start(r, "optOut", u)
  BY <1>1, <1>3, StartShape DEF Start
<1> QED BY <1>1, <1>2, <1>3

LEMMA TypedStep == Typed /\ [PartNext]_partVars => Typed'
<1> SUFFICES ASSUME Typed, [PartNext]_partVars PROVE Typed'
  OBVIOUS
<1>1. CASE UNCHANGED partVars
  BY <1>1 DEF partVars, Typed, Tables, Requests
<1>2. ASSUME NEW r \in Request, NEW u \in User,
             StartCreate(r, u) \/ StartIncrease(r, u) \/ StartOptOut(r, u) \/ StartValidate(r, u)
      PROVE  Typed'
  BY <1>2, StartCreateShape, StartIncreaseShape, StartOptOutShape, StartValidateShape
<1>3. ASSUME NEW r \in Request, NEW u \in AdminAdds, AddToOpenCycle(r, u) PROVE Typed'
  BY <1>3, AddToOpenCycleShape, ParticipationAssumption
<1>4. ASSUME NEW r \in Request,
             \/ Create(r) \/ Increase(r) \/ Delete(r) \/ OptOut(r)
             \/ StartMatch(r) \/ ReadDonations(r) \/ MatchOne(r) \/ BookMatch(r) \/ EndMatch(r)
             \/ Validate(r) \/ SumDeposits(r) \/ AppendDeposit(r) \/ ReadBaseline(r) \/ RaiseBaseline(r)
             \/ OpenCycle(r) \/ CutShort(r)
      PROVE  Typed'
  BY <1>4, CreateShape, IncreaseShape, DeleteShape, OptOutShape, StartMatchShape, ReadDonationsShape,
     MatchOneShape, BookMatchShape, EndShape, ValidateShape, SumDepositsShape, AppendDepositShape,
     ReadBaselineShape, RaiseBaselineShape, OpenCycleShape
<1>5. ASSUME NEW u \in User, Refund(u) PROVE Typed'
  BY <1>5, RefundShape
<1>6. ASSUME NEW d \in Donation, Arrive(d) PROVE Typed'
  BY <1>6, ArriveShape
<1> QED BY <1>1, <1>2, <1>3, <1>4, <1>5, <1>6 DEF PartNext

LEMMA TypedAlways == PartSpec => []Typed
<1> QED BY TypedStart, TypedStep, PTL DEF PartSpec

\* Type correctness (also a run), for any number of overlapping requests.
THEOREM ParticipationTyped == PartSpec => []PartTypeOK
<1>1. Typed => PartTypeOK
  BY FieldsTyped DEF Typed, Tables, PartTypeOK
<1> QED BY <1>1, TypedAlways, PTL

--------------------------------------------------------------------------------
(* One request at a time: what it has read is still true when it writes.   *)
(* Only a refund may come in between, and changes the status of a row.     *)

Serial == \A r, q \in Request : r = q

RowsInv ==
    \A u \in User :
        /\ part[u].id = 0 => part[u] = NoRow
        /\ part[u].status = "AWAITING_INVESTMENT" => part[u].id # 0 /\ ~part[u].validated

\* The request is about a row that exists.
Current(r) == req[r].row.id = part[req[r].user].id /\ req[r].row.id # 0
Agreed(r) == Current(r) /\ req[r].row.amount = part[req[r].user].amount
Validated(r) == part[req[r].user].validated

\* The participation of t awaits its payment.
Waits(t) == part[t.user].id = t.row.id /\ t.row.id # 0 /\ ~part[t.user].validated

Place(r) ==
    /\ req[r].pc \in {"create", "increase", "delete", "optOut"} => cycle = "PLANNED"
    /\ req[r].pc \in {"increase", "delete", "optOut", "validate"} => Agreed(r)
    /\ req[r].pc = "delete" => ~Validated(r)
    /\ req[r].pc \in {"donations", "match", "bookMatch"} =>
          /\ \A s, t \in req[r].todo : s.user = t.user => s = t
          /\ \A t \in req[r].todo : Waits(t)
    /\ req[r].pc = "bookMatch" => Current(r) /\ Validated(r) /\ part[req[r].user].amount = req[r].isk
    /\ req[r].pc = "sum" => Agreed(r) /\ Validated(r)
    /\ req[r].pc = "append" => Current(r) /\ Validated(r)

PlaceInv == Typed /\ RowsInv /\ \A r \in Request : Place(r)

\* At rest there is nothing to say.
LEMMA PlaceAtRest ==
    ASSUME NEW r \in Request, req[r].pc = "idle"
    PROVE  Place(r)
  BY DEF Place

LEMMA PlaceStart == PartInit => PlaceInv
<1> SUFFICES ASSUME PartInit PROVE PlaceInv
  OBVIOUS
<1>1. RowsInv
  BY NothingTyped DEF PartInit, RowsInv
<1>2. \A r \in Request : Place(r)
  BY NothingTyped, PlaceAtRest DEF PartInit
<1> QED BY <1>1, <1>2, TypedStart DEF PlaceInv

\* One row changes and still exists.
LEMMA RowsKept ==
    ASSUME RowsInv, NEW u \in User, \A v \in User \ {u} : part'[v] = part[v], part'[u].id # 0,
           part'[u].status = "AWAITING_INVESTMENT" => ~part'[u].validated
    PROVE  RowsInv'
  BY DEF RowsInv

LEMMA RestsAfter ==
    ASSUME Serial, Typed, NEW r \in Request, Done(r)
    PROVE  \A q \in Request : req'[q].pc = "idle" /\ Place(q)'
<1>1. req'[r].pc = "idle"
  BY RequestEnds, NothingTyped
<1> QED BY <1>1 DEF Serial, Place

LEMMA StaysAtRest ==
    ASSUME Serial, NEW r \in Request, req[r].pc = "idle", UNCHANGED req
    PROVE  \A q \in Request : req'[q].pc = "idle" /\ Place(q)'
  BY DEF Serial, Place

LEMMA StartsPlaced ==
    ASSUME Serial, PlaceInv, NEW r \in Request, NEW u \in User,
           StartCreate(r, u) \/ StartIncrease(r, u) \/ StartOptOut(r, u) \/ StartValidate(r, u)
    PROVE  PlaceInv'
<1>1. Typed /\ RowsInv
  BY DEF PlaceInv
<1>2. Typed' /\ Quiet
  BY <1>1, StartCreateShape, StartIncreaseShape, StartOptOutShape, StartValidateShape
<1>3. RowsInv'
  BY <1>1, <1>2 DEF RowsInv, Quiet
<1>4. Place(r)'
  <2>1. CASE StartCreate(r, u)
    BY <1>1, <1>2, <2>1, StartCreateShape DEF Place, Quiet
  <2>2. CASE StartIncrease(r, u)
    BY <1>1, <1>2, <2>2, StartIncreaseShape DEF Place, Quiet, Agreed, Current
  <2>3. CASE StartOptOut(r, u)
    BY <1>1, <1>2, <2>3, StartOptOutShape DEF Place, Quiet, Agreed, Current, Validated, RowsInv
  <2>4. CASE StartValidate(r, u)
    BY <1>1, <1>2, <2>4, StartValidateShape DEF Place, Quiet, Agreed, Current
  <2> QED BY <2>1, <2>2, <2>3, <2>4
<1> QED BY <1>2, <1>3, <1>4 DEF PlaceInv, Serial

\* Requests that do their one update and end.
LEMMA UpdatesPlaced ==
    ASSUME Serial, PlaceInv, NEW r \in Request, Create(r) \/ Increase(r) \/ Delete(r) \/ OptOut(r)
    PROVE  PlaceInv'
<1>1. Typed /\ RowsInv /\ Place(r)
  BY DEF PlaceInv
<1>2. Typed' /\ Done(r)
  BY <1>1, CreateShape, IncreaseShape, DeleteShape, OptOutShape
<1>3. RowsInv'
  <2>1. CASE Create(r)
    BY <1>1, <2>1, CreateShape, RowsKept DEF RowsInv
  <2>2. CASE Increase(r)
    <3>1. req[r].row.id # 0
      BY <1>1, <2>2, IncreaseShape DEF Place, Agreed, Current
    <3> QED BY <1>1, <2>2, <3>1, IncreaseShape, RowsKept DEF RowsInv
  <2>3. CASE Delete(r)
    BY <1>1, <2>3, DeleteShape, NothingTyped DEF RowsInv
  <2>4. CASE OptOut(r)
    BY <1>1, <2>4, OptOutShape DEF OnlyStatus, RowsInv, Place, Agreed, Current
  <2> QED BY <2>1, <2>2, <2>3, <2>4
<1> QED BY <1>1, <1>2, <1>3, RestsAfter DEF PlaceInv

LEMMA MatcherPlaced ==
    ASSUME Serial, PlaceInv, NEW r \in Request,
           StartMatch(r) \/ ReadDonations(r) \/ MatchOne(r) \/ BookMatch(r)
    PROVE  PlaceInv'
<1>1. Typed /\ RowsInv /\ Place(r)
  BY DEF PlaceInv
<1>2. CASE StartMatch(r)
  <2>1. Typed' /\ RowsInv'
    BY <1>1, <1>2, StartMatchShape DEF Quiet, RowsInv
  <2>2. \A t \in req'[r].todo : t.user \in User /\ t.row = part[t.user] /\ Waits(t)'
    BY <1>1, <1>2, StartMatchShape DEF Quiet, RowsInv, Waits
  <2>3. \A s, t \in req'[r].todo : s.user = t.user => s = t
    <3>1. req'[r].todo \in SUBSET [user : User, row : Row]
      BY <2>1, FieldsTyped DEF Typed, Requests, Local
    <3> QED BY <2>2, <3>1
  <2>4. Place(r)'
    BY <1>1, <1>2, <2>2, <2>3, StartMatchShape DEF Place
  <2> QED BY <2>1, <2>4 DEF PlaceInv, Serial
<1>3. CASE ReadDonations(r)
  <2>1. Typed' /\ RowsInv'
    BY <1>1, <1>3, ReadDonationsShape DEF Quiet, RowsInv
  <2>2. Place(r)'
    BY <1>1, <1>3, ReadDonationsShape DEF Place, Quiet, Waits
  <2> QED BY <2>1, <2>2 DEF PlaceInv, Serial
<1>4. CASE MatchOne(r)
  <2>1. CASE UNCHANGED part /\ Done(r)
    <3>1. Typed' /\ RowsInv'
      BY <1>1, <1>4, <2>1, MatchOneShape DEF RowsInv
    <3> QED BY <1>1, <2>1, <3>1, RestsAfter DEF PlaceInv
  <2>2. CASE UNCHANGED part /\ req'[r].pc = "match" /\ req'[r].todo \subseteq req[r].todo
    <3>1. Typed' /\ RowsInv' /\ req[r].pc = "match"
      BY <1>1, <1>4, <2>2, MatchOneShape DEF RowsInv
    <3>2. Place(r)'
      BY <1>1, <2>2, <3>1 DEF Place, Waits
    <3> QED BY <3>1, <3>2 DEF PlaceInv, Serial
  <2>3. CASE \E t, match : Matches(r, t, match)
    <3>1. PICK t, match : Matches(r, t, match)
      BY <2>3
    <3>2. Typed' /\ req[r].pc = "match"
      BY <1>1, <1>4, MatchOneShape
    <3>3. Waits(t) /\ t.user \in User /\ \A s \in req[r].todo : s.user = t.user => s = t
      BY <1>1, <3>1, <3>2 DEF Place, Matches
    <3>4. RowsInv'
      BY <1>1, <3>1, <3>3, RowsKept DEF Matches, Waits
    <3>5. \A s \in req[r].todo \ {t} : Waits(s)'
      <4> SUFFICES ASSUME NEW s \in req[r].todo \ {t} PROVE Waits(s)'
        OBVIOUS
      <4>1. Waits(s) /\ s.user \in User \ {t.user}
        BY <1>1, <3>2, <3>3, FieldsTyped DEF Place
      <4>2. part'[s.user] = part[s.user]
        BY <3>1, <4>1 DEF Matches
      <4> QED BY <4>1, <4>2 DEF Waits
    <3>6. Place(r)'
      BY <1>1, <3>1, <3>2, <3>3, <3>5 DEF Place, Matches, Waits, Current, Validated
    <3> QED BY <3>2, <3>4, <3>6 DEF PlaceInv, Serial
  <2> QED BY <1>1, <1>4, <2>1, <2>2, <2>3, MatchOneShape
<1>5. CASE BookMatch(r)
  <2>1. Typed' /\ RowsInv'
    BY <1>1, <1>5, BookMatchShape DEF RowsInv
  <2>2. Place(r)'
    <3>1. CASE Done(r)
      BY <1>1, <3>1, RestsAfter
    <3>2. CASE req'[r].pc = "match" /\ req'[r].todo = req[r].todo
      BY <1>1, <1>5, <3>2, BookMatchShape DEF Place, Waits
    <3> QED BY <1>1, <1>5, <3>1, <3>2, BookMatchShape
  <2> QED BY <2>1, <2>2 DEF PlaceInv, Serial
<1> QED BY <1>2, <1>3, <1>4, <1>5

LEMMA ValidationPlaced ==
    ASSUME Serial, PlaceInv, NEW r \in Request,
           Validate(r) \/ SumDeposits(r) \/ AppendDeposit(r) \/ ReadBaseline(r) \/ RaiseBaseline(r)
    PROVE  PlaceInv'
<1>1. Typed /\ RowsInv /\ Place(r)
  BY DEF PlaceInv
<1>2. CASE Validate(r)
  <2>1. CASE UNCHANGED part /\ Done(r)
    <3>1. Typed' /\ RowsInv'
      BY <1>1, <1>2, <2>1, ValidateShape DEF RowsInv
    <3> QED BY <1>1, <2>1, <3>1, RestsAfter DEF PlaceInv
  <2>2. CASE ~(UNCHANGED part /\ Done(r))
    <3>1. Typed'
      BY <1>1, <1>2, ValidateShape
    <3>2. Agreed(r)
      BY <1>1, <1>2, ValidateShape DEF Place
    <3>3. RowsInv'
      BY <1>1, <1>2, <2>2, <3>2, ValidateShape, RowsKept DEF Agreed, Current
    <3>4. Place(r)'
      BY <1>1, <1>2, <2>2, <3>2, ValidateShape DEF Place, Agreed, Current, Validated
    <3> QED BY <3>1, <3>3, <3>4 DEF PlaceInv, Serial
  <2> QED BY <2>1, <2>2
<1>3. CASE SumDeposits(r)
  <2>1. Typed' /\ RowsInv'
    BY <1>1, <1>3, SumDepositsShape DEF RowsInv, Quiet
  <2>2. Place(r)'
    <3>1. CASE Done(r)
      BY <1>1, <3>1, RestsAfter
    <3>2. CASE ~Done(r)
      BY <1>1, <1>3, <3>2, SumDepositsShape DEF Place, Quiet, Agreed, Current, Validated
    <3> QED BY <3>1, <3>2
  <2> QED BY <2>1, <2>2 DEF PlaceInv, Serial
<1>4. CASE AppendDeposit(r)
  <2>1. Typed' /\ RowsInv'
    BY <1>1, <1>4, AppendDepositShape DEF RowsInv
  <2>2. Place(r)'
    <3>1. CASE Done(r)
      BY <1>1, <3>1, RestsAfter
    <3>2. CASE ~Done(r)
      BY <1>1, <1>4, <3>2, AppendDepositShape DEF Place
    <3> QED BY <3>1, <3>2
  <2> QED BY <2>1, <2>2 DEF PlaceInv, Serial
<1>5. CASE ReadBaseline(r)
  <2>1. Typed' /\ RowsInv'
    BY <1>1, <1>5, ReadBaselineShape DEF RowsInv, Quiet
  <2>2. Place(r)'
    <3>1. CASE Done(r)
      BY <1>1, <3>1, RestsAfter
    <3>2. CASE ~Done(r)
      BY <1>1, <1>5, <3>2, ReadBaselineShape DEF Place
    <3> QED BY <3>1, <3>2
  <2> QED BY <2>1, <2>2 DEF PlaceInv, Serial
<1>6. CASE RaiseBaseline(r)
  <2>1. Typed' /\ RowsInv' /\ Done(r)
    BY <1>1, <1>6, RaiseBaselineShape DEF RowsInv
  <2> QED BY <1>1, <2>1, RestsAfter DEF PlaceInv
<1> QED BY <1>2, <1>3, <1>4, <1>5, <1>6

\* A refund or an opt-out changes a status; what requests have read stays true.
LEMMA RefundPlaced ==
    ASSUME PlaceInv, NEW u \in User, Refund(u)
    PROVE  PlaceInv'
<1>1. Typed /\ RowsInv /\ Typed' /\ OnlyStatus /\ UNCHANGED <<cycle, req>>
  BY RefundShape DEF PlaceInv
<1>2. \A v \in User : /\ part'[v].id = part[v].id /\ part'[v].amount = part[v].amount
                      /\ part'[v].validated = part[v].validated
  BY <1>1 DEF OnlyStatus
<1>3. RowsInv'
  BY <1>1 DEF RowsInv, OnlyStatus
<1>4. ASSUME NEW r \in Request PROVE Place(r)'
  <2>1. \A t \in req[r].todo : t.user \in User
    BY <1>1, FieldsTyped
  <2>2. req[r].pc \in About => req[r].user \in User
    BY <1>1, FieldsTyped
  <2>3. Place(r) /\ req'[r] = req[r]
    BY <1>1 DEF PlaceInv
  <2> QED BY <1>1, <1>2, <2>1, <2>2, <2>3 DEF Place, Agreed, Current, Validated, Waits, About, PartPC
<1> QED BY <1>1, <1>3, <1>4 DEF PlaceInv

LEMMA OthersPlaced ==
    ASSUME Serial, PlaceInv,
           \/ UNCHANGED partVars
           \/ \E r \in Request : EndMatch(r) \/ CutShort(r) \/ OpenCycle(r)
           \/ \E r \in Request, u \in AdminAdds : AddToOpenCycle(r, u)
           \/ \E d \in Donation : Arrive(d)
    PROVE  PlaceInv'
<1>1. Typed /\ RowsInv
  BY DEF PlaceInv
<1>2. CASE UNCHANGED partVars
  BY <1>2 DEF partVars, PlaceInv, Typed, Tables, Requests, RowsInv, Place, Agreed, Current, Validated, Waits
<1>3. CASE \E r \in Request : EndMatch(r) \/ CutShort(r)
  <2>1. PICK r \in Request : EndMatch(r) \/ CutShort(r)
    BY <1>3
  <2>2. Typed' /\ RowsInv' /\ Done(r)
    BY <1>1, <2>1, EndShape DEF RowsInv, Quiet
  <2> QED BY <1>1, <2>2, RestsAfter DEF PlaceInv
<1>4. CASE \E r \in Request : OpenCycle(r)
  <2>1. PICK r \in Request : OpenCycle(r)
    BY <1>4
  <2>2. Typed' /\ RowsInv' /\ req[r].pc = "idle" /\ UNCHANGED req
    BY <1>1, <2>1, OpenCycleShape, NothingTyped DEF RowsInv
  <2> QED BY <2>2, StaysAtRest DEF PlaceInv
<1>5. CASE \E r \in Request, u \in AdminAdds : AddToOpenCycle(r, u)
  <2>1. PICK r \in Request, u \in AdminAdds : AddToOpenCycle(r, u)
    BY <1>5
  <2>2. u \in User
    BY ParticipationAssumption
  <2>3. Typed' /\ RowsInv' /\ req[r].pc = "idle" /\ UNCHANGED req
    BY <1>1, <2>1, <2>2, AddToOpenCycleShape, RowsKept
  <2> QED BY <2>3, StaysAtRest DEF PlaceInv
<1>6. CASE \E d \in Donation : Arrive(d)
  <2>1. Typed' /\ UNCHANGED <<cycle, part, req>>
    BY <1>1, <1>6, ArriveShape
  <2> QED BY <2>1 DEF PlaceInv, RowsInv, Place, Agreed, Current, Validated, Waits
<1> QED BY <1>2, <1>3, <1>4, <1>5, <1>6

LEMMA PlaceStep == ASSUME Serial PROVE PlaceInv /\ [PartNext]_partVars => PlaceInv'
  BY StartsPlaced, UpdatesPlaced, MatcherPlaced, ValidationPlaced, RefundPlaced, OthersPlaced DEF PartNext

LEMMA PlaceAlways == ASSUME Serial PROVE PartSpec => []PlaceInv
<1>1. PlaceInv /\ [PartNext]_partVars => PlaceInv'
  BY PlaceStep
<1> QED BY <1>1, PlaceStart, PTL DEF PartSpec

--------------------------------------------------------------------------------
(* The baseline                                                            *)

\* Admins validate what the admin page offers to validate.
AsOffered == Validatable \subseteq {"AWAITING_INVESTMENT"}

\* What backs the baseline.
Valid == {u \in User : part[u].validated}
Backing == Total(Amounts, Valid)

\* What a validation will add to the baseline is not counted there yet.
Adds(r) ==
    cycle = "OPEN" =>
        /\ req[r].pc = "validate" => ~Validated(r)
        /\ req[r].pc = "sum" => baseline + req[r].row.amount <= Backing
        /\ req[r].pc \in {"append", "cycle"} => baseline + req[r].isk <= Backing
        /\ req[r].pc = "raise" => req[r].isk <= Backing

BaselineInv == (cycle = "OPEN" => baseline <= Backing) /\ \A r \in Request : Adds(r)

LEMMA BackingTyped == ASSUME Typed PROVE Backing \in Nat
<1>1. Valid \in SUBSET User
  BY DEF Valid
<1> QED BY <1>1, AmountsTyped DEF Backing, TotalOf, Amounts

LEMMA NumbersTyped ==
    ASSUME Typed, NEW r \in Request
    PROVE  /\ baseline \in Nat /\ Backing \in Nat /\ req[r].isk \in Nat /\ req[r].row.amount \in Nat
           /\ \A u \in User : booked[u] \in Nat /\ part[u].amount \in Nat
<1>1. req[r].isk \in Nat /\ req[r].row.amount \in Nat
  BY FieldsTyped DEF Row
<1>2. \A u \in User : booked[u] \in Nat /\ part[u].amount \in Nat
  BY RowFields DEF Typed, Tables
<1> QED BY <1>1, <1>2, BackingTyped DEF Typed, Tables

\* A larger set of users, with the same amounts.
LEMMA TotalGrows ==
    ASSUME Typed, Typed', NEW S \in SUBSET User, NEW T \in SUBSET User, S \subseteq T,
           \A u \in S : part'[u].amount = part[u].amount
    PROVE  Total(Amounts, S) <= Total(Amounts', T)
<1>1. \A u \in User : Amounts[u] = part[u].amount /\ Amounts'[u] = part'[u].amount
  BY DEF Amounts
<1>2. \A u \in S : Amounts[u] = Amounts'[u]
  BY <1>1
<1>3. Total(Amounts, S) = Total(Amounts', S)
  BY <1>2, TotalSame
<1>4. IsFiniteSet(T)
  BY ParticipationAssumption, FS_Subset
<1>5. \A u \in User : part'[u].amount \in Nat
  BY DEF Typed, Tables, Row
<1>6. \A u \in T : Amounts'[u] \in Nat
  BY <1>1, <1>5
<1>7. Total(Amounts', S) <= Total(Amounts', T)
  BY <1>4, <1>6, TotalSubset
<1> QED BY <1>3, <1>7

\* Whose investment is validated keeps it.
ValidStay == \A u \in Valid : part'[u].validated /\ part'[u].amount = part[u].amount

LEMMA BackingGrows ==
    ASSUME Typed, Typed', ValidStay
    PROVE  Backing <= Backing' /\ Backing \in Nat /\ Backing' \in Nat
<1>1. Valid \in SUBSET User /\ Valid' \in SUBSET User /\ Valid \subseteq Valid'
  BY DEF Valid, ValidStay
<1>2. Total(Amounts, Valid) <= Total(Amounts', Valid')
  BY <1>1, TotalGrows DEF ValidStay
<1>3. Backing \in Nat
  BY BackingTyped
<1>4. Backing' \in Nat
  <2>1. Valid' \in SUBSET User
    BY DEF Valid
  <2>2. IsFiniteSet(Valid')
    BY <2>1, ParticipationAssumption, FS_Subset
  <2>3. \A u \in User : Amounts'[u] \in Nat
    BY DEF Typed, Tables, Row, Amounts
  <2> QED BY <2>1, <2>2, <2>3, UnitsFinite DEF Backing
<1> QED BY <1>2, <1>3, <1>4 DEF Backing

\* One more is validated.
LEMMA BackingGains ==
    ASSUME Typed, Typed', ValidStay, NEW u \in User, u \notin Valid, part'[u].validated
    PROVE  Backing + part'[u].amount <= Backing'
<1> DEFINE T == Valid' \ {u}
<1>1. Valid \in SUBSET User /\ T \in SUBSET User /\ Valid \subseteq T /\ u \in Valid'
  BY DEF Valid, ValidStay
<1>2. Total(Amounts, Valid) <= Total(Amounts', T)
  BY <1>1, TotalGrows DEF ValidStay
<1>3. Valid' \in SUBSET User /\ \A v \in User : Amounts'[v] = part'[v].amount /\ Amounts'[v] \in Nat
  BY DEF Typed, Tables, Row, Amounts, Valid
<1>4. IsFiniteSet(Valid')
  BY <1>3, ParticipationAssumption, FS_Subset
<1>5. Total(Amounts', Valid') = Total(Amounts', T) + Amounts'[u] /\ Total(Amounts', T) \in Nat
  BY <1>1, <1>3, <1>4, TotalSplit
<1>6. Backing \in Nat
  BY BackingTyped
<1> QED BY <1>2, <1>3, <1>5, <1>6 DEF Backing

\* In an Open Cycle no request takes back a validation or changes its amount.
LEMMA OpenKeepsValid ==
    ASSUME Serial, PlaceInv, cycle = "OPEN", [PartNext]_partVars
    PROVE  ValidStay
<1>1. Typed /\ RowsInv /\ \A r \in Request : Place(r)
  BY DEF PlaceInv
<1>2. CASE UNCHANGED part
  BY <1>2 DEF ValidStay, Valid
<1>3. CASE \E u \in User : ~part[u].validated /\ \A v \in User \ {u} : part'[v] = part[v]
  BY <1>3 DEF ValidStay, Valid
<1>4. ASSUME NEW r \in Request, Create(r) \/ Increase(r) \/ Delete(r) \/ OptOut(r) PROVE FALSE
  BY <1>1, <1>4, CreateShape, IncreaseShape, DeleteShape, OptOutShape DEF Place
<1>5. ASSUME NEW r \in Request, MatchOne(r) PROVE ValidStay
  <2>1. CASE UNCHANGED part
    BY <1>2, <2>1
  <2>2. CASE \E t, match : Matches(r, t, match)
    <3>1. PICK t, match : Matches(r, t, match)
      BY <2>2
    <3>2. Waits(t) /\ t.user \in User
      BY <1>1, <1>5, <3>1, MatchOneShape DEF Place, Matches
    <3> QED BY <1>3, <3>1, <3>2 DEF Matches, Waits
  <2> QED BY <1>1, <1>5, <2>1, <2>2, MatchOneShape
<1>6. ASSUME NEW r \in Request, Validate(r) PROVE ValidStay
  BY <1>1, <1>6, ValidateShape DEF ValidStay, Valid
<1>7. ASSUME NEW u \in User, Refund(u) PROVE ValidStay
  BY <1>1, <1>7, RefundShape DEF OnlyStatus, ValidStay, Valid
<1>8. ASSUME NEW r \in Request, NEW u \in AdminAdds, AddToOpenCycle(r, u) PROVE ValidStay
  <2>1. u \in User /\ part[u] = NoRow /\ \A v \in User \ {u} : part'[v] = part[v]
    BY <1>1, <1>8, AddToOpenCycleShape, ParticipationAssumption DEF RowsInv
  <2> QED BY <1>3, <2>1, NothingTyped
<1>9. ASSUME NEW r \in Request, OpenCycle(r) PROVE FALSE
  BY <1>1, <1>9, OpenCycleShape
<1>10. ASSUME NEW r \in Request, NEW u \in User,
              StartCreate(r, u) \/ StartIncrease(r, u) \/ StartOptOut(r, u) \/ StartValidate(r, u)
       PROVE  UNCHANGED part
  BY <1>1, <1>10, StartCreateShape, StartIncreaseShape, StartOptOutShape, StartValidateShape DEF Quiet
<1>11. ASSUME NEW r \in Request,
              \/ StartMatch(r) \/ ReadDonations(r) \/ BookMatch(r) \/ EndMatch(r) \/ CutShort(r)
              \/ SumDeposits(r) \/ AppendDeposit(r) \/ ReadBaseline(r) \/ RaiseBaseline(r)
       PROVE  UNCHANGED part
  BY <1>1, <1>11, StartMatchShape, ReadDonationsShape, BookMatchShape, EndShape, SumDepositsShape,
     AppendDepositShape, ReadBaselineShape, RaiseBaselineShape DEF Quiet
<1>12. ASSUME NEW d \in Donation, Arrive(d) PROVE UNCHANGED part
  BY <1>1, <1>12, ArriveShape
<1>13. ASSUME UNCHANGED partVars PROVE UNCHANGED part
  BY <1>13 DEF partVars
<1> QED
  BY <1>2, <1>4, <1>5, <1>6, <1>7, <1>8, <1>9, <1>10, <1>11, <1>12, <1>13 DEF PartNext

\* Where a request will not touch the baseline.
LEMMA AddsNothing ==
    ASSUME Serial, NEW r \in Request, req'[r].pc \notin {"validate", "sum", "append", "cycle", "raise"},
           cycle' = "OPEN" => baseline' <= Backing'
    PROVE  BaselineInv'
  BY DEF BaselineInv, Adds, Serial

LEMMA DoneAddsNothing ==
    ASSUME Serial, Typed, NEW r \in Request, Done(r), cycle' = "OPEN" => baseline' <= Backing'
    PROVE  BaselineInv'
<1>1. req'[r].pc = "idle"
  BY RequestEnds, NothingTyped
<1> QED BY <1>1, AddsNothing

LEMMA OpeningBacked ==
    ASSUME Serial, PlaceInv, NEW r \in Request, OpenCycle(r)
    PROVE  BaselineInv'
<1>1. Typed /\ Typed'
  BY OpenCycleShape DEF PlaceInv
<1>2. /\ \A u \in User \ Gone : part'[u] = part[u]
      /\ baseline' = Total(Amounts, Counting) /\ req'[r].pc = "idle"
  BY <1>1, OpenCycleShape DEF TotalOf, Amounts
<1>3. Counting \subseteq User \ Gone
  BY DEF Counting, Gone
<1>4. Counting \in SUBSET User /\ Valid' \in SUBSET User /\ Counting \subseteq Valid'
  BY <1>2, <1>3 DEF Counting, Valid
<1>5. Total(Amounts, Counting) <= Total(Amounts', Valid')
  BY <1>1, <1>2, <1>3, <1>4, TotalGrows
<1>6. baseline' <= Backing'
  BY <1>2, <1>5 DEF Backing
<1> QED BY <1>2, <1>6, AddsNothing

\* What is left of a step in an Open Cycle that leaves the baseline.
LEMMA StillBacked ==
    ASSUME Serial, PlaceInv, BaselineInv, cycle = "OPEN", [PartNext]_partVars, UNCHANGED baseline
    PROVE  /\ baseline' <= Backing' /\ Backing <= Backing'
           /\ baseline \in Nat /\ Backing \in Nat /\ Backing' \in Nat
<1>1. Typed /\ Typed' /\ ValidStay
  BY TypedStep, OpenKeepsValid DEF PlaceInv
<1>2. Backing <= Backing' /\ Backing \in Nat /\ Backing' \in Nat
  BY <1>1, BackingGrows
<1>3. baseline \in Nat /\ baseline <= Backing
  BY <1>1 DEF Typed, Tables, BaselineInv
<1> QED BY <1>2, <1>3

LEMMA StartValidateBacked ==
    ASSUME Serial, AsOffered, PlaceInv, BaselineInv, cycle = "OPEN", NEW r \in Request, NEW u \in User,
           StartValidate(r, u), [PartNext]_partVars
    PROVE  BaselineInv'
<1>1. Typed /\ RowsInv
  BY DEF PlaceInv
<1>2. /\ part' = part /\ baseline' = baseline /\ req'[r].pc = "validate" /\ req'[r].user = u
      /\ part[u].status \in Validatable
  BY <1>1, StartValidateShape DEF Quiet
<1>3. ~part[u].validated
  BY <1>1, <1>2 DEF AsOffered, RowsInv
<1>4. ~Validated(r)'
  BY <1>2, <1>3 DEF Validated
<1>5. baseline' <= Backing'
  BY <1>2, StillBacked
<1> QED BY <1>2, <1>4, <1>5 DEF BaselineInv, Adds, Serial

LEMMA ValidateBacked ==
    ASSUME Serial, PlaceInv, BaselineInv, cycle = "OPEN", NEW r \in Request, Validate(r), [PartNext]_partVars
    PROVE  BaselineInv'
<1>1. Typed /\ Typed' /\ ValidStay /\ Adds(r) /\ baseline' = baseline
  BY TypedStep, OpenKeepsValid, ValidateShape DEF PlaceInv, BaselineInv
<1>2. baseline' <= Backing'
  BY <1>1, StillBacked
<1>3. CASE Done(r)
  BY <1>1, <1>2, <1>3, DoneAddsNothing
<1>4. CASE ~Done(r)
  <2>1. PICK u \in User :
            /\ u = req[r].user /\ part'[u].validated /\ part'[u].amount = part[u].amount
            /\ req'[r].pc = "sum" /\ req'[r].user = u /\ req'[r].row = part'[u]
    BY <1>1, <1>4, ValidateShape
  <2>2. u \notin Valid
    BY <1>1, <2>1, ValidateShape DEF Adds, Validated, Valid
  <2>3. Backing + part'[u].amount <= Backing'
    BY <1>1, <2>1, <2>2, BackingGains
  <2>4. /\ baseline \in Nat /\ Backing \in Nat /\ baseline <= Backing
        /\ part'[u].amount \in Nat /\ Backing' \in Nat
    BY <1>1, <2>1, NumbersTyped, BackingGrows DEF BaselineInv
  <2>5. baseline' + req'[r].row.amount <= Backing'
    <3>1. baseline' = baseline /\ req'[r].row.amount = part'[u].amount
      BY <1>1, <2>1
    <3> QED BY <2>3, <2>4, <3>1
  <2> QED BY <1>2, <2>1, <2>5 DEF BaselineInv, Adds, Serial
<1> QED BY <1>3, <1>4

LEMMA DepositBacked ==
    ASSUME Serial, PlaceInv, BaselineInv, cycle = "OPEN", NEW r \in Request,
           SumDeposits(r) \/ AppendDeposit(r) \/ ReadBaseline(r), [PartNext]_partVars
    PROVE  BaselineInv'
<1>1. Typed /\ Adds(r) /\ baseline' = baseline
  BY SumDepositsShape, AppendDepositShape, ReadBaselineShape DEF PlaceInv, BaselineInv, Quiet
<1>2. /\ baseline' <= Backing' /\ Backing <= Backing'
      /\ baseline \in Nat /\ Backing \in Nat /\ Backing' \in Nat
  BY <1>1, StillBacked
<1>3. req[r].isk \in Nat /\ req[r].row.amount \in Nat /\ \A u \in User : booked[u] \in Nat
  BY <1>1, NumbersTyped
<1>4. CASE Done(r)
  BY <1>1, <1>2, <1>4, DoneAddsNothing
<1>5. CASE ~Done(r) /\ SumDeposits(r)
  <2>1. PICK paid \in Nat : /\ req[r].row.amount > paid /\ req[r].pc = "sum"
                            /\ req'[r].pc = "append" /\ req'[r].isk = req[r].row.amount - paid
    <3>1. req[r].pc = "sum"
      BY <1>1, <1>5, SumDepositsShape
    <3>2. req[r].user \in User
      BY <1>1, <3>1, FieldsTyped DEF About, PartPC
    <3> DEFINE paid == IF Same(r) THEN booked[req[r].user] ELSE 0
    <3>3. paid \in Nat
      BY <1>3, <3>2
    <3>4. req[r].row.amount > paid /\ req'[r].pc = "append" /\ req'[r].isk = req[r].row.amount - paid
      BY <1>1, <1>5, SumDepositsShape
    <3> HIDE DEF paid
    <3> QED BY <3>1, <3>3, <3>4
  <2>2. baseline + req[r].row.amount <= Backing
    BY <1>1, <2>1 DEF Adds
  <2>3. baseline + req'[r].isk <= Backing'
    BY <1>2, <1>3, <2>1, <2>2
  <2> QED BY <1>1, <1>2, <2>1, <2>3 DEF BaselineInv, Adds, Serial
<1>6. CASE ~Done(r) /\ AppendDeposit(r)
  <2>1. req[r].pc = "append" /\ req'[r].pc = "cycle" /\ req'[r].isk = req[r].isk
    BY <1>1, <1>6, AppendDepositShape
  <2>2. baseline + req'[r].isk <= Backing'
    BY <1>1, <1>2, <1>3, <2>1 DEF Adds
  <2> QED BY <1>1, <1>2, <2>1, <2>2 DEF BaselineInv, Adds, Serial
<1>7. CASE ~Done(r) /\ ReadBaseline(r)
  <2>1. req[r].pc = "cycle" /\ req'[r].pc = "raise" /\ req'[r].isk = baseline + req[r].isk
    BY <1>1, <1>7, ReadBaselineShape
  <2>2. req'[r].isk <= Backing'
    BY <1>1, <1>2, <1>3, <2>1 DEF Adds
  <2> QED BY <1>1, <1>2, <2>1, <2>2 DEF BaselineInv, Adds, Serial
<1> QED BY <1>4, <1>5, <1>6, <1>7

LEMMA RaiseBacked ==
    ASSUME Serial, PlaceInv, BaselineInv, cycle = "OPEN", NEW r \in Request, RaiseBaseline(r)
    PROVE  BaselineInv'
<1>1. Typed /\ Adds(r)
  BY DEF PlaceInv, BaselineInv
<1>2. Done(r) /\ req[r].pc = "raise" /\ baseline' = req[r].isk /\ UNCHANGED part
  BY <1>1, RaiseBaselineShape
<1>3. Backing' = Backing /\ req[r].isk <= Backing
  BY <1>1, <1>2 DEF Backing, Amounts, Valid, Adds
<1> QED BY <1>1, <1>2, <1>3, DoneAddsNothing

LEMMA AddToOpenCycleBacked ==
    ASSUME Serial, PlaceInv, BaselineInv, NEW r \in Request, NEW u \in AdminAdds, AddToOpenCycle(r, u),
           [PartNext]_partVars
    PROVE  BaselineInv'
<1>1. Typed /\ RowsInv /\ u \in User
  BY ParticipationAssumption DEF PlaceInv
<1>2. cycle = "OPEN" /\ req[r].pc = "idle" /\ UNCHANGED req /\ part[u] = NoRow
  BY <1>1, AddToOpenCycleShape DEF RowsInv
<1>3. Typed' /\ ValidStay
  BY <1>1, <1>2, TypedStep, OpenKeepsValid
<1>4. CASE UNCHANGED baseline
  BY <1>2, <1>4, StillBacked, AddsNothing
<1>5. CASE part'[u].validated /\ baseline' = baseline + part'[u].amount
  <2>1. u \notin Valid
    BY <1>2, NothingTyped DEF Valid
  <2>2. Backing + part'[u].amount <= Backing'
    BY <1>1, <1>3, <1>5, <2>1, BackingGains
  <2>3. /\ baseline \in Nat /\ Backing \in Nat /\ baseline <= Backing
        /\ part'[u].amount \in Nat /\ Backing' \in Nat
    BY <1>1, <1>2, <1>3, AddToOpenCycleShape, BackingTyped, BackingGrows DEF Typed, Tables, BaselineInv
  <2>4. baseline' <= Backing'
    BY <1>5, <2>2, <2>3
  <2> QED BY <1>2, <2>4, AddsNothing
<1> QED BY <1>1, <1>4, <1>5, AddToOpenCycleShape

\* Steps that leave the baseline and come to a place where it does not matter.
LEMMA OthersBacked ==
    ASSUME Serial, PlaceInv, BaselineInv, cycle = "OPEN", NEW r \in Request, [PartNext]_partVars,
           \/ \E u \in User : StartCreate(r, u) \/ StartIncrease(r, u) \/ StartOptOut(r, u)
           \/ Create(r) \/ Increase(r) \/ Delete(r) \/ OptOut(r)
           \/ StartMatch(r) \/ ReadDonations(r) \/ MatchOne(r) \/ BookMatch(r) \/ EndMatch(r) \/ CutShort(r)
    PROVE  BaselineInv'
<1>1. Typed
  BY DEF PlaceInv
<1>2. CASE \E u \in User : StartCreate(r, u) \/ StartIncrease(r, u) \/ StartOptOut(r, u)
  <2>1. baseline' = baseline /\ req'[r].pc \in {"create", "increase", "delete", "optOut"}
    BY <1>1, <1>2, StartCreateShape, StartIncreaseShape, StartOptOutShape DEF Quiet
  <2> QED BY <2>1, StillBacked, AddsNothing
<1>3. CASE Create(r) \/ Increase(r) \/ Delete(r) \/ OptOut(r) \/ EndMatch(r) \/ CutShort(r)
  <2>1. baseline' = baseline /\ Done(r)
    BY <1>1, <1>3, CreateShape, IncreaseShape, DeleteShape, OptOutShape, EndShape DEF Quiet
  <2> QED BY <1>1, <2>1, StillBacked, DoneAddsNothing
<1>4. CASE StartMatch(r) \/ ReadDonations(r)
  <2>1. baseline' = baseline /\ req'[r].pc \in {"donations", "match"}
    BY <1>1, <1>4, StartMatchShape, ReadDonationsShape DEF Quiet
  <2> QED BY <2>1, StillBacked, AddsNothing
<1>5. CASE MatchOne(r) \/ BookMatch(r)
  <2>1. baseline' = baseline /\ (Done(r) \/ req'[r].pc \in {"match", "bookMatch"})
    BY <1>1, <1>5, MatchOneShape, BookMatchShape DEF Matches
  <2> QED BY <1>1, <2>1, StillBacked, AddsNothing, DoneAddsNothing
<1> QED BY <1>2, <1>3, <1>4, <1>5

\* Refunds, donations and stuttering: no request moves.
LEMMA QuietBacked ==
    ASSUME Serial, PlaceInv, BaselineInv, cycle = "OPEN", [PartNext]_partVars,
           UNCHANGED <<cycle, baseline, req>>,
           \A u \in User : part'[u].validated = part[u].validated
    PROVE  BaselineInv'
<1>1. Typed /\ ValidStay
  BY OpenKeepsValid DEF PlaceInv
<1>2. /\ baseline' <= Backing' /\ Backing <= Backing'
      /\ baseline \in Nat /\ Backing \in Nat /\ Backing' \in Nat
  BY StillBacked
<1>3. ASSUME NEW r \in Request, req[r].pc # "validate" PROVE Adds(r)'
  <2>1. Adds(r) /\ req[r].isk \in Nat /\ req[r].row.amount \in Nat
    BY <1>1, NumbersTyped DEF BaselineInv
  <2> QED BY <1>2, <1>3, <2>1 DEF Adds
<1>4. ASSUME NEW r \in Request, req[r].pc = "validate" PROVE Adds(r)'
  <2>1. req[r].user \in User /\ Adds(r)
    BY <1>1, <1>4, FieldsTyped DEF BaselineInv, About, PartPC
  <2> QED BY <1>4, <2>1 DEF Adds, Validated
<1> QED BY <1>2, <1>3, <1>4 DEF BaselineInv

LEMMA BaselineStep ==
    ASSUME Serial, AsOffered, PlaceInv, BaselineInv, [PartNext]_partVars
    PROVE  BaselineInv'
<1>1. Typed
  BY DEF PlaceInv
<1>2. CASE \E r \in Request : OpenCycle(r)
  BY <1>2, OpeningBacked
<1>3. CASE cycle = "PLANNED" /\ ~\E r \in Request : OpenCycle(r)
  <2>1. cycle' = cycle
    <3>1. ASSUME NEW r \in Request, NEW u \in User,
                 StartCreate(r, u) \/ StartIncrease(r, u) \/ StartOptOut(r, u) \/ StartValidate(r, u)
          PROVE  cycle' = cycle
      BY <3>1 DEF StartCreate, StartIncrease, StartOptOut, StartValidate
    <3>2. ASSUME NEW r \in Request, NEW u \in AdminAdds, AddToOpenCycle(r, u) PROVE cycle' = cycle
      BY <3>2 DEF AddToOpenCycle
    <3>3. ASSUME NEW r \in Request,
                 \/ Create(r) \/ Increase(r) \/ Delete(r) \/ OptOut(r)
                 \/ StartMatch(r) \/ ReadDonations(r) \/ MatchOne(r) \/ BookMatch(r) \/ EndMatch(r)
                 \/ Validate(r) \/ SumDeposits(r) \/ AppendDeposit(r) \/ ReadBaseline(r)
                 \/ RaiseBaseline(r) \/ CutShort(r)
          PROVE  cycle' = cycle
      BY <3>3 DEF Create, Increase, Delete, OptOut, StartMatch, ReadDonations, MatchOne, BookMatch, EndMatch,
         Validate, SumDeposits, AppendDeposit, ReadBaseline, RaiseBaseline, CutShort
    <3>4. ASSUME NEW u \in User, Refund(u) PROVE cycle' = cycle
      BY <3>4 DEF Refund
    <3>5. ASSUME NEW d \in Donation, Arrive(d) PROVE cycle' = cycle
      BY <3>5 DEF Arrive
    <3>6. ASSUME UNCHANGED partVars PROVE cycle' = cycle
      BY <3>6 DEF partVars
    <3> QED BY <1>3, <3>1, <3>2, <3>3, <3>4, <3>5, <3>6 DEF PartNext
  <2> QED BY <1>3, <2>1 DEF BaselineInv, Adds
<1>4. CASE cycle = "OPEN"
  <2>1. ASSUME NEW r \in Request, NEW u \in User,
               StartCreate(r, u) \/ StartIncrease(r, u) \/ StartOptOut(r, u) \/ StartValidate(r, u)
        PROVE  BaselineInv'
    BY <1>4, <2>1, OthersBacked, StartValidateBacked
  <2>2. ASSUME NEW r \in Request, NEW u \in AdminAdds, AddToOpenCycle(r, u) PROVE BaselineInv'
    BY <2>2, AddToOpenCycleBacked
  <2>3. ASSUME NEW r \in Request,
               \/ Create(r) \/ Increase(r) \/ Delete(r) \/ OptOut(r)
               \/ StartMatch(r) \/ ReadDonations(r) \/ MatchOne(r) \/ BookMatch(r) \/ EndMatch(r)
               \/ Validate(r) \/ SumDeposits(r) \/ AppendDeposit(r) \/ ReadBaseline(r) \/ RaiseBaseline(r)
               \/ OpenCycle(r) \/ CutShort(r)
        PROVE  BaselineInv'
    BY <1>2, <1>4, <2>3, OthersBacked, ValidateBacked, DepositBacked, RaiseBacked
  <2>4. ASSUME NEW u \in User, Refund(u) PROVE BaselineInv'
    <3>1. UNCHANGED <<cycle, baseline, req>> /\ \A v \in User : part'[v].validated = part[v].validated
      BY <1>1, <2>4, RefundShape DEF OnlyStatus
    <3> QED BY <1>4, <3>1, QuietBacked
  <2>5. ASSUME NEW d \in Donation, Arrive(d) PROVE BaselineInv'
    BY <1>1, <1>4, <2>5, ArriveShape, QuietBacked
  <2>6. ASSUME UNCHANGED partVars PROVE BaselineInv'
    BY <1>4, <2>6, QuietBacked DEF partVars
  <2> QED BY <2>1, <2>2, <2>3, <2>4, <2>5, <2>6 DEF PartNext
<1> QED BY <1>1, <1>2, <1>3, <1>4 DEF Typed, Tables

\* While requests do not overlap and admins validate the rows that await their
\* payment, the baseline of the Open Cycle counts validated investments only, and
\* each of them once (also a run).
THEOREM BaselineBacked == ASSUME Serial, AsOffered PROVE PartSpec => []BaselineIsBacked
<1>1. PartInit => BaselineInv
  BY NothingTyped DEF PartInit, BaselineInv, Adds
<1>2. PlaceInv /\ BaselineInv /\ [PartNext]_partVars => BaselineInv'
  BY BaselineStep
<1>3. BaselineInv => BaselineIsBacked
  BY DEF BaselineInv, Backing, Amounts, Valid, BaselineIsBacked, TotalOf
<1>4. PartSpec => []PlaceInv
  BY PlaceAlways
<1> QED BY <1>1, <1>2, <1>3, <1>4, PTL DEF PartSpec

--------------------------------------------------------------------------------
(* The ledger                                                              *)

\* Nothing is booked without a row, and no more than the amount, unless a payment
\* was matched although deposits were booked: then the matcher has set the amount
\* to what it found.
BookedInv ==
    \A u \in User :
        /\ part[u].id = 0 => booked[u] = 0
        /\ u \notin rematched => booked[u] <= part[u].amount

\* What a request will book is what is missing.
Pays(r) ==
    /\ req[r].pc = "bookMatch" => req[r].user \in rematched \/ booked[req[r].user] = 0
    /\ req[r].pc = "append" => booked[req[r].user] + req[r].isk = part[req[r].user].amount

LedgerInv == BookedInv /\ \A r \in Request : Pays(r)

LEMMA DonePays ==
    ASSUME Serial, Typed, NEW r \in Request, Done(r)
    PROVE  \A q \in Request : Pays(q)'
<1>1. req'[r].pc = "idle"
  BY RequestEnds, NothingTyped
<1> QED BY <1>1 DEF Serial, Pays

LEMMA PaysNothing ==
    ASSUME Serial, NEW r \in Request, req'[r].pc \notin {"bookMatch", "append"}
    PROVE  \A q \in Request : Pays(q)'
  BY DEF Serial, Pays

\* A match, seen from the ledger.
LEMMA MatchPays ==
    ASSUME Typed, LedgerInv, NEW r \in Request, NEW t, NEW match, Matches(r, t, match)
    PROVE  /\ t.user \in User /\ part[t.user].id = part'[t.user].id
           /\ Total(Isk, match) \in Nat
           /\ t.user \in rematched' \/ booked[t.user] = 0
           /\ rematched \subseteq rematched' /\ rematched' \subseteq rematched \cup {t.user}
<1>1. t.user \in User /\ match = Matched(t.user, t.row.amount, req[r].free)
  BY DEF Matches
<1>2. req[r].free \in SUBSET Donation
  BY FieldsTyped
<1>3. match \in SUBSET Donation
  BY <1>1, <1>2 DEF Matched
<1>4. rematched' = IF booked[t.user] = 0 THEN rematched ELSE rematched \cup {t.user}
  BY DEF Matches
<1>5. part[t.user].id = part'[t.user].id
  BY DEF Matches
<1> QED BY <1>1, <1>3, <1>4, <1>5, DonationsTyped

\* One row changes, or its entries.
LEMMA BookedKept ==
    ASSUME BookedInv, NEW u \in User, \A v \in User \ {u} : part'[v] = part[v] /\ booked'[v] = booked[v],
           \A v \in User \ {u} : v \in rematched => v \in rematched',
           part'[u].id = 0 => booked'[u] = 0,
           u \notin rematched' => booked'[u] <= part'[u].amount
    PROVE  BookedInv'
  BY DEF BookedInv

LEMMA UpdatesLedger ==
    ASSUME Serial, PlaceInv, LedgerInv, NEW r \in Request,
           Create(r) \/ Increase(r) \/ Delete(r) \/ OptOut(r)
    PROVE  LedgerInv'
<1>1. Typed /\ RowsInv /\ Place(r) /\ BookedInv /\ Pays(r)
  BY DEF PlaceInv, LedgerInv
<1>2. Done(r) /\ \A u \in User : booked[u] \in Nat /\ part[u].amount \in Nat
  BY <1>1, CreateShape, IncreaseShape, DeleteShape, OptOutShape, NumbersTyped
<1>3. \A q \in Request : Pays(q)'
  BY <1>1, <1>2, DonePays
<1>4. CASE Create(r)
  <2>1. Typed' /\ booked' = booked
    BY <1>1, <1>4, CreateShape
  <2>2. CASE UNCHANGED <<part, counted, rematched>>
    BY <1>1, <1>3, <2>1, <2>2 DEF BookedInv, LedgerInv
  <2>3. CASE ~UNCHANGED <<part, counted, rematched>>
    <3>1. PICK u \in User : /\ part[u].id = 0 /\ \A v \in User \ {u} : part'[v] = part[v]
                            /\ rematched' = rematched \ {u}
      BY <1>1, <1>4, <2>3, CreateShape
    <3>2. booked'[u] = 0 /\ part'[u].amount \in Nat
      BY <1>1, <2>1, <3>1 DEF BookedInv, Typed, Tables, Row
    <3>3. booked'[u] <= part'[u].amount
      BY <3>2
    <3> QED BY <1>1, <1>3, <2>1, <3>1, <3>2, <3>3, BookedKept DEF LedgerInv
  <2> QED BY <2>2, <2>3
<1>5. CASE Increase(r)
  <2>1. Typed' /\ booked' = booked /\ rematched' = rematched /\ req[r].pc = "increase"
    BY <1>1, <1>5, IncreaseShape
  <2>2. CASE UNCHANGED <<part, counted>>
    BY <1>1, <1>3, <2>1, <2>2 DEF BookedInv, LedgerInv
  <2>3. CASE ~UNCHANGED <<part, counted>>
    <3>1. PICK u \in User :
              /\ u = req[r].user /\ \A v \in User \ {u} : part'[v] = part[v]
              /\ part'[u].id = part[u].id /\ part'[u].amount = req[r].row.amount + More
      BY <1>1, <1>5, <2>3, IncreaseShape
    <3>2. part'[u].amount = part[u].amount + More /\ More \in Nat
      BY <1>1, <2>1, <3>1, ParticipationAssumption DEF Place, Agreed
    <3>3. u \notin rematched' => booked'[u] <= part'[u].amount
      BY <1>1, <1>2, <2>1, <3>2 DEF BookedInv
    <3>4. part'[u].id = 0 => booked'[u] = 0
      BY <1>1, <2>1, <3>1 DEF BookedInv
    <3> QED BY <1>1, <1>3, <2>1, <3>1, <3>3, <3>4, BookedKept DEF LedgerInv
  <2> QED BY <2>2, <2>3
<1>6. CASE Delete(r)
  <2>1. rematched' = rematched
    BY <1>1, <1>6, DeleteShape
  <2>2. CASE UNCHANGED <<part, booked>>
    BY <1>1, <1>3, <2>1, <2>2 DEF BookedInv, LedgerInv
  <2>3. CASE ~UNCHANGED <<part, booked>>
    <3>1. PICK u \in User :
              /\ \A v \in User \ {u} : part'[v] = part[v] /\ booked'[v] = booked[v]
              /\ part'[u] = NoRow /\ booked'[u] = 0
      BY <1>1, <1>6, <2>3, DeleteShape
    <3>2. booked'[u] <= part'[u].amount
      BY <3>1, NothingTyped
    <3> QED BY <1>1, <1>3, <2>1, <3>1, <3>2, BookedKept DEF LedgerInv
  <2> QED BY <2>2, <2>3
<1>7. CASE OptOut(r)
  <2>1. booked' = booked /\ rematched' = rematched /\ OnlyStatus
    BY <1>1, <1>7, OptOutShape DEF ledger, Place, Agreed, Current
  <2> QED BY <1>1, <1>3, <2>1 DEF OnlyStatus, BookedInv, LedgerInv
<1> QED BY <1>4, <1>5, <1>6, <1>7

LEMMA MatcherLedger ==
    ASSUME Serial, PlaceInv, LedgerInv, NEW r \in Request, MatchOne(r) \/ BookMatch(r)
    PROVE  LedgerInv'
<1>1. Typed /\ RowsInv /\ Place(r) /\ BookedInv /\ Pays(r)
  BY DEF PlaceInv, LedgerInv
<1>2. \A u \in User : booked[u] \in Nat /\ part[u].amount \in Nat
  BY <1>1, NumbersTyped
<1>3. CASE MatchOne(r)
  <2>1. booked' = booked /\ req[r].pc = "match"
    BY <1>1, <1>3, MatchOneShape
  <2>2. CASE UNCHANGED <<part, rematched>> /\ (Done(r) \/ req'[r].pc = "match")
    <3>1. \A q \in Request : Pays(q)'
      BY <1>1, <2>2, DonePays, PaysNothing
    <3> QED BY <1>1, <2>1, <2>2, <3>1 DEF BookedInv, LedgerInv
  <2>3. CASE \E t, match : Matches(r, t, match)
    <3>1. PICK t, match : Matches(r, t, match)
      BY <2>3
    <3> DEFINE u == t.user
    <3>2. /\ u \in User /\ part'[u].id = part[u].id
          /\ u \in rematched' \/ booked[u] = 0
          /\ rematched \subseteq rematched' /\ Total(Isk, match) \in Nat
      BY <1>1, <3>1, MatchPays DEF LedgerInv
    <3>3. /\ \A v \in User \ {u} : part'[v] = part[v]
          /\ part'[u].amount = Total(Isk, match)
          /\ req'[r].pc = "bookMatch" /\ req'[r].user = u
      BY <3>1 DEF Matches
    <3> HIDE DEF u
    <3>4. u \notin rematched' => booked'[u] <= part'[u].amount
      BY <2>1, <3>2, <3>3
    <3>5. BookedInv'
      BY <1>1, <2>1, <3>2, <3>3, <3>4, BookedKept DEF BookedInv
    <3>6. Pays(r)'
      BY <2>1, <3>2, <3>3 DEF Pays
    <3> QED BY <3>5, <3>6 DEF LedgerInv, Serial
  <2> QED BY <1>1, <1>3, <2>2, <2>3, MatchOneShape
<1>4. CASE BookMatch(r)
  <2>1. part' = part /\ rematched' = rematched /\ req[r].pc = "bookMatch"
    BY <1>1, <1>4, BookMatchShape
  <2>2. \A q \in Request : Pays(q)'
    BY <1>1, <1>4, BookMatchShape, DonePays, PaysNothing
  <2>3. CASE UNCHANGED <<booked, counted>>
    BY <1>1, <2>1, <2>2, <2>3 DEF BookedInv, LedgerInv
  <2>4. CASE ~UNCHANGED <<booked, counted>>
    <3>1. PICK u \in User : Books(r, u)
      BY <1>1, <1>4, <2>4, BookMatchShape
    <3>2. u = req[r].user /\ booked'[u] = booked[u] + req[r].isk /\ \A v \in User \ {u} : booked'[v] = booked[v]
      BY <3>1 DEF Books
    <3>3. /\ part[u].validated /\ part[u].amount = req[r].isk /\ part[u].id # 0
          /\ u \in rematched \/ booked[u] = 0
      BY <1>1, <2>1, <3>2 DEF Place, Pays, Validated, Current
    <3>4. u \notin rematched' => booked'[u] <= part'[u].amount
      BY <1>2, <2>1, <3>2, <3>3
    <3> QED BY <1>1, <2>1, <2>2, <3>2, <3>3, <3>4, BookedKept DEF LedgerInv
  <2> QED BY <2>3, <2>4
<1> QED BY <1>3, <1>4

LEMMA DepositLedger ==
    ASSUME Serial, PlaceInv, LedgerInv, NEW r \in Request,
           Validate(r) \/ SumDeposits(r) \/ AppendDeposit(r) \/ ReadBaseline(r) \/ RaiseBaseline(r)
    PROVE  LedgerInv'
<1>1. Typed /\ RowsInv /\ Place(r) /\ BookedInv /\ Pays(r)
  BY DEF PlaceInv, LedgerInv
<1>2. req[r].isk \in Nat /\ req[r].row.amount \in Nat /\ \A u \in User : booked[u] \in Nat /\ part[u].amount \in Nat
  BY <1>1, NumbersTyped
<1>3. CASE Validate(r)
  <2>1. booked' = booked /\ rematched' = rematched /\ \A q \in Request : Pays(q)'
    BY <1>1, <1>3, ValidateShape, DonePays, PaysNothing DEF ledger
  <2>2. CASE UNCHANGED part
    BY <1>1, <2>1, <2>2 DEF BookedInv, LedgerInv
  <2>3. CASE ~UNCHANGED part
    <3>1. PICK u \in User : /\ \A v \in User \ {u} : part'[v] = part[v]
                            /\ part'[u].id = part[u].id /\ part'[u].amount = part[u].amount
      BY <1>1, <1>3, <2>3, ValidateShape
    <3>2. /\ u \notin rematched' => booked'[u] <= part'[u].amount
          /\ part'[u].id = 0 => booked'[u] = 0
      BY <1>1, <2>1, <3>1 DEF BookedInv
    <3> QED BY <1>1, <2>1, <3>1, <3>2, BookedKept DEF LedgerInv
  <2> QED BY <2>2, <2>3
<1>4. CASE SumDeposits(r)
  <2>1. part' = part /\ booked' = booked /\ rematched' = rematched /\ req[r].pc = "sum"
    BY <1>1, <1>4, SumDepositsShape DEF Quiet, ledger
  <2>2. \A q \in Request : Pays(q)'
    <3>1. CASE Done(r)
      BY <1>1, <3>1, DonePays
    <3>2. CASE ~Done(r)
      <4>1. req[r].user \in User /\ Same(r) /\ req[r].row.amount = part[req[r].user].amount
        BY <1>1, <2>1, FieldsTyped DEF Place, Agreed, Current, Same, About, PartPC
      <4>2. /\ req'[r].pc = "append" /\ req'[r].user = req[r].user
            /\ req'[r].isk = req[r].row.amount - booked[req[r].user]
        BY <1>1, <1>4, <3>2, <4>1, SumDepositsShape
      <4>3. booked[req[r].user] + req'[r].isk = part[req[r].user].amount
        BY <1>2, <4>1, <4>2
      <4> QED BY <2>1, <4>2, <4>3 DEF Pays, Serial
    <3> QED BY <3>1, <3>2
  <2> QED BY <1>1, <2>1, <2>2 DEF BookedInv, LedgerInv
<1>5. CASE AppendDeposit(r)
  <2>1. part' = part /\ rematched' = rematched /\ req[r].pc = "append"
    BY <1>1, <1>5, AppendDepositShape
  <2>2. \A q \in Request : Pays(q)'
    BY <1>1, <1>5, AppendDepositShape, DonePays, PaysNothing
  <2>3. CASE UNCHANGED booked
    BY <1>1, <2>1, <2>2, <2>3 DEF BookedInv, LedgerInv
  <2>4. CASE ~UNCHANGED booked
    <3>1. PICK u \in User : Books(r, u)
      BY <1>1, <1>5, <2>4, AppendDepositShape
    <3>2. u = req[r].user /\ booked'[u] = booked[u] + req[r].isk /\ \A v \in User \ {u} : booked'[v] = booked[v]
      BY <3>1 DEF Books
    <3>3. part[u].id # 0 /\ booked[u] + req[r].isk = part[u].amount
      BY <1>1, <2>1, <3>2 DEF Place, Pays, Validated, Agreed, Current
    <3>4. booked'[u] <= part'[u].amount
      BY <1>2, <2>1, <3>2, <3>3
    <3> QED BY <1>1, <2>1, <2>2, <3>2, <3>3, <3>4, BookedKept DEF LedgerInv
  <2> QED BY <2>3, <2>4
<1>6. CASE ReadBaseline(r) \/ RaiseBaseline(r)
  <2>1. part' = part /\ booked' = booked /\ rematched' = rematched
    BY <1>1, <1>6, ReadBaselineShape, RaiseBaselineShape DEF Quiet, ledger
  <2>2. \A q \in Request : Pays(q)'
    BY <1>1, <1>6, ReadBaselineShape, RaiseBaselineShape, DonePays, PaysNothing
  <2> QED BY <1>1, <2>1, <2>2 DEF BookedInv, LedgerInv
<1> QED BY <1>3, <1>4, <1>5, <1>6

LEMMA AdminLedger ==
    ASSUME Serial, PlaceInv, LedgerInv, NEW r \in Request,
           OpenCycle(r) \/ \E u \in AdminAdds : AddToOpenCycle(r, u)
    PROVE  LedgerInv'
<1>1. Typed /\ RowsInv /\ BookedInv
  BY DEF PlaceInv, LedgerInv
<1>2. \A u \in User : booked[u] \in Nat /\ part[u].amount \in Nat
  BY <1>1, NumbersTyped
<1>3. req'[r].pc = "idle" /\ \A q \in Request : Pays(q)'
  <2>1. req'[r].pc = "idle"
    BY <1>1, OpenCycleShape, AddToOpenCycleShape, ParticipationAssumption
  <2> QED BY <2>1, PaysNothing
<1>4. CASE OpenCycle(r)
  <2>1. /\ rematched' = rematched
        /\ \A u \in Gone : part'[u] = NoRow /\ booked'[u] = 0
        /\ \A u \in User \ Gone : part'[u] = part[u] /\ booked'[u] = booked[u]
    BY <1>1, <1>4, OpenCycleShape
  <2> QED BY <1>1, <1>3, <2>1, NothingTyped DEF BookedInv, LedgerInv
<1>5. CASE \E u \in AdminAdds : AddToOpenCycle(r, u)
  <2>1. PICK u \in AdminAdds : AddToOpenCycle(r, u)
    BY <1>5
  <2>2. u \in User /\ part[u] = NoRow
    BY <1>1, <2>1, AddToOpenCycleShape, ParticipationAssumption DEF RowsInv
  <2>3. booked[u] = 0
    BY <1>1, <1>2, <2>2, NothingTyped DEF BookedInv
  <2>4. /\ \A v \in User \ {u} : part'[v] = part[v] /\ booked'[v] = booked[v]
        /\ part'[u].amount \in Nat /\ part'[u].id # 0 /\ rematched' = rematched \ {u}
    BY <1>1, <2>1, <2>2, AddToOpenCycleShape
  <2>5. booked'[u] \in {0, part'[u].amount}
    BY <1>1, <2>1, <2>2, <2>3, <2>4, AddToOpenCycleShape
  <2>6. booked'[u] <= part'[u].amount
    BY <2>4, <2>5
  <2> QED BY <1>1, <1>3, <2>2, <2>4, <2>5, <2>6, BookedKept DEF LedgerInv
<1> QED BY <1>4, <1>5

LEMMA OthersLedger ==
    ASSUME Serial, PlaceInv, LedgerInv,
           \/ UNCHANGED partVars
           \/ \E r \in Request, u \in User :
                 StartCreate(r, u) \/ StartIncrease(r, u) \/ StartOptOut(r, u) \/ StartValidate(r, u)
           \/ \E r \in Request : StartMatch(r) \/ ReadDonations(r) \/ EndMatch(r) \/ CutShort(r)
           \/ \E u \in User : Refund(u)
           \/ \E d \in Donation : Arrive(d)
    PROVE  LedgerInv'
<1>1. Typed /\ BookedInv
  BY DEF PlaceInv, LedgerInv
<1>2. CASE UNCHANGED partVars
  BY <1>2 DEF partVars, LedgerInv, BookedInv, Pays, Validated, ledger
<1>3. CASE \E r \in Request, u \in User :
              StartCreate(r, u) \/ StartIncrease(r, u) \/ StartOptOut(r, u) \/ StartValidate(r, u)
  <2>1. PICK r \in Request, u \in User :
              StartCreate(r, u) \/ StartIncrease(r, u) \/ StartOptOut(r, u) \/ StartValidate(r, u)
    BY <1>3
  <2>2. part' = part /\ booked' = booked /\ rematched' = rematched
    BY <1>1, <2>1, StartCreateShape, StartIncreaseShape, StartOptOutShape, StartValidateShape DEF Quiet, ledger
  <2>3. \A q \in Request : Pays(q)'
    BY <1>1, <2>1, StartCreateShape, StartIncreaseShape, StartOptOutShape, StartValidateShape, PaysNothing
  <2> QED BY <1>1, <2>2, <2>3 DEF LedgerInv, BookedInv
<1>4. CASE \E r \in Request : StartMatch(r) \/ ReadDonations(r) \/ EndMatch(r) \/ CutShort(r)
  <2>1. PICK r \in Request : StartMatch(r) \/ ReadDonations(r) \/ EndMatch(r) \/ CutShort(r)
    BY <1>4
  <2>2. part' = part /\ booked' = booked /\ rematched' = rematched
    BY <1>1, <2>1, StartMatchShape, ReadDonationsShape, EndShape DEF Quiet, ledger
  <2>3. \A q \in Request : Pays(q)'
    BY <1>1, <2>1, StartMatchShape, ReadDonationsShape, EndShape, PaysNothing, DonePays
  <2> QED BY <1>1, <2>2, <2>3 DEF LedgerInv, BookedInv
<1>5. CASE \E u \in User : Refund(u)
  <2>1. booked' = booked /\ rematched' = rematched /\ req' = req /\ OnlyStatus
    BY <1>1, <1>5, RefundShape DEF ledger
  <2>2. \A v \in User : part'[v].amount = part[v].amount /\ part'[v].id = part[v].id
    BY <2>1 DEF OnlyStatus
  <2>3. BookedInv'
    BY <1>1, <2>1, <2>2 DEF BookedInv
  <2>4. ASSUME NEW q \in Request PROVE Pays(q)'
    <3>1. Pays(q) /\ (req[q].pc \in About => req[q].user \in User)
      BY <1>1, FieldsTyped DEF LedgerInv
    <3> QED BY <2>1, <2>2, <3>1 DEF Pays, Validated, About, PartPC
  <2> QED BY <2>3, <2>4 DEF LedgerInv
<1>6. CASE \E d \in Donation : Arrive(d)
  <2>1. part' = part /\ booked' = booked /\ rematched' = rematched /\ req' = req
    BY <1>1, <1>6, ArriveShape DEF ledger
  <2> QED BY <2>1 DEF LedgerInv, BookedInv, Pays, Validated
<1> QED BY <1>2, <1>3, <1>4, <1>5, <1>6

LEMMA LedgerStep ==
    ASSUME Serial PROVE PlaceInv /\ LedgerInv /\ [PartNext]_partVars => LedgerInv'
<1> SUFFICES ASSUME PlaceInv, LedgerInv, [PartNext]_partVars PROVE LedgerInv'
  OBVIOUS
<1>1. ASSUME NEW r \in Request,
             \/ Create(r) \/ Increase(r) \/ Delete(r) \/ OptOut(r)
             \/ StartMatch(r) \/ ReadDonations(r) \/ MatchOne(r) \/ BookMatch(r) \/ EndMatch(r)
             \/ Validate(r) \/ SumDeposits(r) \/ AppendDeposit(r) \/ ReadBaseline(r) \/ RaiseBaseline(r)
             \/ OpenCycle(r) \/ CutShort(r)
      PROVE  LedgerInv'
  BY <1>1, UpdatesLedger, MatcherLedger, DepositLedger, AdminLedger, OthersLedger
<1>2. ASSUME NEW r \in Request, NEW u \in AdminAdds, AddToOpenCycle(r, u) PROVE LedgerInv'
  BY <1>2, AdminLedger
<1> QED BY <1>1, <1>2, OthersLedger DEF PartNext

\* The ledger in a serial world.
LEMMA LedgerAlways == ASSUME Serial PROVE PartSpec => [](PlaceInv /\ LedgerInv)
<1>1. PartInit => LedgerInv
  BY NothingTyped DEF PartInit, LedgerInv, BookedInv, Pays
<1>2. PlaceInv /\ LedgerInv /\ [PartNext]_partVars => LedgerInv'
  BY LedgerStep
<1> QED BY <1>1, <1>2, PlaceAlways, PTL DEF PartSpec

--------------------------------------------------------------------------------
(* The steps, seen from DepositAccount                                     *)

\* Both sides of an account, as numbers.
LEMMA AccountOf ==
    ASSUME NEW u \in User
    PROVE  /\ Received[u] = IF u \in rematched THEN 0
                            ELSE IF part[u].validated THEN part[u].amount ELSE booked[u]
           /\ Received'[u] = IF u \in rematched' THEN 0
                             ELSE IF part'[u].validated THEN part'[u].amount ELSE booked'[u]
           /\ Entered[u] = IF u \in rematched THEN 0 ELSE booked[u]
           /\ Entered'[u] = IF u \in rematched' THEN 0 ELSE booked'[u]
  BY DEF Received, Entered

LEMMA AccountTyped ==
    ASSUME Typed
    PROVE  Received \in [User -> Nat] /\ Entered \in [User -> Nat]
  BY RowFields DEF Received, Entered, Typed, Tables

LEMMA AccountTypedNext ==
    ASSUME Typed'
    PROVE  Received' \in [User -> Nat] /\ Entered' \in [User -> Nat]
<1>1. \A u \in User : part'[u].amount \in Nat /\ booked'[u] \in Nat
  BY DEF Typed, Tables, Row
<1> QED BY <1>1 DEF Received, Entered

AccountStep == Account!Next \/ UNCHANGED <<Received, Entered>>

\* The account of u stays as it is.
Stays(u) == Received'[u] = Received[u] /\ Entered'[u] = Entered[u]

LEMMA OthersStay ==
    ASSUME NEW u \in User, \A v \in User \ {u} : part'[v] = part[v] /\ booked'[v] = booked[v],
           \A v \in User \ {u} : v \in rematched' <=> v \in rematched
    PROVE  \A v \in User \ {u} : Stays(v)
  BY AccountOf DEF Stays

\* A validation confirms at least what is booked.
LEMMA Confirms ==
    ASSUME Typed, Typed', NEW u \in User, \A v \in User \ {u} : Stays(v),
           Entered'[u] = Entered[u], Received'[u] >= Entered[u]
    PROVE  AccountStep
<1>1. Received' \in [User -> Nat] /\ Entered' \in [User -> Nat] /\ Entered \in [User -> Nat]
  BY AccountTyped, AccountTypedNext
<1>2. Entered' = Entered
  BY <1>1 DEF Stays
<1>3. Account!Confirm(u)
  BY <1>1, <1>2 DEF Account!Confirm, Account!OnlyOf, Stays
<1> QED BY <1>3 DEF AccountStep, Account!Next

\* An entry books all that was confirmed and is missing.
LEMMA BooksAll ==
    ASSUME Typed, Typed', NEW u \in User, \A v \in User \ {u} : Stays(v),
           Received'[u] = Received[u], Entered'[u] = Received[u]
    PROVE  AccountStep
<1>1. /\ Received' \in [User -> Nat] /\ Entered' \in [User -> Nat]
      /\ Received \in [User -> Nat] /\ Entered \in [User -> Nat]
  BY AccountTyped, AccountTypedNext
<1>2. Received' = Received
  BY <1>1 DEF Stays
<1>3. Entered' = [Entered EXCEPT ![u] = Received[u]]
  BY <1>1 DEF Stays
<1>4. Account!Book(u)
  BY <1>2, <1>3 DEF Account!Book
<1> QED BY <1>4 DEF AccountStep, Account!Next

\* What awaits its validation does not count; what is booked stays received.
LEMMA Reopens ==
    ASSUME Typed, Typed', NEW u \in User, \A v \in User \ {u} : Stays(v),
           Entered'[u] = Entered[u], Received'[u] = Entered[u]
    PROVE  AccountStep
<1>1. /\ Received' \in [User -> Nat] /\ Entered' \in [User -> Nat]
      /\ Received \in [User -> Nat] /\ Entered \in [User -> Nat]
  BY AccountTyped, AccountTypedNext
<1>2. Entered' = Entered
  BY <1>1 DEF Stays
<1>3. Received' = [Received EXCEPT ![u] = Entered[u]]
  BY <1>1 DEF Stays
<1>4. Account!Reopen(u)
  BY <1>2, <1>3 DEF Account!Reopen
<1> QED BY <1>4 DEF AccountStep, Account!Next

\* The accounts of some users are given up.
LEMMA GivesUp ==
    ASSUME Typed, Typed', NEW S \in SUBSET User, \A u \in S : Received'[u] = 0 /\ Entered'[u] = 0,
           \A u \in User \ S : Stays(u)
    PROVE  AccountStep
<1>1. /\ Received' \in [User -> Nat] /\ Entered' \in [User -> Nat]
      /\ Received \in [User -> Nat] /\ Entered \in [User -> Nat]
  BY AccountTyped, AccountTypedNext
<1>2. Received' = [u \in User |-> IF u \in S THEN 0 ELSE Received[u]]
  BY <1>1 DEF Stays
<1>3. Entered' = [u \in User |-> IF u \in S THEN 0 ELSE Entered[u]]
  BY <1>1 DEF Stays
<1>4. Account!GiveUp(S)
  BY <1>2, <1>3 DEF Account!GiveUp
<1> QED BY <1>4 DEF AccountStep, Account!Next

LEMMA GivesUpOne ==
    ASSUME Typed, Typed', NEW u \in User, Received'[u] = 0, Entered'[u] = 0, \A v \in User \ {u} : Stays(v)
    PROVE  AccountStep
<1> DEFINE S == {u}
<1>1. /\ S \in SUBSET User /\ \A v \in S : Received'[v] = 0 /\ Entered'[v] = 0
      /\ \A v \in User \ S : Stays(v)
  OBVIOUS
<1> HIDE DEF S
<1> QED BY <1>1, GivesUp

\* A paid participation in an Open Cycle is confirmed and booked at once.
LEMMA Deposits ==
    ASSUME Typed, Typed', NEW u \in User, \A v \in User \ {u} : Stays(v),
           Received[u] = 0, Entered[u] = 0, Entered'[u] = Received'[u]
    PROVE  AccountStep
<1>1. Received' \in [User -> Nat] /\ Entered' \in [User -> Nat] /\ Entered \in [User -> Nat]
  BY AccountTyped, AccountTypedNext
<1>2. Entered' = [Entered EXCEPT ![u] = Received'[u]]
  BY <1>1 DEF Stays
<1>3. Account!Deposit(u)
  BY <1>1, <1>2 DEF Account!Deposit, Account!OnlyOf, Stays
<1> QED BY <1>3 DEF AccountStep, Account!Next

\* Nothing changes in the accounts.
LEMMA AccountStays ==
    ASSUME UNCHANGED <<booked, rematched>>,
           \A u \in User : part'[u].validated = part[u].validated /\ part'[u].amount = part[u].amount
    PROVE  AccountStep
<1>1. \A u \in User : Received'[u] = Received[u] /\ Entered'[u] = Entered[u]
  BY AccountOf
<1>2. Received' = Received /\ Entered' = Entered
  BY <1>1 DEF Received, Entered
<1> QED BY <1>2 DEF AccountStep

LEMMA AccountInit == PartInit => Account!Init
<1> SUFFICES ASSUME PartInit PROVE Account!Init
  OBVIOUS
<1>1. \A u \in User : Received[u] = 0 /\ Entered[u] = 0
  BY AccountOf, NothingTyped DEF PartInit
<1>2. Received = [u \in User |-> 0] /\ Entered = [u \in User |-> 0]
  BY <1>1 DEF Received, Entered
<1> QED BY <1>2 DEF Account!Init

LEMMA RequestAccount ==
    ASSUME Serial, PlaceInv, LedgerInv, [PartNext]_partVars, NEW r \in Request,
           \/ Create(r) \/ Increase(r) \/ Delete(r) \/ OptOut(r)
           \/ MatchOne(r) \/ BookMatch(r) \/ Validate(r) \/ AppendDeposit(r)
    PROVE  AccountStep
<1>1. Typed /\ Typed' /\ RowsInv /\ Place(r) /\ BookedInv /\ Pays(r)
  BY TypedStep DEF PlaceInv, LedgerInv
<1>2. \A u \in User : /\ booked[u] \in Nat /\ part[u].amount \in Nat
                      /\ booked'[u] \in Nat /\ part'[u].amount \in Nat
  BY <1>1 DEF Typed, Tables, Row
<1>3. CASE Create(r)
  <2>1. booked' = booked
    BY <1>1, <1>3, CreateShape
  <2>2. CASE UNCHANGED <<part, counted, rematched>>
    BY <2>1, <2>2, AccountStays
  <2>3. CASE ~UNCHANGED <<part, counted, rematched>>
    <3>1. PICK u \in User : /\ part[u].id = 0 /\ ~part'[u].validated /\ rematched' = rematched \ {u}
                            /\ \A v \in User \ {u} : part'[v] = part[v]
      BY <1>1, <1>3, <2>3, CreateShape
    <3>2. booked[u] = 0
      BY <1>1, <3>1 DEF BookedInv
    <3>3. Entered[u] = 0 /\ Entered'[u] = 0 /\ Received'[u] = 0
      BY <2>1, <3>1, <3>2, AccountOf
    <3> QED BY <1>1, <2>1, <3>1, <3>3, OthersStay, Reopens
  <2> QED BY <2>2, <2>3
<1>4. CASE Increase(r)
  <2>1. booked' = booked /\ rematched' = rematched
    BY <1>1, <1>4, IncreaseShape
  <2>2. CASE UNCHANGED <<part, counted>>
    BY <2>1, <2>2, AccountStays
  <2>3. CASE ~UNCHANGED <<part, counted>>
    <3>1. PICK u \in User : ~part'[u].validated /\ \A v \in User \ {u} : part'[v] = part[v]
      BY <1>1, <1>4, <2>3, IncreaseShape
    <3>2. Entered'[u] = Entered[u] /\ Received'[u] = Entered[u]
      BY <2>1, <3>1, AccountOf
    <3> QED BY <1>1, <2>1, <3>1, <3>2, OthersStay, Reopens
  <2> QED BY <2>2, <2>3
<1>5. CASE Delete(r)
  <2>1. rematched' = rematched
    BY <1>1, <1>5, DeleteShape
  <2>2. CASE UNCHANGED <<part, booked>>
    BY <2>1, <2>2, AccountStays
  <2>3. CASE ~UNCHANGED <<part, booked>>
    <3>1. PICK u \in User :
              /\ \A v \in User \ {u} : part'[v] = part[v] /\ booked'[v] = booked[v]
              /\ part'[u] = NoRow /\ booked'[u] = 0
      BY <1>1, <1>5, <2>3, DeleteShape
    <3>2. Received'[u] = 0 /\ Entered'[u] = 0
      BY <3>1, AccountOf, NothingTyped
    <3> QED BY <1>1, <2>1, <3>1, <3>2, OthersStay, GivesUpOne
  <2> QED BY <2>2, <2>3
<1>6. CASE OptOut(r)
  <2>1. UNCHANGED <<booked, rematched>> /\ OnlyStatus
    BY <1>1, <1>6, OptOutShape DEF ledger, Place, Agreed, Current
  <2> QED BY <2>1, AccountStays DEF OnlyStatus
<1>7. CASE MatchOne(r)
  <2>1. booked' = booked
    BY <1>1, <1>7, MatchOneShape
  <2>2. CASE UNCHANGED <<part, rematched>>
    BY <2>1, <2>2, AccountStays
  <2>3. CASE ~UNCHANGED <<part, rematched>>
    <3>1. PICK t, match : Matches(r, t, match)
      BY <1>1, <1>7, <2>3, MatchOneShape
    <3> DEFINE u == t.user
    <3>2. /\ u \in User /\ (u \in rematched' \/ booked[u] = 0)
          /\ rematched \subseteq rematched' /\ rematched' \subseteq rematched \cup {u}
      BY <1>1, <3>1, MatchPays DEF LedgerInv
    <3>3. part'[u].validated /\ \A v \in User \ {u} : part'[v] = part[v]
      BY <3>1 DEF Matches
    <3> HIDE DEF u
    <3>4. \A v \in User \ {u} : Stays(v)
      BY <2>1, <3>2, <3>3, OthersStay
    <3>5. CASE u \in rematched'
      <4>1. Received'[u] = 0 /\ Entered'[u] = 0
        BY <3>2, <3>5, AccountOf
      <4> QED BY <1>1, <3>2, <3>4, <4>1, GivesUpOne
    <3>6. CASE u \notin rematched'
      <4>1. Entered[u] = 0 /\ Entered'[u] = 0 /\ Received'[u] = part'[u].amount
        BY <2>1, <3>2, <3>3, <3>6, AccountOf
      <4>2. Received'[u] >= Entered[u]
        BY <1>2, <3>2, <4>1
      <4> QED BY <1>1, <3>2, <3>4, <4>1, <4>2, Confirms
    <3> QED BY <3>5, <3>6
  <2> QED BY <2>2, <2>3
<1>8. CASE BookMatch(r)
  <2>1. part' = part /\ rematched' = rematched /\ req[r].pc = "bookMatch"
    BY <1>1, <1>8, BookMatchShape
  <2>2. CASE UNCHANGED <<booked, counted>>
    BY <2>1, <2>2, AccountStays
  <2>3. CASE ~UNCHANGED <<booked, counted>>
    <3>1. PICK u \in User : Books(r, u)
      BY <1>1, <1>8, <2>3, BookMatchShape
    <3>2. u = req[r].user /\ booked'[u] = booked[u] + req[r].isk /\ \A v \in User \ {u} : booked'[v] = booked[v]
      BY <3>1 DEF Books
    <3>3. /\ part[u].validated /\ part[u].amount = req[r].isk /\ req[r].isk \in Nat
          /\ u \in rematched \/ booked[u] = 0
      BY <1>1, <2>1, <3>2, FieldsTyped DEF Place, Pays, Validated
    <3>4. u \notin rematched => booked'[u] = part[u].amount
      BY <3>2, <3>3
    <3>5. Received'[u] = Received[u] /\ Entered'[u] = Received[u]
      BY <2>1, <3>3, <3>4, AccountOf
    <3> QED BY <1>1, <2>1, <3>2, <3>5, OthersStay, BooksAll
  <2> QED BY <2>2, <2>3
<1>9. CASE Validate(r)
  <2>1. booked' = booked /\ rematched' = rematched
    BY <1>1, <1>9, ValidateShape DEF ledger
  <2>2. CASE UNCHANGED part
    BY <2>1, <2>2, AccountStays
  <2>3. CASE ~UNCHANGED part
    <3>1. PICK u \in User : /\ \A v \in User \ {u} : part'[v] = part[v]
                            /\ part'[u].validated /\ part'[u].amount = part[u].amount
      BY <1>1, <1>9, <2>3, ValidateShape
    <3>2. u \notin rematched => booked[u] <= part'[u].amount
      BY <1>1, <3>1 DEF BookedInv
    <3>3. Entered'[u] = Entered[u] /\ Received'[u] >= Entered[u]
      BY <1>2, <2>1, <3>1, <3>2, AccountOf
    <3> QED BY <1>1, <2>1, <3>1, <3>3, OthersStay, Confirms
  <2> QED BY <2>2, <2>3
<1>10. CASE AppendDeposit(r)
  <2>1. part' = part /\ rematched' = rematched /\ req[r].pc = "append"
    BY <1>1, <1>10, AppendDepositShape
  <2>2. CASE UNCHANGED booked
    BY <2>1, <2>2, AccountStays
  <2>3. CASE ~UNCHANGED booked
    <3>1. PICK u \in User : Books(r, u)
      BY <1>1, <1>10, <2>3, AppendDepositShape
    <3>2. u = req[r].user /\ booked'[u] = booked[u] + req[r].isk /\ \A v \in User \ {u} : booked'[v] = booked[v]
      BY <3>1 DEF Books
    <3>3. part[u].validated /\ booked'[u] = part[u].amount
      BY <1>1, <2>1, <3>2 DEF Place, Pays, Validated
    <3>4. Received'[u] = Received[u] /\ Entered'[u] = Received[u]
      BY <2>1, <3>3, AccountOf
    <3> QED BY <1>1, <2>1, <3>2, <3>4, OthersStay, BooksAll
  <2> QED BY <2>2, <2>3
<1> QED BY <1>3, <1>4, <1>5, <1>6, <1>7, <1>8, <1>9, <1>10

LEMMA QuietAccount ==
    ASSUME Typed,
           \/ UNCHANGED partVars
           \/ \E r \in Request, u \in User :
                 StartCreate(r, u) \/ StartIncrease(r, u) \/ StartOptOut(r, u) \/ StartValidate(r, u)
           \/ \E r \in Request :
                 \/ StartMatch(r) \/ ReadDonations(r) \/ EndMatch(r) \/ SumDeposits(r)
                 \/ ReadBaseline(r) \/ RaiseBaseline(r) \/ CutShort(r)
           \/ \E u \in User : Refund(u)
           \/ \E d \in Donation : Arrive(d)
    PROVE  AccountStep
<1>1. CASE UNCHANGED <<part, booked, rematched>>
  BY <1>1, AccountStays
<1>2. CASE UNCHANGED partVars
  BY <1>1, <1>2 DEF partVars, ledger
<1>3. ASSUME NEW r \in Request, NEW u \in User,
             StartCreate(r, u) \/ StartIncrease(r, u) \/ StartOptOut(r, u) \/ StartValidate(r, u)
      PROVE  UNCHANGED <<part, booked, rematched>>
  BY <1>3, StartCreateShape, StartIncreaseShape, StartOptOutShape, StartValidateShape DEF Quiet, ledger
<1>4. ASSUME NEW r \in Request,
             \/ StartMatch(r) \/ ReadDonations(r) \/ EndMatch(r) \/ SumDeposits(r)
             \/ ReadBaseline(r) \/ RaiseBaseline(r) \/ CutShort(r)
      PROVE  UNCHANGED <<part, booked, rematched>>
  BY <1>4, StartMatchShape, ReadDonationsShape, EndShape, SumDepositsShape, ReadBaselineShape,
     RaiseBaselineShape DEF Quiet, ledger
<1>5. ASSUME NEW u \in User, Refund(u) PROVE AccountStep
  <2>1. UNCHANGED <<booked, rematched>> /\ OnlyStatus
    BY <1>5, RefundShape DEF ledger
  <2> QED BY <2>1, AccountStays DEF OnlyStatus
<1>6. ASSUME NEW d \in Donation, Arrive(d) PROVE UNCHANGED <<part, booked, rematched>>
  BY <1>6, ArriveShape DEF ledger
<1> QED BY <1>1, <1>2, <1>3, <1>4, <1>5, <1>6

LEMMA AdminAccount ==
    ASSUME PlaceInv, LedgerInv, NEW r \in Request,
           OpenCycle(r) \/ \E u \in AdminAdds : AddToOpenCycle(r, u)
    PROVE  AccountStep
<1>1. Typed /\ RowsInv /\ BookedInv
  BY DEF PlaceInv, LedgerInv
<1>2. CASE OpenCycle(r)
  <2>1. /\ Typed' /\ Gone \in SUBSET User
        /\ \A u \in Gone : part'[u] = NoRow /\ booked'[u] = 0
        /\ \A u \in User \ Gone : part'[u] = part[u] /\ booked'[u] = booked[u]
        /\ rematched' = rematched
    BY <1>1, <1>2, OpenCycleShape DEF Gone
  <2>2. \A u \in Gone : Received'[u] = 0 /\ Entered'[u] = 0
    BY <2>1, AccountOf, NothingTyped
  <2>3. \A u \in User \ Gone : Stays(u)
    BY <2>1, AccountOf DEF Stays
  <2> QED BY <1>1, <2>1, <2>2, <2>3, GivesUp
<1>3. CASE \E u \in AdminAdds : AddToOpenCycle(r, u)
  <2>1. PICK u \in AdminAdds : AddToOpenCycle(r, u)
    BY <1>3
  <2>2. u \in User /\ part[u] = NoRow /\ booked[u] \in Nat
    BY <1>1, <2>1, AddToOpenCycleShape, ParticipationAssumption DEF RowsInv, Typed, Tables
  <2>3. booked[u] = 0
    BY <1>1, <2>2, NothingTyped DEF BookedInv
  <2>4. /\ Typed' /\ \A v \in User \ {u} : part'[v] = part[v] /\ booked'[v] = booked[v]
        /\ rematched' = rematched \ {u}
    BY <1>1, <2>1, <2>2, AddToOpenCycleShape
  <2>5. Entered[u] = 0 /\ Received[u] = 0 /\ \A v \in User \ {u} : Stays(v)
    BY <2>2, <2>3, <2>4, AccountOf, OthersStay, NothingTyped
  <2>6. CASE part'[u].validated
    <3>1. booked'[u] = part'[u].amount
      BY <1>1, <2>1, <2>2, <2>3, <2>6, AddToOpenCycleShape
    <3>2. Entered'[u] = Received'[u]
      BY <2>2, <2>4, <2>6, <3>1, AccountOf
    <3> QED BY <1>1, <2>2, <2>4, <2>5, <3>2, Deposits
  <2>7. CASE ~part'[u].validated
    <3>1. booked' = booked
      BY <1>1, <2>1, <2>2, <2>7, AddToOpenCycleShape
    <3>2. Entered'[u] = 0 /\ Received'[u] = 0
      BY <2>2, <2>3, <2>4, <2>7, <3>1, AccountOf
    <3> QED BY <1>1, <2>2, <2>4, <2>5, <3>2, Reopens
  <2> QED BY <2>6, <2>7
<1> QED BY <1>2, <1>3

\* While requests do not overlap, the reads and writes of the code book deposits as
\* DepositAccount promises, for everybody until the matcher finds a payment of a
\* user whose ledger has deposits (also a run).
THEOREM ImplementsAccount ==
    ASSUME Serial PROVE PartSpec => ImplementsDepositAccount
<1>1. PartInit => Account!Init
  BY AccountInit
<1>2. ASSUME PlaceInv, LedgerInv, [PartNext]_partVars PROVE [Account!Next]_<<Received, Entered>>
  <2>1. Typed
    BY <1>2 DEF PlaceInv
  <2>2. ASSUME NEW r \in Request,
               \/ Create(r) \/ Increase(r) \/ Delete(r) \/ OptOut(r)
               \/ StartMatch(r) \/ ReadDonations(r) \/ MatchOne(r) \/ BookMatch(r) \/ EndMatch(r)
               \/ Validate(r) \/ SumDeposits(r) \/ AppendDeposit(r) \/ ReadBaseline(r) \/ RaiseBaseline(r)
               \/ OpenCycle(r) \/ CutShort(r)
        PROVE  AccountStep
    BY <1>2, <2>1, <2>2, RequestAccount, QuietAccount, AdminAccount
  <2>3. ASSUME NEW r \in Request, NEW u \in AdminAdds, AddToOpenCycle(r, u) PROVE AccountStep
    BY <1>2, <2>3, AdminAccount
  <2>4. AccountStep
    BY <1>2, <2>1, <2>2, <2>3, QuietAccount DEF PartNext
  <2> QED BY <2>4 DEF AccountStep
<1>3. PartSpec => [](PlaceInv /\ LedgerInv)
  BY LedgerAlways
<1> QED BY <1>1, <1>2, <1>3, PTL DEF PartSpec, ImplementsDepositAccount, Account!Spec, Account!accountVars

--------------------------------------------------------------------------------
(* Donations                                                               *)

\* A donation counts once, and not at all for who awaits an investment.
CountedInv ==
    \A d \in Donation :
        /\ counted[d] <= 1
        /\ part[Donor[d]].status = "AWAITING_INVESTMENT" => counted[d] = 0

\* What the matcher has left to match, and what it will book, was not counted yet.
Counts(r) ==
    /\ req[r].pc \in {"donations", "match", "bookMatch"} =>
          \A t \in req[r].todo, d \in Donation : Donor[d] = t.user => counted[d] = 0
    /\ req[r].pc = "bookMatch" =>
          \A d \in req[r].from : d \in Donation /\ Donor[d] = req[r].user /\ counted[d] = 0

DonationInv == CountedInv /\ \A r \in Request : Counts(r)

LEMMA DonorTyped == ASSUME NEW d \in Donation PROVE Donor[d] \in User
  BY ParticipationAssumption

LEMMA CountsNothing ==
    ASSUME Serial, NEW r \in Request, req'[r].pc \notin {"donations", "match", "bookMatch"}
    PROVE  \A q \in Request : Counts(q)'
  BY DEF Serial, Counts

LEMMA DoneCountsNothing ==
    ASSUME Serial, Typed, NEW r \in Request, Done(r)
    PROVE  \A q \in Request : Counts(q)'
<1>1. req'[r].pc = "idle"
  BY RequestEnds, NothingTyped
<1> QED BY <1>1, CountsNothing

\* Nothing is counted, and nobody starts to await an investment.
LEMMA CountedKept ==
    ASSUME CountedInv, counted' = counted,
           \A u \in User : part'[u].status = "AWAITING_INVESTMENT" => part[u].status = "AWAITING_INVESTMENT"
    PROVE  CountedInv'
  BY DonorTyped DEF CountedInv

\* u is asked to pay.
LEMMA CountedAnew ==
    ASSUME Typed, CountedInv, NEW u \in User, Asked(u), \A v \in User \ {u} : part'[v] = part[v]
    PROVE  CountedInv'
<1>1. \A d \in Donation : counted'[d] = IF Donor[d] = u THEN 0 ELSE counted[d]
  BY AskedTyped
<1>2. ASSUME NEW d \in Donation
      PROVE  counted'[d] <= 1 /\ (part'[Donor[d]].status = "AWAITING_INVESTMENT" => counted'[d] = 0)
  BY <1>1, DonorTyped DEF CountedInv
<1> QED BY <1>2 DEF CountedInv

LEMMA UpdatesCounted ==
    ASSUME Serial, PlaceInv, DonationInv, NEW r \in Request,
           Create(r) \/ Increase(r) \/ Delete(r) \/ OptOut(r)
    PROVE  DonationInv'
<1>1. Typed /\ Place(r) /\ CountedInv
  BY DEF PlaceInv, DonationInv
<1>2. Done(r)
  BY <1>1, CreateShape, IncreaseShape, DeleteShape, OptOutShape
<1>3. \A q \in Request : Counts(q)'
  BY <1>1, <1>2, DoneCountsNothing
<1>4. CountedInv'
  <2>1. CASE Create(r)
    <3>1. CASE UNCHANGED <<part, counted, rematched>>
      BY <1>1, <3>1, CountedKept
    <3>2. CASE \E u \in User : Asked(u) /\ \A v \in User \ {u} : part'[v] = part[v]
      BY <1>1, <3>2, CountedAnew
    <3> QED BY <1>1, <2>1, <3>1, <3>2, CreateShape
  <2>2. CASE Increase(r)
    <3>1. CASE UNCHANGED <<part, counted>>
      BY <1>1, <3>1, CountedKept
    <3>2. CASE \E u \in User : Asked(u) /\ \A v \in User \ {u} : part'[v] = part[v]
      BY <1>1, <3>2, CountedAnew
    <3> QED BY <1>1, <2>2, <3>1, <3>2, IncreaseShape
  <2>3. CASE Delete(r)
    BY <1>1, <2>3, DeleteShape, CountedKept, NothingTyped
  <2>4. CASE OptOut(r)
    BY <1>1, <2>4, OptOutShape, CountedKept DEF OnlyStatus, ledger, Place, Agreed, Current
  <2> QED BY <2>1, <2>2, <2>3, <2>4
<1> QED BY <1>3, <1>4 DEF DonationInv

LEMMA StartsCounted ==
    ASSUME Serial, PlaceInv, DonationInv, NEW r \in Request,
           \/ \E u \in User : StartCreate(r, u) \/ StartIncrease(r, u) \/ StartOptOut(r, u) \/ StartValidate(r, u)
           \/ StartMatch(r) \/ ReadDonations(r)
    PROVE  DonationInv'
<1>1. Typed /\ CountedInv /\ Counts(r)
  BY DEF PlaceInv, DonationInv
<1>2. Quiet
  BY <1>1, StartCreateShape, StartIncreaseShape, StartOptOutShape, StartValidateShape, StartMatchShape,
     ReadDonationsShape
<1>3. part' = part /\ counted' = counted
  BY <1>2 DEF Quiet, ledger
<1>4. CountedInv'
  BY <1>1, <1>3, CountedKept
<1>5. \A q \in Request : Counts(q)'
  <2>1. CASE \E u \in User : StartCreate(r, u) \/ StartIncrease(r, u) \/ StartOptOut(r, u) \/ StartValidate(r, u)
    BY <1>1, <2>1, StartCreateShape, StartIncreaseShape, StartOptOutShape, StartValidateShape, CountsNothing
  <2>2. CASE StartMatch(r)
    <3>1. req'[r].pc = "donations"
      BY <1>1, <2>2, StartMatchShape
    <3>2. ASSUME NEW t \in req'[r].todo, NEW d \in Donation, Donor[d] = t.user
          PROVE  counted[d] = 0
      <4>1. part[t.user].status = "AWAITING_INVESTMENT"
        BY <1>1, <2>2, <3>2, StartMatchShape
      <4> QED BY <1>1, <3>2, <4>1 DEF CountedInv
    <3>3. Counts(r)'
      BY <1>3, <3>1, <3>2 DEF Counts
    <3> QED BY <3>3 DEF Serial
  <2>3. CASE ReadDonations(r)
    <3>1. req[r].pc = "donations" /\ req'[r].pc = "match" /\ req'[r].todo = req[r].todo
      BY <1>1, <2>3, ReadDonationsShape
    <3>2. Counts(r)'
      BY <1>1, <1>3, <3>1 DEF Counts
    <3> QED BY <3>2 DEF Serial
  <2> QED BY <2>1, <2>2, <2>3
<1> QED BY <1>4, <1>5 DEF DonationInv

LEMMA MatcherCounted ==
    ASSUME Serial, PlaceInv, DonationInv, NEW r \in Request, MatchOne(r) \/ BookMatch(r)
    PROVE  DonationInv'
<1>1. Typed /\ RowsInv /\ Place(r) /\ CountedInv /\ Counts(r)
  BY DEF PlaceInv, DonationInv
<1>2. CASE MatchOne(r)
  <2>1. counted' = counted /\ req[r].pc = "match"
    BY <1>1, <1>2, MatchOneShape
  <2>2. CASE UNCHANGED part /\ Done(r)
    BY <1>1, <2>1, <2>2, CountedKept, DoneCountsNothing DEF DonationInv
  <2>3. CASE UNCHANGED part /\ req'[r].pc = "match" /\ req'[r].todo \subseteq req[r].todo
    <3>1. CountedInv'
      BY <1>1, <2>1, <2>3, CountedKept
    <3>2. Counts(r)'
      BY <1>1, <2>1, <2>3 DEF Counts
    <3> QED BY <3>1, <3>2 DEF DonationInv, Serial
  <2>4. CASE \E t, match : Matches(r, t, match)
    <3>1. PICK t, match : Matches(r, t, match)
      BY <2>4
    <3>2. /\ t \in req[r].todo /\ t.user \in User /\ match = Matched(t.user, t.row.amount, req[r].free)
          /\ req'[r].pc = "bookMatch" /\ req'[r].user = t.user /\ req'[r].todo = req[r].todo \ {t}
          /\ req'[r].from = match
          /\ part'[t.user].status = "OPTED_IN"
          /\ \A v \in User \ {t.user} : part'[v] = part[v]
      BY <3>1 DEF Matches
    <3>3. CountedInv'
      BY <1>1, <2>1, <3>2, CountedKept
    <3>4. \A d \in match : d \in Donation /\ Donor[d] = t.user
      BY <1>1, <3>2, FieldsTyped DEF Matched
    <3>5. \A d \in match : counted[d] = 0
      BY <1>1, <2>1, <3>2, <3>4 DEF Counts
    <3>6. Counts(r)'
      BY <1>1, <2>1, <3>2, <3>4, <3>5 DEF Counts
    <3> QED BY <3>3, <3>6 DEF DonationInv, Serial
  <2> QED BY <1>1, <1>2, <2>2, <2>3, <2>4, MatchOneShape
<1>3. CASE BookMatch(r)
  <2>1. part' = part /\ req[r].pc = "bookMatch"
    BY <1>1, <1>3, BookMatchShape
  <2>2. CASE Done(r) /\ UNCHANGED <<booked, counted>>
    BY <1>1, <2>1, <2>2, CountedKept, DoneCountsNothing DEF DonationInv
  <2>3. CASE ~(Done(r) /\ UNCHANGED <<booked, counted>>)
    <3>1. /\ req'[r].pc = "match" /\ req'[r].todo = req[r].todo
          /\ \A d \in Donation : counted'[d] = IF d \in req[r].from THEN counted[d] + 1 ELSE counted[d]
      BY <1>1, <1>3, <2>3, BookMatchShape
    <3>2. PICK u \in User : u = req[r].user /\ part[u].id = req[r].row.id
      BY <1>1, <1>3, <2>3, BookMatchShape DEF Books
    <3>3. /\ part[u].validated /\ part[u].id # 0
          /\ \A d \in req[r].from : d \in Donation /\ Donor[d] = u /\ counted[d] = 0
      BY <1>1, <2>1, <3>2 DEF Place, Counts, Validated, Current
    <3>4. part[u].status # "AWAITING_INVESTMENT"
      BY <1>1, <3>2, <3>3 DEF RowsInv
    <3>5. CountedInv'
      BY <1>1, <2>1, <3>1, <3>3, <3>4 DEF CountedInv
    <3>6. \A t \in req[r].todo : t.user # u
      BY <1>1, <2>1, <3>3 DEF Place, Waits
    <3>7. Counts(r)'
      BY <1>1, <2>1, <3>1, <3>3, <3>6 DEF Counts
    <3> QED BY <3>5, <3>7 DEF DonationInv, Serial
  <2> QED BY <2>2, <2>3
<1> QED BY <1>2, <1>3

LEMMA DepositCounted ==
    ASSUME Serial, PlaceInv, DonationInv, NEW r \in Request,
           Validate(r) \/ SumDeposits(r) \/ AppendDeposit(r) \/ ReadBaseline(r) \/ RaiseBaseline(r)
    PROVE  DonationInv'
<1>1. Typed /\ CountedInv
  BY DEF PlaceInv, DonationInv
<1>2. counted' = counted
  BY <1>1, ValidateShape, SumDepositsShape, AppendDepositShape, ReadBaselineShape, RaiseBaselineShape
     DEF Quiet, ledger
<1>3. \A u \in User : part'[u].status = "AWAITING_INVESTMENT" => part[u].status = "AWAITING_INVESTMENT"
  <2>1. CASE Validate(r)
    <3>1. UNCHANGED part \/ \E u \in User : /\ \A v \in User \ {u} : part'[v] = part[v]
                                            /\ part'[u].status = "OPTED_IN"
      BY <1>1, <2>1, ValidateShape
    <3> QED BY <3>1
  <2>2. CASE SumDeposits(r) \/ AppendDeposit(r) \/ ReadBaseline(r) \/ RaiseBaseline(r)
    BY <1>1, <2>2, SumDepositsShape, AppendDepositShape, ReadBaselineShape, RaiseBaselineShape DEF Quiet
  <2> QED BY <2>1, <2>2
<1>4. Done(r) \/ req'[r].pc \in {"sum", "append", "cycle", "raise"}
  BY <1>1, ValidateShape, SumDepositsShape, AppendDepositShape, ReadBaselineShape, RaiseBaselineShape
<1>5. \A q \in Request : Counts(q)'
  BY <1>1, <1>4, DoneCountsNothing, CountsNothing
<1> QED BY <1>1, <1>2, <1>3, <1>5, CountedKept DEF DonationInv

LEMMA AdminCounted ==
    ASSUME Serial, PlaceInv, DonationInv, NEW r \in Request,
           OpenCycle(r) \/ \E u \in AdminAdds : AddToOpenCycle(r, u)
    PROVE  DonationInv'
<1>1. Typed /\ CountedInv
  BY DEF PlaceInv, DonationInv
<1>2. \A q \in Request : Counts(q)'
  <2>1. req'[r].pc = "idle"
    BY <1>1, OpenCycleShape, AddToOpenCycleShape, ParticipationAssumption
  <2> QED BY <2>1, CountsNothing
<1>3. CASE OpenCycle(r)
  <2>1. /\ counted' = counted
        /\ \A u \in Gone : part'[u] = NoRow
        /\ \A u \in User \ Gone : part'[u] = part[u]
    BY <1>1, <1>3, OpenCycleShape
  <2>2. \A u \in User : part'[u].status = "AWAITING_INVESTMENT" => part[u].status = "AWAITING_INVESTMENT"
    BY <2>1, NothingTyped
  <2> QED BY <1>1, <1>2, <2>1, <2>2, CountedKept DEF DonationInv
<1>4. CASE \E u \in AdminAdds : AddToOpenCycle(r, u)
  <2>1. PICK u \in AdminAdds : AddToOpenCycle(r, u)
    BY <1>4
  <2>2. u \in User /\ Asked(u) /\ \A v \in User \ {u} : part'[v] = part[v]
    BY <1>1, <2>1, AddToOpenCycleShape, ParticipationAssumption
  <2> QED BY <1>1, <1>2, <2>2, CountedAnew DEF DonationInv
<1> QED BY <1>3, <1>4

LEMMA OthersCounted ==
    ASSUME Serial, PlaceInv, DonationInv,
           \/ UNCHANGED partVars
           \/ \E r \in Request : EndMatch(r) \/ CutShort(r)
           \/ \E u \in User : Refund(u)
           \/ \E d \in Donation : Arrive(d)
    PROVE  DonationInv'
<1>1. Typed /\ CountedInv
  BY DEF PlaceInv, DonationInv
<1>2. CASE UNCHANGED <<part, counted, req>>
  BY <1>2 DEF DonationInv, CountedInv, Counts
<1>3. CASE UNCHANGED partVars
  BY <1>2, <1>3 DEF partVars, ledger
<1>4. CASE \E r \in Request : EndMatch(r) \/ CutShort(r)
  <2>1. PICK r \in Request : EndMatch(r) \/ CutShort(r)
    BY <1>4
  <2>2. part' = part /\ counted' = counted /\ Done(r)
    BY <1>1, <2>1, EndShape DEF Quiet, ledger
  <2> QED BY <1>1, <2>2, CountedKept, DoneCountsNothing DEF DonationInv
<1>5. CASE \E u \in User : Refund(u)
  <2>1. counted' = counted /\ req' = req /\ OnlyStatus
    BY <1>1, <1>5, RefundShape DEF ledger
  <2>2. \A v \in User : part'[v].status = "AWAITING_INVESTMENT" => part[v].status = "AWAITING_INVESTMENT"
    BY <2>1 DEF OnlyStatus
  <2>3. \A q \in Request : Counts(q)'
    BY <2>1 DEF DonationInv, Counts
  <2> QED BY <1>1, <2>1, <2>2, <2>3, CountedKept DEF DonationInv
<1>6. CASE \E d \in Donation : Arrive(d)
  BY <1>1, <1>2, <1>6, ArriveShape DEF ledger
<1> QED BY <1>3, <1>4, <1>5, <1>6

LEMMA DonationStep ==
    ASSUME Serial
    PROVE  PlaceInv /\ DonationInv /\ [PartNext]_partVars => DonationInv'
<1> SUFFICES ASSUME PlaceInv, DonationInv, [PartNext]_partVars PROVE DonationInv'
  OBVIOUS
<1>1. ASSUME NEW r \in Request, NEW u \in User,
             StartCreate(r, u) \/ StartIncrease(r, u) \/ StartOptOut(r, u) \/ StartValidate(r, u)
      PROVE  DonationInv'
  BY <1>1, StartsCounted
<1>2. ASSUME NEW r \in Request,
             \/ Create(r) \/ Increase(r) \/ Delete(r) \/ OptOut(r)
             \/ StartMatch(r) \/ ReadDonations(r) \/ MatchOne(r) \/ BookMatch(r) \/ EndMatch(r)
             \/ Validate(r) \/ SumDeposits(r) \/ AppendDeposit(r) \/ ReadBaseline(r) \/ RaiseBaseline(r)
             \/ OpenCycle(r) \/ CutShort(r)
      PROVE  DonationInv'
  BY <1>2, UpdatesCounted, StartsCounted, MatcherCounted, DepositCounted, AdminCounted, OthersCounted
<1>3. ASSUME NEW r \in Request, NEW u \in AdminAdds, AddToOpenCycle(r, u) PROVE DonationInv'
  BY <1>3, AdminCounted
<1> QED BY <1>1, <1>2, <1>3, OthersCounted DEF PartNext

\* While requests do not overlap, each time a user is asked to pay a donation of
\* that user is booked by the matcher at most once (also a run).
THEOREM DonationsCountOnce ==
    ASSUME Serial PROVE PartSpec => []DonationCountedOnce
<1>1. PartInit => DonationInv
  BY NothingTyped, DonorTyped DEF PartInit, DonationInv, CountedInv, Counts
<1>2. PlaceInv /\ DonationInv /\ [PartNext]_partVars => DonationInv'
  BY DonationStep
<1>3. DonationInv => DonationCountedOnce
  BY DEF DonationInv, CountedInv, DonationCountedOnce
<1> QED BY <1>1, <1>2, <1>3, PlaceAlways, PTL DEF PartSpec

================================================================================
