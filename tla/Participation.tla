----------------------------- MODULE Participation -----------------------------
(***************************************************************************)
(* The standard participations in one Cycle, while it is PLANNED and after *)
(* it was opened: users opt in, ask to invest more, opt out; admins match  *)
(* wallet donations to participations, validate a payment by hand, mark a  *)
(* refund, add a participation to the Open Cycle and open the Cycle.       *)
(*                                                                         *)
(* Every request reads first and writes later; a validation is an update   *)
(* of the participation, an entry in the ledger and, in an Open Cycle, a   *)
(* new baseline, by statements of their own.  Rollover and JingleYield     *)
(* participations are the subject of SettlementMoney.                      *)
(***************************************************************************)
EXTENDS Naturals, FiniteSets, Totals

CONSTANTS
    User,          \* the users who may invest
    Donation,      \* the donations that may arrive in the logistics wallets
    Request,       \* slots for the requests in flight; reused
    NoUser,        \* no user
    NoDonation,    \* the null of walletJournalId
    Donor,         \* Donor[d]: the user who sends d
    Isk,           \* Isk[d]: its amount
    Memo,          \* Memo[d]: how its text compares with the donor's memo
    Ask,           \* Ask[u]: the amounts u may opt in with
    More,          \* the amount of an increase
    AdminAdds,     \* users an admin may add to the Open Cycle
    Validatable,   \* statuses of the participations admins validate by hand
    Refundable,    \* statuses of the participations admins mark as refunded
    PrincipalCap,  \* a user's effective principal cap
    MaximumCap,    \* a user's maximum cap
    MaxRows,       \* bound: participations a user may create, one after another
    MaxFailures    \* bound: how many requests are cut short

PartStatus == {"AWAITING_INVESTMENT", "OPTED_IN", "OPTED_OUT", "REFUNDED"}
MemoKind == {"exact", "contains", "typo", "none"}

\* The API validates and refunds any row; the admin page offers to validate those
\* that await their investment and to refund those that opted out.  A memo
\* identifies one Cycle and one user: a donation that resembles the memo
\* of a user who did not send it is left out.
ASSUME ParticipationAssumption ==
    /\ IsFiniteSet(User) /\ NoUser \notin User
    /\ IsFiniteSet(Donation) /\ NoDonation \notin Donation
    /\ Donor \in [Donation -> User] /\ Isk \in [Donation -> Nat \ {0}]
    /\ Memo \in [Donation -> MemoKind]
    /\ Ask \in [User -> SUBSET (Nat \ {0})] /\ More \in Nat \ {0}
    /\ AdminAdds \subseteq User
    /\ Validatable \subseteq PartStatus /\ Refundable \subseteq PartStatus
    /\ PrincipalCap \in Nat /\ MaximumCap \in Nat /\ MaxRows \in Nat /\ MaxFailures \in Nat

VARIABLES
    cycle,      \* the status of the Cycle
    baseline,   \* its initialCapitalIsk
    part,       \* part[u]: the row of u's participation, or NoRow
    rows,       \* rows[u]: how many participations of u were created
    booked,     \* booked[u]: the sum of the deposits in the ledger for that row
    counted,    \* counted[d]: entries of the matcher that include donation d, since
                \* its donor was last asked to pay (history)
    rematched,  \* users whose donations were matched although deposits of
                \* theirs are in the ledger (history)
    arrived,    \* donations in the wallet journal
    req,        \* req[r]: the local variables of request r
    failures    \* how many requests were cut short

partVars == <<cycle, baseline, part, rows, booked, counted, rematched,
             arrived, req, failures>>
ledger == <<booked, counted, rematched>>

\* id 0: there is no row; validated: validatedAt is not null.
NoRow == [id |-> 0, status |-> "none", amount |-> 0, principal |-> 0,
          validated |-> FALSE, link |-> NoDonation]

\* user, row: what was read; todo: the users the matcher has left, with the rows
\* it read; free: donations it may use; isk, from: the deposit to be booked.
NoRequest == [pc |-> "idle", user |-> NoUser, row |-> NoRow, todo |-> {}, free |-> {},
              isk |-> 0, from |-> {}]

PartPC == {"idle", "create", "increase", "delete", "optOut", "donations", "match", "bookMatch",
           "validate", "sum", "append", "cycle", "raise"}

Row == [id : 0..MaxRows, status : PartStatus \cup {"none"}, amount : Nat, principal : Nat,
        validated : BOOLEAN, link : Donation \cup {NoDonation}]

PartTypeOK ==
    /\ cycle \in {"PLANNED", "OPEN"} /\ baseline \in Nat
    /\ part \in [User -> Row] /\ rows \in [User -> 0..MaxRows]
    /\ booked \in [User -> Nat] /\ counted \in [Donation -> Nat]
    /\ rematched \subseteq User /\ arrived \subseteq Donation
    /\ \A r \in Request :
          /\ req[r].pc \in PartPC /\ req[r].user \in User \cup {NoUser} /\ req[r].row \in Row
          /\ req[r].todo \subseteq [user : User, row : Row]
          /\ req[r].free \subseteq Donation /\ req[r].from \subseteq Donation
          /\ req[r].isk \in Nat
    /\ failures \in 0..MaxFailures

PartInit ==
    /\ cycle = "PLANNED" /\ baseline = 0
    /\ part = [u \in User |-> NoRow] /\ rows = [u \in User |-> 0]
    /\ booked = [u \in User |-> 0] /\ counted = [d \in Donation |-> 0]
    /\ rematched = {} /\ arrived = {}
    /\ req = [r \in Request |-> NoRequest]
    /\ failures = 0

--------------------------------------------------------------------------------
(* Helpers                                                                 *)

Exists(u) == part[u].id # 0
Linked == {part[u].link : u \in User}

Becomes(r, local) == req' = [req EXCEPT ![r] = local]
Done(r) == Becomes(r, NoRequest)

\* A request about u starts in slot r, with the row it has read.
Start(r, pc, u) == req[r].pc = "idle" /\ Becomes(r, [NoRequest EXCEPT !.pc = pc, !.user = u, !.row = part[u]])

\* The next call of r is here, about the row it read: updating a row that was
\* deleted meanwhile throws.
Calls(r, here) == req[r].pc = here
Same(r) == part[req[r].user].id = req[r].row.id

\* One more ledger entry, of isk, for u.
Append(u, isk) == booked' = [booked EXCEPT ![u] = @ + isk]

\* u is asked to pay: what was donated may be matched, once.
Asked(u) == counted' = [d \in Donation |-> IF Donor[d] = u THEN 0 ELSE counted[d]]

\* A row like this one takes the place of u's participation.
Insert(u, status, isk) ==
    /\ Asked(u) /\ rematched' = rematched \ {u}
    /\ rows[u] < MaxRows
    /\ rows' = [rows EXCEPT ![u] = @ + 1]
    /\ part' = [part EXCEPT ![u] = [id |-> rows[u] + 1, status |-> status, amount |-> isk,
                                    principal |-> isk, validated |-> status = "OPTED_IN",
                                    link |-> NoDonation]]

\* The amounts of the users in S.
TotalOf(S) == Total([u \in User |-> part[u].amount], S)

--------------------------------------------------------------------------------
(* Users                                                                   *)

\* createParticipation: the Cycle is read and the caps are checked ...
StartCreate(r, u) == \E isk \in Ask[u] :
    /\ cycle = "PLANNED" /\ ~Exists(u)
    /\ isk <= MaximumCap /\ isk <= PrincipalCap
    /\ req[r].pc = "idle"
    /\ Becomes(r, [NoRequest EXCEPT !.pc = "create", !.user = u, !.isk = isk])
    /\ UNCHANGED <<cycle, baseline, part, rows, ledger, arrived, failures>>

\* ... and the row is created, if it is still the only one of the user.
Create(r) ==
    /\ Calls(r, "create")
    /\ IF Exists(req[r].user) THEN UNCHANGED <<part, rows, counted, rematched>>
       ELSE Insert(req[r].user, "AWAITING_INVESTMENT", req[r].isk)
    /\ Done(r)
    /\ UNCHANGED <<cycle, baseline, booked, arrived, failures>>

\* increaseParticipation, whatever the status of the row ...
StartIncrease(r, u) ==
    /\ Exists(u) /\ cycle = "PLANNED"
    /\ part[u].amount + More <= MaximumCap /\ part[u].principal + More <= PrincipalCap
    /\ Start(r, "increase", u)
    /\ UNCHANGED <<cycle, baseline, part, rows, ledger, arrived, failures>>

\* ... writes totals computed from what was read, and asks for a fresh validation.
Increase(r) ==
    /\ Calls(r, "increase")
    /\ LET u == req[r].user
           row == req[r].row
       IN  IF Same(r)
           THEN /\ part' = [part EXCEPT ![u].amount = row.amount + More,
                                        ![u].principal = row.principal + More,
                                        ![u].status = "AWAITING_INVESTMENT", ![u].validated = FALSE]
                /\ Asked(u)
           ELSE UNCHANGED <<part, counted>>
    /\ Done(r)
    /\ UNCHANGED <<cycle, baseline, rows, booked, rematched, arrived, failures>>

\* optOutParticipation: the Cycle and the status decide what will be done.
StartOptOut(r, u) ==
    /\ Exists(u) /\ cycle = "PLANNED"
    /\ \/ part[u].status = "AWAITING_INVESTMENT" /\ Start(r, "delete", u)
       \/ part[u].status = "OPTED_IN" /\ Start(r, "optOut", u)
    /\ UNCHANGED <<cycle, baseline, part, rows, ledger, arrived, failures>>

\* The ledger entries of a deleted row stay, without a participation.
Delete(r) ==
    /\ Calls(r, "delete")
    /\ IF Same(r)
       THEN /\ part' = [part EXCEPT ![req[r].user] = NoRow]
            /\ booked' = [booked EXCEPT ![req[r].user] = 0]
       ELSE UNCHANGED <<part, booked>>
    /\ Done(r)
    /\ UNCHANGED <<cycle, baseline, rows, counted, rematched, arrived, failures>>

\* Mutant: the status is one the schema does not have.
OptOutCancelled(r) ==
    /\ Calls(r, "optOut")
    /\ part' = IF Same(r) THEN [part EXCEPT ![req[r].user].status = "CANCELLED"] ELSE part
    /\ Done(r)
    /\ UNCHANGED <<cycle, baseline, rows, ledger, arrived, failures>>

\* The payment stays booked; an admin sends it back and marks it as refunded.
OptOut(r) ==
    /\ Calls(r, "optOut")
    /\ part' = IF Same(r) THEN [part EXCEPT ![req[r].user].status = "OPTED_OUT"] ELSE part
    /\ Done(r)
    /\ UNCHANGED <<cycle, baseline, rows, ledger, arrived, failures>>

--------------------------------------------------------------------------------
(* The wallet and the matcher                                              *)

\* The wallet import stores a donation.
Arrive(d) ==
    /\ d \notin arrived
    /\ arrived' = arrived \cup {d}
    /\ UNCHANGED <<cycle, baseline, part, rows, ledger, req, failures>>

\* Mutant: participations that are validated are matched again.
StartMatchAny(r) ==
    LET awaiting == {u \in User : part[u].status \in {"AWAITING_INVESTMENT", "OPTED_IN"}}
    IN  /\ req[r].pc = "idle" /\ awaiting # {}
        /\ Becomes(r, [NoRequest EXCEPT !.pc = "donations",
                          !.todo = {[user |-> u, row |-> part[u]] : u \in awaiting}])
        /\ UNCHANGED <<cycle, baseline, part, rows, ledger, arrived, failures>>

\* matchParticipationPayments: the participations that await their payment ...
StartMatch(r) ==
    LET awaiting == {u \in User : part[u].status = "AWAITING_INVESTMENT"}
    IN  /\ req[r].pc = "idle" /\ awaiting # {}
        /\ Becomes(r, [NoRequest EXCEPT !.pc = "donations",
                          !.todo = {[user |-> u, row |-> part[u]] : u \in awaiting}])
        /\ UNCHANGED <<cycle, baseline, part, rows, ledger, arrived, failures>>

\* ... and the donations that are not linked to a participation.
ReadDonations(r) ==
    /\ Calls(r, "donations")
    /\ Becomes(r, [req[r] EXCEPT !.pc = "match", !.free = arrived \ Linked])
    /\ UNCHANGED <<cycle, baseline, part, rows, ledger, arrived, failures>>

\* How well the memo of d fits; a typo alone is not enough, the amount must be
\* the expected one as well.
Score(d, expected) ==
    (CASE Memo[d] = "exact" -> 1000 [] Memo[d] = "contains" -> 500
       [] Memo[d] = "typo" -> 90 [] OTHER -> 0)
    + IF Isk[d] = expected THEN 50 ELSE 0

Matched(u, expected, free) == {d \in free : Donor[d] = u /\ Score(d, expected) >= 100}

\* The next participation that donations match: their sum becomes its amount,
\* and the best one is linked.
MatchOne(r) == \E t \in req[r].todo :
    LET u == t.user
        match == Matched(u, t.row.amount, req[r].free)
        isk == Total(Isk, match)
    IN  /\ Calls(r, "match")
        /\ IF match = {} THEN Becomes(r, [req[r] EXCEPT !.todo = @ \ {t}]) /\ UNCHANGED <<part, rematched>>
           ELSE IF part[u].id # t.row.id THEN Done(r) /\ UNCHANGED <<part, rematched>>
           ELSE /\ rematched' = IF booked[u] = 0 THEN rematched ELSE rematched \cup {u}
                /\ \E best \in match :
                      /\ \A d \in match : Score(d, t.row.amount) <= Score(best, t.row.amount)
                      /\ part' = [part EXCEPT ![u].amount = isk, ![u].status = "OPTED_IN",
                                              ![u].validated = TRUE, ![u].link = best]
                /\ Becomes(r, [req[r] EXCEPT !.pc = "bookMatch", !.user = u, !.row = t.row,
                                  !.todo = @ \ {t}, !.isk = isk, !.from = match])
        /\ UNCHANGED <<cycle, baseline, rows, booked, counted, arrived, failures>>

\* Its deposit; the donations are used up for the rest of this run.
BookMatch(r) ==
    /\ Calls(r, "bookMatch")
    /\ IF Same(r)
       THEN /\ Append(req[r].user, req[r].isk)
            /\ counted' = [d \in Donation |-> counted[d] + IF d \in req[r].from THEN 1 ELSE 0]
            /\ Becomes(r, [req[r] EXCEPT !.pc = "match", !.free = @ \ req[r].from])
       ELSE Done(r) /\ UNCHANGED <<booked, counted>>
    /\ UNCHANGED <<cycle, baseline, part, rows, rematched, arrived, failures>>

EndMatch(r) ==
    /\ Calls(r, "match") /\ req[r].todo = {}
    /\ Done(r)
    /\ UNCHANGED <<cycle, baseline, part, rows, ledger, arrived, failures>>

--------------------------------------------------------------------------------
(* Admins                                                                  *)

\* adminValidatePayment: a participation that is validated is left alone; the
\* admin names a donation, of anyone, or none ...
StartValidate(r, u) ==
    /\ Exists(u) /\ ~(part[u].status = "OPTED_IN" /\ part[u].validated)
    /\ part[u].status \in Validatable
    /\ req[r].pc = "idle"
    /\ \E from \in {{}} \cup {{d} : d \in arrived} :
          Becomes(r, [NoRequest EXCEPT !.pc = "validate", !.user = u, !.row = part[u], !.from = from])
    /\ UNCHANGED <<cycle, baseline, part, rows, ledger, arrived, failures>>

\* ... which is only a link: the amount stands, whatever was donated ...
Validate(r) ==
    /\ Calls(r, "validate")
    /\ LET u == req[r].user
           from == req[r].from
       IN  IF ~Same(r) THEN Done(r) /\ UNCHANGED part
           ELSE /\ part' = [part EXCEPT ![u].status = "OPTED_IN", ![u].validated = TRUE,
                               ![u].link = IF from = {} THEN NoDonation ELSE CHOOSE d \in from : TRUE]
                /\ Becomes(r, [req[r] EXCEPT !.pc = "sum", !.row = part'[u]])
    /\ UNCHANGED <<cycle, baseline, rows, ledger, arrived, failures>>

\* Mutant: the whole amount is booked, what is in the ledger is not deducted.
SumDepositsWhole(r) ==
    /\ Calls(r, "sum")
    /\ LET u == req[r].user
           new == req[r].row.amount
       IN  IF new <= booked[u] THEN Done(r)
           ELSE Becomes(r, [req[r] EXCEPT !.pc = "append", !.isk = new])
    /\ UNCHANGED <<cycle, baseline, part, rows, ledger, arrived, failures>>

\* ... and what the ledger does not have yet ...
SumDeposits(r) ==
    /\ Calls(r, "sum")
    /\ LET u == req[r].user
           paid == IF Same(r) THEN booked[u] ELSE 0
       IN  IF req[r].row.amount <= paid THEN Done(r)
           ELSE Becomes(r, [req[r] EXCEPT !.pc = "append", !.isk = req[r].row.amount - paid])
    /\ UNCHANGED <<cycle, baseline, part, rows, ledger, arrived, failures>>

\* ... is booked ...
AppendDeposit(r) ==
    /\ Calls(r, "append")
    /\ IF Same(r)
       THEN Append(req[r].user, req[r].isk) /\ Becomes(r, [req[r] EXCEPT !.pc = "cycle"])
       ELSE Done(r) /\ UNCHANGED booked
    /\ UNCHANGED <<cycle, baseline, part, rows, counted, rematched, arrived, failures>>

\* ... and, in an Open Cycle, added to the baseline, which is read here ...
ReadBaseline(r) ==
    /\ Calls(r, "cycle")
    /\ IF cycle = "OPEN" THEN Becomes(r, [req[r] EXCEPT !.pc = "raise", !.isk = baseline + @])
                         ELSE Done(r)
    /\ UNCHANGED <<cycle, baseline, part, rows, ledger, arrived, failures>>

\* ... and written here.
RaiseBaseline(r) ==
    /\ Calls(r, "raise")
    /\ baseline' = req[r].isk
    /\ Done(r)
    /\ UNCHANGED <<cycle, part, rows, ledger, arrived, failures>>

\* adminMarkRefund, which does not look at the status of the row.
Refund(u) ==
    /\ Exists(u) /\ part[u].status \in Refundable
    /\ part' = [part EXCEPT ![u].status = "REFUNDED"]
    /\ UNCHANGED <<cycle, baseline, rows, ledger, arrived, req, failures>>

\* adminCreateParticipationForOpenCycle: one transaction, with the deposit and
\* the baseline of a participation that is marked as paid.
AddToOpenCycle(r, u) == \E isk \in Ask[u], paid \in BOOLEAN :
    /\ cycle = "OPEN" /\ ~Exists(u) /\ req[r].pc = "idle"
    /\ isk <= MaximumCap /\ isk <= PrincipalCap
    /\ Insert(u, IF paid THEN "OPTED_IN" ELSE "AWAITING_INVESTMENT", isk)
    /\ IF paid THEN Append(u, isk) /\ baseline' = baseline + isk
               ELSE UNCHANGED <<booked, baseline>>
    /\ UNCHANGED <<cycle, arrived, req, failures>>

\* Mutant: participations that were never validated are counted as capital.
OpenCycleCountAll(r) ==
    /\ cycle = "PLANNED" /\ req[r].pc = "idle"
    /\ LET gone == {u \in User : part[u].status \in {"AWAITING_INVESTMENT", "REFUNDED"}}
       IN  /\ part' = [u \in User |-> IF u \in gone THEN NoRow ELSE part[u]]
           /\ booked' = [u \in User |-> IF u \in gone THEN 0 ELSE booked[u]]
    /\ cycle' = "OPEN" /\ baseline' = TotalOf(User)
    /\ UNCHANGED <<rows, counted, rematched, arrived, req, failures>>

\* The transaction of openPlannedCycle: what was not validated or was refunded is
\* deleted, and the validated amounts are the baseline.
OpenCycle(r) ==
    /\ cycle = "PLANNED" /\ req[r].pc = "idle"
    /\ LET gone == {u \in User : part[u].status \in {"AWAITING_INVESTMENT", "REFUNDED"}}
       IN  /\ part' = [u \in User |-> IF u \in gone THEN NoRow ELSE part[u]]
           /\ booked' = [u \in User |-> IF u \in gone THEN 0 ELSE booked[u]]
    /\ cycle' = "OPEN"
    /\ baseline' = TotalOf({u \in User : part[u].status = "OPTED_IN" /\ part[u].validated})
    /\ UNCHANGED <<rows, counted, rematched, arrived, req, failures>>

\* An awaited call rejects, or the process dies: what was written stays.
CutShort(r) ==
    /\ req[r].pc # "idle" /\ failures < MaxFailures
    /\ failures' = failures + 1
    /\ Done(r)
    /\ UNCHANGED <<cycle, baseline, part, rows, ledger, arrived>>

--------------------------------------------------------------------------------
PartNext ==
    \/ \E r \in Request, u \in User : StartCreate(r, u) \/ StartIncrease(r, u) \/ StartOptOut(r, u)
                                      \/ StartValidate(r, u)
    \/ \E r \in Request, u \in AdminAdds : AddToOpenCycle(r, u)
    \/ \E r \in Request :
          \/ Create(r) \/ Increase(r) \/ Delete(r) \/ OptOut(r)
          \/ StartMatch(r) \/ ReadDonations(r) \/ MatchOne(r) \/ BookMatch(r) \/ EndMatch(r)
          \/ Validate(r) \/ SumDeposits(r) \/ AppendDeposit(r) \/ ReadBaseline(r) \/ RaiseBaseline(r)
          \/ OpenCycle(r) \/ CutShort(r)
    \/ \E u \in User : Refund(u)
    \/ \E d \in Donation : Arrive(d)

PartSpec == PartInit /\ [][PartNext]_partVars

--------------------------------------------------------------------------------
(* Properties.  Those marked [serial] are promised while requests do not    *)
(* overlap; donations arrive and requests are cut short at any moment.      *)

\* The investment of u that counts as received: its amount once it is validated,
\* what was booked while a new amount awaits its validation.  The account of who
\* is matched again is given up: the code then sets the amount to what it found,
\* and books all of it beside what was booked before.
Received == [u \in User |-> IF u \in rematched THEN 0
                            ELSE IF part[u].validated THEN part[u].amount ELSE booked[u]]
Entered == [u \in User |-> IF u \in rematched THEN 0 ELSE booked[u]]

Account == INSTANCE DepositAccount WITH confirmed <- Received, booked <- Entered

\* [serial] The code books deposits as DepositAccount promises: an amount is
\* confirmed before it is booked, no ISK of it is booked twice although payments
\* are validated by two ways and repeated, and a larger investment is booked by
\* the difference.  So it does for everybody until the matcher finds a payment of
\* a user whose ledger has deposits.
ImplementsDepositAccount == Account!Spec

\* [serial] Each time a user is asked to pay (who opts in, asks for more or is
\* added by an admin) the matcher books a donation of that user at most once,
\* however often it runs, is cut short and runs again, donations arrive late, and
\* admins validate and link by hand.
DonationCountedOnce == \A d \in Donation : counted[d] <= 1

\* [serial] The baseline of the Open Cycle, by which ROI is computed, never counts
\* an investment twice nor one that was not validated: late validations raise it
\* by what was not counted at the opening.
BaselineIsBacked ==
    cycle = "OPEN" => baseline <= TotalOf({u \in User : part[u].validated})

\* "If payment received, mark for refund" (participation.service.ts:945): a user
\* whose payment is in the ledger does not lose the row that says so, unless the
\* payment was refunded.
PaymentNotForgotten ==
    [][\A u \in User : Exists(u) /\ part'[u].id # part[u].id =>
          booked[u] = 0 \/ part[u].status = "REFUNDED"]_partVars

================================================================================
