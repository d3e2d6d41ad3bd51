------------------------- MODULE SettlementMoneyProofs -------------------------
(***************************************************************************)
(* What SettlementMoney promises, for every set of investors and any       *)
(* amounts.  Type correctness holds for any number of overlapping          *)
(* requests; the rest assumes that an admin waits for one request to end.  *)
(***************************************************************************)
EXTENDS SettlementMoney, TotalsProofs

SourceRow == [status : {"OPTED_IN", "OPTED_OUT", "AWAITING_PAYOUT", "COMPLETED"},
              payout : Int \cup {NoIsk}, deducted : Int \cup {NoIsk}, paid : BOOLEAN]
TargetRow == [type : IntentType \cup {"none", "OTHER"}, extra : Nat, amount : Int \cup {NoIsk}]
ProgramRow == [active : BOOLEAN, last : BOOLEAN, interest : Nat, repaid : Nat]
Rollovers == [user : User \cup {NoUser}, rolled : Int, left : Nat, paid : BOOLEAN]

Local == [pc : {"idle", "compute", "interest", "persist", "ensure", "auto", "jingle",
                "select", "read", "target", "source"},
          kind : {"none", "settle", "finalize", "backfill"},
          payouts : SUBSET Payout, todo : SUBSET User, active : SUBSET JingleYield,
          now : Rollovers]

\* Interest is counted for those who earned some.
Earned(local) == local.pc = "interest" => \A p \in local.payouts : p.user \in local.todo => p.share > 0

Rows == source \in [User -> SourceRow] /\ target \in [User -> TargetRow] /\ program \in [User -> ProgramRow]

Requests ==
    /\ req \in [Request -> Local] /\ landing \in [Request -> SUBSET Payout]
    /\ \A r \in Request : Earned(req[r])

TypedInv == profit \in Profits /\ Rows /\ Requests /\ settled \in BOOLEAN /\ failures \in 0..MaxFailures

--------------------------------------------------------------------------------
(* Amounts                                                                 *)

\* The capital of some investors is positive.
LEMMA CapitalIsPositive ==
    ASSUME NEW S \in SUBSET User, NEW u \in S
    PROVE  /\ Total(Invested, S) \in Nat \ {0} /\ Invested[u] <= Total(Invested, S)
           /\ Invested[u] \in Nat \ {0}
<1>1. IsFiniteSet(S) /\ \A v \in S : Invested[v] \in Nat \ {0}
  BY MoneyAssumption, FS_Subset
<1>2. Invested[u] <= Total(Invested, S) /\ Total(Invested, S) \in Nat
  BY <1>1, TotalBoundsEach, UnitsFinite
<1> QED BY <1>1, <1>2

\* A share is an amount.
LEMMA ShareIsInt ==
    ASSUME profit \in Profits, NEW S \in SUBSET User, NEW u \in S
    PROVE  ProfitShare(u, S) \in Int
<1> DEFINE capital == Total(Invested, S)
<1>1. capital \in Nat \ {0} /\ Invested[u] \in Nat /\ profit \in Int
  BY CapitalIsPositive, MoneyAssumption
<1> HIDE DEF capital
<1>2. 2 * profit * Invested[u] + capital \in Int /\ 2 * capital \in Nat \ {0}
  BY <1>1
<1>3. (2 * profit * Invested[u] + capital) \div (2 * capital) \in Int
  BY <1>2
<1> QED BY <1>3 DEF ProfitShare, capital

LEMMA PayoutsTyped ==
    ASSUME profit \in Profits, NEW S \in SUBSET User
    PROVE  Payouts(S) \in SUBSET Payout
<1> SUFFICES ASSUME NEW u \in S
             PROVE  [user |-> u, share |-> ProfitShare(u, S), isk |-> Invested[u] + ProfitShare(u, S)] \in Payout
  BY DEF Payouts
<1>1. ProfitShare(u, S) \in Int /\ Invested[u] \in Int
  BY ShareIsInt, MoneyAssumption
<1> QED BY <1>1 DEF Payout

\* What is rolled over is an amount; so is what is left of the payout.
LEMMA RolledIsInt ==
    ASSUME TypedInv, NEW u \in User, NEW active, NEW payout \in Int
    PROVE  Rolled(u, active, payout) \in Int
<1>1. /\ target[u].extra \in Nat /\ Cap \in Nat /\ Invested[u] \in Int /\ Custom[u] \in Int
      /\ Locked[u] \in Int
  BY MoneyAssumption DEF TypedInv, Rows, TargetRow
<1>2. Intended(u, payout) \in Int
  BY <1>1 DEF Intended, AtMost
<1>3. WithProgram(u, active, Intended(u, payout), payout) \in Int
  BY <1>1, <1>2 DEF WithProgram, AtMost, AtLeast
<1> QED BY <1>1, <1>3 DEF Rolled, AtMost

LEMMA PayoutOfOne ==
    ASSUME NEW S, NEW p \in Payouts(S)
    PROVE  p.user \in S
  BY DEF Payouts

\* A computation has one payout for each user.
LEMMA PayoutsDiffer ==
    ASSUME NEW S, NEW p \in Payouts(S), NEW q \in Payouts(S), p.user = q.user
    PROVE  p = q
<1>1. PICK u \in S : p = [user |-> u, share |-> ProfitShare(u, S), isk |-> Invested[u] + ProfitShare(u, S)]
  BY DEF Payouts
<1>2. PICK v \in S : q = [user |-> v, share |-> ProfitShare(v, S), isk |-> Invested[v] + ProfitShare(v, S)]
  BY DEF Payouts
<1>3. u = v
  BY <1>1, <1>2
<1> QED BY <1>1, <1>2, <1>3

--------------------------------------------------------------------------------
(* Type correctness                                                        *)

LEMMA NothingTyped ==
    /\ NoRequest \in Local /\ NoRequest.pc = "idle" /\ NoRequest.kind = "none"
    /\ NoRequest.payouts = {} /\ NoRequest.todo = {} /\ NoRequest.now = NoRollover
    /\ NoRollover \in Rollovers
<1>1. NoRollover \in Rollovers
  BY DEF NoRollover, Rollovers
<1> QED BY <1>1 DEF NoRequest, Local

LEMMA TypedStart == MoneyInit => TypedInv
<1> SUFFICES ASSUME MoneyInit PROVE TypedInv
  OBVIOUS
<1>1. source \in [User -> SourceRow]
  BY DEF MoneyInit, SourceRow
<1>2. target \in [User -> TargetRow]
  <2>1. \A u \in User : Choice(u) \subseteq TargetRow
    <3> SUFFICES ASSUME NEW u \in User, NEW c \in Choice(u) PROVE c \in TargetRow
      OBVIOUS
    <3>1. Extra[u] \in Nat
      BY MoneyAssumption
    <3> QED BY <3>1 DEF Choice, TargetRow, IntentType
  <2>2. target \in [User -> UNION {Choice(u) : u \in User}] /\ \A u \in User : target[u] \in Choice(u)
    BY DEF MoneyInit
  <2> QED BY <2>1, <2>2
<1>3. program \in [User -> ProgramRow]
  <2>1. PICK S \in SUBSET JingleYield :
            program = [u \in User |-> [active |-> u \in JingleYield, last |-> u \in S,
                                       interest |-> 0, repaid |-> 0]]
    BY DEF MoneyInit
  <2> QED BY <2>1 DEF ProgramRow
<1>4. Requests
  BY NothingTyped DEF MoneyInit, Requests, Earned
<1>5. profit \in Profits /\ settled = FALSE /\ failures = 0
  BY DEF MoneyInit
<1>6. settled \in BOOLEAN /\ failures \in 0..MaxFailures
  <2>1. MaxFailures \in Nat
    BY MoneyAssumption
  <2>2. failures \in 0..MaxFailures
    BY <1>5, <2>1
  <2> QED BY <1>5, <2>2, Zenon
<1> QED
  BY <1>1, <1>2, <1>3, <1>4, <1>5, <1>6 DEF TypedInv, Rows

\* A step that changes the variables of one request only.
LEMMA LocalStep ==
    ASSUME TypedInv, NEW r \in Request, NEW new \in Local, Earned(new), Becomes(r, new),
           UNCHANGED <<profit, rows, landing>>, settled' \in BOOLEAN, failures' \in 0..MaxFailures
    PROVE  TypedInv'
<1>1. req' \in [Request -> Local] /\ \A q \in Request : req'[q] = IF q = r THEN new ELSE req[q]
  BY DEF TypedInv, Requests, Becomes
<1> QED BY <1>1 DEF TypedInv, Rows, Requests, rows, Earned

\* The step that a request has taken in its own variables.
LEMMA FieldsTyped ==
    ASSUME TypedInv, NEW r \in Request
    PROVE  /\ req[r] \in Local
           /\ req[r].pc \in {"idle", "compute", "interest", "persist", "ensure", "auto", "jingle",
                             "select", "read", "target", "source"}
           /\ req[r].kind \in {"none", "settle", "finalize", "backfill"}
           /\ req[r].payouts \in SUBSET Payout /\ req[r].todo \in SUBSET User
           /\ req[r].active \in SUBSET JingleYield /\ req[r].now \in Rollovers
           /\ landing[r] \in SUBSET Payout
  BY DEF TypedInv, Requests, Local

LEMMA AfterPayoutsTyped ==
    ASSUME TypedInv, NEW r \in Request
    PROVE  AfterPayouts(r) \in Local /\ AfterPayouts(r).pc \in {"auto", "idle"} /\ Earned(AfterPayouts(r))
<1>1. CASE req[r].kind = "settle"
  <2>1. AfterPayouts(r) = [req[r] EXCEPT !.pc = "auto", !.payouts = {}, !.todo = {}]
    BY <1>1 DEF AfterPayouts
  <2> QED BY <2>1, FieldsTyped DEF Local, Earned
<1>2. CASE req[r].kind # "settle"
  BY <1>2, NothingTyped DEF AfterPayouts, Earned
<1> QED BY <1>1, <1>2

LEMMA StartTyped ==
    ASSUME TypedInv, NEW r \in Request, StartSettle(r) \/ StartFinalize(r) \/ StartBackfill(r)
    PROVE  TypedInv'
<1>1. PICK kind \in {"settle", "finalize", "backfill"}, pc \in {"compute", "ensure"} : Start(r, kind, pc)
  BY DEF StartSettle, StartFinalize, StartBackfill
<1> DEFINE new == [NoRequest EXCEPT !.kind = kind, !.pc = pc]
<1>2. new \in Local /\ new.pc = pc
  BY NothingTyped DEF Local
<1>3. Becomes(r, new) /\ UNCHANGED <<profit, rows, landing, failures>>
  BY <1>1 DEF Start
<1>4. Earned(new)
  BY <1>2 DEF Earned
<1>5. settled' \in BOOLEAN /\ failures' \in 0..MaxFailures
  BY <1>3 DEF StartSettle, StartFinalize, StartBackfill, TypedInv
<1> HIDE DEF new
<1> QED BY <1>2, <1>3, <1>4, <1>5, LocalStep

LEMMA ComputeTyped == ASSUME TypedInv, NEW r \in Request, Compute(r) PROVE TypedInv'
<1> DEFINE S == {u \in User : source[u].status = "OPTED_IN"}
           todo == IF req[r].kind = "settle" THEN Earning(Payouts(S)) ELSE {}
           new == [req[r] EXCEPT !.pc = "interest", !.payouts = Payouts(S), !.todo = todo]
<1>1. Payouts(S) \in SUBSET Payout
  BY PayoutsTyped DEF TypedInv
<1>2. todo \in SUBSET User
  BY <1>1 DEF Earning, Payout
<1>3. \A p \in Payouts(S) : p.user \in todo => p.share > 0
  <2> QED BY PayoutsDiffer DEF Earning
<1>4. Becomes(r, new) /\ UNCHANGED <<profit, rows, landing, settled, failures>>
  BY DEF Compute
<1> HIDE DEF todo, S
<1>5. new \in Local /\ new.payouts = Payouts(S) /\ new.todo = todo
  BY <1>1, <1>2, FieldsTyped DEF Local
<1> HIDE DEF new
<1>6. Earned(new)
  BY <1>3, <1>5 DEF Earned
<1> QED BY <1>4, <1>5, <1>6, LocalStep DEF TypedInv

LEMMA SelectTyped == ASSUME TypedInv, NEW r \in Request, Select(r) PROVE TypedInv'
<1> DEFINE todo == {u \in User : target[u].type \in IntentType /\ source[u].deducted = NoIsk}
           active == {u \in JingleYield : program[u].active}
           new == [req[r] EXCEPT !.pc = "read", !.todo = todo, !.active = active]
<1>1. Becomes(r, new) /\ UNCHANGED <<profit, rows, landing, settled, failures>>
  BY DEF Select
<1>2. todo \in SUBSET User /\ active \in SUBSET JingleYield
  OBVIOUS
<1> HIDE DEF todo, active
<1>3. new \in Local /\ new.pc = "read"
  BY <1>2, FieldsTyped DEF Local
<1> HIDE DEF new
<1>4. Earned(new)
  BY <1>3 DEF Earned
<1> QED BY <1>1, <1>3, <1>4, LocalStep DEF TypedInv

\* The rollover that ReadPayout makes of the payout of u.
Next(r, u) ==
    LET payout == source[u].payout
        rolled == Rolled(u, req[r].active, payout)
    IN  [user |-> u, rolled |-> rolled, left |-> payout - AtMost(rolled, payout),
         paid |-> source[u].paid \/ source[u].status = "COMPLETED"]

LEMMA NextTyped ==
    ASSUME TypedInv, NEW r \in Request, NEW u \in User, source[u].payout # NoIsk
    PROVE  Next(r, u) \in Rollovers
<1> DEFINE rolled == Rolled(u, req[r].active, source[u].payout)
           left == source[u].payout - AtMost(rolled, source[u].payout)
           paid == source[u].paid \/ source[u].status = "COMPLETED"
<1>1. source[u].payout \in Int
  BY DEF TypedInv, Rows, SourceRow
<1>2. rolled \in Int
  BY <1>1, RolledIsInt
<1> HIDE DEF rolled
<1>3. left \in Nat
  BY <1>1, <1>2 DEF AtMost
<1>4. paid \in BOOLEAN
  BY Zenon
<1> HIDE DEF left, paid
<1>5. [user |-> u, rolled |-> rolled, left |-> left, paid |-> paid] \in Rollovers
  BY <1>2, <1>3, <1>4 DEF Rollovers
<1> QED BY <1>5 DEF Next, rolled, left, paid

LEMMA ReadPayoutShape ==
    ASSUME TypedInv, NEW r \in Request, ReadPayout(r)
    PROVE  \E u \in req[r].todo :
              /\ req[r].pc = "read" /\ UNCHANGED <<profit, rows, landing, settled, failures>>
              /\ IF source[u].payout = NoIsk THEN Becomes(r, NoRequest)
                 ELSE Becomes(r, [req[r] EXCEPT !.pc = "target", !.todo = @ \ {u}, !.now = Next(r, u)])
  BY Zenon DEF ReadPayout, Next

LEMMA ReadPayoutTyped == ASSUME TypedInv, NEW r \in Request, ReadPayout(r) PROVE TypedInv'
<1>1. PICK u \in req[r].todo :
          /\ req[r].pc = "read" /\ UNCHANGED <<profit, rows, landing, settled, failures>>
          /\ IF source[u].payout = NoIsk THEN Becomes(r, NoRequest)
             ELSE Becomes(r, [req[r] EXCEPT !.pc = "target", !.todo = @ \ {u}, !.now = Next(r, u)])
  BY ReadPayoutShape
<1>2. u \in User /\ settled' \in BOOLEAN /\ failures' \in 0..MaxFailures
  BY <1>1, FieldsTyped DEF TypedInv
<1>3. CASE source[u].payout = NoIsk
  <2>1. Earned(NoRequest)
    BY NothingTyped DEF Earned
  <2> QED BY <1>1, <1>2, <1>3, <2>1, NothingTyped, LocalStep
<1>4. CASE source[u].payout # NoIsk
  <2> DEFINE new == [req[r] EXCEPT !.pc = "target", !.todo = @ \ {u}, !.now = Next(r, u)]
  <2>1. Next(r, u) \in Rollovers
    BY <1>2, <1>4, NextTyped
  <2>2. new \in Local /\ new.pc = "target"
    BY <2>1, FieldsTyped DEF Local
  <2>3. Becomes(r, new)
    BY <1>1, <1>4
  <2> HIDE DEF new
  <2>4. Earned(new)
    BY <2>2 DEF Earned
  <2> QED BY <1>1, <1>2, <2>2, <2>3, <2>4, LocalStep
<1> QED BY <1>3, <1>4

LEMMA LeaveTyped ==
    ASSUME TypedInv, NEW r \in Request, Persisted(r) \/ EndRollovers(r) \/ FailCall(r)
    PROVE  TypedInv'
<1>1. Becomes(r, NoRequest) \/ Becomes(r, AfterPayouts(r))
  BY DEF Persisted, EndRollovers, FailCall
<1>2. UNCHANGED <<profit, rows, landing, settled>>
  BY DEF Persisted, EndRollovers, FailCall
<1>3. failures' \in 0..MaxFailures
  BY MoneyAssumption DEF Persisted, EndRollovers, FailCall, MayFail, TypedInv
<1>4. Earned(NoRequest)
  BY NothingTyped DEF Earned
<1> QED BY <1>1, <1>2, <1>3, <1>4, NothingTyped, AfterPayoutsTyped, LocalStep DEF TypedInv

\* A step that changes one request, or none, and the rows.
LEMMA RowsStep ==
    ASSUME TypedInv, Rows', UNCHANGED <<profit, landing, settled>>, failures' \in 0..MaxFailures,
           \/ UNCHANGED req
           \/ \E r \in Request : \E new \in Local : Becomes(r, new) /\ Earned(new)
    PROVE  TypedInv'
<1>1. req' \in [Request -> Local] /\ \A q \in Request : Earned(req'[q])
  <2>1. CASE UNCHANGED req
    BY <2>1 DEF TypedInv, Requests
  <2>2. CASE \E r \in Request : \E new \in Local : Becomes(r, new) /\ Earned(new)
    <3>1. PICK r \in Request, new \in Local : Becomes(r, new) /\ Earned(new)
      BY <2>2
    <3>2. req' \in [Request -> Local] /\ \A q \in Request : req'[q] = IF q = r THEN new ELSE req[q]
      BY <3>1 DEF TypedInv, Requests, Becomes
    <3> QED BY <3>1, <3>2 DEF TypedInv, Requests
  <2> QED BY <2>1, <2>2
<1> QED BY <1>1 DEF TypedInv, Requests, Earned

\* The effect of counting the interest of payout p on the programs.
Counts(p) ==
    \/ program' = program
    \/ /\ program[p.user].active
       /\ \E active \in BOOLEAN,
             repaid \in {program[p.user].repaid, program[p.user].repaid + Locked[p.user]} :
             program' = [program EXCEPT ![p.user].interest = program[p.user].interest + p.share,
                                        ![p.user].active = active, ![p.user].repaid = repaid]

LEMMA InterestShape ==
    ASSUME TypedInv, NEW r \in Request, CountInterest(r)
    PROVE  /\ req[r].pc = "interest" /\ UNCHANGED <<profit, source, target, landing, settled, failures>>
           /\ \E p \in req[r].payouts :
                 /\ p.user \in req[r].todo /\ p.user \in User /\ p.share \in Nat /\ Counts(p)
                 /\ Becomes(r, [req[r] EXCEPT !.todo = @ \ {p.user}])
<1>1. PICK p \in {q \in req[r].payouts : q.user \in req[r].todo} :
          /\ req[r].pc = "interest"
          /\ LET u == p.user
                 earned == program[u].interest + p.share
                 done == earned >= Locked[u] \/ program[u].last
             IN  program' = IF ~program[u].active THEN program
                            ELSE [program EXCEPT ![u].interest = earned, ![u].active = ~done,
                                                 ![u].repaid = IF done THEN @ + Locked[u] ELSE @]
          /\ Becomes(r, [req[r] EXCEPT !.todo = @ \ {p.user}])
          /\ UNCHANGED <<profit, source, target, landing, settled, failures>>
  BY DEF CountInterest
<1>2. p \in req[r].payouts /\ p.user \in req[r].todo
  OBVIOUS
<1>3. p.user \in User /\ p.share \in Int
  BY <1>2, FieldsTyped DEF Payout
<1>4. p.share > 0
  BY <1>1, <1>2 DEF TypedInv, Requests, Earned
<1>5. p.share \in Nat
  BY <1>3, <1>4
<1>6. Counts(p)
  <2> DEFINE u == p.user
             earned == program[u].interest + p.share
             done == earned >= Locked[u] \/ program[u].last
             active == ~done
             repaid == IF done THEN program[u].repaid + Locked[u] ELSE program[u].repaid
  <2>1. CASE program[u].active
    <3>1. program' = [program EXCEPT ![u].interest = earned, ![u].active = active, ![u].repaid = repaid]
      BY <1>1, <1>3, <2>1 DEF TypedInv, Rows
    <3>2. active \in BOOLEAN
      BY Zenon
    <3> HIDE DEF active, done
    <3>3. repaid \in {program[u].repaid, program[u].repaid + Locked[u]}
      OBVIOUS
    <3> HIDE DEF repaid
    <3> QED BY <2>1, <3>1, <3>2, <3>3, Zenon DEF Counts
  <2>2. CASE ~program[u].active
    <3>1. program' = program
      BY <1>1, <2>2
    <3> QED BY <3>1 DEF Counts
  <2> QED BY <2>1, <2>2
<1> QED BY <1>1, <1>2, <1>3, <1>5, <1>6, Zenon

LEMMA InterestTyped == ASSUME TypedInv, NEW r \in Request, CountInterest(r) PROVE TypedInv'
<1>1. PICK p \in req[r].payouts :
          /\ p.user \in req[r].todo /\ p.user \in User /\ p.share \in Nat /\ Counts(p)
          /\ Becomes(r, [req[r] EXCEPT !.todo = @ \ {p.user}])
  BY InterestShape
<1>2. Rows'
  <2> DEFINE u == p.user
  <2>0. u \in User /\ program \in [User -> ProgramRow] /\ program[u] \in ProgramRow /\ Locked[u] \in Nat
        /\ p.share \in Nat /\ UNCHANGED <<source, target>>
    BY <1>1, InterestShape, MoneyAssumption DEF TypedInv, Rows
  <2>1. CASE program' = program
    BY <2>0, <2>1 DEF TypedInv, Rows
  <2>2. CASE program' # program
    <3>1. PICK active \in BOOLEAN, repaid \in {program[u].repaid, program[u].repaid + Locked[u]} :
              program' = [program EXCEPT ![u].interest = program[u].interest + p.share,
                                         ![u].active = active, ![u].repaid = repaid]
      BY <1>1, <2>2 DEF Counts
    <3>3. program[u].interest + p.share \in Nat /\ repaid \in Nat
      BY <2>0 DEF ProgramRow
    <3> HIDE DEF u
    <3>4. program' \in [User -> ProgramRow]
      BY <2>0, <3>1, <3>3 DEF ProgramRow
    <3> QED BY <2>0, <3>4 DEF TypedInv, Rows
  <2> QED BY <2>1, <2>2
<1> DEFINE new == [req[r] EXCEPT !.todo = @ \ {p.user}]
<1>3. new \in Local /\ new.todo \subseteq req[r].todo /\ new.payouts = req[r].payouts /\ new.pc = "interest"
  BY InterestShape, FieldsTyped DEF Local
<1>4. Becomes(r, new)
  BY <1>1
<1> HIDE DEF new
<1>5. Earned(new)
  BY <1>3, InterestShape DEF TypedInv, Requests, Earned
<1> QED BY <1>2, <1>3, <1>4, <1>5, InterestShape, RowsStep DEF TypedInv

LEMMA LandTyped ==
    ASSUME TypedInv, NEW r \in Request, Issue(r) \/ Land(r) \/ FailLanding(r)
    PROVE  TypedInv'
<1>1. CASE Issue(r)
  <2> DEFINE new == [req[r] EXCEPT !.pc = "persist"]
  <2>1. new \in Local /\ new.pc = "persist"
    BY FieldsTyped DEF Local
  <2>2. Becomes(r, new) /\ landing' = [landing EXCEPT ![r] = req[r].payouts]
        /\ UNCHANGED <<profit, rows, settled, failures>>
    BY <1>1 DEF Issue
  <2> HIDE DEF new
  <2>3. landing' \in [Request -> SUBSET Payout]
    BY <2>2, FieldsTyped DEF TypedInv, Requests
  <2>4. req' \in [Request -> Local] /\ \A q \in Request : req'[q] = IF q = r THEN new ELSE req[q]
    BY <2>1, <2>2 DEF TypedInv, Requests, Becomes
  <2>5. Requests'
    BY <2>1, <2>3, <2>4 DEF TypedInv, Requests, Earned
  <2> QED BY <2>2, <2>5 DEF TypedInv, Rows, rows
<1>2. CASE Land(r)
  <2>1. PICK p \in landing[r] :
            /\ landing' = [landing EXCEPT ![r] = @ \ {p}]
            /\ source' = [source EXCEPT ![p.user].payout = p.isk, ![p.user].status = "AWAITING_PAYOUT"]
            /\ UNCHANGED <<profit, target, program, req, settled, failures>>
    BY <1>2 DEF Land
  <2>2. p \in Payout
    BY FieldsTyped
  <2>3. landing' \in [Request -> SUBSET Payout]
    BY <2>1, FieldsTyped DEF TypedInv, Requests
  <2>4. source' \in [User -> SourceRow]
    BY <2>1, <2>2 DEF TypedInv, Rows, SourceRow, Payout
  <2> QED BY <2>1, <2>3, <2>4 DEF TypedInv, Rows, Requests
<1>3. CASE FailLanding(r)
  <2>1. PICK p \in landing[r] :
            /\ MayFail
            /\ landing' = [landing EXCEPT ![r] = @ \ {p}]
            /\ IF req[r].pc = "persist" THEN Becomes(r, AfterPayouts(r)) ELSE UNCHANGED req
            /\ UNCHANGED <<profit, rows, settled>>
    BY <1>3 DEF FailLanding
  <2>2. landing' \in [Request -> SUBSET Payout]
    BY <2>1, FieldsTyped DEF TypedInv, Requests
  <2>3. req' \in [Request -> Local] /\ \A q \in Request : Earned(req'[q])
    <3>1. CASE req[r].pc = "persist"
      <4>1. req' \in [Request -> Local]
            /\ \A q \in Request : req'[q] = IF q = r THEN AfterPayouts(r) ELSE req[q]
        BY <2>1, <3>1, AfterPayoutsTyped DEF TypedInv, Requests, Becomes
      <4> QED BY <4>1, AfterPayoutsTyped DEF TypedInv, Requests
    <3>2. CASE req[r].pc # "persist"
      BY <2>1, <3>2 DEF TypedInv, Requests
    <3> QED BY <3>1, <3>2
  <2>4. failures' \in 0..MaxFailures
    BY <2>1, MoneyAssumption DEF MayFail, TypedInv
  <2> QED BY <2>1, <2>2, <2>3, <2>4 DEF TypedInv, Rows, Requests, rows, Earned
<1> QED BY <1>1, <1>2, <1>3

\* The participations that are created for the rollover.
LEMMA CreateTyped ==
    ASSUME TypedInv, NEW eligible \in SUBSET User, NEW type,
           \A u \in eligible : type[u] \in IntentType, Create(eligible, type)
    PROVE  /\ target' \in [User -> TargetRow] /\ failures' \in 0..MaxFailures
           /\ \A u \in User : \/ target'[u] = target[u]
                              \/ u \in eligible /\ target'[u] = [type |-> type[u], extra |-> 0, amount |-> NoIsk]
<1>1. PICK done \in SUBSET eligible :
          /\ target' = [u \in User |-> IF u \in done
                                       THEN [type |-> type[u], extra |-> 0, amount |-> NoIsk]
                                       ELSE target[u]]
          /\ failures' = IF done = eligible THEN failures ELSE failures + 1
          /\ failures' <= MaxFailures
  BY DEF Create
<1>2. \A u \in done : [type |-> type[u], extra |-> 0, amount |-> NoIsk] \in TargetRow
  BY DEF TargetRow
<1>3. target' \in [User -> TargetRow]
  BY <1>1, <1>2 DEF TypedInv, Rows
<1>4. failures' \in 0..MaxFailures
  BY <1>1, MoneyAssumption DEF TypedInv
<1> QED BY <1>1, <1>3, <1>4

LEMMA EnsureShape ==
    ASSUME TypedInv, NEW r \in Request, Ensure(r) \/ EnsureAuto(r) \/ EnsureJingle(r)
    PROVE  /\ target' \in [User -> TargetRow] /\ failures' \in 0..MaxFailures
           /\ \A u \in User : \/ target'[u] = target[u]
                              \/ /\ target[u].type = "none" /\ target'[u].type \in IntentType
                                 /\ target'[u].extra = 0 /\ target'[u].amount = NoIsk
           /\ UNCHANGED <<profit, source, program, landing, settled>>
           /\ req[r].pc \in {"ensure", "auto", "jingle"}
           /\ \E pc \in {"auto", "jingle", "select", "idle"} :
                 Becomes(r, IF pc = "idle" THEN NoRequest ELSE [req[r] EXCEPT !.pc = pc])
<1>1. /\ UNCHANGED <<profit, source, program, landing, settled>>
      /\ req[r].pc \in {"ensure", "auto", "jingle"}
      /\ \E pc \in {"auto", "jingle", "select", "idle"} :
            Becomes(r, IF pc = "idle" THEN NoRequest ELSE [req[r] EXCEPT !.pc = pc])
  BY DEF Ensure, EnsureAuto, EnsureJingle
<1>2. CASE CreateJingle
  <2> DEFINE eligible == {u \in JingleYield : program[u].active /\ target[u].type = "none"}
             type == [u \in User |-> "INITIAL_ONLY"]
  <2>1. eligible \in SUBSET User /\ \A u \in eligible : type[u] \in IntentType /\ target[u].type = "none"
    BY MoneyAssumption DEF IntentType
  <2>2. Create(eligible, type)
    BY <1>2 DEF CreateJingle
  <2> HIDE DEF eligible, type
  <2>3. /\ target' \in [User -> TargetRow] /\ failures' \in 0..MaxFailures
        /\ \A u \in User : \/ target'[u] = target[u]
                           \/ u \in eligible /\ target'[u] = [type |-> type[u], extra |-> 0, amount |-> NoIsk]
    BY <2>1, <2>2, CreateTyped
  <2> QED BY <1>1, <2>1, <2>3
<1>3. CASE EnsureAuto(r)
  <2> DEFINE eligible == {u \in User : /\ AutoRollover[u] # "none" /\ target[u].type = "none"
                                       /\ source[u].status \in {"OPTED_IN", "AWAITING_PAYOUT", "COMPLETED"}}
  <2>1. eligible \in SUBSET User /\ \A u \in eligible : AutoRollover[u] \in IntentType /\ target[u].type = "none"
    BY MoneyAssumption DEF IntentType
  <2>2. Create(eligible, AutoRollover)
    BY <1>3 DEF EnsureAuto
  <2> HIDE DEF eligible
  <2>3. /\ target' \in [User -> TargetRow] /\ failures' \in 0..MaxFailures
        /\ \A u \in User : \/ target'[u] = target[u]
                           \/ /\ u \in eligible
                              /\ target'[u] = [type |-> AutoRollover[u], extra |-> 0, amount |-> NoIsk]
    BY <2>1, <2>2, CreateTyped
  <2> QED BY <1>1, <2>1, <2>3
<1> QED BY <1>2, <1>3 DEF Ensure, EnsureJingle

LEMMA EnsureTyped ==
    ASSUME TypedInv, NEW r \in Request, Ensure(r) \/ EnsureAuto(r) \/ EnsureJingle(r)
    PROVE  TypedInv'
<1>1. PICK pc \in {"auto", "jingle", "select", "idle"} :
          Becomes(r, IF pc = "idle" THEN NoRequest ELSE [req[r] EXCEPT !.pc = pc])
  BY EnsureShape
<1> DEFINE new == IF pc = "idle" THEN NoRequest ELSE [req[r] EXCEPT !.pc = pc]
<1>2. new \in Local /\ new.pc = pc
  <2>1. CASE pc = "idle"
    BY <2>1, NothingTyped
  <2>2. CASE pc # "idle"
    BY <2>2, FieldsTyped DEF Local
  <2> QED BY <2>1, <2>2
<1>3. Becomes(r, new)
  BY <1>1
<1> HIDE DEF new
<1>4. Earned(new)
  BY <1>2 DEF Earned
<1>5. Rows'
  BY EnsureShape DEF TypedInv, Rows
<1> QED BY <1>2, <1>3, <1>4, <1>5, EnsureShape, RowsStep

\* A step of the rollover itself, in its target and in its source.
LEMMA UpdateTyped ==
    ASSUME TypedInv, NEW r \in Request, UpdateTarget(r) \/ UpdateSource(r)
    PROVE  TypedInv'
<1> DEFINE k == req[r].now
<1>0. /\ k \in Rollovers /\ k.user \in User \cup {NoUser} /\ k.rolled \in Int /\ k.left \in Nat
      /\ k.paid \in BOOLEAN
  BY FieldsTyped DEF Rollovers
<1>1. CASE UpdateTarget(r)
  <2> DEFINE new == [req[r] EXCEPT !.pc = "source"]
  <2>1. new \in Local /\ new.pc = "source"
    BY FieldsTyped DEF Local
  <2>2. target' = [target EXCEPT ![k.user].amount = k.rolled] /\ Becomes(r, new)
        /\ UNCHANGED <<profit, source, program, landing, settled, failures>>
    BY <1>1 DEF UpdateTarget
  <2> HIDE DEF new, k
  <2>3. target' \in [User -> TargetRow]
    BY <1>0, <2>2 DEF TypedInv, Rows, TargetRow
  <2>4. Earned(new)
    BY <2>1 DEF Earned
  <2> QED BY <2>1, <2>2, <2>3, <2>4, RowsStep DEF TypedInv, Rows
<1>2. CASE UpdateSource(r)
  <2> DEFINE new == [req[r] EXCEPT !.pc = "read", !.now = NoRollover]
             status == IF k.paid \/ k.left = 0 THEN "COMPLETED" ELSE "AWAITING_PAYOUT"
             paid == k.paid \/ k.left = 0
             row == [payout |-> k.left, deducted |-> k.rolled, status |-> status, paid |-> paid]
  <2>1. new \in Local /\ new.pc = "read"
    BY FieldsTyped, NothingTyped DEF Local
  <2>2. source' = [source EXCEPT ![k.user] = row] /\ Becomes(r, new)
        /\ UNCHANGED <<profit, target, program, landing, settled, failures>>
    BY <1>2 DEF UpdateSource
  <2>3. status \in {"COMPLETED", "AWAITING_PAYOUT"}
    BY Zenon
  <2>4. paid \in BOOLEAN
    BY Zenon
  <2> HIDE DEF new, k, status, paid
  <2>5. row \in SourceRow
    BY <1>0, <2>3, <2>4 DEF SourceRow
  <2> HIDE DEF row
  <2>6. source' \in [User -> SourceRow]
    BY <1>0, <2>2, <2>5 DEF TypedInv, Rows
  <2>7. Earned(new)
    BY <2>1 DEF Earned
  <2> QED BY <2>1, <2>2, <2>6, <2>7, RowsStep DEF TypedInv, Rows
<1> QED BY <1>1, <1>2

LEMMA MarkSentTyped == ASSUME TypedInv, NEW u \in User, MarkSent(u) PROVE TypedInv'
<1>1. source' = [source EXCEPT ![u].status = "COMPLETED", ![u].paid = TRUE]
      /\ UNCHANGED <<profit, target, program, req, landing, settled, failures>>
  BY DEF MarkSent
<1>2. source' \in [User -> SourceRow]
  BY <1>1 DEF TypedInv, Rows, SourceRow
<1> QED BY <1>1, <1>2, RowsStep DEF TypedInv, Rows

LEMMA CrashTyped == ASSUME TypedInv, CrashMoney PROVE TypedInv'
<1>1. failures' \in 0..MaxFailures
  BY MoneyAssumption DEF CrashMoney, MayFail, TypedInv
<1>2. Requests'
  BY NothingTyped DEF CrashMoney, Requests, Earned
<1> QED BY <1>1, <1>2 DEF CrashMoney, TypedInv, Rows, rows

LEMMA TypedStep == TypedInv /\ [MoneyNext]_moneyVars => TypedInv'
<1> SUFFICES ASSUME TypedInv, [MoneyNext]_moneyVars PROVE TypedInv'
  OBVIOUS
<1>1. CASE \E r \in Request : \/ StartSettle(r) \/ StartFinalize(r) \/ StartBackfill(r)
                              \/ StepRequest(r) \/ FailCall(r) \/ FailLanding(r)
  <2>1. PICK r \in Request : \/ StartSettle(r) \/ StartFinalize(r) \/ StartBackfill(r)
                             \/ StepRequest(r) \/ FailCall(r) \/ FailLanding(r)
    BY <1>1
  <2> QED
    BY <2>1, StartTyped, ComputeTyped, InterestTyped, LandTyped, LeaveTyped, EnsureTyped, SelectTyped,
       ReadPayoutTyped, UpdateTyped DEF StepRequest
<1>2. CASE \E u \in User : MarkSent(u)
  BY <1>2, MarkSentTyped
<1>3. CASE CrashMoney
  BY <1>3, CrashTyped
<1>4. CASE UNCHANGED moneyVars
  BY <1>4 DEF moneyVars, rows, TypedInv, Rows, Requests, Earned
<1> QED BY <1>1, <1>2, <1>3, <1>4 DEF MoneyNext

LEMMA TypedIsMoneyTypeOK == TypedInv => MoneyTypeOK
<1> SUFFICES ASSUME TypedInv PROVE MoneyTypeOK
  OBVIOUS
<1>1. \A r \in Request : req[r].now \in [user : User \cup {NoUser}, rolled : Int, left : Nat, paid : BOOLEAN]
  BY FieldsTyped DEF Rollovers
<1>2. \A r \in Request :
          /\ req[r].pc \in {"idle", "compute", "interest", "persist", "ensure", "auto", "jingle",
                            "select", "read", "target", "source"}
          /\ req[r].kind \in {"none", "settle", "finalize", "backfill"}
          /\ req[r].payouts \subseteq Payout /\ landing[r] \subseteq Payout
          /\ req[r].todo \subseteq User /\ req[r].active \subseteq JingleYield
  BY FieldsTyped
<1> QED BY <1>1, <1>2 DEF TypedInv, Rows, SourceRow, TargetRow, ProgramRow, MoneyTypeOK

\* The tables and the variables of every request have their types, however many
\* requests overlap and whatever fails: amounts and what is left stay amounts,
\* and interest never decreases below zero, since it is counted for the shares
\* that are positive.
THEOREM MoneyTyped == MoneySpec => []MoneyTypeOK
<1>1. MoneySpec => []TypedInv
  BY TypedStart, TypedStep, PTL DEF MoneySpec
<1> QED BY <1>1, TypedIsMoneyTypeOK, PTL

--------------------------------------------------------------------------------
(* One request at a time                                                   *)

Serial == \A r, q \in Request : r = q

\* What the program, the cap and the payout leave of the rollover of u: Rolled,
\* as a function of what it reads.
Due(u, type, extra, active, payout) ==
    LET intended == CASE type = "FULL_PAYOUT" ->
                             AtMost(payout, AtMost(payout + extra, Cap) - extra) + extra
                      [] type = "INITIAL_ONLY" -> Invested[u]
                      [] OTHER -> Custom[u]
        amount == IF ~active THEN intended
                  ELSE IF payout >= Locked[u] THEN AtLeast(intended, Locked[u])
                  ELSE AtMost(intended, payout)
    IN  IF type = "FULL_PAYOUT" THEN amount ELSE AtMost(AtMost(amount, Cap), payout)

DueNow(u) == Due(u, target[u].type, target[u].extra, program[u].active, source[u].payout)

\* The rows of u agree with each other: a payout is there once u was paid one; the
\* deduction follows the payout; a target that was updated without its source
\* has the amount that a repetition would give it again.
Agree(u) ==
    /\ source[u].payout = NoIsk <=> source[u].status \in {"OPTED_IN", "OPTED_OUT"}
    /\ source[u].deducted # NoIsk => source[u].payout # NoIsk
    /\ target[u].type = "none" => target[u].amount = NoIsk
    /\ target[u].extra <= Cap
    /\ program[u].active => u \in JingleYield
    /\ target[u].amount # NoIsk /\ source[u].deducted = NoIsk =>
          source[u].payout # NoIsk /\ target[u].amount = DueNow(u)

Unearned(u) == program[u].interest = 0 /\ program[u].repaid = 0

\* Computed payouts that are not written: those they are for are still OPTED_IN.
Fresh(S) ==
    /\ \A p \in S : source[p.user].status = "OPTED_IN"
    /\ \A p, q \in S : p.user = q.user => p = q

\* A request that computes payouts has the only ones in flight, and programs are
\* counted by a settlement that found them as they were.
Computes(local, flying) ==
    /\ Fresh(flying)
    /\ local.pc \in {"compute", "interest"} => flying = {}
    /\ local.pc = "compute" /\ local.kind = "settle" => \A u \in User : Unearned(u)
    /\ local.pc = "interest" =>
          /\ Fresh(local.payouts)
          /\ \A u \in local.todo : Unearned(u)
          /\ local.kind # "settle" => local.todo = {}

\* The rollover loop still sees the programs as they are, and the rows of the
\* rollover at hand as it read them.
Rolls(local) ==
    /\ local.pc \in {"read", "target", "source"} =>
          /\ \A u \in JingleYield : u \in local.active <=> program[u].active
          /\ \A u \in local.todo : target[u].type \in IntentType /\ source[u].deducted = NoIsk
    /\ local.pc \in {"target", "source"} =>
          LET k == local.now
          IN  /\ k.user \in User /\ k.user \notin local.todo
              /\ target[k.user].type \in IntentType /\ source[k.user].deducted = NoIsk
              /\ source[k.user].payout # NoIsk
              /\ k.rolled = DueNow(k.user)
              /\ k.left = source[k.user].payout - AtMost(k.rolled, source[k.user].payout)
    /\ local.pc = "source" => target[local.now.user].amount = local.now.rolled

SerialInv ==
    /\ \A u \in User : Agree(u)
    /\ \A r \in Request : Computes(req[r], landing[r]) /\ Rolls(req[r])
    /\ \A r \in Request : req[r].pc \in {"compute", "interest"} /\ req[r].kind = "settle" => settled
    /\ ~settled => \A u \in User : Unearned(u)

LEMMA RolledIsDue ==
    ASSUME NEW u \in User, NEW active, NEW payout
    PROVE  Rolled(u, active, payout) = Due(u, target[u].type, target[u].extra, u \in active, payout)
  BY DEF Rolled, WithProgram, Intended, Due

LEMMA NoRequestIsIdle ==
    ASSUME NEW S, Fresh(S)
    PROVE  Computes(NoRequest, S) /\ Rolls(NoRequest)
  BY NothingTyped DEF Computes, Rolls

LEMMA SerialStart == MoneyInit => SerialInv
<1> SUFFICES ASSUME MoneyInit PROVE SerialInv
  OBVIOUS
<1>1. ASSUME NEW u \in User PROVE Agree(u) /\ Unearned(u)
  <2>1. source[u] = [status |-> IF u \in OptedOut THEN "OPTED_OUT" ELSE "OPTED_IN",
                     payout |-> NoIsk, deducted |-> NoIsk, paid |-> FALSE]
    BY DEF MoneyInit
  <2>2. target[u].amount = NoIsk /\ target[u].extra <= Cap
    <3>1. target[u] \in Choice(u)
      BY DEF MoneyInit
    <3>2. Extra[u] <= Cap /\ 0 <= Cap
      BY MoneyAssumption
    <3> QED BY <3>1, <3>2 DEF Choice
  <2>3. PICK S \in SUBSET JingleYield :
            program = [v \in User |-> [active |-> v \in JingleYield, last |-> v \in S,
                                       interest |-> 0, repaid |-> 0]]
    BY DEF MoneyInit
  <2>4. program[u] = [active |-> u \in JingleYield, last |-> u \in S, interest |-> 0, repaid |-> 0]
    BY <2>3
  <2>5. /\ source[u].payout = NoIsk /\ source[u].deducted = NoIsk
        /\ source[u].status \in {"OPTED_IN", "OPTED_OUT"}
    BY <2>1
  <2>6. program[u].interest = 0 /\ program[u].repaid = 0
    BY <2>4
  <2>7. program[u].active => u \in JingleYield
    <3> DEFINE active == u \in JingleYield
               last == u \in S
    <3>1. program[u] = [active |-> active, last |-> last, interest |-> 0, repaid |-> 0]
      BY <2>4
    <3> HIDE DEF active, last
    <3>2. program[u].active = active
      BY <3>1
    <3> QED BY <3>2 DEF active
  <2> QED BY <2>2, <2>5, <2>6, <2>7 DEF Agree, Unearned
<1>2. \A r \in Request : req[r] = NoRequest /\ landing[r] = {}
  BY DEF MoneyInit
<1>3. Fresh({})
  BY DEF Fresh
<1> QED BY <1>1, <1>2, <1>3, NothingTyped, NoRequestIsIdle DEF SerialInv

\* The invariant of a request that takes a step, the only one there is.
LEMMA OneRequest ==
    ASSUME TypedInv, Serial, NEW r \in Request, NEW new \in Local, Becomes(r, new)
    PROVE  req'[r] = new /\ \A q \in Request : q = r
  BY DEF TypedInv, Requests, Becomes, Serial

\* A step that leaves the rows as they are.
LEMMA SerialLocal ==
    ASSUME TypedInv, Serial, SerialInv, NEW r \in Request, NEW new \in Local, Becomes(r, new),
           UNCHANGED rows, settled => settled', NEW flying, landing'[r] = flying,
           new.pc \in {"compute", "interest"} /\ new.kind = "settle" => settled',
           Computes(new, flying), Rolls(new)
    PROVE  SerialInv'
<1>1. source' = source /\ target' = target /\ program' = program
  BY DEF rows
<1>2. \A u \in User : Agree(u)'
  BY <1>1 DEF SerialInv, Agree, DueNow
<1>3. ~settled' => \A u \in User : Unearned(u)'
  BY <1>1 DEF SerialInv, Unearned
<1>4. req'[r] = new /\ \A q \in Request : q = r
  BY OneRequest
<1>5. Rolls(req[r])'
  BY <1>1, <1>4 DEF Rolls, DueNow
<1>6. Computes(req[r], landing[r])'
  BY <1>1, <1>4 DEF Computes, Fresh, Unearned
<1>7. \A q \in Request : /\ Computes(req[q], landing[q])' /\ Rolls(req[q])'
                         /\ req'[q].pc \in {"compute", "interest"} /\ req'[q].kind = "settle" => settled'
  BY <1>4, <1>5, <1>6
<1> QED BY <1>2, <1>3, <1>7 DEF SerialInv

LEMMA StartSerial ==
    ASSUME TypedInv, Serial, SerialInv, NEW r \in Request,
           StartSettle(r) \/ StartFinalize(r) \/ StartBackfill(r)
    PROVE  SerialInv'
<1>1. PICK kind \in {"settle", "finalize", "backfill"}, pc \in {"compute", "ensure"} :
          /\ Start(r, kind, pc)
          /\ kind = "settle" => ~settled /\ settled'
  BY DEF StartSettle, StartFinalize, StartBackfill
<1> DEFINE new == [NoRequest EXCEPT !.kind = kind, !.pc = pc]
<1>2. new \in Local /\ new.pc = pc /\ new.kind = kind
  BY NothingTyped DEF Local
<1>3. Becomes(r, new) /\ UNCHANGED rows /\ UNCHANGED landing /\ landing[r] = {}
  BY <1>1 DEF Start
<1>4. settled => settled'
  BY DEF StartSettle, StartFinalize, StartBackfill
<1> HIDE DEF new
<1>5. Computes(new, {}) /\ Rolls(new)
  BY <1>1, <1>2 DEF Computes, Rolls, Fresh, SerialInv
<1>6. landing'[r] = {} /\ (new.kind = "settle" => settled')
  BY <1>1, <1>2, <1>3
<1> QED BY <1>2, <1>3, <1>4, <1>5, <1>6, SerialLocal

LEMMA ComputeSerial == ASSUME TypedInv, Serial, SerialInv, NEW r \in Request, Compute(r) PROVE SerialInv'
<1> DEFINE S == {u \in User : source[u].status = "OPTED_IN"}
           todo == IF req[r].kind = "settle" THEN Earning(Payouts(S)) ELSE {}
           new == [req[r] EXCEPT !.pc = "interest", !.payouts = Payouts(S), !.todo = todo]
<1>1. Payouts(S) \in SUBSET Payout
  BY PayoutsTyped DEF TypedInv
<1>2. todo \in SUBSET User
  BY <1>1 DEF Earning, Payout
<1>3. Fresh(Payouts(S))
  <2>1. \A p \in Payouts(S) : p.user \in S
    BY PayoutOfOne
  <2>2. \A p \in Payouts(S) : source[p.user].status = "OPTED_IN"
    BY <2>1
  <2> HIDE DEF S
  <2> QED BY <2>2, PayoutsDiffer DEF Fresh
<1>4. Becomes(r, new) /\ UNCHANGED rows /\ UNCHANGED <<landing, settled>> /\ req[r].pc = "compute"
  BY DEF Compute
<1>5. req[r].kind # "settle" => todo = {}
  OBVIOUS
<1> HIDE DEF todo, S
<1>6. new \in Local /\ new.payouts = Payouts(S) /\ new.todo = todo /\ new.pc = "interest" /\ new.kind = req[r].kind
  BY <1>1, <1>2, FieldsTyped DEF Local
<1> HIDE DEF new
<1>7. landing[r] = {} /\ Computes(req[r], {}) /\ (req[r].kind = "settle" => settled)
  BY <1>4 DEF SerialInv, Computes
<1>8. Computes(new, {})
  BY <1>2, <1>3, <1>4, <1>5, <1>6, <1>7 DEF Computes
<1>9. Rolls(new)
  BY <1>6 DEF Rolls
<1>10. landing'[r] = {} /\ (settled => settled') /\ (new.kind = "settle" => settled')
  BY <1>4, <1>6, <1>7
<1> QED BY <1>4, <1>6, <1>8, <1>9, <1>10, SerialLocal

LEMMA SelectSerial == ASSUME TypedInv, Serial, SerialInv, NEW r \in Request, Select(r) PROVE SerialInv'
<1> DEFINE todo == {u \in User : target[u].type \in IntentType /\ source[u].deducted = NoIsk}
           active == {u \in JingleYield : program[u].active}
           new == [req[r] EXCEPT !.pc = "read", !.todo = todo, !.active = active]
<1>1. Becomes(r, new) /\ UNCHANGED rows /\ UNCHANGED <<landing, settled>>
  BY DEF Select
<1>2. todo \in SUBSET User /\ active \in SUBSET JingleYield
  OBVIOUS
<1>3. /\ \A u \in JingleYield : u \in active <=> program[u].active
      /\ \A u \in todo : target[u].type \in IntentType /\ source[u].deducted = NoIsk
  OBVIOUS
<1> HIDE DEF todo, active
<1>4. new \in Local /\ new.pc = "read" /\ new.todo = todo /\ new.active = active
  BY <1>2, FieldsTyped DEF Local
<1> HIDE DEF new
<1>5. Rolls(new)
  BY <1>3, <1>4 DEF Rolls
<1>6. Computes(new, landing[r])
  BY <1>4 DEF Computes, SerialInv
<1>7. landing'[r] = landing[r]
  BY <1>1
<1> QED BY <1>1, <1>4, <1>5, <1>6, <1>7, SerialLocal

LEMMA ReadPayoutSerial ==
    ASSUME TypedInv, Serial, SerialInv, NEW r \in Request, ReadPayout(r) PROVE SerialInv'
<1>1. PICK u \in req[r].todo :
          /\ req[r].pc = "read" /\ UNCHANGED <<profit, rows, landing, settled, failures>>
          /\ IF source[u].payout = NoIsk THEN Becomes(r, NoRequest)
             ELSE Becomes(r, [req[r] EXCEPT !.pc = "target", !.todo = @ \ {u}, !.now = Next(r, u)])
  BY ReadPayoutShape
<1>2. u \in User /\ landing'[r] = landing[r] /\ UNCHANGED <<rows, settled>> /\ Fresh(landing[r])
  BY <1>1, FieldsTyped DEF SerialInv, Computes
<1>3. CASE source[u].payout = NoIsk
  BY <1>1, <1>2, <1>3, NothingTyped, NoRequestIsIdle, SerialLocal
<1>4. CASE source[u].payout # NoIsk
  <2> DEFINE new == [req[r] EXCEPT !.pc = "target", !.todo = @ \ {u}, !.now = Next(r, u)]
  <2>1. Next(r, u) \in Rollovers
    BY <1>2, <1>4, NextTyped
  <2>2. /\ new \in Local /\ new.pc = "target" /\ new.todo = req[r].todo \ {u}
        /\ new.active = req[r].active /\ new.now = Next(r, u)
    BY <2>1, FieldsTyped DEF Local
  <2>3. Becomes(r, new)
    BY <1>1, <1>4
  <2> HIDE DEF new
  <2>4. /\ \A v \in JingleYield : v \in req[r].active <=> program[v].active
        /\ \A v \in req[r].todo : target[v].type \in IntentType /\ source[v].deducted = NoIsk
    BY <1>1 DEF SerialInv, Rolls
  <2>5. (u \in req[r].active) <=> program[u].active
    BY <1>2, <2>4, FieldsTyped DEF SerialInv, Agree
  <2>6. Next(r, u).user = u /\ Next(r, u).rolled = DueNow(u)
        /\ Next(r, u).left = source[u].payout - AtMost(DueNow(u), source[u].payout)
    <3>1. Rolled(u, req[r].active, source[u].payout) = DueNow(u)
      <4>1. Rolled(u, req[r].active, source[u].payout)
              = Due(u, target[u].type, target[u].extra, u \in req[r].active, source[u].payout)
        BY <1>2, RolledIsDue
      <4> QED BY <2>5, <4>1 DEF DueNow, Due
    <3> QED BY <3>1 DEF Next
  <2>7. Rolls(new)
    BY <1>1, <1>2, <1>4, <2>2, <2>4, <2>6 DEF Rolls
  <2>8. Computes(new, landing[r])
    BY <1>2, <2>2 DEF Computes
  <2> QED BY <1>1, <1>2, <2>2, <2>3, <2>7, <2>8, SerialLocal
<1> QED BY <1>3, <1>4

LEMMA LeaveSerial ==
    ASSUME TypedInv, Serial, SerialInv, NEW r \in Request, Persisted(r) \/ EndRollovers(r) \/ FailCall(r)
    PROVE  SerialInv'
<1>1. Becomes(r, NoRequest) \/ Becomes(r, AfterPayouts(r))
  BY DEF Persisted, EndRollovers, FailCall
<1>2. UNCHANGED rows /\ UNCHANGED <<landing, settled>>
  BY DEF Persisted, EndRollovers, FailCall
<1>3. Fresh(landing[r]) /\ landing'[r] = landing[r]
  BY <1>2 DEF SerialInv, Computes
<1>4. Computes(AfterPayouts(r), landing[r]) /\ Rolls(AfterPayouts(r))
  BY <1>3, AfterPayoutsTyped DEF Computes, Rolls
<1> QED BY <1>1, <1>2, <1>3, <1>4, NothingTyped, AfterPayoutsTyped, NoRequestIsIdle, SerialLocal

\* The request that takes a step stands for all of them.
LEMMA SerialParts ==
    ASSUME Serial, NEW r \in Request,
           \A u \in User : Agree(u)',
           Computes(req[r], landing[r])', Rolls(req[r])',
           req'[r].pc \in {"compute", "interest"} /\ req'[r].kind = "settle" => settled',
           ~settled' => \A u \in User : Unearned(u)'
    PROVE  SerialInv'
<1>1. \A q \in Request : q = r
  BY DEF Serial
<1>2. \A q \in Request : /\ Computes(req[q], landing[q])' /\ Rolls(req[q])'
                         /\ req'[q].pc \in {"compute", "interest"} /\ req'[q].kind = "settle" => settled'
  BY <1>1
<1> QED BY <1>2 DEF SerialInv

LEMMA InterestSerial ==
    ASSUME TypedInv, Serial, SerialInv, NEW r \in Request, CountInterest(r) PROVE SerialInv'
<1>1. PICK p \in req[r].payouts :
          /\ p.user \in req[r].todo /\ p.user \in User /\ p.share \in Nat /\ Counts(p)
          /\ Becomes(r, [req[r] EXCEPT !.todo = @ \ {p.user}])
  BY InterestShape
<1>2. req[r].pc = "interest" /\ UNCHANGED <<profit, source, target, landing, settled, failures>>
  BY InterestShape
<1> DEFINE new == [req[r] EXCEPT !.todo = @ \ {p.user}]
           w == p.user
<1>3. /\ new \in Local /\ new.todo = req[r].todo \ {w} /\ new.payouts = req[r].payouts /\ new.pc = "interest"
      /\ new.kind = req[r].kind
  BY <1>2, FieldsTyped DEF Local
<1>4. req'[r] = new
  BY <1>1, <1>3, OneRequest
<1> HIDE DEF new
<1>5. /\ Fresh(req[r].payouts) /\ \A u \in req[r].todo : Unearned(u)
      /\ req[r].kind # "settle" => req[r].todo = {}
      /\ landing[r] = {} /\ (req[r].kind = "settle" => settled)
  BY <1>2 DEF SerialInv, Computes
<1>6. source[w].payout = NoIsk /\ source[w].deducted = NoIsk /\ target[w].amount = NoIsk
  BY <1>1, <1>5 DEF Fresh, SerialInv, Agree
<1>7. \A u \in User : u # w => program'[u] = program[u]
  BY <1>1 DEF Counts, TypedInv, Rows
<1>8. program'[w].active => w \in JingleYield
  <2>1. program[w].active => w \in JingleYield
    BY <1>1 DEF SerialInv, Agree
  <2> QED BY <1>1, <2>1 DEF Counts
<1>9. ASSUME NEW u \in User PROVE Agree(u)'
  <2>1. CASE u = w
    BY <1>1, <1>2, <1>6, <1>8, <2>1 DEF SerialInv, Agree
  <2>2. CASE u # w
    BY <1>2, <1>7, <2>2 DEF SerialInv, Agree, DueNow
  <2> QED BY <2>1, <2>2
<1>10. Computes(req[r], landing[r])'
  <2>1. \A u \in new.todo : Unearned(u)'
    BY <1>3, <1>5, <1>7, FieldsTyped DEF Unearned
  <2>2. Fresh(req[r].payouts)' /\ Fresh(landing[r])'
    BY <1>2, <1>3, <1>4, <1>5 DEF Fresh
  <2> QED BY <1>2, <1>3, <1>4, <1>5, <2>1, <2>2 DEF Computes
<1>11. Rolls(req[r])'
  BY <1>3, <1>4 DEF Rolls
<1>12. settled /\ settled'
  BY <1>1, <1>2, <1>5
<1> QED BY <1>9, <1>10, <1>11, <1>12, SerialParts

LEMMA IssueSerial ==
    ASSUME TypedInv, Serial, SerialInv, NEW r \in Request, Issue(r) PROVE SerialInv'
<1> DEFINE new == [req[r] EXCEPT !.pc = "persist"]
<1>1. new \in Local /\ new.pc = "persist"
  BY FieldsTyped DEF Local
<1>2. Becomes(r, new) /\ landing' = [landing EXCEPT ![r] = req[r].payouts]
      /\ UNCHANGED rows /\ UNCHANGED settled /\ req[r].pc = "interest"
  BY DEF Issue
<1> HIDE DEF new
<1>3. Fresh(req[r].payouts) /\ landing'[r] = req[r].payouts
  BY <1>2 DEF SerialInv, Computes, TypedInv, Requests
<1>4. Computes(new, req[r].payouts) /\ Rolls(new)
  BY <1>1, <1>3 DEF Computes, Rolls
<1> QED BY <1>1, <1>2, <1>3, <1>4, SerialLocal

LEMMA LandSerial ==
    ASSUME TypedInv, Serial, SerialInv, NEW r \in Request, Land(r) PROVE SerialInv'
<1>1. PICK p \in landing[r] :
          /\ landing' = [landing EXCEPT ![r] = @ \ {p}]
          /\ source' = [source EXCEPT ![p.user].payout = p.isk, ![p.user].status = "AWAITING_PAYOUT"]
          /\ UNCHANGED <<profit, target, program, req, settled, failures>>
  BY DEF Land
<1> DEFINE w == p.user
<1>2. w \in User /\ p.isk \in Int /\ p.isk # NoIsk
  BY FieldsTyped, MoneyAssumption DEF Payout
<1>3. Fresh(landing[r]) /\ landing'[r] = landing[r] \ {p}
  BY <1>1 DEF SerialInv, Computes, TypedInv, Requests
<1>4. source[w].status = "OPTED_IN" /\ source[w].payout = NoIsk /\ source[w].deducted = NoIsk
      /\ target[w].amount = NoIsk
  BY <1>2, <1>3 DEF Fresh, SerialInv, Agree
<1>5. /\ source'[w].payout = p.isk /\ source'[w].status = "AWAITING_PAYOUT" /\ source'[w].deducted = NoIsk
      /\ \A u \in User : u # w => source'[u] = source[u]
      /\ \A u \in User : source'[u].deducted = source[u].deducted
  BY <1>1, <1>2, <1>4 DEF TypedInv, Rows, SourceRow
<1>6. ASSUME NEW u \in User PROVE Agree(u)'
  <2>1. CASE u = w
    BY <1>1, <1>2, <1>4, <1>5, <2>1 DEF SerialInv, Agree
  <2>2. CASE u # w
    BY <1>1, <1>5, <2>2 DEF SerialInv, Agree, DueNow
  <2> QED BY <2>1, <2>2
<1>7. Fresh(landing[r])'
  <2>1. \A q \in landing'[r] : q \in landing[r] /\ q.user \in User /\ q.user # w
    BY <1>3, FieldsTyped DEF Fresh, Payout
  <2> QED BY <1>3, <1>5, <2>1 DEF Fresh
<1>8. Computes(req[r], landing[r])'
  <2>1. req[r].pc \notin {"compute", "interest"}
    BY <1>1 DEF SerialInv, Computes
  <2> QED BY <1>1, <1>7, <2>1 DEF Computes
<1>9. Rolls(req[r])'
  <2>1. Rolls(req[r]) /\ req' = req /\ target' = target /\ program' = program /\ req[r].todo \subseteq User
    BY <1>1, FieldsTyped DEF SerialInv
  <2>2. req[r].pc \in {"target", "source"} => source'[req[r].now.user] = source[req[r].now.user]
    BY <1>4, <1>5, <2>1 DEF Rolls
  <2>3. \A u \in req[r].todo : source'[u].deducted = source[u].deducted
    BY <1>5, <2>1
  <2> QED BY <2>1, <2>2, <2>3 DEF Rolls, DueNow
<1>10. /\ req'[r].pc \in {"compute", "interest"} /\ req'[r].kind = "settle" => settled'
       /\ ~settled' => \A u \in User : Unearned(u)'
  BY <1>1 DEF SerialInv, Unearned
<1> QED BY <1>6, <1>8, <1>9, <1>10, SerialParts

LEMMA FailLandingSerial ==
    ASSUME TypedInv, Serial, SerialInv, NEW r \in Request, FailLanding(r) PROVE SerialInv'
<1>1. PICK p \in landing[r] :
          /\ landing' = [landing EXCEPT ![r] = @ \ {p}]
          /\ IF req[r].pc = "persist" THEN Becomes(r, AfterPayouts(r)) ELSE UNCHANGED req
          /\ UNCHANGED <<profit, rows, settled>>
  BY DEF FailLanding
<1>2. landing'[r] = landing[r] \ {p} /\ Fresh(landing[r] \ {p})
  BY <1>1 DEF SerialInv, Computes, Fresh, TypedInv, Requests
<1>3. CASE req[r].pc = "persist"
  <2>1. Computes(AfterPayouts(r), landing[r] \ {p}) /\ Rolls(AfterPayouts(r))
    BY <1>2, AfterPayoutsTyped DEF Computes, Rolls
  <2> QED BY <1>1, <1>2, <1>3, <2>1, AfterPayoutsTyped, SerialLocal
<1>4. CASE req[r].pc # "persist"
  <2>1. Becomes(r, req[r])
    BY <1>1, <1>4 DEF Becomes, TypedInv, Requests
  <2>2. Computes(req[r], landing[r] \ {p}) /\ Rolls(req[r])
    BY <1>1, <1>2 DEF SerialInv, Computes
  <2>3. req[r].pc \in {"compute", "interest"} /\ req[r].kind = "settle" => settled'
    BY <1>1 DEF SerialInv
  <2> QED BY <1>1, <1>2, <2>1, <2>2, <2>3, FieldsTyped, SerialLocal
<1> QED BY <1>3, <1>4

LEMMA EnsureSerial ==
    ASSUME TypedInv, Serial, SerialInv, NEW r \in Request, Ensure(r) \/ EnsureAuto(r) \/ EnsureJingle(r)
    PROVE  SerialInv'
<1>1. PICK pc \in {"auto", "jingle", "select", "idle"} :
          Becomes(r, IF pc = "idle" THEN NoRequest ELSE [req[r] EXCEPT !.pc = pc])
  BY EnsureShape
<1> DEFINE new == IF pc = "idle" THEN NoRequest ELSE [req[r] EXCEPT !.pc = pc]
<1>2. new \in Local /\ new.pc = pc
  <2>1. CASE pc = "idle"
    BY <2>1, NothingTyped
  <2>2. CASE pc # "idle"
    BY <2>2, FieldsTyped DEF Local
  <2> QED BY <2>1, <2>2
<1>3. Becomes(r, new)
  BY <1>1
<1> HIDE DEF new
<1>4. req'[r].pc = pc
  BY <1>2, <1>3, OneRequest
<1>5. UNCHANGED <<source, program, landing, settled>>
  BY EnsureShape
<1>6. ASSUME NEW u \in User PROVE Agree(u)'
  <2>1. CASE target'[u] = target[u]
    BY <1>5, <2>1 DEF SerialInv, Agree, DueNow
  <2>2. CASE target'[u] # target[u]
    <3>1. /\ target[u].type = "none" /\ target'[u].type \in IntentType
          /\ target'[u].extra = 0 /\ target'[u].amount = NoIsk
      BY <2>2, EnsureShape
    <3>2. target'[u].type # "none" /\ target'[u].extra <= Cap
      BY <3>1, MoneyAssumption DEF IntentType
    <3> QED BY <1>5, <3>1, <3>2 DEF SerialInv, Agree
  <2> QED BY <2>1, <2>2
<1>7. Computes(req[r], landing[r])'
  <2>1. Fresh(landing[r])'
    BY <1>5 DEF SerialInv, Computes, Fresh
  <2> QED BY <1>4, <2>1 DEF Computes
<1>8. Rolls(req[r])'
  BY <1>4 DEF Rolls
<1>9. ~settled' => \A u \in User : Unearned(u)'
  BY <1>5 DEF SerialInv, Unearned
<1>10. req'[r].pc \notin {"compute", "interest"}
  BY <1>4
<1> QED BY <1>6, <1>7, <1>8, <1>9, <1>10, SerialParts

\* The rollover at hand, as its request knows it.
LEMMA AtHand ==
    ASSUME TypedInv, SerialInv, NEW r \in Request, req[r].pc \in {"target", "source"}
    PROVE  LET k == req[r].now
           IN  /\ k.user \in User /\ k.rolled \in Int /\ k.left \in Nat /\ k.user \notin req[r].todo
               /\ target[k.user].type \in IntentType
               /\ source[k.user].deducted = NoIsk /\ source[k.user].payout # NoIsk
               /\ k.rolled = DueNow(k.user)
               /\ k.left = source[k.user].payout - AtMost(k.rolled, source[k.user].payout)
               /\ req[r].pc = "source" => target[k.user].amount = k.rolled
<1>1. Rolls(req[r])
  BY DEF SerialInv
<1>2. req[r].now.rolled \in Int /\ req[r].now.left \in Nat
  BY FieldsTyped DEF Rollovers
<1> QED BY <1>1, <1>2 DEF Rolls

LEMMA UpdateTargetSerial ==
    ASSUME TypedInv, Serial, SerialInv, NEW r \in Request, UpdateTarget(r) PROVE SerialInv'
<1> DEFINE k == req[r].now
           w == k.user
           new == [req[r] EXCEPT !.pc = "source"]
<1>1. /\ new \in Local /\ new.pc = "source" /\ new.now = k /\ new.todo = req[r].todo
      /\ new.active = req[r].active
  BY FieldsTyped DEF Local
<1>2. /\ target' = [target EXCEPT ![w].amount = k.rolled] /\ Becomes(r, new) /\ req[r].pc = "target"
      /\ UNCHANGED <<profit, source, program, landing, settled, failures>>
  BY DEF UpdateTarget
<1> HIDE DEF new
<1>3. /\ w \in User /\ k.rolled \in Int /\ w \notin req[r].todo /\ target[w].type \in IntentType
      /\ source[w].deducted = NoIsk /\ source[w].payout # NoIsk /\ k.rolled = DueNow(w)
      /\ k.left = source[w].payout - AtMost(k.rolled, source[w].payout)
  BY <1>2, AtHand
<1>4. req'[r] = new
  BY <1>1, <1>2, OneRequest
<1> HIDE DEF k, w
<1>5. /\ target'[w].amount = k.rolled
      /\ \A u \in User : target'[u].type = target[u].type /\ target'[u].extra = target[u].extra
      /\ \A u \in User : u # w => target'[u] = target[u]
  BY <1>2, <1>3 DEF TypedInv, Rows, TargetRow
<1>6. \A u \in User : DueNow(u)' = DueNow(u)
  BY <1>2, <1>5 DEF DueNow
<1>7. ASSUME NEW u \in User PROVE Agree(u)'
  <2>1. CASE u = w
    <3>1. target[w].type # "none"
      BY <1>3 DEF IntentType
    <3> QED BY <1>2, <1>3, <1>5, <1>6, <2>1, <3>1 DEF SerialInv, Agree
  <2>2. CASE u # w
    BY <1>2, <1>5, <1>6, <2>2 DEF SerialInv, Agree
  <2> QED BY <2>1, <2>2
<1>8. Computes(req[r], landing[r])'
  <2>1. Fresh(landing[r])'
    BY <1>2 DEF SerialInv, Computes, Fresh
  <2> QED BY <1>1, <1>4, <2>1 DEF Computes
<1>9. Rolls(req[r])'
  <2>1. /\ \A u \in JingleYield : u \in new.active <=> program'[u].active
        /\ \A u \in new.todo : target'[u].type \in IntentType /\ source'[u].deducted = NoIsk
    BY <1>1, <1>2, <1>5, FieldsTyped DEF SerialInv, Rolls
  <2>2. /\ target'[w].type \in IntentType /\ source'[w].deducted = NoIsk /\ source'[w].payout # NoIsk
        /\ k.rolled = DueNow(w)' /\ k.left = source'[w].payout - AtMost(k.rolled, source'[w].payout)
    <3>1. w' = w
      BY <1>1, <1>4 DEF k, w
    <3>2. DueNow(w') = DueNow(w) /\ DueNow(w)' = DueNow(w)
      BY <1>3, <1>6, <3>1
    <3> QED BY <1>2, <1>3, <1>5, <3>2
  <2> QED BY <1>1, <1>3, <1>4, <1>5, <2>1, <2>2 DEF Rolls, k, w
<1>10. /\ ~settled' => \A u \in User : Unearned(u)'
       /\ req'[r].pc \notin {"compute", "interest"}
  BY <1>1, <1>2, <1>4 DEF SerialInv, Unearned
<1> QED BY <1>7, <1>8, <1>9, <1>10, SerialParts

\* The update of the source, by the rollover that its target has.
LEMMA UpdateSourceShape ==
    ASSUME TypedInv, SerialInv, NEW r \in Request, UpdateSource(r)
    PROVE  LET k == req[r].now
           IN  /\ source'[k.user].payout = k.left /\ source'[k.user].deducted = k.rolled
               /\ source'[k.user].status \in {"COMPLETED", "AWAITING_PAYOUT"}
               /\ \A u \in User : u # k.user => source'[u] = source[u]
               /\ req[r].pc = "source" /\ UNCHANGED <<profit, target, program, landing, settled, failures>>
               /\ Becomes(r, [req[r] EXCEPT !.pc = "read", !.now = NoRollover])
<1> DEFINE k == req[r].now
           status == IF k.paid \/ k.left = 0 THEN "COMPLETED" ELSE "AWAITING_PAYOUT"
           paid == k.paid \/ k.left = 0
<1>1. /\ source' = [source EXCEPT ![k.user] = [payout |-> k.left, deducted |-> k.rolled,
                                               status |-> status, paid |-> paid]]
      /\ req[r].pc = "source" /\ UNCHANGED <<profit, target, program, landing, settled, failures>>
      /\ Becomes(r, [req[r] EXCEPT !.pc = "read", !.now = NoRollover])
  BY DEF UpdateSource
<1>2. k.user \in User
  BY <1>1, AtHand
<1>3. status \in {"COMPLETED", "AWAITING_PAYOUT"}
  OBVIOUS
<1> HIDE DEF status, paid, k
<1>4. /\ source'[k.user].payout = k.left /\ source'[k.user].deducted = k.rolled
      /\ source'[k.user].status = status
      /\ \A u \in User : u # k.user => source'[u] = source[u]
  BY <1>1, <1>2 DEF TypedInv, Rows
<1> QED BY <1>1, <1>3, <1>4 DEF k

LEMMA UpdateSourceSerial ==
    ASSUME TypedInv, Serial, SerialInv, NEW r \in Request, UpdateSource(r) PROVE SerialInv'
<1> DEFINE k == req[r].now
           w == k.user
           new == [req[r] EXCEPT !.pc = "read", !.now = NoRollover]
<1>1. new \in Local /\ new.pc = "read" /\ new.todo = req[r].todo /\ new.active = req[r].active
  BY FieldsTyped, NothingTyped DEF Local
<1>2. /\ source'[w].payout = k.left /\ source'[w].deducted = k.rolled
      /\ source'[w].status \in {"COMPLETED", "AWAITING_PAYOUT"}
      /\ \A u \in User : u # w => source'[u] = source[u]
      /\ req[r].pc = "source" /\ UNCHANGED <<profit, target, program, landing, settled, failures>>
      /\ Becomes(r, new)
  BY UpdateSourceShape
<1> HIDE DEF new
<1>3. /\ w \in User /\ k.rolled \in Int /\ k.left \in Nat /\ w \notin req[r].todo
      /\ target[w].type \in IntentType /\ source[w].deducted = NoIsk /\ source[w].payout # NoIsk
  BY <1>2, AtHand
<1>4. req'[r] = new
  BY <1>1, <1>2, OneRequest
<1> HIDE DEF k, w
<1>5. k.rolled # NoIsk /\ k.left # NoIsk
  BY <1>3, MoneyAssumption
<1>6. ASSUME NEW u \in User PROVE Agree(u)'
  <2>1. CASE u = w
    <3>1. /\ source'[w].payout # NoIsk /\ source'[w].deducted # NoIsk
          /\ source'[w].status \notin {"OPTED_IN", "OPTED_OUT"}
      BY <1>2, <1>5
    <3> QED BY <1>2, <2>1, <3>1 DEF SerialInv, Agree
  <2>2. CASE u # w
    BY <1>2, <2>2 DEF SerialInv, Agree, DueNow
  <2> QED BY <2>1, <2>2
<1>7. Computes(req[r], landing[r])'
  <2>1. Fresh(landing[r])
    BY DEF SerialInv, Computes
  <2>2. \A p \in landing[r] : p.user \in User /\ p.user # w
    BY <1>3, <2>1, FieldsTyped DEF Fresh, Payout, SerialInv, Agree
  <2>3. Fresh(landing[r])'
    BY <1>2, <2>1, <2>2 DEF Fresh
  <2> QED BY <1>1, <1>4, <2>3 DEF Computes
<1>8. Rolls(req[r])'
  <2>1. /\ \A u \in JingleYield : u \in new.active <=> program'[u].active
        /\ \A u \in new.todo : target'[u].type \in IntentType /\ source'[u].deducted = NoIsk
    BY <1>1, <1>2, <1>3, FieldsTyped DEF SerialInv, Rolls
  <2> QED BY <1>1, <1>4, <2>1 DEF Rolls
<1>9. /\ ~settled' => \A u \in User : Unearned(u)'
      /\ req'[r].pc \notin {"compute", "interest"}
  BY <1>1, <1>2, <1>4 DEF SerialInv, Unearned
<1> QED BY <1>6, <1>7, <1>8, <1>9, SerialParts

LEMMA MarkSentSerial ==
    ASSUME TypedInv, SerialInv, NEW w \in User, MarkSent(w) PROVE SerialInv'
<1>1. /\ source[w].status = "AWAITING_PAYOUT" /\ source[w].payout # NoIsk
      /\ source' = [source EXCEPT ![w].status = "COMPLETED", ![w].paid = TRUE]
      /\ UNCHANGED <<profit, target, program, req, landing, settled, failures>>
  BY DEF MarkSent
<1>2. /\ source'[w].status = "COMPLETED"
      /\ \A u \in User : /\ source'[u].payout = source[u].payout /\ source'[u].deducted = source[u].deducted
                         /\ u # w => source'[u].status = source[u].status
  BY <1>1 DEF TypedInv, Rows, SourceRow
<1>3. ASSUME NEW u \in User PROVE Agree(u)' /\ (source[u].status = "OPTED_IN" => source'[u].status = "OPTED_IN")
  BY <1>1, <1>2 DEF SerialInv, Agree, DueNow
<1>4. ASSUME NEW r \in Request PROVE Computes(req[r], landing[r])' /\ Rolls(req[r])'
  <2>1. Computes(req[r], landing[r]) /\ Rolls(req[r])
    BY DEF SerialInv
  <2>2. Computes(req[r], landing[r])'
    <3>1. req[r].payouts \in SUBSET Payout /\ landing[r] \in SUBSET Payout
      BY FieldsTyped
    <3>2. Fresh(landing[r]) => Fresh(landing[r])'
      BY <1>1, <1>3, <3>1 DEF Fresh, Payout
    <3>3. Fresh(req[r].payouts) => Fresh(req[r].payouts)'
      BY <1>1, <1>3, <3>1 DEF Fresh, Payout
    <3> QED BY <1>1, <2>1, <3>2, <3>3 DEF Computes, Unearned
  <2>3. Rolls(req[r])'
    <3>1. \A u \in req[r].todo : source'[u].deducted = source[u].deducted
      BY <1>2, FieldsTyped
    <3>2. req[r].pc \in {"target", "source"} =>
              /\ source'[req[r].now.user].payout = source[req[r].now.user].payout
              /\ source'[req[r].now.user].deducted = source[req[r].now.user].deducted
      BY <1>2, <2>1 DEF Rolls
    <3>3. req' = req /\ target' = target /\ program' = program
      BY <1>1
    <3> QED BY <2>1, <3>1, <3>2, <3>3 DEF Rolls, DueNow
  <2> QED BY <2>2, <2>3
<1> QED BY <1>1, <1>3, <1>4 DEF SerialInv, Unearned

LEMMA CrashSerial == ASSUME TypedInv, SerialInv, CrashMoney PROVE SerialInv'
<1>1. /\ \A r \in Request : req'[r] = NoRequest /\ landing'[r] = {}
      /\ UNCHANGED <<source, target, program, settled>>
  BY DEF CrashMoney, rows
<1>2. Computes(NoRequest, {}) /\ Rolls(NoRequest)
  <2>1. Fresh({})
    BY DEF Fresh
  <2> QED BY <2>1, NoRequestIsIdle
<1>3. \A r \in Request : Computes(req[r], landing[r])' /\ Rolls(req[r])'
  BY <1>1, NothingTyped DEF Computes, Rolls, Fresh
<1>4. \A u \in User : Agree(u)'
  BY <1>1 DEF SerialInv, Agree, DueNow
<1> QED BY <1>1, <1>3, <1>4, NothingTyped DEF SerialInv, Unearned

LEMMA SerialStep ==
    ASSUME Serial, TypedInv, SerialInv, [MoneyNext]_moneyVars
    PROVE  SerialInv'
<1>1. CASE \E r \in Request : \/ StartSettle(r) \/ StartFinalize(r) \/ StartBackfill(r)
                              \/ StepRequest(r) \/ FailCall(r) \/ FailLanding(r)
  <2>1. PICK r \in Request : \/ StartSettle(r) \/ StartFinalize(r) \/ StartBackfill(r)
                             \/ StepRequest(r) \/ FailCall(r) \/ FailLanding(r)
    BY <1>1
  <2> QED
    BY <2>1, StartSerial, ComputeSerial, InterestSerial, IssueSerial, LandSerial, FailLandingSerial,
       LeaveSerial, EnsureSerial, SelectSerial, ReadPayoutSerial, UpdateTargetSerial, UpdateSourceSerial
       DEF StepRequest
<1>2. CASE \E u \in User : MarkSent(u)
  BY <1>2, MarkSentSerial
<1>3. CASE CrashMoney
  BY <1>3, CrashSerial
<1>4. CASE UNCHANGED moneyVars
  <2>1. UNCHANGED <<source, target, program, req, landing, settled>>
    BY <1>4 DEF moneyVars, rows
  <2> QED BY <2>1 DEF SerialInv, Agree, DueNow, Computes, Rolls, Fresh, Unearned
<1> QED BY <1>1, <1>2, <1>3, <1>4 DEF MoneyNext

LEMMA SerialHolds == ASSUME Serial PROVE MoneySpec => [](TypedInv /\ SerialInv)
<1>1. MoneyInit => TypedInv /\ SerialInv
  BY TypedStart, SerialStart
<1>2. (TypedInv /\ SerialInv) /\ [MoneyNext]_moneyVars => (TypedInv /\ SerialInv)'
  BY TypedStep, SerialStep
<1> QED BY <1>1, <1>2, PTL DEF MoneySpec

--------------------------------------------------------------------------------
(* What a step may do to the rows                                          *)

Changing(r) == CountInterest(r) \/ Land(r) \/ Ensure(r) \/ EnsureAuto(r) \/ EnsureJingle(r)
               \/ UpdateTarget(r) \/ UpdateSource(r)

LEMMA RowsChange ==
    ASSUME MoneyNext
    PROVE  UNCHANGED rows \/ (\E r \in Request : Changing(r)) \/ (\E u \in User : MarkSent(u))
<1>1. CASE \E r \in Request : \/ StartSettle(r) \/ StartFinalize(r) \/ StartBackfill(r)
                              \/ StepRequest(r) \/ FailCall(r) \/ FailLanding(r)
  <2>1. PICK r \in Request : \/ StartSettle(r) \/ StartFinalize(r) \/ StartBackfill(r)
                             \/ StepRequest(r) \/ FailCall(r) \/ FailLanding(r)
    BY <1>1
  <2>2. CASE StartSettle(r) \/ StartFinalize(r) \/ StartBackfill(r)
    BY <2>2 DEF StartSettle, StartFinalize, StartBackfill, Start
  <2>3. CASE StepRequest(r)
    BY <2>3 DEF StepRequest, Changing, Compute, Issue, Persisted, Select, ReadPayout, EndRollovers
  <2>4. CASE FailCall(r) \/ FailLanding(r)
    BY <2>4 DEF FailCall, FailLanding
  <2> QED BY <2>1, <2>2, <2>3, <2>4
<1>2. CASE CrashMoney
  BY <1>2 DEF CrashMoney
<1> QED BY <1>1, <1>2 DEF MoneyNext

\* An update of a target gives it the amount it has, if it has one.
LEMMA TargetStands ==
    ASSUME TypedInv, SerialInv, NEW r \in Request, Changing(r), NEW u \in User, target[u].amount # NoIsk
    PROVE  target'[u].amount = target[u].amount
<1>1. CASE CountInterest(r) \/ Land(r) \/ UpdateSource(r)
  <2>1. target' = target
    BY <1>1 DEF CountInterest, Land, UpdateSource
  <2> QED BY <2>1
<1>2. CASE Ensure(r) \/ EnsureAuto(r) \/ EnsureJingle(r)
  <2>1. target'[u] = target[u] \/ target[u].type = "none"
    BY <1>2, EnsureShape
  <2> QED BY <2>1 DEF SerialInv, Agree
<1>3. CASE UpdateTarget(r)
  <2> DEFINE k == req[r].now
  <2>1. target' = [target EXCEPT ![k.user].amount = k.rolled] /\ req[r].pc = "target"
    BY <1>3 DEF UpdateTarget
  <2>2. k.user \in User /\ source[k.user].deducted = NoIsk /\ k.rolled = DueNow(k.user)
    BY <2>1, AtHand
  <2>3. CASE u = k.user
    <3>1. target[u].amount = k.rolled
      BY <2>2, <2>3 DEF SerialInv, Agree
    <3>2. target'[u].amount = k.rolled
      BY <2>1, <2>2, <2>3 DEF TypedInv, Rows, TargetRow
    <3> QED BY <3>1, <3>2
  <2>4. CASE u # k.user
    BY <2>1, <2>4 DEF TypedInv, Rows
  <2> QED BY <2>3, <2>4
<1> QED BY <1>1, <1>2, <1>3 DEF Changing

\* Nothing takes a deduction back, and a payout changes only in the step that deducts.
LEMMA SourceStands ==
    ASSUME TypedInv, SerialInv, NEW r \in Request, Changing(r), NEW u \in User, source[u].payout # NoIsk
    PROVE  /\ source[u].deducted # NoIsk => source'[u].deducted = source[u].deducted
           /\ source'[u].payout # source[u].payout =>
                 source[u].deducted = NoIsk /\ source'[u].deducted # NoIsk
<1>1. CASE CountInterest(r) \/ UpdateTarget(r) \/ Ensure(r) \/ EnsureAuto(r) \/ EnsureJingle(r)
  <2>1. source' = source
    BY <1>1 DEF CountInterest, UpdateTarget, Ensure, EnsureAuto, EnsureJingle
  <2> QED BY <2>1
<1>2. CASE Land(r)
  <2>1. PICK p \in landing[r] :
            source' = [source EXCEPT ![p.user].payout = p.isk, ![p.user].status = "AWAITING_PAYOUT"]
    BY <1>2 DEF Land
  <2>2. p.user \in User /\ source[p.user].status = "OPTED_IN"
    BY FieldsTyped DEF Payout, SerialInv, Computes, Fresh
  <2>3. u # p.user
    BY <2>2 DEF SerialInv, Agree
  <2> QED BY <2>1, <2>3 DEF TypedInv, Rows
<1>3. CASE UpdateSource(r)
  <2> DEFINE k == req[r].now
  <2>1. /\ source'[k.user].deducted = k.rolled /\ req[r].pc = "source"
        /\ \A v \in User : v # k.user => source'[v] = source[v]
    BY <1>3, UpdateSourceShape
  <2>2. source[k.user].deducted = NoIsk /\ k.rolled \in Int
    BY <2>1, AtHand
  <2>3. k.rolled # NoIsk
    BY <2>2, MoneyAssumption
  <2> QED BY <2>1, <2>2, <2>3
<1> QED BY <1>1, <1>2, <1>3 DEF Changing

\* Only a settlement counts interest, and for a program that has none yet.
LEMMA ProgramStands ==
    ASSUME TypedInv, SerialInv, NEW r \in Request, Changing(r), NEW u \in User, program'[u] # program[u]
    PROVE  program[u].interest = 0 /\ program'[u].repaid \in {0, Locked[u]}
<1>1. CountInterest(r)
  <2>1. CASE Land(r) \/ Ensure(r) \/ EnsureAuto(r) \/ EnsureJingle(r) \/ UpdateTarget(r) \/ UpdateSource(r)
    <3>1. program' = program
      BY <2>1 DEF Land, Ensure, EnsureAuto, EnsureJingle, UpdateTarget, UpdateSource
    <3> QED BY <3>1
  <2> QED BY <2>1 DEF Changing
<1>2. PICK p \in req[r].payouts : p.user \in req[r].todo /\ p.user \in User /\ Counts(p)
  BY <1>1, InterestShape
<1>3. Unearned(p.user)
  BY <1>1, <1>2, InterestShape DEF SerialInv, Computes
<1>4. PICK active \in BOOLEAN,
           repaid \in {program[p.user].repaid, program[p.user].repaid + Locked[p.user]} :
          program' = [program EXCEPT ![p.user].interest = program[p.user].interest + p.share,
                                     ![p.user].active = active, ![p.user].repaid = repaid]
  BY <1>2 DEF Counts
<1>5. u = p.user
  BY <1>2, <1>4 DEF TypedInv, Rows
<1>6. Locked[u] \in Nat /\ program[u].interest = 0 /\ program[u].repaid = 0
  BY <1>3, <1>5, MoneyAssumption DEF Unearned
<1>7. program'[u].repaid = repaid
  BY <1>2, <1>4, <1>5 DEF TypedInv, Rows, ProgramRow
<1> QED BY <1>4, <1>5, <1>6, <1>7

\* An admin who marks a payout as sent changes no amount.
LEMMA MarkSentStands ==
    ASSUME TypedInv, NEW v \in User, MarkSent(v), NEW u \in User
    PROVE  /\ source'[u].payout = source[u].payout /\ source'[u].deducted = source[u].deducted
           /\ target' = target /\ program' = program
<1>1. /\ source' = [source EXCEPT ![v].status = "COMPLETED", ![v].paid = TRUE]
      /\ UNCHANGED <<target, program>>
  BY DEF MarkSent
<1> QED BY <1>1 DEF TypedInv, Rows, SourceRow

LEMMA OnceStep ==
    ASSUME TypedInv, SerialInv, MoneyNext, NEW u \in User
    PROVE  /\ target[u].amount # NoIsk => target'[u].amount = target[u].amount
           /\ source[u].deducted # NoIsk => source'[u].deducted = source[u].deducted
<1>1. source[u].deducted # NoIsk => source[u].payout # NoIsk
  BY DEF SerialInv, Agree
<1>2. CASE UNCHANGED rows
  BY <1>2 DEF rows
<1>3. CASE \E r \in Request : Changing(r)
  BY <1>1, <1>3, TargetStands, SourceStands
<1>4. CASE \E v \in User : MarkSent(v)
  BY <1>4, MarkSentStands
<1> QED BY <1>2, <1>3, <1>4, RowsChange

LEMMA StandsStep ==
    ASSUME TypedInv, SerialInv, MoneyNext, NEW u \in User
    PROVE  /\ source[u].payout # NoIsk /\ source'[u].payout # source[u].payout =>
                 source[u].deducted = NoIsk /\ source'[u].deducted # NoIsk
           /\ program'[u] # program[u] =>
                 program[u].interest = 0 /\ program'[u].repaid \in {0, Locked[u]}
<1>1. CASE UNCHANGED rows
  BY <1>1 DEF rows
<1>2. CASE \E r \in Request : Changing(r)
  BY <1>2, SourceStands, ProgramStands
<1>3. CASE \E v \in User : MarkSent(v)
  BY <1>3, MarkSentStands
<1> QED BY <1>1, <1>2, <1>3, RowsChange

\* While requests do not overlap, a rollover that is repeated gives its target the
\* amount that a failure or a crash left there, and no deduction is taken back or
\* made a second time, whatever the payouts, the programs and the order of the calls.
THEOREM RolloverHappensOnce == ASSUME Serial PROVE MoneySpec => RolledOnce
<1>1. (TypedInv /\ SerialInv) /\ MoneyNext =>
          \A u \in User :
              /\ target[u].amount # NoIsk => target'[u].amount = target[u].amount
              /\ source[u].deducted # NoIsk => source'[u].deducted = source[u].deducted
  BY OnceStep
<1> QED BY <1>1, SerialHolds, PTL DEF MoneySpec, RolledOnce

\* While requests do not overlap, the payout snapshot stands: a payout is written
\* once and changed only by its deduction, also when updates of a failed snapshot
\* land after the request has gone on; interest is counted once for a program.
THEOREM SnapshotIsFinal == ASSUME Serial PROVE MoneySpec => SnapshotStands
<1>1. (TypedInv /\ SerialInv) /\ MoneyNext =>
          \A u \in User :
              /\ source[u].payout # NoIsk /\ source'[u].payout # source[u].payout =>
                    source[u].deducted = NoIsk /\ source'[u].deducted # NoIsk
              /\ program'[u] # program[u] =>
                    program[u].interest = 0 /\ program'[u].repaid \in {0, Locked[u]}
  BY StandsStep
<1> QED BY <1>1, SerialHolds, PTL DEF MoneySpec, SnapshotStands

--------------------------------------------------------------------------------
(* The deduction balances                                                  *)

\* The Cycle loses no more than any one of its investors put in: then nobody's
\* payout is negative, even when the retry of a partial snapshot divides the
\* whole loss among those who are left.
LossCovered == \A p \in Profits, u \in User : -p <= Invested[u]

Covered ==
    /\ \A u \in User : source[u].payout # NoIsk => source[u].payout >= 0
    /\ \A r \in Request : /\ \A p \in landing[r] : p.isk >= 0
                          /\ \A p \in req[r].payouts : p.isk >= 0

\* A quotient is at least what the dividend is a multiple of.
LEMMA QuotientAtLeast ==
    ASSUME NEW n \in Int, NEW d \in Nat \ {0}, NEW k \in Int, n >= d * k
    PROVE  n \div d >= k
<1> DEFINE q == n \div d
<1>1. q \in Int /\ n < d * (q + 1)
  <2>1. n = d * q + (n % d) /\ (n % d) \in 0..(d - 1)
    OBVIOUS
  <2>2. q \in Int
    OBVIOUS
  <2> HIDE DEF q
  <2>3. d * (q + 1) = d * q + d /\ d * q \in Int
    BY <2>2
  <2> QED BY <2>1, <2>2, <2>3
<1> HIDE DEF q
<1>2. SUFFICES ASSUME q + 1 <= k PROVE FALSE
  BY <1>1 DEF q
<1>3. d * (q + 1) <= d * k
  <2>1. k - (q + 1) \in Nat
    BY <1>1, <1>2
  <2>2. d * (k - (q + 1)) >= 0
    BY <2>1
  <2>3. d * (k - (q + 1)) = d * k - d * (q + 1)
    BY <1>1
  <2> QED BY <1>1, <2>2, <2>3
<1> QED BY <1>1, <1>3

LEMMA ShareCovered ==
    ASSUME LossCovered, profit \in Profits, NEW S \in SUBSET User, NEW u \in S
    PROVE  Invested[u] + ProfitShare(u, S) >= 0
<1> DEFINE capital == Total(Invested, S)
           own == Invested[u]
<1>1. capital \in Nat \ {0} /\ own \in Nat \ {0} /\ own <= capital
  BY CapitalIsPositive
<1>2. profit \in Int /\ -profit <= own
  BY MoneyAssumption DEF LossCovered
<1>3. ProfitShare(u, S) = (2 * profit * own + capital) \div (2 * capital)
  BY DEF ProfitShare
<1> HIDE DEF capital, own
<1>4. 2 * profit * own + capital >= (2 * capital) * (-own)
  <2>1. profit + capital \in Nat
    BY <1>1, <1>2
  <2>2. own * (profit + capital) >= 0
    BY <1>1, <2>1
  <2>3. own * (profit + capital) = profit * own + capital * own
    BY <1>1, <1>2
  <2>4. profit * own \in Int /\ capital * own \in Int
    BY <1>1, <1>2
  <2>5. 2 * profit * own = 2 * (profit * own) /\ (2 * capital) * (-own) = -(2 * (capital * own))
    BY <1>1, <1>2
  <2> QED BY <1>1, <2>2, <2>3, <2>4, <2>5
<1>5. 2 * profit * own + capital \in Int /\ 2 * capital \in Nat \ {0} /\ -own \in Int
  BY <1>1, <1>2
<1>6. (2 * profit * own + capital) \div (2 * capital) >= -own
  BY <1>4, <1>5, QuotientAtLeast
<1>7. (2 * profit * own + capital) \div (2 * capital) \in Int
  BY <1>5
<1> QED BY <1>1, <1>3, <1>6, <1>7 DEF own

\* What is rolled over is within the cap, and no more than the payout and the extra.
LEMMA DueBounds ==
    ASSUME NEW u \in User, NEW type, NEW extra \in 0..Cap, NEW active \in BOOLEAN, NEW payout \in Nat
    PROVE  LET due == Due(u, type, extra, active, payout)
           IN  due \in 0..Cap /\ due + (payout - AtMost(due, payout)) <= payout + extra
<1>1. /\ Cap \in Nat /\ Invested[u] \in Nat /\ Custom[u] \in Nat /\ Locked[u] \in Nat /\ Locked[u] <= Cap
  BY MoneyAssumption
<1> DEFINE full == AtMost(payout, AtMost(payout + extra, Cap) - extra) + extra
           intended == CASE type = "FULL_PAYOUT" -> full
                         [] type = "INITIAL_ONLY" -> Invested[u]
                         [] OTHER -> Custom[u]
           amount == IF ~active THEN intended
                     ELSE IF payout >= Locked[u] THEN AtLeast(intended, Locked[u])
                     ELSE AtMost(intended, payout)
           due == IF type = "FULL_PAYOUT" THEN amount ELSE AtMost(AtMost(amount, Cap), payout)
<1>2. full \in 0..Cap /\ full <= payout + extra
  BY <1>1 DEF AtMost
<1> HIDE DEF full
<1>3. intended \in Nat /\ (type = "FULL_PAYOUT" => intended = full)
  BY <1>1, <1>2
<1> HIDE DEF intended
<1>4. amount \in Nat /\ (type = "FULL_PAYOUT" => amount <= Cap /\ amount <= payout + extra)
  BY <1>1, <1>2, <1>3 DEF AtMost, AtLeast
<1> HIDE DEF amount
<1>5. due \in 0..Cap /\ due <= payout + extra
  BY <1>1, <1>4 DEF AtMost
<1>6. Due(u, type, extra, active, payout) = due
  BY DEF Due, due, amount, intended, full
<1> HIDE DEF due
<1>7. due + (payout - AtMost(due, payout)) <= payout + extra
  BY <1>5, <1>1 DEF AtMost
<1> QED BY <1>5, <1>6, <1>7

\* A request that has no payout it did not have before.
LEMMA CoveredLocal ==
    ASSUME TypedInv, Covered, NEW r \in Request, NEW new \in Local, Becomes(r, new),
           \A p \in new.payouts : p.isk >= 0,
           \A u \in User : source'[u].payout # NoIsk => source'[u].payout >= 0,
           \A q \in Request : \A p \in landing'[q] : p.isk >= 0
    PROVE  Covered'
<1>1. \A q \in Request : req'[q] = IF q = r THEN new ELSE req[q]
  BY DEF TypedInv, Requests, Becomes
<1> QED BY <1>1 DEF Covered

LEMMA CoveredStep ==
    ASSUME LossCovered, TypedInv, Covered, [MoneyNext]_moneyVars
    PROVE  Covered'
<1>1. ASSUME NEW r \in Request,
             StartSettle(r) \/ StartFinalize(r) \/ StartBackfill(r) \/ StepRequest(r) \/ FailCall(r) \/ FailLanding(r)
      PROVE  Covered'
  <2>0. \A p \in NoRequest.payouts : p.isk >= 0
    BY NothingTyped
  <2>1. CASE StartSettle(r) \/ StartFinalize(r) \/ StartBackfill(r)
    <3>1. PICK kind \in {"settle", "finalize", "backfill"}, pc \in {"compute", "ensure"} : Start(r, kind, pc)
      BY <2>1 DEF StartSettle, StartFinalize, StartBackfill
    <3> DEFINE new == [NoRequest EXCEPT !.kind = kind, !.pc = pc]
    <3>2. new \in Local /\ new.payouts = {}
      BY NothingTyped DEF Local
    <3>3. Becomes(r, new) /\ UNCHANGED <<source, landing>>
      BY <3>1 DEF Start, rows
    <3> HIDE DEF new
    <3> QED BY <3>2, <3>3, CoveredLocal DEF Covered
  <2>2. CASE Compute(r)
    <3> DEFINE S == {u \in User : source[u].status = "OPTED_IN"}
               todo == IF req[r].kind = "settle" THEN Earning(Payouts(S)) ELSE {}
               new == [req[r] EXCEPT !.pc = "interest", !.payouts = Payouts(S), !.todo = todo]
    <3>1. Payouts(S) \in SUBSET Payout
      BY PayoutsTyped DEF TypedInv
    <3>2. todo \in SUBSET User
      BY <3>1 DEF Earning, Payout
    <3>3. Becomes(r, new) /\ UNCHANGED <<source, landing>>
      BY <2>2 DEF Compute, rows
    <3>4. S \in SUBSET User
      OBVIOUS
    <3> HIDE DEF todo, S
    <3>5. \A p \in Payouts(S) : p.isk >= 0
      <4> SUFFICES ASSUME NEW u \in S PROVE Invested[u] + ProfitShare(u, S) >= 0
        BY DEF Payouts
      <4> QED BY <3>4, ShareCovered DEF TypedInv
    <3>6. new \in Local /\ new.payouts = Payouts(S)
      BY <3>1, <3>2, FieldsTyped DEF Local
    <3> HIDE DEF new
    <3> QED BY <3>3, <3>5, <3>6, CoveredLocal DEF Covered
  <2>3. CASE CountInterest(r)
    <3>1. PICK p \in req[r].payouts : Becomes(r, [req[r] EXCEPT !.todo = @ \ {p.user}])
      BY <2>3, InterestShape
    <3> DEFINE new == [req[r] EXCEPT !.todo = @ \ {p.user}]
    <3>2. new \in Local /\ new.payouts = req[r].payouts
      BY FieldsTyped DEF Local
    <3>3. Becomes(r, new) /\ UNCHANGED <<source, landing>>
      BY <2>3, <3>1, InterestShape
    <3> HIDE DEF new
    <3> QED BY <3>2, <3>3, CoveredLocal DEF Covered
  <2>4. CASE Issue(r)
    <3> DEFINE new == [req[r] EXCEPT !.pc = "persist"]
    <3>1. new \in Local /\ new.payouts = req[r].payouts
      BY FieldsTyped DEF Local
    <3>2. Becomes(r, new) /\ landing' = [landing EXCEPT ![r] = req[r].payouts] /\ UNCHANGED source
      BY <2>4 DEF Issue, rows
    <3> HIDE DEF new
    <3>3. \A q \in Request : \A p \in landing'[q] : p.isk >= 0
      BY <3>2 DEF Covered, TypedInv, Requests
    <3> QED BY <3>1, <3>2, <3>3, CoveredLocal DEF Covered
  <2>5. CASE Land(r)
    <3>1. PICK p \in landing[r] :
              /\ landing' = [landing EXCEPT ![r] = @ \ {p}]
              /\ source' = [source EXCEPT ![p.user].payout = p.isk, ![p.user].status = "AWAITING_PAYOUT"]
              /\ UNCHANGED <<profit, target, program, req, settled, failures>>
      BY <2>5 DEF Land
    <3>2. p.user \in User /\ p.isk >= 0
      BY FieldsTyped DEF Covered, Payout
    <3>3. \A u \in User : source'[u].payout = IF u = p.user THEN p.isk ELSE source[u].payout
      BY <3>1, <3>2 DEF TypedInv, Rows, SourceRow
    <3>4. \A q \in Request : \A x \in landing'[q] : x.isk >= 0
      BY <3>1 DEF Covered, TypedInv, Requests
    <3> QED BY <3>1, <3>2, <3>3, <3>4 DEF Covered
  <2>6. CASE Persisted(r) \/ EndRollovers(r) \/ FailCall(r)
    <3>1. (Becomes(r, NoRequest) \/ Becomes(r, AfterPayouts(r))) /\ UNCHANGED <<source, landing>>
      BY <2>6 DEF Persisted, EndRollovers, FailCall, rows
    <3>2. AfterPayouts(r).payouts = {}
      BY FieldsTyped, NothingTyped DEF AfterPayouts, Local
    <3> QED BY <2>0, <3>1, <3>2, NothingTyped, AfterPayoutsTyped, CoveredLocal DEF Covered
  <2>7. CASE Ensure(r) \/ EnsureAuto(r) \/ EnsureJingle(r)
    <3>1. PICK pc \in {"auto", "jingle", "select", "idle"} :
              Becomes(r, IF pc = "idle" THEN NoRequest ELSE [req[r] EXCEPT !.pc = pc])
      BY <2>7, EnsureShape
    <3> DEFINE new == IF pc = "idle" THEN NoRequest ELSE [req[r] EXCEPT !.pc = pc]
    <3>2. new \in Local /\ (new.payouts = req[r].payouts \/ new.payouts = {})
      <4>1. CASE pc = "idle"
        BY <4>1, NothingTyped
      <4>2. CASE pc # "idle"
        BY <4>2, FieldsTyped DEF Local
      <4> QED BY <4>1, <4>2
    <3>3. Becomes(r, new) /\ UNCHANGED <<source, landing>>
      BY <2>7, <3>1, EnsureShape
    <3> HIDE DEF new
    <3> QED BY <3>2, <3>3, CoveredLocal DEF Covered
  <2>8. CASE Select(r)
    <3> DEFINE todo == {u \in User : target[u].type \in IntentType /\ source[u].deducted = NoIsk}
               active == {u \in JingleYield : program[u].active}
               new == [req[r] EXCEPT !.pc = "read", !.todo = todo, !.active = active]
    <3>1. Becomes(r, new) /\ UNCHANGED <<source, landing>>
      BY <2>8 DEF Select, rows
    <3>2. todo \in SUBSET User /\ active \in SUBSET JingleYield
      OBVIOUS
    <3> HIDE DEF todo, active
    <3>3. new \in Local /\ new.payouts = req[r].payouts
      BY <3>2, FieldsTyped DEF Local
    <3> HIDE DEF new
    <3> QED BY <3>1, <3>3, CoveredLocal DEF Covered
  <2>9. CASE ReadPayout(r)
    <3>1. PICK u \in req[r].todo :
              /\ req[r].pc = "read" /\ UNCHANGED <<profit, rows, landing, settled, failures>>
              /\ IF source[u].payout = NoIsk THEN Becomes(r, NoRequest)
                 ELSE Becomes(r, [req[r] EXCEPT !.pc = "target", !.todo = @ \ {u}, !.now = Next(r, u)])
      BY <2>9, ReadPayoutShape
    <3>2. UNCHANGED <<source, landing>> /\ u \in User
      BY <3>1, FieldsTyped DEF rows
    <3>3. CASE source[u].payout = NoIsk
      BY <2>0, <3>1, <3>2, <3>3, NothingTyped, CoveredLocal DEF Covered
    <3>4. CASE source[u].payout # NoIsk
      <4> DEFINE new == [req[r] EXCEPT !.pc = "target", !.todo = @ \ {u}, !.now = Next(r, u)]
      <4>1. Next(r, u) \in Rollovers
        BY <3>2, <3>4, NextTyped
      <4>2. new \in Local /\ new.payouts = req[r].payouts
        BY <4>1, FieldsTyped DEF Local
      <4>3. Becomes(r, new)
        BY <3>1, <3>4
      <4> HIDE DEF new
      <4> QED BY <3>2, <4>2, <4>3, CoveredLocal DEF Covered
    <3> QED BY <3>3, <3>4
  <2>10. CASE UpdateTarget(r)
    <3> DEFINE new == [req[r] EXCEPT !.pc = "source"]
    <3>1. new \in Local /\ new.payouts = req[r].payouts
      BY FieldsTyped DEF Local
    <3>2. Becomes(r, new) /\ UNCHANGED <<source, landing>>
      BY <2>10 DEF UpdateTarget
    <3> HIDE DEF new
    <3> QED BY <3>1, <3>2, CoveredLocal DEF Covered
  <2>11. CASE UpdateSource(r)
    <3> DEFINE k == req[r].now
               row == [payout |-> k.left, deducted |-> k.rolled,
                       status |-> IF k.paid \/ k.left = 0 THEN "COMPLETED" ELSE "AWAITING_PAYOUT",
                       paid |-> k.paid \/ k.left = 0]
               new == [req[r] EXCEPT !.pc = "read", !.now = NoRollover]
    <3>1. new \in Local /\ new.payouts = req[r].payouts
      BY FieldsTyped, NothingTyped DEF Local
    <3>2. source' = [source EXCEPT ![k.user] = row] /\ Becomes(r, new) /\ UNCHANGED landing
      BY <2>11 DEF UpdateSource
    <3>3. k.left \in Nat
      BY FieldsTyped DEF Rollovers
    <3>4. row.payout = k.left
      OBVIOUS
    <3> HIDE DEF new, k, row
    <3>5. \A u \in User : source'[u].payout = k.left \/ source'[u] = source[u]
      BY <3>2, <3>4 DEF TypedInv, Rows
    <3> QED BY <3>1, <3>2, <3>3, <3>5, CoveredLocal DEF Covered
  <2>12. CASE FailLanding(r)
    <3>1. PICK p \in landing[r] :
              /\ landing' = [landing EXCEPT ![r] = @ \ {p}]
              /\ IF req[r].pc = "persist" THEN Becomes(r, AfterPayouts(r)) ELSE UNCHANGED req
              /\ UNCHANGED <<profit, rows, settled>>
      BY <2>12 DEF FailLanding
    <3>2. \A q \in Request : \A x \in landing'[q] : x.isk >= 0
      BY <3>1 DEF Covered, TypedInv, Requests
    <3>3. UNCHANGED source
      BY <3>1 DEF rows
    <3>4. AfterPayouts(r).payouts = {}
      BY FieldsTyped, NothingTyped DEF AfterPayouts, Local
    <3>5. CASE req[r].pc = "persist"
      BY <3>1, <3>2, <3>3, <3>4, <3>5, AfterPayoutsTyped, CoveredLocal DEF Covered
    <3>6. CASE req[r].pc # "persist"
      BY <3>1, <3>2, <3>3, <3>6 DEF Covered
    <3> QED BY <3>5, <3>6
  <2> QED BY <1>1, <2>1, <2>2, <2>3, <2>4, <2>5, <2>6, <2>7, <2>8, <2>9, <2>10, <2>11, <2>12 DEF StepRequest
<1>2. CASE \E u \in User : MarkSent(u)
  <2>1. PICK u \in User : MarkSent(u)
    BY <1>2
  <2>2. \A v \in User : source'[v].payout = source[v].payout
    BY <2>1, MarkSentStands
  <2> QED BY <2>1, <2>2 DEF Covered, MarkSent
<1>3. CASE CrashMoney
  BY <1>3, NothingTyped DEF Covered, CrashMoney, rows
<1>4. CASE UNCHANGED moneyVars
  BY <1>4 DEF Covered, moneyVars, rows
<1> QED BY <1>1, <1>2, <1>3, <1>4 DEF MoneyNext

\* What the step that deducts a rollover leaves behind.
LEMMA BalanceStep ==
    ASSUME TypedInv, SerialInv, Covered, MoneyNext, NEW u \in User,
           source[u].deducted = NoIsk, source'[u].deducted # NoIsk
    PROVE  /\ source'[u].deducted \in 0..Cap /\ source'[u].payout >= 0
           /\ source'[u].deducted + source'[u].payout <= source[u].payout + target[u].extra
           /\ target'[u].amount = source'[u].deducted
<1>1. PICK r \in Request : UpdateSource(r)
  <2>1. CASE UNCHANGED rows
    BY <2>1 DEF rows
  <2>2. CASE \E v \in User : MarkSent(v)
    BY <2>2, MarkSentStands
  <2>3. CASE \E r \in Request : Changing(r)
    <3>1. PICK r \in Request : Changing(r)
      BY <2>3
    <3>2. CASE CountInterest(r) \/ UpdateTarget(r) \/ Ensure(r) \/ EnsureAuto(r) \/ EnsureJingle(r)
      BY <3>2 DEF CountInterest, UpdateTarget, Ensure, EnsureAuto, EnsureJingle
    <3>3. CASE Land(r)
      <4>1. PICK p \in landing[r] :
                source' = [source EXCEPT ![p.user].payout = p.isk, ![p.user].status = "AWAITING_PAYOUT"]
        BY <3>3 DEF Land
      <4>2. source'[u].deducted = source[u].deducted
        BY <4>1 DEF TypedInv, Rows, SourceRow
      <4> QED BY <4>2
    <3> QED BY <3>1, <3>2, <3>3 DEF Changing
  <2> QED BY <2>1, <2>2, <2>3, RowsChange
<1> DEFINE k == req[r].now
<1>2. /\ source'[k.user].payout = k.left /\ source'[k.user].deducted = k.rolled
      /\ \A v \in User : v # k.user => source'[v] = source[v]
      /\ req[r].pc = "source" /\ target' = target
  BY <1>1, UpdateSourceShape
<1>3. u = k.user
  BY <1>2
<1>4. /\ source[u].payout # NoIsk /\ k.rolled = DueNow(u) /\ target[u].amount = k.rolled
      /\ k.left = source[u].payout - AtMost(k.rolled, source[u].payout) /\ k.left \in Nat
  BY <1>2, <1>3, AtHand
<1>5. source[u].payout \in Nat /\ target[u].extra \in 0..Cap /\ program[u].active \in BOOLEAN
  <2>1. source[u].payout \in Int /\ source[u].payout >= 0
    BY <1>4 DEF TypedInv, Rows, SourceRow, Covered
  <2>2. target[u].extra \in Nat /\ target[u].extra <= Cap /\ Cap \in Nat
    BY MoneyAssumption DEF TypedInv, Rows, TargetRow, SerialInv, Agree
  <2>3. program[u].active \in BOOLEAN
    BY DEF TypedInv, Rows, ProgramRow
  <2> QED BY <2>1, <2>2, <2>3
<1>6. k.rolled \in 0..Cap /\ k.rolled + k.left <= source[u].payout + target[u].extra
  BY <1>4, <1>5, DueBounds DEF DueNow
<1> QED BY <1>2, <1>3, <1>4, <1>6

\* While requests do not overlap and a loss is covered, the deduction creates no
\* ISK: what is rolled over is within the cap, what is left is not negative, both
\* add up to no more than the payout with the extra, and the target has exactly
\* what the source gave, also when failures and retries come between the two.
THEOREM DeductionsBalance == ASSUME Serial, LossCovered PROVE MoneySpec => DeductionBalances
<1>1. MoneyInit => Covered
  BY NothingTyped DEF MoneyInit, Covered
<1>2. TypedInv /\ Covered /\ [MoneyNext]_moneyVars => Covered'
  BY CoveredStep
<1>3. (TypedInv /\ SerialInv) /\ Covered /\ MoneyNext =>
          \A u \in User : source[u].deducted = NoIsk /\ source'[u].deducted # NoIsk =>
              LET rolled == source'[u].deducted
                  left == source'[u].payout
              IN  /\ rolled \in 0..Cap /\ left >= 0
                  /\ rolled + left <= source[u].payout + target[u].extra
                  /\ target'[u].amount = rolled
  BY BalanceStep
<1> QED BY <1>1, <1>2, <1>3, SerialHolds, PTL DEF MoneySpec, DeductionBalances

================================================================================
