---------------------------- MODULE SettlementMoney ----------------------------
(***************************************************************************)
(* The Recoverable steps of a Cycle Settlement, payout_creation and        *)
(* cycle_rollover, with everything an admin does afterwards about them:    *)
(* finalizing payouts, backfilling rollovers and sending payouts.  One     *)
(* Cycle is settled into one target Cycle; CycleLifecycle says when.       *)
(*                                                                         *)
(* None of this is one transaction.  The payout snapshot is written by     *)
(* updates issued all at once; a rollover is an update of the target       *)
(* participation followed by one of the source; a failure or a crash       *)
(* leaves what was written, and the admin repeats the request.             *)
(***************************************************************************)
EXTENDS Integers, Totals

CONSTANTS
    User,          \* the users with a participation in the settled Cycle
    Request,       \* slots for the requests in flight; reused
    NoUser,        \* no user
    NoIsk,         \* the null of the nullable amounts
    Invested,      \* Invested[u]: amountIsk of u's participation there
    OptedOut,      \* users who opted out before that Cycle was opened
    Profits,       \* what may be distributed: half of its profit, or of its loss
    Cap,           \* the maximum total investment of a user
    Extra,         \* Extra[u]: principal u may add to a FULL_PAYOUT rollover
    Custom,        \* Custom[u]: the amount u enters for a CUSTOM_AMOUNT rollover
    AutoRollover,  \* AutoRollover[u]: the type of u's auto rollover, or "none"
    JingleYield,   \* users whose JingleYield program is ACTIVE at first
    Locked,        \* Locked[u]: its locked principal, also its interest target
    MaxFailures    \* bound: how many awaited calls fail or crash

IntentType == {"FULL_PAYOUT", "INITIAL_ONLY", "CUSTOM_AMOUNT"}

\* Admins lock at most 10B, half of the default cap.
ASSUME MoneyAssumption ==
    /\ NoIsk \notin Int /\ NoUser \notin User /\ IsFiniteSet(User)
    /\ Profits \subseteq Int /\ Cap \in Nat /\ MaxFailures \in Nat
    /\ Invested \in [User -> Nat \ {0}]
    /\ \A u \in User : Extra[u] \in 0..Cap /\ Custom[u] \in 0..Invested[u] /\ Locked[u] \in 1..Cap
    /\ AutoRollover \in [User -> {"none", "FULL_PAYOUT", "INITIAL_ONLY"}]
    /\ OptedOut \subseteq User /\ JingleYield \subseteq User

VARIABLES
    profit,    \* what the settled Cycle distributes
    source,    \* source[u]: u's participation in the settled Cycle
    target,    \* target[u]: u's participation in the target Cycle, if any
    program,   \* program[u]: the JingleYield program of u; last: with this Cycle it
               \* reaches minCycles
    req,       \* req[r]: the local variables of request r
    landing,   \* landing[r]: snapshot updates r has issued that are not settled
    settled,   \* has the settlement started its Recoverable steps?
    failures   \* how many awaited calls failed so far

rows == <<source, target, program>>
moneyVars == <<profit, rows, req, landing, settled, failures>>

\* The rollover at hand: what was read of the payout, and what becomes of it.
NoRollover == [user |-> NoUser, rolled |-> 0, left |-> 0, paid |-> FALSE]

\* payouts: the computed payouts; todo: what is left of a loop; active: the users
\* whose program the rollover loop has read as ACTIVE.
NoRequest == [pc |-> "idle", kind |-> "none", payouts |-> {}, todo |-> {}, active |-> {},
              now |-> NoRollover]

Payout == [user : User, share : Int, isk : Int]

MoneyTypeOK ==
    /\ profit \in Profits
    /\ source \in [User -> [status : {"OPTED_IN", "OPTED_OUT", "AWAITING_PAYOUT", "COMPLETED"},
                            payout : Int \cup {NoIsk}, deducted : Int \cup {NoIsk}, paid : BOOLEAN]]
    /\ target \in [User -> [type : IntentType \cup {"none", "OTHER"}, extra : Nat,
                            amount : Int \cup {NoIsk}]]
    /\ program \in [User -> [active : BOOLEAN, last : BOOLEAN, interest : Nat, repaid : Nat]]
    /\ \A r \in Request :
          /\ req[r].pc \in {"idle", "compute", "interest", "persist", "ensure", "auto", "jingle",
                            "select", "read", "target", "source"}
          /\ req[r].kind \in {"none", "settle", "finalize", "backfill"}
          /\ req[r].payouts \subseteq Payout /\ landing[r] \subseteq Payout
          /\ req[r].todo \subseteq User /\ req[r].active \subseteq JingleYield
          /\ req[r].now \in [user : User \cup {NoUser}, rolled : Int, left : Nat, paid : BOOLEAN]
    /\ settled \in BOOLEAN
    /\ failures \in 0..MaxFailures

\* What u may have chosen while the target Cycle was planned: a rollover only if
\* u was active in the Open Cycle.
Choice(u) ==
    [type : {"none", "OTHER"}, extra : {0}, amount : {NoIsk}]
    \cup IF u \in OptedOut THEN {}
         ELSE [type : {"INITIAL_ONLY", "CUSTOM_AMOUNT"}, extra : {0}, amount : {NoIsk}]
              \cup [type : {"FULL_PAYOUT"}, extra : {0, Extra[u]}, amount : {NoIsk}]

MoneyInit ==
    /\ profit \in Profits
    /\ source = [u \in User |-> [status |-> IF u \in OptedOut THEN "OPTED_OUT" ELSE "OPTED_IN",
                                 payout |-> NoIsk, deducted |-> NoIsk, paid |-> FALSE]]
    /\ target \in {t \in [User -> UNION {Choice(u) : u \in User}] : \A u \in User : t[u] \in Choice(u)}
    /\ \E S \in SUBSET JingleYield :
          program = [u \in User |-> [active |-> u \in JingleYield, last |-> u \in S,
                                     interest |-> 0, repaid |-> 0]]
    /\ req = [r \in Request |-> NoRequest]
    /\ landing = [r \in Request |-> {}]
    /\ settled = FALSE
    /\ failures = 0

--------------------------------------------------------------------------------
(* Amounts                                                                 *)

AtMost(a, b) == IF a <= b THEN a ELSE b
AtLeast(a, b) == IF a >= b THEN a ELSE b

\* The share of u when the profit is divided among the users in S by what they
\* invested, rounded to the nearest unit.
ProfitShare(u, S) ==
    LET capital == Total(Invested, S)
    IN  (2 * profit * Invested[u] + capital) \div (2 * capital)

\* What u asked to roll over, before the program and the payout limit it.  The
\* extra of a FULL_PAYOUT counts first towards the cap.
Intended(u, payout) ==
    LET extra == target[u].extra
    IN  CASE target[u].type = "FULL_PAYOUT" ->
                 AtMost(payout, AtMost(payout + extra, Cap) - extra) + extra
          [] target[u].type = "INITIAL_ONLY" -> Invested[u]
          [] OTHER -> Custom[u]

\* An ACTIVE program keeps its locked principal invested, if the payout has it.
WithProgram(u, active, amount, payout) ==
    IF u \notin active THEN amount
    ELSE IF payout >= Locked[u] THEN AtLeast(amount, Locked[u])
    ELSE AtMost(amount, payout)

\* Mutant: a rollover is not limited by the payout it comes from.
RolledUnlimited(u, active, payout) ==
    LET amount == WithProgram(u, active, Intended(u, payout), payout)
    IN  IF target[u].type = "FULL_PAYOUT" THEN amount ELSE AtMost(amount, Cap)

Rolled(u, active, payout) ==
    LET amount == WithProgram(u, active, Intended(u, payout), payout)
    IN  IF target[u].type = "FULL_PAYOUT" THEN amount
        ELSE AtMost(AtMost(amount, Cap), payout)

--------------------------------------------------------------------------------
(* Requests                                                                *)

Becomes(r, rec) == req' = [req EXCEPT ![r] = rec]

\* The slot of r is free once the updates of its last request have settled.
Start(r, kind, pc) ==
    /\ req[r].pc = "idle" /\ landing[r] = {}
    /\ Becomes(r, [NoRequest EXCEPT !.kind = kind, !.pc = pc])
    /\ UNCHANGED <<profit, rows, landing, failures>>

\* runRecoverableSteps, once the settled Cycle is closed and the target is Open.
StartSettle(r) == ~settled /\ settled' = TRUE /\ Start(r, "settle", "compute")

\* POST cycles/:cycleId/payouts/finalize, at any time.
StartFinalize(r) == Start(r, "finalize", "compute") /\ UNCHANGED settled

\* POST cycles/:cycleId/rollovers/backfill-jingle-yield, at any time.
StartBackfill(r) == Start(r, "backfill", "ensure") /\ UNCHANGED settled

\* Only a settlement goes on when its payout step is over, one way or the other.
AfterPayouts(r) ==
    IF req[r].kind = "settle" THEN [req[r] EXCEPT !.pc = "auto", !.payouts = {}, !.todo = {}]
    ELSE NoRequest

--------------------------------------------------------------------------------
(* createSettlementPayoutSnapshot and finalizePayouts                      *)

Payouts(S) ==
    {[user |-> u, share |-> ProfitShare(u, S), isk |-> Invested[u] + ProfitShare(u, S)] : u \in S}

\* The JingleYield programs that earned interest.
Earning(payouts) == {p.user : p \in {q \in payouts : q.share > 0 /\ q.user \in JingleYield}}

\* Mutant: payouts are computed again for those who have one.
ComputeAgain(r) ==
    /\ req[r].pc = "compute"
    /\ LET payouts == Payouts({u \in User : source[u].status \in {"OPTED_IN", "AWAITING_PAYOUT"}})
       IN  Becomes(r, [req[r] EXCEPT !.pc = "interest", !.payouts = payouts,
                          !.todo = IF req[r].kind = "settle" THEN Earning(payouts) ELSE {}])
    /\ UNCHANGED <<profit, rows, landing, settled, failures>>

\* computePayouts: those who are still OPTED_IN share the profit.  Only a
\* settlement counts the interest of their programs.
Compute(r) ==
    /\ req[r].pc = "compute"
    /\ LET payouts == Payouts({u \in User : source[u].status = "OPTED_IN"})
       IN  Becomes(r, [req[r] EXCEPT !.pc = "interest", !.payouts = payouts,
                          !.todo = IF req[r].kind = "settle" THEN Earning(payouts) ELSE {}])
    /\ UNCHANGED <<profit, rows, landing, settled, failures>>

\* applyCyclePayouts, a transaction for each program.
CountInterest(r) == \E p \in {q \in req[r].payouts : q.user \in req[r].todo} :
    /\ req[r].pc = "interest"
    /\ LET u == p.user
           earned == program[u].interest + p.share
           done == earned >= Locked[u] \/ program[u].last
       IN  program' = IF ~program[u].active THEN program
                      ELSE [program EXCEPT ![u].interest = earned, ![u].active = ~done,
                                           ![u].repaid = IF done THEN @ + Locked[u] ELSE @]
    /\ Becomes(r, [req[r] EXCEPT !.todo = @ \ {p.user}])
    /\ UNCHANGED <<profit, source, target, landing, settled, failures>>

\* persistPayouts issues all its updates at once ...
Issue(r) ==
    /\ req[r].pc = "interest" /\ req[r].todo = {}
    /\ landing' = [landing EXCEPT ![r] = req[r].payouts]
    /\ Becomes(r, [req[r] EXCEPT !.pc = "persist"])
    /\ UNCHANGED <<profit, rows, settled, failures>>

\* ... which land in any order, also when the request has gone on without them.
Land(r) == \E p \in landing[r] :
    /\ landing' = [landing EXCEPT ![r] = @ \ {p}]
    /\ source' = [source EXCEPT ![p.user].payout = p.isk, ![p.user].status = "AWAITING_PAYOUT"]
    /\ UNCHANGED <<profit, target, program, req, settled, failures>>

Persisted(r) ==
    /\ req[r].pc = "persist" /\ landing[r] = {}
    /\ Becomes(r, AfterPayouts(r))
    /\ UNCHANGED <<profit, rows, landing, settled, failures>>

--------------------------------------------------------------------------------
(* processRollovers                                                        *)

\* New rollover participations for the users in eligible: for all of them, or,
\* when one of the creates fails, for some.
Create(eligible, type) == \E done \in SUBSET eligible :
    /\ target' = [u \in User |-> IF u \in done
                                 THEN [type |-> type[u], extra |-> 0, amount |-> NoIsk]
                                 ELSE target[u]]
    /\ failures' = IF done = eligible THEN failures ELSE failures + 1
    /\ failures' <= MaxFailures

\* ensureJingleYieldDefaultRollovers: whatever the status of the source is.
CreateJingle ==
    Create({u \in JingleYield : program[u].active /\ target[u].type = "none"},
           [u \in User |-> "INITIAL_ONLY"])

\* The backfill does it first, and does not go on if it fails.
Ensure(r) ==
    /\ req[r].pc = "ensure"
    /\ CreateJingle
    /\ Becomes(r, IF failures' = failures THEN [req[r] EXCEPT !.pc = "auto"] ELSE NoRequest)
    /\ UNCHANGED <<profit, source, program, landing, settled>>

\* ensureAutoRolloverParticipations: a failure is logged and the request goes on.
EnsureAuto(r) ==
    /\ req[r].pc = "auto"
    /\ Create({u \in User : /\ AutoRollover[u] # "none" /\ target[u].type = "none"
                            /\ source[u].status \in {"OPTED_IN", "AWAITING_PAYOUT", "COMPLETED"}},
              AutoRollover)
    /\ Becomes(r, [req[r] EXCEPT !.pc = "jingle"])
    /\ UNCHANGED <<profit, source, program, landing, settled>>

EnsureJingle(r) ==
    /\ req[r].pc = "jingle"
    /\ CreateJingle
    /\ Becomes(r, [req[r] EXCEPT !.pc = "select"])
    /\ UNCHANGED <<profit, source, program, landing, settled>>

\* Mutant: rollovers that were processed are processed again.
SelectAll(r) ==
    /\ req[r].pc = "select"
    /\ Becomes(r, [req[r] EXCEPT !.pc = "read",
                      !.todo = {u \in User : target[u].type \in IntentType},
                      !.active = {u \in JingleYield : program[u].active}])
    /\ UNCHANGED <<profit, rows, landing, settled, failures>>

\* Mutant: rollovers of payouts that were sent are left out.
SelectDue(r) ==
    /\ req[r].pc = "select"
    /\ Becomes(r, [req[r] EXCEPT !.pc = "read",
                      !.todo = {u \in User : /\ target[u].type \in IntentType /\ source[u].deducted = NoIsk
                                             /\ source[u].status = "AWAITING_PAYOUT"},
                      !.active = {u \in JingleYield : program[u].active}])
    /\ UNCHANGED <<profit, rows, landing, settled, failures>>

\* The rollovers whose source has no deduction yet, with their programs.
Select(r) ==
    /\ req[r].pc = "select"
    /\ Becomes(r, [req[r] EXCEPT !.pc = "read",
                      !.todo = {u \in User : target[u].type \in IntentType /\ source[u].deducted = NoIsk},
                      !.active = {u \in JingleYield : program[u].active}])
    /\ UNCHANGED <<profit, rows, landing, settled, failures>>

\* Mutant: what is left is the payout less the rollover, extra included.
ReadPayoutNet(r) == \E u \in req[r].todo :
    /\ req[r].pc = "read"
    /\ LET payout == source[u].payout
           rolled == Rolled(u, req[r].active, payout)
       IN  Becomes(r, IF payout = NoIsk THEN NoRequest
                      ELSE [req[r] EXCEPT !.pc = "target", !.todo = @ \ {u},
                               !.now = [user |-> u, rolled |-> rolled, left |-> payout - rolled,
                                        paid |-> source[u].paid \/ source[u].status = "COMPLETED"]])
    /\ UNCHANGED <<profit, rows, landing, settled, failures>>

\* The payout of the next rollover, in the order of the rows; without one, the
\* loop ends with an error.
ReadPayout(r) == \E u \in req[r].todo :
    /\ req[r].pc = "read"
    /\ LET payout == source[u].payout
           rolled == Rolled(u, req[r].active, payout)
       IN  Becomes(r, IF payout = NoIsk THEN NoRequest
                      ELSE [req[r] EXCEPT !.pc = "target", !.todo = @ \ {u},
                               !.now = [user |-> u, rolled |-> rolled,
                                        left |-> payout - AtMost(rolled, payout),
                                        paid |-> source[u].paid \/ source[u].status = "COMPLETED"]])
    /\ UNCHANGED <<profit, rows, landing, settled, failures>>

UpdateTarget(r) ==
    /\ req[r].pc = "target"
    /\ target' = [target EXCEPT ![req[r].now.user].amount = req[r].now.rolled]
    /\ Becomes(r, [req[r] EXCEPT !.pc = "source"])
    /\ UNCHANGED <<profit, source, program, landing, settled, failures>>

\* A payout that was sent stays COMPLETED; of the others what is left is due.
UpdateSource(r) ==
    LET k == req[r].now
    IN  /\ req[r].pc = "source"
        /\ source' = [source EXCEPT ![k.user] =
                         [payout |-> k.left, deducted |-> k.rolled,
                          status |-> IF k.paid \/ k.left = 0 THEN "COMPLETED" ELSE "AWAITING_PAYOUT",
                          paid |-> k.paid \/ k.left = 0]]
        /\ Becomes(r, [req[r] EXCEPT !.pc = "read", !.now = NoRollover])
        /\ UNCHANGED <<profit, target, program, landing, settled, failures>>

EndRollovers(r) ==
    /\ req[r].pc = "read" /\ req[r].todo = {}
    /\ Becomes(r, NoRequest)
    /\ UNCHANGED <<profit, rows, landing, settled, failures>>

--------------------------------------------------------------------------------
(* The admin pays, and calls fail                                          *)

\* The payouts due are listed; the admin sends one and marks it as sent.
MarkSent(u) ==
    /\ source[u].status = "AWAITING_PAYOUT" /\ ~source[u].paid /\ source[u].payout # NoIsk
    /\ source' = [source EXCEPT ![u].status = "COMPLETED", ![u].paid = TRUE]
    /\ UNCHANGED <<profit, target, program, req, landing, settled, failures>>

MayFail == failures < MaxFailures /\ failures' = failures + 1

\* An awaited call rejects.
FailCall(r) ==
    /\ MayFail
    /\ \/ req[r].pc \in {"compute", "interest"} /\ Becomes(r, AfterPayouts(r))
       \/ req[r].pc \in {"select", "read", "target", "source"} /\ Becomes(r, NoRequest)
    /\ UNCHANGED <<profit, rows, landing, settled>>

\* One update of the snapshot fails; the request does not wait for the others.
FailLanding(r) == \E p \in landing[r] :
    /\ MayFail
    /\ landing' = [landing EXCEPT ![r] = @ \ {p}]
    /\ IF req[r].pc = "persist" THEN Becomes(r, AfterPayouts(r)) ELSE UNCHANGED req
    /\ UNCHANGED <<profit, rows, settled>>

CrashMoney ==
    /\ MayFail
    /\ req' = [r \in Request |-> NoRequest]
    /\ landing' = [r \in Request |-> {}]
    /\ UNCHANGED <<profit, rows, settled>>

StepRequest(r) ==
    \/ Compute(r) \/ CountInterest(r) \/ Issue(r) \/ Land(r) \/ Persisted(r)
    \/ Ensure(r) \/ EnsureAuto(r) \/ EnsureJingle(r) \/ Select(r)
    \/ ReadPayout(r) \/ UpdateTarget(r) \/ UpdateSource(r) \/ EndRollovers(r)

MoneyNext ==
    \/ \E r \in Request :
          \/ StartSettle(r) \/ StartFinalize(r) \/ StartBackfill(r)
          \/ StepRequest(r) \/ FailCall(r) \/ FailLanding(r)
    \/ \E u \in User : MarkSent(u)
    \/ CrashMoney

MoneySpec == MoneyInit /\ [][MoneyNext]_moneyVars

\* The Cycle is settled, the awaits of a request settle, and the admin follows
\* up: finalizing and backfilling are tried again and again.
MoneyFairSpec ==
    /\ MoneySpec
    /\ \A r \in Request :
          /\ WF_moneyVars(StepRequest(r))
          /\ WF_moneyVars(StartSettle(r))
          /\ SF_moneyVars(StartFinalize(r)) /\ SF_moneyVars(StartBackfill(r))

--------------------------------------------------------------------------------
(* Properties.  Those marked [serial] are promised while requests do not    *)
(* overlap; an admin may mark payouts as sent at any moment all the same.   *)

\* [serial] The payout snapshot is authoritative (payout.service.ts:17): it is
\* computed once for a participation, whatever is retried, and changes only in
\* the step that deducts the rollover.  The interest of the Cycle is counted, and
\* the principal repaid, at most once for a program.
SnapshotStands ==
    [][\A u \in User :
          /\ source[u].payout # NoIsk /\ source'[u].payout # source[u].payout =>
                source[u].deducted = NoIsk /\ source'[u].deducted # NoIsk
          /\ program'[u] # program[u] =>
                program[u].interest = 0 /\ program'[u].repaid \in {0, Locked[u]}]_moneyVars

\* [serial] A rollover that is repeated, because a failure or a crash left it
\* half done or because the admin backfills, gives the target the same amount
\* again, and a deduction stands.
RolledOnce ==
    [][\A u \in User :
          /\ target[u].amount # NoIsk => target'[u].amount = target[u].amount
          /\ source[u].deducted # NoIsk => source'[u].deducted = source[u].deducted]_moneyVars

\* [serial] The deduction creates no ISK: rolled over and left add up to no more
\* than the payout with the extra, within the cap, and the target has exactly
\* what the source gave.
DeductionBalances ==
    [][\A u \in User : source[u].deducted = NoIsk /\ source'[u].deducted # NoIsk =>
          LET rolled == source'[u].deducted
              left == source'[u].payout
          IN  /\ rolled \in 0..Cap /\ left >= 0
              /\ rolled + left <= source[u].payout + target[u].extra
              /\ target'[u].amount = rolled]_moneyVars

\* [serial] Recovery completes: if the admin follows up the failed Recoverable
\* steps, in the end every participation has its payout and the rollover of
\* every payout is processed.
RecoveryCompletes ==
    <>[](\A u \in User :
            /\ source[u].status # "OPTED_IN"
            /\ source[u].payout # NoIsk /\ target[u].type \in IntentType => source[u].deducted # NoIsk)

================================================================================
