----------------------------- MODULE Settlement -----------------------------
(***************************************************************************)
(* What the rider, the sponsor and the driver of one ride pay and get from *)
(* its completion on: the wallet charge and the off-session card charge,   *)
(* the Special that is redeemed, expires or is cancelled, the additional   *)
(* charge and its retries, a wallet top-up, and the Stripe webhooks that   *)
(* report on all of them.  A handler is one request, cron pass or webhook; *)
(* a step of it is one statement or one call to Stripe.  The wallet posts  *)
(* atomically (Ledger); Wallet is where that is questioned.                *)
(***************************************************************************)
EXTENDS Integers, FiniteSets, FiniteSetsExt

CONSTANTS
  Procs,        \* handlers that run concurrently
  None,
  Fare,         \* original_fare_cents
  Subsidy,      \* sponsor_subsidy_cents of a ride with a Special
  Earnings,     \* driver_earnings_cents
  TopupAmount,
  Openings,     \* balances the rider's wallet may start with
  MaxRetries,   \* charges after which the sweep gives up: 3 in the code
  MaxPasses,    \* sweeps, admin retries and reconciliations
  MaxFaults     \* kinds of disturbance in one behaviour

\* Payments are told apart by purpose and attempt.
Charge == <<"RIDE_CHARGE", 1>>
Additional(n) == <<"RIDE_ADDITIONAL_CHARGE", n>>
Topup == <<"RIDER_WALLET_TOPUP", 1>>
Attempts == 1..(MaxPasses + 1)
Payments == {Charge, Topup} \cup {Additional(n) : n \in Attempts}

\* "session" is checkout.session.completed.
Events == (Payments \X {"succeeded", "failed"}) \cup {<<Topup, "session">>}

ASSUME SettlementAssumption ==
  /\ Fare \in Nat /\ Subsidy \in 0..Fare /\ Earnings \in Nat
  /\ TopupAmount \in Nat \ {0} /\ Openings \subseteq Nat
  /\ {MaxRetries, MaxPasses, MaxFaults} \subseteq Nat
  /\ None \notin Payments /\ None \notin Events
  /\ None \notin {"succeeded", "declined", "requires_action"}

Accounts == {"rider"}
Keys == {"wallet-charge", "wallet-additional", "wallet-topup"}
Amounts == (-Fare..TopupAmount) \ {0}

VARIABLES
  balance, entries,   \* the rider's wallet
  special,            \* special_redemptions.status of the ride's Special
  completed,          \* rides.status is COMPLETED
  walletPaid,         \* financial_transactions.wallet_payment_cents, None without a row
  book,               \* the ride_fare_breakdowns row; consent: it has a consent_at
  driver,             \* what the driver's wallet was credited for the ride
  pay,                \* stripe_payments.status per payment
  stripe,             \* what became of the payment at Stripe
  event,              \* Stripe event -> its delivery
  call,               \* handler -> what it is doing
  passes,
  faults              \* the kinds of disturbance that happened

ledger == <<balance, entries>>
vars == <<ledger, special, completed, walletPaid, book, driver, pay, stripe, event, call,
          passes, faults>>

Wallet == INSTANCE Ledger

\* rider_share_cents.
Share == IF special = "none" THEN Fare ELSE Fare - Subsidy

NoCall == [at |-> "idle", id |-> None, amount |-> 0, answer |-> None, seen |-> None, event |-> None]

Init ==
  /\ balance \in [Accounts -> Openings]
  /\ entries = {}
  /\ special \in {"none", "RIDE_PENDING"}
  /\ completed = FALSE
  /\ walletPaid = 0
  /\ \E consent \in IF special = "none" THEN {FALSE} ELSE BOOLEAN:
       book = [collected |-> 0, status |-> "NONE", sponsor |-> 0, sponsorStatus |-> "NONE",
               chargeIntent |-> None, additionalIntent |-> None, settled |-> "PENDING",
               driverSettled |-> 0, expired |-> FALSE, consent |-> consent]
  /\ driver = 0
  /\ pay = [p \in Payments |-> [status |-> "none", amount |-> 0]]
  /\ stripe = [p \in Payments |-> "none"]
  /\ event = [e \in Events |-> "none"]
  /\ call = [h \in Procs |-> NoCall]
  /\ passes = 0
  /\ faults = {}

Goto(h, at) == call' = [call EXCEPT ![h].at = at]
Finish(h) == call' = [call EXCEPT ![h] = NoCall]
Begin(h, at) == call[h].at = "idle" /\ Goto(h, at)

Pass == passes < MaxPasses /\ passes' = passes + 1

Disturb(kind) ==
  /\ Cardinality(faults \cup {kind}) <= MaxFaults
  /\ faults' = faults \cup {kind}

\* hasPendingSpecial.
Pending == special \in {"RIDE_PENDING", "WAITING_FOR_SPONSOR"}

\* settlementStatusFor.
StatusFor(collected, sponsorPending, exception) ==
  CASE exception -> "EXCEPTION"
    [] ~ exception /\ collected >= Fare /\ ~ sponsorPending -> "SETTLED"
    [] ~ exception /\ (collected < Fare \/ sponsorPending) ->
         IF collected > 0 \/ sponsorPending THEN "PARTIALLY_SETTLED" ELSE "PENDING"

\* WalletService.post: a key that was posted before is an earlier success.
PostOnce(e) == IF Wallet!Posted(e.key) THEN UNCHANGED ledger ELSE Wallet!Post(e)

\* Mutant of Ok: an intent that requires action counts as paid.
OkUnlessDeclined(answer) == answer # "declined"

\* The answer of chargeRiderOffSession that counts as paid.
Ok(answer) == answer = "succeeded"

Least(a, b) == IF a <= b THEN a ELSE b
Most(a, b) == IF a >= b THEN a ELSE b

-----------------------------------------------------------------------------
(* Completion: RideService.updateTripStatus, then                          *)
(* RideSettlementService.onRideCompleted.                                  *)

\* The status flip, and the driver's share of the original fare
\* (creditOnRideComplete, one transaction, once per ride).
CompleteRide(h) ==
  /\ ~ completed
  /\ completed' = TRUE
  /\ Begin(h, "credit")
  /\ UNCHANGED <<ledger, special, walletPaid, book, driver, pay, stripe, event, passes, faults>>

CreditDriver(h) ==
  /\ call[h].at = "credit"
  /\ driver' = driver + Earnings
  /\ Goto(h, "wallet")
  /\ UNCHANGED <<ledger, special, completed, walletPaid, book, pay, stripe, event, passes, faults>>

\* chargeForRide: as much of the rider's share as the wallet covers.
ChargeWallet(h) ==
  LET amount == Least(Share, balance["rider"]) IN
  /\ call[h].at = "wallet"
  /\ \/ /\ amount = 0
        /\ UNCHANGED ledger
     \/ /\ amount > 0
        /\ Wallet!Post([key |-> "wallet-charge", account |-> "rider", amount |-> -amount])
  /\ call' = [call EXCEPT ![h].at = "record", ![h].amount = amount]
  /\ UNCHANGED <<special, completed, walletPaid, book, driver, pay, stripe, event, passes, faults>>

\* recordRideCompletion.
RecordCompletion(h) ==
  /\ call[h].at = "record"
  /\ walletPaid' = call[h].amount
  /\ Goto(h, "settle")
  /\ UNCHANGED <<ledger, special, completed, book, driver, pay, stripe, event, passes, faults>>

\* onRideCompleted reads the row and charges the card what the wallet left of
\* the rider's share.
SettleRead(h) ==
  LET shortfall == Share - walletPaid IN
  /\ call[h].at = "settle"
  /\ call' = [call EXCEPT ![h].at = IF shortfall > 0 THEN "insert" ELSE "settled",
                          ![h].id = Charge, ![h].amount = shortfall]
  /\ UNCHANGED <<ledger, special, completed, walletPaid, book, driver, pay, stripe, event,
                 passes, faults>>

\* Mutant of SettleWrite: driver_settled_cents is not written.
SettleWriteNoDriver(h) ==
  LET collected == IF Ok(call[h].answer) THEN Share ELSE walletPaid IN
  /\ call[h].at = "settled"
  /\ book' = [book EXCEPT
       !.collected = collected,
       !.chargeIntent = IF Ok(call[h].answer) THEN Charge ELSE @,
       !.sponsorStatus = IF Pending THEN "RESERVED" ELSE "NONE",
       !.settled = StatusFor(collected, Pending, collected < Share)]
  /\ Goto(h, "special")
  /\ UNCHANGED <<ledger, special, completed, walletPaid, driver, pay, stripe, event, passes, faults>>

SettleWrite(h) ==
  LET ok == Ok(call[h].answer)
      collected == IF ok THEN Share ELSE walletPaid IN
  /\ call[h].at = "settled"
  /\ book' = [book EXCEPT
       !.collected = collected,
       !.chargeIntent = IF ok THEN Charge ELSE @,
       !.sponsorStatus = IF Pending THEN "RESERVED" ELSE "NONE",
       !.driverSettled = Most(@, Earnings),
       !.settled = StatusFor(collected, Pending, collected < Share)]
  /\ Goto(h, "special")
  /\ UNCHANGED <<ledger, special, completed, walletPaid, driver, pay, stripe, event, passes, faults>>

\* SpecialRedemptionService.onRideCompleted opens the validation.
OpenValidation(h) ==
  /\ call[h].at = "special"
  /\ special' = IF special = "RIDE_PENDING" THEN "WAITING_FOR_SPONSOR" ELSE special
  /\ Finish(h)
  /\ UNCHANGED <<ledger, completed, walletPaid, book, driver, pay, stripe, event, passes, faults>>

-----------------------------------------------------------------------------
(* PaymentsService.chargeRiderOffSession for the payment call[h].id.       *)

\* Where the caller goes on with the answer.
Answered(h, answer) ==
  call' = [call EXCEPT ![h].at = IF call[h].id = Charge THEN "settled" ELSE "expired",
                       ![h].answer = answer]

\* The row is claimed by its idempotency key; a row that is there already
\* answers for itself, and a rider without a customer or a gateway that is not
\* configured is no payment at all.
ChargeInsert(h) ==
  LET id == call[h].id IN
  /\ call[h].at = "insert"
  /\ \/ /\ Answered(h, "declined")
        /\ UNCHANGED pay
     \/ /\ pay[id].status # "none"
        /\ Answered(h, IF pay[id].status = "SUCCEEDED" THEN "succeeded" ELSE "declined")
        /\ UNCHANGED pay
     \/ /\ pay[id].status = "none"
        /\ pay' = [pay EXCEPT ![id] = [status |-> "PENDING", amount |-> call[h].amount]]
        /\ Goto(h, "stripe")
  /\ UNCHANGED <<ledger, special, completed, walletPaid, book, driver, stripe, event, passes, faults>>

Announce(id, outcome) ==
  event' = CASE outcome = "succeeded" -> [event EXCEPT ![<<id, "succeeded">>] = "due"]
             [] outcome = "declined" -> [event EXCEPT ![<<id, "failed">>] = "due"]
             [] outcome = "requires_action" -> event

\* Stripe decides; no client can authenticate an intent that requires it.  An
\* answer that is lost is an error to the caller, who takes it for a decline.
ChargeStripe(h) ==
  LET id == call[h].id IN
  /\ call[h].at = "stripe"
  /\ \E outcome \in {"succeeded", "declined", "requires_action"}:
       /\ stripe' = [stripe EXCEPT ![id] = outcome]
       /\ Announce(id, outcome)
       /\ \/ /\ call' = [call EXCEPT ![h].at = "update", ![h].answer = outcome]
             /\ UNCHANGED faults
          \/ /\ Disturb("lost answer")
             /\ call' = [call EXCEPT ![h].at = "update", ![h].answer = "declined"]
  /\ UNCHANGED <<ledger, special, completed, walletPaid, book, driver, pay, passes>>

ChargeUpdate(h) ==
  LET id == call[h].id IN
  /\ call[h].at = "update"
  /\ pay' = [pay EXCEPT ![id].status =
       CASE call[h].answer = "succeeded" -> "SUCCEEDED"
         [] call[h].answer = "requires_action" -> "REQUIRES_ACTION"
         [] call[h].answer = "declined" -> "FAILED"]
  /\ Answered(h, call[h].answer)
  /\ UNCHANGED <<ledger, special, completed, walletPaid, book, driver, stripe, event, passes, faults>>

-----------------------------------------------------------------------------
(* The Special: redeemed (SpecialRedemptionService, modelled in Specials), *)
(* expired, or cancelled by the sponsor.                                   *)

Redeem(h) ==
  /\ special = "WAITING_FOR_SPONSOR"
  /\ special' = "REWARD_COMPLETED"
  /\ Begin(h, "sponsor")
  /\ UNCHANGED <<ledger, completed, walletPaid, book, driver, pay, stripe, event, passes, faults>>

\* reconcileSettledRedemptions finds a contribution that was not recorded.
ReconcileSettled(h) ==
  /\ special = "REWARD_COMPLETED"
  /\ book.sponsor < Subsidy
  /\ Pass
  /\ Begin(h, "sponsor")
  /\ UNCHANGED <<ledger, special, completed, walletPaid, book, driver, pay, stripe, event, faults>>

\* onSpecialRedemptionSettled reads the row; what it saw decides the true-up
\* and the contribution.
SponsorRead(h) ==
  /\ call[h].at = "sponsor"
  /\ \/ /\ book.sponsor >= Subsidy
        /\ Finish(h)
     \/ /\ book.sponsor < Subsidy
        /\ call' = [call EXCEPT ![h].at = IF book.driverSettled < Earnings THEN "true-up" ELSE "funded",
                                ![h].seen = book]
  /\ UNCHANGED <<ledger, special, completed, walletPaid, book, driver, pay, stripe, event,
                 passes, faults>>

\* The true-up transaction.  Its payout row conflicts when there is one; the
\* wallet is credited all the same.
TrueUp(h) ==
  /\ call[h].at = "true-up"
  /\ driver' = driver + (Earnings - call[h].seen.driverSettled)
  /\ book' = [book EXCEPT !.driverSettled = Earnings]
  /\ Goto(h, "funded")
  /\ UNCHANGED <<ledger, special, completed, walletPaid, pay, stripe, event, passes, faults>>

SponsorWrite(h) ==
  LET seen == call[h].seen
      contribution == seen.sponsor + Subsidy IN
  /\ call[h].at = "funded"
  /\ book' = [book EXCEPT !.sponsor = contribution, !.sponsorStatus = "COLLECTED",
                          !.settled = StatusFor(seen.collected + contribution, FALSE, FALSE)]
  /\ Finish(h)
  /\ UNCHANGED <<ledger, special, completed, walletPaid, driver, pay, stripe, event, passes, faults>>

\* Mutant of EndSpecial: the claim does not ask for the status.
EndSpecialUnguarded(h, status) ==
  /\ special \in {"WAITING_FOR_SPONSOR", "REWARD_COMPLETED"}
  /\ special' = status
  /\ Begin(h, "claim")
  /\ UNCHANGED <<ledger, completed, walletPaid, book, driver, pay, stripe, event, passes, faults>>

\* expireRedemption and sponsorCancel both end in onSpecialExpired.
EndSpecial(h, status) ==
  /\ special = "WAITING_FOR_SPONSOR"
  /\ special' = status
  /\ Begin(h, "claim")
  /\ UNCHANGED <<ledger, completed, walletPaid, book, driver, pay, stripe, event, passes, faults>>

-----------------------------------------------------------------------------
(* The additional charge: onSpecialExpired and what retries it.            *)

\* Mutant of Claim: a row that is PROCESSING is claimed again.
ClaimAgain(h) ==
  /\ call[h].at = "claim"
  /\ book.collected < Fare
  /\ book' = [book EXCEPT !.status = "PROCESSING", !.expired = TRUE]
  /\ call' = [call EXCEPT ![h].at = "consent", ![h].seen = book', ![h].amount = Fare - book.collected]
  /\ UNCHANGED <<ledger, special, completed, walletPaid, driver, pay, stripe, event, passes, faults>>

\* The UPDATE that lets one worker proceed.
Claim(h) ==
  /\ call[h].at = "claim"
  /\ \/ /\ book.collected < Fare
        /\ book.status \in {"NONE", "REQUIRED", "FAILED"}
        /\ book' = [book EXCEPT !.status = "PROCESSING", !.expired = TRUE]
        /\ call' = [call EXCEPT ![h].at = "consent", ![h].seen = book', ![h].amount = Fare - book.collected]
     \/ /\ book.collected >= Fare \/ book.status \in {"PROCESSING", "COLLECTED"}
        /\ Finish(h)
        /\ UNCHANGED book
  /\ UNCHANGED <<ledger, special, completed, walletPaid, driver, pay, stripe, event, passes, faults>>

\* Of a rider who has not accepted the Special's terms nothing is collected.  A
\* booking without them is refused today (special-redemption.service.ts:459);
\* an older ride may have none.
CheckConsent(h) ==
  /\ call[h].at = "consent"
  /\ \/ /\ book.consent
        /\ Goto(h, "debit")
        /\ UNCHANGED book
     \/ /\ ~ book.consent
        /\ book' = [book EXCEPT !.status = "REQUIRED", !.settled = "EXCEPTION"]
        /\ Finish(h)
  /\ UNCHANGED <<ledger, special, completed, walletPaid, driver, pay, stripe, event, passes, faults>>

\* The wallet pays all of it, has paid it before, or pays nothing.  Whatever
\* the debit throws, the card is next.
DebitWallet(h) ==
  /\ call[h].at = "debit"
  /\ \/ /\ PostOnce([key |-> "wallet-additional", account |-> "rider", amount |-> -call[h].amount])
        /\ call' = [call EXCEPT ![h].at = "expired", ![h].answer = "succeeded"]
        /\ UNCHANGED faults
     \/ /\ ~ Wallet!Posted("wallet-additional")
        /\ balance["rider"] < call[h].amount
        /\ Goto(h, "attempt")
        /\ UNCHANGED <<ledger, faults>>
     \/ /\ Disturb("error")
        /\ Goto(h, "attempt")
        /\ UNCHANGED ledger
  /\ UNCHANGED <<special, completed, walletPaid, book, driver, pay, stripe, event, passes>>

Tried == Cardinality({n \in Attempts: pay[Additional(n)].status # "none"})

\* The attempts that MaxPasses leaves room for bound it.
CountAttempts(h) ==
  /\ call[h].at = "attempt"
  /\ Tried + 1 \in Attempts
  /\ call' = [call EXCEPT ![h].at = "insert", ![h].id = Additional(Tried + 1)]
  /\ UNCHANGED <<ledger, special, completed, walletPaid, book, driver, pay, stripe, event,
                 passes, faults>>

\* additional_charge_status after an attempt.
ChargeStatus(total, answer) ==
  CASE total >= Fare -> "COLLECTED"
    [] total < Fare /\ answer = "requires_action" -> "REQUIRED"
    [] total < Fare /\ answer # "requires_action" -> "FAILED"

\* Mutant of ExpiryTotal: only what this attempt collected.
ExpiryTotalAlone(h) == IF Ok(call[h].answer) THEN call[h].amount ELSE 0

ExpiryTotal(h) == call[h].seen.collected + (IF Ok(call[h].answer) THEN call[h].amount ELSE 0)

ExpiryWrite(h) ==
  LET total == ExpiryTotal(h) IN
  /\ call[h].at = "expired"
  /\ book' = [book EXCEPT
       !.collected = total,
       !.status = ChargeStatus(total, call[h].answer),
       !.additionalIntent = IF Ok(call[h].answer) /\ call[h].id # None THEN call[h].id ELSE @,
       !.sponsorStatus = "RELEASED",
       !.settled = StatusFor(total, FALSE, total < Fare)]
  /\ Finish(h)
  /\ UNCHANGED <<ledger, special, completed, walletPaid, driver, pay, stripe, event, passes, faults>>

Charging(h) == call[h].at \in {"consent", "debit", "attempt", "insert", "stripe", "update", "expired"}

\* sweepExpiredAdditionalCharges leaves a row alone for ten minutes after it
\* was written, which is longer than a charge takes.
Sweep(h) ==
  /\ special = "EXPIRED"
  /\ book.status \in {"REQUIRED", "FAILED"}
  /\ book.collected < Fare
  /\ book.expired
  /\ \A g \in Procs: ~ Charging(g)
  /\ Pass
  /\ \/ /\ Tried >= MaxRetries
        /\ call[h].at = "idle"
        /\ book' = [book EXCEPT !.settled = "EXCEPTION"]
        /\ UNCHANGED call
     \/ /\ Tried < MaxRetries
        /\ Begin(h, "claim")
        /\ UNCHANGED book
  /\ UNCHANGED <<ledger, special, completed, walletPaid, driver, pay, stripe, event, faults>>

\* The admin's retry waits for nothing.
RetryAdditionalCharge(h) ==
  /\ special = "EXPIRED"
  /\ Pass
  /\ Begin(h, "claim")
  /\ UNCHANGED <<ledger, special, completed, walletPaid, book, driver, pay, stripe, event, faults>>

-----------------------------------------------------------------------------
(* The wallet top-up.                                                      *)

\* createWalletTopUpSession, and the rider pays on the hosted page.
PayTopup ==
  /\ pay[Topup].status = "none"
  /\ pay' = [pay EXCEPT ![Topup] = [status |-> "PENDING", amount |-> TopupAmount]]
  /\ stripe' = [stripe EXCEPT ![Topup] = "succeeded"]
  /\ event' = [event EXCEPT ![<<Topup, "succeeded">>] = "due", ![<<Topup, "session">>] = "due"]
  /\ UNCHANGED <<ledger, special, completed, walletPaid, book, driver, call, passes, faults>>

\* reconcilePayment, on an admin's request, for a row that is not SUCCEEDED.
ReconcileTopup(h) ==
  /\ pay[Topup].status \notin {"none", "SUCCEEDED"}
  /\ Pass
  /\ Begin(h, "top-up")
  /\ UNCHANGED <<ledger, special, completed, walletPaid, book, driver, pay, stripe, event, faults>>

\* Mutant of TopupClaim: a row the payment_intent event has marked is taken for
\* credited.
TopupClaimUnmarked(h) ==
  /\ call[h].at = "top-up"
  /\ \/ /\ pay[Topup].status # "SUCCEEDED"
        /\ pay' = [pay EXCEPT ![Topup].status = "PROCESSING"]
        /\ Goto(h, "fund")
     \/ /\ pay[Topup].status = "SUCCEEDED"
        /\ Goto(h, "finish")
        /\ UNCHANGED pay
  /\ UNCHANGED <<ledger, special, completed, walletPaid, book, driver, stripe, event, passes, faults>>

\* applyRiderWalletTopup: the claim, the post and the mark.
TopupClaim(h) ==
  /\ call[h].at = "top-up"
  /\ \/ /\ pay[Topup].status # "SUCCEEDED" \/ ~ Wallet!Posted("wallet-topup")
        /\ pay' = [pay EXCEPT ![Topup].status = "PROCESSING"]
        /\ Goto(h, "fund")
     \/ /\ pay[Topup].status = "SUCCEEDED" /\ Wallet!Posted("wallet-topup")
        /\ Goto(h, "finish")
        /\ UNCHANGED pay
  /\ UNCHANGED <<ledger, special, completed, walletPaid, book, driver, stripe, event, passes, faults>>

TopupPost(h) ==
  /\ call[h].at = "fund"
  /\ PostOnce([key |-> "wallet-topup", account |-> "rider", amount |-> pay[Topup].amount])
  /\ Goto(h, "funded top-up")
  /\ UNCHANGED <<special, completed, walletPaid, book, driver, pay, stripe, event, passes, faults>>

TopupMark(h) ==
  /\ call[h].at = "funded top-up"
  /\ pay' = [pay EXCEPT ![Topup].status = "SUCCEEDED"]
  /\ Goto(h, "finish")
  /\ UNCHANGED <<ledger, special, completed, walletPaid, book, driver, stripe, event, passes, faults>>

-----------------------------------------------------------------------------
(* StripeWebhookService.handleEvent.                                       *)

\* An event is claimed by its id; a delivery while it is PROCESSING or done is
\* skipped, a FAILED one is taken again.  It may come before the handler that
\* made the payment has written what became of it.
ReceiveEvent(h, e) ==
  /\ event[e] \in {"due", "FAILED"}
  /\ IF \E g \in Procs: call[g].id = e[1] /\ call[g].event = None
     THEN Disturb("early event")
     ELSE UNCHANGED faults
  /\ event' = [event EXCEPT ![e] = "PROCESSING"]
  /\ call[h].at = "idle"
  /\ call' = [call EXCEPT ![h].at = IF e[2] = "session" THEN "top-up" ELSE "row",
                          ![h].event = e, ![h].id = e[1]]
  /\ UNCHANGED <<ledger, special, completed, walletPaid, book, driver, pay, stripe, passes>>

\* The payment row: a success overwrites anything, a failure no success.
EventRow(h) ==
  LET id == call[h].id IN
  /\ call[h].at = "row"
  /\ \/ /\ call[h].event[2] = "succeeded"
        /\ pay' = [pay EXCEPT ![id].status = "SUCCEEDED"]
        /\ Goto(h, IF id = Topup THEN "top-up" ELSE "succeeded")
     \/ /\ call[h].event[2] = "failed"
        /\ pay' = [pay EXCEPT ![id].status = IF @ = "SUCCEEDED" THEN @ ELSE "FAILED"]
        /\ Goto(h, IF id = Charge THEN "finish" ELSE "failed")
  /\ UNCHANGED <<ledger, special, completed, walletPaid, book, driver, stripe, event, passes, faults>>

\* applyStripeChargeSucceeded: the row is read, and written from what was read.
SucceededRead(h) ==
  LET id == call[h].id
      applied == IF id = Charge THEN book.chargeIntent = id
                 ELSE book.additionalIntent = id \/ book.status = "COLLECTED" IN
  /\ call[h].at = "succeeded"
  /\ \/ applied /\ Goto(h, "finish")
     \/ ~ applied /\ call' = [call EXCEPT ![h].at = "apply", ![h].seen = book]
  /\ UNCHANGED <<ledger, special, completed, walletPaid, book, driver, pay, stripe, event,
                 passes, faults>>

SucceededWrite(h) ==
  LET id == call[h].id
      limit == IF id = Charge THEN Share ELSE Fare
      total == Least(limit, call[h].seen.collected + pay[id].amount) IN
  /\ call[h].at = "apply"
  /\ book' = IF id = Charge
             THEN [book EXCEPT !.collected = total, !.chargeIntent = id]
             ELSE [book EXCEPT !.collected = total, !.additionalIntent = id,
                               !.status = IF total >= Fare THEN "COLLECTED" ELSE "REQUIRED"]
  /\ Goto(h, "recompute")
  /\ UNCHANGED <<ledger, special, completed, walletPaid, driver, pay, stripe, event, passes, faults>>

\* applyStripeChargeFailed.  A failure that is reported while another charge is
\* under way takes the claim off it.
FailedWrite(h) ==
  /\ call[h].at = "failed"
  /\ IF book.status = "PROCESSING" THEN Disturb("late failure") ELSE UNCHANGED faults
  /\ book' = IF book.status = "COLLECTED" THEN book
             ELSE [book EXCEPT !.status = "FAILED",
                               !.settled = IF book.collected < Fare THEN "EXCEPTION" ELSE @]
  /\ Goto(h, "recompute")
  /\ UNCHANGED <<ledger, special, completed, walletPaid, driver, pay, stripe, event, passes>>

\* recomputeSettlementStatus, read and write.
RecomputeRead(h) ==
  LET total == book.collected + book.sponsor
      status == StatusFor(total, Pending /\ book.sponsorStatus = "RESERVED",
                          book.status = "FAILED" /\ total < Fare) IN
  /\ call[h].at = "recompute"
  /\ call' = [call EXCEPT ![h].at = IF status = book.settled THEN "finish" ELSE "restate",
                          ![h].answer = status]
  /\ UNCHANGED <<ledger, special, completed, walletPaid, book, driver, pay, stripe, event,
                 passes, faults>>

RecomputeWrite(h) ==
  /\ call[h].at = "restate"
  /\ book' = [book EXCEPT !.settled = call[h].answer]
  /\ Goto(h, "finish")
  /\ UNCHANGED <<ledger, special, completed, walletPaid, driver, pay, stripe, event, passes, faults>>

FinishEvent(h) ==
  /\ call[h].at = "finish"
  /\ event' = IF call[h].event = None THEN event ELSE [event EXCEPT ![call[h].event] = "PROCESSED"]
  /\ Finish(h)
  /\ UNCHANGED <<ledger, special, completed, walletPaid, book, driver, pay, stripe, passes, faults>>

-----------------------------------------------------------------------------

\* Where a failing statement leads: a wallet charge is skipped, the rest of the
\* completion's settlement too, any other pass ends.  DebitWallet says where
\* its own failure leads.
AfterError(h) ==
  CASE call[h].at = "wallet" -> "record"
    [] \/ call[h].at \in {"record", "settle", "settled"}
       \/ call[h].at \in {"insert", "stripe", "update"} /\ call[h].id = Charge -> "special"
    [] OTHER -> "idle"

\* A webhook is answered 500, and delivered again.
Error(h) ==
  /\ call[h].at \notin {"idle", "credit", "special", "debit"}
  /\ Disturb("error")
  /\ event' = IF call[h].event = None THEN event ELSE [event EXCEPT ![call[h].event] = "FAILED"]
  /\ call' = [call EXCEPT ![h] = [NoCall EXCEPT !.at = AfterError(h)]]
  /\ UNCHANGED <<ledger, special, completed, walletPaid, book, driver, pay, stripe, passes>>

\* The process dies.  Nothing resumes what it was doing, and the event it had
\* claimed stays PROCESSING.
Crash ==
  /\ \E h \in Procs: call[h].at # "idle"
  /\ Disturb("crash")
  /\ call' = [h \in Procs |-> NoCall]
  /\ UNCHANGED <<ledger, special, completed, walletPaid, book, driver, pay, stripe, event, passes>>

Working(h) ==
  \/ CreditDriver(h) \/ ChargeWallet(h) \/ RecordCompletion(h)
  \/ SettleRead(h) \/ SettleWrite(h) \/ OpenValidation(h)
  \/ ChargeInsert(h) \/ ChargeStripe(h) \/ ChargeUpdate(h)
  \/ SponsorRead(h) \/ TrueUp(h) \/ SponsorWrite(h)
  \/ Claim(h) \/ CheckConsent(h) \/ DebitWallet(h) \/ CountAttempts(h) \/ ExpiryWrite(h)
  \/ TopupClaim(h) \/ TopupPost(h) \/ TopupMark(h)
  \/ EventRow(h) \/ SucceededRead(h) \/ SucceededWrite(h) \/ FailedWrite(h)
  \/ RecomputeRead(h) \/ RecomputeWrite(h) \/ FinishEvent(h)

Next ==
  \/ \E h \in Procs:
       \/ CompleteRide(h) \/ Redeem(h) \/ ReconcileSettled(h)
       \/ \E status \in {"EXPIRED", "CANCELLED"}: EndSpecial(h, status)
       \/ Sweep(h) \/ RetryAdditionalCharge(h) \/ ReconcileTopup(h)
       \/ \E e \in Events: ReceiveEvent(h, e)
       \/ Working(h) \/ Error(h)
  \/ PayTopup
  \/ Crash

Spec == Init /\ [][Next]_vars

-----------------------------------------------------------------------------
(* Properties. *)

CallAt ==
  {"idle", "credit", "wallet", "record", "settle", "insert", "stripe", "update", "settled", "special",
   "sponsor", "true-up", "funded", "claim", "consent", "debit", "attempt", "expired", "top-up", "fund",
   "funded top-up", "row", "succeeded", "apply", "failed", "recompute", "restate", "finish"}

BookType ==
  [collected: 0..Fare, status: {"NONE", "REQUIRED", "PROCESSING", "COLLECTED", "FAILED"},
   sponsor: {0, Subsidy}, sponsorStatus: {"NONE", "RESERVED", "COLLECTED", "RELEASED"},
   chargeIntent: {None, Charge}, additionalIntent: {None} \cup {Additional(n) : n \in Attempts},
   settled: {"PENDING", "PARTIALLY_SETTLED", "SETTLED", "EXCEPTION"},
   driverSettled: {0, Earnings}, expired: BOOLEAN, consent: BOOLEAN]

\* Every variable has its type; what is collected never exceeds the fare.
TypeOK ==
  /\ balance \in [Accounts -> Nat]
  /\ entries \subseteq Wallet!Entry
  /\ special \in {"none", "RIDE_PENDING", "WAITING_FOR_SPONSOR", "REWARD_COMPLETED", "EXPIRED",
                  "CANCELLED"}
  /\ completed \in BOOLEAN
  /\ walletPaid \in 0..Fare
  /\ book \in BookType
  /\ driver \in Nat
  /\ \A p \in Payments:
       /\ pay[p].status \in {"none", "PENDING", "PROCESSING", "REQUIRES_ACTION", "SUCCEEDED", "FAILED"}
       /\ pay[p].amount \in 0..Most(Fare, TopupAmount)
  /\ stripe \in [Payments -> {"none", "succeeded", "declined", "requires_action"}]
  /\ event \in [Events -> {"none", "due", "PROCESSING", "FAILED", "PROCESSED"}]
  /\ \A h \in Procs: call[h].at \in CallAt /\ call[h].seen \in BookType \cup {None}
  /\ passes \in 0..MaxPasses
  /\ faults \subseteq {"error", "crash", "lost answer", "early event", "late failure"}

Total(f, S) == MapThenSumSet(LAMBDA x: f[x], S)

\* What the wallet and the card really paid for the ride.
Taken ==
  LET debit == [e \in entries |-> -e.amount]
      amount == [id \in Payments |-> pay[id].amount] IN
  Total(debit, {e \in entries: e.key # "wallet-topup"})
    + Total(amount, {id \in Payments \ {Topup}: stripe[id] = "succeeded"})

\* The additional charge "never exceeds the original fare minus what the rider
\* already paid" (ride-settlement.service.ts:38): whatever interleaves with a
\* redemption, an expiry, a sweep, an admin's retry and a crash, wallet and card
\* together pay no more than the fare.  An answer of Stripe that is lost, a
\* settlement pass that fails, an event that overtakes the handler that made
\* the payment and a failure reported in the middle of the next attempt each
\* make the books too low, and the next charge too high.
NeverOvercharged == faults \subseteq {"crash"} => Taken <= Fare

\* Whatever is disturbed, the breakdown never claims more from the rider than
\* wallet and card paid: a decline is never booked as a payment, and an intent
\* reported twice is counted once.
BooksNeverAhead == book.collected <= Taken

\* What is booked as collected is not lost again to a write of another handler
\* that read the row earlier.
CollectedOnlyGrows ==
  [][faults' \subseteq {"crash"} => book'.collected >= book.collected]_book

\* What the sponsor contributes the rider does not pay as well, whatever is
\* disturbed: redemption and expiry exclude each other.
NeverBothPay ==
  special = "REWARD_COMPLETED" \/ book.sponsor > 0 => Taken <= Fare - Subsidy

\* The driver's true-up at redemption never pays what the completion paid
\* already (ride-settlement.service.ts:18, "never double-pays"); it takes a
\* settlement pass that failed after the credit to do so.
DriverPaidOnce == "error" \notin faults => driver <= Earnings

\* An event that was acknowledged to Stripe, which is not delivered again, has
\* left its mark: the top-up is in the wallet, the charge is on the breakdown.
\* An additional charge that the wallet paid has no intent there.
AcknowledgedIsApplied ==
  /\ \A kind \in {"succeeded", "session"}:
       event[<<Topup, kind>>] = "PROCESSED" => Wallet!Posted("wallet-topup")
  /\ event[<<Charge, "succeeded">>] = "PROCESSED" => book.chargeIntent = Charge
  /\ \A n \in Attempts:
       event[<<Additional(n), "succeeded">>] = "PROCESSED" =>
         book.additionalIntent # None \/ Wallet!Posted("wallet-additional")

=============================================================================
