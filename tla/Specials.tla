------------------------------ MODULE Specials ------------------------------
(***************************************************************************)
(* A sponsor's prepaid budget and the redemptions ("Specials") that spend  *)
(* it: picked, attached to a ride request that reserves the discount,      *)
(* validated by the sponsor with the rider's code and settled, or expired, *)
(* cancelled by the sponsor, or voided with the ride.  A handler is one    *)
(* request, ride callback or cron pass; a step of it is one transaction or *)
(* one statement.  Withdrawals adds what moves the budget besides.         *)
(***************************************************************************)
EXTENDS Integers, FiniteSets, FiniteSetsExt

CONSTANTS
  Redemptions,   \* each picked by a rider of its own
  Procs,         \* handlers that run concurrently
  None,
  Discounts,     \* what computeSponsorDiscount may take off a fare
  MinLive,       \* SPONSOR_MIN_LIVE_FUNDING_CENTS
  Openings,      \* budgets a sponsor may start with
  Adjustments,   \* signed amounts an admin adjusts the budget by
  MaxAdjusts,
  MaxFaults      \* crashes and database errors

ASSUME SpecialsAssumption ==
  /\ Discounts \subseteq Nat \ {0} /\ Openings \subseteq Nat /\ Adjustments \subseteq Int
  /\ MinLive \in Nat /\ MaxAdjusts \in Nat /\ MaxFaults \in Nat

VARIABLES
  sponsor,       \* the sponsors row
  redemption,    \* the special_redemptions rows
  redeemed,      \* DISCOUNT_REDEEMED entries of sponsor_ledger_entries, by redemption
  released,      \* REVERSAL and EXPIRATION entries, counted by redemption
  adjusted,      \* sum of the admins' BUDGET_ADJUSTMENT entries
  ride,          \* status of the redemption's ride
  funded,        \* rides whose breakdown has the sponsor's contribution
  billed,        \* rides whose rider was made to pay the remaining fare
  call,          \* handler -> what it is doing
  leaked,        \* history: redemptions whose reservation was never given back
  adjusts,
  faults

specialVars == <<sponsor, redemption, redeemed, released, adjusted, ride, funded, billed, call,
                 leaked, adjusts, faults>>

Statuses == {"none", "CREATED", "RIDE_PENDING", "WAITING_FOR_SPONSOR", "SPONSOR_VALIDATED",
             "REWARD_FAILED", "REWARD_COMPLETED", "EXPIRED", "CANCELLED"}

CallAt == {"idle", "issue", "void", "settle", "consume", "fail", "components", "release", "bill"}

NoCall == [at |-> "idle", id |-> None]

SpecialsInit ==
  /\ \E b \in Openings:
       sponsor = [status |-> "ACTIVE", initial |-> b, remaining |-> b, reserved |-> 0, used |-> 0]
  /\ redemption = [r \in Redemptions |-> [status |-> "none", discount |-> 0, validated |-> FALSE]]
  /\ redeemed = {}
  /\ released = [r \in Redemptions |-> 0]
  /\ adjusted = 0
  /\ ride = [r \in Redemptions |-> "none"]
  /\ funded = {}
  /\ billed = {}
  /\ call = [h \in Procs |-> NoCall]
  /\ leaked = {}
  /\ adjusts = 0
  /\ faults = 0

Status(r) == redemption[r].status
Discount(r) == redemption[r].discount
Spendable == sponsor.remaining - sponsor.reserved

\* isEligible; the listing's switches and coordinates stay as they are.
Eligible == sponsor.status = "ACTIVE" /\ Spendable >= MinLive

Start(h, at, r) == call[h] = NoCall /\ call' = [call EXCEPT ![h] = [at |-> at, id |-> r]]
At(h, at) == call[h].at = at
Goto(h, at) == call' = [call EXCEPT ![h].at = at]
Finish(h) == call' = [call EXCEPT ![h] = NoCall]

SetStatus(r, status) == redemption' = [redemption EXCEPT ![r].status = status]

books == <<redeemed, released, adjusted>>
history == <<leaked, adjusts, faults>>

-----------------------------------------------------------------------------
\* Picking a Special and booking a ride with it

\* A pick that is still CREATED is reused, so that one row is inserted.
CreateForRider(r) ==
  /\ Status(r) = "none"
  /\ Eligible
  /\ SetStatus(r, "CREATED")
  /\ UNCHANGED <<sponsor, books, ride, funded, billed, call, history>>

\* The rider picks another sponsor's Special.
Supersede(r) ==
  /\ Status(r) = "CREATED"
  /\ SetStatus(r, "CANCELLED")
  /\ UNCHANGED <<sponsor, books, ride, funded, billed, call, history>>

Affordable(d) == Spendable >= d

\* Part of the booking transaction; both rows are locked.
AttachToRideRequest(r) ==
  /\ Status(r) = "CREATED"
  /\ Eligible
  /\ \E d \in Discounts:
       /\ Affordable(d)
       /\ sponsor' = [sponsor EXCEPT !.reserved = @ + d]
       /\ redemption' = [redemption EXCEPT ![r].status = "RIDE_PENDING", ![r].discount = d]
  /\ ride' = [ride EXCEPT ![r] = "open"]
  /\ UNCHANGED <<books, funded, billed, call, history>>

\* The ride ends; the callback is started and not awaited.  The match job that
\* gives up cancels the ride and starts no callback.
RideEnds(h, r) ==
  /\ ride[r] = "open"
  /\ \/ ride' = [ride EXCEPT ![r] = "COMPLETED"] /\ Start(h, "issue", r)
     \/ ride' = [ride EXCEPT ![r] = "CANCELLED"] /\ (Start(h, "void", r) \/ UNCHANGED call)
  /\ UNCHANGED <<sponsor, redemption, books, funded, billed, history>>

\* onRideCompleted: the validation code is issued.
IssueCode(h) ==
  LET r == call[h].id IN
  /\ At(h, "issue")
  /\ Status(r) = "RIDE_PENDING"
  /\ SetStatus(r, "WAITING_FOR_SPONSOR")
  /\ Finish(h)
  /\ UNCHANGED <<sponsor, books, ride, funded, billed, history>>

\* onRideCancelled; the status it reads changes only with the ride.
VoidWithRide(h) ==
  LET r == call[h].id IN
  /\ At(h, "void")
  /\ Status(r) = "RIDE_PENDING"
  /\ SetStatus(r, "CANCELLED")
  /\ Goto(h, "release")
  /\ UNCHANGED <<sponsor, books, ride, funded, billed, history>>

-----------------------------------------------------------------------------
\* The sponsor validates or cancels, or the code expires

\* sponsorValidate; its settlement follows.
SponsorValidate(h, r) ==
  /\ Status(r) = "WAITING_FOR_SPONSOR"
  /\ redemption' = [redemption EXCEPT ![r].status = "SPONSOR_VALIDATED", ![r].validated = TRUE]
  /\ Start(h, "settle", r)
  /\ UNCHANGED <<sponsor, books, ride, funded, billed, history>>

Cancellable == {"WAITING_FOR_SPONSOR", "SPONSOR_VALIDATED", "REWARD_FAILED"}

SponsorCancel(h, r) ==
  /\ Status(r) \in Cancellable
  /\ SetStatus(r, "CANCELLED")
  /\ Start(h, "release", r)
  /\ UNCHANGED <<sponsor, books, ride, funded, billed, history>>

\* expireRedemption, from the sweep or from a code entered too late.
Expire(h, r) ==
  /\ Status(r) = "WAITING_FOR_SPONSOR"
  /\ SetStatus(r, "EXPIRED")
  /\ Start(h, "release", r)
  /\ UNCHANGED <<sponsor, books, ride, funded, billed, history>>

\* The rider showed the code, or the ride never completed.
Unbilled(r) == redemption[r].validated \/ ride[r] # "COMPLETED"

AfterRelease(h, r) == IF Unbilled(r) THEN Finish(h) ELSE Goto(h, "bill")

\* releaseReservedBudget: nothing happens when less is reserved.
ReleaseReservedBudget(h) ==
  LET r == call[h].id IN
  /\ At(h, "release")
  /\ IF sponsor.reserved >= Discount(r)
       THEN /\ sponsor' = [sponsor EXCEPT !.reserved = @ - Discount(r)]
            /\ released' = [released EXCEPT ![r] = @ + 1]
       ELSE UNCHANGED <<sponsor, released>>
  /\ AfterRelease(h, r)
  /\ UNCHANGED <<redemption, redeemed, adjusted, ride, funded, billed, history>>

\* onSpecialExpired; Settlement has its steps.
BillRider(h) ==
  /\ At(h, "bill")
  /\ billed' = billed \cup {call[h].id}
  /\ Finish(h)
  /\ UNCHANGED <<sponsor, redemption, books, ride, funded, history>>

-----------------------------------------------------------------------------
\* Settling a validated redemption

\* reconcileSettledRedemptions.
Reconcile(h, r) ==
  /\ Status(r) \in {"SPONSOR_VALIDATED", "REWARD_FAILED", "REWARD_COMPLETED"}
  /\ r \notin funded
  /\ Start(h, "settle", r)
  /\ UNCHANGED <<sponsor, redemption, books, ride, funded, billed, history>>

\* settleValidatedRedemption up to its transaction.
SettleRead(h) ==
  LET s == Status(call[h].id) IN
  /\ At(h, "settle")
  /\ \/ s = "REWARD_COMPLETED" /\ Goto(h, "components")
     \/ s \in {"SPONSOR_VALIDATED", "REWARD_FAILED"} /\ Goto(h, "consume")
     \/ s \notin {"SPONSOR_VALIDATED", "REWARD_FAILED", "REWARD_COMPLETED"} /\ Finish(h)
  /\ UNCHANGED <<sponsor, redemption, books, ride, funded, billed, history>>

\* Mutant of Consumable: the redemption's status is not checked again.
ConsumableUnguarded(r) == sponsor.remaining >= Discount(r) /\ sponsor.reserved >= Discount(r)

\* Both guarded updates match, and no column goes below zero.
Consumable(r) ==
  /\ sponsor.remaining >= Discount(r) /\ sponsor.reserved >= Discount(r)
  /\ Status(r) \in {"SPONSOR_VALIDATED", "REWARD_FAILED"}

Depleted(s) ==
  IF s.status = "ACTIVE" /\ s.remaining - s.reserved <= 0 THEN [s EXCEPT !.status = "DEPLETED"] ELSE s

\* Mutant of Consumed: the reservation is kept.
ConsumedStillReserved(d) == [sponsor EXCEPT !.remaining = @ - d, !.used = @ + d]

Consumed(d) == [sponsor EXCEPT !.remaining = @ - d, !.reserved = @ - d, !.used = @ + d]

\* The settlement transaction: all of it, or a rollback.
Consume(h) ==
  LET r == call[h].id IN
  /\ At(h, "consume")
  /\ IF Consumable(r)
       THEN /\ sponsor' = Depleted(Consumed(Discount(r)))
            /\ redeemed' = redeemed \cup {r}
            /\ SetStatus(r, "REWARD_COMPLETED")
            /\ Goto(h, "components")
       ELSE UNCHANGED <<sponsor, redeemed, redemption>> /\ Goto(h, "fail")
  /\ UNCHANGED <<released, adjusted, ride, funded, billed, history>>

\* The catch branch, a statement of its own after the rollback.
SettleFailed(h) ==
  LET r == call[h].id IN
  /\ At(h, "fail")
  /\ IF Status(r) = "SPONSOR_VALIDATED"
       THEN SetStatus(r, "REWARD_FAILED") ELSE UNCHANGED redemption
  /\ Finish(h)
  /\ UNCHANGED <<sponsor, books, ride, funded, billed, history>>

\* onSpecialRedemptionSettled; Settlement has its steps.
RecordComponents(h) ==
  /\ At(h, "components")
  /\ funded' = funded \cup {call[h].id}
  /\ Finish(h)
  /\ UNCHANGED <<sponsor, redemption, books, ride, billed, history>>

-----------------------------------------------------------------------------
\* The admin, and what goes wrong

\* What remains is looked at, not what is spendable.
Adjustable(delta) ==
  (delta > 0 => delta >= MinLive) /\ (delta < 0 => sponsor.remaining >= -delta)

AdjustBudget(delta) ==
  /\ adjusts < MaxAdjusts
  /\ Adjustable(delta)
  /\ sponsor' = [sponsor EXCEPT !.remaining = @ + delta, !.initial = @ + delta]
  /\ adjusted' = adjusted + delta
  /\ adjusts' = adjusts + 1
  /\ UNCHANGED <<redemption, redeemed, released, ride, funded, billed, call, leaked, faults>>

\* setStatus to ACTIVE, after funding or on its own.
Reactivate ==
  /\ sponsor.status = "DEPLETED"
  /\ sponsor' = [sponsor EXCEPT !.status = "ACTIVE"]
  /\ UNCHANGED <<redemption, books, ride, funded, billed, call, history>>

Fault == faults < MaxFaults /\ faults' = faults + 1

\* The handler dies, or its statement fails and is only logged.
Crash(h) ==
  /\ call[h] # NoCall
  /\ Fault
  /\ Finish(h)
  /\ leaked' = IF At(h, "release") THEN leaked \cup {call[h].id} ELSE leaked
  /\ UNCHANGED <<sponsor, redemption, books, ride, funded, billed, adjusts>>

\* A transaction fails and is caught; a release that failed is not tried again.
Error(h) ==
  /\ Fault
  /\ \/ At(h, "consume") /\ Goto(h, "fail") /\ UNCHANGED leaked
     \/ At(h, "release") /\ AfterRelease(h, call[h].id) /\ leaked' = leaked \cup {call[h].id}
  /\ UNCHANGED <<sponsor, redemption, books, ride, funded, billed, adjusts>>

Continue(h) ==
  \/ IssueCode(h) \/ VoidWithRide(h) \/ ReleaseReservedBudget(h) \/ BillRider(h)
  \/ SettleRead(h) \/ Consume(h) \/ SettleFailed(h) \/ RecordComponents(h)

SpecialsNext ==
  \/ \E r \in Redemptions: CreateForRider(r) \/ Supersede(r) \/ AttachToRideRequest(r)
  \/ \E h \in Procs, r \in Redemptions:
       RideEnds(h, r) \/ SponsorValidate(h, r) \/ SponsorCancel(h, r) \/ Expire(h, r) \/ Reconcile(h, r)
  \/ \E h \in Procs: Continue(h) \/ Crash(h) \/ Error(h)
  \/ \E delta \in Adjustments: AdjustBudget(delta)
  \/ Reactivate

-----------------------------------------------------------------------------
\* Every variable of the budget and its redemptions has its type.
SpecialsTypeOK ==
  /\ sponsor \in [status: {"ACTIVE", "DEPLETED"}, initial: Nat, remaining: Nat, reserved: Nat,
                  used: Nat]
  /\ redemption \in [Redemptions -> [status: Statuses, discount: Discounts \cup {0},
                                     validated: BOOLEAN]]
  /\ redeemed \subseteq Redemptions
  /\ released \in [Redemptions -> Nat]
  /\ adjusted \in Int
  /\ ride \in [Redemptions -> {"none", "open", "COMPLETED", "CANCELLED"}]
  /\ funded \subseteq Redemptions
  /\ billed \subseteq Redemptions
  /\ call \in [Procs -> [at: CallAt, id: Redemptions \cup {None}]]
  /\ leaked \subseteq Redemptions
  /\ adjusts \in 0..MaxAdjusts
  /\ faults \in 0..MaxFaults

=============================================================================
