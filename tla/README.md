# NetRide in TLA+

NetRide is a ride-hailing platform. Its core is `backend/src`: an Express and
Socket.IO API, PostgreSQL (through Prisma and `pg`), Redis for everything that
lives seconds (offers, locks, presence), BullMQ workers for matching and
housekeeping, and Stripe for money. Four clients (rider and driver apps in
Flutter, an admin dashboard, a sponsor portal) call it. This directory models
the backend; paths below are relative to `backend/src`.

## Inventory

| Part | State | Operations | What makes it correct |
| --- | --- | --- | --- |
| Ride row (`modules/ride/ride.repository.ts`, `ride-state.rules.ts`) | `rides.status`, `rides.driver_id` | guarded UPDATEs: book, accept, arrive, start, complete, release, cancel | one graph of statuses, driver column in step with it, terminal rows final, one active ride per rider (but for group bookings) |
| Ride service (`modules/ride/ride.service.ts`) | none of its own; rows and Redis keys | `requestRide`, `acceptTrip`, `declineTrip`, `updateTripStatus`, `markDriverArriving`, `cancelTrip`, `cancelTripSystem` | any interleaving of these keeps the row on its graph; nobody gets a ride he was not offered |
| Offers (`services/driver-offer.service.ts`) | `offer:data`, `ride:offer`, `driver:offer` | create, attach payload, accept, decline, cancel, supersede, expire, release | one live offer per driver, each answered or closed once |
| Dispatch (`services/dispatch-engine.service.ts`, `queue/jobs/matchRide.ts`) | `ride:lock`, job queue | lock, stages, candidates, offer, wait, retry, cancel | one matcher per ride, no lock left behind, a REQUESTED ride is being matched |
| Eligibility (`services/driver-eligibility.service.ts`, `ride-rejection.service.ts`) | `driver:*:active_trip`, `ride_driver_rejections` | check, heal stale keys, record and read exclusions | a busy driver is not offered rides; a driver who declined is not asked again |
| Watchdog (`queue/jobs/cleanupStaleRides.ts`) | none | three sweeps, each select then cancel with the predicate repeated | every ride ends; a ride that moved on is left alone |
| Wallet and credits (`modules/wallet/wallet.service.ts`, `modules/credits/credits.service.ts`) | `wallet_accounts`, `wallet_ledger_entries`, and the same for credits | `post` under an idempotency key, charge, refund, award, grant | no account below zero, each key once, balance and ledger row together |
| Promotions, credits, referrals (`services/reward-engine.service.ts`, `modules/promo`, `modules/referral`) | `promo_usage`, `promo_codes.times_used`, `referral_relationships`, the ride's money columns | taken at booking, charged and counted at completion, given back at cancellation (not by the matcher's) | a ride takes its price at most, one cancelled through the hook nothing, each reward once |
| Settlement (`modules/payments/ride-settlement.service.ts`, `fare-breakdown.service.ts`, `webhook.service.ts`) | `ride_fare_breakdowns`, `stripe_payments`, `webhook_events` | completion charge, redemption, expiry, additional charge, webhook | the rider pays the fare at most, the books never run ahead of the money, acknowledged events are applied |
| Specials (`modules/sponsor/special-redemption.service.ts`, `sponsor.service.ts`) | `special_redemptions`, the sponsor's budget and its ledger | reserve, validate, settle, expire, cancel, adjust | what is reserved is held by open redemptions; one end per redemption |
| Withdrawals (`modules/payments/withdrawal.service.ts`) | `sponsor_withdrawals`, refunds at Stripe | request, refund run, sweep | a withdrawal refunds its amount, no more |
| Payouts (`withdrawal.service.ts`, `connect.service.ts`, `modules/driver/driver.service.ts`) | `driver_wallets`, `payouts`, transfers at Stripe | request, transfer, sweep, events, manual payment | one a week, PAID means transferred, nothing earned is lost |
| Groups (`modules/groups`) | `ride_groups`, members, quotes, `ride_group_payments` | invite, join, leave, configure, quote, pay, refund, book, follow the ride | the split covers who is in it, a booked ride is paid, nobody is charged twice, money of a dead quote is found again (with the exceptions below) |
| Identity, compliance, maps, notifications, admin, clients | various | request and response | outside the models |

`PROJECT.json` lists each of them, and under `hazards` every place where an
interleaving, a crash, a stale read or a boundary can hurt.

### How the parts interact

A booking inserts the row in a transaction that locks the rider's `users` row,
then queues a `matchRide` job. A group booking makes the same check without that
lock and INSERTs the host's row some statements later. A worker takes the job, checks that the row is
still REQUESTED, takes the ride lock with `SET NX`, and walks up to three
radius stages of candidates. For each it re-checks eligibility, takes the
driver's offer lock with `SET NX`, writes the offer and the ride's pointer to
it, attaches the payload, emits it, and polls the offer twice a second until it
is answered, cancelled or times out. Meanwhile the driver's `acceptTrip`
compares the offer, writes ACCEPTED, flips the row with `WHERE status =
'REQUESTED'` and sets his active-trip key; declines, rider cancels, pre-pickup
releases, `goOnline` of other drivers and the watchdog touch the same keys.
Nothing but the row's single UPDATEs is atomic: every Redis value is read,
compared in the process and written back later.

Money follows the ride by calls behind the status change. The booking
transaction takes the promo and the credits; the completion handler credits the
driver, charges the wallet and then the card, and starts the reward hooks in
the background; a cancellation gives back what the booking took. A ride with a
Special waits at completion for the sponsor: the portal's validation settles it
from the sponsor's budget, the sweep's expiry charges the rider for the rest.
Stripe answers each call and reports it again as an event, earlier or later,
perhaps twice, perhaps after the caller died. A group ride is paid in advance by
all of its members and then runs as an ordinary ride whose hooks move the group.

## Modules

| Module | Role |
| --- | --- |
| `RideLifecycle` | the abstract specification: what all writers together promise about a row |
| `MCRideLifecycle`, `RideLifecycle.cfg` | its instance |
| `RideLifecycle_proofs` | its invariants and action properties, proved |
| `Dispatch` | the protocol: handlers, match workers and the watchdog, one database statement or Redis command per step |
| `MCDispatch` and seven `.cfg` files | its instances |
| `Dispatch_proofs` | the types of everything Dispatch keeps; Dispatch implements `RideLifecycle`; the ride lock serializes matchers and outlives none; an assigned driver was offered the ride; every offer that was sent is closed, and no ride is given up while one is open |
| `Ledger` | the abstract specification of a ledger: a key, its row and the balance in one step |
| `Wallet` | `post` of the wallet and the credits, statement by statement |
| `Rewards`, `MCRewards` | a ride's promo, credits, wallet charge and referral; extends `Wallet`, which it refines |
| `Rewards_proofs` | the ledgers, and what bookings, completions, cancellations and grants make of them |
| `Settlement`, `Settlement_proofs`, `MCSettlement` | what rider, sponsor and driver of one ride pay and get; instantiates `Ledger` for the rider's wallet |
| `Specials`, `Withdrawals`, `Withdrawals_proofs` | the sponsor's budget: redemptions, and (extending it) funding, withdrawals and refunds |
| `Payouts`, `Payouts_proofs` | the driver's payout |
| `MCSponsors` | an instance of `Withdrawals` and `Payouts` side by side |
| `GroupPayments`, `Groups`, `Groups_proofs`, `MCGroups` | the money of a group ride, and (extending it) the group, its members, quotes and ride |
| `Sums` | lemmas about sums over finite sets and ranks in a finite order, for the proofs |

**RideLifecycle.** `ride[r]` is a record of the status and the driver column.
One action per UPDATE of the code, its guard the UPDATE's WHERE clause. The
booking transaction (`Request`) is one action because the `FOR UPDATE` on the
rider's row serializes the check and the INSERT. `GroupRideService.requestRide`
locks the group and not the user: its check is `GroupCheck`, its INSERT
`GroupInsert`, `checked` is the bookings in between, and `grouped` the rows made
this way. Whatever is booked in between stands beside it, so that
`OneActiveRidePerRider` promises one active ride only among rows of which none
is a group's.

**Dispatch.** PostgreSQL is `ride`, `rejected` and `aged` (which timestamps of
the row are older than the cutoff of the sweep that is running); Redis is
`active` (`driver:{d}:active_trip`), `hold` (`driver:offer:{d}`), `pointer`
(`ride:offer:{r}`), `offer` (`offer:data:{o}`) and `lock` (`ride:lock:{r}`);
`jobs` counts queued copies of a match job per ride and `retryCount`. A call in
flight is a process `proc[p]` whose `pc` names its next command; the prefix of
the `pc` names the method (`a_` acceptTrip, `d_` declineTrip, `x_` and `r_`
cancelTrip, `u_` updateTripStatus, `w_` the watchdog, `m_` the matcher, `t_` and
`o_` the shared `transitionOffer` and `cancelRideOffers`). A method that returns
to several callers carries the label to continue at. A missed guard or a thrown
error ends the call as in the code. `RequestRide`, `Accept`, `Decline`, ... start
a call and do its first read.

What is abstracted, and where it could matter:

- Fares, payloads, routes, scores and radii. Which drivers are near, online and
  fresh is any subset (`MatchStage`), so every order of candidates occurs.
- Reads that decide nothing are skipped, and two reads in a row with no write
  between that any property could tell apart are one step (`getOfferForRide`
  reads the pointer, then the offer). Writes are never merged, except the
  pipeline of `createOffer`, which the code sends as one.
- Time. An offer may be found past its `expiresAt` at any moment, and from then
  on it is (`due`); keys expire when no worker is waiting on them; the ride lock
  outlives its 120 s only through `LockExpires` (owner gone) or `LockOutlived`
  (owner has let `LockTtlOffers` offers time out). The 30 s delay of a retry is
  any delay. A poll and the timer are one step each, so an answer to a poll that
  arrives after the timer fired is not covered. The 4 h TTL of the active-trip
  key is left out.
- Rides are on demand, booked by riders. A ride scheduled for later is exempt
  from the one-ride check and is activated by the scheduler. A group's ride is
  dispatched like any other once it is INSERTed; `Dispatch` has no such bookings,
  and `RideLifecycle` has.
- Admin calls with the guards bypassed, and the LEGACY in-process matching.
- `resumeStage` of a job: no code sets it.

**The money modules.** A handler `call[h]` (`work[h]`, `run[h]`, `step[h]`) is
one request, webhook, sweep or ride callback; its `at` names its next step. A
step is a transaction, a statement outside one, or a call to Stripe. `Crash`
(`RunCrash`, `HandlerDies`) ends a handler between any two steps and forgets
what it read; `Error` makes the next step throw, with the handling of the code.

- `Wallet`. `WalletService.post` gets no client from most callers and then sends
  BEGIN, INSERT, UPDATE and COMMIT to the pool one by one. Every call has the
  connection it normally uses; a `Stray` statement lands on another one and
  takes effect in whatever is open there. `tx[c]` is what the transaction on
  connection c has written and locked; unique keys and row locks are waited
  for. READ COMMITTED is all that is assumed. The size of the pool is not
  modelled, so a wait for a free connection is not either.
- `Rewards`. A transaction on a client of its own is one action (its posts wait
  until their key and account are free), everything else one action per
  statement. Fares and rewards are numbers; the promo is one code; the fraud
  score of an install is a choice, and so is whether the referred address is a
  test one (such a rider joins, and nobody is paid). `MatcherCancel` is the
  cancellation of `matchRide.ts:70`: one UPDATE with no `RewardEngine` behind it,
  after which the row is "unmatched".
- `Settlement`. One ride, with or without a Special. The wallet posts in one
  step (`Ledger`), as `Rewards_proofs` shows it does while statements stay on
  their connection. Stripe keeps the outcome of each payment and the events it
  owes: an event may come before the answer ("early event"), an answer may be
  lost, a failure may arrive late, an event may be delivered again, and a step
  may throw; `faults` records which kinds have happened, and each property says
  which of them it survives. `Attempts` numbers the additional charges of one
  ride, one for each pass. The rider's consent to a charge after the ride is
  asked for after the claim (`CheckConsent`); without it the row becomes REQUIRED
  and an EXCEPTION. What the wallet's debit throws is caught, and the card is
  next. Tips, and intents that wait for the rider's
  authentication (nobody shows them to the rider), are left out.
- `Specials`, `Withdrawals`. The sponsors row with `initial`, `remaining`,
  `reserved`, `used`; budget transactions lock it and are one action each.
  A refund run plans from three queries read as one, then refunds charge by
  charge; Stripe knows each refund by its key and refuses more than a charge has
  left. Stripe may also answer that a refund failed: the loop counts nothing and
  goes on, and that key fails from then on (`declined`). Refunds that are pending
  and fail later are left out. `RideEnds` of a ride the matcher cancelled calls no
  hook: its redemption stays RIDE_PENDING with its reservation. `seen` and
  `reckoned` are what the last run of a withdrawal found: the charges, and what
  it took off each for other withdrawals; `blind` marks a withdrawal whose next
  run missed such a charge or took less off one.
- `Payouts`. One driver. The account may be restricted at any moment; the
  transfer's answer may be lost, its event is delivered once but at any time.
- `GroupPayments`, `Groups`. One group. Confirming, booking and the changes of
  the group lock its row and are one action each; the card is charged between
  two such transactions. `Shares` is the code's split, with the largest
  remainder rule; distances are the users' numbers. A quote is computed in two
  actions, with the routing call between them. The key of
  a refund is the row's, so that Stripe refuses to refund a second charge of it.
  `cancelGroup` reads its quotes and then refunds them one by one, each with a
  snapshot of its own (`selectEach`); `refundOne` leaves the row unmarked when the
  charge cannot be found at Stripe. Four variables are history and read by no
  action; each is named by the properties that do not survive it:
  `reopened`, a quote was made for a group after it was closed (`createQuote`
  compares the version it read and looks whether a ride is on, and not whether
  the group was closed while it waited for the route);
  `lapsed`, the quotes booked between getGroup's reading them as expired and its
  refund, which takes every share of the ride back (`group.service.ts:552`);
  `again`, the shares confirmed again while a charge of theirs was open (in
  flight, or paid with the row not saying so);
  `raced`, these, the shares refunded while a charge was open, and those whose
  success Stripe announced to a handler that died or while the row named another
  charge. `BookedIsPaid` excepts `reopened` and `lapsed`, `NeverChargedTwice`
  excepts `again`, `NoMoneyForgotten` and the theorem `RefundedMeansReturned`
  except `reopened` and `raced`. None of the four needs a fault to happen: see below.

## Runs

All bounds are constants of the modules: `MaxCalls` (calls the clients start),
`MaxFaults` (crashes, job errors, early lock expiries), `MaxOffers` (offers
created), `MaxJobs` (copies of one job counted), `MaxRetries` (6 in the code),
`LastStage` (2 in the code), `LockTtlOffers`.

| Run | Instance | Shows |
| --- | --- | --- |
| `RideLifecycle` | 3 rides, 2 riders, 2 drivers | type, `DriverFollowsStatus`, `OneActiveRidePerRider`, `TerminalIsFinal`, `DriverChangesThroughPool` |
| `DispatchOffers` | 1 ride, 2 drivers, 2 handlers, 2 matchers, every client call and key expiry, any 2 calls, no retry | `LifecycleSpec`: Dispatch implements RideLifecycle; `OneMatcherPerRide`, `NoOrphanLock`, `NoForgottenOffer`, `AssignedDriverWasOffered` (0.67 million states) |
| `DispatchTwoRides` | 2 rides of 2 riders, 1 driver, 3 calls of accept and cancel | `NotGivenUpWhileOffered`: the matcher cancels a ride only when no offer of it is open, although both rides are offered to the same driver and stale active-trip keys are healed in between (1.1 million states) |
| `DispatchRecovery` | 1 of each, 2 calls (accept, start, release), 1 retry, 1 fault, the watchdog | `EveryRideEnds`, `LockEventuallyFree` under fairness (0.32 million states) |
| `Rewards` | 1 referred rider with 2 rides, 1 referrer, 2 handlers, 3 operations, 1 admin key, 1 stray statement or crash | the ledgers (`NoOverdraft`, `KeyPostedOnce`, `PostIsAtomic`) and what rests on them: `NoRideOverpaid`, `CancelledCostsNothing`, `PaymentOnRow`, `PromoCounted`, `ReferrerPaidForFirstRide`; a cancellation is the rider's, with its hook, or the matcher's, without (0.41 million states) |
| `RideMoney` | 1 ride, 2 handlers, fare 3 of which the sponsor pays 1, wallet empty or topped up by 1, 2 passes of sweep or admin, 1 kind of fault | `NeverOvercharged`, `BooksNeverAhead`, `CollectedOnlyGrows`, `NeverBothPay`, `DriverPaidOnce`, `AcknowledgedIsApplied` (0.40 million states) |
| `Sponsors` | 2 redemptions, 2 handlers, 2 charges of 3, 2 withdrawals of 2 or 4, 3 runs, 1 fault; 2 payout requests, 2 rides, 2 handlers, 1 mishap | `BooksBalance`, `ReservedIsHeld`, `NeverBothEnds`, `RefundsWithinWithdrawal`; `OnePayoutAWeek`, `NothingLost`, `PaidIsTransferred` (0.30 million states) |
| `Groups` | 2 members, 2 quotes of a fare of 5, 2 handlers, 2 attempts per share, 1 fault | `QuoteCoversMembers`, `BookedIsPaid`, `NeverChargedTwice`, `CreditsConserved`, `NoMoneyForgotten` (0.68 million states) |

The four money runs carry a constraint (`Combined`, `Bounded`) or a bound that
keeps apart what does not meet: in `RideMoney` a ride with a Special sees a
top-up or a disturbance, not both; in `Sponsors` the sponsor or the driver is at
rest, since the two share no variable, and while funding is in play one
redemption holds a reservation, and one refund may be declined, with nothing
else going wrong (`OneFailure`); in `Groups` each of the things that change or go
wrong (an invitation, a new configuration, a second quote, an expired quote, a
booking, a booking under an expiry, a closed or reopened group, two members who
pay, a fault, a retried or raced share) occurs, and those combine that
`Combinations` in `MCGroups` lists together. Two handlers are what a race needs; the
amounts are chosen so that a discount, a share or a refund does not divide evenly
and a wrong one shows.

The type invariants `TypeOK` of the money modules are in no run's list: they are
proved (`RewardsTypes`, `SettlementTypes`, `PayoutsTypes`, `GroupsTypes`, and
`SponsorColumns` for the sponsors row).

The bounds are small but each interesting case happens in them: TLC's coverage
of the passing runs reaches every action and every disjunct, and each property
has a mutant of the code in `PROJECT.json` (a dropped guard, a missing expiry, a
lock not released) that it catches in the very same instance. Two calls are
what any pairwise race needs; a matcher and its successor make it four actors
at once. More calls, offers or retries repeat a round of the protocol on a row
that `rejected` and the keys describe completely. Symmetry among drivers,
handlers and matchers is used in the safety runs only.

### Disagreements with the code's comments

Four runs are expected to fail; each checks one sentence of the code.

- `RematchLost`: a driver releases a ride before the matcher that offered it has
  polled the acceptance. The re-match job meets the old matcher's lock and ends,
  the old matcher returns `assigned`: the ride is REQUESTED and nobody is on it
  until some driver comes online or the watchdog cancels it.
- `TwoLiveOffers`: `attachPayload` writes back the offer it read; a cancellation
  in between is undone while the driver has already been freed, so he gets a
  second live offer.
- `ForeignDecline`: a decline without offer id follows `driver:offer` and then
  `ride:offer`; after a release over REST the first key still stands and the
  second names another driver's offer, which is declined.
- `TwoRidesOneDriver`: `cancelTripSystem` drops the active-trip key before its
  guarded UPDATE; when the guard misses, the driver goes on driving without a
  key and may accept a second ride.

#### Met in the money modules

The following was seen while modelling. No run is spent on it; the properties
name it as their exception or do not claim it.

- Settlement. When the answer to an additional charge is lost and the next pass
  finds the money in the wallet, the rider has paid it twice; the event of the
  first charge finds the row COLLECTED, is acknowledged and leaves no intent
  (`AcknowledgedIsApplied` allows for it). An event of success that overtakes the completion's own write is
  overwritten by it, and so is a settlement pass that fails after the card was
  charged: the breakdown shows less than was paid and what follows charges the
  rest again. A lost answer of Stripe has the same effect, because the next
  attempt has a new key. A late failure of an earlier attempt frees the row
  under a running one. A crash after the claim of an additional charge leaves it
  PROCESSING, which no sweep takes up; a crash inside a webhook leaves the event
  PROCESSING and its redelivery is skipped. A settlement that failed after the
  driver's credit makes the true-up pay the driver in full again.
- Payments. `reconcilePayment` does nothing for a top-up that is SUCCEEDED but
  was not credited; its UPDATE for ride charges numbers its parameters $1 and $3
  and cannot run.
- Booking. The comment at `ride.service.ts:297` calls one active ride per account
  an invariant that the lock on the user's row guards; a group booking takes no
  such lock, no unique index stops it, and the host can have two
  (`OneActiveRidePerRider` excepts rows made by a group).
- Rewards. "A cancelled ride costs nothing" (`reward-engine.service.ts:48`) is
  true of `cancelTrip` and of the watchdog; the matcher cancels a ride nobody took
  with a bare UPDATE (`matchRide.ts:76`), and its credits stay taken and its promo
  reserved, with nothing having failed. `CancelledCostsNothing` says what is so:
  such a ride cost its credits and no more. The header of `wallet.service.ts:11`
  has the wallet charged when a ride is REQUESTED, refunded when it is CANCELLED
  and left alone when it is COMPLETED; the code charges it at completion
  (`ride.service.ts`, `chargeRide` behind COMPLETED) and a booking takes credits
  only. `PaymentOnRow` follows the code. `max_uses` is compared with a counter that only completions raise;
  the partner's commission never accrues, as the query does not select the
  status it asks for; a crash before the completion hook, or a second ride that
  completes first, loses the referral reward; the booking transaction asks the
  pool for a second connection (`ride.service.ts:403`), where as many bookings
  as the pool has connections wait for each other.
- Specials. `adjustBudget` checks the remaining budget, not what is free of
  reservations as its comment says; a lost release, or a crash before the ride's
  callback, keeps the reservation; a crash between EXPIRED and the bill is swept
  by nobody. The comment that initial is remaining plus reserved plus used
  (`sponsor.service.ts:11`) is not what the code keeps, which is `BooksBalance`.
- Withdrawals. `charge.refunded` marks a charge of which a part was refunded as
  REFUNDED, after which the next run cannot see it and refunds another charge.
  The number of earlier withdrawals, not their cents, is subtracted from a
  charge; Stripe's refusal is what keeps the sum right. Of two overlapping runs
  the slower one may write FAILED over COMPLETED; the next run of another
  withdrawal then takes less off a charge than the run before it, counts a refund
  made there for more than it was, and reports COMPLETED with too little refunded.
  `RefundsWithinWithdrawal` excepts both (`blind`).
- Payouts. A reversal that arrives before the transfer's id is stored finds no
  row; `transfer.created` may overwrite FAILED; an admin who pays by hand while a
  transfer is under way pays twice.
- Groups. A share whose attempt failed keeps that attempt's payment id, and one
  whose attempt is older than 120 s is released with the charge still under way,
  or after a lost answer: a second confirmation then charges it a second time,
  which `group-payments.service.ts:225` ("must be rejected here") says cannot
  happen (`again`). A share with credits on it whose card charge is in flight when
  its quote is superseded has no payment id in the refund's snapshot: `refundOne`
  finds nothing to refund on the card, returns the credits and writes REFUNDED
  while the charge succeeds, after which no sweep selects the row
  (`group-payments.service.ts:514`; `raced`). A charge whose answer was lost has
  no intent id on its row and is not refunded (`no_payment_intent`). `getGroup`
  reads an ACTIVE quote as expired, waits for a booking's lock, updates no row and
  refunds the shares all the same: the ride goes on, unpaid (`lapsed`). A
  failed charge writes over the SUCCEEDED of an earlier event. When no
  driver is found the ride is cancelled without the hook of the group, which
  stays DRIVER_MATCHING with its money. `cancelGroup` leaves the quotes ACTIVE.
  A quote that reopens a closed group is swept up by the refund of that group: a
  share of it that is being paid is then marked REFUNDED with a charge on it.
  `resolvePickupOutcome` selects a column the migrations do not have, so that a
  group ride can only start through the gateway's `pickUpRider`. The checks of
  `group-state.rules.ts` are called by nothing.

### Fairness

`FairSpec` gives weak fairness to each handler, matcher and the watchdog: Node's
event loop and BullMQ run a started call to its end unless it crashes, and the
cron worker fires for ever. A lock whose owner is gone expires. Clients owe
nothing: a driver may never accept, start or finish. Faults are bounded by
`MaxFaults`; without a bound no retry is ever enough. The money modules have
safety properties only: nearly everything they promise to do eventually is lost
by a crash at the wrong moment (above), so that there is no fairness under which
it would hold with faults.

## Proofs

`RideLifecycle_proofs` proves, for every set of rides, drivers and riders and
every assignment of rides to riders, what the run `RideLifecycle` checks on a
small instance. Every safety property of every passing run is a theorem of one
of the proof modules; only liveness is left to TLC. Assumptions: `RiderOf` is a function from rides to riders, and
`None` (SQL NULL) is no driver.

The inductive invariant is `IInv`, the conjunction of `TypeOK`,
`DriverFollowsStatus` and `OneActiveRidePerRider`. The first two need each
other only through typing. The third is the interesting one: `Release` returns
a ride to REQUESTED long after the booking's check, and the proof is that no
action but `Request` and `GroupInsert` makes a row active that was not
(`NothingElseActivates`), since a released row was engaged and so held its
rider's slot already. `Request` finds no active ride at all, whether a group's or
not, and `GroupInsert` makes a row the property excepts, which it stays. The
action properties `TerminalFinal` and `DriverThroughPool` are read off each
action, the second with `DriverFollowsStatus`.

`Dispatch_proofs` holds for any numbers of rides, drivers, handlers,
matchers, queued jobs, offers, retries and stages, and for any bounds on calls
and faults. `DispatchAssumption` is all they use: the bounds are naturals,
`RiderOf` is a function, `None` is no ride, driver, matcher or offer id, and
handlers, matchers and the watchdog are different processes.

- Types. Typing is not inductive by itself: a process applies the
  tables and keys to what it read several commands ago. `IInv` adds `Ready`:
  at each label the process holds the ride, driver or offer its next command
  needs, the offer has been written, and `transitionOffer` returns to labels
  whose needs are met too. The step lemmas say once what `Return`, `Goto`,
  `Transition`, ... do to a process; each action then cites them. `Alone` says
  that a step of one process leaves the memory of the others untouched.
- Refinement. Nine actions write a ride row, and each is one
  action of `RideLifecycle` on the ride its process holds. The watchdog needs
  `SweepOK`, that its process remembers one of the three sweeps, for otherwise
  the predicate it repeats in the UPDATE would say nothing about the status.
  With `RideLifecycle_proofs` this carries `OneActiveRidePerRider`,
  `TerminalIsFinal` and the others over to the protocol for every size.
- Safety. `Locked`: while nothing has failed, `lock[r] = m`
  exactly when matcher m is at work on ride r. Both directions are needed: the
  unlock deletes whatever lock there is, and does no harm only because the lock
  of a working matcher is its own; the lock cannot expire under a job at work
  because it does only when its owner has gone. `OneMatcherPerRide` and
  `NoOrphanLock` follow. `FInv`: a process on the way to
  the conditional flip (also while it is inside `transitionOffer`) holds a
  driver to whom some offer of its ride went. It rests on the pointer of a ride
  leading to an offer of that ride, and on offers keeping ride and driver.
  `WInv`: while nothing has failed, a SENT offer is in the hands of the match job
  that published it, which is attaching its payload, waiting for the answer, or
  in its timer with "from SENT to EXPIRED" (`Waits`). The dangerous write is
  `attachPayload`'s, which may put SENT back over a cancellation whose driver is
  already free; the offer is still closed because the job that did so is that
  offer's own, polls it afterwards, leaves it only when it reads another status
  or has written EXPIRED, and nobody else ever writes SENT (`Closing`). Hence
  `OffersAreClosed`. `HInv` adds that the offer a match job has in hand is of the
  ride it works on (`OwnOffer`). A SENT offer of a ride the matcher is giving up
  would be in the hands of another job at work on that ride, which the lock
  excludes: hence `GivenUpUnoffered`.

The money proofs hold for any number of calls, connections, accounts, keys,
riders, rides and requests, and for any bounds.

- `Sums`. The books of these modules are sums over sets of rows. `MapThenSumSet`
  chooses a function that is defined by recursion on the subsets; `AddsExists`
  and `AddsUnique` show that there is one and only one, and from it follow the
  sum without one element, of a changed function, of two functions, a scaled
  one, bounds. There is no induction principle to call with a property as its
  argument; instead a set of counterexamples has a smallest one
  (`MinimalSubset`, from the library's well-founded order of finite subsets),
  and that one is contradicted. `RanksBelow` says that in a strict order of n
  elements exactly k have fewer than k ahead of them.
- `Rewards_proofs`, the ledgers. `Statement` says what a step of a call does to the database
  and nothing about which call it is, so that the invariant of the tables is
  proved once per kind of statement. `Solvent`: an account's balance and what the
  open transaction that holds its row adds to it are never negative, a delta sits
  only on a locked row, a row is locked once. `Keyed`: a key is in one row,
  committed or not. `Calls`: an entry in flight was inserted by its call. The
  conjunction `WalletInv` is inductive and gives `NeverOverdrawn` and
  `KeysPostedOnce` even with stray statements; `PostsAreAtomic` needs that no
  stray has happened, and then a step of the service is a step of `Ledger` or
  none. Every action of `Rewards` is a step of `Wallet` or leaves its variables
  alone (`RewardsUseTheLedgers`), which needs `Callers`: the entry a handler posts
  has a key and an amount of the ledger. The wallet's theorems then carry over.
- `Rewards_proofs`, the rides. `StagesInv`: one handler books, one completes,
  one cancels a ride, under a status that does not move. `PromoInv`: the handler
  that holds the promo's row is the one booking with it, a rider has no two live
  uses, the counter is the number of USED rows (`PromoUsesCounted`). `AmountInv`:
  credits and due of a row fit the fare. `TracedInv` ties what is in the ledgers,
  committed or not, to the row it is about: with the keys posted once it gives
  `RidesNeverOverpaid`. It does not say that the row is in the ledger: `Answered`
  (a post that answers "done" is right while nothing strays), `RefundInv` and
  `ChargeInv` do, and say which handler is about to write what is missing; they
  give `CancellationRefunds` and `PaymentsAreOnRows`. `Traffic` classifies once
  which keys a step posts and which calls it moves, so that each of these
  invariants looks at four kinds of steps and not at every action.
  `ReferralInv`: the referral's rows are in the ledger exactly in the statuses
  after them (`ReferrersPaidForFirstRides`).
- `Settlement_proofs`. `SettlementInv`, for any handlers, amounts, passes and
  retries. `StageInv` and `KnowInv` are what a handler holds at each statement:
  which payment, of which amount, which event, and what of it has happened at
  Stripe; `PayInv` is what rows, Stripe and events say of each other; `RideInv`
  that one handler completes a ride, and that rest is charged only after the
  Special has ended. `TakenInv` bounds the money really taken at each statement,
  from below (`BooksBehind`: what a handler saw as collected has been taken) and
  from above (until the Special ends the rider pays his share at most, which is
  `OnePays`). `DriverInv` needs that no settlement pass failed, for then the
  redemption finds the driver settled and skips the true-up. `EventInv` carries
  what an event leaves behind from the write to the acknowledgement. These
  hold whatever is disturbed. `CrashInv` holds while only crashes do:
  a successful charge that the breakdown does not show yet is in the hands of
  one handler, the settling one (`SettlerAt`), the webhook's (`ReporterAt`) or
  the one that charges the rest (`ExtraAt`), and the next charge is claimed only
  when nobody has such a thing in hand; hence `MissingInv`, one source for the
  rest, and `NobodyOvercharged` and `CollectedKept`. TLC checked each part on the
  instance of `RideMoney` before it was proved.
- `Withdrawals_proofs`. `EndsInv` (`OneEnd`): a redemption is redeemed exactly
  when its status says so; the release of a closed one happens once because one
  handler is on its way to it; what is billed was closed before the sponsor
  validated. `Reserving`, the open redemptions, those being released and those
  whose release was lost, adds up to the reserved column (`ReservationsHeld`);
  `Leaks` says that a lost release stays lost. `Columns`, and `Books` on top of it:
  used is the sum over `redeemed`, the initial column what was opened with,
  adjusted and funded less the withdrawals (`BooksAlwaysBalance`). The refunds:
  `RefundsInv` is `RunTypes`, `Unasked`, `TakenInv` and `FillInv`. `TakenInv` says
  that no charge is refunded beyond its amount and that what a run counts as
  done, or takes off a charge for others, is refunded. `Fills` is the shape of a
  withdrawal's refunds: along the list of charges, with no gap but the charges
  that are full, each as large as what was left to refund or to take. `Walks` is
  a run that has come to the i-th charge: it has counted exactly what is refunded
  before it. All runs of a withdrawal walk the same list in the same order, and
  each finds the refunds of the earlier and overlapping ones under the same
  Stripe key, so that two runs and a sweep together refund no more than one would
  (`RefundsStayWithinWithdrawal`).
- `Payouts_proofs`. `PaidWasTransferred` rests on what a handler that is about
  to write PAID knows of Stripe; `WeeklyLimit` on the insert re-checking the week
  in the transaction that holds the driver's lock; `EarningsAccounted` counts
  the requests with a row, for any finite set of requests.
- `Groups_proofs`. First the split: the largest remainder rule gives every
  participant whole cents and adds up to the fare, for any number of
  participants, weights and any fare (`LargestRemainderSplits`). Then
  `GroupsInv`, twelve parts. `RowsInv`: handlers work on rows that exist and what
  they saw in credits is still so. `OnceInv` (`ChargedOnce`): a share that
  was not confirmed again while a charge of it was open has one charging handler,
  which charges only while nothing is paid.
  `CreditsInv` (`CreditsAreConserved`). `SplitInv` (`QuotesCover`): a handler back
  from the routing call whose version is still the group's has the group's
  members. `AttemptsInv`, `BookingInv`, `SelectInv`, `HoldInv`, `SecuredInv` give
  `BookedRidesArePaid`: a quote that is being booked stays the active one because
  the handler holds the group; a share of a quote that is neither replaced nor
  closed is in no refund's snapshot and its rows and events tell the truth about
  Stripe; so what was found paid stays paid. It needs that the quote was not `lapsed`, for
  then getGroup refunds it although it did not close it. `UntriedInv` and `SettledInv` give
  `MoneyIsNotForgotten`. `SettledInv` says of each share, unless it was raced or
  the group reopened, that the books are right (`Truth`): what Stripe, the charges
  and the events say of each other (`Bills`); what a handler that applies an event
  was told (`Told`); that who charges a share knows every charge that is kept and
  that it is not being refunded (`Tries`); that a share being refunded is one
  that can no longer be confirmed (`Shut`), which lasts, for a closed quote is
  never opened again (`ConfirmableStays`, and the theorem `ClosedQuotesStayClosed`);
  that a refund's snapshot names the charge and the credits there are (`Noted`)
  and its later steps have given back what came before (`Returning`); and that a
  row SUCCEEDED names its charge while a row REFUNDED keeps nothing (`Settled`,
  and the theorem `RefundedMeansReturned`). A step leaves a share aside (`Aside`)
  or is one of a dozen that touch it (`Touched`), and only those need an argument
  of their own. A charge that succeeds after its quote is over is then found by the
  sweep once its event has been applied, which is the last alternative of the
  property (`Announced`).

With TLC alone: the two liveness properties `EveryRideEnds` and
`LockEventuallyFree`, since liveness under fairness is outside the prover. The
four disagreements with the comments are counterexamples and TLC's as well.

## Not modelled

`PROJECT.json` gives the reason for each component. In short: authentication and
one-time codes, driver onboarding and review queues, the fleet partners' portal,
pricing, route search and map caches, notifications, reports, and the clients.
Most of the source outside the modelled services is user interface (Flutter and
React) or request and response around one statement. The review queues of driver
compliance were surveyed and left: their handlers overwrite `is_active` and the
background check from snapshots and from each other, so that what one would want
to state of overlapping reviews does not hold. Legacy in-process matching repeats
the dispatch engine without its queue.

## Running

    tlc -config RideLifecycle.cfg MCRideLifecycle
    tlc -workers 2 -config DispatchOffers.cfg MCDispatch
    tlc -workers 2 -config Rewards.cfg MCRewards
    tlc -workers 2 -config RideMoney.cfg MCSettlement
    tlc -workers 2 -config Sponsors.cfg MCSponsors
    tlc -workers 2 -config Groups.cfg MCGroups
    tlapm RideLifecycle_proofs.tla
    tlapm Dispatch_proofs.tla
    tlapm Rewards_proofs.tla
    tlapm Settlement_proofs.tla
    tlapm Withdrawals_proofs.tla
    tlapm Payouts_proofs.tla
    tlapm Groups_proofs.tla
    tlapm Sums.tla

A finished instance stops (bounds used up, every call returned), so deadlock is
not checked in these configurations.
