------------------------------ MODULE Rewards ------------------------------
(***************************************************************************)
(* The rewards around a ride: the promo code and the ride credits taken in *)
(* the booking transaction, the wallet charge, completion bonus, promo     *)
(* count and referral reward at completion, and the refund at              *)
(* cancellation, all posting to the wallet and credit ledgers of Wallet.   *)
(* A handler runs one operation; what runs on a client of its own between  *)
(* BEGIN and COMMIT is one action, everything else one action per          *)
(* statement or post.                                                      *)
(***************************************************************************)
EXTENDS Wallet, FiniteSetsExt

CONSTANTS
  Riders, Rides,
  RiderOf,      \* ride -> the rider who books it
  Referrer,     \* the rider whose referral code the others enter
  Fare,         \* totalFare of a ride
  Discount,     \* what the promo code takes off, at most Fare
  Award,        \* RIDE_COMPLETION_REWARD_CENTS
  Bonus,        \* REFERRAL_REWARD_CENTS; referrals pay nothing unless it is positive
  AdminKeys,    \* keys the dashboard sends, one per click
  Grants,       \* the <<account, amount>> pairs admins grant or take back
  MaxCalls,     \* operations the handlers run
  MaxUses,      \* promo_codes.max_uses, not zero
  MaxFaults     \* process crashes and strays

ASSUME RewardsAssumption ==
  /\ RiderOf \in [Rides -> Riders]
  /\ Referrer \in Riders
  /\ Fare \in Nat /\ Discount \in 0..Fare
  /\ {MaxCalls, MaxUses, MaxFaults} \subseteq Nat
  /\ \A u \in Riders: <<u, "credits">> \in Accounts
  /\ \A r \in Rides: <<RiderOf[r], "wallet">> \in Accounts
  /\ \A g \in Grants: /\ g[1] \in Accounts /\ g[1][2] \in {"wallet", "credits"} /\ g[2] \in Amounts
                       /\ {g[1][2]} \X AdminKeys \subseteq Keys
  /\ None \notin Procs
  /\ {"ride-applied", "ride-refund", "wallet-charge", "ride-completion-reward"} \X Rides \subseteq Keys
  /\ {"referral", "referred-signup"} \X Riders \subseteq Keys
  /\ (1..Fare) \cup {Award} \subseteq Amounts
  /\ Bonus \in Nat \ {0} => Bonus \in Amounts
  /\ \A a \in Amounts: -a \in Amounts

VARIABLES
  ride,         \* rides: status ("unmatched": CANCELLED by the matcher) and money columns
  usage,        \* promo_usage row of the ride
  timesUsed,    \* promo_codes.times_used
  promoLock,    \* handler whose booking holds the promo row FOR UPDATE
  referral,     \* status of the relationship in which the rider is the referred one
  call,         \* handler -> the operation it runs
  calls,        \* operations started
  background,   \* ride -> RewardEngine.onRideCompleted, not awaited
  crashes

rewardVars == <<ride, usage, timesUsed, promoLock, referral, call, calls, background, crashes>>
vars == <<walletVars, rewardVars>>

Wallet(r) == <<RiderOf[r], "wallet">>
Credits(r) == <<RiderOf[r], "credits">>

Row(status) == [status |-> status, credits |-> 0, due |-> 0, paid |-> 0, refunded |-> FALSE]
NoRide == Row("none")
\* A ride from before the rider used any of this.
PastRide == Row("completed")
Operation(at, r) == [at |-> at, ride |-> r, promo |-> FALSE, amount |-> 0]
NoCall == Operation("idle", None)

CallAt == {"idle", "apply", "book", "mark", "charge", "charging", "record", "award", "awarding",
           "void", "refund", "refunding", "stamp", "granting"}

Init ==
  /\ WalletInit
  /\ ride \in [Rides -> {NoRide, PastRide}]
  /\ usage = [r \in Rides |-> "none"]
  /\ timesUsed = 0
  /\ promoLock = None
  /\ referral = [u \in Riders |-> "none"]
  /\ call = [h \in Procs |-> NoCall]
  /\ calls = 0
  /\ background = [r \in Rides |-> "none"]
  /\ crashes = 0

Step(h, at) == call' = [call EXCEPT ![h].at = at]
StepWith(h, at, amount) ==
  call' = [call EXCEPT ![h] = [at |-> at, ride |-> call[h].ride, promo |-> call[h].promo,
                               amount |-> amount]]
Finish(h) == call' = [call EXCEPT ![h] = NoCall]
RideOfCall(h) == call[h].ride

\* An idle handler takes an operation.
Begin(h, c) ==
  /\ call[h].at = "idle"
  /\ calls < MaxCalls
  /\ calls' = calls + 1
  /\ call' = [call EXCEPT ![h] = c]

\* A transaction on a client of its own posts e: it needs the key and the
\* account row, then takes effect at once.
Uncontended(e) ==
  \A c \in Procs: (\A f \in tx[c].rows: f.key # e.key) /\ e.account \notin tx[c].locked

Min2(a, b) == IF a <= b THEN a ELSE b

-----------------------------------------------------------------------------
(* Booking: RideService.requestRide with RewardEngine.applyToRideRequest.  *)

\* BEGIN, the rider row FOR UPDATE and the one-active-ride check; then, with a
\* promo code, the promo row FOR UPDATE and its validation.
RequestRide(h, r, promo) ==
  /\ ride[r].status = "none"
  /\ \A s \in Rides: RiderOf[s] = RiderOf[r] => ride[s].status # "requested"
  /\ \A g \in Procs: call[g].at \in {"apply", "book"} => RiderOf[RideOfCall(g)] # RiderOf[r]
  /\ promo =>
       /\ promoLock = None
       /\ timesUsed < MaxUses
       /\ \A s \in Rides: RiderOf[s] = RiderOf[r] => usage[s] \in {"none", "VOID"}
  /\ promoLock' = IF promo THEN h ELSE promoLock
  /\ Begin(h, [at |-> "apply", ride |-> r, promo |-> promo, amount |-> 0])
  /\ UNCHANGED <<walletVars, ride, usage, timesUsed, referral, background, crashes>>

Remaining(h) == Fare - (IF call[h].promo THEN Discount ELSE 0)

\* CreditsService.applyToRide reads the balance on the pool, outside the
\* booking transaction, and takes at most what the rider asked for.
RequestReadCredits(h) ==
  /\ call[h].at = "apply"
  /\ \E asked \in {0, Fare}:
       StepWith(h, "book", Min2(asked, Min2(balance[Credits(RideOfCall(h))], Remaining(h))))
  /\ UNCHANGED <<walletVars, ride, usage, timesUsed, promoLock, referral, calls, background, crashes>>

\* Mutant of DueAfter: final_payment_cents ignores the credits.
DueIgnoringCredits(h) == Remaining(h)

\* final_payment_cents.
DueAfter(h) == Remaining(h) - call[h].amount

FreePromo(h) == promoLock' = IF promoLock = h THEN None ELSE promoLock

\* The debit, the usage row, the ride row and COMMIT.
RequestCommit(h) ==
  LET r == RideOfCall(h)
      amount == call[h].amount
      e == [key |-> <<"ride-applied", r>>, account |-> Credits(r), amount |-> -amount] IN
  /\ call[h].at = "book"
  /\ \/ /\ amount = 0
        /\ UNCHANGED walletVars
     \/ /\ amount > 0
        /\ PostInCallersTx(e)
  /\ ride' = [ride EXCEPT ![r] = [status |-> "requested", credits |-> amount,
                                  due |-> DueAfter(h), paid |-> 0, refunded |-> FALSE]]
  /\ usage' = [usage EXCEPT ![r] = IF call[h].promo THEN "APPLIED" ELSE @]
  /\ FreePromo(h)
  /\ Step(h, "mark")
  /\ UNCHANGED <<timesUsed, referral, calls, background, crashes>>

\* The credits are gone by the time of the debit: the whole booking rolls back.
RequestRollback(h) ==
  LET r == RideOfCall(h)
      e == [key |-> <<"ride-applied", r>>, account |-> Credits(r), amount |-> -call[h].amount] IN
  /\ call[h].at = "book"
  /\ Uncontended(e)
  /\ balance[e.account] + e.amount < 0
  /\ FreePromo(h)
  /\ Finish(h)
  /\ UNCHANGED <<walletVars, ride, usage, timesUsed, referral, calls, background, crashes>>

\* ReferralService.markFirstRideRequested.
RequestMark(h) ==
  LET u == RiderOf[RideOfCall(h)] IN
  /\ call[h].at = "mark"
  /\ referral' = [referral EXCEPT ![u] = IF @ = "LINKED" THEN "FIRST_RIDE_PENDING" ELSE @]
  /\ Finish(h)
  /\ UNCHANGED <<walletVars, ride, usage, timesUsed, promoLock, calls, background, crashes>>

-----------------------------------------------------------------------------
(* Completion: the payment block of RideService.updateTripStatus.          *)

CompleteRide(h, r) ==
  /\ ride[r].status = "requested"
  /\ ride' = [ride EXCEPT ![r].status = "completed"]
  /\ Begin(h, Operation(IF ride[r].due > 0 THEN "charge" ELSE "award", r))
  /\ background' = [background EXCEPT ![r] = IF ride[r].due > 0 THEN @ ELSE "finalize"]
  /\ UNCHANGED <<walletVars, usage, timesUsed, promoLock, referral, crashes>>

\* RewardEngine.onRideCompleted starts and is not awaited.
ToAward(h) ==
  /\ Step(h, "award")
  /\ background' = [background EXCEPT ![RideOfCall(h)] = "finalize"]

\* WalletService.chargeForRide: the balance is read, then as much of the due as
\* it covers is posted.
ChargeRead(h) ==
  LET r == RideOfCall(h)
      amount == Min2(ride[r].due, balance[Wallet(r)]) IN
  /\ call[h].at = "charge"
  /\ \/ /\ amount = 0
        /\ ToAward(h)
        /\ UNCHANGED post
     \/ /\ amount > 0
        /\ StepWith(h, "charging", amount)
        /\ Call(h, [key |-> <<"wallet-charge", r>>, account |-> Wallet(r), amount |-> -amount])
        /\ UNCHANGED background
  /\ UNCHANGED <<balance, entries, tx, strays, ride, usage, timesUsed, promoLock, referral, calls, crashes>>

\* Mutant of ChargeDone: the payment is not written to the ride.
ChargeDoneUnrecorded(h) ==
  /\ call[h].at = "charging"
  /\ post[h].at \in {"applied", "refused"}
  /\ ToAward(h)
  /\ Return(h)
  /\ UNCHANGED <<balance, entries, tx, strays, ride, usage, timesUsed, promoLock, referral, calls, crashes>>

\* A refused debit is only logged: nothing more is charged to the wallet.
ChargeDone(h) ==
  /\ call[h].at = "charging"
  /\ \/ /\ post[h].at = "applied"
        /\ Step(h, "record")
        /\ UNCHANGED background
     \/ /\ post[h].at = "refused"
        /\ ToAward(h)
  /\ Return(h)
  /\ UNCHANGED <<balance, entries, tx, strays, ride, usage, timesUsed, promoLock, referral, calls, crashes>>

\* UPDATE rides SET wallet_payment_cents.
ChargeRecord(h) ==
  /\ call[h].at = "record"
  /\ ride' = [ride EXCEPT ![RideOfCall(h)].paid = call[h].amount]
  /\ ToAward(h)
  /\ UNCHANGED <<walletVars, usage, timesUsed, promoLock, referral, calls, crashes>>

\* CreditsService.awardRideCompletion.
AwardPost(h) ==
  LET r == RideOfCall(h) IN
  /\ call[h].at = "award"
  /\ Call(h, [key |-> <<"ride-completion-reward", r>>, account |-> Credits(r), amount |-> Award])
  /\ Step(h, "awarding")
  /\ UNCHANGED <<balance, entries, tx, strays, ride, usage, timesUsed, promoLock, referral,
                 calls, background, crashes>>

\* The result of an award, a refund's predecessor or a grant is not used.
AwardDone(h) ==
  /\ call[h].at \in {"awarding", "granting"}
  /\ post[h].at \in {"applied", "refused"}
  /\ Return(h)
  /\ Finish(h)
  /\ UNCHANGED <<balance, entries, tx, strays, ride, usage, timesUsed, promoLock, referral,
                 calls, background, crashes>>

\* Mutant of FinalizePromo: every completion counts, with or without a usage row.
FinalizePromoAlways(r) ==
  /\ background[r] = "finalize"
  /\ usage' = [usage EXCEPT ![r] = IF @ = "APPLIED" THEN "USED" ELSE @]
  /\ timesUsed' = timesUsed + 1
  /\ background' = [background EXCEPT ![r] = "referral"]
  /\ UNCHANGED <<walletVars, ride, promoLock, referral, call, calls, crashes>>

\* finalizePromoForCompletedRide: one transaction.  The partner commission is
\* conditioned on a column the query does not select, so it is never accrued.
FinalizePromo(r) ==
  /\ background[r] = "finalize"
  /\ promoLock = None \/ usage[r] # "APPLIED"
  /\ usage' = [usage EXCEPT ![r] = IF @ = "APPLIED" THEN "USED" ELSE @]
  /\ timesUsed' = timesUsed + (IF usage[r] = "APPLIED" THEN 1 ELSE 0)
  /\ background' = [background EXCEPT ![r] = "referral"]
  /\ UNCHANGED <<walletVars, ride, promoLock, referral, call, calls, crashes>>

\* Both transactions of a referral post only a positive REFERRAL_REWARD_CENTS.
Pays == Bonus \in Nat \ {0}

\* Mutant of ReferralReward: the relationship is not marked as rewarded.
ReferralRewardUnmarked(r) ==
  LET u == RiderOf[r] IN
  /\ background[r] = "referral"
  /\ background' = [background EXCEPT ![r] = "none"]
  /\ referral[u] \in {"LINKED", "FIRST_RIDE_PENDING", "FIRST_RIDE_COMPLETED"}
  /\ referral' = [referral EXCEPT ![u] = "FIRST_RIDE_COMPLETED"]
  /\ PostInCallersTx([key |-> <<"referral", u>>, account |-> <<Referrer, "credits">>, amount |-> Bonus])
  /\ UNCHANGED <<ride, usage, timesUsed, promoLock, call, calls, crashes>>

\* processFirstRideCompleted: one transaction, which grants the referrer's
\* reward for the first completed ride of a referred rider, unless the install
\* is blocked (the ride is noted) or the rider's e-mail is a test one (it is
\* not).  Riders may change their e-mail, which the model does not follow.
ReferralReward(r) ==
  LET u == RiderOf[r]
      e == [key |-> <<"referral", u>>, account |-> <<Referrer, "credits">>, amount |-> Bonus] IN
  /\ background[r] = "referral"
  /\ background' = [background EXCEPT ![r] = "none"]
  /\ \/ /\ \/ ~ Pays
           \/ referral[u] \notin {"LINKED", "FIRST_RIDE_PENDING", "FIRST_RIDE_COMPLETED"}
           \/ \E s \in Rides \ {r}: RiderOf[s] = u /\ ride[s].status = "completed"
        /\ UNCHANGED <<walletVars, referral>>
     \/ /\ Pays
        /\ referral[u] \in {"LINKED", "FIRST_RIDE_PENDING", "FIRST_RIDE_COMPLETED"}
        /\ \A s \in Rides \ {r}: RiderOf[s] = u => ride[s].status # "completed"
        /\ \/ UNCHANGED <<walletVars, referral>>
           \/ /\ referral' = [referral EXCEPT ![u] = "FIRST_RIDE_COMPLETED"]
              /\ UNCHANGED walletVars
           \/ /\ PostInCallersTx(e)
              /\ referral' = [referral EXCEPT ![u] = "REWARD_GRANTED"]
  /\ UNCHANGED <<ride, usage, timesUsed, promoLock, call, calls, crashes>>

-----------------------------------------------------------------------------
(* Cancellation by rider, driver, admin or watchdog, each followed by      *)
(* RewardEngine.onRideCancelled, and by the matcher, followed by nothing.  *)

CancelRide(h, r) ==
  /\ ride[r].status = "requested"
  /\ ride' = [ride EXCEPT ![r].status = "cancelled"]
  /\ Begin(h, Operation("void", r))
  /\ UNCHANGED <<walletVars, usage, timesUsed, promoLock, referral, background, crashes>>

\* The match job whose retries are used up cancels the ride in the repository:
\* no hook of the rewards hears of it.
MatcherCancel(r) ==
  /\ ride[r].status = "requested"
  /\ ride' = [ride EXCEPT ![r].status = "unmatched"]
  /\ UNCHANGED <<walletVars, usage, timesUsed, promoLock, referral, call, calls, background, crashes>>

\* voidPromoForCancelledRide.
CancelVoid(h) ==
  LET r == RideOfCall(h) IN
  /\ call[h].at = "void"
  /\ usage' = [usage EXCEPT ![r] = IF @ = "APPLIED" THEN "VOID" ELSE @]
  /\ Step(h, "refund")
  /\ UNCHANGED <<walletVars, ride, timesUsed, promoLock, referral, calls, background, crashes>>

\* Mutant of CancelRefund: the refund is posted under the key of the debit.
CancelRefundSameKey(h) ==
  LET r == RideOfCall(h) IN
  /\ call[h].at = "refund"
  /\ ride[r].credits > 0
  /\ Call(h, [key |-> <<"ride-applied", r>>, account |-> Credits(r), amount |-> ride[r].credits])
  /\ Step(h, "refunding")
  /\ UNCHANGED <<balance, entries, tx, strays, ride, usage, timesUsed, promoLock, referral,
                 calls, background, crashes>>

\* The credits of a ride that has some and is not stamped yet: refundRide takes
\* the amount from the RIDE_APPLIED row.
CancelRefund(h) ==
  LET r == RideOfCall(h)
      applied == {e \in entries: e.key = <<"ride-applied", r>>} IN
  /\ call[h].at = "refund"
  /\ \/ /\ ride[r].credits = 0 \/ ride[r].refunded
        /\ Finish(h)
        /\ UNCHANGED post
     \/ /\ ride[r].credits > 0
        /\ ~ ride[r].refunded
        /\ \E e \in applied:
             Call(h, [key |-> <<"ride-refund", r>>, account |-> Credits(r), amount |-> -e.amount])
        /\ Step(h, "refunding")
  /\ UNCHANGED <<balance, entries, tx, strays, ride, usage, timesUsed, promoLock, referral,
                 calls, background, crashes>>

\* UPDATE rides SET credits_refunded_at.
CancelStamp(h) ==
  /\ call[h].at = "refunding"
  /\ post[h].at = "applied"
  /\ Return(h)
  /\ ride' = [ride EXCEPT ![RideOfCall(h)].refunded = TRUE]
  /\ Finish(h)
  /\ UNCHANGED <<balance, entries, tx, strays, usage, timesUsed, promoLock, referral, calls, background,
                 crashes>>

-----------------------------------------------------------------------------
(* Operations that race with the above.                                    *)

\* ReferralService.scanReferral: one transaction that links the rider for good
\* and posts the welcome bonus, unless the rider's e-mail is a test one.
ScanReferral(u) ==
  /\ u # Referrer
  /\ referral[u] = "none"
  /\ referral' = [referral EXCEPT ![u] = "LINKED"]
  /\ \/ UNCHANGED walletVars
     \/ /\ Pays
        /\ PostInCallersTx([key |-> <<"referred-signup", u>>, account |-> <<u, "credits">>,
                            amount |-> Bonus])
  /\ UNCHANGED <<ride, usage, timesUsed, promoLock, call, calls, background, crashes>>

\* CreditsService.adminGrant with the dashboard's key, which a double click
\* sends twice, or WalletService.adminGrant, whose key is fresh.
AdminGrant(h, account, amount, key) ==
  LET e == [key |-> <<account[2], key>>, account |-> account, amount |-> amount] IN
  /\ account[2] = "wallet" =>
       /\ \A f \in entries: f.key # e.key
       /\ \A p \in Procs: post[p].entry # None => post[p].entry.key # e.key
       /\ \A p \in Procs: \A f \in tx[p].rows: f.key # e.key
  /\ Begin(h, Operation("granting", None))
  /\ Call(h, e)
  /\ UNCHANGED <<balance, entries, tx, strays, ride, usage, timesUsed, promoLock, referral,
                 background, crashes>>

\* The API process dies with every call and background task in it; dying with
\* none changes nothing.
Crash ==
  /\ (\E h \in Procs: call[h].at # "idle") \/ (\E r \in Rides: background[r] # "none")
  /\ crashes + strays < MaxFaults
  /\ crashes' = crashes + 1
  /\ WalletCrash
  /\ call' = [h \in Procs |-> NoCall]
  /\ background' = [r \in Rides |-> "none"]
  /\ promoLock' = None
  /\ UNCHANGED <<ride, usage, timesUsed, referral, calls>>

-----------------------------------------------------------------------------

Posting(h) == PostStep(h) /\ UNCHANGED rewardVars

Working(h) ==
  \/ RequestReadCredits(h) \/ RequestCommit(h) \/ RequestRollback(h) \/ RequestMark(h)
  \/ ChargeRead(h) \/ ChargeDone(h) \/ ChargeRecord(h) \/ AwardPost(h) \/ AwardDone(h)
  \/ CancelVoid(h) \/ CancelRefund(h) \/ CancelStamp(h)
  \/ Posting(h)

Task(r) == FinalizePromo(r) \/ ReferralReward(r) \/ MatcherCancel(r)

Next ==
  \/ \E h \in Procs:
       \/ \E r \in Rides:
            \/ \E promo \in BOOLEAN: RequestRide(h, r, promo)
            \/ CompleteRide(h, r)
            \/ CancelRide(h, r)
       \/ \E g \in Grants, key \in AdminKeys: AdminGrant(h, g[1], g[2], key)
       \/ Working(h)
       \/ crashes + strays < MaxFaults /\ Stray(h) /\ UNCHANGED rewardVars
  \/ \E r \in Rides: Task(r)
  \/ \E u \in Riders: ScanReferral(u)
  \/ Crash

Spec == Init /\ [][Next]_vars

-----------------------------------------------------------------------------
(* Properties. *)

\* Every variable has its type; no money column of a ride is negative or above the fare.
TypeOK ==
  /\ WalletTypeOK
  /\ ride \in [Rides -> [status: {"none", "requested", "completed", "cancelled", "unmatched"},
                         credits: 0..Fare, due: 0..Fare, paid: 0..Fare, refunded: BOOLEAN]]
  /\ usage \in [Rides -> {"none", "APPLIED", "USED", "VOID"}]
  /\ timesUsed \in Nat
  /\ promoLock \in Procs \cup {None}
  /\ referral \in [Riders -> {"none", "LINKED", "FIRST_RIDE_PENDING", "FIRST_RIDE_COMPLETED",
                              "REWARD_GRANTED"}]
  /\ call \in [Procs -> [at: CallAt, ride: Rides \cup {None}, promo: BOOLEAN, amount: 0..Fare]]
  /\ background \in [Rides -> {"none", "finalize", "referral"}]
  /\ calls \in 0..MaxCalls
  /\ crashes \in 0..MaxFaults

\* What the ledgers took from the rider for ride r.
RideKeys(r) == {<<"ride-applied", r>>, <<"ride-refund", r>>, <<"wallet-charge", r>>}
Taken(rows) == LET debit == [e \in rows |-> -e.amount] IN MapThenSumSet(LAMBDA e: debit[e], rows)
Cost(r) == Taken({e \in entries: e.key \in RideKeys(r)})

Busy(r) == \E h \in Procs: RideOfCall(h) = r
Undisturbed == crashes = 0 /\ strays = 0

\* No ride takes more from its rider than the fare less the promo, however
\* charge, refund and crash interleave.
NoRideOverpaid ==
  \A r \in Rides: Cost(r) <= Fare - (IF usage[r] \in {"APPLIED", "USED"} THEN Discount ELSE 0)

\* "A cancelled ride costs nothing" (reward-engine.service.ts:48), as far as it
\* goes: once a cancellation with its hook is through, what the booking took is
\* back.  A ride the matcher cancels keeps the credits it was booked with
\* (matchRide.ts:76 calls no hook), but never costs more than them.
CancelledCostsNothing ==
  Undisturbed =>
    \A r \in Rides:
      /\ ride[r].status = "cancelled" /\ ~ Busy(r) => Cost(r) = 0
      /\ ride[r].status = "unmatched" => Cost(r) = ride[r].credits

\* The wallet payment on the ride row was really taken, and once the completion
\* is through everything taken is on the row.
PaymentOnRow ==
  strays = 0 =>
    \A r \in Rides:
      LET taken == Taken({e \in entries: e.key = <<"wallet-charge", r>>}) IN
      /\ ride[r].paid \in {0, taken}
      /\ Undisturbed /\ ~ Busy(r) => ride[r].paid = taken

\* Every completed use of the code is counted once, and a rider never holds two
\* live uses.
PromoCounted ==
  /\ timesUsed = Cardinality({r \in Rides: usage[r] = "USED"})
  /\ \A r, s \in Rides:
       r # s /\ RiderOf[r] = RiderOf[s] => ~ {usage[r], usage[s]} \subseteq {"APPLIED", "USED"}
  /\ \A r \in Rides: usage[r] = "USED" => ride[r].status = "completed"

\* The referrer is paid once per referred rider, exactly when the relationship
\* says so, and only for a rider who joined with the code and completed a ride;
\* a welcome bonus is there only for a rider who joined.  Nobody is paid while
\* the reward is not positive.
ReferrerPaidForFirstRide ==
  \A u \in Riders:
    /\ (\E e \in entries: e.key = <<"referral", u>>) <=> referral[u] = "REWARD_GRANTED"
    /\ (\E e \in entries: e.key = <<"referred-signup", u>>) => Pays /\ referral[u] # "none"
    /\ referral[u] = "REWARD_GRANTED" => Pays
    /\ referral[u] \in {"FIRST_RIDE_COMPLETED", "REWARD_GRANTED"} =>
         \E r \in Rides: RiderOf[r] = u /\ ride[r].status = "completed"

=============================================================================
