------------------------------ MODULE Payouts ------------------------------
(***************************************************************************)
(* A driver's weekly payout: the request that debits the wallet and        *)
(* inserts the row, the Stripe transfer that follows it at once or from    *)
(* the sweep, the webhooks that report on the transfer, and the admin who  *)
(* pays by hand.  A handler is one request or sweep; a step of it is one   *)
(* transaction, one statement or one call to Stripe.                       *)
(***************************************************************************)
EXTENDS Integers, FiniteSets

CONSTANTS
  Handlers,
  NoPayout,
  Requests,       \* rows of table payouts with method ON_DEMAND
  Price,          \* what each request asks for
  Fee,            \* the part of it that is not transferred
  Earnings,       \* what the driver's wallet is credited for a ride
  MaxRides,
  MaxTries,       \* transfers started by the sweep or by an admin
  MaxMishaps      \* crashes and failed calls

VARIABLES
  wallet,         \* driver_wallets.balance_cents
  rides,          \* rides credited
  payout,         \* the rows
  enabled,        \* payouts_enabled of the connected account, at Stripe
  transferred,    \* at Stripe: payouts for whose key a transfer was made
  byHand,         \* payouts an admin paid by hand
  notice,         \* Stripe's events about the transfers, to be delivered
  step,           \* handler -> what it is doing
  tries,
  mishaps

payoutVars == <<wallet, rides, payout, enabled, transferred, byHand, notice, step, tries, mishaps>>

NoRow == [status |-> "none", id |-> FALSE, transfer |-> "none", thisWeek |-> FALSE]
NewRow == [NoRow EXCEPT !.status = "PENDING", !.thisWeek = TRUE]
Resting == [at |-> "idle", id |-> NoPayout]

PayoutsInit ==
  /\ wallet = 0
  /\ rides = 0
  /\ payout = [p \in Requests |-> NoRow]
  /\ enabled \in BOOLEAN
  /\ transferred = {}
  /\ byHand = {}
  /\ notice = {}
  /\ step = [h \in Handlers |-> Resting]
  /\ tries = 0
  /\ mishaps = 0

On(h, at) == step[h].at = at
Move(h, at) == step' = [step EXCEPT ![h].at = at]
Rest(h) == step' = [step EXCEPT ![h] = Resting]
Mishap == mishaps < MaxMishaps /\ mishaps' = mishaps + 1

stripe == <<enabled, transferred, notice>>

\* creditOnRideComplete.
Earn ==
  /\ rides < MaxRides
  /\ rides' = rides + 1
  /\ wallet' = wallet + Earnings
  /\ UNCHANGED <<payout, stripe, byHand, step, tries, mishaps>>

\* The account is verified, or restricted again.
AccountUpdated ==
  /\ enabled' = ~ enabled
  /\ UNCHANGED <<wallet, rides, payout, transferred, notice, byHand, step, tries, mishaps>>

\* The week's payout, whatever became of it: no row ever fails.
CanWithdraw == \A p \in Requests: ~ payout[p].thisWeek

\* requestOnDemandPayout before its transaction.  An unreachable Stripe only
\* defers the question whether the account is enabled.
RequestOnDemandPayout(h) ==
  /\ On(h, "idle")
  /\ CanWithdraw
  /\ wallet >= Price
  /\ \/ enabled /\ UNCHANGED mishaps
     \/ Mishap
  /\ Move(h, "request")
  /\ UNCHANGED <<wallet, rides, payout, stripe, byHand, tries>>

\* Mutant of Grantable: nothing is checked again once the lock is held.
GrantableUnchecked == TRUE

\* assertDriverCanWithdraw again, and the guarded debit.
Grantable == CanWithdraw /\ wallet >= Price

\* Mutant of Debited: only what is transferred is debited.
DebitedNet == wallet - (Price - Fee)

Debited == wallet - Price

\* The transaction, serialised by the driver's advisory lock.
InsertPayout(h) ==
  /\ On(h, "request")
  /\ \/ /\ Grantable
        /\ \E p \in Requests:
             /\ payout[p].status = "none"
             /\ payout' = [payout EXCEPT ![p] = NewRow]
             /\ step' = [step EXCEPT ![h] = [at |-> "verify", id |-> p]]
        /\ wallet' = Debited
     \/ ~ Grantable /\ Rest(h) /\ UNCHANGED <<wallet, payout>>
  /\ UNCHANGED <<rides, stripe, byHand, tries, mishaps>>

\* A Monday.
NewPayoutWeek ==
  /\ ~ CanWithdraw
  /\ payout' = [p \in Requests |-> [payout[p] EXCEPT !.thisWeek = FALSE]]
  /\ UNCHANGED <<wallet, rides, stripe, byHand, step, tries, mishaps>>

\* sweepDriverPayouts, or the admin's transfer button, which refuses only what
\* is PAID with a transfer.
Retry(h, p) ==
  /\ On(h, "idle")
  /\ tries < MaxTries /\ tries' = tries + 1
  /\ payout[p].status \in {"PENDING", "PAID"} /\ ~ payout[p].id
  /\ step' = [step EXCEPT ![h] = [at |-> "verify", id |-> p]]
  /\ UNCHANGED <<wallet, rides, payout, stripe, byHand, mishaps>>

\* transferPayout up to its transfer: a stored transfer is enough, and the
\* account is looked up at Stripe.
VerifyAccount(h) ==
  LET p == step[h].id IN
  /\ On(h, "verify")
  /\ \/ payout[p].id /\ Move(h, "paid") /\ UNCHANGED payout
     \/ ~ payout[p].id /\ enabled /\ Move(h, "transfer") /\ UNCHANGED payout
     \/ ~ payout[p].id /\ ~ enabled /\ Rest(h) /\ payout' = [payout EXCEPT ![p].transfer = "BLOCKED"]
  /\ UNCHANGED <<wallet, rides, stripe, byHand, tries, mishaps>>

\* createTransfer: Stripe makes one transfer per key, and announces it.
AtStripe(p) ==
  /\ transferred' = transferred \cup {p}
  /\ notice' = IF p \in transferred THEN notice ELSE notice \cup {<<p, "created">>}

\* The call to Stripe; when it fails, with or without a transfer made, the
\* catch branch follows.
CreateTransfer(h) ==
  LET p == step[h].id IN
  /\ On(h, "transfer")
  /\ \/ AtStripe(p) /\ Move(h, "store") /\ UNCHANGED mishaps
     \/ AtStripe(p) /\ Move(h, "failed") /\ Mishap
     \/ Move(h, "failed") /\ Mishap /\ UNCHANGED <<transferred, notice>>
  /\ UNCHANGED <<wallet, rides, payout, enabled, byHand, tries>>

StoreTransfer(h) ==
  /\ On(h, "store")
  /\ payout' = [payout EXCEPT ![step[h].id] = [@ EXCEPT !.id = TRUE, !.transfer = "TRANSFERRED"]]
  /\ Move(h, "paid")
  /\ UNCHANGED <<wallet, rides, stripe, byHand, tries, mishaps>>

\* Mutant of AfterFailure: the row is marked PAID whatever the transfer answered.
AfterFailureAnyway(h) == Move(h, "paid")

\* executeDriverPayout asks whether something was transferred.
AfterFailure(h) == Rest(h)

TransferFailed(h) ==
  /\ On(h, "failed")
  /\ payout' = [payout EXCEPT ![step[h].id].transfer = "FAILED"]
  /\ AfterFailure(h)
  /\ UNCHANGED <<wallet, rides, stripe, byHand, tries, mishaps>>

MarkPaid(h) ==
  /\ On(h, "paid")
  /\ payout' = [payout EXCEPT ![step[h].id].status = "PAID"]
  /\ Rest(h)
  /\ UNCHANGED <<wallet, rides, stripe, byHand, tries, mishaps>>

\* markPayoutPaid: the admin paid outside Stripe.
MarkPayoutPaid(p) ==
  /\ payout[p].status = "PENDING"
  /\ payout' = [payout EXCEPT ![p].status = "PAID"]
  /\ byHand' = byHand \cup {p}
  /\ UNCHANGED <<wallet, rides, stripe, step, tries, mishaps>>

\* Stripe takes the transfer back.
TransferReversed(p) ==
  /\ p \in transferred
  /\ Mishap
  /\ notice' = notice \cup {<<p, "reversed">>}
  /\ UNCHANGED <<wallet, rides, payout, enabled, transferred, byHand, step, tries>>

\* applyTransferSuccess and applyTransferFailure find the row by the stored id.
Deliver(n) ==
  LET p == n[1] IN
  /\ notice' = notice \ {n}
  /\ payout' = IF payout[p].id
                 THEN [payout EXCEPT ![p].transfer =
                         IF n[2] = "created" THEN "TRANSFERRED" ELSE "FAILED"]
                 ELSE payout
  /\ UNCHANGED <<wallet, rides, enabled, transferred, byHand, step, tries, mishaps>>

HandlerDies(h) ==
  /\ step[h] # Resting
  /\ Mishap
  /\ Rest(h)
  /\ UNCHANGED <<wallet, rides, payout, stripe, byHand, tries>>

PayoutsNext ==
  \/ Earn \/ AccountUpdated \/ NewPayoutWeek
  \/ \E h \in Handlers:
       \/ RequestOnDemandPayout(h) \/ InsertPayout(h) \/ VerifyAccount(h) \/ CreateTransfer(h)
       \/ StoreTransfer(h) \/ TransferFailed(h) \/ MarkPaid(h) \/ HandlerDies(h)
       \/ \E p \in Requests: Retry(h, p)
  \/ \E p \in Requests: MarkPayoutPaid(p) \/ TransferReversed(p)
  \/ \E n \in notice: Deliver(n)

PayoutsSpec == PayoutsInit /\ [][PayoutsNext]_payoutVars

-----------------------------------------------------------------------------
\* Every variable has its type; the wallet never goes below zero.
PayoutsTypeOK ==
  /\ wallet \in Nat
  /\ rides \in 0..MaxRides
  /\ payout \in [Requests -> [status: {"none", "PENDING", "PAID"}, id: BOOLEAN,
                             transfer: {"none", "BLOCKED", "FAILED", "TRANSFERRED"},
                             thisWeek: BOOLEAN]]
  /\ enabled \in BOOLEAN
  /\ transferred \subseteq Requests /\ byHand \subseteq Requests
  /\ notice \subseteq Requests \X {"created", "reversed"}
  /\ step \in [Handlers -> [at: {"idle", "request", "verify", "transfer", "store", "failed", "paid"},
                         id: Requests \cup {NoPayout}]]
  /\ tries \in 0..MaxTries /\ mishaps \in 0..MaxMishaps

Requested == {p \in Requests: payout[p].status # "none"}

\* The driver withdraws once a week, however many requests pass the check that
\* is made before the lock (withdrawal.service.ts:91).
OnePayoutAWeek == Cardinality({p \in Requests: payout[p].thisWeek}) <= 1

\* What the driver earned is in the wallet or in a payout, also after a crash.
NothingLost == wallet + Price * Cardinality(Requested) = Earnings * rides

\* A payout that is PAID was transferred or paid by hand; a lost answer, a
\* blocked account and a concurrent sweep leave it PENDING.
PaidIsTransferred ==
  \A p \in Requests: payout[p].status = "PAID" => p \in transferred \cup byHand

=============================================================================
