---------------------------- MODULE Withdrawals ----------------------------
(***************************************************************************)
(* How money enters and leaves a sponsor's budget besides redemptions: the *)
(* Stripe charges that fund it, credited by webhook or reconciliation, and *)
(* the weekly withdrawals, which debit the budget and then refund funding  *)
(* charges until the amount is reached, again and again until it is.       *)
(* Extends Specials, with which it shares the sponsors row.                *)
(***************************************************************************)
EXTENDS Specials, SequencesExt

CONSTANTS
  Charges,        \* payments that fund the budget
  ChargeAmount,
  Withdrawals,
  Amounts,        \* what a withdrawal may ask for
  MaxRuns         \* credits, and refund runs, that are started

ASSUME WithdrawalsAssumption ==
  ChargeAmount \in Nat \ {0} /\ Amounts \subseteq Nat \ {0} /\ MaxRuns \in Nat

VARIABLES
  payment,        \* stripe_payments rows: status, and whether ledger_entry_id is set
  order,          \* the charges by succeeded_at
  credited,       \* the sponsor-funding keys in the ledger
  withdrawal,     \* the sponsor_withdrawals rows
  refund,         \* at Stripe: withdrawal and charge -> cents refunded under their key
  declined,       \* at Stripe: withdrawal -> charges whose refund under the key failed
  run,            \* handler -> the credit or refund run it executes
  runs,
  seen,           \* history: withdrawal -> the charges its last run had to choose from
  reckoned,       \* history: withdrawal -> charge -> what its last run took off the charge
  blind           \* history: withdrawals a run of which missed a charge the run before saw,
                  \* or took off less than the run before

moneyVars == <<payment, order, credited, withdrawal, refund, declined, run, runs, seen, reckoned, blind>>
vars == <<specialVars, moneyVars>>

watched == <<seen, reckoned, blind>>

Idle == [at |-> "idle", id |-> None, already |-> {}, todo |-> <<>>, prior |-> [c \in Charges |-> 0],
         left |-> 0, applied |-> {}]

Init ==
  /\ SpecialsInit
  /\ payment = [c \in Charges |-> [status |-> "none", linked |-> FALSE]]
  /\ order = <<>>
  /\ credited = {}
  /\ withdrawal = [w \in Withdrawals |->
                     [status |-> "none", amount |-> 0, ids |-> {}, thisWeek |-> FALSE]]
  /\ refund = [w \in Withdrawals |-> [c \in Charges |-> 0]]
  /\ declined = [w \in Withdrawals |-> {}]
  /\ run = [h \in Procs |-> Idle]
  /\ runs = 0
  /\ seen = [w \in Withdrawals |-> <<>>]
  /\ reckoned = [w \in Withdrawals |-> [c \in Charges |-> 0]]
  /\ blind = {}

RunAt(h, at) == run[h].at = at
EndRun(h) == run' = [run EXCEPT ![h] = Idle]
Runnable == runs < MaxRuns /\ runs' = runs + 1
Credit(amount) ==
  sponsor' = [sponsor EXCEPT !.remaining = @ + amount, !.initial = @ + amount]

noRedemption == <<redemption, redeemed, released, adjusted, ride, funded, billed, call, leaked,
                  adjusts>>

Total(f, S) == MapThenSumSet(LAMBDA x: f[x], S)

-----------------------------------------------------------------------------
\* Funding

\* Stripe collects the payment of a checkout session.
Pay(c) ==
  /\ payment[c].status = "none"
  /\ payment' = [payment EXCEPT ![c].status = "PENDING"]
  /\ UNCHANGED <<specialVars, order, credited, withdrawal, refund, declined, run, runs, watched>>

\* applySponsorBudgetTopup, from a webhook or from reconcilePayment, up to its claim.
TopupClaim(h, c) ==
  /\ RunAt(h, "idle")
  /\ Runnable
  /\ \/ payment[c].status \in {"PENDING", "FAILED", "PROCESSING"}
     \/ payment[c].status = "SUCCEEDED" /\ ~ payment[c].linked
  /\ payment' = [payment EXCEPT ![c].status = "PROCESSING"]
  /\ run' = [run EXCEPT ![h].at = "credit", ![h].id = c]
  /\ UNCHANGED <<specialVars, order, credited, withdrawal, refund, declined, watched>>

\* Mutant of Fresh: the ledger's idempotency key is not looked at.
FreshAlways(c) == TRUE

Fresh(c) == c \notin credited

\* creditFundedBudget, one transaction.
CreditFundedBudget(h) ==
  LET c == run[h].id IN
  /\ RunAt(h, "credit")
  /\ IF Fresh(c)
       THEN Credit(ChargeAmount) /\ credited' = credited \cup {c} /\ run' = [run EXCEPT ![h].at = "link"]
       ELSE UNCHANGED <<sponsor, credited>> /\ run' = [run EXCEPT ![h].at = "unlink"]
  /\ UNCHANGED <<noRedemption, faults, payment, order, withdrawal, refund, declined, runs, watched>>

\* The entry's id is stored, or the NULL of an entry that was there before.
TopupMark(h) ==
  /\ \/ RunAt(h, "link") \/ RunAt(h, "unlink")
  /\ payment' = [payment EXCEPT ![run[h].id] = [status |-> "SUCCEEDED", linked |-> RunAt(h, "link")]]
  /\ order' = Append(Remove(order, run[h].id), run[h].id)
  /\ EndRun(h)
  /\ UNCHANGED <<specialVars, credited, withdrawal, refund, declined, runs, watched>>

\* The credit fails and the catch branch makes the row claimable.
TopupFailed(h) ==
  /\ RunAt(h, "credit")
  /\ Fault
  /\ payment' = [payment EXCEPT ![run[h].id].status = IF @ = "PROCESSING" THEN "FAILED" ELSE @]
  /\ EndRun(h)
  /\ UNCHANGED <<sponsor, noRedemption, order, credited, withdrawal, refund, declined, runs, watched>>

-----------------------------------------------------------------------------
\* Withdrawing

Withdrawable(a) == Spendable >= a

\* No PENDING or COMPLETED withdrawal was requested this week.
WindowOpen ==
  \A w \in Withdrawals: withdrawal[w].thisWeek => withdrawal[w].status \notin {"PENDING", "COMPLETED"}

RunFor(h, w) ==
  run' = [run EXCEPT ![h].at = "plan", ![h].id = w]

\* requestSponsorWithdrawal: the transaction holds the sponsors row, so that
\* nothing changes between its checks and its writes.
RequestWithdrawal(h, w, a) ==
  /\ RunAt(h, "idle")
  /\ withdrawal[w].status = "none"
  /\ \E c \in Charges: payment[c].status = "SUCCEEDED"
  /\ WindowOpen
  /\ Withdrawable(a)
  /\ Credit(-a)
  /\ withdrawal' = [withdrawal EXCEPT ![w] =
                      [status |-> "PENDING", amount |-> a, ids |-> {}, thisWeek |-> TRUE]]
  /\ RunFor(h, w)
  /\ UNCHANGED <<noRedemption, faults, payment, order, credited, refund, declined, runs, watched>>

\* A Monday.
NewWeek ==
  /\ \E w \in Withdrawals: withdrawal[w].thisWeek
  /\ withdrawal' = [w \in Withdrawals |-> [withdrawal[w] EXCEPT !.thisWeek = FALSE]]
  /\ UNCHANGED <<specialVars, payment, order, credited, refund, declined, run, runs, watched>>

\* sweepSponsorWithdrawals, in any of the API's processes.
Sweep(h, w) ==
  /\ RunAt(h, "idle")
  /\ Runnable
  /\ withdrawal[w].status \in {"PENDING", "FAILED"}
  /\ RunFor(h, w)
  /\ UNCHANGED <<specialVars, payment, order, credited, withdrawal, refund, declined, watched>>

\* The withdrawals, other than w, whose refund_ids name the charge.
Prior(w, c) ==
  Cardinality({v \in Withdrawals \ {w}: withdrawal[v].status = "COMPLETED" /\ c \in withdrawal[v].ids})

Earlier(c, d) == \E i, j \in DOMAIN order: i < j /\ order[i] = c /\ order[j] = d

\* The charges that may be refunded, by succeeded_at.
Candidates ==
  {s \in SetToSeqs({c \in Charges: payment[c].status = "SUCCEEDED"}):
     \A i, j \in DOMAIN s: i < j => Earlier(s[i], s[j])}

\* The three queries executeSponsorWithdrawalRefunds starts with.
Plan(h) ==
  LET w == run[h].id
      prior == [c \in Charges |-> Prior(w, c)]
  IN
  /\ RunAt(h, "plan")
  /\ \E candidates \in Candidates:
       /\ run' = [run EXCEPT ![h] =
                    [at |-> "refund", id |-> w, already |-> withdrawal[w].ids, todo |-> candidates,
                     prior |-> prior, left |-> withdrawal[w].amount, applied |-> {}]]
       /\ seen' = [seen EXCEPT ![w] = candidates]
       /\ blind' = IF IsPrefix(seen[w], candidates) /\ \A c \in Charges: reckoned[w][c] <= prior[c]
                     THEN blind ELSE blind \cup {w}
  /\ reckoned' = [reckoned EXCEPT ![w] = prior]
  /\ UNCHANGED <<specialVars, payment, order, credited, withdrawal, refund, declined, runs>>

\* refundable: what a COMPLETED withdrawal took off the charge counts one cent.
Refundable(h, c) == ChargeAmount - run[h].prior[c]

Smaller(a, b) == IF a <= b THEN a ELSE b

RefundAmount(h, c) == IF Refundable(h, c) > 0 THEN Smaller(Refundable(h, c), run[h].left) ELSE 0

NextCharge(h, c) == RunAt(h, "refund") /\ run[h].left > 0 /\ run[h].todo # <<>> /\ c = Head(run[h].todo)

\* The run goes on after charge c, of which it counts the amount.
Counted(h, c, amount) ==
  run' = [run EXCEPT ![h].todo = Tail(@), ![h].left = @ - amount,
                     ![h].applied = IF amount > 0 THEN @ \cup {c} ELSE @]

\* An earlier run of the withdrawal refunded the charge, or nothing is left of it.
Known(h, c) == c \in run[h].already \/ RefundAmount(h, c) = 0

CountKnown(h, c) ==
  /\ NextCharge(h, c)
  /\ Known(h, c)
  /\ Counted(h, c, RefundAmount(h, c))
  /\ UNCHANGED <<specialVars, payment, order, credited, withdrawal, refund, declined, runs, watched>>

\* At Stripe: what withdrawals together took off the charge.
Taken(c) == Total([w \in Withdrawals |-> refund[w][c]], Withdrawals)

\* Mutant of Replays: no idempotency key is sent.
ReplaysNever(w, c) == FALSE

\* The key of withdrawal and charge was used before.
Replays(w, c) == refund[w][c] > 0

\* Stripe: a key is answered as before, when the amount is as before.
Grants(w, c, amount) ==
  IF Replays(w, c) THEN refund[w][c] = amount ELSE Taken(c) + amount <= ChargeAmount

Refund(w, c, amount) ==
  refund' = IF Replays(w, c) THEN refund ELSE [refund EXCEPT ![w][c] = @ + amount]

\* At Stripe: the refund may fail, and its key is answered so ever after.
Declines(w, c) == ~ Replays(w, c) /\ declined' = [declined EXCEPT ![w] = @ \cup {c}]

GiveUp(h) == run' = [run EXCEPT ![h].todo = <<>>]

\* createRefund, and how it answers: pending or succeeded, which is counted;
\* another status, which is not; or an exception, which ends the run, as it does
\* when the answer is lost or the key comes with another amount.
CreateRefund(h, c) ==
  LET w == run[h].id
      amount == RefundAmount(h, c)
  IN
  /\ NextCharge(h, c)
  /\ ~ Known(h, c)
  /\ \/ /\ c \notin declined[w] /\ Grants(w, c, amount) /\ Refund(w, c, amount)
        /\ \/ Counted(h, c, amount) /\ UNCHANGED faults
           \/ GiveUp(h) /\ Fault
        /\ UNCHANGED declined
     \/ /\ Declines(w, c)
        /\ Counted(h, c, 0) /\ UNCHANGED <<refund, faults>>
     \/ /\ c \in declined[w] \/ ~ Grants(w, c, amount)
        /\ GiveUp(h) /\ UNCHANGED <<refund, declined, faults>>
  /\ UNCHANGED <<sponsor, noRedemption, payment, order, credited, withdrawal, runs, watched>>

Outcome(h) == IF run[h].left <= 0 THEN "COMPLETED" ELSE "FAILED"

\* The row is written, whatever became of it meanwhile.
RefundsEnd(h) ==
  /\ RunAt(h, "refund")
  /\ run[h].left <= 0 \/ run[h].todo = <<>>
  /\ withdrawal' = [withdrawal EXCEPT ![run[h].id].status = Outcome(h), ![run[h].id].ids = run[h].applied]
  /\ EndRun(h)
  /\ UNCHANGED <<specialVars, payment, order, credited, refund, declined, runs, watched>>

\* The webhook charge.refunded, which a refund of any part of the charge sends.
ChargeRefunded(c) ==
  /\ Taken(c) > 0
  /\ payment[c].status = "SUCCEEDED"
  /\ payment' = [payment EXCEPT ![c].status = "REFUNDED"]
  /\ UNCHANGED <<specialVars, order, credited, withdrawal, refund, declined, run, runs, watched>>

RunCrash(h) ==
  /\ run[h] # Idle
  /\ Fault
  /\ EndRun(h)
  /\ UNCHANGED <<sponsor, noRedemption, payment, order, credited, withdrawal, refund, declined, runs, watched>>

-----------------------------------------------------------------------------
MoneyNext ==
  \/ \E c \in Charges: Pay(c) \/ ChargeRefunded(c)
  \/ NewWeek
  \/ \E h \in Procs:
       \/ \E c \in Charges: TopupClaim(h, c) \/ CountKnown(h, c) \/ CreateRefund(h, c)
       \/ CreditFundedBudget(h) \/ TopupMark(h) \/ TopupFailed(h)
       \/ \E w \in Withdrawals: Sweep(h, w) \/ \E a \in Amounts: RequestWithdrawal(h, w, a)
       \/ Plan(h) \/ RefundsEnd(h) \/ RunCrash(h)

Next == (SpecialsNext /\ UNCHANGED moneyVars) \/ MoneyNext

Spec == Init /\ [][Next]_vars

-----------------------------------------------------------------------------
\* Every variable has its type; no column of the sponsors row goes below zero.
TypeOK ==
  /\ SpecialsTypeOK
  /\ payment \in [Charges -> [status: {"none", "PENDING", "PROCESSING", "SUCCEEDED", "FAILED", "REFUNDED"},
                              linked: BOOLEAN]]
  /\ order \in Seq(Charges)
  /\ credited \subseteq Charges
  /\ withdrawal \in [Withdrawals -> [status: {"none", "PENDING", "COMPLETED", "FAILED"},
                                     amount: Amounts \cup {0}, ids: SUBSET Charges, thisWeek: BOOLEAN]]
  /\ refund \in [Withdrawals -> [Charges -> Nat]]
  /\ declined \in [Withdrawals -> SUBSET Charges]
  /\ \A h \in Procs: run[h].at \in {"idle", "credit", "link", "unlink", "plan", "refund"}
  /\ runs \in 0..MaxRuns
  /\ seen \in [Withdrawals -> Seq(Charges)] /\ blind \subseteq Withdrawals
  /\ reckoned \in [Withdrawals -> [Charges -> Nat]]

Discounted == [r \in Redemptions |-> Discount(r)]
Withdrawn == Total([w \in Withdrawals |-> withdrawal[w].amount], Withdrawals)

\* The books of the budget: what was funded, adjusted and withdrawn is what
\* remains and what redemptions used (withdrawal.service.ts:302 says it of the
\* sum with the reserved part, which stays in what remains).
BooksBalance ==
  /\ sponsor.initial = sponsor.remaining + sponsor.used
  /\ sponsor.used = Total(Discounted, redeemed)
  /\ \E b \in Openings:
       sponsor.initial = b + adjusted + ChargeAmount * Cardinality(credited) - Withdrawn

\* Redemptions that hold a reservation.
Holding ==
  {r \in Redemptions: Status(r) \in {"RIDE_PENDING", "WAITING_FOR_SPONSOR", "SPONSOR_VALIDATED",
                                     "REWARD_FAILED"}}
Releasing == {call[h].id : h \in {h \in Procs: At(h, "release")}}

\* What is reserved is what open redemptions hold, whoever ends them and however
\* often: nobody releases another rider's reservation, and of a redemption that
\* ended none stays behind except where the release itself was lost.  Open is
\* for good the redemption of a ride that the matcher cancelled.
ReservedIsHeld == sponsor.reserved = Total(Discounted, Holding \cup Releasing \cup leaked)

\* A redemption ends once: the sponsor's budget pays for it, or it is given
\* back, and only then is the rider billed for the rest, if the ride took place
\* and the sponsor never accepted the code.
NeverBothEnds ==
  /\ \A r \in redeemed: Status(r) = "REWARD_COMPLETED" /\ released[r] = 0 /\ r \notin billed
  /\ \A r \in Redemptions: Status(r) = "REWARD_COMPLETED" => r \in redeemed
  /\ \A r \in Redemptions: released[r] <= 1
  /\ \A r \in billed:
       Status(r) \in {"EXPIRED", "CANCELLED"} /\ ride[r] = "COMPLETED" /\ ~ redemption[r].validated

\* Refunds never exceed the withdrawal they belong to, and add up to it once it
\* is COMPLETED, whatever runs, crashes and lost answers there were, unless
\* charge.refunded hid a charge between two runs, or a COMPLETED withdrawal that
\* the first of them took off a charge had become FAILED before the second.
RefundsWithinWithdrawal ==
  \A w \in Withdrawals \ blind:
    LET refunded == Total(refund[w], Charges) IN
    /\ refunded <= withdrawal[w].amount
    /\ withdrawal[w].status = "COMPLETED" => refunded = withdrawal[w].amount

=============================================================================
