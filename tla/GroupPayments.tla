--------------------------- MODULE GroupPayments ---------------------------
(***************************************************************************)
(* The money of one group ride: the host's fare quote splits the fare,     *)
(* each participant confirms their own share with ride credits and a card, *)
(* and a quote that is replaced, expires or is cancelled is refunded.      *)
(*                                                                         *)
(* A handler is one request, webhook or sweep; a step of it is one         *)
(* transaction, one statement outside a transaction or one call to Stripe. *)
(* The transactions lock the group's row and run one after the other; the  *)
(* card is charged between two of them, with no lock held.                 *)
(***************************************************************************)
EXTENDS Integers, FiniteSets, FiniteSetsExt

CONSTANTS
  Procs,
  Users,          \* numbers, which order them as their ids do
  None,
  Quotes,         \* rows of ride_group_quotes
  Total,          \* what a quote asks for, in cents
  Methods,        \* split methods the host may choose
  Openings,       \* ride credits a participant may start with
  MaxAttempts,    \* confirmations of one share
  MaxFaults       \* crashes, lost answers and failed calls

ASSUME PaymentsAssumption ==
  /\ IsFiniteSet(Users) /\ Users \subseteq Nat \ {0}
  /\ IsFiniteSet(Quotes)
  /\ Total \in Nat
  /\ Methods \subseteq {"HOST_PAYS", "EQUAL", "DISTANCE", "CUSTOM"}
  /\ Openings \subseteq Nat
  /\ MaxAttempts \in Nat /\ MaxFaults \in Nat

VARIABLES
  group,          \* the ride_groups row
  member,         \* user -> status of the membership, "none" without a row
  quote,          \* quote -> status
  late,           \* quotes whose expires_at has passed
  pay,            \* <<quote, user>> -> the ride_group_payments row
  credits,        \* user -> ride credits
  returned,       \* rows whose credits were posted back, by idempotency key
  charge,         \* <<row, attempt>> -> the stripe_payments row, and the intent at Stripe
  work,           \* handler -> what it is doing
  faults,
  again,          \* history: shares confirmed again while a charge of theirs was open
  raced,          \* history: these, the shares refunded while a charge was open, and
                  \* those whose event was lost or found them naming another charge
  lapsed          \* history: quotes booked after getGroup had read them as expired

moneyVars == <<group, member, quote, late, pay, credits, returned, charge, work, faults, again, raced, lapsed>>

Rows == Quotes \X Users
Attempts == 1..MaxAttempts

Configurable == {"COLLECTING_MEMBERS", "CONFIGURING", "AWAITING_PAYMENT", "READY_TO_REQUEST"}
RideActive == {"DRIVER_MATCHING", "DRIVER_ASSIGNED", "IN_PROGRESS"}
Final == {"COMPLETED", "CANCELLED"}

NoPayment == [status |-> "none", amount |-> 0, credit |-> 0, card |-> 0, charge |-> 0, attempts |-> 0]
NoCharge == [local |-> "none", intent |-> FALSE, stripe |-> "none", event |-> "none"]
Idle == [at |-> "idle", row |-> None, n |-> 0, quote |-> None, todo |-> {}, left |-> {},
         members |-> {}, version |-> 0]

MoneyInit ==
  /\ quote = [q \in Quotes |-> "none"]
  /\ late = {}
  /\ pay = [r \in Rows |-> NoPayment]
  /\ credits \in [Users -> Openings]
  /\ returned = {}
  /\ charge = [a \in Rows \X Attempts |-> NoCharge]
  /\ work = [h \in Procs |-> Idle]
  /\ faults = 0
  /\ again = {}
  /\ raced = {}
  /\ lapsed = {}

On(h, at) == work[h].at = at
Goto(h, at) == work' = [work EXCEPT ![h].at = at]
Rest(h) == work' = [work EXCEPT ![h] = Idle]
Fault == faults < MaxFaults /\ faults' = faults + 1

\* A booking transaction holds the rows of the group and of its quote.
Unlocked == \A h \in Procs: ~ On(h, "book")

Stays == group.status \in Configurable

-----------------------------------------------------------------------------
(* The split of the fare (group-fare.service.ts). *)

Weight(f) == MapThenSumSet(LAMBDA u: f[u], DOMAIN f)

\* Each gets the floor of the exact share; the cents left over go to the
\* largest remainders, equal ones in the order of the ids.
LargestRemainder(f) ==
  LET W == Weight(f)
      base == [u \in DOMAIN f |-> (Total * f[u]) \div W]
      rem == [u \in DOMAIN f |-> (Total * f[u]) % W]
      left == Total - Weight(base)
      Ahead(u) == {v \in DOMAIN f: rem[v] > rem[u] \/ (rem[v] = rem[u] /\ v < u)} IN
  [u \in DOMAIN f |-> IF Cardinality(Ahead(u)) < left THEN base[u] + 1 ELSE base[u]]

\* computeGroupShares: user -> cents.  The distances stand in for the road.
Shares(method, host, participants) ==
  CASE method = "HOST_PAYS" -> {[u \in participants |-> IF u = host THEN Total ELSE 0]}
    [] method = "EQUAL" -> {LargestRemainder([u \in participants |-> 1])}
    [] method = "DISTANCE" -> {LargestRemainder([u \in participants |-> u])}
    [] method = "CUSTOM" -> {f \in [participants -> 0..Total]: Weight(f) = Total}

-----------------------------------------------------------------------------
(* Confirming a share (confirmPayment). *)

Required(q) == {u \in Users: pay[<<q, u>>].amount > 0}

\* recomputeGroupReady, with the payment rows p.
Gate(p, q) ==
  IF quote[q] = "ACTIVE" /\ Stays
    THEN [group EXCEPT !.status =
            IF \A u \in Required(q): p[<<q, u>>].status = "SUCCEEDED"
              THEN "READY_TO_REQUEST" ELSE "AWAITING_PAYMENT"]
    ELSE group

\* Some attempt at r is being charged, or was paid and the row does not say so.
Unsettled(r) ==
  \/ \E h \in Procs: work[h].row = r /\ work[h].at \in {"charge", "record", "recordFailure", "update", "decline"}
  \/ \E n \in Attempts: charge[<<r, n>>].stripe = "paid" /\ pay[r].status # "SUCCEEDED"

MayConfirm(u) ==
  /\ Unlocked /\ Stays
  /\ member[u] = "JOINED"
  /\ group.quote # None /\ quote[group.quote] = "ACTIVE" /\ group.quote \notin late

\* The status of the stripe_payments row that the share names.
Outcome(r) == IF pay[r].charge = 0 THEN "none" ELSE charge[<<r, pay[r].charge>>].local

\* Mutant of Retryable: a share that was paid may be confirmed again.
RetryablePaid(r) == pay[r].status \in {"PENDING", "FAILED", "SUCCEEDED"}

\* A PROCESSING share may be tried again when the charge it names failed (which
\* is that of an earlier attempt, for the column is not cleared) or, when it
\* names none, after two minutes.
Retryable(r) ==
  \/ pay[r].status \in {"PENDING", "FAILED"}
  \/ pay[r].status = "PROCESSING" /\ Outcome(r) \in {"none", "FAILED"}

\* A share of nothing, and one whose charge is known to have succeeded.
ConfirmSettled(u) ==
  LET r == <<group.quote, u>> IN
  /\ MayConfirm(u)
  /\ \/ pay[r].status = "NOT_REQUIRED" /\ UNCHANGED pay
     \/ /\ pay[r].status = "PROCESSING" /\ Outcome(r) = "SUCCEEDED"
        /\ pay' = [pay EXCEPT ![r].status = "SUCCEEDED"]
  /\ group' = Gate(pay', r[1])
  /\ UNCHANGED <<member, quote, late, credits, returned, charge, work, faults, again, raced, lapsed>>

\* The first transaction: the credits, and the attempt that charges the rest.
ConfirmPayment(h, u) ==
  LET r == <<group.quote, u>> IN
  /\ On(h, "idle")
  /\ MayConfirm(u)
  /\ Retryable(r)
  /\ pay[r].attempts < MaxAttempts
  /\ \E useCredits \in BOOLEAN:
       LET n == pay[r].attempts + 1
           applied == IF useCredits /\ pay[r].credit = 0 THEN Min({credits[u], pay[r].amount}) ELSE 0
           credit == pay[r].credit + applied
           card == pay[r].amount - credit IN
       /\ credits' = [credits EXCEPT ![u] = @ - applied]
       /\ pay' = [pay EXCEPT ![r].status = IF card > 0 THEN "PROCESSING" ELSE "SUCCEEDED",
                             ![r].credit = credit, ![r].card = card, ![r].attempts = n]
       /\ work' = [work EXCEPT ![h] = [Idle EXCEPT !.at = IF card > 0 THEN "charge" ELSE "update",
                                                  !.row = r, !.n = IF card > 0 THEN n ELSE 0]]
  /\ again' = IF Unsettled(r) THEN again \cup {r} ELSE again
  /\ raced' = IF Unsettled(r) THEN raced \cup {r} ELSE raced
  /\ group' = Gate(pay', r[1])
  /\ UNCHANGED <<member, quote, late, returned, charge, faults, lapsed>>

\* chargeRiderOffSession up to Stripe's answer.  Without a saved card there is
\* no charge; a lost answer is taken for a failure.
ChargeStripe(h) ==
  LET Made(paid) == charge' = [charge EXCEPT ![<<work[h].row, work[h].n>>] =
        [local |-> "PENDING", intent |-> FALSE, stripe |-> IF paid THEN "paid" ELSE "declined",
         event |-> IF paid THEN "succeeded" ELSE "failed"]] IN
  /\ On(h, "charge")
  /\ \/ Made(TRUE) /\ Goto(h, "record") /\ UNCHANGED faults
     \/ Made(FALSE) /\ Goto(h, "recordFailure") /\ UNCHANGED faults
     \/ Made(TRUE) /\ Goto(h, "recordFailure") /\ Fault
     \/ Goto(h, "decline") /\ UNCHANGED <<charge, faults>>
  /\ UNCHANGED <<group, member, quote, late, pay, credits, returned, again, raced, lapsed>>

\* The answer is written down, over what an event may have written before it,
\* with the id of the intent.  A lost answer had none, and no event writes it.
ChargeUpdate(h) ==
  LET a == <<work[h].row, work[h].n>>
      Record(status, intent) == charge' = [charge EXCEPT ![a] = [@ EXCEPT !.local = status, !.intent = intent]] IN
  /\ \/ On(h, "record") /\ Record("SUCCEEDED", TRUE) /\ Goto(h, "update")
     \/ /\ On(h, "recordFailure")
        /\ \E named \in BOOLEAN: (named => charge[a].stripe = "declined") /\ Record("FAILED", named)
        /\ Goto(h, "decline")
  /\ UNCHANGED <<group, member, quote, late, pay, credits, returned, faults, again, raced, lapsed>>

\* The second transaction, whatever became of the row in the meantime.
ConfirmUpdate(h) ==
  LET r == work[h].row
      n == work[h].n IN
  /\ Unlocked
  /\ \/ On(h, "update") /\ pay' = [pay EXCEPT ![r].status = "SUCCEEDED",
                                              ![r].charge = IF n = 0 THEN @ ELSE n]
     \/ On(h, "decline") /\ pay' = [pay EXCEPT ![r].status = "FAILED",
                                               ![r].charge = IF charge[<<r, n>>] = NoCharge THEN 0 ELSE n]
  /\ group' = Gate(pay', r[1])
  /\ Rest(h)
  /\ UNCHANGED <<member, quote, late, credits, returned, charge, faults, again, raced, lapsed>>

-----------------------------------------------------------------------------
(* Stripe's events (webhook.service.ts, applyVerifiedStripe...). *)

\* The stripe_payments row is updated and the payment row is read: it is found
\* by the charge it names or by the charge's metadata.
ReceiveEvent(h, r, n) ==
  LET c == charge[<<r, n>>]
      known == c.local \in {"SUCCEEDED", "REFUNDED"} IN
  /\ On(h, "idle")
  /\ c.event # "none"
  /\ charge' = [charge EXCEPT ![<<r, n>>].event = "none",
                              ![<<r, n>>].local = IF known THEN @
                                ELSE IF c.event = "succeeded" THEN "SUCCEEDED" ELSE "FAILED"]
  /\ IF \/ pay[r].status = "SUCCEEDED"
        \/ c.event = "failed" /\ pay[r].status = "REFUNDED"
       THEN UNCHANGED work
       ELSE work' = [work EXCEPT ![h] = [Idle EXCEPT !.at = c.event, !.row = r, !.n = n]]
  /\ UNCHANGED <<group, member, quote, late, pay, credits, returned, faults, again, raced, lapsed>>

Named(r, n) == IF pay[r].charge = 0 THEN n ELSE pay[r].charge

\* applyVerifiedStripeSuccess: its transaction.
ApplySuccess(h) ==
  LET r == work[h].row IN
  /\ On(h, "succeeded") /\ Unlocked
  /\ pay' = IF pay[r].status = "REFUNDED" THEN pay
            ELSE [pay EXCEPT ![r].status = "SUCCEEDED", ![r].charge = Named(r, work[h].n)]
  /\ raced' = IF Named(r, work[h].n) # work[h].n THEN raced \cup {r} ELSE raced
  /\ group' = Gate(pay', r[1])
  /\ Rest(h)
  /\ UNCHANGED <<member, quote, late, credits, returned, charge, faults, again, lapsed>>

\* applyVerifiedStripeFailure: its UPDATE, on what may have been paid since.
ApplyFailure(h) ==
  LET r == work[h].row IN
  /\ On(h, "failed") /\ Unlocked
  /\ pay' = IF pay[r].status = "REFUNDED" THEN pay
            ELSE [pay EXCEPT ![r].status = "FAILED", ![r].charge = Named(r, work[h].n)]
  /\ Rest(h)
  /\ UNCHANGED <<group, member, quote, late, credits, returned, charge, faults, again, raced, lapsed>>

-----------------------------------------------------------------------------
(* Refunds. *)

\* Mutant of Refundable: a share that failed keeps the credits it took.
RefundablePaid(r) == pay[r].status \in {"SUCCEEDED", "PROCESSING"}

\* The WHERE clause of every refund.
Refundable(r) ==
  \/ pay[r].status \in {"SUCCEEDED", "PROCESSING"}
  \/ pay[r].status \in {"FAILED", "CANCELLED"} /\ (pay[r].credit > 0 \/ pay[r].charge # 0)

Snapshot(r) == [row |-> r, charge |-> pay[r].charge, credit |-> pay[r].credit]

\* On to the other quotes that are to be refunded.
Onward(quotes) == IF quotes = {} THEN Idle ELSE [Idle EXCEPT !.at = "selectEach", !.left = quotes]

\* Handler h selects the rows to refund; the quotes `rest` come after them.
Select(h, rows, rest) ==
  LET todo == {r \in rows: Refundable(r)} IN
  /\ work' = [work EXCEPT ![h] = IF todo = {} THEN Onward(rest)
                ELSE [Idle EXCEPT !.at = "refund", !.todo = {Snapshot(r): r \in todo}, !.left = rest]]
  /\ raced' = raced \cup {r \in todo: Unsettled(r)}

\* refundQuotePayments.
RefundQuotePayments(h) ==
  /\ On(h, "select")
  /\ Select(h, {work[h].quote} \X Users, {})
  /\ UNCHANGED <<group, member, quote, late, pay, credits, returned, charge, faults, again, lapsed>>

\* refundGroupPaymentsForRide: of all the group's quotes.
RefundGroupPayments(h) ==
  /\ On(h, "selectAll")
  /\ Select(h, Rows, {})
  /\ UNCHANGED <<group, member, quote, late, pay, credits, returned, charge, faults, again, lapsed>>

\* cancelGroup without a ride: the quotes there are, and then one by one.
SelectQuotes(h) ==
  /\ On(h, "selectQuotes")
  /\ work' = [work EXCEPT ![h] = Onward({q \in Quotes: quote[q] # "none"})]
  /\ UNCHANGED <<group, member, quote, late, pay, credits, returned, charge, faults, again, raced, lapsed>>

RefundNextQuote(h) ==
  /\ On(h, "selectEach")
  /\ \E q \in work[h].left: Select(h, {q} \X Users, work[h].left \ {q})
  /\ UNCHANGED <<group, member, quote, late, pay, credits, returned, charge, faults, again, lapsed>>

\* sweepPendingQuoteRefunds.
Sweep(h, q) ==
  /\ On(h, "idle")
  /\ quote[q] \in {"SUPERSEDED", "EXPIRED"}
  /\ \E u \in Users: Refundable(<<q, u>>)
  /\ work' = [work EXCEPT ![h] = [Idle EXCEPT !.at = "select", !.quote = q]]
  /\ UNCHANGED <<group, member, quote, late, pay, credits, returned, charge, faults, again, raced, lapsed>>

\* Handler h goes on to the step `at` with s, or past it.
Take(h, at, s) == work' = [work EXCEPT ![h].at = at, ![h].row = s.row]

Taken(h) == CHOOSE s \in work[h].todo: s.row = work[h].row

Done(h) ==
  LET rest == {s \in work[h].todo: s.row # work[h].row} IN
  work' = [work EXCEPT ![h] = IF rest = {} THEN Onward(work[h].left)
                                ELSE [Idle EXCEPT !.at = "refund", !.todo = rest, !.left = work[h].left]]

\* The row's key at Stripe refunded another charge of it.
KeySpent(s) == \E n \in Attempts \ {s.charge}: charge[<<s.row, n>>].stripe = "refunded"

\* refundPayment, which refunds only what is recorded as collected, and only by
\* the id of its intent.  When it refuses (no id, no Stripe) the credits go back
\* and the row stays as it is; so it does, credits and all, when Stripe answers
\* with an error, as it does to a key that refunded something else.
RefundCharge(h, s) ==
  LET a == <<s.row, s.charge>>
      known == s.charge # 0 /\ charge[a].intent
      collected == known /\ charge[a].local = "SUCCEEDED" IN
  /\ On(h, "refund") /\ s \in work[h].todo
  /\ \/ /\ s.charge = 0 \/ (known /\ ~ collected)
        /\ Take(h, "credit", s)
        /\ UNCHANGED <<charge, faults>>
     \/ /\ s.charge # 0
        /\ Take(h, "creditOnly", s)
        /\ \/ ~ known /\ UNCHANGED faults
           \/ Fault
        /\ UNCHANGED charge
     \/ /\ collected /\ ~ KeySpent(s)
        /\ charge' = [charge EXCEPT ![a].local = "REFUNDED", ![a].stripe = "refunded"]
        /\ Take(h, "credit", s)
        /\ UNCHANGED faults
     \/ /\ collected
        /\ Take(h, "skip", s)
        /\ \/ KeySpent(s) /\ UNCHANGED faults
           \/ Fault
        /\ UNCHANGED charge
  /\ UNCHANGED <<group, member, quote, late, pay, credits, returned, again, raced, lapsed>>

RefundSkipped(h) ==
  /\ On(h, "skip")
  /\ Done(h)
  /\ UNCHANGED <<group, member, quote, late, pay, credits, returned, charge, faults, again, raced, lapsed>>

\* Mutant of RefundCredit: the credits are posted back without a key.
RefundCreditAgain(h) ==
  /\ On(h, "credit") \/ On(h, "creditOnly")
  /\ credits' = [credits EXCEPT ![work[h].row[2]] = @ + Taken(h).credit]
  /\ Goto(h, IF On(h, "credit") THEN "mark" ELSE "skip")
  /\ UNCHANGED <<group, member, quote, late, pay, returned, charge, faults, again, raced, lapsed>>

\* The credits go back once per row.
RefundCredit(h) ==
  LET s == Taken(h) IN
  /\ On(h, "credit") \/ On(h, "creditOnly")
  /\ IF s.credit > 0 /\ s.row \notin returned
       THEN /\ credits' = [credits EXCEPT ![s.row[2]] = @ + s.credit]
            /\ returned' = returned \cup {s.row}
       ELSE UNCHANGED <<credits, returned>>
  /\ Goto(h, IF On(h, "credit") THEN "mark" ELSE "skip")
  /\ UNCHANGED <<group, member, quote, late, pay, charge, faults, again, raced, lapsed>>

RefundMark(h) ==
  /\ On(h, "mark")
  /\ pay' = [pay EXCEPT ![work[h].row].status = "REFUNDED"]
  /\ Done(h)
  /\ UNCHANGED <<group, member, quote, late, credits, returned, charge, faults, again, raced, lapsed>>

-----------------------------------------------------------------------------
(* Expiry, which getGroup notices when it reads the group. *)

Expires(q) ==
  /\ quote[q] = "ACTIVE" /\ q \notin late
  /\ late' = late \cup {q}
  /\ UNCHANGED <<group, member, quote, pay, credits, returned, charge, work, faults, again, raced, lapsed>>

ReadExpired(h, q) ==
  /\ On(h, "idle")
  /\ group.quote = q /\ quote[q] = "ACTIVE" /\ q \in late
  /\ work' = [work EXCEPT ![h] = [Idle EXCEPT !.at = "expire", !.quote = q]]
  /\ UNCHANGED <<group, member, quote, late, pay, credits, returned, charge, faults, again, raced, lapsed>>

\* The two UPDATEs.  The refund follows even when the quote was booked
\* between the read and the UPDATE.
ExpireQuote(h) ==
  LET q == work[h].quote IN
  /\ On(h, "expire") /\ Unlocked
  /\ quote' = IF quote[q] = "ACTIVE" THEN [quote EXCEPT ![q] = "EXPIRED"] ELSE quote
  /\ group' = IF group.status \in Configurable \ {"COLLECTING_MEMBERS"}
                THEN [group EXCEPT !.status = "CONFIGURING", !.quote = None]
                ELSE group
  /\ lapsed' = IF quote[q] = "CONSUMED" THEN lapsed \cup {q} ELSE lapsed
  /\ Goto(h, "select")
  /\ UNCHANGED <<member, late, pay, credits, returned, charge, faults, again, raced>>

\* A handler dies: what it had not committed is lost, and so is an event.
Crash(h) ==
  /\ work[h] # Idle
  /\ Fault
  /\ Rest(h)
  /\ raced' = IF On(h, "succeeded") THEN raced \cup {work[h].row} ELSE raced
  /\ UNCHANGED <<group, member, quote, late, pay, credits, returned, charge, again, lapsed>>

MoneyNext ==
  \/ \E h \in Procs:
       \/ ChargeStripe(h) \/ ChargeUpdate(h) \/ ConfirmUpdate(h)
       \/ ApplySuccess(h) \/ ApplyFailure(h)
       \/ RefundQuotePayments(h) \/ RefundGroupPayments(h)
       \/ SelectQuotes(h) \/ RefundNextQuote(h)
       \/ RefundCredit(h) \/ RefundMark(h) \/ RefundSkipped(h)
       \/ ExpireQuote(h) \/ Crash(h)
       \/ \E u \in Users: ConfirmPayment(h, u)
       \/ \E r \in Rows, n \in Attempts: ReceiveEvent(h, r, n)
       \/ \E q \in Quotes: Sweep(h, q) \/ ReadExpired(h, q)
       \/ \E s \in work[h].todo: RefundCharge(h, s)
  \/ \E u \in Users: ConfirmSettled(u)
  \/ \E q \in Quotes: Expires(q)

=============================================================================
