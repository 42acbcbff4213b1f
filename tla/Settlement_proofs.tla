-------------------------- MODULE Settlement_proofs --------------------------
(***************************************************************************)
(* Proofs about Settlement, for any fare, subsidy, earnings and top-up,    *)
(* any handlers, retries and passes, and any disturbances.                 *)
(***************************************************************************)
EXTENDS Settlement, Sums, TLAPS
-----------------------------------------------------------------------------
(* What a handler holds at each of its steps.                              *)

Additionals == {Additional(n) : n \in Attempts}
Answers == {"succeeded", "declined", "requires_action"}
SettledAs == {"PENDING", "PARTIALLY_SETTLED", "SETTLED", "EXCEPTION"}
Owed == (-Fare)..Fare
CallType == [at: CallAt, id: Payments \cup {None}, amount: Owed,
             answer: {None} \cup Answers \cup SettledAs, seen: BookType \cup {None},
             event: Events \cup {None}]
PayType == [status: {"none", "PENDING", "PROCESSING", "REQUIRES_ACTION", "SUCCEEDED", "FAILED"},
            amount: 0..Most(Fare, TopupAmount)]

TypeInv ==
  /\ balance \in [Accounts -> Nat]
  /\ entries \subseteq Wallet!Entry /\ IsFiniteSet(entries)
  /\ special \in {"none", "RIDE_PENDING", "WAITING_FOR_SPONSOR", "REWARD_COMPLETED", "EXPIRED", "CANCELLED"}
  /\ completed \in BOOLEAN
  /\ walletPaid \in 0..Fare
  /\ book \in BookType
  /\ driver \in Nat
  /\ pay \in [Payments -> PayType]
  /\ stripe \in [Payments -> {"none"} \cup Answers]
  /\ event \in [Events -> {"none", "due", "PROCESSING", "FAILED", "PROCESSED"}]
  /\ call \in [Procs -> CallType]
  /\ passes \in 0..MaxPasses
  /\ faults \subseteq {"error", "crash", "lost answer", "early event", "late failure"}

\* An additional charge is for all that its claim found missing.
Whole(c) == c.seen \in BookType /\ c.seen.collected < Fare /\ c.amount = Fare - c.seen.collected

AtCard == {"insert", "stripe", "update"}
AtTopup == {"top-up", "fund", "funded top-up"}
PaidTopup == {<<Topup, "succeeded">>, <<Topup, "session">>}

Stage(c) ==
  /\ c.at \in {"idle", "credit", "wallet", "record", "settle", "claim", "sponsor"} => c.id = None /\ c.event = None
  /\ c.at \in {"idle", "credit", "wallet", "record", "settle"} => c.answer = None
  /\ c.at \in {"true-up", "funded"} =>
       c.id = None /\ c.event = None /\ c.seen \in BookType /\ c.seen.sponsor < Subsidy
  /\ c.at \in {"record"} \cup AtCard => c.amount \in 0..Fare
  /\ c.at \in AtCard => c.event = None /\ (c.id = Charge \/ (c.id \in Additionals /\ Whole(c)))
  /\ c.at = "update" => c.answer \in Answers
  /\ c.at = "settled" => c.event = None /\ c.id = Charge /\ c.answer \in Answers \cup {None}
  /\ c.at = "special" => c.event = None /\ c.id \in {None, Charge}
  /\ c.at \in {"consent", "debit", "attempt"} => c.event = None /\ c.id = None /\ Whole(c)
  /\ c.at = "expired" => c.event = None /\ c.id \in Additionals \cup {None} /\ Whole(c) /\ c.answer \in Answers
  /\ c.at \in AtTopup => (c.id = None /\ c.event = None) \/ (c.id = Topup /\ c.event \in PaidTopup)
  /\ c.at = "row" => \/ c.event = <<c.id, "succeeded">> /\ c.id \in Payments
                     \/ c.event = <<c.id, "failed">> /\ c.id \in Payments \ {Topup}
  /\ c.at \in {"succeeded", "apply"} => c.id \in Payments \ {Topup} /\ c.event = <<c.id, "succeeded">>
  /\ c.at = "apply" => c.seen \in BookType
  /\ c.at = "failed" => c.id \in Additionals /\ c.event = <<c.id, "failed">>
  /\ c.at \in {"recompute", "restate"} =>
       c.id \in Payments \ {Topup} /\ c.event \in {<<c.id, "succeeded">>, <<c.id, "failed">>}
  /\ c.at = "restate" => c.answer \in SettledAs
  /\ c.at = "finish" =>
       \/ c.id = None /\ c.event = None
       \/ c.id \in Payments /\ c.event \in {<<c.id, "succeeded">>, <<c.id, "failed">>, <<c.id, "session">>}

StageInv ==
  \A h \in Procs: Stage(call[h]) /\ (call[h].at \in AtTopup => pay[Topup].status # "none")

-----------------------------------------------------------------------------
(* Payments, what became of them at Stripe, and who says so.               *)

Posted(key) == Wallet!Posted(key)

PayInv ==
  /\ pay[Topup].status # "none" => pay[Topup].amount = TopupAmount
  /\ stripe[Topup] \in {"none", "succeeded"}
  /\ \A id \in Payments:
       /\ stripe[id] # "none" => pay[id].status # "none"
       /\ event[<<id, "succeeded">>] # "none" => stripe[id] = "succeeded"
       /\ event[<<id, "failed">>] # "none" => stripe[id] = "declined"
       /\ pay[id].status = "SUCCEEDED" /\ id # Topup => stripe[id] = "succeeded"
  /\ event[<<Topup, "session">>] # "none" => stripe[Topup] = "succeeded"
  /\ \A e \in entries: e.key = "wallet-topup" \/ e.amount < 0
  /\ \A d, e \in entries: d.key = e.key => d = e

\* What the handlers of a payment know of it.
Knows(h) ==
  LET c == call[h] IN
  /\ c.at = "stripe" => stripe[c.id] = "none" /\ pay[c.id].status # "none" /\ pay[c.id].amount = c.amount
  /\ c.at = "update" => stripe[c.id] # "none" /\ (c.answer = "succeeded" => stripe[c.id] = "succeeded")
  /\ c.at = "settled" /\ c.answer = "succeeded" => stripe[Charge] = "succeeded"
  /\ c.at = "expired" /\ c.answer = "succeeded" /\ c.id # None => stripe[c.id] = "succeeded"
  /\ c.at = "expired" /\ c.id = None => Posted("wallet-additional") /\ c.answer = "succeeded"
  /\ c.event # None => event[c.event] = "PROCESSING"

KnowInv ==
  /\ \A h \in Procs: Knows(h)
  /\ \A g, h \in Procs: g # h =>
       /\ call[g].at = "stripe" /\ call[h].at = "stripe" => call[g].id # call[h].id
       /\ call[g].event # None => call[g].event # call[h].event

-----------------------------------------------------------------------------
(* The ride: one handler completes it, and what the rider pays beyond his  *)
(* share he pays after the Special has ended.                              *)

Completer(h) ==
  \/ call[h].at \in {"credit", "wallet", "record", "settle", "settled", "special"}
  \/ call[h].at \in AtCard /\ call[h].id = Charge
Extra(h) ==
  \/ call[h].at \in {"claim", "consent", "debit", "attempt", "expired"}
  \/ call[h].at \in AtCard /\ call[h].id # Charge
Sponsoring(h) == call[h].at \in {"sponsor", "true-up", "funded"}

Early == special \in {"none", "RIDE_PENDING"}
Ended == special \in {"EXPIRED", "CANCELLED"}

RideInv ==
  /\ \A g, h \in Procs: Completer(g) /\ Completer(h) => g = h
  /\ \A h \in Procs: /\ Completer(h) => completed /\ Early
                     /\ Extra(h) => Ended
                     /\ Sponsoring(h) => special = "REWARD_COMPLETED"
  /\ ~ completed => Early
  /\ book.sponsor > 0 => special = "REWARD_COMPLETED"
  /\ ~ Ended => ~ Posted("wallet-additional") /\ \A id \in Additionals: pay[id].status = "none"

-----------------------------------------------------------------------------
(* The money.                                                              *)

TakenAt(h) ==
  LET c == call[h] IN
  /\ c.at \in {"credit", "wallet"} => Taken = 0
  /\ c.at = "record" => Taken = c.amount
  /\ c.at = "settle" => Taken = walletPaid
  /\ c.at \in {"insert", "stripe"} /\ c.id = Charge => Taken = walletPaid /\ c.amount + walletPaid = Share
  /\ (Extra(h) /\ c.at # "claim") \/ c.at = "apply" => c.seen.collected <= Taken

TakenInv ==
  /\ \A h \in Procs: TakenAt(h)
  /\ ~ completed => Taken = 0
  /\ ~ Ended => Taken <= Share
  /\ walletPaid <= Taken
  /\ book.collected <= Taken
  /\ stripe[Charge] = "succeeded" => Taken >= Share
  /\ Posted("wallet-additional") => Taken >= Fare
  /\ \A id \in Additionals: stripe[id] = "succeeded" => Taken >= Fare

-----------------------------------------------------------------------------
(* The driver.                                                             *)

DriverInv ==
  "error" \notin faults =>
    /\ driver <= Earnings
    /\ ~ completed \/ (\E h \in Procs: call[h].at = "credit") => driver = 0
    /\ ~ Early \/ (\E h \in Procs: call[h].at = "special") => book.driverSettled = Earnings
    /\ \A h \in Procs: call[h].at # "true-up"

-----------------------------------------------------------------------------
(* The events.                                                             *)

\* What an event leaves behind.
Applied(e) ==
  /\ e \in PaidTopup => Posted("wallet-topup")
  /\ e = <<Charge, "succeeded">> => book.chargeIntent = Charge
  /\ e[1] \in Additionals /\ e[2] = "succeeded" => book.additionalIntent # None \/ Posted("wallet-additional")

EventInv ==
  /\ book.status = "COLLECTED" => book.additionalIntent # None \/ Posted("wallet-additional")
  /\ \A e \in Events: event[e] = "PROCESSED" => Applied(e)
  /\ \A h \in Procs: /\ call[h].at \in {"recompute", "restate", "finish"} /\ call[h].event # None => Applied(call[h].event)
                     /\ call[h].at = "funded top-up" => Posted("wallet-topup")

-----------------------------------------------------------------------------
(* With crashes alone.                                                     *)

OnlyCrash == faults \subseteq {"crash"}
Sourced == Posted("wallet-additional") \/ \E id \in Additionals: stripe[id] = "succeeded"

\* The completion died before it was settled.
Orphan == completed /\ Early /\ \A h \in Procs: ~ Completer(h)

Collecting(h) == Extra(h) /\ call[h].at # "claim"
Reporting(h) == call[h].at \in {"row", "succeeded", "apply"} /\ call[h].event # None /\ call[h].event[2] = "succeeded"
Won(h) == call[h].answer = "succeeded"

\* The handler that settles the ride.
SettlerAt(h) ==
  LET c == call[h] IN
  /\ Completer(h) /\ c.at # "special" => book.collected = 0
  /\ c.at = "settle" \/ (c.at \in AtCard \cup {"settled"} /\ c.id = Charge) =>
       Taken = walletPaid \/ (c.at \in {"update", "settled"} /\ Won(h))
  /\ c.at = "special" => Taken <= book.collected /\ (stripe[Charge] = "succeeded" => book.chargeIntent = Charge)
  /\ Completer(h) /\ c.at # "special" /\ stripe[Charge] = "succeeded" => c.at \in {"update", "settled"} /\ Won(h)

\* A webhook that reports a success.
ReporterAt(h) ==
  LET c == call[h] IN
  /\ Reporting(h) /\ c.id = Charge /\ c.at # "apply" => book.chargeIntent = Charge \/ Orphan
  /\ c.at = "apply" /\ c.id = Charge => Orphan /\ c.seen.collected = book.collected
  /\ c.at = "apply" /\ c.id # Charge => c.seen.collected + pay[c.id].amount >= Fare
  /\ Reporting(h) /\ c.id \in Additionals => \A g \in Procs: ~ Collecting(g)

\* A handler that charges what is missing after the Special has ended.
ExtraAt(h) ==
  LET c == call[h] IN
  Collecting(h) =>
    /\ book.status = "PROCESSING"
    /\ IF Sourced THEN c.at \in {"update", "expired"} /\ Won(h) ELSE c.seen.collected = book.collected

MissingInv ==
  /\ \A g, h \in Procs: Collecting(g) /\ Collecting(h) => g = h
  /\ \A c, d \in Additionals: stripe[c] = "succeeded" /\ stripe[d] = "succeeded" => c = d
  /\ Posted("wallet-additional") => \A id \in Additionals: stripe[id] # "succeeded"
  /\ Sourced => Taken <= Fare /\ book.status \in {"PROCESSING", "COLLECTED"}
  /\ \A id \in Additionals: pay[id].status # "none" => book.collected + pay[id].amount >= Fare

SettledInv ==
  /\ ~ completed => book.collected = 0 /\ pay[Charge].status = "none"
  /\ ~ Early => (stripe[Charge] = "succeeded" => book.chargeIntent = Charge)
  /\ ~ Early /\ ~ Sourced => Taken <= book.collected

CrashInv ==
  OnlyCrash =>
    /\ \A h \in Procs: SettlerAt(h) /\ ReporterAt(h) /\ ExtraAt(h)
    /\ MissingInv
    /\ SettledInv

-----------------------------------------------------------------------------
(* Payments and events have distinct names.                                *)

LEMMA Ids ==
  /\ Charge \in Payments /\ Topup \in Payments /\ Charge # Topup
  /\ Payments = {Charge, Topup} \cup Additionals
  /\ Charge \notin Additionals /\ Topup \notin Additionals
  /\ None \notin Payments /\ None \notin Events /\ None \notin Answers
  /\ IsFiniteSet(Payments)
<1>1. Charge # Topup /\ \A n: Additional(n) # Charge /\ Additional(n) # Topup
  BY DEF Charge, Topup, Additional
<1>2. IsFiniteSet(Additionals)
  <2>1. MaxPasses \in Int
    BY SettlementAssumption
  <2>2. IsFiniteSet(Attempts)
    BY <2>1, FS_Interval DEF Attempts
  <2>3. [n \in Attempts |-> Additional(n)] \in Surjection(Attempts, Additionals)
    BY DEF Surjection, Additionals
  <2> QED
    BY <2>2, <2>3, FS_Surjection
<1>3. Payments = {Charge, Topup} \cup Additionals
  BY DEF Payments, Additionals
<1>4. IsFiniteSet({Charge, Topup})
  <2>1. IsFiniteSet({Charge}) /\ IsFiniteSet({Topup})
    BY FS_Singleton
  <2>2. IsFiniteSet({Charge} \cup {Topup})
    BY <2>1, FS_Union
  <2>3. {Charge} \cup {Topup} = {Charge, Topup}
    OBVIOUS
  <2> QED
    BY <2>2, <2>3
<1>5. IsFiniteSet(Payments)
  BY <1>2, <1>3, <1>4, FS_Union
<1> QED
  BY <1>1, <1>3, <1>5, SettlementAssumption DEF Additionals, Answers

LEMMA EventNames ==
  /\ \A id \in Payments: <<id, "succeeded">> \in Events /\ <<id, "failed">> \in Events
  /\ <<Topup, "session">> \in Events
  /\ \A e \in Events: \/ \E id \in Payments: e = <<id, "succeeded">> \/ e = <<id, "failed">>
                      \/ e = <<Topup, "session">>
  /\ \A e \in Events: e[1] \in Payments
  BY Ids DEF Events

LEMMA Numbers ==
  /\ Fare \in Int /\ Subsidy \in Int /\ Earnings \in Int /\ TopupAmount \in Int /\ MaxPasses \in Int
  /\ 0 <= Fare /\ 0 <= Subsidy /\ Subsidy <= Fare /\ 0 <= Earnings /\ 0 < TopupAmount /\ 0 <= MaxPasses
  /\ Share \in Int /\ 0 <= Share /\ Share <= Fare /\ (Share = Fare \/ Share = Fare - Subsidy)
  /\ Most(Fare, TopupAmount) \in Int /\ Fare <= Most(Fare, TopupAmount) /\ TopupAmount <= Most(Fare, TopupAmount)
  BY SettlementAssumption DEF Share, Most

-----------------------------------------------------------------------------
(* A step of a handler leaves the others as they are.                      *)

Turn(h) == call' \in [Procs -> CallType] /\ \A g \in Procs \ {h}: call'[g] = call[g]

LEMMA NoCallType == NoCall \in CallType /\ NoCall.at = "idle" /\ NoCall.id = None /\ NoCall.event = None
                    /\ NoCall.seen = None /\ NoCall.amount = 0 /\ NoCall.answer = None
  BY Numbers DEF NoCall, CallType, CallAt, Owed

LEMMA GotoTurn ==
  ASSUME TypeInv, NEW h \in Procs, NEW at \in CallAt, Goto(h, at)
  PROVE  /\ Turn(h) /\ call'[h].at = at /\ call'[h].id = call[h].id /\ call'[h].amount = call[h].amount
         /\ call'[h].answer = call[h].answer /\ call'[h].seen = call[h].seen /\ call'[h].event = call[h].event
  BY DEF TypeInv, Goto, Turn, CallType

LEMMA FinishTurn ==
  ASSUME TypeInv, NEW h \in Procs, Finish(h)
  PROVE  Turn(h) /\ call'[h] = NoCall
  BY NoCallType DEF TypeInv, Finish, Turn

LEMMA SetTurn ==
  ASSUME TypeInv, NEW h \in Procs, NEW at \in CallAt, NEW id \in Payments \cup {None}, NEW amount \in Owed,
         NEW answer \in {None} \cup Answers \cup SettledAs, NEW seen \in BookType \cup {None},
         NEW e \in Events \cup {None},
         call' = [call EXCEPT ![h] = [at |-> at, id |-> id, amount |-> amount, answer |-> answer,
                                      seen |-> seen, event |-> e]]
  PROVE  /\ Turn(h) /\ call'[h].at = at /\ call'[h].id = id /\ call'[h].amount = amount
         /\ call'[h].answer = answer /\ call'[h].seen = seen /\ call'[h].event = e
  BY DEF TypeInv, Turn, CallType

ToCard(h, at, id, amount) == call' = [call EXCEPT ![h].at = at, ![h].id = id, ![h].amount = amount]

LEMMA CardTurn ==
  ASSUME TypeInv, NEW h \in Procs, NEW at \in CallAt, NEW id \in Payments,
         NEW amount \in Owed, ToCard(h, at, id, amount)
  PROVE  /\ Turn(h) /\ call'[h].at = at /\ call'[h].id = id /\ call'[h].amount = amount
         /\ call'[h].answer = call[h].answer /\ call'[h].seen = call[h].seen /\ call'[h].event = call[h].event
  BY DEF ToCard, TypeInv, Turn, CallType

LEMMA AmountTurn ==
  ASSUME TypeInv, NEW h \in Procs, NEW at \in CallAt,
         NEW amount \in Owed, call' = [call EXCEPT ![h].at = at, ![h].amount = amount]
  PROVE  /\ Turn(h) /\ call'[h].at = at /\ call'[h].id = call[h].id /\ call'[h].amount = amount
         /\ call'[h].answer = call[h].answer /\ call'[h].seen = call[h].seen /\ call'[h].event = call[h].event
  BY DEF TypeInv, Turn, CallType

LEMMA AnswerTurn ==
  ASSUME TypeInv, NEW h \in Procs, NEW at \in CallAt, NEW answer \in Answers \cup SettledAs,
         call' = [call EXCEPT ![h].at = at, ![h].answer = answer]
  PROVE  /\ Turn(h) /\ call'[h].at = at /\ call'[h].id = call[h].id /\ call'[h].amount = call[h].amount
         /\ call'[h].answer = answer /\ call'[h].seen = call[h].seen /\ call'[h].event = call[h].event
  BY DEF TypeInv, Turn, CallType

LEMMA SeenTurn ==
  ASSUME TypeInv, NEW h \in Procs, NEW at \in CallAt,
         call' = [call EXCEPT ![h].at = at, ![h].seen = book]
  PROVE  /\ Turn(h) /\ call'[h].at = at /\ call'[h].id = call[h].id /\ call'[h].amount = call[h].amount
         /\ call'[h].answer = call[h].answer /\ call'[h].seen = book /\ call'[h].event = call[h].event
  BY DEF TypeInv, Turn, CallType

ToClaim(h, at, seen, amount) == call' = [call EXCEPT ![h].at = at, ![h].seen = seen, ![h].amount = amount]

LEMMA ClaimTurn ==
  ASSUME TypeInv, NEW h \in Procs, NEW at \in CallAt, NEW seen \in BookType, NEW amount \in Owed,
         ToClaim(h, at, seen, amount)
  PROVE  /\ Turn(h) /\ call'[h].at = at /\ call'[h].id = call[h].id /\ call'[h].amount = amount
         /\ call'[h].answer = call[h].answer /\ call'[h].seen = seen /\ call'[h].event = call[h].event
  BY DEF ToClaim, TypeInv, Turn, CallType

ToEvent(h, at, e) == call' = [call EXCEPT ![h].at = at, ![h].event = e, ![h].id = e[1]]

LEMMA EventTurn ==
  ASSUME TypeInv, NEW h \in Procs, NEW at \in CallAt, NEW e \in Events, ToEvent(h, at, e)
  PROVE  /\ Turn(h) /\ call'[h].at = at /\ call'[h].id = e[1] /\ call'[h].amount = call[h].amount
         /\ call'[h].answer = call[h].answer /\ call'[h].seen = call[h].seen /\ call'[h].event = e
  BY EventNames DEF ToEvent, TypeInv, Turn, CallType

LEMMA IdTurn ==
  ASSUME TypeInv, NEW h \in Procs, NEW at \in CallAt, NEW id \in Payments,
         call' = [call EXCEPT ![h].at = at, ![h].id = id]
  PROVE  /\ Turn(h) /\ call'[h].at = at /\ call'[h].id = id /\ call'[h].amount = call[h].amount
         /\ call'[h].answer = call[h].answer /\ call'[h].seen = call[h].seen /\ call'[h].event = call[h].event
  BY DEF TypeInv, Turn, CallType

-----------------------------------------------------------------------------
(* Types and stages.                                                       *)

StageAt(h) == Stage(call[h]) /\ (call[h].at \in AtTopup => pay[Topup].status # "none")

HandlerStep(h) ==
  \/ CompleteRide(h) \/ Redeem(h) \/ ReconcileSettled(h)
  \/ \E status \in {"EXPIRED", "CANCELLED"}: EndSpecial(h, status)
  \/ Sweep(h) \/ RetryAdditionalCharge(h) \/ ReconcileTopup(h)
  \/ \E e \in Events: ReceiveEvent(h, e)
  \/ Working(h) \/ Error(h)

LEMMA BookFields ==
  \A b \in BookType:
    /\ b.collected \in Int /\ 0 <= b.collected /\ b.collected <= Fare
    /\ b.sponsor \in {0, Subsidy} /\ b.sponsor \in Int /\ b.driverSettled \in {0, Earnings} /\ b.driverSettled \in Int
    /\ b.chargeIntent \in {None, Charge} /\ b.additionalIntent \in {None} \cup Additionals
  BY SettlementAssumption DEF BookType, Additionals

LEMMA Types ==
  ASSUME TypeInv
  PROVE  /\ book \in BookType /\ call \in [Procs -> CallType] /\ pay \in [Payments -> PayType]
         /\ walletPaid \in Int /\ 0 <= walletPaid /\ walletPaid <= Fare
         /\ balance["rider"] \in Int /\ 0 <= balance["rider"]
         /\ \A h \in Procs: call[h] \in CallType
<1>1. walletPaid \in 0..Fare /\ balance \in [{"rider"} -> Nat]
  BY DEF TypeInv, Accounts
<1>2. walletPaid \in Int /\ 0 <= walletPaid /\ walletPaid <= Fare /\ balance["rider"] \in Int /\ 0 <= balance["rider"]
  BY <1>1, Numbers
<1> QED
  BY <1>2 DEF TypeInv

LEMMA BookNow ==
  ASSUME TypeInv
  PROVE  /\ book.collected \in Int /\ 0 <= book.collected /\ book.collected <= Fare
         /\ book.sponsor \in Int /\ book.sponsor \in {0, Subsidy} /\ book.collected + book.sponsor \in Int
         /\ Fare - book.collected \in Owed
<1>1. book \in BookType
  BY Types
<1>2. book.collected \in Int /\ 0 <= book.collected /\ book.collected <= Fare /\ book.sponsor \in Int /\ book.sponsor \in {0, Subsidy}
  BY <1>1, BookFields
<1> QED
  BY <1>2, Numbers DEF Owed

LEMMA StatusType ==
  ASSUME NEW collected \in Int, NEW pending \in BOOLEAN, NEW exception \in BOOLEAN
  PROVE  StatusFor(collected, pending, exception) \in SettledAs
  BY Numbers DEF StatusFor, SettledAs

LEMMA AnsweredTurn ==
  ASSUME TypeInv, NEW h \in Procs, Stage(call[h]), call[h].at \in AtCard, NEW answer \in Answers, Answered(h, answer)
  PROVE  /\ Turn(h) /\ Stage(call'[h]) /\ call'[h].at = (IF call[h].id = Charge THEN "settled" ELSE "expired")
         /\ call'[h].id = call[h].id /\ call'[h].amount = call[h].amount
         /\ call'[h].answer = answer /\ call'[h].seen = call[h].seen /\ call'[h].event = None
<1>1. PICK at \in CallAt: /\ at = IF call[h].id = Charge THEN "settled" ELSE "expired"
                         /\ call' = [call EXCEPT ![h].at = at, ![h].answer = answer]
  BY DEF CallAt, Answered
<1>2. /\ Turn(h) /\ call'[h].at = at
      /\ call'[h].id = call[h].id /\ call'[h].amount = call[h].amount
      /\ call'[h].answer = answer /\ call'[h].seen = call[h].seen /\ call'[h].event = call[h].event
  <2>1. answer \in Answers \cup SettledAs
    OBVIOUS
  <2>2. call' = [call EXCEPT ![h].at = at, ![h].answer = answer]
    BY <1>1
  <2> QED
    BY <2>1, <2>2, AnswerTurn
<1>3. call[h].event = None /\ (call[h].id = Charge \/ (call[h].id \in Additionals /\ Whole(call[h])))
  BY DEF Stage
<1>4. Whole(call[h]) => Whole(call'[h])
  BY <1>2 DEF Whole
<1>5. call[h].amount \in 0..Fare
  BY DEF Stage
<1>6. answer \in Answers
  OBVIOUS
<1>7. CASE at = "settled"
  BY <1>1, <1>2, <1>3, <1>6, <1>7 DEF Stage, AtCard, AtTopup
<1>8. CASE at = "expired"
  BY <1>1, <1>2, <1>3, <1>4, <1>6, <1>8 DEF Stage, AtCard, AtTopup
<1> QED
  BY <1>1, <1>2, <1>3, <1>7, <1>8

LEMMA StageSteps ==
  ASSUME TypeInv, StageInv, PayInv, NEW h \in Procs, HandlerStep(h)
  PROVE  Turn(h) /\ StageAt(h)'
<1> USE DEF AtCard, AtTopup, StageAt
<1>0. /\ Stage(call[h]) /\ (call[h].at \in AtTopup => pay[Topup].status # "none")
      /\ call[h] \in CallType /\ pay \in [Payments -> PayType]
  BY DEF StageInv, TypeInv
<1>1. ASSUME CompleteRide(h) PROVE Turn(h) /\ StageAt(h)'
  BY <1>0, <1>1, GotoTurn DEF CompleteRide, Begin, Stage, CallAt
<1>2. ASSUME CreditDriver(h) PROVE Turn(h) /\ StageAt(h)'
  BY <1>0, <1>2, GotoTurn DEF CreditDriver, Stage, CallAt
<1>3. ASSUME ChargeWallet(h) PROVE Turn(h) /\ StageAt(h)'
  <2>1. PICK amount: /\ amount = Least(Share, balance["rider"])
                     /\ call' = [call EXCEPT ![h].at = "record", ![h].amount = amount]
    BY <1>3 DEF ChargeWallet
  <2>2. amount \in 0..Fare /\ amount \in Owed
    BY <2>1, Types, Numbers DEF Least, Owed
  <2>3. /\ Turn(h) /\ call'[h].at = "record" /\ call'[h].id = call[h].id /\ call'[h].amount = amount
        /\ call'[h].event = call[h].event /\ call'[h].answer = call[h].answer
    BY <2>1, <2>2, AmountTurn DEF CallAt
  <2> QED
    BY <1>0, <1>3, <2>2, <2>3 DEF ChargeWallet, Stage
<1>4. ASSUME RecordCompletion(h) PROVE Turn(h) /\ StageAt(h)'
  BY <1>0, <1>4, GotoTurn DEF RecordCompletion, Stage, CallAt
<1>5. ASSUME SettleRead(h) PROVE Turn(h) /\ StageAt(h)'
  <2>4. PICK amount: amount = Share - walletPaid
    OBVIOUS
  <2>5. PICK at \in {"insert", "settled"}: at = IF amount > 0 THEN "insert" ELSE "settled"
    OBVIOUS
  <2>1. /\ amount = Share - walletPaid
        /\ call' = [call EXCEPT ![h].at = at, ![h].id = Charge, ![h].amount = amount]
        /\ at = "insert" => amount > 0
    BY <1>5, <2>4, <2>5 DEF SettleRead
  <2>3. amount \in Owed /\ (at = "insert" => amount \in 0..Fare)
    BY <2>1, Types, Numbers DEF Owed
  <2>2. /\ Turn(h) /\ call'[h].at = at /\ call'[h].id = Charge /\ call'[h].amount = amount
        /\ call'[h].event = call[h].event /\ call'[h].answer = call[h].answer
    <3>1. Charge \in Payments /\ at \in CallAt
      BY Ids DEF CallAt
    <3>2. ToCard(h, at, Charge, amount)
      BY <2>1 DEF ToCard
    <3> QED
      BY <2>3, <3>1, <3>2, CardTurn
  <2>6. call[h].event = None /\ call'[h].answer = None
    BY <1>0, <1>5, <2>2 DEF SettleRead, Stage
  <2> QED
    BY <2>1, <2>2, <2>3, <2>5, <2>6 DEF Stage
<1>6. ASSUME SettleWrite(h) PROVE Turn(h) /\ StageAt(h)'
  BY <1>0, <1>6, GotoTurn DEF SettleWrite, Stage, CallAt
<1>7. ASSUME OpenValidation(h) PROVE Turn(h) /\ StageAt(h)'
  BY <1>0, <1>7, FinishTurn, NoCallType DEF OpenValidation, Stage, CallAt
<1>8. ASSUME ChargeInsert(h) PROVE Turn(h) /\ StageAt(h)'
  <2>1. call[h].at \in AtCard /\ call[h].at = "insert"
    BY <1>8 DEF ChargeInsert
  <2>2. CASE \E answer \in Answers: Answered(h, answer)
    BY <1>0, <2>1, <2>2, AnsweredTurn DEF Stage
  <2>3. CASE Goto(h, "stripe")
    <3>1. /\ Turn(h) /\ call'[h].at = "stripe" /\ call'[h].id = call[h].id /\ call'[h].amount = call[h].amount
          /\ call'[h].seen = call[h].seen /\ call'[h].event = call[h].event
      BY <2>3, GotoTurn DEF CallAt
    <3>2. Whole(call[h]) => Whole(call'[h])
      BY <3>1 DEF Whole
    <3> QED
      BY <1>0, <2>1, <3>1, <3>2 DEF Stage
  <2> QED
    BY <1>8, <2>2, <2>3 DEF ChargeInsert, Answers
<1>9. ASSUME ChargeStripe(h) PROVE Turn(h) /\ StageAt(h)'
  <2>1. PICK answer \in Answers: call' = [call EXCEPT ![h].at = "update", ![h].answer = answer]
    BY <1>9 DEF ChargeStripe, Answers
  <2>2. /\ Turn(h) /\ call'[h].at = "update" /\ call'[h].id = call[h].id /\ call'[h].amount = call[h].amount
        /\ call'[h].answer = answer /\ call'[h].seen = call[h].seen /\ call'[h].event = call[h].event
    BY <2>1, AnswerTurn DEF CallAt
  <2>3. Whole(call[h]) => Whole(call'[h])
    BY <2>2 DEF Whole
  <2> QED
    BY <1>0, <1>9, <2>2, <2>3 DEF ChargeStripe, Stage
<1>10. ASSUME ChargeUpdate(h) PROVE Turn(h) /\ StageAt(h)'
  <2>1. call[h].at = "update" /\ Answered(h, call[h].answer)
    BY <1>10 DEF ChargeUpdate
  <2> QED
    BY <1>0, <2>1, AnsweredTurn DEF Stage
<1>11. ASSUME Redeem(h) PROVE Turn(h) /\ StageAt(h)'
  BY <1>0, <1>11, GotoTurn DEF Redeem, Begin, Stage, CallAt
<1>12. ASSUME ReconcileSettled(h) PROVE Turn(h) /\ StageAt(h)'
  BY <1>0, <1>12, GotoTurn DEF ReconcileSettled, Begin, Pass, Stage, CallAt
<1>13. ASSUME SponsorRead(h) PROVE Turn(h) /\ StageAt(h)'
  <2>1. CASE Finish(h)
    BY <1>0, <2>1, FinishTurn, NoCallType DEF Stage, CallAt
  <2>2. CASE book.sponsor < Subsidy /\ ~ Finish(h)
    <3>1. PICK at \in {"true-up", "funded"}: call' = [call EXCEPT ![h].at = at, ![h].seen = book]
      BY <1>13, <2>2 DEF SponsorRead
    <3>2. /\ Turn(h) /\ call'[h].at = at /\ call'[h].id = call[h].id /\ call'[h].seen = book
          /\ call'[h].event = call[h].event
      BY <3>1, SeenTurn DEF CallAt
    <3> QED
      BY <1>0, <1>13, <2>2, <3>2 DEF SponsorRead, Stage, TypeInv
  <2> QED
    BY <1>13, <2>1, <2>2 DEF SponsorRead
<1>14. ASSUME TrueUp(h) PROVE Turn(h) /\ StageAt(h)'
  BY <1>0, <1>14, GotoTurn DEF TrueUp, Stage, CallAt
<1>15. ASSUME SponsorWrite(h) PROVE Turn(h) /\ StageAt(h)'
  BY <1>0, <1>15, FinishTurn, NoCallType DEF SponsorWrite, Stage, CallAt
<1>16. ASSUME Claim(h) PROVE Turn(h) /\ StageAt(h)'
  <2>1. CASE Finish(h)
    BY <1>0, <2>1, FinishTurn, NoCallType DEF Stage, CallAt
  <2>2. CASE ~ Finish(h)
    <3>1. /\ book.collected < Fare /\ book' = [book EXCEPT !.status = "PROCESSING", !.expired = TRUE]
          /\ call' = [call EXCEPT ![h].at = "consent", ![h].seen = book', ![h].amount = Fare - book.collected]
      BY <1>16, <2>2 DEF Claim
    <3>2. book' \in BookType /\ book'.collected = book.collected
      BY <3>1 DEF TypeInv, BookType
    <3>5. Fare - book.collected \in Owed
      BY BookNow
    <3>6. PICK seen \in BookType, amount \in Owed: seen = book' /\ amount = Fare - book.collected
      BY <3>2, <3>5
    <3>7. ToClaim(h, "consent", seen, amount)
      BY <3>1, <3>6 DEF ToClaim
    <3>3. /\ Turn(h) /\ call'[h].at = "consent" /\ call'[h].id = call[h].id /\ call'[h].amount = Fare - book.collected
          /\ call'[h].seen = book' /\ call'[h].event = call[h].event
      <4>1. "consent" \in CallAt
        BY DEF CallAt
      <4>2. /\ Turn(h) /\ call'[h].at = "consent" /\ call'[h].id = call[h].id /\ call'[h].amount = amount
            /\ call'[h].seen = seen /\ call'[h].event = call[h].event
        BY <3>7, <4>1, ClaimTurn
      <4> QED
        BY <3>6, <4>2
    <3>4. Whole(call'[h])
      BY <3>1, <3>2, <3>3 DEF Whole
    <3> QED
      BY <1>0, <1>16, <3>3, <3>4 DEF Claim, Stage
  <2> QED
    BY <2>1, <2>2
<1>17. ASSUME DebitWallet(h) PROVE Turn(h) /\ StageAt(h)'
  <2>1. CASE call' = [call EXCEPT ![h].at = "expired", ![h].answer = "succeeded"]
    <3>1. /\ Turn(h) /\ call'[h].at = "expired" /\ call'[h].id = call[h].id /\ call'[h].amount = call[h].amount
          /\ call'[h].answer = "succeeded" /\ call'[h].seen = call[h].seen /\ call'[h].event = call[h].event
      BY <2>1, AnswerTurn DEF Answers, CallAt
    <3>2. Whole(call[h]) => Whole(call'[h])
      BY <3>1 DEF Whole
    <3> QED
      BY <1>0, <1>17, <3>1, <3>2 DEF DebitWallet, Stage, Answers
  <2>2. CASE Goto(h, "attempt")
    <3>1. /\ Turn(h) /\ call'[h].at = "attempt" /\ call'[h].id = call[h].id /\ call'[h].amount = call[h].amount
          /\ call'[h].seen = call[h].seen /\ call'[h].event = call[h].event
      BY <2>2, GotoTurn DEF CallAt
    <3>2. Whole(call[h]) => Whole(call'[h])
      BY <3>1 DEF Whole
    <3> QED
      BY <1>0, <1>17, <3>1, <3>2 DEF DebitWallet, Stage
  <2> QED
    BY <1>17, <2>1, <2>2 DEF DebitWallet
<1>18. ASSUME CountAttempts(h) PROVE Turn(h) /\ StageAt(h)'
  <2>1. PICK id \in Additionals: call' = [call EXCEPT ![h].at = "insert", ![h].id = id]
    BY <1>18 DEF CountAttempts, Additionals
  <2>2. /\ Turn(h) /\ call'[h].at = "insert" /\ call'[h].id = id /\ call'[h].amount = call[h].amount
        /\ call'[h].seen = call[h].seen /\ call'[h].event = call[h].event
    <3>1. id \in Payments /\ "insert" \in CallAt
      BY Ids DEF CallAt
    <3> QED
      BY <2>1, <3>1, IdTurn DEF CallAt
  <2>3. Whole(call[h]) => Whole(call'[h])
    BY <2>2 DEF Whole
  <2>4. call[h].event = None /\ Whole(call[h])
    BY <1>0, <1>18 DEF CountAttempts, Stage
  <2>5. call[h].amount \in 0..Fare
    <3>1. /\ call[h].amount = Fare - call[h].seen.collected
          /\ call[h].seen.collected \in Int /\ 0 <= call[h].seen.collected /\ call[h].seen.collected < Fare
      BY <2>4, BookFields DEF Whole
    <3> QED
      BY <3>1, Numbers
  <2> QED
    BY <2>2, <2>3, <2>4, <2>5 DEF Stage
<1>19. ASSUME ExpiryWrite(h) PROVE Turn(h) /\ StageAt(h)'
  BY <1>0, <1>19, FinishTurn, NoCallType DEF ExpiryWrite, Stage, CallAt
<1>20. ASSUME Sweep(h) PROVE Turn(h) /\ StageAt(h)'
  <2>1. CASE UNCHANGED call /\ call[h].at = "idle"
    BY <1>0, <2>1 DEF Stage, TypeInv, Turn
  <2>2. CASE Begin(h, "claim")
    BY <1>0, <2>2, GotoTurn DEF Begin, Stage, CallAt
  <2> QED
    BY <1>20, <2>1, <2>2 DEF Sweep
<1>21. ASSUME RetryAdditionalCharge(h) PROVE Turn(h) /\ StageAt(h)'
  BY <1>0, <1>21, GotoTurn DEF RetryAdditionalCharge, Begin, Pass, Stage, CallAt
<1>22. ASSUME ReconcileTopup(h) PROVE Turn(h) /\ StageAt(h)'
  BY <1>0, <1>22, GotoTurn DEF ReconcileTopup, Begin, Pass, Stage, CallAt
<1>23. ASSUME TopupClaim(h) PROVE Turn(h) /\ StageAt(h)'
  <2>1. PICK at \in {"fund", "finish"}: Goto(h, at) /\ call[h].at = "top-up"
    BY <1>23 DEF TopupClaim
  <2>2. Turn(h) /\ call'[h].at = at /\ call'[h].id = call[h].id /\ call'[h].event = call[h].event
    BY <2>1, GotoTurn DEF CallAt
  <2>3. pay'[Topup].status # "none"
    BY <1>0, <1>23, <2>1, Ids DEF TopupClaim, PayType
  <2> QED
    BY <1>0, <2>1, <2>2, <2>3, Ids DEF Stage, PaidTopup
<1>24. ASSUME TopupPost(h) PROVE Turn(h) /\ StageAt(h)'
  BY <1>0, <1>24, GotoTurn DEF TopupPost, Stage, CallAt
<1>25. ASSUME TopupMark(h) PROVE Turn(h) /\ StageAt(h)'
  <2>1. Turn(h) /\ call'[h].at = "finish" /\ call'[h].id = call[h].id /\ call'[h].event = call[h].event
    BY <1>25, GotoTurn DEF TopupMark, CallAt
  <2> QED
    BY <1>0, <1>25, <2>1, Ids DEF Stage, PaidTopup, TopupMark
<1>26. ASSUME EventRow(h) PROVE Turn(h) /\ StageAt(h)'
  <2>1. PICK at \in {"top-up", "succeeded", "finish", "failed"}:
          /\ Goto(h, at) /\ call[h].at = "row"
          /\ at = IF call[h].event[2] = "succeeded"
                  THEN IF call[h].id = Topup THEN "top-up" ELSE "succeeded"
                  ELSE IF call[h].id = Charge THEN "finish" ELSE "failed"
          /\ call[h].event[2] = "succeeded" => pay' = [pay EXCEPT ![call[h].id].status = "SUCCEEDED"]
    BY <1>26 DEF EventRow
  <2>2. Turn(h) /\ call'[h].at = at /\ call'[h].id = call[h].id /\ call'[h].event = call[h].event
    BY <2>1, GotoTurn DEF CallAt
  <2>3. CASE call[h].event = <<call[h].id, "succeeded">> /\ call[h].id \in Payments
    <3>1. call[h].id = Topup => pay'[Topup].status # "none"
      BY <1>0, <2>1, <2>3 DEF PayType
    <3> QED
      BY <2>1, <2>2, <2>3, <3>1 DEF Stage, PaidTopup
  <2>4. CASE call[h].event = <<call[h].id, "failed">> /\ call[h].id \in Payments \ {Topup}
    BY <2>1, <2>2, <2>4, Ids DEF Stage
  <2> QED
    BY <1>0, <2>1, <2>3, <2>4 DEF Stage
<1>27. ASSUME SucceededRead(h) PROVE Turn(h) /\ StageAt(h)'
  <2>1. CASE Goto(h, "finish")
    <3>1. Turn(h) /\ call'[h].at = "finish" /\ call'[h].id = call[h].id /\ call'[h].event = call[h].event
      BY <2>1, GotoTurn DEF CallAt
    <3> QED
      BY <1>0, <1>27, <3>1 DEF SucceededRead, Stage
  <2>2. CASE call' = [call EXCEPT ![h].at = "apply", ![h].seen = book]
    <3>1. Turn(h) /\ call'[h].at = "apply" /\ call'[h].id = call[h].id /\ call'[h].event = call[h].event /\ call'[h].seen = book
      BY <2>2, SeenTurn DEF CallAt
    <3> QED
      BY <1>0, <1>27, <3>1 DEF SucceededRead, Stage, TypeInv
  <2> QED
    BY <1>27, <2>1, <2>2 DEF SucceededRead
<1>28. ASSUME SucceededWrite(h) PROVE Turn(h) /\ StageAt(h)'
  BY <1>0, <1>28, GotoTurn DEF SucceededWrite, Stage, CallAt
<1>29. ASSUME FailedWrite(h) PROVE Turn(h) /\ StageAt(h)'
  <2>1. Turn(h) /\ call'[h].at = "recompute" /\ call'[h].id = call[h].id /\ call'[h].event = call[h].event
    BY <1>29, GotoTurn DEF FailedWrite, CallAt
  <2> QED
    BY <1>0, <1>29, <2>1, Ids DEF FailedWrite, Stage
<1>30. ASSUME RecomputeRead(h) PROVE Turn(h) /\ StageAt(h)'
  <2>0. book.collected + book.sponsor \in Int
    BY BookNow
  <2>1. PICK at \in {"finish", "restate"}, answer \in SettledAs: call' = [call EXCEPT ![h].at = at, ![h].answer = answer]
    BY <1>30, <2>0, StatusType DEF RecomputeRead, Pending
  <2>2. Turn(h) /\ call'[h].at = at /\ call'[h].id = call[h].id /\ call'[h].event = call[h].event /\ call'[h].answer = answer
    BY <2>1, AnswerTurn DEF CallAt
  <2> QED
    BY <1>0, <1>30, <2>2 DEF RecomputeRead, Stage
<1>31. ASSUME RecomputeWrite(h) PROVE Turn(h) /\ StageAt(h)'
  BY <1>0, <1>31, GotoTurn DEF RecomputeWrite, Stage, CallAt
<1>32. ASSUME FinishEvent(h) PROVE Turn(h) /\ StageAt(h)'
  BY <1>0, <1>32, FinishTurn, NoCallType DEF FinishEvent, Stage, CallAt
<1>33. ASSUME NEW status, EndSpecial(h, status) PROVE Turn(h) /\ StageAt(h)'
  BY <1>0, <1>33, GotoTurn DEF EndSpecial, Begin, Stage, CallAt
<1>34. ASSUME \E e \in Events: ReceiveEvent(h, e) PROVE Turn(h) /\ StageAt(h)'
  <2>1. PICK e \in Events: ReceiveEvent(h, e)
    BY <1>34
  <2>2. PICK at \in {"top-up", "row"}:
          /\ call' = [call EXCEPT ![h].at = at, ![h].event = e, ![h].id = e[1]]
          /\ (at = "top-up") <=> (e[2] = "session")
    BY <2>1 DEF ReceiveEvent
  <2>3. Turn(h) /\ call'[h].at = at /\ call'[h].id = e[1] /\ call'[h].event = e
    <3>1. at \in CallAt
      BY DEF CallAt
    <3>2. ToEvent(h, at, e)
      BY <2>2 DEF ToEvent
    <3> QED
      BY <3>1, <3>2, EventTurn
  <2>5. e[2] = "session" => e = <<Topup, "session">>
    BY EventNames
  <2>6. event[e] # "none" /\ pay' = pay
    BY <2>1 DEF ReceiveEvent
  <2>7. e[2] = "session" => pay'[Topup].status # "none"
    <3>1. e[2] = "session" => stripe[Topup] = "succeeded"
      BY <2>5, <2>6 DEF PayInv
    <3>2. stripe[Topup] # "none" => pay[Topup].status # "none"
      BY Ids DEF PayInv
    <3> QED
      BY <2>6, <3>1, <3>2
  <2>8. e # <<Topup, "failed">>
    <3>1. event[<<Topup, "failed">>] # "none" => stripe[Topup] = "declined"
      BY Ids DEF PayInv
    <3>2. stripe[Topup] \in {"none", "succeeded"}
      BY DEF PayInv
    <3> QED
      BY <2>6, <3>1, <3>2
  <2>9. CASE e[2] = "session"
    <3>1. call'[h].at = "top-up" /\ call'[h].event = <<Topup, "session">> /\ call'[h].id = Topup
      <4>1. e = <<Topup, "session">>
        BY <2>5, <2>9
      <4>2. e[1] = Topup
        BY <4>1
      <4>3. at = "top-up"
        BY <2>2, <2>9
      <4> QED
        BY <2>3, <4>1, <4>2, <4>3
    <3>2. Stage(call'[h])
      BY <3>1 DEF Stage, PaidTopup
    <3> QED
      BY <2>3, <2>7, <2>9, <3>2
  <2>10. CASE e[2] # "session"
    <3>1. e = <<e[1], "succeeded">> \/ e = <<e[1], "failed">>
      BY <2>10, EventNames
    <3>2. e[1] \in Payments /\ (e = <<e[1], "failed">> => e[1] # Topup)
      BY <2>8, EventNames
    <3> QED
      BY <2>2, <2>3, <2>10, <3>1, <3>2 DEF Stage
  <2> QED
    BY <2>9, <2>10
<1>35. ASSUME Error(h) PROVE Turn(h) /\ StageAt(h)'
  <2>1. AfterError(h) \in {"record", "special", "idle"}
    BY DEF AfterError
  <2>2. PICK at \in {"record", "special", "idle"}: at = AfterError(h)
    BY <2>1
  <2>3. PICK c: c = [NoCall EXCEPT !.at = at]
    OBVIOUS
  <2>4. /\ c \in CallType /\ c.at = at /\ c.id = None /\ c.event = None /\ c.amount = 0 /\ c.answer = None
    <3>1. at \in CallAt
      BY DEF CallAt
    <3> QED
      BY <2>3, <3>1, NoCallType DEF CallType, NoCall
  <2>5. call' = [call EXCEPT ![h] = c]
    BY <1>35, <2>2, <2>3 DEF Error
  <2>6. Turn(h) /\ call'[h] = c
    BY <2>4, <2>5, Types DEF Turn
  <2>7. 0 \in 0..Fare
    BY Numbers
  <2> QED
    BY <2>2, <2>4, <2>6, <2>7 DEF Stage
<1>36. ASSUME CheckConsent(h) PROVE Turn(h) /\ StageAt(h)'
  <2>1. CASE Finish(h)
    BY <1>0, <2>1, FinishTurn, NoCallType DEF Stage, CallAt
  <2>2. CASE Goto(h, "debit")
    <3>1. /\ Turn(h) /\ call'[h].at = "debit" /\ call'[h].id = call[h].id /\ call'[h].amount = call[h].amount
          /\ call'[h].seen = call[h].seen /\ call'[h].event = call[h].event
      BY <2>2, GotoTurn DEF CallAt
    <3>2. Whole(call[h]) => Whole(call'[h])
      BY <3>1 DEF Whole
    <3> QED
      BY <1>0, <1>36, <3>1, <3>2 DEF CheckConsent, Stage
  <2> QED
    BY <1>36, <2>1, <2>2 DEF CheckConsent
<1> QED
  BY <1>1, <1>2, <1>3, <1>4, <1>5, <1>6, <1>7, <1>8, <1>9, <1>10, <1>11, <1>12, <1>13, <1>14, <1>15, <1>16,
     <1>17, <1>18, <1>19, <1>20, <1>21, <1>22, <1>23, <1>24, <1>25, <1>26, <1>27, <1>28, <1>29, <1>30, <1>31,
     <1>32, <1>33, <1>34, <1>35, <1>36 DEF HandlerStep, Working

-----------------------------------------------------------------------------
(* Who writes what.                                                        *)

LEMMA LedgerWriters ==
  ASSUME NEW h \in Procs, HandlerStep(h)
  PROVE  UNCHANGED ledger \/ ChargeWallet(h) \/ DebitWallet(h) \/ TopupPost(h)
  BY DEF HandlerStep, Working, CompleteRide, CreditDriver, RecordCompletion, SettleRead, SettleWrite,
         OpenValidation, ChargeInsert, ChargeStripe, ChargeUpdate, Redeem, ReconcileSettled, SponsorRead,
         TrueUp, SponsorWrite, Claim, CheckConsent, CountAttempts, ExpiryWrite, Sweep, RetryAdditionalCharge,
         ReconcileTopup, TopupClaim, TopupMark, EventRow, SucceededRead, SucceededWrite, FailedWrite,
         RecomputeRead, RecomputeWrite, FinishEvent, EndSpecial, ReceiveEvent, Error

LEMMA SpecialWriters ==
  ASSUME NEW h \in Procs, HandlerStep(h)
  PROVE  UNCHANGED special \/ OpenValidation(h) \/ Redeem(h)
         \/ (\E status \in {"EXPIRED", "CANCELLED"}: EndSpecial(h, status))
  BY DEF HandlerStep, Working, CompleteRide, CreditDriver, ChargeWallet, RecordCompletion, SettleRead,
         SettleWrite, ChargeInsert, ChargeStripe, ChargeUpdate, ReconcileSettled, SponsorRead, TrueUp,
         SponsorWrite, Claim, CheckConsent, DebitWallet, CountAttempts, ExpiryWrite, Sweep, RetryAdditionalCharge,
         ReconcileTopup, TopupClaim, TopupPost, TopupMark, EventRow, SucceededRead, SucceededWrite,
         FailedWrite, RecomputeRead, RecomputeWrite, FinishEvent, ReceiveEvent, Error

LEMMA CompletedWriters ==
  ASSUME NEW h \in Procs, HandlerStep(h)
  PROVE  UNCHANGED completed \/ CompleteRide(h)
  BY DEF HandlerStep, Working, CreditDriver, ChargeWallet, RecordCompletion, SettleRead, SettleWrite,
         OpenValidation, ChargeInsert, ChargeStripe, ChargeUpdate, Redeem, ReconcileSettled, SponsorRead,
         TrueUp, SponsorWrite, Claim, CheckConsent, DebitWallet, CountAttempts, ExpiryWrite, Sweep, RetryAdditionalCharge,
         ReconcileTopup, TopupClaim, TopupPost, TopupMark, EventRow, SucceededRead, SucceededWrite,
         FailedWrite, RecomputeRead, RecomputeWrite, FinishEvent, EndSpecial, ReceiveEvent, Error

LEMMA WalletPaidWriters ==
  ASSUME NEW h \in Procs, HandlerStep(h)
  PROVE  UNCHANGED walletPaid \/ RecordCompletion(h)
  BY DEF HandlerStep, Working, CompleteRide, CreditDriver, ChargeWallet, SettleRead, SettleWrite,
         OpenValidation, ChargeInsert, ChargeStripe, ChargeUpdate, Redeem, ReconcileSettled, SponsorRead,
         TrueUp, SponsorWrite, Claim, CheckConsent, DebitWallet, CountAttempts, ExpiryWrite, Sweep, RetryAdditionalCharge,
         ReconcileTopup, TopupClaim, TopupPost, TopupMark, EventRow, SucceededRead, SucceededWrite,
         FailedWrite, RecomputeRead, RecomputeWrite, FinishEvent, EndSpecial, ReceiveEvent, Error

LEMMA BookWriters ==
  ASSUME NEW h \in Procs, HandlerStep(h)
  PROVE  UNCHANGED book \/ SettleWrite(h) \/ TrueUp(h) \/ SponsorWrite(h) \/ Claim(h) \/ CheckConsent(h) \/ ExpiryWrite(h)
         \/ Sweep(h) \/ SucceededWrite(h) \/ FailedWrite(h) \/ RecomputeWrite(h)
  BY DEF HandlerStep, Working, CompleteRide, CreditDriver, ChargeWallet, RecordCompletion, SettleRead,
         OpenValidation, ChargeInsert, ChargeStripe, ChargeUpdate, Redeem, ReconcileSettled, SponsorRead,
         DebitWallet, CountAttempts, RetryAdditionalCharge, ReconcileTopup, TopupClaim, TopupPost, TopupMark,
         EventRow, SucceededRead, RecomputeRead, FinishEvent, EndSpecial, ReceiveEvent, Error

LEMMA DriverWriters ==
  ASSUME NEW h \in Procs, HandlerStep(h)
  PROVE  UNCHANGED driver \/ CreditDriver(h) \/ TrueUp(h)
  BY DEF HandlerStep, Working, CompleteRide, ChargeWallet, RecordCompletion, SettleRead, SettleWrite,
         OpenValidation, ChargeInsert, ChargeStripe, ChargeUpdate, Redeem, ReconcileSettled, SponsorRead,
         SponsorWrite, Claim, CheckConsent, DebitWallet, CountAttempts, ExpiryWrite, Sweep, RetryAdditionalCharge,
         ReconcileTopup, TopupClaim, TopupPost, TopupMark, EventRow, SucceededRead, SucceededWrite,
         FailedWrite, RecomputeRead, RecomputeWrite, FinishEvent, EndSpecial, ReceiveEvent, Error

LEMMA PayWriters ==
  ASSUME NEW h \in Procs, HandlerStep(h)
  PROVE  UNCHANGED pay \/ ChargeInsert(h) \/ ChargeUpdate(h) \/ TopupClaim(h) \/ TopupMark(h) \/ EventRow(h)
  BY DEF HandlerStep, Working, CompleteRide, CreditDriver, ChargeWallet, RecordCompletion, SettleRead,
         SettleWrite, OpenValidation, ChargeStripe, Redeem, ReconcileSettled, SponsorRead, TrueUp,
         SponsorWrite, Claim, CheckConsent, DebitWallet, CountAttempts, ExpiryWrite, Sweep, RetryAdditionalCharge,
         ReconcileTopup, TopupPost, SucceededRead, SucceededWrite, FailedWrite, RecomputeRead,
         RecomputeWrite, FinishEvent, EndSpecial, ReceiveEvent, Error

LEMMA StripeWriters ==
  ASSUME NEW h \in Procs, HandlerStep(h)
  PROVE  UNCHANGED stripe \/ ChargeStripe(h)
  BY DEF HandlerStep, Working, CompleteRide, CreditDriver, ChargeWallet, RecordCompletion, SettleRead,
         SettleWrite, OpenValidation, ChargeInsert, ChargeUpdate, Redeem, ReconcileSettled, SponsorRead,
         TrueUp, SponsorWrite, Claim, CheckConsent, DebitWallet, CountAttempts, ExpiryWrite, Sweep, RetryAdditionalCharge,
         ReconcileTopup, TopupClaim, TopupPost, TopupMark, EventRow, SucceededRead, SucceededWrite,
         FailedWrite, RecomputeRead, RecomputeWrite, FinishEvent, EndSpecial, ReceiveEvent, Error

LEMMA EventWriters ==
  ASSUME NEW h \in Procs, HandlerStep(h)
  PROVE  UNCHANGED event \/ ChargeStripe(h) \/ (\E e \in Events: ReceiveEvent(h, e)) \/ FinishEvent(h)
         \/ Error(h)
  BY DEF HandlerStep, Working, CompleteRide, CreditDriver, ChargeWallet, RecordCompletion, SettleRead,
         SettleWrite, OpenValidation, ChargeInsert, ChargeUpdate, Redeem, ReconcileSettled, SponsorRead,
         TrueUp, SponsorWrite, Claim, CheckConsent, DebitWallet, CountAttempts, ExpiryWrite, Sweep, RetryAdditionalCharge,
         ReconcileTopup, TopupClaim, TopupPost, TopupMark, EventRow, SucceededRead, SucceededWrite,
         FailedWrite, RecomputeRead, RecomputeWrite, EndSpecial

LEMMA FaultsWriters ==
  ASSUME NEW h \in Procs, HandlerStep(h)
  PROVE  UNCHANGED faults \/ ChargeStripe(h) \/ (\E e \in Events: ReceiveEvent(h, e)) \/ FailedWrite(h)
         \/ DebitWallet(h) \/ Error(h)
  BY DEF HandlerStep, Working, CompleteRide, CreditDriver, ChargeWallet, RecordCompletion, SettleRead,
         SettleWrite, OpenValidation, ChargeInsert, ChargeUpdate, Redeem, ReconcileSettled, SponsorRead,
         TrueUp, SponsorWrite, Claim, CheckConsent, DebitWallet, CountAttempts, ExpiryWrite, Sweep, RetryAdditionalCharge,
         ReconcileTopup, TopupClaim, TopupPost, TopupMark, EventRow, SucceededRead, SucceededWrite,
         RecomputeRead, RecomputeWrite, FinishEvent, EndSpecial

-----------------------------------------------------------------------------
(* The types.                                                              *)

\* What h posts to the wallet.
Posts(h, e) ==
  /\ Wallet!Post(e)
  /\ \/ ChargeWallet(h) /\ e.key = "wallet-charge" /\ e.amount = -call'[h].amount /\ 0 < call'[h].amount
     \/ DebitWallet(h) /\ e.key = "wallet-additional" /\ e.amount = -call[h].amount
     \/ TopupPost(h) /\ e.key = "wallet-topup" /\ e.amount = TopupAmount

LEMMA WholeAmount ==
  ASSUME TypeInv, NEW h \in Procs, Whole(call[h])
  PROVE  /\ call[h].seen \in BookType /\ call[h].seen.collected \in Int /\ 0 <= call[h].seen.collected
         /\ call[h].amount \in Int /\ call[h].amount = Fare - call[h].seen.collected
         /\ 0 < call[h].amount /\ call[h].amount <= Fare
<1>1. /\ call[h].seen \in BookType /\ call[h].seen.collected < Fare /\ call[h].amount = Fare - call[h].seen.collected
  BY DEF Whole
<1>2. call[h].seen.collected \in Int /\ 0 <= call[h].seen.collected
  BY <1>1, BookFields
<1> QED
  BY <1>1, <1>2, Numbers

LEMMA ChargedAmount ==
  ASSUME TypeInv, NEW h \in Procs, ChargeWallet(h)
  PROVE  /\ call'[h].amount = Least(Share, balance["rider"]) /\ call'[h].amount \in Int
         /\ 0 <= call'[h].amount /\ call'[h].amount <= Share /\ call'[h].amount <= balance["rider"]
         /\ call'[h].at = "record" /\ call[h].at = "wallet"
<1>1. PICK amount: amount = Least(Share, balance["rider"])
  OBVIOUS
<1>2. amount \in Int /\ 0 <= amount /\ amount <= Share /\ amount <= balance["rider"]
  BY <1>1, Types, Numbers DEF Least
<1>3. amount \in Owed /\ "record" \in CallAt
  BY <1>2, Numbers DEF Owed, CallAt
<1>4. call' = [call EXCEPT ![h].at = "record", ![h].amount = amount] /\ call[h].at = "wallet"
  BY <1>1 DEF ChargeWallet
<1>5. call'[h].amount = amount /\ call'[h].at = "record"
  BY <1>3, <1>4, AmountTurn
<1> QED
  BY <1>1, <1>2, <1>4, <1>5

LEMMA AnEntry ==
  ASSUME NEW key \in Keys, NEW amount \in Int, -Fare <= amount, amount <= TopupAmount, amount # 0
  PROVE  [key |-> key, account |-> "rider", amount |-> amount] \in Wallet!Entry
<1>1. amount \in Amounts
  BY Numbers DEF Amounts
<1> QED
  BY <1>1 DEF Wallet!Entry, Accounts

LEMMA LedgerSteps ==
  ASSUME TypeInv, StageInv, PayInv, NEW h \in Procs, HandlerStep(h)
  PROVE  \/ UNCHANGED <<balance, entries>>
         \/ \E e \in Wallet!Entry: e.account = "rider" /\ Posts(h, e)
<1>1. CASE ChargeWallet(h)
  <2>1. PICK amount: amount = call'[h].amount
    OBVIOUS
  <2>2. amount \in Int /\ 0 <= amount /\ amount <= Fare /\ amount = Least(Share, balance["rider"])
    BY <1>1, <2>1, ChargedAmount, Numbers
  <2>3. PICK e: e = [key |-> "wallet-charge", account |-> "rider", amount |-> -amount]
    OBVIOUS
  <2>4. UNCHANGED <<balance, entries>> \/ (0 < amount /\ Wallet!Post(e))
    BY <1>1, <2>2, <2>3 DEF ChargeWallet, ledger
  <2>5. ASSUME 0 < amount PROVE e \in Wallet!Entry
    <3>1. -amount \in Int /\ -Fare <= -amount /\ -amount <= TopupAmount /\ -amount # 0 /\ "wallet-charge" \in Keys
      BY <2>2, <2>5, Numbers DEF Keys
    <3> QED
      BY <2>3, <3>1, AnEntry
  <2>6. e.account = "rider" /\ e.key = "wallet-charge" /\ e.amount = -amount
    BY <2>3
  <2> QED
    BY <1>1, <2>1, <2>4, <2>5, <2>6 DEF Posts
<1>2. CASE DebitWallet(h)
  <2>1. PICK e: e = [key |-> "wallet-additional", account |-> "rider", amount |-> -call[h].amount]
    OBVIOUS
  <2>2. UNCHANGED <<balance, entries>> \/ Wallet!Post(e)
    BY <1>2, <2>1 DEF DebitWallet, PostOnce, ledger
  <2>3. e \in Wallet!Entry
    <3>1. Whole(call[h])
      BY <1>2 DEF DebitWallet, StageInv, Stage
    <3>2. call[h].amount \in Int /\ 0 < call[h].amount /\ call[h].amount <= Fare
      BY <3>1, WholeAmount
    <3>3. /\ -call[h].amount \in Int /\ -Fare <= -call[h].amount /\ -call[h].amount <= TopupAmount
          /\ -call[h].amount # 0 /\ "wallet-additional" \in Keys
      BY <3>2, Numbers DEF Keys
    <3> QED
      BY <2>1, <3>3, AnEntry
  <2>4. e.account = "rider" /\ e.key = "wallet-additional" /\ e.amount = -call[h].amount
    BY <2>1
  <2> QED
    BY <1>2, <2>2, <2>3, <2>4 DEF Posts
<1>3. CASE TopupPost(h)
  <2>1. pay[Topup].amount = TopupAmount
    BY <1>3 DEF TopupPost, StageInv, AtTopup, PayInv
  <2>2. PICK e: e = [key |-> "wallet-topup", account |-> "rider", amount |-> TopupAmount]
    OBVIOUS
  <2>3. UNCHANGED <<balance, entries>> \/ Wallet!Post(e)
    BY <1>3, <2>1, <2>2 DEF TopupPost, PostOnce, ledger
  <2>4. e \in Wallet!Entry
    BY <2>2, AnEntry, Numbers DEF Keys
  <2>5. e.account = "rider" /\ e.key = "wallet-topup" /\ e.amount = TopupAmount
    BY <2>2
  <2> QED
    BY <1>3, <2>3, <2>4, <2>5 DEF Posts
<1> QED
  BY <1>1, <1>2, <1>3, LedgerWriters DEF ledger

LEMMA PostTypes ==
  ASSUME TypeInv, NEW e \in Wallet!Entry, Wallet!Post(e)
  PROVE  /\ balance' \in [Accounts -> Nat]
         /\ entries' \subseteq Wallet!Entry /\ IsFiniteSet(entries') /\ entries' = entries \cup {e}
         /\ ~ Posted(e.key)
<1>1. /\ ~ Posted(e.key) /\ balance[e.account] + e.amount >= 0
      /\ balance' = [balance EXCEPT ![e.account] = balance[e.account] + e.amount]
      /\ entries' = entries \cup {e}
  BY DEF Wallet!Post, Posted
<1>2. e.account \in Accounts /\ e.amount \in Int /\ balance \in [Accounts -> Nat]
  <2>1. e.account \in Accounts /\ e.amount \in Amounts
    BY DEF Wallet!Entry
  <2>2. e.amount \in Int
    BY <2>1, Numbers DEF Amounts
  <2> QED
    BY <2>1, <2>2 DEF TypeInv
<1>3. balance[e.account] + e.amount \in Nat
  BY <1>1, <1>2
<1>4. IsFiniteSet(entries') /\ entries' \subseteq Wallet!Entry
  BY <1>1, FS_AddElement DEF TypeInv
<1> QED
  BY <1>1, <1>2, <1>3, <1>4

LEMMA ApplyAmounts ==
  ASSUME TypeInv, StageInv, NEW h \in Procs, call[h].at = "apply"
  PROVE  /\ call[h].id \in Payments /\ call[h].id # Topup /\ call[h].seen \in BookType
         /\ call[h].seen.collected \in Int /\ 0 <= call[h].seen.collected /\ call[h].seen.collected <= Fare
         /\ pay[call[h].id].amount \in Int /\ 0 <= pay[call[h].id].amount
<1>1. call[h].id \in Payments \ {Topup} /\ call[h].seen \in BookType
  BY DEF StageInv, Stage
<1>2. pay[call[h].id].amount \in 0..Most(Fare, TopupAmount)
  BY <1>1, Types DEF PayType
<1> QED
  BY <1>1, <1>2, BookFields, Numbers

LEMMA AppliedTotal ==
  ASSUME NEW limit \in Int, 0 <= limit, limit <= Fare, NEW a \in Int, 0 <= a, NEW b \in Int, 0 <= b
  PROVE  Least(limit, a + b) \in 0..Fare
  BY Numbers DEF Least

LEMMA BookTypes ==
  ASSUME TypeInv, StageInv, NEW h \in Procs, HandlerStep(h)
  PROVE  book' \in BookType
<1>0. book \in BookType /\ Stage(call[h]) /\ call[h] \in CallType
  BY Types DEF StageInv
<1>1. CASE SettleWrite(h)
  <2>1. PICK collected: collected = IF Ok(call[h].answer) THEN Share ELSE walletPaid
    OBVIOUS
  <2>2. collected \in 0..Fare
    BY <2>1, Types, Numbers
  <2>3. PICK settled: settled = StatusFor(collected, Pending, collected < Share)
    OBVIOUS
  <2>4. settled \in SettledAs
    <3>1. collected \in Int /\ Pending \in BOOLEAN /\ (collected < Share) \in BOOLEAN
      BY <2>2, Numbers DEF Pending
    <3> QED
      BY <2>3, <3>1, StatusType
  <2>5. PICK charge \in {None, Charge}: charge = IF Ok(call[h].answer) THEN Charge ELSE book.chargeIntent
    BY <1>0, BookFields
  <2>6. PICK sponsorStatus \in {"NONE", "RESERVED", "COLLECTED", "RELEASED"}:
          sponsorStatus = IF Pending THEN "RESERVED" ELSE "NONE"
    OBVIOUS
  <2>7. PICK driverSettled \in {0, Earnings}: driverSettled = Most(book.driverSettled, Earnings)
    BY <1>0, BookFields, Numbers DEF Most
  <2>8. book' = [book EXCEPT !.collected = collected, !.chargeIntent = charge, !.sponsorStatus = sponsorStatus,
                             !.driverSettled = driverSettled, !.settled = settled]
    BY <1>1, <2>1, <2>3, <2>5, <2>6, <2>7 DEF SettleWrite
  <2> QED
    BY <1>0, <2>2, <2>4, <2>8 DEF BookType, Additionals, SettledAs
<1>2. CASE TrueUp(h)
  BY <1>0, <1>2 DEF BookType, SettledAs, TrueUp
<1>3. CASE SponsorWrite(h)
  <2>1. call[h].seen \in BookType /\ call[h].seen.sponsor < Subsidy
    BY <1>0, <1>3 DEF SponsorWrite, Stage
  <2>2. PICK contribution: contribution = call[h].seen.sponsor + Subsidy
    OBVIOUS
  <2>3. contribution \in {0, Subsidy} /\ contribution \in Int
    BY <2>1, <2>2, BookFields, Numbers
  <2>4. PICK settled: settled = StatusFor(call[h].seen.collected + contribution, FALSE, FALSE)
    OBVIOUS
  <2>5. settled \in SettledAs
    <3>1. call[h].seen.collected + contribution \in Int
      BY <2>1, <2>3, BookFields
    <3> QED
      BY <2>4, <3>1, StatusType
  <2>6. book' = [book EXCEPT !.sponsor = contribution, !.sponsorStatus = "COLLECTED", !.settled = settled]
    BY <1>3, <2>2, <2>4 DEF SponsorWrite
  <2> QED
    BY <1>0, <2>3, <2>5, <2>6 DEF BookType, Additionals, SettledAs
<1>4. CASE Claim(h) \/ CheckConsent(h)
  BY <1>0, <1>4 DEF BookType, SettledAs, Claim, CheckConsent
<1>5. CASE ExpiryWrite(h)
  <2>1. Whole(call[h]) /\ call[h].id \in Additionals \cup {None} /\ call[h].answer \in Answers
    BY <1>0, <1>5 DEF ExpiryWrite, Stage
  <2>2. PICK total: total = ExpiryTotal(h)
    OBVIOUS
  <2>3. total \in 0..Fare
    BY <2>1, <2>2, WholeAmount, Numbers DEF ExpiryTotal
  <2>4. PICK status: status = ChargeStatus(total, call[h].answer)
    OBVIOUS
  <2>5. status \in {"NONE", "REQUIRED", "PROCESSING", "COLLECTED", "FAILED"}
    BY <2>3, <2>4, Numbers DEF ChargeStatus
  <2>6. PICK settled: settled = StatusFor(total, FALSE, total < Fare)
    OBVIOUS
  <2>7. settled \in SettledAs
    <3>1. total \in Int /\ (total < Fare) \in BOOLEAN /\ FALSE \in BOOLEAN
      BY <2>3, Numbers
    <3> QED
      BY <2>6, <3>1, StatusType
  <2>8. PICK additional \in {None} \cup Additionals:
          additional = IF Ok(call[h].answer) /\ call[h].id # None THEN call[h].id ELSE book.additionalIntent
    BY <1>0, <2>1, BookFields
  <2>9. book' = [book EXCEPT !.collected = total, !.status = status, !.additionalIntent = additional,
                             !.sponsorStatus = "RELEASED", !.settled = settled]
    BY <1>5, <2>2, <2>4, <2>6, <2>8 DEF ExpiryWrite
  <2> QED
    BY <1>0, <2>3, <2>5, <2>7, <2>9 DEF BookType, Additionals, SettledAs
<1>6. CASE Sweep(h)
  BY <1>0, <1>6 DEF BookType, SettledAs, Sweep
<1>7. CASE SucceededWrite(h)
  <2>1. PICK limit: limit = IF call[h].id = Charge THEN Share ELSE Fare
    OBVIOUS
  <2>2. PICK total: total = Least(limit, call[h].seen.collected + pay[call[h].id].amount)
    OBVIOUS
  <2>3. total \in 0..Fare
    <3>1. call[h].at = "apply"
      BY <1>7 DEF SucceededWrite
    <3>2. limit \in Int /\ 0 <= limit /\ limit <= Fare
      BY <2>1, Numbers
    <3> QED
      BY <2>2, <3>1, <3>2, ApplyAmounts, AppliedTotal
  <2>4. call[h].id \in Payments /\ call[h].id # Topup
    BY <1>7, ApplyAmounts DEF SucceededWrite
  <2>5. CASE call[h].id = Charge
    <3>1. book' = [book EXCEPT !.collected = total, !.chargeIntent = Charge]
      BY <1>7, <2>1, <2>2, <2>5 DEF SucceededWrite
    <3> QED
      BY <1>0, <2>3, <3>1 DEF BookType, Additionals, SettledAs
  <2>6. CASE call[h].id # Charge
    <3>1. call[h].id \in Additionals
      BY <2>4, <2>6, Ids
    <3>2. PICK status \in {"COLLECTED", "REQUIRED"}: status = IF total >= Fare THEN "COLLECTED" ELSE "REQUIRED"
      OBVIOUS
    <3>3. book' = [book EXCEPT !.collected = total, !.additionalIntent = call[h].id, !.status = status]
      BY <1>7, <2>1, <2>2, <2>6, <3>2 DEF SucceededWrite
    <3> QED
      BY <1>0, <2>3, <3>1, <3>2, <3>3 DEF BookType, Additionals, SettledAs
  <2> QED
    BY <2>5, <2>6
<1>8. CASE FailedWrite(h)
  <2>1. PICK settled \in SettledAs: settled = IF book.collected < Fare THEN "EXCEPTION" ELSE book.settled
    BY <1>0 DEF BookType, SettledAs
  <2>2. book' = book \/ book' = [book EXCEPT !.status = "FAILED", !.settled = settled]
    BY <1>8, <2>1 DEF FailedWrite
  <2> QED
    BY <1>0, <2>2 DEF BookType, Additionals, SettledAs
<1>9. CASE RecomputeWrite(h)
  BY <1>0, <1>9 DEF BookType, SettledAs, RecomputeWrite, Stage
<1> QED
  BY <1>0, <1>1, <1>2, <1>3, <1>4, <1>5, <1>6, <1>7, <1>8, <1>9, BookWriters
LEMMA PayTypes ==
  ASSUME TypeInv, StageInv, NEW h \in Procs, HandlerStep(h)
  PROVE  pay' \in [Payments -> PayType]
<1>0. pay \in [Payments -> PayType] /\ Stage(call[h]) /\ Topup \in Payments /\ Charge \in Payments
  BY Types, Ids DEF StageInv
<1>1. CASE ChargeInsert(h)
  <2>1. call[h].amount \in 0..Most(Fare, TopupAmount)
    <3>1. call[h].amount \in 0..Fare
      BY <1>0, <1>1 DEF ChargeInsert, Stage, AtCard
    <3> QED
      BY <3>1, Numbers
  <2>2. PICK p: p = [status |-> "PENDING", amount |-> call[h].amount]
    OBVIOUS
  <2>3. p \in PayType
    BY <2>1, <2>2 DEF PayType
  <2>4. pay' = pay \/ pay' = [pay EXCEPT ![call[h].id] = p]
    BY <1>1, <2>2 DEF ChargeInsert
  <2> QED
    BY <1>0, <2>3, <2>4
<1>2. CASE ChargeUpdate(h)
  <2>1. PICK status \in {"SUCCEEDED", "REQUIRES_ACTION", "FAILED"}: pay' = [pay EXCEPT ![call[h].id].status = status]
    BY <1>0, <1>2 DEF ChargeUpdate, Stage, Answers
  <2> QED
    BY <1>0, <2>1 DEF PayType
<1>3. CASE TopupClaim(h)
  BY <1>0, <1>3 DEF TopupClaim, PayType
<1>4. CASE TopupMark(h)
  BY <1>0, <1>4 DEF TopupMark, PayType
<1>5. CASE EventRow(h)
  <2>1. PICK status \in {"SUCCEEDED", "FAILED"}: pay' = [pay EXCEPT ![call[h].id].status = status]
    BY <1>0, <1>5 DEF EventRow
  <2> QED
    BY <1>0, <2>1 DEF PayType
<1> QED
  BY <1>0, <1>1, <1>2, <1>3, <1>4, <1>5, PayWriters

LEMMA PassesTypes ==
  ASSUME TypeInv, NEW h \in Procs, HandlerStep(h)
  PROVE  passes' \in 0..MaxPasses
<1>1. passes \in 0..MaxPasses
  BY DEF TypeInv
<1>2. UNCHANGED passes \/ Pass
  BY DEF HandlerStep, Working, CompleteRide, CreditDriver, ChargeWallet, RecordCompletion, SettleRead, SettleWrite,
         OpenValidation, ChargeInsert, ChargeStripe, ChargeUpdate, Redeem, ReconcileSettled, SponsorRead,
         TrueUp, SponsorWrite, Claim, CheckConsent, DebitWallet, CountAttempts, ExpiryWrite, Sweep, RetryAdditionalCharge,
         ReconcileTopup, TopupClaim, TopupPost, TopupMark, EventRow, SucceededRead, SucceededWrite, FailedWrite,
         RecomputeRead, RecomputeWrite, FinishEvent, EndSpecial, ReceiveEvent, Error
<1> QED
  BY <1>1, <1>2, Numbers DEF Pass

LEMMA TypeSteps ==
  ASSUME TypeInv, StageInv, PayInv, NEW h \in Procs, HandlerStep(h)
  PROVE  TypeInv'
<1>1. call' \in [Procs -> CallType]
  BY StageSteps DEF Turn
<1>2. balance' \in [Accounts -> Nat] /\ entries' \subseteq Wallet!Entry /\ IsFiniteSet(entries')
  <2>1. CASE UNCHANGED <<balance, entries>>
    BY <2>1 DEF TypeInv
  <2>2. CASE \E e \in Wallet!Entry: Wallet!Post(e)
    BY <2>2, PostTypes
  <2> QED
    BY <2>1, <2>2, LedgerSteps DEF Posts
<1>3. special' \in {"none", "RIDE_PENDING", "WAITING_FOR_SPONSOR", "REWARD_COMPLETED", "EXPIRED", "CANCELLED"}
  BY SpecialWriters DEF OpenValidation, Redeem, EndSpecial, TypeInv
<1>4. completed' \in BOOLEAN
  BY CompletedWriters DEF CompleteRide, TypeInv
<1>5. walletPaid' \in 0..Fare
  <2>1. CASE RecordCompletion(h)
    BY <2>1 DEF RecordCompletion, StageInv, Stage
  <2> QED
    BY <2>1, WalletPaidWriters DEF TypeInv
<1>6. driver' \in Nat
  <2>1. driver \in Nat
    BY DEF TypeInv
  <2>2. CASE CreditDriver(h)
    BY <2>1, <2>2, Numbers DEF CreditDriver
  <2>3. CASE TrueUp(h)
    <3>1. call[h].seen \in BookType
      BY <2>3 DEF TrueUp, StageInv, Stage
    <3>2. call[h].seen.driverSettled \in {0, Earnings}
      BY <3>1, BookFields
    <3> QED
      BY <2>1, <2>3, <3>2, Numbers DEF TrueUp
  <2> QED
    BY <2>1, <2>2, <2>3, DriverWriters
<1>7. stripe' \in [Payments -> {"none"} \cup Answers]
  <2>1. CASE ChargeStripe(h)
    BY <2>1 DEF ChargeStripe, TypeInv, Answers
  <2> QED
    BY <2>1, StripeWriters DEF TypeInv
<1>8. event' \in [Events -> {"none", "due", "PROCESSING", "FAILED", "PROCESSED"}]
  <2>0. event \in [Events -> {"none", "due", "PROCESSING", "FAILED", "PROCESSED"}]
    BY DEF TypeInv
  <2>1. CASE ChargeStripe(h)
    BY <2>0, <2>1 DEF ChargeStripe, Announce
  <2>2. CASE \E e \in Events: ReceiveEvent(h, e)
    BY <2>0, <2>2 DEF ReceiveEvent
  <2>3. CASE FinishEvent(h) \/ Error(h)
    BY <2>0, <2>3 DEF FinishEvent, Error
  <2> QED
    BY <2>0, <2>1, <2>2, <2>3, EventWriters
<1>9. faults' \subseteq {"error", "crash", "lost answer", "early event", "late failure"}
  <2>0. faults \subseteq {"error", "crash", "lost answer", "early event", "late failure"}
    BY DEF TypeInv
  <2>1. UNCHANGED faults \/ \E kind \in {"error", "lost answer", "early event", "late failure"}: Disturb(kind)
    BY FaultsWriters DEF ChargeStripe, ReceiveEvent, FailedWrite, DebitWallet, Error
  <2> QED
    BY <2>0, <2>1 DEF Disturb
<1> QED
  BY <1>1, <1>2, <1>3, <1>4, <1>5, <1>6, <1>7, <1>8, <1>9, BookTypes, PayTypes, PassesTypes DEF TypeInv
-----------------------------------------------------------------------------
(* Payments at Stripe.                                                     *)

\* A handler at Stripe, or about to be, has a payment that is not the top-up.
LEMMA AtTheCard ==
  ASSUME TypeInv, StageInv, NEW h \in Procs, call[h].at \in AtCard
  PROVE  call[h].id \in Payments /\ call[h].id # Topup /\ call[h].event = None
<1>1. call[h].id = Charge \/ call[h].id \in Additionals
  BY DEF StageInv, Stage
<1>2. call[h].event = None
  BY DEF StageInv, Stage
<1> QED
  BY <1>1, <1>2, Ids

LEMMA AtTheRow ==
  ASSUME TypeInv, StageInv, KnowInv, PayInv, NEW h \in Procs, call[h].at = "row"
  PROVE  /\ call[h].id \in Payments /\ call[h].event \in Events /\ call[h].event[2] \in {"succeeded", "failed"}
         /\ call[h].event[2] = "succeeded" => stripe[call[h].id] = "succeeded"
         /\ call[h].event[2] = "failed" => call[h].id # Topup /\ stripe[call[h].id] = "declined"
         /\ pay[call[h].id].status # "none"
<1>1. \/ call[h].event = <<call[h].id, "succeeded">> /\ call[h].id \in Payments
      \/ call[h].event = <<call[h].id, "failed">> /\ call[h].id \in Payments \ {Topup}
  BY DEF StageInv, Stage
<1>2. ASSUME NEW e \in Events, call[h].event = e PROVE event[e] = "PROCESSING"
  BY <1>2, Ids DEF KnowInv, Knows
<1>3. CASE call[h].event = <<call[h].id, "succeeded">> /\ call[h].id \in Payments
  <2>1. PICK id \in Payments: id = call[h].id
    BY <1>3
  <2>2. PICK e: e = <<id, "succeeded">>
    OBVIOUS
  <2>3. e \in Events /\ call[h].event = e /\ e[2] = "succeeded"
    BY <1>3, <2>1, <2>2, EventNames
  <2>4. event[<<id, "succeeded">>] # "none"
    BY <1>2, <2>2, <2>3
  <2>5. stripe[id] = "succeeded"
    BY <2>4 DEF PayInv
  <2>6. pay[id].status # "none"
    BY <2>5 DEF PayInv
  <2> QED
    BY <2>1, <2>3, <2>5, <2>6
<1>4. CASE call[h].event = <<call[h].id, "failed">> /\ call[h].id \in Payments \ {Topup}
  <2>1. PICK id \in Payments: id = call[h].id /\ id # Topup
    BY <1>4
  <2>2. PICK e: e = <<id, "failed">>
    OBVIOUS
  <2>3. e \in Events /\ call[h].event = e /\ e[2] = "failed"
    BY <1>4, <2>1, <2>2, EventNames
  <2>4. event[<<id, "failed">>] # "none"
    BY <1>2, <2>2, <2>3
  <2>5. stripe[id] = "declined"
    BY <2>4 DEF PayInv
  <2>6. pay[id].status # "none"
    BY <2>5 DEF PayInv
  <2> QED
    BY <2>1, <2>3, <2>5, <2>6
<1> QED
  BY <1>1, <1>3, <1>4

\* A row stays and keeps its amount; it becomes SUCCEEDED when Stripe has
\* succeeded.
LEMMA PayMoves ==
  ASSUME TypeInv, StageInv, KnowInv, PayInv, NEW h \in Procs, HandlerStep(h), NEW id \in Payments
  PROVE  /\ pay[id].status # "none" => pay'[id].status # "none" /\ pay'[id].amount = pay[id].amount
         /\ pay[id].status = "none" /\ pay'[id].status # "none" =>
              ChargeInsert(h) /\ Goto(h, "stripe") /\ id = call[h].id /\ id # Topup /\ pay'[id].amount = call[h].amount
         /\ pay'[id].status = "SUCCEEDED" /\ id # Topup => stripe[id] = "succeeded"
<1>0. pay \in [Payments -> PayType] /\ Topup \in Payments
  BY Types, Ids
<1>1. CASE ChargeInsert(h)
  <2>1. call[h].id \in Payments /\ call[h].id # Topup
    BY <1>1, AtTheCard DEF ChargeInsert, AtCard
  <2>2. CASE pay' = pay
    BY <1>0, <2>2 DEF PayInv
  <2>3. CASE /\ pay[call[h].id].status = "none" /\ Goto(h, "stripe")
             /\ pay' = [pay EXCEPT ![call[h].id] = [status |-> "PENDING", amount |-> call[h].amount]]
    BY <1>0, <1>1, <2>1, <2>3 DEF PayInv
  <2> QED
    BY <1>1, <2>2, <2>3 DEF ChargeInsert
<1>2. CASE ChargeUpdate(h)
  <2>1. call[h].id \in Payments /\ call[h].id # Topup /\ call[h].answer \in Answers
    BY <1>2, AtTheCard DEF ChargeUpdate, AtCard, StageInv, Stage
  <2>2. PICK status \in {"SUCCEEDED", "REQUIRES_ACTION", "FAILED"}:
          /\ pay' = [pay EXCEPT ![call[h].id].status = status]
          /\ status = "SUCCEEDED" => call[h].answer = "succeeded"
    BY <1>2, <2>1 DEF ChargeUpdate, Answers
  <2>3. status = "SUCCEEDED" => stripe[call[h].id] = "succeeded"
    BY <1>2, <2>2 DEF ChargeUpdate, KnowInv, Knows
  <2>4. stripe[call[h].id] # "none" => pay[call[h].id].status # "none"
    BY <2>1 DEF PayInv
  <2>5. pay[call[h].id].status # "none"
    BY <1>2, <2>4 DEF ChargeUpdate, KnowInv, Knows
  <2> QED
    BY <1>0, <2>1, <2>2, <2>3, <2>5 DEF PayInv, PayType
<1>3. CASE TopupClaim(h) \/ TopupMark(h)
  <2>1. pay[Topup].status # "none"
    BY <1>3 DEF TopupClaim, TopupMark, StageInv, AtTopup
  <2>2. pay' = pay \/ \E status \in {"PROCESSING", "SUCCEEDED"}: pay' = [pay EXCEPT ![Topup].status = status]
    BY <1>3 DEF TopupClaim, TopupMark
  <2> QED
    BY <1>0, <2>1, <2>2 DEF PayInv, PayType
<1>4. CASE EventRow(h)
  <2>1. /\ call[h].id \in Payments /\ pay[call[h].id].status # "none"
        /\ call[h].event[2] = "succeeded" => stripe[call[h].id] = "succeeded"
    BY <1>4, AtTheRow DEF EventRow
  <2>2. PICK status \in {"SUCCEEDED", "FAILED"}:
          /\ pay' = [pay EXCEPT ![call[h].id].status = status]
          /\ status = "SUCCEEDED" => call[h].event[2] = "succeeded" \/ pay[call[h].id].status = "SUCCEEDED"
    BY <1>4 DEF EventRow
  <2> QED
    BY <1>0, <2>1, <2>2 DEF PayInv, PayType
<1>5. CASE UNCHANGED pay
  BY <1>5 DEF PayInv
<1> QED
  BY <1>1, <1>2, <1>3, <1>4, <1>5, PayWriters

\* Stripe decides once.
LEMMA StripeMoves ==
  ASSUME TypeInv, StageInv, KnowInv, NEW h \in Procs, HandlerStep(h), NEW id \in Payments
  PROVE  /\ stripe[id] # "none" => stripe'[id] = stripe[id]
         /\ stripe'[id] # stripe[id] => ChargeStripe(h) /\ id = call[h].id /\ id # Topup /\ pay[id].status # "none"
<1>0. stripe \in [Payments -> {"none"} \cup Answers]
  BY DEF TypeInv
<1>1. CASE ChargeStripe(h)
  <2>1. call[h].id \in Payments /\ call[h].id # Topup
    BY <1>1, AtTheCard DEF ChargeStripe, AtCard
  <2>2. stripe[call[h].id] = "none" /\ pay[call[h].id].status # "none"
    BY <1>1 DEF ChargeStripe, KnowInv, Knows
  <2>3. \E outcome \in Answers: stripe' = [stripe EXCEPT ![call[h].id] = outcome]
    BY <1>1 DEF ChargeStripe, Answers
  <2> QED
    BY <1>0, <1>1, <2>1, <2>2, <2>3
<1>2. CASE UNCHANGED stripe
  BY <1>2
<1> QED
  BY <1>1, <1>2, StripeWriters

\* Stripe reports what it decided, in the step it decides.
LEMMA EventMoves ==
  ASSUME TypeInv, StageInv, KnowInv, NEW h \in Procs, HandlerStep(h), NEW e \in Events
  PROVE  event'[e] # "none" =>
           \/ event[e] # "none"
           \/ /\ ChargeStripe(h) /\ event'[e] = "due"
              /\ \/ e = <<call[h].id, "succeeded">> /\ stripe'[call[h].id] = "succeeded"
                 \/ e = <<call[h].id, "failed">> /\ stripe'[call[h].id] = "declined"
<1>0. event \in [Events -> {"none", "due", "PROCESSING", "FAILED", "PROCESSED"}] /\ stripe \in [Payments -> {"none"} \cup Answers]
  BY DEF TypeInv
<1>1. CASE ChargeStripe(h)
  <2>1. call[h].id \in Payments
    BY <1>1, AtTheCard DEF ChargeStripe, AtCard
  <2>2. PICK outcome \in Answers: stripe' = [stripe EXCEPT ![call[h].id] = outcome] /\ Announce(call[h].id, outcome)
    BY <1>1 DEF ChargeStripe, Answers
  <2>3. stripe'[call[h].id] = outcome
    BY <1>0, <2>1, <2>2
  <2>4. \/ event' = event
        \/ event' = [event EXCEPT ![<<call[h].id, "succeeded">>] = "due"] /\ outcome = "succeeded"
        \/ event' = [event EXCEPT ![<<call[h].id, "failed">>] = "due"] /\ outcome = "declined"
    BY <2>2 DEF Announce, Answers
  <2> QED
    BY <1>0, <1>1, <2>3, <2>4
<1>2. CASE \E d \in Events: ReceiveEvent(h, d)
  BY <1>0, <1>2 DEF ReceiveEvent
<1>3. CASE FinishEvent(h) \/ Error(h)
  <2>1. event' = event \/ (call[h].event \in Events /\ \E s \in {"FAILED", "PROCESSED"}: event' = [event EXCEPT ![call[h].event] = s])
    BY <1>3, Types DEF FinishEvent, Error, CallType
  <2>2. call[h].event \in Events => event[call[h].event] = "PROCESSING"
    BY Ids DEF KnowInv, Knows
  <2> QED
    BY <1>0, <2>1, <2>2
<1> QED
  BY <1>1, <1>2, <1>3, EventWriters
-----------------------------------------------------------------------------
(* What a step does to its handler.                                        *)

Keeps(h) ==
  /\ call'[h].id = call[h].id /\ call'[h].amount = call[h].amount /\ call'[h].answer = call[h].answer
  /\ call'[h].seen = call[h].seen /\ call'[h].event = call[h].event

LEMMA GotoMoves ==
  ASSUME TypeInv, NEW h \in Procs, NEW at \in CallAt, Goto(h, at)
  PROVE  call'[h].at = at /\ Keeps(h)
  BY GotoTurn DEF Keeps

LEMMA Simple ==
  ASSUME TypeInv, NEW h \in Procs
  PROVE
    /\ CompleteRide(h) => call[h].at = "idle" /\ call'[h].at = "credit" /\ Keeps(h)
    /\ CreditDriver(h) => call[h].at = "credit" /\ call'[h].at = "wallet" /\ Keeps(h)
    /\ RecordCompletion(h) => call[h].at = "record" /\ call'[h].at = "settle" /\ Keeps(h)
    /\ SettleWrite(h) => call[h].at = "settled" /\ call'[h].at = "special" /\ Keeps(h)
    /\ Redeem(h) => call[h].at = "idle" /\ call'[h].at = "sponsor" /\ Keeps(h)
    /\ ReconcileSettled(h) => call[h].at = "idle" /\ call'[h].at = "sponsor" /\ Keeps(h)
    /\ TrueUp(h) => call[h].at = "true-up" /\ call'[h].at = "funded" /\ Keeps(h)
    /\ (\E status \in {"EXPIRED", "CANCELLED"}: EndSpecial(h, status)) => call[h].at = "idle" /\ call'[h].at = "claim" /\ Keeps(h)
    /\ RetryAdditionalCharge(h) => call[h].at = "idle" /\ call'[h].at = "claim" /\ Keeps(h)
    /\ ReconcileTopup(h) => call[h].at = "idle" /\ call'[h].at = "top-up" /\ Keeps(h)
    /\ TopupPost(h) => call[h].at = "fund" /\ call'[h].at = "funded top-up" /\ Keeps(h)
    /\ TopupMark(h) => call[h].at = "funded top-up" /\ call'[h].at = "finish" /\ Keeps(h)
    /\ SucceededWrite(h) => call[h].at = "apply" /\ call'[h].at = "recompute" /\ Keeps(h)
    /\ FailedWrite(h) => call[h].at = "failed" /\ call'[h].at = "recompute" /\ Keeps(h)
    /\ RecomputeWrite(h) => call[h].at = "restate" /\ call'[h].at = "finish" /\ Keeps(h)
    /\ OpenValidation(h) => call[h].at = "special" /\ call'[h] = NoCall
    /\ SponsorWrite(h) => call[h].at = "funded" /\ call'[h] = NoCall
    /\ ExpiryWrite(h) => call[h].at = "expired" /\ call'[h] = NoCall
    /\ FinishEvent(h) => call[h].at = "finish" /\ call'[h] = NoCall
<1>1. CompleteRide(h) => call[h].at = "idle" /\ call'[h].at = "credit" /\ Keeps(h)
  BY GotoMoves DEF CompleteRide, Begin, CallAt
<1>2. CreditDriver(h) => call[h].at = "credit" /\ call'[h].at = "wallet" /\ Keeps(h)
  BY GotoMoves DEF CreditDriver, CallAt
<1>3. RecordCompletion(h) => call[h].at = "record" /\ call'[h].at = "settle" /\ Keeps(h)
  BY GotoMoves DEF RecordCompletion, CallAt
<1>4. SettleWrite(h) => call[h].at = "settled" /\ call'[h].at = "special" /\ Keeps(h)
  BY GotoMoves DEF SettleWrite, CallAt
<1>5. Redeem(h) => call[h].at = "idle" /\ call'[h].at = "sponsor" /\ Keeps(h)
  BY GotoMoves DEF Redeem, Begin, CallAt
<1>6. ReconcileSettled(h) => call[h].at = "idle" /\ call'[h].at = "sponsor" /\ Keeps(h)
  BY GotoMoves DEF ReconcileSettled, Begin, CallAt
<1>7. TrueUp(h) => call[h].at = "true-up" /\ call'[h].at = "funded" /\ Keeps(h)
  BY GotoMoves DEF TrueUp, CallAt
<1>8. (\E status \in {"EXPIRED", "CANCELLED"}: EndSpecial(h, status)) => call[h].at = "idle" /\ call'[h].at = "claim" /\ Keeps(h)
  BY GotoMoves DEF EndSpecial, Begin, CallAt
<1>9. RetryAdditionalCharge(h) => call[h].at = "idle" /\ call'[h].at = "claim" /\ Keeps(h)
  BY GotoMoves DEF RetryAdditionalCharge, Begin, CallAt
<1>10. ReconcileTopup(h) => call[h].at = "idle" /\ call'[h].at = "top-up" /\ Keeps(h)
  BY GotoMoves DEF ReconcileTopup, Begin, CallAt
<1>11. TopupPost(h) => call[h].at = "fund" /\ call'[h].at = "funded top-up" /\ Keeps(h)
  BY GotoMoves DEF TopupPost, CallAt
<1>12. TopupMark(h) => call[h].at = "funded top-up" /\ call'[h].at = "finish" /\ Keeps(h)
  BY GotoMoves DEF TopupMark, CallAt
<1>13. SucceededWrite(h) => call[h].at = "apply" /\ call'[h].at = "recompute" /\ Keeps(h)
  BY GotoMoves DEF SucceededWrite, CallAt
<1>14. FailedWrite(h) => call[h].at = "failed" /\ call'[h].at = "recompute" /\ Keeps(h)
  BY GotoMoves DEF FailedWrite, CallAt
<1>15. RecomputeWrite(h) => call[h].at = "restate" /\ call'[h].at = "finish" /\ Keeps(h)
  BY GotoMoves DEF RecomputeWrite, CallAt
<1>16. OpenValidation(h) => call[h].at = "special" /\ call'[h] = NoCall
  BY FinishTurn DEF OpenValidation
<1>17. SponsorWrite(h) => call[h].at = "funded" /\ call'[h] = NoCall
  BY FinishTurn DEF SponsorWrite
<1>18. ExpiryWrite(h) => call[h].at = "expired" /\ call'[h] = NoCall
  BY FinishTurn DEF ExpiryWrite
<1>19. FinishEvent(h) => call[h].at = "finish" /\ call'[h] = NoCall
  BY FinishTurn DEF FinishEvent
<1> QED
  BY <1>1, <1>2, <1>3, <1>4, <1>5, <1>6, <1>7, <1>8, <1>9, <1>10, <1>11, <1>12, <1>13, <1>14, <1>15, <1>16, <1>17, <1>18, <1>19

LEMMA ChargeWalletMoves ==
  ASSUME TypeInv, NEW h \in Procs, ChargeWallet(h)
  PROVE  /\ call[h].at = "wallet" /\ call'[h].at = "record" /\ call'[h].id = call[h].id
         /\ call'[h].answer = call[h].answer /\ call'[h].seen = call[h].seen /\ call'[h].event = call[h].event
<1>1. PICK amount: amount = Least(Share, balance["rider"])
  OBVIOUS
<1>2. amount \in Owed /\ "record" \in CallAt
  BY <1>1, Types, Numbers DEF Least, Owed, CallAt
<1>3. call' = [call EXCEPT ![h].at = "record", ![h].amount = amount] /\ call[h].at = "wallet"
  BY <1>1 DEF ChargeWallet
<1> QED
  BY <1>2, <1>3, AmountTurn

LEMMA SettleReadMoves ==
  ASSUME TypeInv, NEW h \in Procs, SettleRead(h)
  PROVE  /\ call[h].at = "settle" /\ call'[h].id = Charge /\ call'[h].amount = Share - walletPaid
         /\ \/ call'[h].at = "insert" /\ Share > walletPaid
            \/ call'[h].at = "settled" /\ Share <= walletPaid
         /\ call'[h].answer = call[h].answer /\ call'[h].seen = call[h].seen /\ call'[h].event = call[h].event
<1>1. PICK amount: amount = Share - walletPaid
  OBVIOUS
<1>2. PICK at \in {"insert", "settled"}: at = IF amount > 0 THEN "insert" ELSE "settled"
  OBVIOUS
<1>3. amount \in Owed /\ amount \in Int
  <2>1. walletPaid \in Int /\ 0 <= walletPaid /\ walletPaid <= Fare
    BY Types
  <2>2. Share \in Int /\ 0 <= Share /\ Share <= Fare /\ Fare \in Int
    BY Numbers
  <2> QED
    BY <1>1, <2>1, <2>2 DEF Owed
<1>6. at \in CallAt
  BY DEF CallAt
<1>4. ToCard(h, at, Charge, amount) /\ call[h].at = "settle"
  BY <1>1, <1>2 DEF SettleRead, ToCard
<1>5. \/ at = "insert" /\ Share > walletPaid
      \/ at = "settled" /\ Share <= walletPaid
  <2>1. walletPaid \in Int /\ Share \in Int
    BY Types, Numbers
  <2>2. CASE amount > 0
    <3>1. at = "insert"
      BY <1>2, <2>2
    <3>2. Share > walletPaid
      BY <1>1, <2>1, <2>2
    <3> QED
      BY <3>1, <3>2
  <2>3. CASE ~ (amount > 0)
    <3>1. at = "settled"
      BY <1>2, <2>3
    <3>2. Share <= walletPaid
      BY <1>1, <2>1, <2>3
    <3> QED
      BY <3>1, <3>2
  <2> QED
    BY <2>2, <2>3
<1> QED
  BY <1>1, <1>3, <1>4, <1>5, <1>6, CardTurn, Ids

AnsweredAs(h, answer) ==
  /\ call'[h].at = IF call[h].id = Charge THEN "settled" ELSE "expired"
  /\ call'[h].id = call[h].id /\ call'[h].amount = call[h].amount /\ call'[h].answer = answer
  /\ call'[h].seen = call[h].seen /\ call'[h].event = None

LEMMA ChargeInsertMoves ==
  ASSUME TypeInv, StageInv, NEW h \in Procs, ChargeInsert(h)
  PROVE  /\ call[h].at = "insert"
         /\ \/ AnsweredAs(h, "declined") /\ pay' = pay
            \/ AnsweredAs(h, "succeeded") /\ pay' = pay /\ pay[call[h].id].status = "SUCCEEDED"
            \/ /\ call'[h].at = "stripe" /\ Keeps(h) /\ pay[call[h].id].status = "none"
               /\ pay' = [pay EXCEPT ![call[h].id] = [status |-> "PENDING", amount |-> call[h].amount]]
<1>1. call[h].at = "insert" /\ call[h].at \in AtCard /\ Stage(call[h])
  BY DEF ChargeInsert, AtCard, StageInv
<1>2. ASSUME NEW answer \in Answers, Answered(h, answer) PROVE AnsweredAs(h, answer)
  BY <1>1, <1>2, AnsweredTurn DEF AnsweredAs
<1>3. Goto(h, "stripe") => call'[h].at = "stripe" /\ Keeps(h)
  BY GotoMoves DEF CallAt
<1>4. "declined" \in Answers /\ "succeeded" \in Answers
  BY DEF Answers
<1> QED
  BY <1>1, <1>2, <1>3, <1>4 DEF ChargeInsert

LEMMA ChargeStripeMoves ==
  ASSUME TypeInv, NEW h \in Procs, ChargeStripe(h)
  PROVE  /\ call[h].at = "stripe" /\ call'[h].at = "update" /\ call'[h].id = call[h].id
         /\ call'[h].amount = call[h].amount /\ call'[h].seen = call[h].seen /\ call'[h].event = call[h].event
         /\ \E outcome \in Answers:
              /\ stripe' = [stripe EXCEPT ![call[h].id] = outcome] /\ Announce(call[h].id, outcome)
              /\ \/ call'[h].answer = outcome /\ UNCHANGED faults
                 \/ call'[h].answer = "declined" /\ Disturb("lost answer")
<1>1. PICK outcome \in Answers, answer \in Answers:
        /\ stripe' = [stripe EXCEPT ![call[h].id] = outcome] /\ Announce(call[h].id, outcome)
        /\ \/ answer = outcome /\ UNCHANGED faults
           \/ answer = "declined" /\ Disturb("lost answer")
        /\ call' = [call EXCEPT ![h].at = "update", ![h].answer = answer]
  BY DEF ChargeStripe, Answers
<1>2. call[h].at = "stripe" /\ "update" \in CallAt /\ answer \in Answers \cup SettledAs
  BY DEF ChargeStripe, CallAt
<1>3. /\ call'[h].at = "update" /\ call'[h].id = call[h].id /\ call'[h].answer = answer
      /\ call'[h].amount = call[h].amount /\ call'[h].seen = call[h].seen /\ call'[h].event = call[h].event
  BY <1>1, <1>2, AnswerTurn
<1> QED
  BY <1>1, <1>2, <1>3

LEMMA ChargeUpdateMoves ==
  ASSUME TypeInv, StageInv, NEW h \in Procs, ChargeUpdate(h)
  PROVE  call[h].at = "update" /\ AnsweredAs(h, call[h].answer)
<1>1. call[h].at = "update" /\ call[h].at \in AtCard /\ Stage(call[h]) /\ call[h].answer \in Answers
  BY DEF ChargeUpdate, AtCard, StageInv, Stage
<1>2. Answered(h, call[h].answer)
  BY DEF ChargeUpdate
<1> QED
  BY <1>1, <1>2, AnsweredTurn DEF AnsweredAs

LEMMA SponsorReadMoves ==
  ASSUME TypeInv, NEW h \in Procs, SponsorRead(h)
  PROVE  /\ call[h].at = "sponsor"
         /\ \/ call'[h] = NoCall
            \/ /\ call'[h].at = IF book.driverSettled < Earnings THEN "true-up" ELSE "funded"
               /\ call'[h].id = call[h].id /\ call'[h].amount = call[h].amount /\ call'[h].answer = call[h].answer
               /\ call'[h].seen = book /\ call'[h].event = call[h].event
<1>1. call[h].at = "sponsor"
  BY DEF SponsorRead
<1>2. CASE Finish(h)
  BY <1>1, <1>2, FinishTurn
<1>3. CASE ~ Finish(h)
  <2>1. PICK at \in {"true-up", "funded"}: at = IF book.driverSettled < Earnings THEN "true-up" ELSE "funded"
    OBVIOUS
  <2>2. at \in CallAt
    BY DEF CallAt
  <2>3. call' = [call EXCEPT ![h].at = at, ![h].seen = book]
    BY <1>3, <2>1 DEF SponsorRead
  <2> QED
    BY <1>1, <2>1, <2>2, <2>3, SeenTurn
<1> QED
  BY <1>2, <1>3

LEMMA ClaimMoves ==
  ASSUME TypeInv, NEW h \in Procs, Claim(h)
  PROVE  /\ call[h].at = "claim"
         /\ \/ call'[h] = NoCall /\ book' = book
            \/ /\ book.collected < Fare /\ book.status \in {"NONE", "REQUIRED", "FAILED"}
               /\ book' = [book EXCEPT !.status = "PROCESSING", !.expired = TRUE]
               /\ call'[h].at = "consent" /\ call'[h].id = call[h].id /\ call'[h].amount = Fare - book.collected
               /\ call'[h].answer = call[h].answer /\ call'[h].seen = book' /\ call'[h].event = call[h].event
<1>1. call[h].at = "claim"
  BY DEF Claim
<1>2. CASE Finish(h) /\ book' = book
  BY <1>1, <1>2, FinishTurn
<1>3. CASE ~ (Finish(h) /\ book' = book)
  <2>1. /\ book.collected < Fare /\ book.status \in {"NONE", "REQUIRED", "FAILED"}
        /\ book' = [book EXCEPT !.status = "PROCESSING", !.expired = TRUE]
        /\ call' = [call EXCEPT ![h].at = "consent", ![h].seen = book', ![h].amount = Fare - book.collected]
    BY <1>3 DEF Claim
  <2>2. book' \in BookType /\ book \in BookType
    BY <2>1, Types DEF BookType
  <2>3. PICK seen \in BookType, amount \in Owed: seen = book' /\ amount = Fare - book.collected
    BY <2>2, BookNow
  <2>4. ToClaim(h, "consent", seen, amount) /\ "consent" \in CallAt
    BY <2>1, <2>3 DEF ToClaim, CallAt
  <2>5. /\ call'[h].at = "consent" /\ call'[h].id = call[h].id /\ call'[h].amount = amount
        /\ call'[h].answer = call[h].answer /\ call'[h].seen = seen /\ call'[h].event = call[h].event
    BY <2>4, ClaimTurn
  <2> QED
    BY <1>1, <2>1, <2>3, <2>5
<1> QED
  BY <1>2, <1>3

LEMMA ConsentMoves ==
  ASSUME TypeInv, NEW h \in Procs, CheckConsent(h)
  PROVE  /\ call[h].at = "consent"
         /\ \/ call'[h].at = "debit" /\ Keeps(h) /\ book' = book
            \/ call'[h] = NoCall /\ book' = [book EXCEPT !.status = "REQUIRED", !.settled = "EXCEPTION"]
<1>1. Goto(h, "debit") => call'[h].at = "debit" /\ Keeps(h)
  BY GotoMoves DEF CallAt
<1>2. Finish(h) => call'[h] = NoCall
  BY FinishTurn
<1> QED
  BY <1>1, <1>2 DEF CheckConsent

LEMMA DebitMoves ==
  ASSUME TypeInv, NEW h \in Procs, DebitWallet(h)
  PROVE  /\ call[h].at = "debit"
         /\ call'[h].id = call[h].id /\ call'[h].amount = call[h].amount
         /\ call'[h].seen = call[h].seen /\ call'[h].event = call[h].event
         /\ \/ /\ call'[h].at = "expired" /\ call'[h].answer = "succeeded"
               /\ PostOnce([key |-> "wallet-additional", account |-> "rider", amount |-> -call[h].amount])
            \/ /\ call'[h].at = "attempt" /\ call'[h].answer = call[h].answer
               /\ UNCHANGED ledger
<1>1. call[h].at = "debit"
  BY DEF DebitWallet
<1>2. CASE /\ call' = [call EXCEPT ![h].at = "expired", ![h].answer = "succeeded"]
           /\ PostOnce([key |-> "wallet-additional", account |-> "rider", amount |-> -call[h].amount])
  <2>1. "expired" \in CallAt /\ "succeeded" \in Answers \cup SettledAs
    BY DEF CallAt, Answers
  <2> QED
    BY <1>1, <1>2, <2>1, AnswerTurn
<1>3. CASE Goto(h, "attempt") /\ UNCHANGED ledger
  BY <1>1, <1>3, GotoTurn DEF CallAt
<1> QED
  BY <1>2, <1>3 DEF DebitWallet, ledger

LEMMA CountMoves ==
  ASSUME TypeInv, NEW h \in Procs, CountAttempts(h)
  PROVE  /\ call[h].at = "attempt" /\ call'[h].at = "insert" /\ call'[h].id \in Additionals
         /\ call'[h].amount = call[h].amount /\ call'[h].answer = call[h].answer
         /\ call'[h].seen = call[h].seen /\ call'[h].event = call[h].event
<1>1. PICK id \in Additionals: call' = [call EXCEPT ![h].at = "insert", ![h].id = id]
  BY DEF CountAttempts, Additionals
<1>2. id \in Payments /\ "insert" \in CallAt /\ call[h].at = "attempt"
  BY Ids DEF CountAttempts, CallAt
<1> QED
  BY <1>1, <1>2, IdTurn

LEMMA SweepMoves ==
  ASSUME TypeInv, NEW h \in Procs, Sweep(h)
  PROVE  /\ call[h].at = "idle"
         /\ \/ call' = call
            \/ call'[h].at = "claim" /\ Keeps(h) /\ book' = book
<1>1. Goto(h, "claim") => call'[h].at = "claim" /\ Keeps(h)
  BY GotoMoves DEF CallAt
<1> QED
  BY <1>1 DEF Sweep, Begin

LEMMA TopupClaimMoves ==
  ASSUME TypeInv, NEW h \in Procs, TopupClaim(h)
  PROVE  /\ call[h].at = "top-up" /\ Keeps(h)
         /\ call'[h].at = "fund" \/ (call'[h].at = "finish" /\ Posted("wallet-topup"))
<1>1. Goto(h, "fund") => call'[h].at = "fund" /\ Keeps(h)
  BY GotoMoves DEF CallAt
<1>2. Goto(h, "finish") => call'[h].at = "finish" /\ Keeps(h)
  BY GotoMoves DEF CallAt
<1> QED
  BY <1>1, <1>2 DEF TopupClaim, Posted

LEMMA EventRowMoves ==
  ASSUME TypeInv, NEW h \in Procs, EventRow(h)
  PROVE  /\ call[h].at = "row" /\ Keeps(h)
         /\ \/ /\ call[h].event[2] = "succeeded" /\ pay' = [pay EXCEPT ![call[h].id].status = "SUCCEEDED"]
               /\ call'[h].at = IF call[h].id = Topup THEN "top-up" ELSE "succeeded"
            \/ /\ call[h].event[2] = "failed"
               /\ call'[h].at = IF call[h].id = Charge THEN "finish" ELSE "failed"
<1>1. PICK at \in {"top-up", "succeeded", "finish", "failed"}:
        /\ Goto(h, at) /\ call[h].at = "row"
        /\ \/ /\ call[h].event[2] = "succeeded" /\ pay' = [pay EXCEPT ![call[h].id].status = "SUCCEEDED"]
              /\ at = IF call[h].id = Topup THEN "top-up" ELSE "succeeded"
           \/ call[h].event[2] = "failed" /\ at = IF call[h].id = Charge THEN "finish" ELSE "failed"
  BY DEF EventRow
<1>2. call'[h].at = at /\ Keeps(h)
  BY <1>1, GotoMoves DEF CallAt
<1> QED
  BY <1>1, <1>2

LEMMA SucceededReadMoves ==
  ASSUME TypeInv, NEW h \in Procs, SucceededRead(h)
  PROVE  /\ call[h].at = "succeeded" /\ call'[h].id = call[h].id /\ call'[h].amount = call[h].amount
         /\ call'[h].answer = call[h].answer /\ call'[h].event = call[h].event
         /\ \/ /\ call'[h].at = "finish" /\ call'[h].seen = call[h].seen
               /\ IF call[h].id = Charge THEN book.chargeIntent = Charge
                  ELSE book.additionalIntent = call[h].id \/ book.status = "COLLECTED"
            \/ /\ call'[h].at = "apply" /\ call'[h].seen = book
               /\ ~ (IF call[h].id = Charge THEN book.chargeIntent = Charge
                     ELSE book.additionalIntent = call[h].id \/ book.status = "COLLECTED")
<1>1. Goto(h, "finish") => call'[h].at = "finish" /\ Keeps(h)
  BY GotoMoves DEF CallAt
<1>2. ASSUME call' = [call EXCEPT ![h].at = "apply", ![h].seen = book]
      PROVE  /\ call'[h].at = "apply" /\ call'[h].seen = book /\ call'[h].id = call[h].id /\ call'[h].amount = call[h].amount
             /\ call'[h].answer = call[h].answer /\ call'[h].event = call[h].event
  BY <1>2, SeenTurn DEF CallAt
<1> QED
  BY <1>1, <1>2 DEF SucceededRead, Keeps

LEMMA RecomputeReadMoves ==
  ASSUME TypeInv, NEW h \in Procs, RecomputeRead(h)
  PROVE  /\ call[h].at = "recompute" /\ call'[h].at \in {"finish", "restate"} /\ call'[h].id = call[h].id
         /\ call'[h].amount = call[h].amount /\ call'[h].seen = call[h].seen /\ call'[h].event = call[h].event
<1>1. book.collected + book.sponsor \in Int
  BY BookNow
<1>2. PICK at \in {"finish", "restate"}, answer \in SettledAs: call' = [call EXCEPT ![h].at = at, ![h].answer = answer]
  BY <1>1, StatusType DEF RecomputeRead, Pending
<1>3. at \in CallAt /\ answer \in Answers \cup SettledAs
  BY DEF CallAt
<1>4. call'[h].at = at /\ call'[h].id = call[h].id
      /\ call'[h].amount = call[h].amount /\ call'[h].seen = call[h].seen /\ call'[h].event = call[h].event
  BY <1>2, <1>3, AnswerTurn
<1> QED
  BY <1>4 DEF RecomputeRead

LEMMA ReceiveMoves ==
  ASSUME TypeInv, NEW h \in Procs, NEW e \in Events, ReceiveEvent(h, e)
  PROVE  /\ call[h].at = "idle" /\ call'[h].at = (IF e[2] = "session" THEN "top-up" ELSE "row")
         /\ call'[h].id = e[1] /\ call'[h].event = e /\ call'[h].seen = call[h].seen
         /\ call'[h].amount = call[h].amount /\ call'[h].answer = call[h].answer
         /\ event[e] \in {"due", "FAILED"} /\ event' = [event EXCEPT ![e] = "PROCESSING"]
<1>1. PICK at \in {"top-up", "row"}: at = IF e[2] = "session" THEN "top-up" ELSE "row"
  OBVIOUS
<1>2. at \in CallAt
  BY DEF CallAt
<1>3. ToEvent(h, at, e)
  BY <1>1 DEF ReceiveEvent, ToEvent
<1>4. /\ call'[h].at = at /\ call'[h].id = e[1] /\ call'[h].event = e /\ call'[h].seen = call[h].seen
      /\ call'[h].amount = call[h].amount /\ call'[h].answer = call[h].answer
  BY <1>2, <1>3, EventTurn
<1> QED
  BY <1>1, <1>4 DEF ReceiveEvent

LEMMA ErrorMoves ==
  ASSUME TypeInv, NEW h \in Procs, Error(h)
  PROVE  /\ call[h].at \notin {"idle", "credit", "special", "debit"} /\ call'[h].at = AfterError(h)
         /\ call'[h].id = None /\ call'[h].event = None /\ call'[h].seen = None /\ call'[h].amount = 0
         /\ call'[h].answer = None
         /\ Disturb("error")
<1>1. PICK at \in {"record", "special", "idle"}: at = AfterError(h)
  BY DEF AfterError
<1>2. PICK c: c = [NoCall EXCEPT !.at = at]
  OBVIOUS
<1>3. c.at = at /\ c.id = None /\ c.event = None /\ c.seen = None /\ c.amount = 0 /\ c.answer = None
  BY <1>2, NoCallType DEF NoCall
<1>4. call' = [call EXCEPT ![h] = c]
  BY <1>1, <1>2 DEF Error
<1>5. call'[h] = c
  BY <1>4, Types
<1> QED
  BY <1>1, <1>3, <1>5 DEF Error
-----------------------------------------------------------------------------
(* What is known of the payments.                                          *)

LEMMA PaySteps ==
  ASSUME TypeInv, StageInv, PayInv, KnowInv, NEW h \in Procs, HandlerStep(h)
  PROVE  PayInv'
<1>0. Topup \in Payments
  BY Ids
<1>1. pay'[Topup].status # "none" => pay'[Topup].amount = TopupAmount
  BY <1>0, PayMoves DEF PayInv
<1>2. stripe'[Topup] \in {"none", "succeeded"}
  BY <1>0, StripeMoves DEF PayInv
<1>3. ASSUME NEW id \in Payments
      PROVE  /\ stripe'[id] # "none" => pay'[id].status # "none"
             /\ event'[<<id, "succeeded">>] # "none" => stripe'[id] = "succeeded"
             /\ event'[<<id, "failed">>] # "none" => stripe'[id] = "declined"
             /\ pay'[id].status = "SUCCEEDED" /\ id # Topup => stripe'[id] = "succeeded"
  <2>0. /\ stripe[id] # "none" => pay[id].status # "none"
        /\ event[<<id, "succeeded">>] # "none" => stripe[id] = "succeeded"
        /\ event[<<id, "failed">>] # "none" => stripe[id] = "declined"
    BY DEF PayInv
  <2>1. stripe'[id] # "none" => pay'[id].status # "none"
    BY <2>0, PayMoves, StripeMoves
  <2>2. event'[<<id, "succeeded">>] # "none" => stripe'[id] = "succeeded"
    <3>1. PICK e \in Events: e = <<id, "succeeded">>
      BY EventNames
    <3>2. event'[e] # "none" => \/ event[e] # "none"
                                \/ e = <<call[h].id, "succeeded">> /\ stripe'[call[h].id] = "succeeded"
                                \/ e = <<call[h].id, "failed">>
      BY EventMoves
    <3>3. event[e] # "none" => stripe'[id] = "succeeded"
      BY <2>0, <3>1, StripeMoves
    <3> QED
      BY <3>1, <3>2, <3>3
  <2>3. event'[<<id, "failed">>] # "none" => stripe'[id] = "declined"
    <3>1. PICK e \in Events: e = <<id, "failed">>
      BY EventNames
    <3>2. event'[e] # "none" => \/ event[e] # "none"
                                \/ e = <<call[h].id, "succeeded">>
                                \/ e = <<call[h].id, "failed">> /\ stripe'[call[h].id] = "declined"
      BY EventMoves
    <3>3. event[e] # "none" => stripe'[id] = "declined"
      BY <2>0, <3>1, StripeMoves
    <3> QED
      BY <3>1, <3>2, <3>3
  <2>4. pay'[id].status = "SUCCEEDED" /\ id # Topup => stripe'[id] = "succeeded"
    BY PayMoves, StripeMoves
  <2> QED
    BY <2>1, <2>2, <2>3, <2>4
<1>4. event'[<<Topup, "session">>] # "none" => stripe'[Topup] = "succeeded"
  <2>1. PICK e \in Events: e = <<Topup, "session">>
    BY EventNames
  <2>2. event'[e] # "none" => event[e] # "none"
    BY <2>1, EventMoves
  <2> QED
    BY <1>0, <2>1, <2>2, StripeMoves DEF PayInv
<1>5. /\ \A e \in entries': e.key = "wallet-topup" \/ e.amount < 0
      /\ \A d, e \in entries': d.key = e.key => d = e
  <2>0. /\ \A e \in entries: e.key = "wallet-topup" \/ e.amount < 0
        /\ \A d, e \in entries: d.key = e.key => d = e
    BY DEF PayInv
  <2>1. CASE entries' = entries
    BY <2>0, <2>1
  <2>2. ASSUME NEW e \in Wallet!Entry, Posts(h, e)
        PROVE  /\ \A d \in entries': d.key = "wallet-topup" \/ d.amount < 0
               /\ \A d, f \in entries': d.key = f.key => d = f
    <3>1. entries' = entries \cup {e} /\ ~ Posted(e.key)
      BY <2>2, PostTypes DEF Posts
    <3>2. \A d \in entries: d.key # e.key
      BY <3>1 DEF Posted, Wallet!Posted
    <3>3. e.key = "wallet-topup" \/ e.amount < 0
      <4>1. CASE ChargeWallet(h) /\ e.amount = -call'[h].amount /\ 0 < call'[h].amount
        BY <4>1, ChargedAmount
      <4>2. CASE DebitWallet(h) /\ e.amount = -call[h].amount
        <5>1. Whole(call[h])
          BY <4>2 DEF DebitWallet, StageInv, Stage
        <5> QED
          BY <4>2, <5>1, WholeAmount
      <4> QED
        BY <2>2, <4>1, <4>2 DEF Posts
    <3> QED
      BY <2>0, <3>1, <3>2, <3>3
  <2> QED
    BY <2>1, <2>2, LedgerSteps
<1> QED
  BY <1>1, <1>2, <1>3, <1>4, <1>5 DEF PayInv

\* An event leaves PROCESSING when the handler that holds it is done with it.
LEMMA EventStays ==
  ASSUME TypeInv, StageInv, PayInv, KnowInv, NEW h \in Procs, HandlerStep(h), NEW e \in Events, event[e] = "PROCESSING"
  PROVE  \/ event'[e] = "PROCESSING"
         \/ call[h].event = e /\ FinishEvent(h) /\ event'[e] = "PROCESSED"
         \/ call[h].event = e /\ Error(h) /\ event'[e] = "FAILED"
<1>0. event \in [Events -> {"none", "due", "PROCESSING", "FAILED", "PROCESSED"}]
  BY DEF TypeInv
<1>1. CASE ChargeStripe(h)
  <2>1. call[h].id \in Payments /\ stripe[call[h].id] = "none"
    BY <1>1, AtTheCard DEF ChargeStripe, AtCard, KnowInv, Knows
  <2>2. event[<<call[h].id, "succeeded">>] = "none" /\ event[<<call[h].id, "failed">>] = "none"
    BY <2>1 DEF PayInv
  <2>3. PICK outcome \in Answers: Announce(call[h].id, outcome)
    BY <1>1 DEF ChargeStripe, Answers
  <2>4. \/ event' = event
        \/ event' = [event EXCEPT ![<<call[h].id, "succeeded">>] = "due"]
        \/ event' = [event EXCEPT ![<<call[h].id, "failed">>] = "due"]
    BY <2>3 DEF Announce, Answers
  <2>5. e # <<call[h].id, "succeeded">> /\ e # <<call[h].id, "failed">>
    BY <2>2
  <2> QED
    BY <1>0, <2>4, <2>5
<1>2. CASE \E d \in Events: ReceiveEvent(h, d)
  BY <1>0, <1>2 DEF ReceiveEvent
<1>3. CASE FinishEvent(h)
  BY <1>0, <1>3 DEF FinishEvent
<1>4. CASE Error(h)
  BY <1>0, <1>4 DEF Error
<1> QED
  BY <1>1, <1>2, <1>3, <1>4, EventWriters

\* A handler keeps its event until it is done; a new event is nobody's.
LEMMA EventHeld ==
  ASSUME TypeInv, StageInv, NEW h \in Procs, HandlerStep(h)
  PROVE  /\ FinishEvent(h) \/ Error(h) => call'[h].event = None
         /\ \/ call'[h].event \in {None, call[h].event}
            \/ \E e \in Events: ReceiveEvent(h, e) /\ call'[h].event = e
<1>0. FinishEvent(h) \/ Error(h) => call'[h].event = None
  BY Simple, ErrorMoves, NoCallType
<1> SUFFICES \/ call'[h].event \in {None, call[h].event}
             \/ \E e \in Events: ReceiveEvent(h, e) /\ call'[h].event = e
  BY <1>0
<1>1. CASE \/ OpenValidation(h) \/ SponsorWrite(h) \/ ExpiryWrite(h) \/ FinishEvent(h) \/ Error(h)
  BY <1>1, Simple, ErrorMoves, NoCallType
<1>2. CASE \E e \in Events: ReceiveEvent(h, e)
  BY <1>2, ReceiveMoves
<1>3. CASE \/ CompleteRide(h) \/ CreditDriver(h) \/ RecordCompletion(h) \/ SettleWrite(h) \/ Redeem(h)
           \/ ReconcileSettled(h) \/ TrueUp(h) \/ (\E status \in {"EXPIRED", "CANCELLED"}: EndSpecial(h, status))
           \/ RetryAdditionalCharge(h) \/ ReconcileTopup(h) \/ TopupPost(h) \/ TopupMark(h) \/ SucceededWrite(h)
           \/ FailedWrite(h) \/ RecomputeWrite(h)
  BY <1>3, Simple DEF Keeps
<1>4. CASE \/ ChargeWallet(h) \/ SettleRead(h) \/ ChargeStripe(h) \/ DebitWallet(h) \/ CountAttempts(h) \/ TopupClaim(h)
           \/ EventRow(h) \/ SucceededRead(h) \/ RecomputeRead(h)
  BY <1>4, ChargeWalletMoves, SettleReadMoves, ChargeStripeMoves, DebitMoves, CountMoves, TopupClaimMoves,
     EventRowMoves, SucceededReadMoves, RecomputeReadMoves DEF Keeps
<1>5. CASE \/ ChargeInsert(h) \/ ChargeUpdate(h) \/ SponsorRead(h) \/ Claim(h) \/ CheckConsent(h) \/ Sweep(h)
  BY <1>5, ChargeInsertMoves, ChargeUpdateMoves, SponsorReadMoves, ClaimMoves, ConsentMoves, SweepMoves, NoCallType
     DEF Keeps, AnsweredAs
<1> QED
  BY <1>1, <1>2, <1>3, <1>4, <1>5 DEF HandlerStep, Working

\* How a handler got where it is.
Arrival(h) ==
  LET at == call'[h].at IN
  /\ at = "credit" => CompleteRide(h)
  /\ at = "wallet" => CreditDriver(h)
  /\ at = "record" => ChargeWallet(h) \/ (Error(h) /\ call[h].at = "wallet")
  /\ at = "settle" => RecordCompletion(h)
  /\ at = "insert" => SettleRead(h) \/ CountAttempts(h)
  /\ at = "stripe" => ChargeInsert(h)
  /\ at = "update" => ChargeStripe(h)
  /\ at = "settled" => SettleRead(h) \/ ChargeInsert(h) \/ ChargeUpdate(h)
  /\ at = "special" => SettleWrite(h) \/ (Error(h) /\ AfterError(h) = "special")
  /\ at = "sponsor" => Redeem(h) \/ ReconcileSettled(h)
  /\ at = "true-up" => SponsorRead(h)
  /\ at = "funded" => SponsorRead(h) \/ TrueUp(h)
  /\ at = "claim" => (\E status \in {"EXPIRED", "CANCELLED"}: EndSpecial(h, status)) \/ Sweep(h) \/ RetryAdditionalCharge(h)
  /\ at = "consent" => Claim(h)
  /\ at = "debit" => CheckConsent(h)
  /\ at = "attempt" => DebitWallet(h)
  /\ at = "expired" => ChargeInsert(h) \/ ChargeUpdate(h) \/ DebitWallet(h)
  /\ at = "funded top-up" => TopupPost(h)
  /\ at = "row" => \E e \in Events: ReceiveEvent(h, e)
  /\ at = "succeeded" => EventRow(h)
  /\ at = "apply" => SucceededRead(h)
  /\ at = "failed" => EventRow(h)
  /\ at = "recompute" => SucceededWrite(h) \/ FailedWrite(h)
  /\ at = "restate" => RecomputeRead(h)
  /\ at = "finish" => TopupClaim(h) \/ TopupMark(h) \/ EventRow(h) \/ SucceededRead(h) \/ RecomputeRead(h) \/ RecomputeWrite(h)

LEMMA Arrivals ==
  ASSUME TypeInv, StageInv, NEW h \in Procs, HandlerStep(h)
  PROVE  Arrival(h)
<1> USE DEF Arrival
<1>1. CASE \/ OpenValidation(h) \/ SponsorWrite(h) \/ ExpiryWrite(h) \/ FinishEvent(h)
  BY <1>1, Simple, NoCallType
<1>2. CASE Error(h)
  <2>1. call'[h].at = AfterError(h)
    BY <1>2, ErrorMoves
  <2>2. /\ AfterError(h) \in {"record", "special", "idle"}
        /\ AfterError(h) = "record" => call[h].at = "wallet"
    BY DEF AfterError
  <2> QED
    BY <1>2, <2>1, <2>2
<1>3. CASE \E e \in Events: ReceiveEvent(h, e)
  <2>1. call'[h].at \in {"top-up", "row"}
    BY <1>3, ReceiveMoves
  <2> QED
    BY <1>3, <2>1
<1>4. CASE \/ CompleteRide(h) \/ CreditDriver(h) \/ RecordCompletion(h) \/ SettleWrite(h) \/ Redeem(h)
           \/ ReconcileSettled(h) \/ TrueUp(h) \/ (\E status \in {"EXPIRED", "CANCELLED"}: EndSpecial(h, status))
           \/ RetryAdditionalCharge(h) \/ ReconcileTopup(h) \/ TopupPost(h) \/ TopupMark(h) \/ SucceededWrite(h)
           \/ FailedWrite(h) \/ RecomputeWrite(h)
  BY <1>4, Simple
<1>5. CASE ChargeWallet(h)
  BY <1>5, ChargeWalletMoves
<1>6. CASE SettleRead(h)
  BY <1>6, SettleReadMoves
<1>7. CASE ChargeInsert(h)
  BY <1>7, ChargeInsertMoves DEF AnsweredAs
<1>8. CASE ChargeStripe(h)
  BY <1>8, ChargeStripeMoves
<1>9. CASE ChargeUpdate(h)
  BY <1>9, ChargeUpdateMoves DEF AnsweredAs
<1>10. CASE SponsorRead(h)
  BY <1>10, SponsorReadMoves, NoCallType
<1>11. CASE Claim(h)
  BY <1>11, ClaimMoves, NoCallType
<1>19. CASE CheckConsent(h)
  BY <1>19, ConsentMoves, NoCallType
<1>12. CASE DebitWallet(h)
  BY <1>12, DebitMoves
<1>13. CASE CountAttempts(h)
  BY <1>13, CountMoves
<1>14. CASE Sweep(h)
  BY <1>14, SweepMoves
<1>15. CASE TopupClaim(h)
  BY <1>15, TopupClaimMoves
<1>16. CASE EventRow(h)
  BY <1>16, EventRowMoves
<1>17. CASE SucceededRead(h)
  BY <1>17, SucceededReadMoves
<1>18. CASE RecomputeRead(h)
  BY <1>18, RecomputeReadMoves
<1> QED
  BY <1>1, <1>2, <1>3, <1>4, <1>5, <1>6, <1>7, <1>8, <1>9, <1>10, <1>11, <1>12, <1>13, <1>14, <1>15, <1>16,
     <1>17, <1>18, <1>19 DEF HandlerStep, Working

LEMMA PostedStays ==
  ASSUME TypeInv, StageInv, PayInv, NEW h \in Procs, HandlerStep(h)
  PROVE  \A key: Posted(key) => Posted(key)'
<1>1. entries \subseteq entries'
  <2>1. ASSUME NEW e \in Wallet!Entry, Posts(h, e) PROVE entries \subseteq entries'
    BY <2>1, PostTypes DEF Posts
  <2> QED
    BY <2>1, LedgerSteps
<1> QED
  BY <1>1 DEF Posted, Wallet!Posted

\* The handlers that stand still know what they knew.
LEMMA OthersKnow ==
  ASSUME TypeInv, StageInv, PayInv, KnowInv, NEW h \in Procs, HandlerStep(h), NEW g \in Procs, g # h
  PROVE  Knows(g)'
<1>1. call'[g] = call[g]
  BY StageSteps DEF Turn
<1>2. PICK c: c = call[g]
  OBVIOUS
<1>3. Stage(c) /\ c \in CallType
  BY <1>2, Types DEF StageInv
<1>4. /\ c.at = "stripe" => stripe[c.id] = "none" /\ pay[c.id].status # "none" /\ pay[c.id].amount = c.amount
      /\ c.at = "update" => stripe[c.id] # "none" /\ (c.answer = "succeeded" => stripe[c.id] = "succeeded")
      /\ c.at = "settled" /\ c.answer = "succeeded" => stripe[Charge] = "succeeded"
      /\ c.at = "expired" /\ c.answer = "succeeded" /\ c.id # None => stripe[c.id] = "succeeded"
      /\ c.at = "expired" /\ c.id = None => Posted("wallet-additional") /\ c.answer = "succeeded"
      /\ c.event # None => event[c.event] = "PROCESSING"
  BY <1>2 DEF KnowInv, Knows
<1>5. c.at = "stripe" => stripe'[c.id] = "none" /\ pay'[c.id].status # "none" /\ pay'[c.id].amount = c.amount
  <2>1. SUFFICES ASSUME c.at = "stripe" PROVE stripe'[c.id] = "none" /\ pay'[c.id].status # "none" /\ pay'[c.id].amount = c.amount
    OBVIOUS
  <2>2. c.id \in Payments
    BY <1>2, <2>1, AtTheCard DEF AtCard
  <2>3. ChargeStripe(h) => call[h].id # c.id
    BY <1>2, <2>1 DEF ChargeStripe, KnowInv
  <2> QED
    BY <1>4, <2>1, <2>2, <2>3, StripeMoves, PayMoves
<1>6. c.at = "update" => stripe'[c.id] # "none" /\ (c.answer = "succeeded" => stripe'[c.id] = "succeeded")
  <2>1. c.at = "update" => c.id \in Payments
    BY <1>2, AtTheCard DEF AtCard
  <2> QED
    BY <1>4, <2>1, StripeMoves
<1>7. c.at = "settled" /\ c.answer = "succeeded" => stripe'[Charge] = "succeeded"
  BY <1>4, Ids, StripeMoves
<1>8. c.at = "expired" /\ c.answer = "succeeded" /\ c.id # None => stripe'[c.id] = "succeeded"
  <2>1. c.at = "expired" /\ c.id # None => c.id \in Payments
    BY <1>3, Ids DEF Stage
  <2> QED
    BY <1>4, <2>1, StripeMoves
<1>9. c.at = "expired" /\ c.id = None => Posted("wallet-additional")' /\ c.answer = "succeeded"
  BY <1>4, PostedStays
<1>10. c.event # None => event'[c.event] = "PROCESSING"
  <2>1. SUFFICES ASSUME c.event # None PROVE event'[c.event] = "PROCESSING"
    OBVIOUS
  <2>2. c.event \in Events
    BY <1>3, <2>1 DEF CallType
  <2>3. call[h].event # c.event
    BY <1>2, <2>1 DEF KnowInv
  <2> QED
    BY <1>4, <2>1, <2>2, <2>3, EventStays
<1> QED
  BY <1>1, <1>2, <1>5, <1>6, <1>7, <1>8, <1>9, <1>10 DEF Knows

\* The handler that moves.
LEMMA MoverKnows ==
  ASSUME TypeInv, StageInv, PayInv, KnowInv, NEW h \in Procs, HandlerStep(h)
  PROVE  Knows(h)'
<1>0. Arrival(h) /\ Stage(call[h]) /\ Stage(call[h])'
  BY Arrivals, StageSteps DEF StageInv, StageAt
<1>1. call'[h].at = "stripe" =>
        stripe'[call'[h].id] = "none" /\ pay'[call'[h].id].status # "none" /\ pay'[call'[h].id].amount = call'[h].amount
  <2>1. SUFFICES ASSUME call'[h].at = "stripe"
                 PROVE  stripe'[call'[h].id] = "none" /\ pay'[call'[h].id].status # "none" /\ pay'[call'[h].id].amount = call'[h].amount
    OBVIOUS
  <2>2. ChargeInsert(h)
    BY <1>0, <2>1 DEF Arrival
  <2>3. call[h].id \in Payments /\ call[h].at = "insert"
    BY <2>2, AtTheCard DEF ChargeInsert, AtCard
  <2>4. /\ call'[h].id = call[h].id /\ call'[h].amount = call[h].amount /\ pay[call[h].id].status = "none"
        /\ pay' = [pay EXCEPT ![call[h].id] = [status |-> "PENDING", amount |-> call[h].amount]]
    BY <2>1, <2>2, ChargeInsertMoves DEF AnsweredAs, Keeps
  <2>5. stripe[call[h].id] = "none" /\ stripe' = stripe
    BY <2>2, <2>3, <2>4 DEF PayInv, ChargeInsert
  <2> QED
    BY <2>3, <2>4, <2>5, Types
<1>2. call'[h].at = "update" => /\ stripe'[call'[h].id] # "none"
                                /\ call'[h].answer = "succeeded" => stripe'[call'[h].id] = "succeeded"
  <2>1. SUFFICES ASSUME call'[h].at = "update"
                 PROVE  /\ stripe'[call'[h].id] # "none"
                        /\ call'[h].answer = "succeeded" => stripe'[call'[h].id] = "succeeded"
    OBVIOUS
  <2>2. ChargeStripe(h)
    BY <1>0, <2>1 DEF Arrival
  <2>3. call[h].id \in Payments
    BY <2>2, AtTheCard DEF ChargeStripe, AtCard
  <2>4. PICK outcome \in Answers:
          /\ stripe' = [stripe EXCEPT ![call[h].id] = outcome]
          /\ call'[h].answer \in {outcome, "declined"}
    BY <2>2, ChargeStripeMoves
  <2>5. stripe'[call[h].id] = outcome /\ call'[h].id = call[h].id
    BY <2>2, <2>3, <2>4, ChargeStripeMoves DEF TypeInv
  <2> QED
    BY <2>4, <2>5 DEF Answers
<1>3. ASSUME AnsweredAs(h, call'[h].answer), call'[h].answer = "succeeded", ChargeInsert(h) \/ ChargeUpdate(h)
      PROVE  call[h].id \in Payments /\ call'[h].id = call[h].id /\ stripe'[call[h].id] = "succeeded"
  <2>1. call[h].id \in Payments /\ call[h].id # Topup
    BY <1>3, AtTheCard DEF ChargeInsert, ChargeUpdate, AtCard
  <2>2. call'[h].id = call[h].id
    BY <1>3 DEF AnsweredAs
  <2>3. CASE ChargeInsert(h)
    <3>1. call'[h].at # "stripe"
      BY <1>3 DEF AnsweredAs
    <3>2. pay[call[h].id].status = "SUCCEEDED"
      BY <1>3, <2>3, <3>1, ChargeInsertMoves DEF AnsweredAs
    <3> QED
      BY <2>1, <2>2, <2>3, <3>2 DEF PayInv, ChargeInsert
  <2>4. CASE ChargeUpdate(h)
    <3>1. call[h].answer = "succeeded" /\ call[h].at = "update"
      BY <1>3, <2>4, ChargeUpdateMoves DEF AnsweredAs
    <3>2. stripe[call[h].id] = "succeeded"
      BY <3>1 DEF KnowInv, Knows
    <3> QED
      BY <2>1, <2>2, <2>4, <3>2 DEF ChargeUpdate
  <2> QED
    BY <1>3, <2>3, <2>4
<1>4. call'[h].at \in {"settled", "expired"} =>
        \/ AnsweredAs(h, call'[h].answer) /\ (ChargeInsert(h) \/ ChargeUpdate(h))
        \/ SettleRead(h) /\ call'[h].at = "settled"
        \/ DebitWallet(h) /\ call'[h].at = "expired"
  <2>1. ChargeInsert(h) /\ call'[h].at # "stripe" => AnsweredAs(h, call'[h].answer)
    BY ChargeInsertMoves DEF AnsweredAs
  <2>2. ChargeUpdate(h) => AnsweredAs(h, call'[h].answer)
    BY ChargeUpdateMoves DEF AnsweredAs
  <2> QED
    BY <1>0, <2>1, <2>2 DEF Arrival
<1>5. call'[h].at = "settled" /\ call'[h].answer = "succeeded" => stripe'[Charge] = "succeeded"
  <2>1. SettleRead(h) => call'[h].answer = None
    BY <1>0, SettleReadMoves DEF Stage
  <2>2. None # "succeeded"
    BY SettlementAssumption
  <2>3. AnsweredAs(h, call'[h].answer) /\ call'[h].at = "settled" => call[h].id = Charge
    BY DEF AnsweredAs
  <2> QED
    BY <1>3, <1>4, <2>1, <2>2, <2>3
<1>6. call'[h].at = "expired" /\ call'[h].id # None /\ call'[h].answer = "succeeded" => stripe'[call'[h].id] = "succeeded"
  <2>1. DebitWallet(h) => call'[h].id = None
    BY <1>0, DebitMoves DEF Stage
  <2> QED
    BY <1>3, <1>4, <2>1
<1>7. call'[h].at = "expired" /\ call'[h].id = None => Posted("wallet-additional")' /\ call'[h].answer = "succeeded"
  <2>1. SUFFICES ASSUME call'[h].at = "expired", call'[h].id = None
                 PROVE  Posted("wallet-additional")' /\ call'[h].answer = "succeeded"
    OBVIOUS
  <2>2. AnsweredAs(h, call'[h].answer) /\ (ChargeInsert(h) \/ ChargeUpdate(h)) => call'[h].id \in Payments
    BY AtTheCard DEF ChargeInsert, ChargeUpdate, AtCard, AnsweredAs
  <2>3. DebitWallet(h)
    BY <1>4, <2>1, <2>2, Ids
  <2>4. /\ call'[h].answer = "succeeded"
        /\ PostOnce([key |-> "wallet-additional", account |-> "rider", amount |-> -call[h].amount])
    BY <2>1, <2>3, DebitMoves
  <2>5. PICK e: e = [key |-> "wallet-additional", account |-> "rider", amount |-> -call[h].amount]
    OBVIOUS
  <2>6. e.key = "wallet-additional" /\ (Posted(e.key) \/ entries' = entries \cup {e})
    BY <2>4, <2>5 DEF PostOnce, Wallet!Post, Posted
  <2> QED
    BY <2>4, <2>6, PostedStays DEF Posted, Wallet!Posted
<1>8. call'[h].event # None => event'[call'[h].event] = "PROCESSING"
  <2>1. CASE \E e \in Events: ReceiveEvent(h, e) /\ call'[h].event = e
    <3>1. event \in [Events -> {"none", "due", "PROCESSING", "FAILED", "PROCESSED"}]
      BY DEF TypeInv
    <3>2. PICK e \in Events: ReceiveEvent(h, e) /\ call'[h].event = e
      BY <2>1
    <3>3. event' = [event EXCEPT ![e] = "PROCESSING"]
      BY <3>2 DEF ReceiveEvent
    <3> QED
      BY <3>1, <3>2, <3>3
  <2>2. CASE call'[h].event = call[h].event /\ call[h].event # None
    <3>1. call[h].event \in Events /\ event[call[h].event] = "PROCESSING"
      BY <2>2, Types DEF CallType, KnowInv, Knows
    <3>2. ~ FinishEvent(h) /\ ~ Error(h)
      BY <2>2, EventHeld
    <3> QED
      BY <2>2, <3>1, <3>2, EventStays
  <2> QED
    BY <2>1, <2>2, EventHeld
<1> QED
  BY <1>1, <1>2, <1>5, <1>6, <1>7, <1>8 DEF Knows

LEMMA KnowSteps ==
  ASSUME TypeInv, StageInv, PayInv, KnowInv, NEW h \in Procs, HandlerStep(h)
  PROVE  KnowInv'
<1>1. \A g \in Procs: Knows(g)'
  BY OthersKnow, MoverKnows
<1>2. \A g \in Procs: g # h => call'[g] = call[g]
  BY StageSteps DEF Turn
<1>3. ASSUME NEW g \in Procs, g # h, call'[g].at = "stripe", call'[h].at = "stripe" PROVE call'[g].id # call'[h].id
  <2>1. ChargeInsert(h)
    BY <1>3, Arrivals DEF Arrival
  <2>2. pay[call[h].id].status = "none" /\ call'[h].id = call[h].id
    BY <1>3, <2>1, ChargeInsertMoves DEF AnsweredAs, Keeps
  <2>3. pay[call[g].id].status # "none"
    BY <1>2, <1>3 DEF KnowInv, Knows
  <2> QED
    BY <1>2, <1>3, <2>2, <2>3
<1>4. ASSUME NEW g \in Procs, g # h, call'[g].event # None PROVE call'[g].event # call'[h].event
  <2>1. call'[g].event = call[g].event /\ call[g].event \in Events /\ event[call[g].event] = "PROCESSING"
    BY <1>2, <1>4, Types DEF CallType, KnowInv, Knows
  <2>2. CASE \E e \in Events: ReceiveEvent(h, e) /\ call'[h].event = e
    BY <2>1, <2>2 DEF ReceiveEvent
  <2>3. CASE call'[h].event \in {None, call[h].event}
    BY <1>4, <2>1, <2>3 DEF KnowInv
  <2> QED
    BY <2>2, <2>3, EventHeld
<1>5. ASSUME NEW f \in Procs, NEW g \in Procs, f # g, call'[f].at = "stripe", call'[g].at = "stripe"
      PROVE  call'[f].id # call'[g].id
  <2>1. CASE f # h /\ g # h
    BY <1>2, <1>5, <2>1 DEF KnowInv
  <2> QED
    BY <1>3, <1>5, <2>1
<1>6. ASSUME NEW f \in Procs, NEW g \in Procs, f # g, call'[f].event # None
      PROVE  call'[f].event # call'[g].event
  <2>1. CASE f # h /\ g # h
    BY <1>2, <1>6, <2>1 DEF KnowInv
  <2>2. CASE g = h
    BY <1>4, <1>6, <2>2
  <2>3. CASE f = h
    <3>1. CASE call'[g].event = None
      BY <1>6, <3>1
    <3>2. CASE call'[g].event # None
      BY <1>4, <1>6, <2>3, <3>2
    <3> QED
      BY <3>1, <3>2
  <2> QED
    BY <2>1, <2>2, <2>3
<1> QED
  BY <1>1, <1>5, <1>6 DEF KnowInv

-----------------------------------------------------------------------------
(* The ride.                                                               *)

LEMMA OthersStand ==
  ASSUME TypeInv, StageInv, PayInv, NEW h \in Procs, HandlerStep(h)
  PROVE  \A g \in Procs: g # h => call'[g] = call[g]
  BY StageSteps DEF Turn

\* Who completes, charges more or books the sponsor's part, and since when.
LEMMA RideMoves ==
  ASSUME TypeInv, StageInv, PayInv, NEW h \in Procs, HandlerStep(h)
  PROVE  /\ Completer(h)' => Completer(h) \/ CompleteRide(h)
         /\ Extra(h)' => \/ Extra(h)
                         \/ \E status \in {"EXPIRED", "CANCELLED"}: EndSpecial(h, status)
                         \/ special = "EXPIRED" /\ UNCHANGED special
         /\ Sponsoring(h)' => Sponsoring(h) \/ Redeem(h) \/ ReconcileSettled(h)
<1>0. Arrival(h) /\ Stage(call[h]) /\ Stage(call'[h])
  BY Arrivals, StageSteps DEF StageInv, StageAt
<1>1. ASSUME Completer(h)' PROVE Completer(h) \/ CompleteRide(h)
  <2>1. CASE call'[h].at \in {"credit", "wallet", "record", "settle"}
    BY <1>0, <2>1, Simple, ChargeWalletMoves DEF Arrival, Completer
  <2>2. CASE call'[h].at \in {"settled", "special"}
    <3>1. ChargeInsert(h) \/ ChargeUpdate(h) => AnsweredAs(h, call'[h].answer) \/ call'[h].at = "stripe"
      BY ChargeInsertMoves, ChargeUpdateMoves DEF AnsweredAs
    <3>2. ChargeInsert(h) \/ ChargeUpdate(h) => call[h].at \in AtCard
      BY DEF ChargeInsert, ChargeUpdate, AtCard
    <3>3. (ChargeInsert(h) \/ ChargeUpdate(h)) /\ call'[h].at = "settled" => call[h].id = Charge
      BY <3>1 DEF AnsweredAs
    <3>4. SettleRead(h) => call[h].at = "settle"
      BY DEF SettleRead
    <3>5. SettleWrite(h) => call[h].at = "settled"
      BY DEF SettleWrite
    <3>6. AfterError(h) = "special" => \/ call[h].at \in {"record", "settle", "settled"}
                                       \/ call[h].at \in AtCard /\ call[h].id = Charge
      BY DEF AfterError, AtCard
    <3> QED
      BY <1>0, <2>2, <3>2, <3>3, <3>4, <3>5, <3>6 DEF Arrival, Completer
  <2>3. CASE call'[h].at \in AtCard /\ call'[h].id = Charge
    <3>1. SettleRead(h) => call[h].at = "settle"
      BY DEF SettleRead
    <3>2. CountAttempts(h) => call'[h].id \in Additionals
      BY CountMoves
    <3>3. ChargeInsert(h) \/ ChargeStripe(h) => call[h].at \in AtCard /\ call[h].id = call'[h].id
      BY ChargeInsertMoves, ChargeStripeMoves DEF AtCard, AnsweredAs, Keeps
    <3> QED
      BY <1>0, <2>3, <3>1, <3>2, <3>3, Ids DEF Arrival, Completer, AtCard
  <2> QED
    BY <1>1, <2>1, <2>2, <2>3 DEF Completer
<1>2. ASSUME Extra(h)' PROVE \/ Extra(h)
                             \/ \E status \in {"EXPIRED", "CANCELLED"}: EndSpecial(h, status)
                             \/ special = "EXPIRED" /\ UNCHANGED special
  <2>1. CASE call'[h].at = "claim"
    BY <1>0, <2>1 DEF Arrival, Sweep, RetryAdditionalCharge
  <2>2. CASE call'[h].at \in {"consent", "debit", "attempt"}
    BY <1>0, <2>2 DEF Arrival, Claim, CheckConsent, DebitWallet, Extra
  <2>3. CASE call'[h].at = "expired"
    <3>1. ChargeInsert(h) \/ ChargeUpdate(h) => AnsweredAs(h, call'[h].answer) \/ call'[h].at = "stripe"
      BY ChargeInsertMoves, ChargeUpdateMoves DEF AnsweredAs
    <3>2. ChargeInsert(h) \/ ChargeUpdate(h) => call[h].at \in AtCard
      BY DEF ChargeInsert, ChargeUpdate, AtCard
    <3>3. ChargeInsert(h) \/ ChargeUpdate(h) => call[h].id # Charge
      BY <2>3, <3>1 DEF AnsweredAs
    <3> QED
      BY <1>0, <2>3, <3>2, <3>3 DEF Arrival, Extra, DebitWallet
  <2>4. CASE call'[h].at \in AtCard /\ call'[h].id # Charge
    <3>1. SettleRead(h) => call'[h].id = Charge
      BY SettleReadMoves
    <3>2. CountAttempts(h) => call[h].at = "attempt"
      BY CountMoves
    <3>3. ChargeInsert(h) \/ ChargeStripe(h) => call[h].at \in AtCard /\ call[h].id = call'[h].id
      BY ChargeInsertMoves, ChargeStripeMoves DEF AtCard, AnsweredAs, Keeps
    <3> QED
      BY <1>0, <2>4, <3>1, <3>2, <3>3 DEF Arrival, Extra, AtCard
  <2> QED
    BY <1>2, <2>1, <2>2, <2>3, <2>4 DEF Extra
<1>3. ASSUME Sponsoring(h)' PROVE Sponsoring(h) \/ Redeem(h) \/ ReconcileSettled(h)
  BY <1>0, <1>3 DEF Arrival, Sponsoring, SponsorRead, TrueUp
<1> QED
  BY <1>1, <1>2, <1>3

LEMMA SpecialMoves ==
  ASSUME TypeInv, StageInv, PayInv, RideInv, NEW h \in Procs, HandlerStep(h)
  PROVE  /\ Ended => Ended'
         /\ special = "REWARD_COMPLETED" => special' = "REWARD_COMPLETED"
         /\ Early' => Early
         /\ Early /\ ~ Early' => OpenValidation(h)
         /\ special # special' => completed /\ (Early => Completer(h) /\ OpenValidation(h))
<1>0. special \in {"none", "RIDE_PENDING", "WAITING_FOR_SPONSOR", "REWARD_COMPLETED", "EXPIRED", "CANCELLED"}
  BY DEF TypeInv
<1>1. CASE OpenValidation(h)
  <2>1. Completer(h) /\ special' = IF special = "RIDE_PENDING" THEN "WAITING_FOR_SPONSOR" ELSE special
    BY <1>1 DEF OpenValidation, Completer
  <2>2. completed
    BY <2>1 DEF RideInv
  <2> QED
    BY <1>0, <1>1, <2>1, <2>2 DEF Ended, Early
<1>2. CASE Redeem(h)
  <2>1. special = "WAITING_FOR_SPONSOR" /\ special' = "REWARD_COMPLETED"
    BY <1>2 DEF Redeem
  <2> QED
    BY <2>1 DEF Ended, Early, RideInv
<1>3. CASE \E status \in {"EXPIRED", "CANCELLED"}: EndSpecial(h, status)
  <2>1. special = "WAITING_FOR_SPONSOR" /\ special' \in {"EXPIRED", "CANCELLED"}
    BY <1>3 DEF EndSpecial
  <2> QED
    BY <2>1 DEF Ended, Early, RideInv
<1>4. CASE UNCHANGED special
  BY <1>4 DEF Ended, Early
<1> QED
  BY <1>1, <1>2, <1>3, <1>4, SpecialWriters

LEMMA SponsorMoves ==
  ASSUME TypeInv, NEW h \in Procs, HandlerStep(h), ~ SponsorWrite(h)
  PROVE  book'.sponsor = book.sponsor
<1>0. book \in BookType
  BY Types
<1>1. CASE SettleWrite(h) \/ TrueUp(h) \/ ExpiryWrite(h) \/ RecomputeWrite(h)
  BY <1>0, <1>1 DEF SettleWrite, TrueUp, ExpiryWrite, RecomputeWrite, BookType
<1>2. CASE Claim(h) \/ CheckConsent(h) \/ Sweep(h)
  BY <1>0, <1>2 DEF Claim, CheckConsent, Sweep, BookType
<1>3. CASE SucceededWrite(h) \/ FailedWrite(h)
  BY <1>0, <1>3 DEF SucceededWrite, FailedWrite, BookType
<1> QED
  BY <1>1, <1>2, <1>3, BookWriters

LEMMA RideSteps ==
  ASSUME TypeInv, StageInv, PayInv, KnowInv, RideInv, NEW h \in Procs, HandlerStep(h)
  PROVE  RideInv'
<1>0. \A g \in Procs: g # h => call'[g] = call[g]
  BY OthersStand
<1>1. ASSUME NEW g \in Procs, g # h
      PROVE  /\ Completer(g)' => Completer(g)
             /\ Extra(g)' => Extra(g)
             /\ Sponsoring(g)' => Sponsoring(g)
  BY <1>0, <1>1 DEF Completer, Extra, Sponsoring
<1>2. CompleteRide(h) => ~ completed /\ completed' /\ UNCHANGED special /\ \A g \in Procs: ~ Completer(g)
  BY DEF CompleteRide, RideInv
<1>3. ASSUME NEW f \in Procs, NEW g \in Procs, Completer(f)', Completer(g)' PROVE f = g
  <2>1. CASE f = h
    BY <1>1, <1>2, <1>3, <2>1, RideMoves DEF RideInv
  <2>2. CASE g = h
    BY <1>1, <1>2, <1>3, <2>2, RideMoves DEF RideInv
  <2>3. CASE f # h /\ g # h
    BY <1>1, <1>3, <2>3 DEF RideInv
  <2> QED
    BY <2>1, <2>2, <2>3
<1>4. completed => completed'
  BY CompletedWriters DEF CompleteRide
<1>5. ASSUME NEW g \in Procs, Completer(g)' PROVE completed' /\ Early'
  <2>1. CASE Completer(g)
    <3>1. completed /\ Early
      BY <2>1 DEF RideInv
    <3>2. ASSUME ~ Early' PROVE FALSE
      <4>1. OpenValidation(h)
        BY <3>1, <3>2, SpecialMoves
      <4>2. call[h].at = "special" /\ call'[h] = NoCall
        BY <4>1, Simple
      <4>3. g = h
        BY <2>1, <4>2 DEF Completer, RideInv
      <4> QED
        BY <1>5, <4>2, <4>3, NoCallType DEF Completer, AtCard
    <3> QED
      BY <1>4, <3>1, <3>2
  <2>2. CASE ~ Completer(g)
    <3>1. CompleteRide(h)
      BY <1>1, <1>5, <2>2, RideMoves
    <3>2. Early
      BY <1>2, <3>1 DEF RideInv
    <3> QED
      BY <1>2, <3>1, <3>2 DEF Early
  <2> QED
    BY <2>1, <2>2
<1>6. ASSUME NEW g \in Procs, Extra(g)' PROVE Ended'
  <2>1. CASE Extra(g)
    BY <2>1, SpecialMoves DEF RideInv
  <2>2. CASE ~ Extra(g)
    <3>1. \/ \E status \in {"EXPIRED", "CANCELLED"}: EndSpecial(h, status)
          \/ special = "EXPIRED" /\ UNCHANGED special
      BY <1>1, <1>6, <2>2, RideMoves
    <3> QED
      BY <3>1 DEF EndSpecial, Ended
  <2> QED
    BY <2>1, <2>2
<1>7. ASSUME NEW g \in Procs, Sponsoring(g)' PROVE special' = "REWARD_COMPLETED"
  <2>1. CASE Sponsoring(g)
    BY <2>1, SpecialMoves DEF RideInv
  <2>2. CASE ~ Sponsoring(g)
    <3>1. Redeem(h) \/ ReconcileSettled(h)
      BY <1>1, <1>7, <2>2, RideMoves
    <3> QED
      BY <3>1 DEF Redeem, ReconcileSettled
  <2> QED
    BY <2>1, <2>2
<1>8. ~ completed' => Early'
  <2>1. SUFFICES ASSUME ~ completed' PROVE Early'
    OBVIOUS
  <2>2. ~ completed /\ Early
    BY <1>4, <2>1 DEF RideInv
  <2>3. special' = special
    BY <2>2, SpecialMoves
  <2> QED
    BY <2>2, <2>3 DEF Early
<1>9. book'.sponsor > 0 => special' = "REWARD_COMPLETED"
  <2>1. CASE SponsorWrite(h)
    <3>1. Sponsoring(h)
      BY <2>1 DEF SponsorWrite, Sponsoring
    <3> QED
      BY <3>1, SpecialMoves DEF RideInv
  <2>2. CASE ~ SponsorWrite(h)
    BY <2>2, SponsorMoves, SpecialMoves DEF RideInv
  <2> QED
    BY <2>1, <2>2
<1>10. ASSUME ~ Ended' PROVE ~ Posted("wallet-additional")' /\ \A id \in Additionals: pay'[id].status = "none"
  <2>1. ~ Ended /\ ~ Extra(h)
    BY <1>10, SpecialMoves DEF RideInv
  <2>2. ~ Posted("wallet-additional") /\ \A id \in Additionals: pay[id].status = "none"
    BY <2>1 DEF RideInv
  <2>3. ~ Posted("wallet-additional")'
    <3>1. ~ DebitWallet(h)
      BY <2>1 DEF DebitWallet, Extra
    <3>2. ASSUME NEW e \in Wallet!Entry, Posts(h, e)
          PROVE  entries' = entries \cup {e} /\ e.key # "wallet-additional"
      BY <3>1, <3>2, PostTypes DEF Posts
    <3>3. entries' = entries \/ \E e: entries' = entries \cup {e} /\ e.key # "wallet-additional"
      BY <3>2, LedgerSteps
    <3> QED
      BY <2>2, <3>3 DEF Posted, Wallet!Posted
  <2>4. ASSUME NEW id \in Additionals PROVE pay'[id].status = "none"
    <3>1. id \in Payments /\ id # Charge
      BY Ids
    <3>2. ASSUME ChargeInsert(h), id = call[h].id PROVE FALSE
      BY <2>1, <3>1, <3>2 DEF ChargeInsert, Extra, AtCard
    <3> QED
      BY <2>2, <3>1, <3>2, PayMoves
  <2> QED
    BY <2>3, <2>4
<1> QED
  BY <1>3, <1>5, <1>6, <1>7, <1>8, <1>9, <1>10 DEF RideInv

-----------------------------------------------------------------------------
(* What wallet and card paid.                                              *)

Debit == [e \in entries |-> -e.amount]
Debits == {e \in entries: e.key # "wallet-topup"}
AmountOf == [id \in Payments |-> pay[id].amount]
PaidCards == {id \in Payments \ {Topup}: stripe[id] = "succeeded"}
FromWallet == Total(Debit, Debits)
FromCards == Total(AmountOf, PaidCards)

LEMMA TotalIsSum == \A f, S: Total(f, S) = Sum(f, S)
  BY DEF Total, Sum

LEMMA TakenIs == Taken = FromWallet + FromCards
  BY DEF Taken, FromWallet, FromCards, Debit, Debits, AmountOf, PaidCards

LEMMA DebitsAre ==
  ASSUME TypeInv, PayInv
  PROVE  /\ IsFiniteSet(Debits) /\ \A e \in Debits: Debit[e] = -e.amount /\ Debit[e] \in Nat
         /\ IsFiniteSet(PaidCards) /\ \A id \in PaidCards: AmountOf[id] = pay[id].amount /\ AmountOf[id] \in Nat
<1>1. IsFiniteSet(entries) /\ entries \subseteq Wallet!Entry
  BY DEF TypeInv
<1>2. IsFiniteSet(Debits)
  <2>1. Debits \subseteq entries
    BY DEF Debits
  <2> QED
    BY <1>1, <2>1, FS_Subset
<1>3. ASSUME NEW e \in Debits PROVE Debit[e] = -e.amount /\ Debit[e] \in Nat
  <2>1. e \in entries /\ e.amount < 0 /\ e.amount \in Amounts
    BY <1>1, <1>3 DEF Debits, PayInv, Wallet!Entry
  <2>2. e.amount \in Int
    BY <2>1, Numbers DEF Amounts
  <2> QED
    BY <2>1, <2>2 DEF Debit
<1>4. IsFiniteSet(PaidCards)
  <2>1. PaidCards \subseteq Payments
    BY DEF PaidCards
  <2> QED
    BY <2>1, Ids, FS_Subset
<1>5. ASSUME NEW id \in PaidCards PROVE AmountOf[id] = pay[id].amount /\ AmountOf[id] \in Nat
  <2>1. id \in Payments
    BY <1>5 DEF PaidCards
  <2>2. pay[id].amount \in 0..Most(Fare, TopupAmount)
    BY <2>1, Types DEF PayType
  <2> QED
    BY <2>1, <2>2, Numbers DEF AmountOf
<1> QED
  BY <1>2, <1>3, <1>4, <1>5

LEMMA TakenType ==
  ASSUME TypeInv, PayInv
  PROVE  FromWallet \in Nat /\ FromCards \in Nat /\ Taken \in Int /\ 0 <= Taken /\ Taken = FromWallet + FromCards
<1>1. FromWallet \in Nat
  BY TotalIsSum, DebitsAre, SumType DEF FromWallet
<1>2. FromCards \in Nat
  BY TotalIsSum, DebitsAre, SumType DEF FromCards
<1> QED
  BY <1>1, <1>2, TakenIs

LEMMA WalletStep ==
  ASSUME TypeInv, PayInv, NEW e \in Wallet!Entry, Wallet!Post(e), PayInv'
  PROVE  FromWallet' = IF e.key = "wallet-topup" THEN FromWallet ELSE FromWallet + (-e.amount)
<1>1. entries' = entries \cup {e} /\ ~ Posted(e.key) /\ e \notin entries
  BY PostTypes DEF Posted, Wallet!Posted
<1>2. \A d \in Debits: Debit'[d] = Debit[d]
  BY <1>1 DEF Debit, Debits
<1>3. CASE e.key = "wallet-topup"
  <2>1. Debits' = Debits
    BY <1>1, <1>3 DEF Debits
  <2>2. Sum(Debit', Debits) = Sum(Debit, Debits)
    BY <1>2, DebitsAre, SumSame
  <2> QED
    BY TotalIsSum, <1>3, <2>1, <2>2 DEF FromWallet
<1>4. CASE e.key # "wallet-topup"
  <2>1. Debits' = Debits \cup {e} /\ e \notin Debits
    BY <1>1, <1>4 DEF Debits
  <2>2. Debit'[e] = -e.amount
    BY <1>1 DEF Debit
  <2>3. e.amount \in Int
    BY Numbers DEF Wallet!Entry, Amounts
  <2>4. \A d \in Debits \cup {e}: Debit'[d] \in Int
    BY <1>2, <2>2, <2>3, DebitsAre
  <2>5. Sum(Debit', Debits \cup {e}) = Debit'[e] + Sum(Debit', Debits)
    BY <2>1, <2>4, DebitsAre, SumAdd
  <2>6. Sum(Debit', Debits) = Sum(Debit, Debits)
    BY <1>2, DebitsAre, SumSame
  <2>7. FromWallet \in Nat
    BY TakenType
  <2> QED
    BY TotalIsSum, <1>4, <2>1, <2>2, <2>3, <2>5, <2>6, <2>7 DEF FromWallet
<1> QED
  BY <1>3, <1>4

LEMMA CardStep ==
  ASSUME TypeInv, StageInv, PayInv, KnowInv, NEW h \in Procs, HandlerStep(h)
  PROVE  FromCards' = IF ChargeStripe(h) /\ stripe'[call[h].id] = "succeeded" THEN FromCards + call[h].amount ELSE FromCards
<1>1. ASSUME NEW id \in PaidCards PROVE AmountOf'[id] = AmountOf[id] /\ stripe'[id] = "succeeded"
  <2>1. id \in Payments /\ stripe[id] = "succeeded" /\ pay[id].status # "none"
    BY <1>1 DEF PaidCards, PayInv
  <2> QED
    BY <2>1, PayMoves, StripeMoves DEF AmountOf
<1>2. Sum(AmountOf', PaidCards) = Sum(AmountOf, PaidCards)
  BY <1>1, DebitsAre, SumSame
<1>3. CASE ChargeStripe(h) /\ stripe'[call[h].id] = "succeeded"
  <2>1. call[h].id \in Payments /\ call[h].id # Topup
    BY <1>3, AtTheCard DEF ChargeStripe, AtCard
  <2>2. stripe[call[h].id] = "none" /\ pay[call[h].id].amount = call[h].amount /\ pay' = pay
    BY <1>3 DEF ChargeStripe, KnowInv, Knows
  <2>3. \A id \in Payments: id # call[h].id => stripe'[id] = stripe[id]
    BY StripeMoves
  <2>4. PaidCards' = PaidCards \cup {call[h].id} /\ call[h].id \notin PaidCards
    BY <1>3, <2>1, <2>2, <2>3 DEF PaidCards
  <2>5. AmountOf'[call[h].id] = call[h].amount
    BY <2>1, <2>2 DEF AmountOf
  <2>6. call[h].amount \in Int
    <3>1. pay[call[h].id].amount \in 0..Most(Fare, TopupAmount)
      BY <2>1, Types DEF PayType
    <3> QED
      BY <2>2, <3>1, Numbers
  <2>7. \A id \in PaidCards \cup {call[h].id}: AmountOf'[id] \in Int
    BY <1>1, <2>5, <2>6, DebitsAre
  <2>8. PICK id: id = call[h].id
    OBVIOUS
  <2>9. Sum(AmountOf', PaidCards \cup {id}) = AmountOf'[id] + Sum(AmountOf', PaidCards)
    BY <2>4, <2>7, <2>8, DebitsAre, SumAdd
  <2>10. FromCards \in Nat
    BY TakenType
  <2> QED
    BY <1>2, <1>3, <2>4, <2>5, <2>6, <2>8, <2>9, <2>10, TotalIsSum DEF FromCards
<1>4. CASE ~ (ChargeStripe(h) /\ stripe'[call[h].id] = "succeeded")
  <2>1. PaidCards' = PaidCards
    BY <1>1, <1>4, StripeMoves DEF PaidCards
  <2> QED
    BY <1>2, <1>4, <2>1, TotalIsSum DEF FromCards
<1> QED
  BY <1>3, <1>4

LEMMA TakenSteps ==
  ASSUME TypeInv, StageInv, PayInv, KnowInv, NEW h \in Procs, HandlerStep(h)
  PROVE  /\ Taken' \in Int /\ Taken \in Int /\ 0 <= Taken /\ Taken <= Taken'
         /\ ChargeWallet(h) => Taken' = Taken + call'[h].amount
         /\ DebitWallet(h) => \/ Taken' = Taken /\ UNCHANGED entries
                              \/ /\ ~ Posted("wallet-additional") /\ Posted("wallet-additional")'
                                 /\ Taken' = Taken + call[h].amount
         /\ ChargeStripe(h) => Taken' = IF stripe'[call[h].id] = "succeeded" THEN Taken + call[h].amount ELSE Taken
         /\ ~ ChargeWallet(h) /\ ~ DebitWallet(h) /\ ~ ChargeStripe(h) => Taken' = Taken
<1>1. PayInv' /\ TypeInv'
  BY PaySteps, TypeSteps
<1>2. /\ FromWallet \in Nat /\ FromCards \in Nat /\ Taken = FromWallet + FromCards
      /\ Taken' = FromWallet' + FromCards'
  <2>1. Taken' = FromWallet' + FromCards'
    BY DEF Taken, FromWallet, FromCards, Debit, Debits, AmountOf, PaidCards
  <2> QED
    BY <2>1, TakenType
<1>3. UNCHANGED entries => FromWallet' = FromWallet
  BY DEF FromWallet, Debit, Debits
<1>4. ASSUME NEW e \in Wallet!Entry, Posts(h, e)
      PROVE  FromWallet' = IF e.key = "wallet-topup" THEN FromWallet ELSE FromWallet + (-e.amount)
  BY <1>1, <1>4, WalletStep DEF Posts
<1>5. /\ ChargeWallet(h) => ~ DebitWallet(h) /\ ~ ChargeStripe(h) /\ ~ TopupPost(h)
      /\ DebitWallet(h) => ~ ChargeWallet(h) /\ ~ ChargeStripe(h) /\ ~ TopupPost(h)
      /\ ChargeStripe(h) => UNCHANGED entries /\ ~ ChargeWallet(h) /\ ~ DebitWallet(h)
  BY DEF ChargeWallet, DebitWallet, ChargeStripe, TopupPost, ledger
<1>6. FromCards' = IF ChargeStripe(h) /\ stripe'[call[h].id] = "succeeded" THEN FromCards + call[h].amount ELSE FromCards
  BY CardStep
<1>7. CASE ChargeWallet(h)
  <2>1. call'[h].amount \in Int /\ 0 <= call'[h].amount /\ call'[h].amount = Least(Share, balance["rider"])
    BY <1>7, ChargedAmount
  <2>2. FromWallet' = FromWallet + call'[h].amount
    <3>1. CASE call'[h].amount = 0
      <4>1. UNCHANGED entries
        BY <1>7, <2>1, <3>1 DEF ChargeWallet, ledger
      <4> QED
        BY <1>2, <1>3, <3>1, <4>1
    <3>2. CASE 0 < call'[h].amount
      <4>1. ~ UNCHANGED entries
        <5>1. PICK r: /\ r = [key |-> "wallet-charge", account |-> "rider", amount |-> -Least(Share, balance["rider"])]
                      /\ Wallet!Post(r)
          BY <1>7, <2>1, <3>2 DEF ChargeWallet
        <5>2. entries' = entries \cup {r} /\ r \notin entries
          BY <5>1 DEF Wallet!Post, Wallet!Posted
        <5> QED
          BY <5>2
      <4>2. PICK e \in Wallet!Entry: Posts(h, e)
        BY <4>1, LedgerSteps
      <4>3. e.key = "wallet-charge" /\ e.amount = -call'[h].amount
        BY <1>5, <1>7, <4>2 DEF Posts
      <4>4. FromWallet' = IF e.key = "wallet-topup" THEN FromWallet ELSE FromWallet + (-e.amount)
        BY <1>4, <4>2
      <4> QED
        BY <1>2, <2>1, <4>3, <4>4
    <3> QED
      BY <2>1, <3>1, <3>2
  <2> QED
    BY <1>2, <1>5, <1>6, <1>7, <2>1, <2>2
<1>8. CASE DebitWallet(h)
  <2>1. call[h].amount \in Int /\ 0 < call[h].amount
    <3>1. Whole(call[h])
      BY <1>8 DEF DebitWallet, StageInv, Stage
    <3> QED
      BY <3>1, WholeAmount
  <2>2. CASE UNCHANGED entries
    BY <1>2, <1>3, <1>5, <1>6, <1>8, <2>2
  <2>3. CASE ~ UNCHANGED entries
    <3>1. PICK e \in Wallet!Entry: Posts(h, e)
      BY <2>3, LedgerSteps
    <3>2. /\ e.key = "wallet-additional" /\ e.amount = -call[h].amount /\ ~ Posted("wallet-additional")
          /\ entries' = entries \cup {e}
      BY <1>5, <1>8, <3>1, PostTypes DEF Posts
    <3>4. Posted("wallet-additional")'
      BY <3>2 DEF Posted, Wallet!Posted
    <3>3. FromWallet' = IF e.key = "wallet-topup" THEN FromWallet ELSE FromWallet + (-e.amount)
      BY <1>4, <3>1
    <3> QED
      BY <1>2, <1>5, <1>6, <1>8, <2>1, <3>2, <3>3, <3>4
  <2> QED
    BY <2>2, <2>3
<1>9. CASE ChargeStripe(h)
  <2>1. call[h].amount \in Int /\ 0 <= call[h].amount
    <3>1. call[h].amount \in 0..Fare
      BY <1>9 DEF ChargeStripe, StageInv, Stage, AtCard
    <3> QED
      BY <3>1, Numbers
  <2> QED
    BY <1>2, <1>3, <1>5, <1>6, <1>9, <2>1
<1>10. CASE ~ ChargeWallet(h) /\ ~ DebitWallet(h) /\ ~ ChargeStripe(h)
  <2>1. FromWallet' = FromWallet
    <3>1. CASE UNCHANGED entries
      BY <1>3, <3>1
    <3>2. CASE ~ UNCHANGED entries
      <4>1. PICK e \in Wallet!Entry: Posts(h, e)
        BY <3>2, LedgerSteps
      <4>2. e.key = "wallet-topup"
        BY <1>10, <4>1 DEF Posts
      <4> QED
        BY <1>4, <4>1, <4>2
    <3> QED
      BY <3>1, <3>2
  <2> QED
    BY <1>2, <1>6, <1>10, <2>1
<1> QED
  BY <1>7, <1>8, <1>9, <1>10

-----------------------------------------------------------------------------
(* Who moves the money, and what the books say of it.                      *)

LEMMA ShareStays ==
  ASSUME NEW h \in Procs, HandlerStep(h)
  PROVE  Share' = Share
<1>1. special' = "none" <=> special = "none"
  BY SpecialWriters DEF OpenValidation, Redeem, EndSpecial
<1> QED
  BY <1>1 DEF Share

LEMMA MoneyMovers ==
  ASSUME TypeInv, StageInv, PayInv, KnowInv, NEW h \in Procs, HandlerStep(h)
  PROVE  /\ Taken' # Taken => Completer(h) \/ Extra(h)
         /\ walletPaid' # walletPaid => Completer(h)
<1>1. ChargeWallet(h) => Completer(h)
  BY DEF ChargeWallet, Completer
<1>2. DebitWallet(h) => Extra(h)
  BY DEF DebitWallet, Extra
<1>3. ChargeStripe(h) => Completer(h) \/ Extra(h)
  BY DEF ChargeStripe, Completer, Extra, AtCard
<1>4. RecordCompletion(h) => Completer(h)
  BY DEF RecordCompletion, Completer
<1> QED
  BY <1>1, <1>2, <1>3, <1>4, TakenSteps, WalletPaidWriters

\* While the ride is being settled nobody else moves its money.
LEMMA Alone ==
  ASSUME TypeInv, StageInv, PayInv, KnowInv, RideInv, NEW h \in Procs, HandlerStep(h),
         NEW g \in Procs, g # h, Completer(g)
  PROVE  Taken' = Taken /\ walletPaid' = walletPaid
<1>1. ~ Completer(h) /\ Early
  BY DEF RideInv
<1>2. ~ Extra(h)
  BY <1>1 DEF RideInv, Early, Ended
<1> QED
  BY <1>1, <1>2, MoneyMovers

LEMMA ExtraMoves ==
  ASSUME TypeInv, StageInv, PayInv, NEW h \in Procs, HandlerStep(h), Extra(h)', call'[h].at # "claim"
  PROVE  \/ /\ Claim(h) /\ call'[h].at = "consent" /\ call'[h].seen = book' /\ book'.collected = book.collected
            /\ book'.status = "PROCESSING" /\ call'[h].amount = Fare - book.collected
         \/ /\ Extra(h) /\ call[h].at # "claim"
            /\ call'[h].seen = call[h].seen /\ call'[h].amount = call[h].amount
            /\ \/ CheckConsent(h) /\ book' = book
               \/ DebitWallet(h) \/ CountAttempts(h) \/ ChargeInsert(h) \/ ChargeStripe(h) \/ ChargeUpdate(h)
<1>1. call'[h].at \in {"consent", "debit", "attempt", "expired"} \/ (call'[h].at \in AtCard /\ call'[h].id # Charge)
  BY DEF Extra
<1>2. Arrival(h)
  BY Arrivals
<1>7. CASE call'[h].at = "debit"
  <2>1. CheckConsent(h)
    BY <1>2, <1>7 DEF Arrival
  <2> QED
    BY <1>7, <2>1, ConsentMoves, NoCallType DEF Extra, Keeps
<1>3. CASE call'[h].at = "consent"
  <2>1. Claim(h)
    BY <1>2, <1>3 DEF Arrival
  <2>2. /\ book' = [book EXCEPT !.status = "PROCESSING", !.expired = TRUE] /\ call'[h].seen = book'
        /\ call'[h].amount = Fare - book.collected
    BY <1>3, <2>1, ClaimMoves, NoCallType
  <2>3. book'.collected = book.collected /\ book'.status = "PROCESSING"
    BY <2>2, Types DEF BookType
  <2> QED
    BY <1>3, <2>1, <2>2, <2>3
<1>4. CASE call'[h].at = "attempt"
  <2>1. DebitWallet(h)
    BY <1>2, <1>4 DEF Arrival
  <2> QED
    BY <2>1, DebitMoves DEF Extra
<1>5. CASE call'[h].at = "expired"
  <2>1. CASE ChargeUpdate(h)
    BY <1>5, <2>1, ChargeUpdateMoves DEF Extra, AnsweredAs, AtCard
  <2>2. CASE ChargeInsert(h)
    BY <1>5, <2>2, ChargeInsertMoves DEF Extra, AnsweredAs, AtCard
  <2>3. CASE DebitWallet(h)
    BY <2>3, DebitMoves DEF Extra
  <2> QED
    BY <1>2, <1>5, <2>1, <2>2, <2>3 DEF Arrival
<1>6. CASE call'[h].at \in AtCard /\ call'[h].id # Charge
  <2>1. CASE call'[h].at = "insert"
    <3>1. CountAttempts(h)
      BY <1>2, <1>6, <2>1, SettleReadMoves DEF Arrival
    <3> QED
      BY <3>1, CountMoves DEF Extra
  <2>2. CASE call'[h].at = "stripe"
    <3>1. ChargeInsert(h)
      BY <1>2, <2>2 DEF Arrival
    <3> QED
      BY <1>6, <2>2, <3>1, ChargeInsertMoves DEF Extra, AnsweredAs, AtCard, Keeps
  <2>3. CASE call'[h].at = "update"
    <3>1. ChargeStripe(h)
      BY <1>2, <2>3 DEF Arrival
    <3> QED
      BY <1>6, <3>1, ChargeStripeMoves DEF Extra, AtCard
  <2> QED
    BY <1>6, <2>1, <2>2, <2>3 DEF AtCard
<1> QED
  BY <1>1, <1>3, <1>4, <1>5, <1>6, <1>7

AppliedOf(h) == Least(IF call[h].id = Charge THEN Share ELSE Fare, call[h].seen.collected + pay[call[h].id].amount)

LEMMA CollectedMoves ==
  ASSUME TypeInv, NEW h \in Procs, HandlerStep(h)
  PROVE  \/ book'.collected = book.collected
         \/ SettleWrite(h) /\ book'.collected = IF call[h].answer = "succeeded" THEN Share ELSE walletPaid
         \/ ExpiryWrite(h) /\ book'.collected = ExpiryTotal(h)
         \/ SucceededWrite(h) /\ book'.collected = AppliedOf(h)
<1>0. book \in BookType
  BY Types
<1>1. CASE SettleWrite(h)
  BY <1>0, <1>1 DEF SettleWrite, BookType, Ok
<1>2. CASE TrueUp(h) \/ RecomputeWrite(h) \/ SponsorWrite(h) \/ FailedWrite(h)
  BY <1>0, <1>2 DEF TrueUp, RecomputeWrite, SponsorWrite, FailedWrite, BookType
<1>3. CASE Claim(h) \/ CheckConsent(h) \/ Sweep(h)
  BY <1>0, <1>3 DEF Claim, CheckConsent, Sweep, BookType
<1>4. CASE SucceededWrite(h)
  BY <1>0, <1>4 DEF SucceededWrite, BookType, AppliedOf
<1>5. CASE ExpiryWrite(h)
  BY <1>0, <1>5 DEF ExpiryWrite, BookType
<1> QED
  BY <1>1, <1>2, <1>3, <1>4, <1>5, BookWriters

\* Arithmetic that the steps below need.
LEMMA MoneyTypes ==
  ASSUME TypeInv, StageInv, NEW h \in Procs
  PROVE  /\ call[h].at \in {"record"} \cup AtCard => call[h].amount \in Int /\ 0 <= call[h].amount /\ call[h].amount <= Fare
         /\ Extra(h) /\ call[h].at # "claim" =>
              /\ Whole(call[h]) /\ call[h].seen.collected \in Int /\ call[h].amount \in Int
              /\ call[h].seen.collected + call[h].amount = Fare
<1>1. ASSUME call[h].at \in {"record"} \cup AtCard
      PROVE  call[h].amount \in Int /\ 0 <= call[h].amount /\ call[h].amount <= Fare
  <2>1. call[h].amount \in 0..Fare
    BY <1>1 DEF StageInv, Stage
  <2> QED
    BY <2>1, Numbers
<1>2. ASSUME Extra(h), call[h].at # "claim"
      PROVE  /\ Whole(call[h]) /\ call[h].seen.collected \in Int /\ call[h].amount \in Int
             /\ call[h].seen.collected + call[h].amount = Fare
  <2>1. Whole(call[h])
    BY <1>2 DEF StageInv, Stage, Extra, AtCard
  <2> QED
    BY <2>1, WholeAmount, Numbers
<1> QED
  BY <1>1, <1>2

\* What the books gain was paid before.
LEMMA BooksSteps ==
  ASSUME TypeInv, StageInv, PayInv, KnowInv, TakenInv, NEW h \in Procs, HandlerStep(h)
  PROVE  book'.collected <= Taken
<1>0. Taken \in Int /\ book.collected <= Taken /\ walletPaid <= Taken
  BY TakenSteps DEF TakenInv
<1>1. CASE SettleWrite(h) /\ book'.collected = IF call[h].answer = "succeeded" THEN Share ELSE walletPaid
  <2>1. call[h].answer = "succeeded" => stripe[Charge] = "succeeded"
    BY <1>1 DEF SettleWrite, KnowInv, Knows
  <2> QED
    BY <1>0, <1>1, <2>1 DEF TakenInv
<1>2. CASE ExpiryWrite(h) /\ book'.collected = ExpiryTotal(h)
  <2>1. call[h].at = "expired" /\ Extra(h)
    BY <1>2 DEF ExpiryWrite, Extra
  <2>2. call[h].seen.collected \in Int /\ call[h].amount \in Int /\ call[h].seen.collected + call[h].amount = Fare
    BY <2>1, MoneyTypes
  <2>3. call[h].seen.collected <= Taken
    BY <2>1 DEF TakenInv, TakenAt
  <2>4. ASSUME call[h].answer = "succeeded" PROVE Fare <= Taken
    <3>1. CASE call[h].id = None
      BY <2>1, <3>1 DEF KnowInv, Knows, TakenInv
    <3>2. CASE call[h].id # None
      BY <2>1, <2>4, <3>2 DEF KnowInv, Knows, TakenInv, StageInv, Stage
    <3> QED
      BY <3>1, <3>2
  <2> QED
    BY <1>0, <1>2, <2>2, <2>3, <2>4 DEF ExpiryTotal, Ok
<1>3. CASE SucceededWrite(h) /\ book'.collected = AppliedOf(h)
  <2>1. call[h].at = "apply"
    BY <1>3 DEF SucceededWrite
  <2>2. call[h].id \in Payments /\ call[h].id # Topup /\ stripe[call[h].id] = "succeeded"
    <3>1. call[h].id \in Payments /\ call[h].id # Topup /\ call[h].event = <<call[h].id, "succeeded">>
      BY <2>1 DEF StageInv, Stage
    <3>2. PICK id \in Payments: id = call[h].id
      BY <3>1
    <3>3. call[h].event # None
      <4>1. <<id, "succeeded">> \in Events /\ None \notin Events
        BY EventNames, Ids
      <4> QED
        BY <3>1, <3>2, <4>1
    <3>4. event[<<id, "succeeded">>] = "PROCESSING"
      BY <3>1, <3>2, <3>3 DEF KnowInv, Knows
    <3> QED
      BY <3>1, <3>2, <3>4 DEF PayInv
  <2>3. (IF call[h].id = Charge THEN Share ELSE Fare) <= Taken
    BY <2>2, Ids DEF TakenInv
  <2>4. call[h].seen.collected + pay[call[h].id].amount \in Int
    BY <2>1, ApplyAmounts
  <2> QED
    BY <1>0, <1>3, <2>3, <2>4, Numbers DEF AppliedOf, Least
<1>4. CASE book'.collected = book.collected
  BY <1>0, <1>4
<1> QED
  BY <1>1, <1>2, <1>3, <1>4, CollectedMoves

\* What a charge takes, and for which part of the fare.
LEMMA ChargeSteps ==
  ASSUME TypeInv, StageInv, PayInv, KnowInv, RideInv, TakenInv, NEW h \in Procs, HandlerStep(h)
  PROVE  /\ Taken' \in Int /\ Taken \in Int /\ 0 <= Taken /\ Taken <= Taken'
         /\ ~ completed' => Taken' = 0
         /\ ~ Ended' => Taken' <= Share
         /\ stripe'[Charge] = "succeeded" => Taken' >= Share
         /\ Posted("wallet-additional")' => Taken' >= Fare
         /\ \A id \in Additionals: stripe'[id] = "succeeded" => Taken' >= Fare
<1>0. Taken' \in Int /\ Taken \in Int /\ 0 <= Taken /\ Taken <= Taken'
  BY TakenSteps
<1>1. CASE ChargeWallet(h)
  <2>1. Completer(h) /\ Taken = 0
    BY <1>1 DEF ChargeWallet, Completer, TakenInv, TakenAt
  <2>2. Taken' = call'[h].amount /\ 0 <= call'[h].amount /\ call'[h].amount <= Share /\ call'[h].amount \in Int
    BY <1>1, <2>1, TakenSteps, ChargedAmount
  <2>3. completed /\ Early /\ UNCHANGED <<completed, special, stripe>>
    BY <1>1, <2>1 DEF RideInv, ChargeWallet
  <2>4. ~ Posted("wallet-additional")
    BY <2>3 DEF RideInv, Early, Ended
  <2>5. Posted("wallet-additional")' => Posted("wallet-additional")
    BY <1>1 DEF Posted, Wallet!Posted, ChargeWallet, Wallet!Post, ledger
  <2> QED
    BY <1>0, <2>1, <2>2, <2>3, <2>4, <2>5, Numbers DEF TakenInv
<1>2. CASE DebitWallet(h)
  <2>1. Extra(h) /\ call[h].at = "debit"
    BY <1>2 DEF DebitWallet, Extra
  <2>2. Ended /\ completed /\ UNCHANGED <<completed, special, stripe>>
    BY <1>2, <2>1 DEF RideInv, DebitWallet, Early, Ended
  <2>3. call[h].amount \in Int /\ call[h].seen.collected + call[h].amount = Fare /\ call[h].seen.collected <= Taken
        /\ call[h].seen.collected \in Int
    BY <2>1, MoneyTypes DEF TakenInv, TakenAt
  <2>4. \/ Taken' = Taken /\ UNCHANGED entries
        \/ Taken' = Taken + call[h].amount
    BY <1>2, TakenSteps
  <2>5. UNCHANGED entries => (Posted("wallet-additional")' <=> Posted("wallet-additional"))
    BY DEF Posted, Wallet!Posted
  <2>6. Ended'
    BY <2>2 DEF Ended
  <2> QED
    BY <1>0, <2>2, <2>3, <2>4, <2>5, <2>6, Numbers DEF TakenInv
<1>3. CASE ChargeStripe(h)
  <2>1. call[h].at = "stripe" /\ UNCHANGED <<completed, special, entries>> /\ (Completer(h) \/ Extra(h))
    BY <1>3 DEF ChargeStripe, ledger, Completer, Extra, AtCard
  <2>2. completed
    BY <2>1 DEF RideInv, Early, Ended
  <2>3. Posted("wallet-additional")' <=> Posted("wallet-additional")
    BY <2>1 DEF Posted, Wallet!Posted
  <2>4. Taken' = IF stripe'[call[h].id] = "succeeded" THEN Taken + call[h].amount ELSE Taken
    BY <1>3, TakenSteps
  <2>5. \A id \in Payments: id # call[h].id => stripe'[id] = stripe[id]
    BY StripeMoves
  <2>6. Ended' <=> Ended
    BY <2>1 DEF Ended
  <2>7. call[h].amount \in Int /\ 0 <= call[h].amount
    BY <2>1, MoneyTypes DEF AtCard
  <2>8. CASE call[h].id = Charge
    <3>1. call[h].amount + walletPaid = Share /\ Taken = walletPaid /\ walletPaid \in Int
      BY <2>1, <2>8, Types DEF TakenInv, TakenAt
    <3>2. \A id \in Additionals: stripe'[id] = stripe[id]
      BY <2>5, <2>8, Ids
    <3> QED
      BY <1>0, <2>2, <2>3, <2>4, <2>5, <2>6, <2>7, <2>8, <2>1, <3>1, <3>2, Numbers DEF TakenInv
  <2>9. CASE call[h].id # Charge
    <3>1. Extra(h)
      BY <2>1, <2>9 DEF Extra, AtCard
    <3>2. call[h].amount \in Int /\ call[h].seen.collected + call[h].amount = Fare /\ call[h].seen.collected <= Taken
          /\ call[h].seen.collected \in Int
      BY <2>1, <3>1, MoneyTypes DEF TakenInv, TakenAt
    <3>3. Ended
      BY <3>1 DEF RideInv
    <3>4. stripe'[Charge] = stripe[Charge]
      BY <2>5, <2>9, Ids
    <3>5. \A id \in Additionals: stripe'[id] = "succeeded" => stripe[id] = "succeeded" \/ id = call[h].id
      BY <2>5, Ids
    <3> QED
      BY <1>0, <2>1, <2>2, <2>3, <2>4, <2>6, <2>7, <3>2, <3>3, <3>4, <3>5, Numbers DEF TakenInv
  <2> QED
    BY <2>8, <2>9
<1>4. CASE ~ ChargeWallet(h) /\ ~ DebitWallet(h) /\ ~ ChargeStripe(h)
  <2>1. Taken' = Taken /\ UNCHANGED stripe
    BY <1>4, TakenSteps, StripeWriters
  <2>2. Posted("wallet-additional")' => Posted("wallet-additional")
    <3>1. UNCHANGED entries \/ \E e \in Wallet!Entry: Posts(h, e)
      BY LedgerSteps
    <3>2. ASSUME NEW e \in Wallet!Entry, Posts(h, e) PROVE e.key = "wallet-topup" /\ entries' = entries \cup {e}
      BY <1>4, <3>2, PostTypes DEF Posts
    <3> QED
      BY <3>1, <3>2 DEF Posted, Wallet!Posted
  <2>3. (~ completed' => ~ completed) /\ (~ Ended' => ~ Ended)
    BY SpecialMoves, CompletedWriters DEF CompleteRide
  <2> QED
    BY <1>0, <2>1, <2>2, <2>3 DEF TakenInv
<1> QED
  BY <1>1, <1>2, <1>3, <1>4

\* What the handlers hold of the books never runs ahead either.
LEMMA SeenSteps ==
  ASSUME TypeInv, StageInv, PayInv, KnowInv, TakenInv, NEW h \in Procs, HandlerStep(h), NEW g \in Procs,
         (Extra(g)' /\ call'[g].at # "claim") \/ call'[g].at = "apply"
  PROVE  call'[g].seen.collected <= Taken'
<1>0. Taken' \in Int /\ Taken \in Int /\ Taken <= Taken' /\ book.collected <= Taken
  BY TakenSteps DEF TakenInv
<1>1. CASE g # h
  <2>1. call'[g] = call[g]
    BY <1>1, OthersStand
  <2>2. call[g].seen.collected <= Taken
    BY <2>1 DEF TakenInv, TakenAt, Extra
  <2>3. call[g].seen.collected \in Int
    <3>1. call[g].seen \in BookType
      BY <2>1 DEF StageInv, Stage, Extra, Whole, AtCard
    <3> QED
      BY <3>1, BookFields
  <2> QED
    BY <1>0, <2>1, <2>2, <2>3
<1>2. CASE g = h /\ call'[h].at = "apply"
  <2>1. SucceededRead(h)
    BY <1>2, Arrivals DEF Arrival
  <2>2. call'[h].seen = book
    BY <1>2, <2>1, SucceededReadMoves
  <2> QED
    BY <1>0, <1>2, <2>2, BookNow
<1>3. CASE g = h /\ Extra(h)' /\ call'[h].at # "claim"
  <2>1. CASE call'[h].seen = book' /\ book'.collected = book.collected
    BY <1>0, <1>3, <2>1, BookNow
  <2>2. CASE Extra(h) /\ call[h].at # "claim" /\ call'[h].seen = call[h].seen
    <3>1. call[h].seen.collected <= Taken /\ call[h].seen.collected \in Int
      BY <2>2, MoneyTypes DEF TakenInv, TakenAt
    <3> QED
      BY <1>0, <1>3, <2>2, <3>1
  <2> QED
    BY <1>3, <2>1, <2>2, ExtraMoves
<1> QED
  BY <1>1, <1>2, <1>3

LEMMA TakenAtSteps ==
  ASSUME TypeInv, StageInv, PayInv, KnowInv, RideInv, TakenInv, NEW h \in Procs, HandlerStep(h), NEW g \in Procs
  PROVE  TakenAt(g)'
<1>0. (Extra(g)' /\ call'[g].at # "claim") \/ call'[g].at = "apply" => call'[g].seen.collected <= Taken'
  BY SeenSteps
<1>1. Share' = Share
  BY ShareStays
<1>2. CASE g # h
  <2>1. call'[g] = call[g]
    BY <1>2, OthersStand
  <2>2. Completer(g) => Taken' = Taken /\ walletPaid' = walletPaid
    BY <1>2, Alone
  <2> QED
    BY <1>0, <1>1, <2>1, <2>2 DEF TakenInv, TakenAt, Completer, AtCard
<1>3. CASE g = h
  <2>0. Arrival(h)
    BY Arrivals
  <2>1. call'[h].at = "credit" => Taken' = 0
    <3>1. CompleteRide(h) => Taken' = Taken /\ Taken = 0
      BY TakenSteps DEF CompleteRide, Begin, ChargeWallet, DebitWallet, ChargeStripe, TakenInv
    <3> QED
      BY <2>0, <3>1 DEF Arrival
  <2>2. call'[h].at = "wallet" => Taken' = 0
    <3>1. CreditDriver(h) => Taken' = Taken /\ Taken = 0
      BY TakenSteps DEF CreditDriver, ChargeWallet, DebitWallet, ChargeStripe, TakenInv, TakenAt
    <3> QED
      BY <2>0, <3>1 DEF Arrival
  <2>3. call'[h].at = "record" => Taken' = call'[h].amount
    <3>1. ChargeWallet(h) => Taken' = call'[h].amount
      <4>1. ASSUME ChargeWallet(h) PROVE Taken = 0 /\ call'[h].amount \in Int
        BY <4>1, ChargedAmount DEF ChargeWallet, TakenInv, TakenAt
      <4> QED
        BY <4>1, TakenSteps
    <3>2. Error(h) /\ call[h].at = "wallet" => Taken' = call'[h].amount
      <4> SUFFICES ASSUME Error(h), call[h].at = "wallet" PROVE Taken' = call'[h].amount
        OBVIOUS
      <4>1. call'[h].amount = 0
        BY ErrorMoves
      <4>2. Taken = 0
        BY DEF TakenInv, TakenAt
      <4>3. ~ DebitWallet(h) /\ ~ ChargeStripe(h)
        BY DEF DebitWallet, ChargeStripe
      <4> QED
        BY <4>1, <4>2, <4>3, TakenSteps
    <3> QED
      BY <2>0, <3>1, <3>2 DEF Arrival
  <2>4. call'[h].at = "settle" => Taken' = walletPaid'
    <3>1. RecordCompletion(h) => Taken' = Taken /\ Taken = walletPaid'
      BY TakenSteps DEF RecordCompletion, ChargeWallet, DebitWallet, ChargeStripe, TakenInv, TakenAt
    <3> QED
      BY <2>0, <3>1 DEF Arrival
  <2>5. call'[h].at \in {"insert", "stripe"} /\ call'[h].id = Charge => Taken' = walletPaid' /\ call'[h].amount + walletPaid' = Share
    <3>1. ASSUME SettleRead(h) PROVE Taken' = walletPaid' /\ call'[h].amount + walletPaid' = Share
      <4>1. Taken' = Taken /\ Taken = walletPaid /\ walletPaid' = walletPaid
        BY <3>1, TakenSteps DEF SettleRead, ChargeWallet, DebitWallet, ChargeStripe, TakenInv, TakenAt
      <4> QED
        BY <3>1, <4>1, SettleReadMoves, Types, Numbers
    <3>2. ASSUME CountAttempts(h) PROVE call'[h].id # Charge
      BY <3>2, CountMoves, Ids
    <3>3. ASSUME ChargeInsert(h), call'[h].at = "stripe", call'[h].id = Charge
          PROVE  Taken' = walletPaid' /\ call'[h].amount + walletPaid' = Share
      <4>1. Taken' = Taken /\ walletPaid' = walletPaid
        BY <3>3, TakenSteps DEF ChargeInsert, ChargeWallet, DebitWallet, ChargeStripe
      <4>2. Keeps(h) /\ call[h].at = "insert"
        BY <3>3, ChargeInsertMoves DEF AnsweredAs
      <4> QED
        BY <3>3, <4>1, <4>2 DEF Keeps, TakenInv, TakenAt
    <3> QED
      BY <2>0, <3>1, <3>2, <3>3 DEF Arrival
  <2> QED
    BY <1>0, <1>1, <1>3, <2>1, <2>2, <2>3, <2>4, <2>5 DEF TakenAt
<1> QED
  BY <1>2, <1>3

LEMMA TakenInvSteps ==
  ASSUME TypeInv, StageInv, PayInv, KnowInv, RideInv, TakenInv, NEW h \in Procs, HandlerStep(h)
  PROVE  TakenInv'
<1>1. \A g \in Procs: TakenAt(g)'
  BY TakenAtSteps
<1>2. /\ Taken' \in Int /\ Taken \in Int /\ 0 <= Taken /\ Taken <= Taken'
      /\ ~ completed' => Taken' = 0
      /\ ~ Ended' => Taken' <= Share
      /\ stripe'[Charge] = "succeeded" => Taken' >= Share
      /\ Posted("wallet-additional")' => Taken' >= Fare
      /\ \A id \in Additionals: stripe'[id] = "succeeded" => Taken' >= Fare
  BY ChargeSteps
<1>3. Share' = Share
  BY ShareStays
<1>4. walletPaid' <= Taken'
  <2>1. CASE RecordCompletion(h)
    <3>1. walletPaid' = Taken
      BY <2>1 DEF RecordCompletion, TakenInv, TakenAt
    <3> QED
      BY <1>2, <3>1
  <2>2. CASE UNCHANGED walletPaid
    BY <1>2, <2>2, Types DEF TakenInv
  <2> QED
    BY <2>1, <2>2, WalletPaidWriters
<1>5. book'.collected <= Taken'
  <2>1. book'.collected \in Int
    BY BookTypes, BookFields
  <2> QED
    BY <1>2, <2>1, BooksSteps
<1> QED
  BY <1>1, <1>2, <1>3, <1>4, <1>5 DEF TakenInv

-----------------------------------------------------------------------------
(* The driver is credited once.                                            *)

LEMMA FaultsGrow ==
  ASSUME NEW h \in Procs, HandlerStep(h)
  PROVE  faults \subseteq faults' /\ (Error(h) => "error" \in faults')
<1>1. faults \subseteq faults'
  BY FaultsWriters DEF ChargeStripe, ReceiveEvent, FailedWrite, DebitWallet, Error, Disturb
<1> QED
  BY <1>1 DEF Error, Disturb

LEMMA DriverSettledMoves ==
  ASSUME TypeInv, NEW h \in Procs, HandlerStep(h)
  PROVE  /\ book'.driverSettled \in {book.driverSettled, Earnings}
         /\ SettleWrite(h) => book'.driverSettled = Earnings
<1>0. book \in BookType
  BY Types
<1>1. CASE SettleWrite(h)
  <2>1. Most(book.driverSettled, Earnings) = Earnings
    BY <1>0, BookFields, Numbers DEF Most
  <2> QED
    BY <1>0, <1>1, <2>1 DEF SettleWrite, BookType
<1>2. ASSUME TrueUp(h) \/ RecomputeWrite(h) \/ SponsorWrite(h) \/ FailedWrite(h)
      PROVE  book'.driverSettled \in {book.driverSettled, Earnings}
  BY <1>0, <1>2 DEF TrueUp, RecomputeWrite, SponsorWrite, FailedWrite, BookType
<1>3. ASSUME Claim(h) \/ CheckConsent(h) \/ Sweep(h) PROVE book'.driverSettled = book.driverSettled
  BY <1>0, <1>3 DEF Claim, CheckConsent, Sweep, BookType
<1>4. ASSUME SucceededWrite(h) \/ ExpiryWrite(h) PROVE book'.driverSettled = book.driverSettled
  BY <1>0, <1>4 DEF SucceededWrite, ExpiryWrite, BookType
<1> QED
  BY <1>1, <1>2, <1>3, <1>4, BookWriters

LEMMA DriverSteps ==
  ASSUME TypeInv, StageInv, PayInv, KnowInv, RideInv, DriverInv, NEW h \in Procs, HandlerStep(h)
  PROVE  DriverInv'
<1> SUFFICES ASSUME "error" \notin faults'
             PROVE  /\ driver' <= Earnings
                    /\ ~ completed' \/ (\E g \in Procs: call'[g].at = "credit") => driver' = 0
                    /\ ~ Early' \/ (\E g \in Procs: call'[g].at = "special") => book'.driverSettled = Earnings
                    /\ \A g \in Procs: call'[g].at # "true-up"
  BY DEF DriverInv
<1>0. /\ driver <= Earnings
      /\ ~ completed \/ (\E g \in Procs: call[g].at = "credit") => driver = 0
      /\ ~ Early \/ (\E g \in Procs: call[g].at = "special") => book.driverSettled = Earnings
      /\ \A g \in Procs: call[g].at # "true-up"
      /\ ~ Error(h)
  BY FaultsGrow DEF DriverInv
<1>1. Arrival(h) /\ \A g \in Procs: g # h => call'[g] = call[g]
  BY Arrivals, OthersStand
<1>2. driver' = driver \/ (CreditDriver(h) /\ driver = 0 /\ driver' = Earnings)
  <2>1. ~ TrueUp(h)
    BY <1>0 DEF TrueUp
  <2>2. CreditDriver(h) => driver = 0 /\ driver' = Earnings
    BY <1>0, Numbers DEF CreditDriver
  <2> QED
    BY <2>1, <2>2, DriverWriters
<1>3. driver' <= Earnings
  BY <1>0, <1>2, Numbers
<1>4. ASSUME ~ completed' PROVE driver' = 0
  <2>1. ~ completed
    BY <1>4, CompletedWriters DEF CompleteRide
  <2>2. ~ CreditDriver(h)
    BY <2>1 DEF CreditDriver, RideInv, Completer
  <2> QED
    BY <1>0, <1>2, <2>1, <2>2
<1>5. ASSUME NEW g \in Procs, call'[g].at = "credit" PROVE driver' = 0
  <2>1. CASE g = h
    <3>1. CompleteRide(h)
      BY <1>1, <1>5, <2>1 DEF Arrival
    <3> QED
      BY <1>0, <3>1 DEF CompleteRide
  <2>2. CASE g # h
    <3>1. call[g].at = "credit" /\ Completer(g)
      BY <1>1, <1>5, <2>2 DEF Completer
    <3>2. ~ CreditDriver(h)
      BY <2>2, <3>1 DEF CreditDriver, RideInv, Completer
    <3> QED
      BY <1>0, <1>2, <3>1, <3>2
  <2> QED
    BY <2>1, <2>2
<1>6. ASSUME ~ Early' PROVE book'.driverSettled = Earnings
  <2>1. Early => OpenValidation(h)
    BY <1>6, SpecialMoves
  <2>2. book.driverSettled = Earnings
    BY <1>0, <2>1 DEF OpenValidation
  <2> QED
    BY <2>2, DriverSettledMoves
<1>7. ASSUME NEW g \in Procs, call'[g].at = "special" PROVE book'.driverSettled = Earnings
  <2>1. CASE g = h
    <3>1. SettleWrite(h)
      BY <1>0, <1>1, <1>7, <2>1 DEF Arrival
    <3> QED
      BY <3>1, DriverSettledMoves
  <2>2. CASE g # h
    BY <1>0, <1>1, <1>7, <2>2, DriverSettledMoves
  <2> QED
    BY <2>1, <2>2
<1>8. ASSUME NEW g \in Procs, call'[g].at = "true-up" PROVE FALSE
  <2>1. g = h
    BY <1>0, <1>1, <1>8
  <2>2. SponsorRead(h)
    BY <1>1, <1>8, <2>1 DEF Arrival
  <2>3. Sponsoring(h) /\ book.driverSettled < Earnings
    BY <1>8, <2>1, <2>2, SponsorReadMoves, NoCallType DEF Sponsoring
  <2>4. book.driverSettled = Earnings
    BY <1>0, <2>3 DEF RideInv, Early
  <2> QED
    BY <2>3, <2>4, Numbers
<1> QED
  BY <1>3, <1>4, <1>5, <1>6, <1>7, <1>8

-----------------------------------------------------------------------------
(* Events leave their mark.                                                *)

LEMMA IntentMoves ==
  ASSUME TypeInv, StageInv, PayInv, KnowInv, EventInv, NEW h \in Procs, HandlerStep(h)
  PROVE  /\ book.chargeIntent = Charge => book'.chargeIntent = Charge
         /\ book.additionalIntent # None => book'.additionalIntent # None
         /\ book'.status = "COLLECTED" => book'.additionalIntent # None \/ Posted("wallet-additional")
         /\ SucceededWrite(h) => IF call[h].id = Charge THEN book'.chargeIntent = Charge ELSE book'.additionalIntent # None
<1>0. book \in BookType
  BY Types
<1>1. book.status = "COLLECTED" => book.additionalIntent # None \/ Posted("wallet-additional")
  BY DEF EventInv
<1>2. CASE SettleWrite(h)
  BY <1>0, <1>1, <1>2 DEF SettleWrite, BookType, SucceededWrite
<1>3. CASE TrueUp(h) \/ RecomputeWrite(h) \/ SponsorWrite(h) \/ FailedWrite(h)
  BY <1>0, <1>1, <1>3 DEF TrueUp, RecomputeWrite, SponsorWrite, FailedWrite, BookType, SucceededWrite
<1>4. CASE Claim(h) \/ CheckConsent(h) \/ Sweep(h)
  BY <1>0, <1>1, <1>4 DEF Claim, CheckConsent, Sweep, BookType, SucceededWrite, Begin
<1>5. CASE SucceededWrite(h)
  <2>1. call[h].id # None
    BY <1>5, ApplyAmounts, Ids DEF SucceededWrite
  <2> QED
    BY <1>0, <1>1, <1>5, <2>1 DEF SucceededWrite, BookType
<1>6. CASE ExpiryWrite(h)
  <2>1. call[h].at = "expired" /\ Extra(h)
    BY <1>6 DEF ExpiryWrite, Extra
  <2>2. call[h].seen.collected \in Int /\ call[h].amount \in Int /\ call[h].seen.collected < Fare
    BY <2>1, MoneyTypes DEF Whole
  <2>3. call[h].id = None => Posted("wallet-additional")
    BY <2>1 DEF KnowInv, Knows
  <2>4. ChargeStatus(ExpiryTotal(h), call[h].answer) = "COLLECTED" => Ok(call[h].answer)
    BY <2>2, Numbers DEF ChargeStatus, ExpiryTotal
  <2>5. /\ book'.status = ChargeStatus(ExpiryTotal(h), call[h].answer) /\ book'.chargeIntent = book.chargeIntent
        /\ book'.additionalIntent = IF Ok(call[h].answer) /\ call[h].id # None THEN call[h].id ELSE book.additionalIntent
    BY <1>0, <1>6 DEF ExpiryWrite, BookType
  <2> QED
    BY <1>6, <2>1, <2>3, <2>4, <2>5 DEF SucceededWrite
<1>7. CASE UNCHANGED book /\ ~ SucceededWrite(h)
  BY <1>1, <1>7, BookNow DEF SucceededWrite
<1> QED
  BY <1>2, <1>3, <1>4, <1>5, <1>6, <1>7, BookWriters

LEMMA AppliedStays ==
  ASSUME TypeInv, StageInv, PayInv, KnowInv, EventInv, NEW h \in Procs, HandlerStep(h), NEW e, Applied(e)
  PROVE  Applied(e)'
  BY IntentMoves, PostedStays DEF Applied

\* What brings a webhook to its last steps has left the event's mark.
LEMMA AppliedBy ==
  ASSUME TypeInv, StageInv, PayInv, KnowInv, EventInv, NEW h \in Procs, HandlerStep(h),
         call'[h].at \in {"recompute", "restate", "finish"}, call'[h].event # None
  PROVE  Applied(call[h].event)'
<1>0. Arrival(h) /\ StageAt(h)'
  BY Arrivals, StageSteps
<1>1. CASE SucceededWrite(h)
  <2>1. call'[h].event = call[h].event /\ call[h].at = "apply"
    BY <1>1, Simple DEF Keeps
  <2>2. call[h].id \in Payments /\ call[h].id # Topup /\ call[h].event = <<call[h].id, "succeeded">>
    BY <2>1 DEF StageInv, Stage
  <2>3. PICK id \in Payments: id = call[h].id
    BY <2>2
  <2>4. IF id = Charge THEN book'.chargeIntent = Charge ELSE book'.additionalIntent # None
    BY <1>1, <2>3, IntentMoves
  <2>5. Charge \notin Additionals /\ Charge # Topup
    BY Ids
  <2>6. Applied(<<id, "succeeded">>)'
    BY <2>2, <2>3, <2>4, <2>5 DEF Applied, PaidTopup
  <2> QED
    BY <2>1, <2>2, <2>3, <2>6 DEF Applied
<1>2. CASE FailedWrite(h)
  <2>1. call'[h].event = call[h].event /\ call[h].at = "failed"
    BY <1>2, Simple DEF Keeps
  <2>2. call[h].event = <<call[h].id, "failed">>
    BY <2>1 DEF StageInv, Stage
  <2>3. PICK id: id = call[h].id
    OBVIOUS
  <2>4. Applied(<<id, "failed">>)'
    BY DEF Applied, PaidTopup
  <2> QED
    BY <2>1, <2>2, <2>3, <2>4 DEF Applied
<1>3. CASE RecomputeRead(h) \/ RecomputeWrite(h)
  <2>1. call'[h].event = call[h].event /\ call[h].at \in {"recompute", "restate"}
    BY <1>3, Simple, RecomputeReadMoves DEF Keeps
  <2>2. Applied(call[h].event)
    BY <2>1 DEF EventInv
  <2>3. PICK e: e = call[h].event
    OBVIOUS
  <2>4. Applied(e)'
    BY <2>2, <2>3, AppliedStays
  <2> QED
    BY <2>1, <2>3, <2>4 DEF Applied
<1>4. CASE TopupClaim(h) \/ TopupMark(h)
  <2>1. call'[h].event = call[h].event /\ call[h].at \in AtTopup /\ call'[h].at = "finish"
    BY <1>4, Simple, TopupClaimMoves DEF Keeps, AtTopup
  <2>2. call[h].event \in PaidTopup
    BY <2>1 DEF StageInv, Stage
  <2>3. Posted("wallet-topup")
    BY <1>4, <2>1, TopupClaimMoves DEF TopupMark, EventInv
  <2>4. Posted("wallet-topup")'
    BY <2>3, PostedStays
  <2>5. PICK e \in PaidTopup: e = call'[h].event
    BY <2>1, <2>2
  <2>6. e[1] = Topup
    BY <2>5 DEF PaidTopup
  <2>7. Applied(e)'
    BY <2>4, <2>6, Ids DEF Applied
  <2> QED
    BY <2>5, <2>7 DEF Applied
<1>5. CASE EventRow(h)
  <2>1. call'[h].event = call[h].event /\ call[h].at = "row" /\ call'[h].at = "finish" /\ call[h].event[2] = "failed"
    BY <1>5, EventRowMoves DEF Keeps
  <2>2. PICK e: e = call'[h].event
    OBVIOUS
  <2>3. e = <<call[h].id, "failed">>
    BY <2>1, <2>2 DEF StageInv, Stage
  <2>4. Applied(e)'
    BY <2>3 DEF Applied, PaidTopup
  <2> QED
    BY <2>2, <2>4 DEF Applied
<1>6. CASE SucceededRead(h)
  <2>1. /\ call'[h].event = call[h].event /\ call[h].at = "succeeded" /\ call'[h].at = "finish"
        /\ IF call[h].id = Charge THEN book.chargeIntent = Charge
           ELSE book.additionalIntent = call[h].id \/ book.status = "COLLECTED"
        /\ UNCHANGED book
    BY <1>6, SucceededReadMoves DEF SucceededRead
  <2>2. call[h].id \in Payments \ {Topup} /\ call[h].event = <<call[h].id, "succeeded">>
    BY <2>1 DEF StageInv, Stage
  <2>3. PICK id \in Payments: id = call[h].id /\ id # Topup /\ id # None
    BY <2>2, Ids
  <2>4. IF id = Charge THEN book'.chargeIntent = Charge
        ELSE book'.additionalIntent # None \/ Posted("wallet-additional")'
    BY <2>1, <2>3, PostedStays DEF EventInv
  <2>5. Applied(<<id, "succeeded">>)'
    BY <2>3, <2>4, Ids DEF Applied, PaidTopup
  <2> QED
    BY <2>1, <2>2, <2>3, <2>5 DEF Applied
<1> QED
  BY <1>0, <1>1, <1>2, <1>3, <1>4, <1>5, <1>6 DEF Arrival

LEMMA ProcessedMoves ==
  ASSUME TypeInv, StageInv, KnowInv, NEW h \in Procs, HandlerStep(h), NEW e \in Events, event'[e] = "PROCESSED"
  PROVE  event[e] = "PROCESSED" \/ (FinishEvent(h) /\ call[h].event = e)
<1>0. event \in [Events -> {"none", "due", "PROCESSING", "FAILED", "PROCESSED"}]
  BY DEF TypeInv
<1>1. CASE ChargeStripe(h)
  BY <1>0, <1>1 DEF ChargeStripe, Announce
<1>2. CASE \E d \in Events: ReceiveEvent(h, d)
  BY <1>0, <1>2 DEF ReceiveEvent
<1>3. CASE FinishEvent(h)
  BY <1>0, <1>3 DEF FinishEvent
<1>4. CASE Error(h)
  BY <1>0, <1>4 DEF Error
<1> QED
  BY <1>1, <1>2, <1>3, <1>4, EventWriters

LEMMA EventSteps ==
  ASSUME TypeInv, StageInv, PayInv, KnowInv, EventInv, NEW h \in Procs, HandlerStep(h)
  PROVE  EventInv'
<1>1. Arrival(h) /\ \A g \in Procs: g # h => call'[g] = call[g]
  BY Arrivals, OthersStand
<1>2. book'.status = "COLLECTED" => book'.additionalIntent # None \/ Posted("wallet-additional")'
  BY IntentMoves, PostedStays
<1>3. ASSUME NEW e \in Events, event'[e] = "PROCESSED" PROVE Applied(e)'
  <2>1. CASE event[e] = "PROCESSED"
    BY <2>1, AppliedStays DEF EventInv
  <2>2. CASE FinishEvent(h) /\ call[h].event = e
    <3>1. call[h].at = "finish" /\ e # None
      BY <2>2, EventNames, Ids DEF FinishEvent
    <3>2. Applied(e)
      BY <2>2, <3>1 DEF EventInv
    <3> QED
      BY <3>2, AppliedStays
  <2> QED
    BY <1>3, <2>1, <2>2, ProcessedMoves
<1>4. ASSUME NEW g \in Procs, call'[g].at \in {"recompute", "restate", "finish"}, call'[g].event # None
      PROVE  Applied(call[g].event)'
  <2>1. CASE g = h
    BY <1>4, <2>1, AppliedBy
  <2>2. CASE g # h
    <3>1. PICK e: e = call[g].event
      OBVIOUS
    <3>2. call'[g].event = e /\ Applied(e)
      BY <1>1, <1>4, <2>2, <3>1 DEF EventInv
    <3>3. Applied(e)'
      BY <3>2, AppliedStays
    <3> QED
      BY <3>2, <3>3 DEF Applied
  <2> QED
    BY <2>1, <2>2
<1>5. ASSUME NEW g \in Procs, call'[g].at = "funded top-up" PROVE Posted("wallet-topup")'
  <2>1. CASE g = h
    <3>1. TopupPost(h)
      BY <1>1, <1>5, <2>1 DEF Arrival
    <3> QED
      <4>1. PICK r: /\ r = [key |-> "wallet-topup", account |-> "rider", amount |-> pay[Topup].amount]
                    /\ (Posted("wallet-topup") /\ UNCHANGED entries) \/ entries' = entries \cup {r}
        BY <3>1 DEF TopupPost, PostOnce, Posted, Wallet!Post, ledger
      <4>2. r.key = "wallet-topup"
        BY <4>1
      <4> QED
        BY <4>1, <4>2 DEF Posted, Wallet!Posted
  <2>2. CASE g # h
    BY <1>1, <1>5, <2>2, PostedStays DEF EventInv
  <2> QED
    BY <2>1, <2>2
<1> QED
  BY <1>2, <1>3, <1>4, <1>5 DEF EventInv

-----------------------------------------------------------------------------
(* With crashes alone, nobody charges twice.                               *)

\* What no step does when nothing but a crash has happened.
LEMMA Clean ==
  ASSUME NEW h \in Procs, HandlerStep(h), OnlyCrash'
  PROVE  /\ OnlyCrash /\ ~ Error(h)
         /\ \A kind \in {"error", "lost answer", "early event", "late failure"}: ~ Disturb(kind)
         /\ FailedWrite(h) => book.status # "PROCESSING"
         /\ \A e \in Events: ReceiveEvent(h, e) => ~ \E g \in Procs: call[g].id = e[1] /\ call[g].event = None
<1>1. \A kind \in {"error", "lost answer", "early event", "late failure"}: ~ Disturb(kind)
  BY DEF OnlyCrash, Disturb
<1>2. faults \subseteq faults'
  BY FaultsGrow
<1> QED
  BY <1>1, <1>2 DEF OnlyCrash, Error, FailedWrite, ReceiveEvent

LEMMA SourceMoves ==
  ASSUME TypeInv, StageInv, PayInv, KnowInv, NEW h \in Procs, HandlerStep(h)
  PROVE  /\ Sourced => Sourced'
         /\ Posted("wallet-additional") => Posted("wallet-additional")'
         /\ Posted("wallet-additional")' => Posted("wallet-additional") \/ DebitWallet(h)
         /\ \A id \in Additionals: stripe'[id] = "succeeded" => stripe[id] = "succeeded" \/ (ChargeStripe(h) /\ id = call[h].id)
         /\ stripe'[Charge] = "succeeded" => stripe[Charge] = "succeeded" \/ (ChargeStripe(h) /\ call[h].id = Charge)
<1>1. Posted("wallet-additional") => Posted("wallet-additional")'
  BY PostedStays
<1>2. \A id \in Payments: stripe[id] # "none" => stripe'[id] = stripe[id]
  BY StripeMoves
<1>3. \A id \in Payments: stripe'[id] # stripe[id] => ChargeStripe(h) /\ id = call[h].id
  BY StripeMoves
<1>4. Charge \in Payments /\ Additionals \subseteq Payments
  BY Ids
<1>5. Posted("wallet-additional")' => Posted("wallet-additional") \/ DebitWallet(h)
  <2>1. UNCHANGED entries \/ \E e \in Wallet!Entry: Posts(h, e)
    BY LedgerSteps
  <2>2. ASSUME NEW e \in Wallet!Entry, Posts(h, e), ~ DebitWallet(h)
        PROVE  e.key # "wallet-additional" /\ entries' = entries \cup {e}
    BY <2>2, PostTypes DEF Posts
  <2> QED
    BY <2>1, <2>2 DEF Posted, Wallet!Posted
<1>6. Sourced => Sourced'
  BY <1>1, <1>2, <1>4 DEF Sourced
<1> QED
  BY <1>1, <1>3, <1>4, <1>5, <1>6

\* Nobody is charged for what is missing before the Special has ended.
LEMMA SourcedEnded ==
  ASSUME PayInv, RideInv, Sourced
  PROVE  Ended /\ ~ Early
<1>1. ASSUME ~ Ended PROVE FALSE
  <2>1. ~ Posted("wallet-additional") /\ \A id \in Additionals: pay[id].status = "none"
    BY <1>1 DEF RideInv
  <2> QED
    BY <2>1, Ids DEF Sourced, PayInv
<1> QED
  BY <1>1 DEF Ended, Early

\* A webhook that is about to apply a success of the ride's own charge applies
\* it in the place of a completion that died.
LEMMA AtApply ==
  ASSUME TypeInv, StageInv, PayInv, KnowInv, RideInv, NEW h \in Procs, call[h].at = "apply"
  PROVE  /\ call[h].id \in {Charge} \cup Additionals /\ call[h].event = <<call[h].id, "succeeded">>
         /\ call[h].event \in Events /\ stripe[call[h].id] = "succeeded" /\ pay[call[h].id].status # "none"
         /\ call[h].id # Charge => Sourced
<1>1. call[h].id \in Payments /\ call[h].id # Topup /\ call[h].event = <<call[h].id, "succeeded">>
  BY DEF StageInv, Stage
<1>2. PICK id \in Payments: id = call[h].id
  BY <1>1
<1>3. <<id, "succeeded">> \in Events /\ None \notin Events
  BY EventNames, Ids
<1>4. event[<<id, "succeeded">>] = "PROCESSING"
  BY <1>1, <1>2, <1>3 DEF KnowInv, Knows
<1>5. stripe[id] = "succeeded" /\ pay[id].status # "none"
  BY <1>4 DEF PayInv
<1>6. id \in {Charge} \cup Additionals
  BY <1>1, <1>2, Ids
<1> QED
  BY <1>1, <1>2, <1>3, <1>5, <1>6 DEF Sourced

\* With crashes alone, what is booked as collected only grows.
LEMMA CollectedGrows ==
  ASSUME TypeInv, StageInv, PayInv, KnowInv, RideInv, TakenInv, CrashInv, NEW h \in Procs, HandlerStep(h), OnlyCrash'
  PROVE  /\ book.collected \in Int /\ book'.collected \in Int /\ book.collected <= book'.collected
         /\ ExpiryWrite(h) /\ Won(h) => book'.collected = Fare
         /\ SucceededWrite(h) /\ call[h].id # Charge => book'.collected = Fare
<1>0. /\ book.collected \in Int /\ book'.collected \in Int /\ 0 <= book'.collected /\ book.collected <= Fare
      /\ book' \in BookType
  BY BookTypes, BookFields, BookNow
<1>1. SettlerAt(h) /\ ReporterAt(h) /\ ExtraAt(h)
  BY Clean DEF CrashInv
<1>2. CASE SettleWrite(h)
  <2>1. book.collected = 0
    BY <1>1, <1>2 DEF SettleWrite, SettlerAt, Completer
  <2> QED
    BY <1>0, <1>2, <2>1 DEF ExpiryWrite, SucceededWrite, SettleWrite
<1>3. CASE ExpiryWrite(h)
  <2>1. call[h].at = "expired" /\ Collecting(h) /\ Extra(h)
    BY <1>3 DEF ExpiryWrite, Extra, Collecting
  <2>2. call[h].seen.collected \in Int /\ call[h].amount \in Int /\ call[h].seen.collected + call[h].amount = Fare
    BY <2>1, MoneyTypes
  <2>3. book'.collected = ExpiryTotal(h)
    BY <1>3, Types DEF ExpiryWrite, BookType
  <2>4. Won(h) \/ call[h].seen.collected = book.collected
    BY <1>1, <2>1 DEF ExtraAt
  <2>5. call[h].at # "apply"
    BY <2>1
  <2> QED
    BY <1>0, <2>2, <2>3, <2>4, <2>5 DEF ExpiryTotal, Ok, Won, SucceededWrite
<1>4. CASE SucceededWrite(h)
  <2>1. call[h].at = "apply"
    BY <1>4 DEF SucceededWrite
  <2>2. book'.collected = AppliedOf(h)
    BY <1>4, Types DEF SucceededWrite, BookType, AppliedOf
  <2>3. call[h].seen.collected \in Int /\ pay[call[h].id].amount \in Int /\ 0 <= pay[call[h].id].amount
    BY <2>1, ApplyAmounts
  <2>4. CASE call[h].id = Charge
    <3>1. Early /\ call[h].seen.collected = book.collected
      BY <1>1, <2>1, <2>4 DEF ReporterAt, Orphan
    <3>2. book.collected <= Share
      <4>1. Taken <= Share /\ book.collected <= Taken
        BY <3>1 DEF TakenInv, Early, Ended
      <4> QED
        BY <1>0, <4>1, TakenType, Numbers
    <3> QED
      BY <1>0, <2>1, <2>2, <2>3, <2>4, <3>1, <3>2, Numbers DEF AppliedOf, Least, ExpiryWrite
  <2>5. CASE call[h].id # Charge
    <3>1. call[h].seen.collected + pay[call[h].id].amount >= Fare
      BY <1>1, <2>1, <2>5 DEF ReporterAt
    <3> QED
      BY <1>0, <2>1, <2>2, <2>3, <2>5, <3>1, Numbers DEF AppliedOf, Least, ExpiryWrite
  <2> QED
    BY <2>4, <2>5
<1>5. CASE ~ SettleWrite(h) /\ ~ ExpiryWrite(h) /\ ~ SucceededWrite(h)
  BY <1>0, <1>5, CollectedMoves
<1> QED
  BY <1>2, <1>3, <1>4, <1>5

LEMMA ChargeIntentStays ==
  ASSUME TypeInv, NEW h \in Procs, HandlerStep(h), book.chargeIntent = Charge
  PROVE  book'.chargeIntent = Charge
<1>0. book \in BookType
  BY Types
<1>1. CASE SettleWrite(h)
  BY <1>0, <1>1 DEF SettleWrite, BookType
<1>2. CASE TrueUp(h) \/ RecomputeWrite(h) \/ SponsorWrite(h) \/ FailedWrite(h)
  BY <1>0, <1>2 DEF TrueUp, RecomputeWrite, SponsorWrite, FailedWrite, BookType
<1>3. CASE Claim(h) \/ CheckConsent(h) \/ Sweep(h)
  BY <1>0, <1>3 DEF Claim, CheckConsent, Sweep, BookType
<1>4. CASE SucceededWrite(h)
  BY <1>0, <1>4 DEF SucceededWrite, BookType
<1>5. CASE ExpiryWrite(h)
  BY <1>0, <1>5 DEF ExpiryWrite, BookType
<1> QED
  BY <1>1, <1>2, <1>3, <1>4, <1>5, BookWriters

LEMMA WhoBooks ==
  ASSUME TypeInv, StageInv, PayInv, KnowInv, RideInv, CrashInv, NEW h \in Procs, HandlerStep(h), OnlyCrash',
         book'.collected # book.collected
  PROVE  \/ SettleWrite(h) /\ Completer(h) /\ call[h].at = "settled"
         \/ ExpiryWrite(h) /\ Collecting(h)
         \/ SucceededWrite(h) /\ call[h].at = "apply" /\ call[h].id = Charge /\ Orphan
         \/ SucceededWrite(h) /\ call[h].at = "apply" /\ call[h].id \in Additionals /\ Reporting(h) /\ Sourced
<1>1. SettleWrite(h) => Completer(h) /\ call[h].at = "settled"
  BY DEF SettleWrite, Completer
<1>2. ExpiryWrite(h) => Collecting(h)
  BY DEF ExpiryWrite, Collecting, Extra
<1>3. ASSUME SucceededWrite(h)
      PROVE  /\ call[h].at = "apply" /\ call[h].id \in {Charge} \cup Additionals
             /\ call[h].id = Charge => Orphan
             /\ call[h].id # Charge => Reporting(h) /\ Sourced
  <2>1. call[h].at = "apply"
    BY <1>3 DEF SucceededWrite
  <2>2. ReporterAt(h)
    BY Clean DEF CrashInv
  <2>3. Reporting(h)
    <3>1. call[h].event = <<call[h].id, "succeeded">> /\ call[h].event \in Events
      BY <2>1, AtApply
    <3>2. None \notin Events
      BY Ids
    <3> QED
      BY <2>1, <3>1, <3>2 DEF Reporting
  <2> QED
    BY <2>1, <2>2, <2>3, AtApply DEF ReporterAt
<1> QED
  BY <1>1, <1>2, <1>3, CollectedMoves

LEMMA SettledSteps ==
  ASSUME TypeInv, StageInv, PayInv, KnowInv, RideInv, TakenInv, CrashInv, NEW h \in Procs, HandlerStep(h), OnlyCrash'
  PROVE  SettledInv'
<1>0. SettledInv /\ SettlerAt(h)
  BY Clean DEF CrashInv
<1>1. ASSUME ~ completed' PROVE book'.collected = 0 /\ pay'[Charge].status = "none"
  <2>1. ~ completed /\ Early
    BY <1>1, CompletedWriters DEF CompleteRide, RideInv
  <2>2. ~ Completer(h) /\ ~ Extra(h) /\ ~ Sourced /\ ~ Orphan
    BY <2>1, SourcedEnded DEF RideInv, Orphan, Early, Ended
  <2>3. book'.collected = book.collected
    BY <2>2, WhoBooks DEF Collecting
  <2>4. pay'[Charge].status = "none"
    <3>1. Charge \in Payments /\ pay[Charge].status = "none"
      BY <1>0, <2>1, Ids DEF SettledInv
    <3>2. ~ (ChargeInsert(h) /\ call[h].id = Charge)
      BY <2>2 DEF ChargeInsert, Completer, AtCard
    <3> QED
      BY <3>1, <3>2, PayMoves
  <2> QED
    BY <1>0, <2>1, <2>3, <2>4 DEF SettledInv
<1>2. ASSUME ~ Early', stripe'[Charge] = "succeeded" PROVE book'.chargeIntent = Charge
  <2>1. CASE Early
    <3>1. OpenValidation(h)
      BY <1>2, <2>1, SpecialMoves
    <3>2. call[h].at = "special" /\ stripe[Charge] = "succeeded" /\ book' = book
      BY <1>2, <3>1 DEF OpenValidation
    <3> QED
      BY <1>0, <3>2 DEF SettlerAt
  <2>2. CASE ~ Early
    <3>1. ~ Completer(h)
      BY <2>2 DEF RideInv
    <3>2. stripe[Charge] = "succeeded"
      BY <1>2, <3>1, SourceMoves DEF ChargeStripe, Completer, AtCard
    <3>3. book.chargeIntent = Charge
      BY <1>0, <2>2, <3>2 DEF SettledInv
    <3> QED
      BY <3>3, ChargeIntentStays
  <2> QED
    BY <2>1, <2>2
<1>3. ASSUME ~ Early', ~ Sourced' PROVE Taken' <= book'.collected
  <2>0. /\ book.collected \in Int /\ book'.collected \in Int /\ book.collected <= book'.collected
        /\ Taken \in Int /\ Taken' \in Int
    BY CollectedGrows, TakenSteps
  <2>1. ~ Sourced
    BY <1>3, SourceMoves
  <2>2. CASE Early
    <3>1. OpenValidation(h)
      BY <1>3, <2>2, SpecialMoves
    <3>2. call[h].at = "special" /\ ~ ChargeWallet(h) /\ ~ DebitWallet(h) /\ ~ ChargeStripe(h)
      BY <3>1 DEF OpenValidation, ChargeWallet, DebitWallet, ChargeStripe
    <3> QED
      BY <1>0, <2>0, <3>2, TakenSteps DEF SettlerAt
  <2>3. CASE ~ Early
    <3>1. Taken <= book.collected
      BY <1>0, <2>1, <2>3 DEF SettledInv
    <3>2. Taken' = Taken
      <4>1. ~ Completer(h)
        BY <2>3 DEF RideInv
      <4>2. ~ ChargeWallet(h)
        BY <4>1 DEF ChargeWallet, Completer
      <4>3. DebitWallet(h) => Taken' = Taken
        BY <1>3, TakenSteps DEF Sourced
      <4>4. ASSUME ChargeStripe(h) PROVE stripe'[call[h].id] # "succeeded"
        <5>1. call[h].id \in Additionals
          BY <4>1, <4>4 DEF ChargeStripe, Completer, AtCard, StageInv, Stage
        <5> QED
          BY <1>3, <5>1 DEF Sourced
      <4> QED
        BY <4>2, <4>3, <4>4, TakenSteps
    <3> QED
      BY <2>0, <3>1, <3>2
  <2> QED
    BY <2>2, <2>3
<1> QED
  BY <1>1, <1>2, <1>3 DEF SettledInv

\* Who is charging is the only one, and nothing has been taken for it yet.
LEMMA CollectingAlone ==
  ASSUME TypeInv, StageInv, PayInv, KnowInv, RideInv, TakenInv, CrashInv, OnlyCrash, NEW h \in Procs, Collecting(h)
  PROVE  /\ \A g \in Procs: Collecting(g) => g = h
         /\ book.status = "PROCESSING" /\ Ended /\ ~ Early /\ ~ Completer(h)
         /\ Sourced => call[h].at \in {"update", "expired"} /\ Won(h)
         /\ ~ Sourced => call[h].seen.collected = book.collected /\ Taken <= book.collected
         /\ call[h].amount \in Int /\ call[h].seen.collected \in Int /\ call[h].seen.collected + call[h].amount = Fare
<1>1. ExtraAt(h) /\ MissingInv /\ SettledInv
  BY DEF CrashInv
<1>2. Extra(h) /\ call[h].at # "claim"
  BY DEF Collecting
<1>3. Ended /\ ~ Early /\ ~ Completer(h)
  BY <1>2 DEF RideInv, Ended, Early
<1>4. call[h].amount \in Int /\ call[h].seen.collected \in Int /\ call[h].seen.collected + call[h].amount = Fare
  BY <1>2, MoneyTypes
<1> QED
  BY <1>1, <1>2, <1>3, <1>4 DEF ExtraAt, MissingInv, SettledInv

LEMMA ClaimFresh ==
  ASSUME TypeInv, CrashInv, OnlyCrash, NEW h \in Procs, Claim(h), call'[h].at = "consent"
  PROVE  /\ ~ Sourced /\ (\A g \in Procs: ~ Collecting(g))
         /\ book' = [book EXCEPT !.status = "PROCESSING", !.expired = TRUE]
<1>1. /\ book.status \in {"NONE", "REQUIRED", "FAILED"}
      /\ book' = [book EXCEPT !.status = "PROCESSING", !.expired = TRUE]
  BY ClaimMoves, NoCallType
<1> QED
  BY <1>1 DEF CrashInv, MissingInv, ExtraAt

LEMMA OneCollects ==
  ASSUME TypeInv, StageInv, PayInv, KnowInv, RideInv, TakenInv, CrashInv, NEW h \in Procs, HandlerStep(h), OnlyCrash'
  PROVE  /\ \A g \in Procs: g # h /\ Collecting(g)' => Collecting(g)
         /\ Collecting(h)' => Collecting(h) \/ (Claim(h) /\ call'[h].at = "consent")
         /\ \A f, g \in Procs: Collecting(f)' /\ Collecting(g)' => f = g
<1>1. \A g \in Procs: g # h => call'[g] = call[g]
  BY OthersStand
<1>2. ASSUME NEW g \in Procs, g # h, Collecting(g)' PROVE Collecting(g)
  BY <1>1, <1>2 DEF Collecting, Extra
<1>3. ASSUME Collecting(h)' PROVE Collecting(h) \/ (Claim(h) /\ call'[h].at = "consent")
  <2>1. Extra(h)' /\ call'[h].at # "claim"
    BY <1>3 DEF Collecting
  <2> QED
    BY <2>1, ExtraMoves DEF Collecting
<1>4. ASSUME NEW f \in Procs, NEW g \in Procs, Collecting(f)', Collecting(g)', f # g PROVE FALSE
  <2>1. PICK k \in {f, g}: k # h /\ Collecting(k)
    BY <1>2, <1>4
  <2>2. CASE h \in {f, g}
    <3>1. Collecting(h) \/ (Claim(h) /\ call'[h].at = "consent")
      BY <1>3, <1>4, <2>2
    <3>2. ~ Collecting(h)
      BY <2>1, Clean, CollectingAlone
    <3> QED
      BY <2>1, <3>1, <3>2, ClaimFresh, Clean
  <2>3. CASE h \notin {f, g}
    <3>1. Collecting(f) /\ Collecting(g)
      BY <1>2, <1>4, <2>3
    <3> QED
      BY <1>4, <3>1, Clean, CollectingAlone
  <2> QED
    BY <2>2, <2>3
<1> QED
  BY <1>2, <1>3, <1>4

\* What the ride's fare is charged with, and when.
LEMMA SourceSteps ==
  ASSUME TypeInv, StageInv, PayInv, KnowInv, RideInv, TakenInv, CrashInv, NEW h \in Procs, HandlerStep(h), OnlyCrash'
  PROVE  /\ Sourced => Taken' = Taken /\ ~ DebitWallet(h) /\ ~ ChargeStripe(h)
         /\ ~ Sourced /\ Sourced' =>
              /\ Collecting(h) /\ Taken' <= Fare /\ Collecting(h)'
              /\ DebitWallet(h) \/ ChargeStripe(h)
              /\ call'[h].at \in {"update", "expired"} /\ call'[h].answer = "succeeded"
<1>0. OnlyCrash /\ Taken \in Int /\ Taken' \in Int
  BY Clean, TakenSteps
<1>1. DebitWallet(h) => Collecting(h) /\ call[h].at = "debit"
  BY DEF DebitWallet, Collecting, Extra
<1>2. ChargeStripe(h) => call[h].at = "stripe" /\ (Completer(h) \/ Collecting(h))
  BY DEF ChargeStripe, Completer, Collecting, Extra, AtCard
<1>3. ChargeWallet(h) => Completer(h)
  BY DEF ChargeWallet, Completer
<1>4. ASSUME Sourced PROVE Taken' = Taken /\ ~ DebitWallet(h) /\ ~ ChargeStripe(h)
  <2>1. ~ Completer(h)
    BY <1>4, SourcedEnded DEF RideInv
  <2>2. ~ DebitWallet(h) /\ ~ ChargeStripe(h)
    BY <1>0, <1>1, <1>2, <1>4, <2>1, CollectingAlone
  <2> QED
    BY <1>3, <2>1, <2>2, TakenSteps
<1>5. ASSUME ~ Sourced, Sourced'
      PROVE  /\ Collecting(h) /\ Taken' <= Fare /\ Collecting(h)'
             /\ DebitWallet(h) \/ ChargeStripe(h)
             /\ call'[h].at \in {"update", "expired"} /\ call'[h].answer = "succeeded"
  <2>1. CASE Posted("wallet-additional")'
    <3>1. DebitWallet(h) /\ ~ Posted("wallet-additional")
      BY <1>5, <2>1, SourceMoves DEF Sourced
    <3>2. Collecting(h) /\ call[h].at = "debit"
      BY <1>1, <3>1
    <3>3. Taken' = Taken \/ Taken' = Taken + call[h].amount
      BY <3>1, TakenSteps
    <3>4. Taken' <= Fare
      BY <1>0, <1>5, <3>2, <3>3, CollectingAlone, BookNow
    <3>5. call'[h].at = "expired" /\ call'[h].answer = "succeeded"
      BY <2>1, <3>1, DebitMoves DEF Posted, Wallet!Posted, ledger
    <3> QED
      BY <3>1, <3>2, <3>4, <3>5 DEF Collecting, Extra
  <2>2. CASE ~ Posted("wallet-additional")'
    <3>1. PICK id \in Additionals: stripe'[id] = "succeeded" /\ ChargeStripe(h) /\ id = call[h].id
      BY <1>5, <2>2, SourceMoves DEF Sourced
    <3>2. call[h].at = "stripe" /\ id # Charge
      BY <1>2, <3>1, Ids
    <3>3. Collecting(h)
      BY <3>1, <3>2 DEF Collecting, Extra, AtCard
    <3>4. Taken' = Taken + call[h].amount
      BY <3>1, TakenSteps
    <3>5. Taken' <= Fare
      BY <1>0, <1>5, <3>3, <3>4, CollectingAlone, BookNow
    <3>6. call'[h].at = "update" /\ call'[h].id = id
      BY <3>1, ChargeStripeMoves
    <3>7. call'[h].answer = "succeeded"
      <4>1. PICK outcome \in Answers: /\ stripe' = [stripe EXCEPT ![call[h].id] = outcome]
                                      /\ \/ call'[h].answer = outcome
                                         \/ Disturb("lost answer")
        BY <3>1, ChargeStripeMoves
      <4>2. stripe'[id] = outcome
        BY <3>1, <4>1, Ids DEF TypeInv
      <4> QED
        BY <3>1, <4>1, <4>2, Clean
    <3> QED
      BY <3>1, <3>2, <3>3, <3>5, <3>6, <3>7 DEF Collecting, Extra, AtCard
  <2> QED
    BY <2>1, <2>2
<1> QED
  BY <1>4, <1>5

\* The charge's status while there is something to report.
LEMMA StatusSteps ==
  ASSUME TypeInv, StageInv, PayInv, KnowInv, RideInv, TakenInv, CrashInv, NEW h \in Procs, HandlerStep(h), OnlyCrash'
  PROVE  /\ Sourced' => book'.status \in {"PROCESSING", "COLLECTED"}
         /\ \A g \in Procs: g # h /\ Collecting(g) => book'.status = "PROCESSING"
<1>0. book \in BookType /\ OnlyCrash /\ MissingInv /\ ReporterAt(h) /\ SettledInv
  BY Types, Clean DEF CrashInv
<1>1. Sourced' /\ ~ Sourced => book.status = "PROCESSING" /\ (DebitWallet(h) \/ ChargeStripe(h))
  BY <1>0, SourceSteps, CollectingAlone
<1>2. Sourced => book.status \in {"PROCESSING", "COLLECTED"}
  BY <1>0 DEF MissingInv
<1>3. \A g \in Procs: Collecting(g) => book.status = "PROCESSING" /\ ~ Orphan
  BY <1>0, CollectingAlone DEF Orphan
<1>4. CASE book'.status = book.status
  BY <1>1, <1>2, <1>3, <1>4
<1>5. CASE Claim(h) /\ book'.status # book.status
  <2>1. book' = [book EXCEPT !.status = "PROCESSING", !.expired = TRUE]
    BY <1>5, ClaimMoves
  <2> QED
    BY <1>0, <2>1 DEF BookType
<1>10. CASE CheckConsent(h)
  <2>1. call[h].at = "consent" /\ Collecting(h)
    BY <1>10 DEF CheckConsent, Collecting, Extra
  <2>2. (\A g \in Procs: ~ (g # h /\ Collecting(g))) /\ ~ Sourced
    BY <1>0, <2>1, CollectingAlone
  <2>3. ~ Sourced'
    BY <2>2, <1>1, <1>10 DEF DebitWallet, ChargeStripe, CheckConsent
  <2> QED
    BY <2>2, <2>3
<1>6. CASE ExpiryWrite(h)
  <2>1. call[h].at = "expired" /\ Collecting(h)
    BY <1>6 DEF ExpiryWrite, Collecting, Extra
  <2>2. \A g \in Procs: ~ (g # h /\ Collecting(g))
    BY <1>0, <2>1, CollectingAlone
  <2>3. ASSUME Sourced' PROVE book'.status = "COLLECTED"
    <3>1. Sourced
      BY <2>3, <1>1, <1>6 DEF DebitWallet, ChargeStripe, ExpiryWrite
    <3>2. Won(h)
      BY <1>0, <2>1, <3>1, CollectingAlone
    <3>3. ExpiryTotal(h) = Fare
      BY <1>0, <2>1, <3>2, CollectingAlone DEF ExpiryTotal, Won, Ok
    <3>4. book'.status = ChargeStatus(ExpiryTotal(h), call[h].answer)
      BY <1>0, <1>6 DEF ExpiryWrite, BookType
    <3> QED
      BY <3>3, <3>4, Numbers DEF ChargeStatus
  <2> QED
    BY <2>2, <2>3
<1>7. CASE SucceededWrite(h)
  <2>1. call[h].at = "apply" /\ call[h].id \in {Charge} \cup Additionals
    BY <1>7, AtApply DEF SucceededWrite
  <2>2. CASE call[h].id = Charge
    <3>1. book'.status = book.status
      BY <1>0, <1>7, <2>2 DEF SucceededWrite, BookType
    <3> QED
      BY <1>4, <3>1
  <2>3. CASE call[h].id # Charge
    <3>1. \A g \in Procs: ~ Collecting(g)
      <4>1. call[h].event = <<call[h].id, "succeeded">> /\ call[h].event \in Events /\ None \notin Events
        BY <2>1, AtApply, Ids
      <4>2. Reporting(h)
        BY <2>1, <4>1 DEF Reporting
      <4> QED
        BY <1>0, <2>1, <2>3, <4>2 DEF ReporterAt
    <3>2. AppliedOf(h) = Fare
      <4>1. call[h].seen.collected + pay[call[h].id].amount >= Fare
        BY <1>0, <2>1, <2>3 DEF ReporterAt
      <4>2. call[h].seen.collected + pay[call[h].id].amount \in Int
        BY <2>1, ApplyAmounts
      <4> QED
        BY <2>3, <4>1, <4>2, Numbers DEF AppliedOf, Least
    <3>3. book'.status = "COLLECTED"
      BY <1>0, <1>7, <2>3, <3>2, Numbers DEF SucceededWrite, BookType, AppliedOf
    <3> QED
      BY <3>1, <3>3
  <2> QED
    BY <2>2, <2>3
<1>8. CASE FailedWrite(h)
  <2>1. book.status # "PROCESSING"
    BY <1>8, Clean
  <2>2. book.status = "COLLECTED" => book' = book
    BY <1>8 DEF FailedWrite
  <2>3. ~ DebitWallet(h) /\ ~ ChargeStripe(h)
    BY <1>8 DEF FailedWrite, DebitWallet, ChargeStripe
  <2> QED
    BY <1>1, <1>2, <1>3, <2>1, <2>2, <2>3
<1>9. ASSUME SettleWrite(h) \/ TrueUp(h) \/ SponsorWrite(h) \/ Sweep(h) \/ RecomputeWrite(h)
      PROVE  book'.status = book.status
  BY <1>0, <1>9 DEF SettleWrite, TrueUp, SponsorWrite, Sweep, RecomputeWrite, BookType
<1> QED
  BY <1>4, <1>5, <1>6, <1>7, <1>8, <1>9, <1>10, BookWriters

LEMMA MissingSteps ==
  ASSUME TypeInv, StageInv, PayInv, KnowInv, RideInv, TakenInv, CrashInv, NEW h \in Procs, HandlerStep(h), OnlyCrash'
  PROVE  MissingInv'
<1>0. OnlyCrash /\ MissingInv
  BY Clean DEF CrashInv
<1>1. \A f, g \in Procs: Collecting(f)' /\ Collecting(g)' => f = g
  BY OneCollects
<1>2. ASSUME NEW c \in Additionals, NEW d \in Additionals, stripe'[c] = "succeeded", stripe'[d] = "succeeded", c # d PROVE FALSE
  <2>1. ASSUME ChargeStripe(h) PROVE \A id \in Additionals: stripe[id] # "succeeded"
    BY <2>1, SourceSteps DEF Sourced
  <2> QED
    BY <1>0, <1>2, <2>1, SourceMoves DEF MissingInv
<1>3. ASSUME Posted("wallet-additional")', NEW id \in Additionals, stripe'[id] = "succeeded" PROVE FALSE
  <2>1. CASE Posted("wallet-additional")
    <3>1. ~ ChargeStripe(h)
      BY <2>1, SourceSteps DEF Sourced
    <3> QED
      BY <1>0, <1>3, <2>1, <3>1, SourceMoves DEF MissingInv
  <2>2. CASE ~ Posted("wallet-additional")
    <3>1. DebitWallet(h)
      BY <1>3, <2>2, SourceMoves
    <3>2. ~ Sourced /\ UNCHANGED stripe
      BY <3>1, SourceSteps DEF DebitWallet
    <3> QED
      BY <1>3, <3>2 DEF Sourced
  <2> QED
    BY <2>1, <2>2
<1>4. ASSUME Sourced' PROVE Taken' <= Fare /\ book'.status \in {"PROCESSING", "COLLECTED"}
  BY <1>0, <1>4, SourceSteps, StatusSteps DEF MissingInv
<1>5. ASSUME NEW id \in Additionals, pay'[id].status # "none" PROVE book'.collected + pay'[id].amount >= Fare
  <2>0. book.collected \in Int /\ book'.collected \in Int /\ book.collected <= book'.collected
    BY CollectedGrows
  <2>1. id \in Payments
    BY Ids
  <2>2. CASE pay[id].status # "none"
    <3>1. pay'[id].amount = pay[id].amount /\ book.collected + pay[id].amount >= Fare
      BY <1>0, <2>1, <2>2, PayMoves DEF MissingInv
    <3>2. pay[id].amount \in Int
      <4>1. pay[id].amount \in 0..Most(Fare, TopupAmount)
        BY <2>1, Types DEF PayType
      <4> QED
        BY <4>1, Numbers
    <3> QED
      BY <2>0, <3>1, <3>2, Numbers
  <2>3. CASE pay[id].status = "none"
    <3>1. ChargeInsert(h) /\ id = call[h].id /\ pay'[id].amount = call[h].amount
      BY <1>5, <2>1, <2>3, PayMoves
    <3>2. Collecting(h) /\ call[h].at = "insert"
      BY <3>1, Ids DEF ChargeInsert, Collecting, Extra, AtCard
    <3>3. call[h].seen.collected = book.collected /\ call[h].seen.collected + call[h].amount = Fare /\ call[h].amount \in Int
      BY <1>0, <3>2, CollectingAlone
    <3> QED
      BY <2>0, <3>1, <3>3, Numbers
  <2> QED
    BY <2>2, <2>3
<1> QED
  BY <1>1, <1>2, <1>3, <1>4, <1>5 DEF MissingInv

LEMMA ExtraAtSteps ==
  ASSUME TypeInv, StageInv, PayInv, KnowInv, RideInv, TakenInv, CrashInv, NEW h \in Procs, HandlerStep(h), OnlyCrash',
         NEW g \in Procs
  PROVE  ExtraAt(g)'
<1> SUFFICES ASSUME Collecting(g)'
             PROVE  /\ book'.status = "PROCESSING"
                    /\ Sourced' => call'[g].at \in {"update", "expired"} /\ call'[g].answer = "succeeded"
                    /\ ~ Sourced' => call'[g].seen.collected = book'.collected
  BY DEF ExtraAt, Won
<1>0. OnlyCrash /\ (\A f \in Procs: f # h => call'[f] = call[f]) /\ (Sourced => Sourced')
  BY Clean, OthersStand, SourceMoves
<1>1. CASE g # h
  <2>1. Collecting(g) /\ call'[g] = call[g]
    BY <1>0, <1>1, OneCollects
  <2>2. ~ Collecting(h) /\ Ended /\ ~ Early
    BY <1>0, <1>1, <2>1, CollectingAlone
  <2>3. Sourced' => Sourced
    BY <2>2, SourceSteps
  <2>4. ~ Sourced => book'.collected = book.collected
    BY <2>2, WhoBooks DEF RideInv, Orphan
  <2> QED
    BY <1>0, <1>1, <2>1, <2>3, <2>4, StatusSteps, CollectingAlone DEF Won
<1>2. CASE g = h /\ Claim(h) /\ call'[h].at = "consent"
  <2>1. ~ Sourced /\ book' = [book EXCEPT !.status = "PROCESSING", !.expired = TRUE]
    BY <1>0, <1>2, ClaimFresh
  <2>2. ~ Sourced'
    BY <1>2, <2>1, SourceSteps, ClaimMoves DEF DebitWallet, ChargeStripe
  <2>3. book'.status = "PROCESSING"
    BY <2>1, Types DEF BookType
  <2>4. call'[h].seen = book'
    BY <1>2, ClaimMoves, NoCallType
  <2> QED
    BY <1>2, <2>2, <2>3, <2>4
<1>3. CASE /\ g = h /\ Collecting(h) /\ call'[h].seen = call[h].seen
           /\ \/ CheckConsent(h) /\ book' = book
              \/ DebitWallet(h) \/ CountAttempts(h) \/ ChargeInsert(h) \/ ChargeStripe(h) \/ ChargeUpdate(h)
  <2>1. book' = book
    BY <1>3 DEF DebitWallet, CountAttempts, ChargeInsert, ChargeStripe, ChargeUpdate
  <2>2. book'.status = "PROCESSING"
    BY <1>0, <1>3, <2>1, CollectingAlone
  <2>3. ASSUME ~ Sourced' PROVE call'[h].seen.collected = book'.collected
    BY <1>0, <1>3, <2>1, <2>3, CollectingAlone
  <2>4. ASSUME Sourced' PROVE call'[h].at \in {"update", "expired"} /\ call'[h].answer = "succeeded"
    <3>1. CASE ~ Sourced
      BY <2>4, <3>1, SourceSteps
    <3>2. CASE Sourced
      <4>1. call[h].at \in {"update", "expired"} /\ Won(h)
        BY <1>0, <1>3, <3>2, CollectingAlone
      <4>2. ChargeUpdate(h)
        BY <1>3, <4>1 DEF CheckConsent, DebitWallet, CountAttempts, ChargeInsert, ChargeStripe
      <4>3. AnsweredAs(h, call[h].answer)
        BY <4>2, ChargeUpdateMoves
      <4>4. call[h].id # Charge
        BY <1>3, <4>1, <4>2 DEF Collecting, Extra, ChargeUpdate, AtCard
      <4> QED
        BY <4>1, <4>3, <4>4 DEF AnsweredAs, Won
    <3> QED
      BY <3>1, <3>2
  <2> QED
    BY <1>3, <2>2, <2>3, <2>4
<1> QED
  <2>1. g = h => Extra(h)' /\ call'[h].at # "claim"
    BY DEF Collecting
  <2> QED
    BY <1>1, <1>2, <1>3, <2>1, ExtraMoves DEF Collecting

\* A completion that died stays dead, and nobody but the event's handler
\* writes the books of its ride.
LEMMA OrphanStays ==
  ASSUME TypeInv, StageInv, PayInv, RideInv, NEW h \in Procs, HandlerStep(h), Orphan
  PROVE  Orphan'
<1>1. completed /\ Early /\ \A g \in Procs: ~ Completer(g)
  BY DEF Orphan
<1>2. completed'
  BY <1>1, CompletedWriters DEF CompleteRide
<1>3. Early'
  BY <1>1, SpecialMoves DEF OpenValidation, Completer
<1>4. ASSUME NEW g \in Procs PROVE ~ Completer(g)'
  <2>1. CASE g = h
    BY <1>1, <2>1, RideMoves DEF CompleteRide
  <2>2. CASE g # h
    BY <1>1, <2>2, OthersStand DEF Completer
  <2> QED
    BY <2>1, <2>2
<1> QED
  BY <1>2, <1>3, <1>4 DEF Orphan

LEMMA ReporterStays ==
  ASSUME TypeInv, StageInv, PayInv, KnowInv, RideInv, TakenInv, CrashInv, NEW h \in Procs, HandlerStep(h), OnlyCrash',
         NEW g \in Procs, g # h
  PROVE  ReporterAt(g)'
<1>0. OnlyCrash /\ ReporterAt(g) /\ call'[g] = call[g] /\ SettledInv
  BY Clean, OthersStand DEF CrashInv
<1>1. ASSUME Reporting(g)', call'[g].id = Charge, call'[g].at # "apply"
      PROVE  (book.chargeIntent = Charge \/ Orphan)'
  <2>1. book.chargeIntent = Charge \/ Orphan
    BY <1>0, <1>1 DEF ReporterAt, Reporting
  <2> QED
    BY <2>1, OrphanStays, ChargeIntentStays
<1>2. ASSUME call'[g].at = "apply", call'[g].id = Charge
      PROVE  Orphan' /\ call'[g].seen.collected = book'.collected
  <2>1. Orphan /\ call[g].seen.collected = book.collected
    BY <1>0, <1>2 DEF ReporterAt
  <2>2. ~ Completer(h) /\ ~ Collecting(h) /\ ~ Sourced
    BY <2>1, SourcedEnded DEF Orphan, RideInv, Collecting, Early, Ended
  <2>3. ~ (call[h].at = "apply" /\ call[h].id = Charge)
    <3>1. call[h].at = "apply" /\ call[h].id = Charge => call[h].event = call[g].event /\ call[g].event # None
      BY <1>0, <1>2, AtApply, Ids
    <3> QED
      BY <3>1 DEF KnowInv
  <2>4. book'.collected = book.collected
    BY <2>2, <2>3, WhoBooks
  <2> QED
    BY <1>0, <2>1, <2>4, OrphanStays
<1>3. ASSUME call'[g].at = "apply", call'[g].id # Charge
      PROVE  call'[g].seen.collected + pay'[call'[g].id].amount >= Fare
  <2>1. call[g].id \in Payments /\ pay[call[g].id].status # "none"
    BY <1>0, <1>3, AtApply, Ids
  <2>2. pay'[call[g].id].amount = pay[call[g].id].amount
    BY <2>1, PayMoves
  <2> QED
    BY <1>0, <1>3, <2>2 DEF ReporterAt
<1>4. ASSUME Reporting(g)', call'[g].id \in Additionals, NEW f \in Procs, Collecting(f)' PROVE FALSE
  <2>1. Reporting(g) /\ call[g].id \in Additionals /\ \A k \in Procs: ~ Collecting(k)
    BY <1>0, <1>4 DEF ReporterAt, Reporting
  <2>2. Claim(h) /\ call'[h].at = "consent"
    BY <1>4, <2>1, OneCollects
  <2>3. ~ Sourced
    BY <1>0, <2>2, ClaimFresh
  <2>4. Sourced
    <3>1. call[g].event = <<call[g].id, "succeeded">> /\ call[g].event # None
      BY <2>1 DEF Reporting, StageInv, Stage
    <3>2. PICK id \in Additionals: id = call[g].id
      BY <2>1
    <3>3. event[<<id, "succeeded">>] = "PROCESSING"
      BY <3>1, <3>2 DEF KnowInv, Knows
    <3> QED
      BY <3>2, <3>3, Ids DEF PayInv, Sourced
  <2> QED
    BY <2>3, <2>4
<1> QED
  BY <1>1, <1>2, <1>3, <1>4 DEF ReporterAt

\* Who has collected what is missing still holds the payment that paid.
LEMMA Winner ==
  ASSUME TypeInv, StageInv, PayInv, KnowInv, RideInv, TakenInv, CrashInv, OnlyCrash, NEW g \in Procs, Collecting(g),
         NEW id \in Additionals, stripe[id] = "succeeded"
  PROVE  call[g].id = id /\ call[g].event = None
<1>0. MissingInv
  BY DEF CrashInv
<1>1. call[g].at \in {"update", "expired"} /\ Won(g)
  BY CollectingAlone DEF Sourced
<1>2. call[g].event = None
  BY <1>1 DEF StageInv, Stage, AtCard
<1>3. ~ Posted("wallet-additional")
  BY <1>0 DEF MissingInv
<1>4. call[g].id \in Additionals
  <2>1. CASE call[g].at = "update"
    BY <2>1 DEF Collecting, Extra, StageInv, Stage, AtCard
  <2>2. CASE call[g].at = "expired"
    <3>1. call[g].id # None
      BY <1>3, <2>2 DEF KnowInv, Knows
    <3> QED
      BY <2>2, <3>1 DEF StageInv, Stage
  <2> QED
    BY <1>1, <2>1, <2>2
<1>5. stripe[call[g].id] = "succeeded"
  BY <1>1, <1>4, Ids DEF KnowInv, Knows, Won
<1> QED
  BY <1>0, <1>2, <1>4, <1>5 DEF MissingInv

\* An event that is taken up reports what Stripe did, and nobody waits for the
\* answer any more.
LEMMA Received ==
  ASSUME TypeInv, StageInv, PayInv, KnowInv, RideInv, TakenInv, CrashInv, NEW h \in Procs, HandlerStep(h), OnlyCrash',
         NEW id \in Payments, ReceiveEvent(h, <<id, "succeeded">>)
  PROVE  /\ stripe[id] = "succeeded" /\ pay[id].status # "none"
         /\ id = Charge => book.chargeIntent = Charge \/ Orphan
         /\ id \in Additionals => \A g \in Procs: ~ Collecting(g)
<1>0. OnlyCrash /\ SettledInv /\ \A g \in Procs: SettlerAt(g)
  BY Clean DEF CrashInv
<1>1. <<id, "succeeded">> \in Events
  BY EventNames
<1>2. stripe[id] = "succeeded" /\ pay[id].status # "none"
  <2>1. event[<<id, "succeeded">>] # "none"
    BY DEF ReceiveEvent
  <2> QED
    BY <2>1 DEF PayInv
<1>3. ~ \E g \in Procs: call[g].id = id /\ call[g].event = None
  <2>1. PICK e \in Events: e = <<id, "succeeded">> /\ ReceiveEvent(h, e) /\ e[1] = id
    BY <1>1
  <2> QED
    BY <2>1, Clean
<1>4. ASSUME id = Charge, book.chargeIntent # Charge PROVE Orphan
  <2>1. Early /\ completed
    BY <1>0, <1>2, <1>4 DEF SettledInv
  <2>2. ASSUME NEW g \in Procs, Completer(g) PROVE FALSE
    <3>1. call[g].at # "special"
      BY <1>0, <1>2, <1>4, <2>2 DEF SettlerAt
    <3>2. call[g].at \in {"update", "settled"}
      BY <1>0, <1>2, <1>4, <2>2, <3>1 DEF SettlerAt
    <3>3. call[g].id = Charge /\ call[g].event = None
      BY <2>2, <3>2 DEF Completer, StageInv, Stage, AtCard
    <3> QED
      BY <1>3, <1>4, <3>3
  <2> QED
    BY <2>1, <2>2 DEF Orphan
<1>5. ASSUME id \in Additionals, NEW g \in Procs, Collecting(g) PROVE FALSE
  BY <1>0, <1>2, <1>3, <1>5, Winner
<1> QED
  BY <1>2, <1>4, <1>5

LEMMA ReporterMoves ==
  ASSUME TypeInv, StageInv, PayInv, KnowInv, RideInv, TakenInv, CrashInv, NEW h \in Procs, HandlerStep(h), OnlyCrash'
  PROVE  ReporterAt(h)'
<1>0. OnlyCrash /\ ReporterAt(h) /\ MissingInv /\ Arrival(h)
  BY Clean, Arrivals DEF CrashInv
<1>1. ASSUME Reporting(h)', call'[h].at = "row"
      PROVE  /\ call'[h].id = Charge => (book.chargeIntent = Charge \/ Orphan)'
             /\ call'[h].id \in Additionals => \A g \in Procs: ~ Collecting(g)'
  <2>1. PICK e \in Events: ReceiveEvent(h, e)
    BY <1>0, <1>1 DEF Arrival
  <2>2. call'[h].event = e /\ call'[h].id = e[1]
    BY <2>1, ReceiveMoves
  <2>3. PICK id \in Payments: e = <<id, "succeeded">>
    BY <1>1, <2>2, EventNames DEF Reporting
  <2>4. e[1] = id /\ ReceiveEvent(h, <<id, "succeeded">>)
    BY <2>1, <2>3
  <2>5. /\ id = Charge => book.chargeIntent = Charge \/ Orphan
        /\ id \in Additionals => \A g \in Procs: ~ Collecting(g)
    BY <2>4, Received
  <2>6. ~ Claim(h)
    BY <2>1 DEF ReceiveEvent, Claim
  <2> QED
    BY <2>2, <2>4, <2>5, <2>6, OrphanStays, ChargeIntentStays, OneCollects
<1>2. ASSUME Reporting(h)', call'[h].at \in {"succeeded", "apply"}
      PROVE  /\ Reporting(h) /\ call[h].at # "apply" /\ call'[h].id = call[h].id /\ ~ Claim(h)
             /\ call[h].id \in Payments /\ call[h].event = <<call[h].id, "succeeded">>
  <2>1. EventRow(h) \/ SucceededRead(h)
    BY <1>0, <1>2 DEF Arrival
  <2>2. /\ call[h].at \in {"row", "succeeded"} /\ call'[h].id = call[h].id /\ call'[h].event = call[h].event
    BY <2>1, EventRowMoves, SucceededReadMoves DEF Keeps
  <2>3. Reporting(h)
    BY <1>2, <2>2 DEF Reporting
  <2>4. ~ Claim(h)
    BY <2>2 DEF Claim
  <2>5. call[h].id \in Payments /\ call[h].event = <<call[h].id, "succeeded">>
    BY <2>2, <2>3 DEF Reporting, StageInv, Stage
  <2> QED
    BY <2>2, <2>3, <2>4, <2>5
<1>3. ASSUME call'[h].at = "apply"
      PROVE  /\ SucceededRead(h) /\ Reporting(h) /\ call'[h].id = call[h].id /\ call'[h].seen = book /\ book' = book /\ pay' = pay
             /\ call[h].at = "succeeded" /\ stripe[call[h].id] = "succeeded" /\ pay[call[h].id].status # "none"
             /\ call[h].id \in {Charge} \cup Additionals
             /\ call[h].id = Charge => book.chargeIntent # Charge
  <2>1. SucceededRead(h)
    BY <1>0, <1>3 DEF Arrival
  <2>2. /\ call[h].at = "succeeded" /\ call'[h].id = call[h].id /\ call'[h].seen = book
        /\ call[h].id = Charge => book.chargeIntent # Charge
    BY <1>3, <2>1, SucceededReadMoves
  <2>3. call[h].id \in Payments \ {Topup} /\ call[h].event = <<call[h].id, "succeeded">>
    BY <2>2 DEF StageInv, Stage
  <2>4. PICK id \in Payments: id = call[h].id
    BY <2>3
  <2>5. call[h].event # None
    <3>1. <<id, "succeeded">> \in Events /\ None \notin Events
      BY EventNames, Ids
    <3> QED
      BY <2>3, <2>4, <3>1
  <2>6. event[<<id, "succeeded">>] = "PROCESSING"
    BY <2>3, <2>4, <2>5 DEF KnowInv, Knows
  <2>7. stripe[id] = "succeeded" /\ pay[id].status # "none"
    BY <2>6 DEF PayInv
  <2> QED
    BY <2>1, <2>2, <2>3, <2>4, <2>5, <2>7, Ids DEF Reporting, SucceededRead
<1>4. ASSUME Reporting(h)', call'[h].id = Charge, call'[h].at # "apply" PROVE (book.chargeIntent = Charge \/ Orphan)'
  <2>1. CASE call'[h].at = "row"
    BY <1>1, <1>4, <2>1
  <2>2. CASE call'[h].at = "succeeded"
    <3>1. book.chargeIntent = Charge \/ Orphan
      BY <1>0, <1>2, <1>4, <2>2 DEF ReporterAt
    <3> QED
      BY <3>1, OrphanStays, ChargeIntentStays
  <2> QED
    BY <1>4, <2>1, <2>2 DEF Reporting
<1>5. ASSUME call'[h].at = "apply", call'[h].id = Charge PROVE Orphan' /\ call'[h].seen.collected = book'.collected
  <2>1. Orphan
    BY <1>0, <1>3, <1>5 DEF ReporterAt
  <2> QED
    BY <1>3, <1>5, <2>1, OrphanStays
<1>6. ASSUME call'[h].at = "apply", call'[h].id # Charge PROVE call'[h].seen.collected + pay'[call'[h].id].amount >= Fare
  BY <1>0, <1>3, <1>6 DEF MissingInv
<1>7. ASSUME Reporting(h)', call'[h].id \in Additionals, NEW g \in Procs PROVE ~ Collecting(g)'
  <2>1. CASE call'[h].at = "row"
    BY <1>1, <1>7, <2>1
  <2>2. CASE call'[h].at # "row"
    <3>1. call'[h].at \in {"succeeded", "apply"}
      BY <1>7, <2>2 DEF Reporting
    <3>2. (\A f \in Procs: ~ Collecting(f)) /\ ~ Claim(h)
      BY <1>0, <1>2, <1>7, <3>1 DEF ReporterAt
    <3> QED
      BY <3>2, OneCollects
  <2> QED
    BY <2>1, <2>2
<1> QED
  BY <1>4, <1>5, <1>6, <1>7 DEF ReporterAt

LEMMA SettlerStays ==
  ASSUME TypeInv, StageInv, PayInv, KnowInv, RideInv, TakenInv, CrashInv, NEW h \in Procs, HandlerStep(h), OnlyCrash',
         NEW g \in Procs, g # h
  PROVE  SettlerAt(g)'
<1>0. SettlerAt(g) /\ call'[g] = call[g]
  BY Clean, OthersStand DEF CrashInv
<1>1. Completer(g)' => Completer(g)
  BY <1>0 DEF Completer
<1>2. ASSUME Completer(g)
      PROVE  /\ Taken' = Taken /\ walletPaid' = walletPaid /\ book'.collected = book.collected
             /\ stripe'[Charge] = "succeeded" => stripe[Charge] = "succeeded"
             /\ book.chargeIntent = Charge => book'.chargeIntent = Charge
  <2>1. ~ Completer(h) /\ Early
    BY <1>2 DEF RideInv
  <2>2. ~ Collecting(h) /\ ~ Sourced /\ ~ Orphan
    BY <1>2, <2>1, SourcedEnded DEF RideInv, Collecting, Orphan, Early, Ended
  <2>3. ~ (ChargeStripe(h) /\ call[h].id = Charge)
    BY <2>1 DEF ChargeStripe, Completer, AtCard
  <2> QED
    BY <1>2, <2>1, <2>2, <2>3, Alone, WhoBooks, SourceMoves, ChargeIntentStays
<1>3. /\ call[g].at = "settle" \/ (call[g].at \in AtCard \cup {"settled"} /\ call[g].id = Charge) => Completer(g)
      /\ call[g].at = "special" => Completer(g)
  BY DEF Completer
<1> QED
  BY <1>0, <1>1, <1>2, <1>3 DEF SettlerAt, Won

LEMMA SettlerMoves ==
  ASSUME TypeInv, StageInv, PayInv, KnowInv, RideInv, TakenInv, CrashInv, NEW h \in Procs, HandlerStep(h), OnlyCrash'
  PROVE  SettlerAt(h)'
<1>0. OnlyCrash /\ SettlerAt(h) /\ SettledInv /\ Arrival(h) /\ ~ Error(h)
  BY Clean, Arrivals DEF CrashInv
<1>1. ASSUME Completer(h)', call'[h].at # "special"
      PROVE  /\ book'.collected = 0
             /\ stripe[Charge] # "succeeded" \/ (call[h].at = "update" /\ Won(h) /\ Completer(h))
  <2>1. CASE CompleteRide(h)
    <3>1. ~ completed /\ UNCHANGED book
      BY <2>1 DEF CompleteRide
    <3>2. pay[Charge].status = "none"
      BY <1>0, <3>1 DEF SettledInv
    <3> QED
      BY <1>0, <3>1, <3>2, Ids DEF SettledInv, PayInv
  <2>2. CASE Completer(h)
    <3>1. call[h].at # "special"
      BY <1>0, <1>1, <2>2, Simple, NoCallType DEF Arrival, Completer, CompleteRide, CreditDriver, ChargeWallet,
         RecordCompletion, SettleRead, ChargeInsert, ChargeStripe, ChargeUpdate, CountAttempts, AtCard, Begin
    <3>2. ~ SettleWrite(h) /\ call[h].at # "settled"
      BY <1>0, <1>1, <2>2, Simple DEF Arrival, Completer, CompleteRide, CreditDriver, ChargeWallet,
         RecordCompletion, SettleRead, ChargeInsert, ChargeStripe, ChargeUpdate, CountAttempts, AtCard, Begin
    <3>3. Early /\ ~ Sourced /\ ~ Orphan /\ ~ Collecting(h)
      BY <2>2, SourcedEnded DEF RideInv, Orphan, Collecting, Early, Ended
    <3>4. book'.collected = book.collected
      BY <3>2, <3>3, WhoBooks
    <3> QED
      BY <1>0, <2>2, <3>1, <3>2, <3>4 DEF SettlerAt
  <2> QED
    BY <1>1, <2>1, <2>2, RideMoves
<1>2. ASSUME call'[h].at = "settle" \/ (call'[h].at \in AtCard \cup {"settled"} /\ call'[h].id = Charge)
      PROVE  Taken' = walletPaid' \/ (call'[h].at \in {"update", "settled"} /\ call'[h].answer = "succeeded")
  <2>1. CASE call'[h].at = "settle" \/ (call'[h].at \in {"insert", "stripe"} /\ call'[h].id = Charge)
    BY <2>1, TakenAtSteps DEF TakenAt
  <2>2. CASE call'[h].at = "update" /\ call'[h].id = Charge
    <3>1. ChargeStripe(h) /\ call[h].at = "stripe" /\ call[h].id = Charge
      BY <1>0, <2>2, ChargeStripeMoves DEF Arrival
    <3>2. Taken = walletPaid /\ walletPaid' = walletPaid
      BY <3>1 DEF TakenInv, TakenAt, ChargeStripe
    <3>3. PICK outcome \in Answers: /\ stripe' = [stripe EXCEPT ![call[h].id] = outcome]
                                    /\ \/ call'[h].answer = outcome
                                       \/ Disturb("lost answer")
      BY <3>1, ChargeStripeMoves
    <3>4. stripe'[Charge] = outcome /\ call'[h].answer = outcome
      BY <3>1, <3>3, Ids, Clean DEF TypeInv
    <3> QED
      BY <2>2, <3>1, <3>2, <3>4, TakenSteps
  <2>3. CASE call'[h].at = "settled"
    <3>1. ~ ChargeWallet(h) /\ ~ DebitWallet(h) /\ ~ ChargeStripe(h) /\ walletPaid' = walletPaid
      BY <1>0, <2>3 DEF Arrival, SettleRead, ChargeInsert, ChargeUpdate, ChargeWallet, DebitWallet, ChargeStripe
    <3>2. CASE SettleRead(h)
      BY <3>1, <3>2, TakenSteps DEF SettleRead, TakenInv, TakenAt
    <3>3. CASE ChargeInsert(h)
      <4>1. call[h].at = "insert" /\ call[h].id = Charge
        BY <2>3, <3>3, ChargeInsertMoves DEF AnsweredAs
      <4> QED
        BY <3>1, <4>1, TakenSteps DEF TakenInv, TakenAt
    <3>4. CASE ChargeUpdate(h)
      <4>1. call[h].at = "update" /\ call[h].id = Charge /\ call'[h].answer = call[h].answer
        BY <2>3, <3>4, ChargeUpdateMoves DEF AnsweredAs
      <4>2. Taken = walletPaid \/ Won(h)
        BY <1>0, <4>1 DEF SettlerAt, AtCard
      <4> QED
        BY <2>3, <3>1, <4>1, <4>2, TakenSteps DEF Won
    <3> QED
      BY <1>0, <2>3, <3>2, <3>3, <3>4 DEF Arrival
  <2> QED
    BY <1>2, <2>1, <2>2, <2>3 DEF AtCard
<1>3. ASSUME call'[h].at = "special"
      PROVE  Taken' <= book'.collected /\ (stripe'[Charge] = "succeeded" => book'.chargeIntent = Charge)
  <2>1. SettleWrite(h) /\ call[h].at = "settled" /\ Completer(h)
    BY <1>0, <1>3 DEF Arrival, SettleWrite, Completer
  <2>2. Taken' = Taken /\ stripe' = stripe
    BY <2>1, TakenSteps DEF SettleWrite, ChargeWallet, DebitWallet, ChargeStripe
  <2>3. call[h].id = Charge
    BY <2>1 DEF StageInv, Stage
  <2>4. /\ book'.collected = (IF Won(h) THEN Share ELSE walletPaid)
        /\ Won(h) => book'.chargeIntent = Charge
    BY <2>1, Types DEF SettleWrite, BookType, Ok, Won
  <2>5. Taken <= Share /\ Taken \in Int
    BY <2>1, TakenSteps DEF RideInv, TakenInv, Early, Ended
  <2>6. Won(h) \/ (Taken = walletPaid /\ stripe[Charge] # "succeeded")
    BY <1>0, <2>1, <2>3 DEF SettlerAt
  <2> QED
    BY <2>2, <2>4, <2>5, <2>6, Types
<1>4. ASSUME Completer(h)', call'[h].at # "special", stripe'[Charge] = "succeeded"
      PROVE  call'[h].at \in {"update", "settled"} /\ call'[h].answer = "succeeded"
  <2>1. CASE stripe[Charge] = "succeeded"
    <3>1. call[h].at = "update" /\ Won(h) /\ Completer(h)
      BY <1>1, <1>4, <2>1
    <3>2. ChargeUpdate(h)
      BY <1>0, <1>4, <3>1 DEF Arrival, Completer, AtCard, CompleteRide, Begin, CreditDriver, ChargeWallet, RecordCompletion,
         SettleRead, CountAttempts, ChargeInsert, ChargeStripe
    <3>3. AnsweredAs(h, call[h].answer) /\ call[h].id = Charge
      BY <3>1, <3>2, ChargeUpdateMoves DEF Completer
    <3> QED
      BY <3>1, <3>3 DEF AnsweredAs, Won
  <2>2. CASE stripe[Charge] # "succeeded"
    <3>1. ChargeStripe(h) /\ call[h].id = Charge
      BY <1>4, <2>2, SourceMoves
    <3>2. PICK outcome \in Answers: /\ stripe' = [stripe EXCEPT ![call[h].id] = outcome]
                                    /\ \/ call'[h].answer = outcome
                                       \/ Disturb("lost answer")
      BY <3>1, ChargeStripeMoves
    <3>3. stripe'[Charge] = outcome /\ call'[h].answer = outcome
      BY <3>1, <3>2, Ids, Clean DEF TypeInv
    <3> QED
      BY <1>4, <3>1, <3>3, ChargeStripeMoves
  <2> QED
    BY <2>1, <2>2
<1> QED
  BY <1>1, <1>2, <1>3, <1>4 DEF SettlerAt, Won

LEMMA CrashSteps ==
  ASSUME TypeInv, StageInv, PayInv, KnowInv, RideInv, TakenInv, CrashInv, NEW h \in Procs, HandlerStep(h)
  PROVE  CrashInv'
<1> SUFFICES ASSUME OnlyCrash'
             PROVE  (\A g \in Procs: SettlerAt(g)' /\ ReporterAt(g)' /\ ExtraAt(g)') /\ MissingInv' /\ SettledInv'
  BY DEF CrashInv
<1>1. ASSUME NEW g \in Procs PROVE SettlerAt(g)' /\ ReporterAt(g)' /\ ExtraAt(g)'
  BY SettlerStays, SettlerMoves, ReporterStays, ReporterMoves, ExtraAtSteps
<1> QED
  BY <1>1, MissingSteps, SettledSteps

-----------------------------------------------------------------------------
(* A crash, a top-up that is paid, and the beginning.                      *)

SettlementInv ==
  TypeInv /\ StageInv /\ PayInv /\ KnowInv /\ RideInv /\ TakenInv /\ DriverInv /\ EventInv /\ CrashInv

LEMMA HandlerSteps ==
  ASSUME SettlementInv, NEW h \in Procs, HandlerStep(h)
  PROVE  SettlementInv'
<1>1. TypeInv /\ StageInv /\ PayInv /\ KnowInv /\ RideInv /\ TakenInv /\ DriverInv /\ EventInv /\ CrashInv
  BY DEF SettlementInv
<1>2. StageInv'
  <2>1. \A g \in Procs: g # h => call'[g] = call[g]
    BY <1>1, OthersStand
  <2>2. pay[Topup].status # "none" => pay'[Topup].status # "none"
    BY <1>1, PayMoves, Ids
  <2>3. StageAt(h)'
    BY <1>1, StageSteps
  <2>4. ASSUME NEW g \in Procs, g # h
        PROVE  Stage(call[g])' /\ (call'[g].at \in AtTopup => pay'[Topup].status # "none")
    <3>1. Stage(call[g]) /\ (call[g].at \in AtTopup => pay[Topup].status # "none") /\ call'[g] = call[g]
      BY <1>1, <2>1, <2>4 DEF StageInv
    <3>2. Stage(call[g])'
      <4>1. PICK c: c = call[g]
        OBVIOUS
      <4>2. Stage(c)'
        BY <3>1, <4>1 DEF Stage, Whole
      <4> QED
        BY <3>1, <4>1, <4>2 DEF Stage, Whole
    <3> QED
      BY <2>2, <3>1, <3>2
  <2> QED
    BY <2>3, <2>4 DEF StageInv, StageAt
<1> QED
  BY <1>1, <1>2, TypeSteps, PaySteps, KnowSteps, RideSteps, TakenInvSteps, DriverSteps, EventSteps, CrashSteps
     DEF SettlementInv

LEMMA TakenSame ==
  ASSUME UNCHANGED <<entries, pay, stripe>>
  PROVE  Taken' = Taken
  BY DEF Taken

LEMMA Stuttering ==
  ASSUME SettlementInv, UNCHANGED vars
  PROVE  SettlementInv'
<1>1. TypeInv /\ StageInv /\ PayInv /\ KnowInv /\ RideInv /\ TakenInv /\ DriverInv /\ EventInv /\ CrashInv
  BY DEF SettlementInv
<1>2. UNCHANGED <<balance, entries, special, completed, walletPaid, book, driver, pay, stripe, event, call, passes, faults>>
  BY DEF vars, ledger
<1>3. Taken' = Taken
  BY <1>2, TakenSame
<1>4. \A key: Posted(key)' <=> Posted(key)
  BY <1>2 DEF Posted, Wallet!Posted
<1>5. TypeInv' /\ PayInv'
  BY <1>1, <1>2 DEF TypeInv, PayInv
<1>6. StageInv'
  BY <1>1, <1>2 DEF StageInv, Stage, Whole
<1>7. KnowInv' /\ RideInv'
  BY <1>1, <1>2, <1>4 DEF KnowInv, Knows, RideInv, Completer, Extra, Sponsoring, Early, Ended
<1>8. TakenInv'
  BY <1>1, <1>2, <1>3, <1>4 DEF TakenInv, TakenAt, Extra, Ended, Share
<1>9. DriverInv' /\ EventInv'
  BY <1>1, <1>2, <1>4 DEF DriverInv, EventInv, Applied, Early
<1>10. CrashInv'
  <2>1. /\ Sourced' <=> Sourced
        /\ Orphan' <=> Orphan
        /\ Early' <=> Early
        /\ \A h \in Procs: (Collecting(h)' <=> Collecting(h)) /\ (Reporting(h)' <=> Reporting(h))
                           /\ (Completer(h)' <=> Completer(h)) /\ (Won(h)' <=> Won(h))
    BY <1>2, <1>4 DEF Sourced, Orphan, Early, Collecting, Reporting, Completer, Extra, Won
  <2>2. SettledInv' <=> SettledInv
    BY <1>2, <1>3, <2>1 DEF SettledInv
  <2>3. MissingInv' <=> MissingInv
    BY <1>2, <1>3, <1>4, <2>1 DEF MissingInv
  <2>4. ASSUME NEW h \in Procs
        PROVE  (SettlerAt(h)' <=> SettlerAt(h)) /\ (ReporterAt(h)' <=> ReporterAt(h)) /\ (ExtraAt(h)' <=> ExtraAt(h))
    BY <1>2, <1>3, <2>1 DEF SettlerAt, ReporterAt, ExtraAt
  <2> QED
    BY <1>1, <1>2, <2>2, <2>3, <2>4 DEF CrashInv, OnlyCrash
<1> QED
  BY <1>5, <1>6, <1>7, <1>8, <1>9, <1>10 DEF SettlementInv

LEMMA Crashes ==
  ASSUME SettlementInv, Crash
  PROVE  SettlementInv'
<1>1. TypeInv /\ StageInv /\ PayInv /\ KnowInv /\ RideInv /\ TakenInv /\ DriverInv /\ EventInv /\ CrashInv
  BY DEF SettlementInv
<1>2. UNCHANGED <<balance, entries, special, completed, walletPaid, book, driver, pay, stripe, event, passes>>
  BY DEF Crash, ledger
<1>3. call' = [h \in Procs |-> NoCall] /\ faults' = faults \cup {"crash"}
  BY DEF Crash, Disturb
<1>4. \A h \in Procs: call'[h].at = "idle" /\ call'[h].id = None /\ call'[h].event = None /\ call'[h].answer = None
  BY <1>3, NoCallType
<1>5. Taken' = Taken
  BY <1>2, TakenSame
<1>6. \A key: Posted(key)' <=> Posted(key)
  BY <1>2 DEF Posted, Wallet!Posted
<1>7. TypeInv'
  BY <1>1, <1>2, <1>3, NoCallType DEF TypeInv
<1>8. PayInv'
  BY <1>1, <1>2 DEF PayInv
<1>9. StageInv'
  BY <1>4 DEF StageInv, Stage, AtCard, AtTopup
<1>10. \A h \in Procs: ~ Completer(h)' /\ ~ Extra(h)' /\ ~ Sponsoring(h)'
  BY <1>4 DEF Completer, Extra, Sponsoring, AtCard
<1>11. KnowInv'
  BY <1>4 DEF KnowInv, Knows
<1>12. RideInv'
  BY <1>1, <1>2, <1>6, <1>10 DEF RideInv, Early, Ended
<1>13. TakenInv'
  BY <1>1, <1>2, <1>4, <1>5, <1>6, <1>10 DEF TakenInv, TakenAt, Ended, Share
<1>14. DriverInv'
  BY <1>1, <1>2, <1>3, <1>4 DEF DriverInv, Early
<1>15. EventInv'
  BY <1>1, <1>2, <1>4, <1>6 DEF EventInv, Applied
<1>16. CrashInv'
  <2>1. /\ Sourced' <=> Sourced
        /\ Early' <=> Early
        /\ OnlyCrash' => OnlyCrash
        /\ \A h \in Procs: ~ Collecting(h)' /\ ~ Reporting(h)'
    BY <1>2, <1>3, <1>4, <1>6, <1>10 DEF Sourced, Early, Collecting, Reporting, OnlyCrash
  <2>2. SettledInv' <=> SettledInv
    BY <1>2, <1>5, <2>1 DEF SettledInv
  <2>3. MissingInv => MissingInv'
    BY <1>2, <1>5, <1>6, <2>1 DEF MissingInv
  <2>4. ASSUME NEW h \in Procs PROVE SettlerAt(h)' /\ ReporterAt(h)' /\ ExtraAt(h)'
    BY <1>4, <1>10, <2>1 DEF SettlerAt, ReporterAt, ExtraAt, AtCard
  <2> QED
    BY <1>1, <2>1, <2>2, <2>3, <2>4 DEF CrashInv
<1> QED
  BY <1>7, <1>8, <1>9, <1>11, <1>12, <1>13, <1>14, <1>15, <1>16 DEF SettlementInv

LEMMA Topups ==
  ASSUME SettlementInv, PayTopup
  PROVE  SettlementInv'
<1>1. TypeInv /\ StageInv /\ PayInv /\ KnowInv /\ RideInv /\ TakenInv /\ DriverInv /\ EventInv /\ CrashInv
  BY DEF SettlementInv
<1>2. UNCHANGED <<balance, entries, special, completed, walletPaid, book, driver, call, passes, faults>>
  BY DEF PayTopup, ledger
<1>3. /\ pay[Topup].status = "none"
      /\ pay' = [pay EXCEPT ![Topup] = [status |-> "PENDING", amount |-> TopupAmount]]
      /\ stripe' = [stripe EXCEPT ![Topup] = "succeeded"]
      /\ event' = [event EXCEPT ![<<Topup, "succeeded">>] = "due", ![<<Topup, "session">>] = "due"]
  BY DEF PayTopup
<1>4. /\ \A id \in Payments: id # Topup => pay'[id] = pay[id] /\ stripe'[id] = stripe[id]
      /\ pay'[Topup].status = "PENDING" /\ pay'[Topup].amount = TopupAmount /\ stripe'[Topup] = "succeeded"
  BY <1>1, <1>3, Ids DEF TypeInv
<1>5. /\ \A e \in Events: e \notin PaidTopup => event'[e] = event[e]
      /\ \A e \in PaidTopup: event'[e] = "due"
  BY <1>1, <1>3, EventNames DEF TypeInv, PaidTopup
<1>6. stripe[Topup] = "none" /\ \A e \in PaidTopup: event[e] = "none"
  BY <1>1, <1>3, Ids DEF PayInv, PaidTopup
<1>7. Charge \in Payments /\ Charge # Topup /\ \A id \in Additionals: id \in Payments /\ id # Topup
  BY Ids
<1>8. Taken' = Taken
  <2>1. PaidCards' = PaidCards
    BY <1>4 DEF PaidCards
  <2>2. \A id \in PaidCards: AmountOf'[id] = AmountOf[id]
    BY <1>4 DEF PaidCards, AmountOf
  <2>3. Sum(AmountOf', PaidCards) = Sum(AmountOf, PaidCards)
    BY <1>1, <2>2, DebitsAre, SumSame
  <2>4. FromCards' = FromCards
    BY <2>1, <2>3, TotalIsSum DEF FromCards
  <2>5. FromWallet' = FromWallet
    BY <1>2 DEF FromWallet, Debit, Debits
  <2>6. Taken' = FromWallet' + FromCards' /\ Taken = FromWallet + FromCards
    BY DEF Taken, FromWallet, FromCards, Debit, Debits, AmountOf, PaidCards
  <2> QED
    BY <2>4, <2>5, <2>6
<1>9. \A key: Posted(key)' <=> Posted(key)
  BY <1>2 DEF Posted, Wallet!Posted
<1>10. TypeInv'
  <2>1. [status |-> "PENDING", amount |-> TopupAmount] \in PayType
    BY Numbers DEF PayType
  <2>2. pay' \in [Payments -> PayType]
    BY <1>1, <1>3, <2>1 DEF TypeInv
  <2>3. stripe' \in [Payments -> {"none"} \cup Answers]
    BY <1>1, <1>3 DEF TypeInv, Answers
  <2>4. event' \in [Events -> {"none", "due", "PROCESSING", "FAILED", "PROCESSED"}]
    BY <1>1, <1>3 DEF TypeInv
  <2> QED
    BY <1>1, <1>2, <2>2, <2>3, <2>4 DEF TypeInv
<1>11. PayInv'
  <2>1. ASSUME NEW id \in Payments
        PROVE  /\ stripe'[id] # "none" => pay'[id].status # "none"
               /\ event'[<<id, "succeeded">>] # "none" => stripe'[id] = "succeeded"
               /\ event'[<<id, "failed">>] # "none" => stripe'[id] = "declined"
               /\ pay'[id].status = "SUCCEEDED" /\ id # Topup => stripe'[id] = "succeeded"
    <3>1. /\ stripe[id] # "none" => pay[id].status # "none"
          /\ event[<<id, "succeeded">>] # "none" => stripe[id] = "succeeded"
          /\ event[<<id, "failed">>] # "none" => stripe[id] = "declined"
          /\ pay[id].status = "SUCCEEDED" /\ id # Topup => stripe[id] = "succeeded"
      BY <1>1 DEF PayInv
    <3>2. event'[<<id, "failed">>] = event[<<id, "failed">>]
      BY <1>5, EventNames DEF PaidTopup
    <3>3. id # Topup => event'[<<id, "succeeded">>] = event[<<id, "succeeded">>]
      BY <1>5, EventNames DEF PaidTopup
    <3> QED
      BY <1>4, <1>6, <3>1, <3>2, <3>3
  <2> QED
    BY <1>1, <1>2, <1>4, <2>1 DEF PayInv
<1>12. StageInv'
  BY <1>1, <1>2, <1>4 DEF StageInv, Stage, Whole
<1>13. KnowInv'
  <2>1. ASSUME NEW h \in Procs PROVE Knows(h)'
    <3>1. Knows(h) /\ call' = call
      BY <1>1, <1>2 DEF KnowInv
    <3>2. call[h].at \in {"stripe", "update"} => call[h].id \in Payments /\ call[h].id # Topup
      BY <1>1, AtTheCard DEF AtCard
    <3>3. call[h].at = "expired" /\ call[h].id # None => call[h].id \in Payments /\ call[h].id # Topup
      BY <1>1, <1>7 DEF StageInv, Stage
    <3>4. call[h].event # None => call[h].event \in Events /\ call[h].event \notin PaidTopup
      BY <1>1, <1>6, <3>1 DEF Knows, TypeInv, CallType
    <3> QED
      BY <1>4, <1>5, <1>7, <1>9, <3>1, <3>2, <3>3, <3>4 DEF Knows
  <2> QED
    BY <1>1, <1>2, <2>1 DEF KnowInv
<1>14. RideInv'
  BY <1>1, <1>2, <1>4, <1>7, <1>9 DEF RideInv, Completer, Extra, Sponsoring, Early, Ended
<1>15. TakenInv'
  BY <1>1, <1>2, <1>4, <1>7, <1>8, <1>9 DEF TakenInv, TakenAt, Extra, Ended, Share
<1>16. DriverInv'
  BY <1>1, <1>2 DEF DriverInv, Early
<1>17. EventInv'
  <2>1. \A e \in Events: event'[e] = "PROCESSED" => event[e] = "PROCESSED"
    BY <1>5
  <2> QED
    BY <1>1, <1>2, <1>9, <2>1 DEF EventInv, Applied
<1>18. CrashInv'
  <2>1. /\ Sourced' <=> Sourced
        /\ Orphan' <=> Orphan
        /\ Early' <=> Early
        /\ \A h \in Procs: (Collecting(h)' <=> Collecting(h)) /\ (Reporting(h)' <=> Reporting(h))
                           /\ (Completer(h)' <=> Completer(h)) /\ (Won(h)' <=> Won(h))
    BY <1>2, <1>4, <1>7, <1>9 DEF Sourced, Orphan, Early, Collecting, Reporting, Completer, Extra, Won
  <2>2. SettledInv' <=> SettledInv
    BY <1>2, <1>4, <1>7, <1>8, <2>1 DEF SettledInv
  <2>3. MissingInv' <=> MissingInv
    BY <1>2, <1>4, <1>7, <1>8, <1>9, <2>1 DEF MissingInv
  <2>4. ASSUME NEW h \in Procs
        PROVE  (SettlerAt(h)' <=> SettlerAt(h)) /\ (ReporterAt(h)' <=> ReporterAt(h)) /\ (ExtraAt(h)' <=> ExtraAt(h))
    <3>1. call[h].at = "apply" => call[h].id \in Payments /\ call[h].id # Topup
      BY <1>1 DEF StageInv, Stage
    <3>2. SettlerAt(h)' <=> SettlerAt(h)
      BY <1>2, <1>4, <1>7, <1>8, <2>1 DEF SettlerAt
    <3>3. ReporterAt(h)' <=> ReporterAt(h)
      BY <1>2, <1>4, <2>1, <3>1 DEF ReporterAt
    <3>4. ExtraAt(h)' <=> ExtraAt(h)
      BY <1>2, <2>1 DEF ExtraAt
    <3> QED
      BY <3>2, <3>3, <3>4
  <2> QED
    BY <1>1, <1>2, <2>2, <2>3, <2>4 DEF CrashInv, OnlyCrash
<1> QED
  BY <1>10, <1>11, <1>12, <1>13, <1>14, <1>15, <1>16, <1>17, <1>18 DEF SettlementInv

LEMMA SettlementInits == Init => SettlementInv
<1> SUFFICES ASSUME Init PROVE SettlementInv
  OBVIOUS
<1>1. /\ entries = {} /\ special \in {"none", "RIDE_PENDING"} /\ completed = FALSE /\ walletPaid = 0 /\ driver = 0
      /\ passes = 0 /\ faults = {} /\ pay = [p \in Payments |-> [status |-> "none", amount |-> 0]]
      /\ stripe = [p \in Payments |-> "none"] /\ event = [e \in Events |-> "none"] /\ call = [h \in Procs |-> NoCall]
  BY DEF Init
<1>2. /\ book \in BookType /\ book.collected = 0 /\ book.sponsor = 0 /\ book.status = "NONE"
  <2>1. PICK consent \in BOOLEAN:
          book = [collected |-> 0, status |-> "NONE", sponsor |-> 0, sponsorStatus |-> "NONE",
                  chargeIntent |-> None, additionalIntent |-> None, settled |-> "PENDING",
                  driverSettled |-> 0, expired |-> FALSE, consent |-> consent]
    BY DEF Init
  <2> QED
    BY <2>1, SettlementAssumption DEF BookType
<1>3. \A h \in Procs: call[h].at = "idle" /\ call[h].id = None /\ call[h].event = None /\ call[h].answer = None
  BY <1>1, NoCallType
<1>4. \A id \in Payments: pay[id].status = "none" /\ stripe[id] = "none"
  BY <1>1
<1>5. \A e \in Events: event[e] = "none"
  BY <1>1
<1>6. \A key: ~ Posted(key)
  BY <1>1 DEF Posted, Wallet!Posted
<1>7. Taken = 0
  <2>1. Debits = {} /\ PaidCards = {}
    BY <1>1, <1>4 DEF Debits, PaidCards
  <2>2. FromWallet = 0 /\ FromCards = 0
    BY <2>1, SumEmpty, TotalIsSum DEF FromWallet, FromCards
  <2> QED
    BY <2>2, TakenIs
<1>8. \A h \in Procs: ~ Completer(h) /\ ~ Extra(h) /\ ~ Sponsoring(h)
  BY <1>3 DEF Completer, Extra, Sponsoring, AtCard
<1>9. Early /\ ~ Ended
  BY <1>1 DEF Early, Ended
<1>10. TypeInv
  <2>1. balance \in [Accounts -> Nat]
    BY SettlementAssumption DEF Init
  <2>2. [status |-> "none", amount |-> 0] \in PayType
    BY Numbers DEF PayType
  <2>3. pay \in [Payments -> PayType]
    BY <1>1, <2>2
  <2>4. IsFiniteSet(entries) /\ entries \subseteq Wallet!Entry
    BY <1>1, FS_EmptySet
  <2>5. walletPaid \in 0..Fare /\ driver \in Nat /\ passes \in 0..MaxPasses
    BY <1>1, Numbers
  <2>6. call \in [Procs -> CallType]
    BY <1>1, NoCallType
  <2>7. /\ stripe \in [Payments -> {"none"} \cup Answers]
        /\ event \in [Events -> {"none", "due", "PROCESSING", "FAILED", "PROCESSED"}]
    BY <1>1
  <2> QED
    BY <1>1, <1>2, <2>1, <2>3, <2>4, <2>5, <2>6, <2>7 DEF TypeInv
<1>11. PayInv
  BY <1>1, <1>4, <1>5, EventNames, Ids DEF PayInv
<1>12. StageInv /\ KnowInv
  BY <1>3 DEF StageInv, Stage, KnowInv, Knows, AtCard, AtTopup
<1>13. RideInv
  BY <1>1, <1>2, <1>4, <1>6, <1>8, <1>9, Ids DEF RideInv
<1>14. TakenInv
  BY <1>1, <1>2, <1>3, <1>4, <1>6, <1>7, <1>8, Ids, Numbers DEF TakenInv, TakenAt
<1>15. DriverInv /\ EventInv
  BY <1>1, <1>2, <1>3, <1>5, <1>9, Numbers DEF DriverInv, EventInv
<1>16. CrashInv
  <2>1. ~ Sourced /\ \A h \in Procs: ~ Collecting(h) /\ ~ Reporting(h)
    BY <1>3, <1>4, <1>6, <1>8, Ids DEF Sourced, Collecting, Reporting
  <2>2. \A h \in Procs: SettlerAt(h) /\ ReporterAt(h) /\ ExtraAt(h)
    BY <1>3, <1>8, <2>1 DEF SettlerAt, ReporterAt, ExtraAt, AtCard
  <2>3. MissingInv
    BY <1>4, <1>6, <2>1, Ids DEF MissingInv
  <2>4. SettledInv
    BY <1>1, <1>2, <1>4, <1>9, Ids DEF SettledInv
  <2> QED
    BY <2>2, <2>3, <2>4 DEF CrashInv
<1> QED
  BY <1>10, <1>11, <1>12, <1>13, <1>14, <1>15, <1>16 DEF SettlementInv

LEMMA SettlementNext == SettlementInv /\ [Next]_vars => SettlementInv'
<1> SUFFICES ASSUME SettlementInv, [Next]_vars PROVE SettlementInv'
  OBVIOUS
<1>1. ASSUME NEW h \in Procs, HandlerStep(h) PROVE SettlementInv'
  BY <1>1, HandlerSteps
<1> QED
  BY <1>1, Stuttering, Crashes, Topups DEF Next, HandlerStep

-----------------------------------------------------------------------------
(* The theorems.                                                           *)

\* The inductive invariant of the settlement: what every handler holds at each
\* of its statements, and how the books, the wallet, the card and Stripe's
\* events agree in between.
THEOREM SettlementSafe == Spec => []SettlementInv
<1> QED
  BY SettlementInits, SettlementNext, PTL DEF Spec

\* The variables keep their types, and what is booked as collected stays within
\* the fare.
THEOREM SettlementTypes == Spec => []TypeOK
<1>1. SettlementInv => TypeOK
  BY DEF SettlementInv, TypeInv, TypeOK, PayType, CallType, Answers
<1> QED
  BY <1>1, SettlementSafe, PTL

\* When nothing but crashes disturbs the settlement, wallet and card together
\* never pay more than the fare.
THEOREM NobodyOvercharged == Spec => []NeverOvercharged
<1>1. SettlementInv => NeverOvercharged
  <2> SUFFICES ASSUME SettlementInv, OnlyCrash PROVE Taken <= Fare
    BY DEF NeverOvercharged, OnlyCrash
  <2>1. TypeInv /\ PayInv /\ RideInv /\ TakenInv /\ MissingInv /\ SettledInv
    BY DEF SettlementInv, CrashInv
  <2>2. Taken \in Int
    BY <2>1, TakenType
  <2>3. CASE ~ Ended
    BY <2>1, <2>2, <2>3, Numbers DEF TakenInv
  <2>4. CASE Sourced
    BY <2>1, <2>4 DEF MissingInv
  <2>5. CASE Ended /\ ~ Sourced
    <3>1. Taken <= book.collected
      BY <2>1, <2>5 DEF SettledInv, Ended, Early
    <3> QED
      BY <2>1, <2>2, <3>1, BookNow, Numbers
  <2> QED
    BY <2>3, <2>4, <2>5
<1> QED
  BY <1>1, SettlementSafe, PTL

\* The breakdown never claims more from the rider than wallet and card paid,
\* whatever is lost, repeated, reordered or fails.
THEOREM BooksBehind == Spec => []BooksNeverAhead
<1>1. SettlementInv => BooksNeverAhead
  BY DEF SettlementInv, TakenInv, BooksNeverAhead
<1> QED
  BY <1>1, SettlementSafe, PTL

\* What is booked as collected is not lost again to another handler's write,
\* as long as nothing but crashes disturbs the settlement.
THEOREM CollectedKept == Spec => CollectedOnlyGrows
<1>1. SettlementInv /\ [Next]_vars => [faults' \subseteq {"crash"} => book'.collected >= book.collected]_book
  <2> SUFFICES ASSUME SettlementInv, [Next]_vars, book' # book, OnlyCrash' PROVE book'.collected >= book.collected
    BY DEF OnlyCrash
  <2>1. PICK h \in Procs: HandlerStep(h)
    BY DEF Next, HandlerStep, Crash, PayTopup, vars
  <2>2. book.collected <= book'.collected /\ book.collected \in Int /\ book'.collected \in Int
    BY <2>1, CollectedGrows DEF SettlementInv
  <2> QED
    BY <2>2
<1> QED
  BY <1>1, SettlementSafe, PTL DEF Spec, CollectedOnlyGrows

\* What the sponsor contributes the rider never pays as well.
THEOREM OnePays == Spec => []NeverBothPay
<1>1. SettlementInv => NeverBothPay
  <2> SUFFICES ASSUME SettlementInv, special = "REWARD_COMPLETED" \/ book.sponsor > 0 PROVE Taken <= Fare - Subsidy
    BY DEF NeverBothPay
  <2>1. special = "REWARD_COMPLETED"
    BY DEF SettlementInv, RideInv
  <2>2. Taken <= Share
    BY <2>1 DEF SettlementInv, TakenInv, Ended
  <2> QED
    BY <2>1, <2>2 DEF Share
<1> QED
  BY <1>1, SettlementSafe, PTL

\* Unless a settlement pass failed, the driver gets his earnings once.
THEOREM DriverCreditedOnce == Spec => []DriverPaidOnce
<1>1. SettlementInv => DriverPaidOnce
  BY DEF SettlementInv, DriverInv, DriverPaidOnce
<1> QED
  BY <1>1, SettlementSafe, PTL

\* What was acknowledged to Stripe has left its mark.
THEOREM EventsApplied == Spec => []AcknowledgedIsApplied
<1>1. SettlementInv => AcknowledgedIsApplied
  <2> SUFFICES ASSUME SettlementInv PROVE AcknowledgedIsApplied
    OBVIOUS
  <2>1. \A e \in Events: event[e] = "PROCESSED" => Applied(e)
    BY DEF SettlementInv, EventInv
  <2>2. ASSUME NEW kind \in {"succeeded", "session"}, event[<<Topup, kind>>] = "PROCESSED" PROVE Posted("wallet-topup")
    <3>1. PICK e \in PaidTopup: e = <<Topup, kind>> /\ e \in Events
      BY Ids, EventNames DEF PaidTopup
    <3> QED
      BY <2>1, <2>2, <3>1 DEF Applied
  <2>3. ASSUME event[<<Charge, "succeeded">>] = "PROCESSED" PROVE book.chargeIntent = Charge
    <3>1. <<Charge, "succeeded">> \in Events
      BY Ids, EventNames
    <3> QED
      BY <2>1, <2>3, <3>1 DEF Applied
  <2>4. ASSUME NEW n \in Attempts, event[<<Additional(n), "succeeded">>] = "PROCESSED"
        PROVE  book.additionalIntent # None \/ Posted("wallet-additional")
    <3>1. PICK id \in Additionals: id = Additional(n)
      BY DEF Additionals
    <3>2. PICK e \in Events: e = <<id, "succeeded">>
      BY <3>1, Ids, EventNames
    <3>3. e[1] \in Additionals /\ e[2] = "succeeded"
      BY <3>2
    <3> QED
      BY <2>1, <2>4, <3>1, <3>2, <3>3 DEF Applied
  <2> QED
    BY <2>2, <2>3, <2>4 DEF AcknowledgedIsApplied, Posted
<1> QED
  BY <1>1, SettlementSafe, PTL
=============================================================================
