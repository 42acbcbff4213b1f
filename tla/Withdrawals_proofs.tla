------------------------- MODULE Withdrawals_proofs -------------------------
(***************************************************************************)
(* Proofs about Specials and Withdrawals, for any number of redemptions,   *)
(* handlers, charges and faults: no column of the sponsors row goes below  *)
(* zero, no redemption is both paid by the sponsor and given back, what is *)
(* reserved is held by redemptions, the books balance, and the refunds of  *)
(* a withdrawal are its amount.                                            *)
(***************************************************************************)
EXTENDS Withdrawals, Sums, TLAPS

Budget == [status: {"ACTIVE", "DEPLETED"}, initial: Nat, remaining: Nat, reserved: Nat, used: Nat]

Special == [status: Statuses, discount: Discounts \cup {0}, validated: BOOLEAN]

Calls == [at: CallAt, id: Redemptions \cup {None}]

\* A handler at work works on a redemption.
HasRedemption == \A h \in Procs: call[h].at # "idle" => call[h].id \in Redemptions

TypeInv ==
  /\ redemption \in [Redemptions -> Special]
  /\ redeemed \subseteq Redemptions
  /\ released \in [Redemptions -> Nat]
  /\ ride \in [Redemptions -> {"none", "open", "COMPLETED", "CANCELLED"}]
  /\ billed \subseteq Redemptions
  /\ call \in [Procs -> Calls]
  /\ HasRedemption

\* What NeverBothEnds and the reservations are about, but for the sponsor.
ends == <<redemption, redeemed, released, ride, billed, call, leaked>>

\* Steps that move money leave the redemptions and their handlers alone.
LEMMA MoneyLeavesEnds == ASSUME MoneyNext PROVE UNCHANGED ends
<1> USE DEF ends, specialVars, noRedemption
<1>1. ASSUME NEW c \in Charges, Pay(c) \/ ChargeRefunded(c) PROVE UNCHANGED ends
  BY <1>1 DEF Pay, ChargeRefunded
<1>2. CASE NewWeek
  BY <1>2 DEF NewWeek
<1>3. ASSUME NEW h \in Procs, NEW c \in Charges, TopupClaim(h, c) \/ CountKnown(h, c) \/ CreateRefund(h, c)
      PROVE  UNCHANGED ends
  BY <1>3 DEF TopupClaim, CountKnown, CreateRefund
<1>4. ASSUME NEW h \in Procs, CreditFundedBudget(h) \/ TopupMark(h) \/ TopupFailed(h) PROVE UNCHANGED ends
  BY <1>4 DEF CreditFundedBudget, TopupMark, TopupFailed
<1>5. ASSUME NEW h \in Procs, NEW w \in Withdrawals, Sweep(h, w) PROVE UNCHANGED ends
  BY <1>5 DEF Sweep
<1>6. ASSUME NEW h \in Procs, NEW w \in Withdrawals, NEW a \in Amounts, RequestWithdrawal(h, w, a)
      PROVE  UNCHANGED ends
  BY <1>6 DEF RequestWithdrawal
<1>7. ASSUME NEW h \in Procs, Plan(h) \/ RefundsEnd(h) \/ RunCrash(h) PROVE UNCHANGED ends
  BY <1>7 DEF Plan, RefundsEnd, RunCrash
<1> QED
  BY <1>1, <1>2, <1>3, <1>4, <1>5, <1>6, <1>7 DEF MoneyNext

\* The initial state has its types.
LEMMA InitType == Init => TypeInv
  BY DEF Init, SpecialsInit, TypeInv, HasRedemption, Special, Statuses, Calls, CallAt, NoCall

\* A handler that starts, goes on or finishes has its type afterwards.
LEMMA HandlerTypes ==
  ASSUME TypeInv, NEW h \in Procs, NEW r \in Redemptions, NEW at \in CallAt,
         \/ Start(h, at, r)
         \/ call[h].at # "idle" /\ Goto(h, at)
         \/ Finish(h)
  PROVE  call' \in [Procs -> Calls] /\ HasRedemption'
<1> USE DEF TypeInv, HasRedemption, Calls
<1>1. CASE Start(h, at, r)
  BY <1>1 DEF Start
<1>2. CASE call[h].at # "idle" /\ Goto(h, at)
  BY <1>2 DEF Goto
<1>3. CASE Finish(h)
  BY <1>3 DEF Finish, NoCall, CallAt
<1> QED
  BY <1>1, <1>2, <1>3

\* Setting a status keeps the types.
LEMMA StatusTypes ==
  ASSUME TypeInv, NEW r \in Redemptions, NEW s \in Statuses, SetStatus(r, s)
  PROVE  redemption' \in [Redemptions -> Special]
  BY DEF TypeInv, SetStatus, Special

\* Every step keeps the types.
LEMMA StepType == TypeInv /\ [Next]_vars => TypeInv'
<1> SUFFICES ASSUME TypeInv, [Next]_vars PROVE TypeInv'
  OBVIOUS
<1> USE DEF books, history, At
<1>1. ASSUME NEW r \in Redemptions, CreateForRider(r) \/ Supersede(r) PROVE TypeInv'
  BY <1>1, StatusTypes DEF CreateForRider, Supersede, TypeInv, HasRedemption, Statuses
<1>2. ASSUME NEW r \in Redemptions, AttachToRideRequest(r) PROVE TypeInv'
  <2>1. PICK d \in Discounts :
          redemption' = [redemption EXCEPT ![r].status = "RIDE_PENDING", ![r].discount = d]
    BY <1>2 DEF AttachToRideRequest
  <2>2. redemption[r] \in Special
    BY DEF TypeInv
  <2>3. [redemption[r] EXCEPT !.status = "RIDE_PENDING", !.discount = d] \in Special
    BY <2>2 DEF Special, Statuses
  <2>4. redemption' \in [Redemptions -> Special]
    BY <2>1, <2>3 DEF TypeInv
  <2> QED
    BY <1>2, <2>4 DEF AttachToRideRequest, TypeInv, HasRedemption
<1>3. ASSUME NEW h \in Procs, NEW r \in Redemptions, RideEnds(h, r) PROVE TypeInv'
  <2>1. call' \in [Procs -> Calls] /\ HasRedemption'
    <3>1. CASE \E at \in CallAt: Start(h, at, r)
      BY <3>1, HandlerTypes
    <3>2. CASE UNCHANGED call
      BY <3>2 DEF TypeInv, HasRedemption
    <3> QED
      BY <1>3, <3>1, <3>2 DEF RideEnds, CallAt
  <2> QED
    BY <1>3, <2>1 DEF RideEnds, TypeInv
<1>4. ASSUME NEW h \in Procs, NEW r \in Redemptions, SponsorValidate(h, r) PROVE TypeInv'
  <2>1. call' \in [Procs -> Calls] /\ HasRedemption'
    BY <1>4, HandlerTypes DEF SponsorValidate, CallAt
  <2>2. redemption' \in [Redemptions -> Special]
    BY <1>4 DEF SponsorValidate, TypeInv, Special, Statuses
  <2> QED
    BY <1>4, <2>1, <2>2 DEF SponsorValidate, TypeInv
<1>5. ASSUME NEW h \in Procs, NEW r \in Redemptions, SponsorCancel(h, r) \/ Expire(h, r) PROVE TypeInv'
  <2>1. call' \in [Procs -> Calls] /\ HasRedemption'
    BY <1>5, HandlerTypes DEF SponsorCancel, Expire, CallAt
  <2>2. redemption' \in [Redemptions -> Special]
    BY <1>5, StatusTypes DEF SponsorCancel, Expire, Statuses
  <2> QED
    BY <1>5, <2>1, <2>2 DEF SponsorCancel, Expire, TypeInv
<1>6. ASSUME NEW h \in Procs, NEW r \in Redemptions, Reconcile(h, r) PROVE TypeInv'
  <2>1. call' \in [Procs -> Calls] /\ HasRedemption'
    BY <1>6, HandlerTypes DEF Reconcile, CallAt
  <2> QED
    BY <1>6, <2>1 DEF Reconcile, TypeInv
<1>7. ASSUME NEW h \in Procs, Continue(h) \/ Crash(h) \/ Error(h) PROVE TypeInv'
  <2> DEFINE r == call[h].id
  <2>1. CASE call[h].at = "idle"
    BY <1>7, <2>1 DEF Continue, IssueCode, VoidWithRide, ReleaseReservedBudget, BillRider, SettleRead,
       Consume, SettleFailed, RecordComponents, Crash, Error, Finish, TypeInv, HasRedemption, Calls,
       NoCall, CallAt
  <2>2. CASE call[h].at # "idle"
    <3>1. r \in Redemptions
      BY <2>2 DEF TypeInv, HasRedemption
    <3>2. (\E at \in CallAt: Goto(h, at)) \/ Finish(h)
      BY <1>7 DEF Continue, IssueCode, VoidWithRide, ReleaseReservedBudget, AfterRelease, BillRider,
         SettleRead, Consume, SettleFailed, RecordComponents, Crash, Error, CallAt
    <3>3. call' \in [Procs -> Calls] /\ HasRedemption'
      BY <2>2, <3>1, <3>2, HandlerTypes DEF CallAt
    <3>4. (\E s \in Statuses: SetStatus(r, s)) \/ UNCHANGED redemption
      BY <1>7 DEF Continue, IssueCode, VoidWithRide, ReleaseReservedBudget, BillRider, SettleRead,
         Consume, SettleFailed, RecordComponents, Crash, Error, Statuses
    <3>5. redemption' \in [Redemptions -> Special]
      BY <3>1, <3>4, StatusTypes DEF TypeInv
    <3>6. /\ redeemed' \subseteq Redemptions
          /\ billed' \subseteq Redemptions
          /\ released' \in [Redemptions -> Nat]
          /\ UNCHANGED ride
      BY <1>7, <3>1 DEF Continue, IssueCode, VoidWithRide, ReleaseReservedBudget, BillRider, SettleRead,
         Consume, SettleFailed, RecordComponents, Crash, Error, TypeInv
    <3> QED
      BY <3>3, <3>5, <3>6 DEF TypeInv
  <2> QED
    BY <2>1, <2>2
<1>8. ASSUME (\E delta \in Adjustments: AdjustBudget(delta)) \/ Reactivate PROVE TypeInv'
  BY <1>8 DEF AdjustBudget, Reactivate, TypeInv, HasRedemption
<1>9. CASE MoneyNext
  BY <1>9, MoneyLeavesEnds DEF ends, TypeInv, HasRedemption
<1>10. CASE UNCHANGED vars
  BY <1>10 DEF vars, specialVars, TypeInv, HasRedemption
<1> QED
  BY <1>1, <1>2, <1>3, <1>4, <1>5, <1>6, <1>7, <1>8, <1>9, <1>10 DEF Next, SpecialsNext

-----------------------------------------------------------------------------
(* A redemption is closed once, and what a handler still does about it     *)
(* agrees with its row.                                                    *)

Closed(r) == Status(r) \in {"EXPIRED", "CANCELLED"}

Billable(r) == Closed(r) /\ ride[r] = "COMPLETED" /\ ~ redemption[r].validated

Settled == \A r \in Redemptions: r \in redeemed <=> Status(r) = "REWARD_COMPLETED"

\* Released once, and by one handler, which comes before.
ReleasedOnce ==
  /\ \A r \in Redemptions: released[r] <= 1 /\ (released[r] = 1 => Closed(r))
  /\ \A h \in Procs: At(h, "release") => Closed(call[h].id) /\ released[call[h].id] = 0
  /\ \A g, h \in Procs: At(g, "release") /\ At(h, "release") /\ call[g].id = call[h].id => g = h

BilledClosed ==
  /\ \A h \in Procs: At(h, "bill") => Billable(call[h].id)
  /\ \A r \in billed: Billable(r)

EndsInv == Settled /\ ReleasedOnce /\ BilledClosed

\* EndsInv holds initially.
LEMMA InitEnds == Init => EndsInv
  BY DEF Init, SpecialsInit, EndsInv, Settled, ReleasedOnce, BilledClosed, Billable, Closed, Status, At,
     NoCall

\* A redemption that is not closed, and of which no handler closes or pays,
\* may move on.
LEMMA MovesOn ==
  ASSUME TypeInv, EndsInv, NEW r \in Redemptions, NEW s \in Statuses,
         ~ Closed(r), Status(r) # "REWARD_COMPLETED", s # "REWARD_COMPLETED",
         \A q \in Redemptions: q # r => redemption'[q] = redemption[q] /\ ride'[q] = ride[q],
         redemption'[r].status = s,
         UNCHANGED <<redeemed, released, billed>>,
         \A h \in Procs: call'[h] = call[h] \/ call'[h].at \notin {"release", "bill"}
  PROVE  EndsInv'
<1>1. Settled'
  BY DEF EndsInv, Settled, TypeInv, Status
<1>2. \A h \in Procs: call'[h].at \in {"release", "bill"} => call'[h] = call[h] /\ call[h].id # r /\ call[h].id \in Redemptions
  BY DEF EndsInv, ReleasedOnce, BilledClosed, Billable, At, TypeInv, HasRedemption
<1>3. ReleasedOnce'
  <2>1. \A q \in Redemptions: released[q] <= 1 /\ (released[q] = 1 => q # r /\ Closed(q) /\ Closed(q)')
    BY DEF EndsInv, ReleasedOnce, Closed, Status, TypeInv
  <2> QED
    BY <1>2, <2>1 DEF EndsInv, ReleasedOnce, Closed, Status, At
<1>4. BilledClosed'
  <2>1. r \notin billed
    BY DEF EndsInv, BilledClosed, Billable
  <2> QED
    BY <1>2, <2>1 DEF EndsInv, BilledClosed, Billable, Closed, Status, At, TypeInv
<1> QED
  BY <1>1, <1>3, <1>4 DEF EndsInv

\* A handler closes a redemption that is open and starts to release it.
LEMMA Closes ==
  ASSUME TypeInv, EndsInv, NEW r \in Redemptions, NEW h \in Procs,
         ~ Closed(r), Status(r) # "REWARD_COMPLETED",
         SetStatus(r, "CANCELLED") \/ SetStatus(r, "EXPIRED"),
         UNCHANGED <<redeemed, released, billed, ride>>,
         call' \in [Procs -> Calls],
         call'[h].at = "release", call'[h].id = r, \A g \in Procs \ {h}: call'[g] = call[g]
  PROVE  EndsInv'
<1>1. Closed(r)' /\ \A q \in Redemptions: q # r => redemption'[q] = redemption[q]
  BY DEF SetStatus, Closed, Status, TypeInv, Special
<1>2. Settled'
  BY DEF EndsInv, Settled, TypeInv, Status, SetStatus, Special
<1>3. \A g \in Procs \ {h}: call'[g].at \in {"release", "bill"} => call[g].id # r /\ call[g].id \in Redemptions
  BY DEF EndsInv, ReleasedOnce, BilledClosed, Billable, At, TypeInv, HasRedemption
<1>4. released[r] = 0
  BY DEF EndsInv, ReleasedOnce, TypeInv
<1>5. ReleasedOnce'
  <2>1. \A q \in Redemptions: released[q] <= 1 /\ (released[q] = 1 => Closed(q)')
    BY <1>1, <1>4 DEF EndsInv, ReleasedOnce, Closed, Status
  <2> QED
    BY <1>1, <1>3, <1>4, <2>1 DEF EndsInv, ReleasedOnce, Closed, Status, At
<1>6. BilledClosed'
  <2>1. r \notin billed
    BY DEF EndsInv, BilledClosed, Billable
  <2> QED
    BY <1>1, <1>3, <2>1 DEF EndsInv, BilledClosed, Billable, Closed, Status, At, TypeInv
<1> QED
  BY <1>2, <1>5, <1>6 DEF EndsInv

\* A handler finishes, or goes on to what is not about giving back.
LEMMA LeavesEnds ==
  ASSUME TypeInv, EndsInv, UNCHANGED <<redemption, redeemed, released, billed, ride>>,
         \A g \in Procs: call'[g] = call[g] \/ call'[g].at \notin {"release", "bill"}
  PROVE  EndsInv'
  BY DEF EndsInv, Settled, ReleasedOnce, BilledClosed, Billable, Closed, Status, At

\* Every step preserves EndsInv.
LEMMA StepEnds == TypeInv /\ TypeInv' /\ EndsInv /\ [Next]_vars => EndsInv'
<1> SUFFICES ASSUME TypeInv, TypeInv', EndsInv, [Next]_vars PROVE EndsInv'
  OBVIOUS
<1> USE DEF books, history
<1>1. ASSUME NEW r \in Redemptions, CreateForRider(r) \/ Supersede(r) \/ AttachToRideRequest(r)
      PROVE  EndsInv'
  <2> USE DEF CreateForRider, Supersede, AttachToRideRequest, SetStatus, TypeInv, Special
  <2>1. Status(r) \in {"none", "CREATED"} /\ UNCHANGED <<redeemed, released, billed, call>>
    BY <1>1
  <2>2. ~ Closed(r) /\ Status(r) # "REWARD_COMPLETED"
    BY <2>1 DEF Closed
  <2>3. redemption'[r].status \in {"CREATED", "CANCELLED", "RIDE_PENDING"}
    BY <1>1
  <2>4. \A q \in Redemptions: q # r => redemption'[q] = redemption[q] /\ ride'[q] = ride[q]
    BY <1>1
  <2>5. redemption'[r].status \in Statuses
    BY <2>3 DEF Statuses
  <2> QED
    BY <2>1, <2>2, <2>3, <2>4, <2>5, MovesOn
<1>2. ASSUME NEW h \in Procs, NEW r \in Redemptions, RideEnds(h, r) PROVE EndsInv'
  <2>1. \A g \in Procs: call'[g] = call[g] \/ call'[g].at \notin {"release", "bill"}
    BY <1>2 DEF RideEnds, Start, TypeInv
  <2>2. \A q \in Redemptions: ride[q] = "COMPLETED" => ride'[q] = "COMPLETED"
    BY <1>2 DEF RideEnds, TypeInv
  <2>3. UNCHANGED <<redemption, redeemed, released, billed>>
    BY <1>2 DEF RideEnds
  <2>4. billed \subseteq Redemptions /\ HasRedemption
    BY DEF TypeInv
  <2> QED
    BY <2>1, <2>2, <2>3, <2>4 DEF EndsInv, Settled, ReleasedOnce, BilledClosed, Billable, Closed, Status, At,
       HasRedemption
<1>3. ASSUME NEW h \in Procs, NEW r \in Redemptions, SponsorValidate(h, r) PROVE EndsInv'
  <2>1. ~ Closed(r) /\ Status(r) # "REWARD_COMPLETED" /\ UNCHANGED <<redeemed, released, billed>>
    BY <1>3 DEF SponsorValidate, Closed
  <2>2. redemption'[r].status = "SPONSOR_VALIDATED"
    BY <1>3 DEF SponsorValidate, TypeInv, Special
  <2>3. \A q \in Redemptions: q # r => redemption'[q] = redemption[q] /\ ride'[q] = ride[q]
    BY <1>3 DEF SponsorValidate, TypeInv
  <2>4. \A g \in Procs: call'[g] = call[g] \/ call'[g].at \notin {"release", "bill"}
    BY <1>3 DEF SponsorValidate, Start, TypeInv
  <2>5. "SPONSOR_VALIDATED" \in Statuses
    BY DEF Statuses
  <2> QED
    BY <2>1, <2>2, <2>3, <2>4, <2>5, MovesOn
<1>4. ASSUME NEW h \in Procs, NEW r \in Redemptions, SponsorCancel(h, r) \/ Expire(h, r) PROVE EndsInv'
  <2>1. ~ Closed(r) /\ Status(r) # "REWARD_COMPLETED"
    BY <1>4 DEF SponsorCancel, Expire, Cancellable, Closed
  <2>2. /\ SetStatus(r, "CANCELLED") \/ SetStatus(r, "EXPIRED")
        /\ UNCHANGED <<redeemed, released, billed, ride>>
    BY <1>4 DEF SponsorCancel, Expire
  <2>3. call'[h].at = "release" /\ call'[h].id = r /\ \A g \in Procs \ {h}: call'[g] = call[g]
    BY <1>4 DEF SponsorCancel, Expire, Start, TypeInv
  <2>4. call' \in [Procs -> Calls]
    BY DEF TypeInv
  <2> QED
    BY <2>1, <2>2, <2>3, <2>4, Closes
<1>5. ASSUME NEW h \in Procs, NEW r \in Redemptions, Reconcile(h, r) PROVE EndsInv'
  <2>1. \A g \in Procs: call'[g] = call[g] \/ call'[g].at \notin {"release", "bill"}
    BY <1>5 DEF Reconcile, Start, TypeInv
  <2>2. UNCHANGED <<redemption, redeemed, released, billed, ride>>
    BY <1>5 DEF Reconcile
  <2> QED
    BY <2>1, <2>2, LeavesEnds
<1>6. ASSUME NEW h \in Procs, IssueCode(h) PROVE EndsInv'
  <2> DEFINE r == call[h].id
  <2>1. r \in Redemptions
    BY <1>6 DEF IssueCode, At, TypeInv, HasRedemption
  <2>2. ~ Closed(r) /\ Status(r) # "REWARD_COMPLETED" /\ UNCHANGED <<redeemed, released, billed>>
    BY <1>6 DEF IssueCode, Closed
  <2>3. redemption'[r].status = "WAITING_FOR_SPONSOR"
    BY <1>6, <2>1 DEF IssueCode, SetStatus, TypeInv, Special
  <2>4. \A q \in Redemptions: q # r => redemption'[q] = redemption[q] /\ ride'[q] = ride[q]
    BY <1>6 DEF IssueCode, SetStatus, TypeInv
  <2>5. \A g \in Procs: call'[g] = call[g] \/ call'[g].at \notin {"release", "bill"}
    BY <1>6 DEF IssueCode, Finish, NoCall, TypeInv
  <2>6. "WAITING_FOR_SPONSOR" \in Statuses
    BY DEF Statuses
  <2> HIDE DEF r
  <2> QED
    BY <2>1, <2>2, <2>3, <2>4, <2>5, <2>6, MovesOn
<1>7. ASSUME NEW h \in Procs, VoidWithRide(h) PROVE EndsInv'
  <2> DEFINE r == call[h].id
  <2>1. r \in Redemptions
    BY <1>7 DEF VoidWithRide, At, TypeInv, HasRedemption
  <2>2. ~ Closed(r) /\ Status(r) # "REWARD_COMPLETED" /\ SetStatus(r, "CANCELLED")
    BY <1>7 DEF VoidWithRide, Closed
  <2>3. UNCHANGED <<redeemed, released, billed, ride>>
    BY <1>7 DEF VoidWithRide
  <2>4. call'[h].at = "release" /\ call'[h].id = r /\ \A g \in Procs \ {h}: call'[g] = call[g]
    BY <1>7 DEF VoidWithRide, Goto, TypeInv, Calls
  <2>5. call' \in [Procs -> Calls]
    BY DEF TypeInv
  <2> HIDE DEF r
  <2> QED
    BY <2>1, <2>2, <2>3, <2>4, <2>5, Closes
<1>8. ASSUME NEW h \in Procs, At(h, "release"), AfterRelease(h, call[h].id),
             UNCHANGED <<redemption, redeemed, billed, ride>>,
             \/ UNCHANGED released
             \/ released' = [released EXCEPT ![call[h].id] = @ + 1]
      PROVE  EndsInv'
  <2> DEFINE r == call[h].id
  <2>1. r \in Redemptions /\ Closed(r) /\ released[r] = 0
    BY <1>8 DEF At, TypeInv, HasRedemption, EndsInv, ReleasedOnce
  <2>2. \A q \in Redemptions: released'[q] = released[q] \/ (q = r /\ released'[q] = 1)
    BY <1>8, <2>1 DEF TypeInv
  <2>3. /\ \A g \in Procs \ {h}: call'[g] = call[g]
        /\ \/ call'[h].at = "idle"
           \/ call'[h].at = "bill" /\ call'[h].id = r /\ Billable(r)
    BY <1>8, <2>1 DEF AfterRelease, Unbilled, Finish, Goto, NoCall, TypeInv, Calls, Billable
  <2>4. \A g \in Procs \ {h}: At(g, "release") => call[g].id # r
    BY <1>8 DEF EndsInv, ReleasedOnce
  <2> HIDE DEF r
  <2>5. ReleasedOnce'
    <3>1. \A q \in Redemptions: released'[q] <= 1 /\ (released'[q] = 1 => Closed(q)')
      BY <1>8, <2>1, <2>2 DEF EndsInv, ReleasedOnce, Closed, Status
    <3>2. \A g \in Procs: At(g, "release")' =>
            g # h /\ call'[g] = call[g] /\ At(g, "release") /\ call[g].id # r /\ call[g].id \in Redemptions
      BY <2>3, <2>4 DEF At, TypeInv, HasRedemption
    <3>3. \A g \in Procs: At(g, "release")' => Closed(call[g].id)' /\ released[call[g].id]' = 0
      <4> SUFFICES ASSUME NEW g \in Procs, At(g, "release")'
                   PROVE  Closed(call[g].id)' /\ released[call[g].id]' = 0
        OBVIOUS
      <4>1. Closed(call[g].id) /\ released[call[g].id] = 0
        BY <3>2 DEF EndsInv, ReleasedOnce
      <4> QED
        BY <1>8, <2>2, <3>2, <4>1 DEF Closed, Status
    <3>4. \A g, k \in Procs: (At(g, "release") /\ At(k, "release") /\ call[g].id = call[k].id)' => g = k
      BY <3>2 DEF EndsInv, ReleasedOnce
    <3> QED
      BY <3>1, <3>3, <3>4 DEF ReleasedOnce
  <2>6. BilledClosed'
    BY <1>8, <2>3 DEF EndsInv, BilledClosed, Billable, Closed, Status, At
  <2>7. Settled'
    BY <1>8 DEF EndsInv, Settled, Status
  <2> QED
    BY <2>5, <2>6, <2>7 DEF EndsInv
<1>9. ASSUME NEW h \in Procs, ReleaseReservedBudget(h) PROVE EndsInv'
  BY <1>8, <1>9 DEF ReleaseReservedBudget
<1>10. ASSUME NEW h \in Procs, Error(h) PROVE EndsInv'
  <2>1. CASE At(h, "consume") /\ Goto(h, "fail")
    <3>1. \A g \in Procs: call'[g] = call[g] \/ call'[g].at \notin {"release", "bill"}
      BY <2>1 DEF Goto, TypeInv, Calls
    <3> QED
      BY <1>10, <3>1, LeavesEnds DEF Error
  <2>2. CASE At(h, "release") /\ AfterRelease(h, call[h].id)
    BY <1>8, <1>10, <2>2 DEF Error
  <2> QED
    BY <1>10, <2>1, <2>2 DEF Error
<1>11. ASSUME NEW h \in Procs, BillRider(h) PROVE EndsInv'
  <2>1. call[h].id \in Redemptions /\ Billable(call[h].id)
    BY <1>11 DEF BillRider, At, TypeInv, HasRedemption, EndsInv, BilledClosed
  <2>2. \A g \in Procs: call'[g] = call[g] \/ call'[g].at \notin {"release", "bill"}
    BY <1>11 DEF BillRider, Finish, NoCall, TypeInv
  <2>3. UNCHANGED <<redemption, redeemed, released, ride>> /\ billed' = billed \cup {call[h].id}
    BY <1>11 DEF BillRider
  <2> QED
    BY <2>1, <2>2, <2>3 DEF EndsInv, Settled, ReleasedOnce, BilledClosed, Billable, Closed, Status, At
<1>12. ASSUME NEW h \in Procs, SettleRead(h) \/ RecordComponents(h) \/ Crash(h) PROVE EndsInv'
  <2>1. \A g \in Procs: call'[g] = call[g] \/ call'[g].at \notin {"release", "bill"}
    BY <1>12 DEF SettleRead, RecordComponents, Crash, Goto, Finish, NoCall, TypeInv, Calls
  <2>2. UNCHANGED <<redemption, redeemed, released, billed, ride>>
    BY <1>12 DEF SettleRead, RecordComponents, Crash
  <2> QED
    BY <2>1, <2>2, LeavesEnds
<1>13. ASSUME NEW h \in Procs, Consume(h) PROVE EndsInv'
  <2> DEFINE r == call[h].id
  <2>1. r \in Redemptions
    BY <1>13 DEF Consume, At, TypeInv, HasRedemption
  <2>2. \A g \in Procs: call'[g] = call[g] \/ call'[g].at \notin {"release", "bill"}
    BY <1>13 DEF Consume, Goto, TypeInv, Calls
  <2>3. CASE Consumable(r)
    <3>1. ~ Closed(r) /\ SetStatus(r, "REWARD_COMPLETED") /\ redeemed' = redeemed \cup {r}
      BY <1>13, <2>3 DEF Consume, Consumable, Closed
    <3>2. UNCHANGED <<released, billed, ride>>
      BY <1>13 DEF Consume
    <3> HIDE DEF r
    <3>3. \A q \in Redemptions: IF q = r THEN Status(q)' = "REWARD_COMPLETED" ELSE redemption'[q] = redemption[q]
      BY <2>1, <3>1 DEF SetStatus, Status, TypeInv, Special
    <3>4. Settled'
      BY <2>1, <3>1, <3>3 DEF EndsInv, Settled, Status
    <3>5. \A q \in Redemptions: Closed(q) => q # r /\ Closed(q)'
      BY <3>1, <3>3 DEF Closed, Status
    <3>6. ReleasedOnce'
      BY <2>2, <3>2, <3>5 DEF EndsInv, ReleasedOnce, At, TypeInv, HasRedemption
    <3>7. \A q \in Redemptions: Billable(q) => Billable(q)'
      BY <3>2, <3>3, <3>5 DEF Billable
    <3>8. BilledClosed'
      BY <2>2, <3>2, <3>7 DEF EndsInv, BilledClosed, At, TypeInv, HasRedemption
    <3> QED
      BY <3>4, <3>6, <3>8 DEF EndsInv
  <2>4. CASE ~ Consumable(r)
    <3>1. UNCHANGED <<redemption, redeemed, released, billed, ride>>
      BY <1>13, <2>4 DEF Consume
    <3> QED
      BY <2>2, <3>1, LeavesEnds
  <2> QED
    BY <2>3, <2>4
<1>14. ASSUME NEW h \in Procs, SettleFailed(h) PROVE EndsInv'
  <2> DEFINE r == call[h].id
  <2>1. r \in Redemptions
    BY <1>14 DEF SettleFailed, At, TypeInv, HasRedemption
  <2>2. \A g \in Procs: call'[g] = call[g] \/ call'[g].at \notin {"release", "bill"}
    BY <1>14 DEF SettleFailed, Finish, NoCall, TypeInv
  <2>3. UNCHANGED <<redeemed, released, billed, ride>>
    BY <1>14 DEF SettleFailed
  <2>4. CASE Status(r) = "SPONSOR_VALIDATED"
    <3>1. ~ Closed(r) /\ SetStatus(r, "REWARD_FAILED")
      BY <1>14, <2>4 DEF SettleFailed, Closed
    <3> HIDE DEF r
    <3>2. redemption'[r].status = "REWARD_FAILED" /\ \A q \in Redemptions: q # r => redemption'[q] = redemption[q]
      BY <2>1, <3>1 DEF SetStatus, TypeInv, Special
    <3>3. "REWARD_FAILED" \in Statuses
      BY DEF Statuses
    <3> QED
      BY <2>1, <2>2, <2>3, <2>4, <3>1, <3>2, <3>3, MovesOn
  <2>5. CASE Status(r) # "SPONSOR_VALIDATED"
    <3>1. UNCHANGED redemption
      BY <1>14, <2>5 DEF SettleFailed
    <3> QED
      BY <2>2, <2>3, <3>1, LeavesEnds
  <2> QED
    BY <2>4, <2>5
<1>15. ASSUME (\E delta \in Adjustments: AdjustBudget(delta)) \/ Reactivate PROVE EndsInv'
  <2>1. UNCHANGED <<redemption, redeemed, released, billed, ride, call>>
    BY <1>15 DEF AdjustBudget, Reactivate
  <2> QED
    BY <2>1 DEF EndsInv, Settled, ReleasedOnce, BilledClosed, Billable, Closed, Status, At
<1>20. CASE MoneyNext
  BY <1>20, MoneyLeavesEnds DEF ends, EndsInv, Settled, ReleasedOnce, BilledClosed, Billable, Closed, Status, At
<1>21. CASE UNCHANGED vars
  BY <1>21 DEF vars, specialVars, EndsInv, Settled, ReleasedOnce, BilledClosed, Billable, Closed, Status, At
<1> QED
  BY <1>1, <1>2, <1>3, <1>4, <1>5, <1>6, <1>7, <1>9, <1>10, <1>11, <1>12, <1>13, <1>14, <1>15, <1>20,
     <1>21 DEF Next, SpecialsNext, Continue

\* A redemption is paid by the sponsor or given back, never both, whatever the
\* sponsor, the sweep, the ride and a repeated settlement do at the same time.
THEOREM OneEnd == Spec => []NeverBothEnds
<1>1. Init => TypeInv /\ EndsInv
  BY InitType, InitEnds
<1>2. TypeInv /\ EndsInv /\ [Next]_vars => (TypeInv /\ EndsInv)'
  BY StepType, StepEnds
<1>3. TypeInv /\ EndsInv => NeverBothEnds
  <2> SUFFICES ASSUME TypeInv, EndsInv PROVE NeverBothEnds
    OBVIOUS
  <2>1. \A r \in redeemed: Status(r) = "REWARD_COMPLETED" /\ released[r] = 0 /\ r \notin billed
    BY DEF EndsInv, Settled, ReleasedOnce, BilledClosed, Billable, Closed, TypeInv
  <2>2. \A r \in billed: Status(r) \in {"EXPIRED", "CANCELLED"} /\ ride[r] = "COMPLETED" /\ ~ redemption[r].validated
    BY DEF EndsInv, BilledClosed, Billable, Closed
  <2>3. /\ \A r \in Redemptions: Status(r) = "REWARD_COMPLETED" => r \in redeemed
        /\ \A r \in Redemptions: released[r] <= 1
    BY DEF EndsInv, Settled, ReleasedOnce
  <2> QED
    BY <2>1, <2>2, <2>3 DEF NeverBothEnds
<1> QED
  BY <1>1, <1>2, <1>3, PTL DEF Spec

-----------------------------------------------------------------------------
(* What is reserved: the sum of the discounts of the redemptions that are  *)
(* open, being released, or whose release was lost.                        *)

Reserving == Holding \cup Releasing \cup leaked

\* A lost release stays lost: the redemption is closed and nobody releases it.
Leaks ==
  /\ leaked \subseteq Redemptions
  /\ \A r \in leaked:
       Closed(r) /\ released[r] = 0 /\ \A h \in Procs: At(h, "release") => call[h].id # r

\* Total is the sum of Sums.
LEMMA TotalIsSum == ASSUME NEW f, NEW S PROVE Total(f, S) = Sum(f, S)
  BY DEF Total, Sum

\* Discounts are naturals.
LEMMA DiscountsType == Discounts \cup {0} \subseteq Nat
<1>1. Discounts \subseteq Nat \ {0}
  BY SpecialsAssumption
<1> QED
  BY <1>1

\* So is the discount of a redemption.
LEMMA DiscountType ==
  ASSUME TypeInv, NEW r \in Redemptions
  PROVE  Discounted[r] \in Nat /\ Discounted[r] = redemption[r].discount
<1>1. redemption[r].discount \in Discounts \cup {0}
  BY DEF TypeInv, Special
<1>2. Discounted[r] = redemption[r].discount
  BY DEF Discounted, Discount
<1> QED
  BY <1>1, <1>2, DiscountsType

\* What reserves is a finite set of redemptions.
LEMMA ReservingType ==
  ASSUME TypeInv, Leaks, IsFiniteSet(Redemptions)
  PROVE  Reserving \subseteq Redemptions /\ IsFiniteSet(Reserving)
<1>1. Reserving \subseteq Redemptions
  BY DEF Reserving, Holding, Releasing, Leaks, At, TypeInv, HasRedemption
<1> QED
  BY <1>1, FS_Subset

\* The statuses that hold a reservation.
Holds(s) == s \in {"RIDE_PENDING", "WAITING_FOR_SPONSOR", "SPONSOR_VALIDATED", "REWARD_FAILED"}

\* Who is in Reserving.
LEMMA InReserving ==
  ASSUME NEW r \in Redemptions
  PROVE  r \in Reserving <=> \/ Holds(Status(r))
                             \/ \E h \in Procs: At(h, "release") /\ call[h].id = r
                             \/ r \in leaked
  BY DEF Reserving, Holding, Releasing, Holds

\* The same in the next state.
LEMMA InReservingNext ==
  ASSUME NEW r \in Redemptions
  PROVE  r \in Reserving' <=> \/ Holds(Status(r)')
                              \/ \E h \in Procs: call'[h].at = "release" /\ call'[h].id = r
                              \/ r \in leaked'
  BY DEF Reserving, Holding, Releasing, Holds, At

\* What a step that moves no money does to Reserving: nothing.
LEMMA SameReservations ==
  ASSUME IsFiniteSet(Redemptions), TypeInv, TypeInv', Leaks, ReservedIsHeld,
         \A r \in Redemptions: redemption'[r].discount = redemption[r].discount,
         Reserving' = Reserving, sponsor'.reserved = sponsor.reserved
  PROVE  ReservedIsHeld'
<1>1. \A r \in Reserving: Discounted'[r] = Discounted[r]
  BY ReservingType DEF Discounted, Discount
<1>2. Sum(Discounted', Reserving) = Sum(Discounted, Reserving)
  BY <1>1, ReservingType, SumSame
<1>3. sponsor.reserved = Sum(Discounted, Reserving)
  BY TotalIsSum DEF ReservedIsHeld, Reserving
<1>4. Total(Discounted', Reserving') = Sum(Discounted', Reserving')
  BY TotalIsSum
<1>5. sponsor'.reserved = Total(Discounted', Reserving')
  BY <1>2, <1>3, <1>4
<1> QED
  BY <1>5 DEF ReservedIsHeld, Reserving

\* One redemption gives its reservation back.
LEMMA OneLess ==
  ASSUME IsFiniteSet(Redemptions), TypeInv, TypeInv', Leaks, ReservedIsHeld,
         \A r \in Redemptions: redemption'[r].discount = redemption[r].discount,
         NEW q \in Reserving, Reserving' = Reserving \ {q}
  PROVE  /\ sponsor.reserved >= Discount(q)
         /\ sponsor'.reserved = sponsor.reserved - Discount(q) => ReservedIsHeld'
<1>1. q \in Redemptions /\ Discounted[q] = Discount(q)
  BY ReservingType, DiscountType DEF Discount
<1>2. \A r \in Reserving: Discounted'[r] = Discounted[r] /\ Discounted[r] \in Int /\ Discounted[r] \in Nat
  BY ReservingType, DiscountType DEF Discounted, Discount
<1>3. IsFiniteSet(Reserving \ {q})
  BY ReservingType, FS_Subset
<1>4. Sum(Discounted', Reserving \ {q}) = Sum(Discounted, Reserving \ {q})
  BY <1>2, <1>3, SumSame
<1>5. Sum(Discounted, Reserving) = Discounted[q] + Sum(Discounted, Reserving \ {q})
  BY <1>2, ReservingType, SumRemove
<1>6. Sum(Discounted, Reserving \ {q}) \in Nat
  BY <1>2, <1>3, SumType
<1>7. sponsor.reserved = Sum(Discounted, Reserving)
  BY TotalIsSum DEF ReservedIsHeld, Reserving
<1>8. Total(Discounted', Reserving') = Sum(Discounted', Reserving')
  BY TotalIsSum
<1>9. Discounted[q] \in Nat
  BY <1>1, DiscountType
<1>10. sponsor.reserved >= Discount(q) /\ sponsor.reserved - Discount(q) = Sum(Discounted, Reserving \ {q})
  BY <1>1, <1>5, <1>6, <1>7, <1>9
<1>11. sponsor'.reserved = sponsor.reserved - Discount(q) => sponsor'.reserved = Total(Discounted', Reserving')
  BY <1>4, <1>8, <1>10
<1> QED
  BY <1>10, <1>11 DEF ReservedIsHeld, Reserving

\* One redemption reserves its discount.
LEMMA OneMore ==
  ASSUME IsFiniteSet(Redemptions), TypeInv, TypeInv', Leaks, ReservedIsHeld,
         NEW q \in Redemptions, q \notin Reserving, Reserving' = Reserving \cup {q},
         \A r \in Redemptions \ {q}: redemption'[r].discount = redemption[r].discount,
         sponsor'.reserved = sponsor.reserved + redemption'[q].discount
  PROVE  ReservedIsHeld'
<1>1. \A r \in Reserving: Discounted'[r] = Discounted[r] /\ Discounted[r] \in Int
  BY ReservingType, DiscountType DEF Discounted, Discount
<1>2. Discounted'[q] = redemption'[q].discount /\ Discounted'[q] \in Int
  <2>1. redemption'[q].discount \in Discounts \cup {0}
    BY DEF TypeInv, Special
  <2>2. Discounted'[q] = redemption'[q].discount
    BY DEF Discounted, Discount
  <2> QED
    BY <2>1, <2>2, DiscountsType
<1>3. \A r \in Reserving \cup {q}: Discounted'[r] \in Int
  BY <1>1, <1>2
<1>4. Sum(Discounted', Reserving \cup {q}) = Discounted'[q] + Sum(Discounted', Reserving)
  BY <1>3, ReservingType, SumAdd
<1>5. Sum(Discounted', Reserving) = Sum(Discounted, Reserving)
  BY <1>1, ReservingType, SumSame
<1>6. sponsor.reserved = Sum(Discounted, Reserving) /\ Sum(Discounted, Reserving) \in Int
  BY <1>1, TotalIsSum, ReservingType, SumType DEF ReservedIsHeld, Reserving
<1>7. Total(Discounted', Reserving') = Sum(Discounted', Reserving')
  BY TotalIsSum
<1>8. sponsor'.reserved = Total(Discounted', Reserving')
  BY <1>2, <1>4, <1>5, <1>6, <1>7
<1> QED
  BY <1>8 DEF ReservedIsHeld, Reserving

\* What reserves in the next state is redemptions.
LEMMA ReservingTypeNext == ASSUME TypeInv', Leaks' PROVE Reserving' \subseteq Redemptions
  BY DEF Reserving, Holding, Releasing, Leaks, At, TypeInv, HasRedemption

\* A step that neither starts nor ends a reservation or a release.
LEMMA StillReserving ==
  ASSUME TypeInv, TypeInv', Leaks, Leaks', UNCHANGED leaked, IsFiniteSet(Redemptions),
         \A r \in Redemptions: Holds(Status(r)') <=> Holds(Status(r)),
         \A g \in Procs: call'[g] = call[g] \/ (call[g].at # "release" /\ call'[g].at # "release")
  PROVE  Reserving' = Reserving
<1>1. \A r \in Redemptions: r \in Reserving' <=> r \in Reserving
  BY InReserving, InReservingNext DEF At
<1> QED
  BY <1>1, ReservingType, ReservingTypeNext

\* A redemption that is closed stays as it is.
LEMMA ClosedStays ==
  ASSUME TypeInv, [Next]_vars, NEW r \in Redemptions, Closed(r)
  PROVE  Closed(r)'
<1> USE DEF Closed, Status, At
<1>1. ASSUME NEW q \in Redemptions,
             \/ CreateForRider(q) \/ Supersede(q) \/ AttachToRideRequest(q)
             \/ \E h \in Procs: SponsorValidate(h, q) \/ SponsorCancel(h, q) \/ Expire(h, q)
      PROVE  Closed(r)'
  BY <1>1 DEF CreateForRider, Supersede, AttachToRideRequest, SponsorValidate, SponsorCancel, Expire,
     Cancellable, SetStatus, TypeInv
<1>2. ASSUME NEW h \in Procs, IssueCode(h) \/ VoidWithRide(h) \/ SettleFailed(h) \/ Consume(h) PROVE Closed(r)'
  BY <1>2 DEF IssueCode, VoidWithRide, SettleFailed, Consume, Consumable, SetStatus, TypeInv
<1>3. CASE UNCHANGED redemption
  BY <1>3
<1>4. ASSUME NEW h \in Procs, NEW q \in Redemptions, RideEnds(h, q) \/ Reconcile(h, q) PROVE UNCHANGED redemption
  BY <1>4 DEF RideEnds, Reconcile
<1>5. ASSUME NEW h \in Procs,
             ReleaseReservedBudget(h) \/ BillRider(h) \/ SettleRead(h) \/ RecordComponents(h) \/ Crash(h) \/ Error(h)
      PROVE  UNCHANGED redemption
  BY <1>5 DEF ReleaseReservedBudget, BillRider, SettleRead, RecordComponents, Crash, Error
<1>6. ASSUME (\E delta \in Adjustments: AdjustBudget(delta)) \/ Reactivate PROVE UNCHANGED redemption
  BY <1>6 DEF AdjustBudget, Reactivate
<1>7. MoneyNext => UNCHANGED redemption
  BY MoneyLeavesEnds DEF ends
<1>8. UNCHANGED vars => UNCHANGED redemption
  BY DEF vars, specialVars
<1> QED
  BY <1>1, <1>2, <1>3, <1>4, <1>5, <1>6, <1>7, <1>8 DEF Next, SpecialsNext, Continue

\* What a step does to handlers that release: those there are go on to
\* something else, and those that start close an open redemption.
LEMMA Releases ==
  ASSUME TypeInv, [Next]_vars, NEW h \in Procs, call'[h].at = "release"
  PROVE  call'[h] = call[h] \/ ~ Closed(call'[h].id)
<1> USE DEF Closed, Status, At, TypeInv, Calls
<1>1. ASSUME NEW q \in Redemptions, CreateForRider(q) \/ Supersede(q) \/ AttachToRideRequest(q)
      PROVE  call'[h] = call[h]
  BY <1>1 DEF CreateForRider, Supersede, AttachToRideRequest
<1>2. ASSUME NEW g \in Procs, NEW q \in Redemptions,
             RideEnds(g, q) \/ SponsorValidate(g, q) \/ SponsorCancel(g, q) \/ Expire(g, q) \/ Reconcile(g, q)
      PROVE  call'[h] = call[h] \/ ~ Closed(call'[h].id)
  BY <1>2 DEF RideEnds, SponsorValidate, SponsorCancel, Expire, Reconcile, Cancellable, Start
<1>3. ASSUME NEW g \in Procs, VoidWithRide(g) PROVE call'[h] = call[h] \/ ~ Closed(call'[h].id)
  BY <1>3 DEF VoidWithRide, Goto
<1>4. ASSUME NEW g \in Procs,
             \/ IssueCode(g) \/ ReleaseReservedBudget(g) \/ BillRider(g) \/ SettleRead(g) \/ Consume(g)
             \/ SettleFailed(g) \/ RecordComponents(g) \/ Crash(g) \/ Error(g)
      PROVE  call'[h] = call[h]
  BY <1>4 DEF IssueCode, ReleaseReservedBudget, AfterRelease, BillRider, SettleRead, Consume, SettleFailed,
     RecordComponents, Crash, Error, Goto, Finish, NoCall
<1>5. ASSUME (\E delta \in Adjustments: AdjustBudget(delta)) \/ Reactivate PROVE call'[h] = call[h]
  BY <1>5 DEF AdjustBudget, Reactivate
<1>6. MoneyNext => call'[h] = call[h]
  BY MoneyLeavesEnds DEF ends
<1>7. UNCHANGED vars => call'[h] = call[h]
  BY DEF vars, specialVars
<1> QED
  BY <1>1, <1>2, <1>3, <1>4, <1>5, <1>6, <1>7 DEF Next, SpecialsNext, Continue

\* A step that loses a release, or gives a reservation back, was about to.
LEMMA ReleaseSteps ==
  ASSUME TypeInv, [Next]_vars
  PROVE  /\ \A r \in leaked' : r \in leaked \/ \E h \in Procs: At(h, "release") /\ call[h].id = r
                                                              /\ call'[h].at # "release" /\ UNCHANGED released
                                                              /\ \A g \in Procs \ {h}: call'[g] = call[g]
         /\ \A r \in Redemptions: released'[r] = released[r] \/ \E h \in Procs: At(h, "release") /\ call[h].id = r
<1> USE DEF At, TypeInv, Calls, books, history
<1>1. ASSUME NEW q \in Redemptions, CreateForRider(q) \/ Supersede(q) \/ AttachToRideRequest(q)
      PROVE  UNCHANGED <<leaked, released>>
  BY <1>1 DEF CreateForRider, Supersede, AttachToRideRequest
<1>2. ASSUME NEW g \in Procs, NEW q \in Redemptions,
             RideEnds(g, q) \/ SponsorValidate(g, q) \/ SponsorCancel(g, q) \/ Expire(g, q) \/ Reconcile(g, q)
      PROVE  UNCHANGED <<leaked, released>>
  BY <1>2 DEF RideEnds, SponsorValidate, SponsorCancel, Expire, Reconcile
<1>3. ASSUME NEW g \in Procs,
             \/ IssueCode(g) \/ VoidWithRide(g) \/ BillRider(g) \/ SettleRead(g) \/ Consume(g)
             \/ SettleFailed(g) \/ RecordComponents(g)
      PROVE  UNCHANGED <<leaked, released>>
  BY <1>3 DEF IssueCode, VoidWithRide, BillRider, SettleRead, Consume, SettleFailed, RecordComponents
<1>4. ASSUME NEW g \in Procs, ReleaseReservedBudget(g)
      PROVE  UNCHANGED leaked /\ \A r \in Redemptions: released'[r] = released[r] \/ (At(g, "release") /\ call[g].id = r)
  BY <1>4 DEF ReleaseReservedBudget
<1>5. ASSUME NEW g \in Procs, Crash(g) \/ Error(g)
      PROVE  /\ UNCHANGED released
             /\ \A r \in leaked' : r \in leaked \/ (At(g, "release") /\ call[g].id = r /\ call'[g].at # "release"
                                                    /\ \A k \in Procs \ {g}: call'[k] = call[k])
  <2>1. \A k \in Procs \ {g}: call'[k] = call[k]
    BY <1>5 DEF Crash, Error, AfterRelease, Goto, Finish
  <2>2. At(g, "release") => call'[g].at # "release"
    BY <1>5 DEF Crash, Error, AfterRelease, Goto, Finish, NoCall
  <2>3. UNCHANGED released /\ \A r \in leaked' : r \in leaked \/ (At(g, "release") /\ call[g].id = r)
    BY <1>5 DEF Crash, Error
  <2> QED
    BY <2>1, <2>2, <2>3
<1>6. ASSUME (\E delta \in Adjustments: AdjustBudget(delta)) \/ Reactivate PROVE UNCHANGED <<leaked, released>>
  BY <1>6 DEF AdjustBudget, Reactivate
<1>7. MoneyNext => UNCHANGED <<leaked, released>>
  BY MoneyLeavesEnds DEF ends
<1>8. UNCHANGED vars => UNCHANGED <<leaked, released>>
  BY DEF vars, specialVars
<1> QED
  BY <1>1, <1>2, <1>3, <1>4, <1>5, <1>6, <1>7, <1>8 DEF Next, SpecialsNext, Continue

\* Every step preserves Leaks.
LEMMA StepLeaks == TypeInv /\ TypeInv' /\ EndsInv /\ Leaks /\ [Next]_vars => Leaks'
<1> SUFFICES ASSUME TypeInv, TypeInv', EndsInv, Leaks, [Next]_vars PROVE Leaks'
  OBVIOUS
<1>1. ASSUME NEW r \in leaked
      PROVE  /\ r \in Redemptions /\ Closed(r)' /\ released'[r] = 0
             /\ \A h \in Procs: At(h, "release")' => call'[h].id # r
  <2>1. r \in Redemptions /\ Closed(r) /\ released[r] = 0 /\ \A h \in Procs: At(h, "release") => call[h].id # r
    BY <1>1 DEF Leaks
  <2>2. Closed(r)' /\ released'[r] = 0
    BY <2>1, ClosedStays, ReleaseSteps
  <2>3. \A h \in Procs: At(h, "release")' => call'[h].id # r
    BY <2>1, Releases DEF At
  <2> QED
    BY <2>1, <2>2, <2>3
<1>2. ASSUME NEW r \in leaked', r \notin leaked
      PROVE  /\ r \in Redemptions /\ Closed(r)' /\ released'[r] = 0
             /\ \A h \in Procs: At(h, "release")' => call'[h].id # r
  <2>1. PICK h \in Procs: /\ At(h, "release") /\ call[h].id = r /\ call'[h].at # "release" /\ UNCHANGED released
                          /\ \A g \in Procs \ {h}: call'[g] = call[g]
    BY <1>2, ReleaseSteps
  <2>2. r \in Redemptions
    BY <2>1 DEF At, TypeInv, HasRedemption
  <2>3. Closed(r) /\ released[r] = 0 /\ \A g \in Procs \ {h}: At(g, "release") => call[g].id # r
    BY <2>1 DEF EndsInv, ReleasedOnce
  <2>4. Closed(r)'
    BY <2>2, <2>3, ClosedStays
  <2> QED
    BY <2>1, <2>2, <2>3, <2>4 DEF At
<1> QED
  BY <1>1, <1>2 DEF Leaks

-----------------------------------------------------------------------------
(* The sponsors row: no column goes below zero, and what was put in is     *)
(* what remains and what was used.                                         *)

Columns ==
  /\ sponsor \in Budget
  /\ sponsor.initial = sponsor.remaining + sponsor.used
  /\ adjusted \in Int

\* Amounts are positive.
LEMMA AmountsType == ChargeAmount \in Nat \ {0} /\ Amounts \subseteq Nat \ {0}
  BY WithdrawalsAssumption

\* Opening budgets are naturals, adjustments integers.
LEMMA OpeningsType == Openings \subseteq Nat /\ Adjustments \subseteq Int
  BY SpecialsAssumption

\* What money steps do to the sponsors row.
LEMMA MoneySteps ==
  ASSUME MoneyNext
  PROVE  /\ UNCHANGED adjusted
         /\ \/ UNCHANGED sponsor
            \/ Credit(ChargeAmount)
            \/ \E a \in Amounts: Withdrawable(a) /\ Credit(-a)
<1> USE DEF specialVars, noRedemption
<1>1. ASSUME NEW c \in Charges, Pay(c) \/ ChargeRefunded(c) PROVE UNCHANGED <<sponsor, adjusted>>
  BY <1>1 DEF Pay, ChargeRefunded
<1>2. CASE NewWeek
  BY <1>2 DEF NewWeek
<1>3. ASSUME NEW h \in Procs, NEW c \in Charges, TopupClaim(h, c) \/ CountKnown(h, c) \/ CreateRefund(h, c)
      PROVE  UNCHANGED <<sponsor, adjusted>>
  BY <1>3 DEF TopupClaim, CountKnown, CreateRefund
<1>4. ASSUME NEW h \in Procs, CreditFundedBudget(h)
      PROVE  UNCHANGED adjusted /\ (UNCHANGED sponsor \/ Credit(ChargeAmount))
  BY <1>4 DEF CreditFundedBudget
<1>5. ASSUME NEW h \in Procs, TopupMark(h) \/ TopupFailed(h) PROVE UNCHANGED <<sponsor, adjusted>>
  BY <1>5 DEF TopupMark, TopupFailed
<1>6. ASSUME NEW h \in Procs, NEW w \in Withdrawals, Sweep(h, w) PROVE UNCHANGED <<sponsor, adjusted>>
  BY <1>6 DEF Sweep
<1>7. ASSUME NEW h \in Procs, NEW w \in Withdrawals, NEW a \in Amounts, RequestWithdrawal(h, w, a)
      PROVE  UNCHANGED adjusted /\ Withdrawable(a) /\ Credit(-a)
  BY <1>7 DEF RequestWithdrawal
<1>8. ASSUME NEW h \in Procs, Plan(h) \/ RefundsEnd(h) \/ RunCrash(h) PROVE UNCHANGED <<sponsor, adjusted>>
  BY <1>8 DEF Plan, RefundsEnd, RunCrash
<1> QED
  BY <1>1, <1>2, <1>3, <1>4, <1>5, <1>6, <1>7, <1>8 DEF MoneyNext

\* The two ways a row gets its columns back in order.
LEMMA CreditColumns ==
  ASSUME Columns, NEW d \in Int, sponsor.remaining + d >= 0, Credit(d), adjusted' \in Int
  PROVE  Columns' /\ sponsor'.reserved = sponsor.reserved
<1>1. sponsor'.remaining = sponsor.remaining + d /\ sponsor'.initial = sponsor.initial + d
      /\ sponsor'.used = sponsor.used /\ sponsor'.reserved = sponsor.reserved
  BY DEF Credit, Columns, Budget
<1>2. sponsor' = [status |-> sponsor.status, initial |-> sponsor.initial + d,
                  remaining |-> sponsor.remaining + d, reserved |-> sponsor.reserved, used |-> sponsor.used]
  BY DEF Credit, Columns, Budget
<1>3. sponsor.initial + d \in Nat /\ sponsor.remaining + d \in Nat
  BY DEF Columns, Budget
<1>4. sponsor' \in Budget
  BY <1>2, <1>3 DEF Columns, Budget
<1>5. sponsor.initial + d = (sponsor.remaining + d) + sponsor.used
  BY DEF Columns, Budget
<1> QED
  BY <1>1, <1>4, <1>5 DEF Columns

\* A settlement keeps the columns in order.
LEMMA SettledColumns ==
  ASSUME Columns, NEW d \in Nat, sponsor.remaining >= d, sponsor.reserved >= d,
         sponsor' = Depleted(Consumed(d)), UNCHANGED adjusted
  PROVE  Columns' /\ sponsor'.reserved = sponsor.reserved - d /\ sponsor'.used = sponsor.used + d
                  /\ sponsor'.initial = sponsor.initial
<1> DEFINE s == Consumed(d)
<1>1. s = [status |-> sponsor.status, initial |-> sponsor.initial, remaining |-> sponsor.remaining - d,
           reserved |-> sponsor.reserved - d, used |-> sponsor.used + d]
  <2>1. sponsor = [status |-> sponsor.status, initial |-> sponsor.initial, remaining |-> sponsor.remaining,
                   reserved |-> sponsor.reserved, used |-> sponsor.used]
    BY DEF Columns, Budget
  <2>2. s = [sponsor EXCEPT !.remaining = sponsor.remaining - d, !.reserved = sponsor.reserved - d,
                            !.used = sponsor.used + d]
    BY DEF Consumed
  <2> HIDE DEF s
  <2> QED
    BY <2>1, <2>2
<1>2. s \in Budget
  <2>1. sponsor.remaining - d \in Nat /\ sponsor.reserved - d \in Nat /\ sponsor.used + d \in Nat
    BY DEF Columns, Budget
  <2> HIDE DEF s
  <2> QED
    BY <1>1, <2>1 DEF Columns, Budget
<1>3. sponsor.initial = (sponsor.remaining - d) + (sponsor.used + d)
  BY DEF Columns, Budget
<1> HIDE DEF s
<1>4. /\ sponsor'.initial = s.initial /\ sponsor'.remaining = s.remaining
      /\ sponsor'.reserved = s.reserved /\ sponsor'.used = s.used /\ sponsor' \in Budget
  <2>1. sponsor' = s \/ sponsor' = [s EXCEPT !.status = "DEPLETED"]
    BY DEF Depleted, s
  <2> QED
    BY <1>2, <2>1 DEF Budget
<1> QED
  BY <1>1, <1>3, <1>4 DEF Columns

\* Columns holds initially.
LEMMA InitColumns == Init => Columns
  BY OpeningsType DEF Init, SpecialsInit, Columns, Budget

\* Reading what Columns says of one column.
LEMMA ColumnTypes ==
  ASSUME Columns
  PROVE  /\ sponsor.initial \in Nat /\ sponsor.remaining \in Nat /\ sponsor.reserved \in Nat /\ sponsor.used \in Nat
         /\ adjusted \in Int
  BY DEF Columns, Budget

\* Every step preserves Columns.
LEMMA StepColumns == TypeInv /\ TypeInv' /\ Columns /\ [Next]_vars => Columns'
<1> SUFFICES ASSUME TypeInv, TypeInv', Columns, [Next]_vars PROVE Columns'
  OBVIOUS
<1> USE DEF books, history
<1>1. ASSUME UNCHANGED <<sponsor, adjusted>> PROVE Columns'
  BY <1>1 DEF Columns
<1>2. ASSUME NEW r \in Redemptions, CreateForRider(r) \/ Supersede(r) PROVE UNCHANGED <<sponsor, adjusted>>
  BY <1>2 DEF CreateForRider, Supersede
<1>3. ASSUME NEW r \in Redemptions, AttachToRideRequest(r) PROVE Columns'
  <2>1. PICK d \in Discounts: sponsor' = [sponsor EXCEPT !.reserved = @ + d]
    BY <1>3 DEF AttachToRideRequest
  <2>2. sponsor.reserved + d \in Nat
    BY ColumnTypes, DiscountsType
  <2>3. UNCHANGED adjusted
    BY <1>3 DEF AttachToRideRequest
  <2> QED
    BY <2>1, <2>2, <2>3 DEF Columns, Budget
<1>4. ASSUME NEW h \in Procs, NEW r \in Redemptions,
             RideEnds(h, r) \/ SponsorValidate(h, r) \/ SponsorCancel(h, r) \/ Expire(h, r) \/ Reconcile(h, r)
      PROVE  UNCHANGED <<sponsor, adjusted>>
  BY <1>4 DEF RideEnds, SponsorValidate, SponsorCancel, Expire, Reconcile
<1>5. ASSUME NEW h \in Procs,
             \/ IssueCode(h) \/ VoidWithRide(h) \/ BillRider(h) \/ SettleRead(h) \/ SettleFailed(h)
             \/ RecordComponents(h) \/ Crash(h) \/ Error(h)
      PROVE  UNCHANGED <<sponsor, adjusted>>
  BY <1>5 DEF IssueCode, VoidWithRide, BillRider, SettleRead, SettleFailed, RecordComponents, Crash, Error
<1>6. ASSUME NEW h \in Procs, ReleaseReservedBudget(h) PROVE Columns'
  <2> DEFINE r == call[h].id
  <2>1. r \in Redemptions
    BY <1>6 DEF ReleaseReservedBudget, At, TypeInv, HasRedemption
  <2>2. Discount(r) \in Nat
    BY <2>1, DiscountType DEF Discount
  <2>3. CASE sponsor.reserved >= Discount(r)
    <3>1. sponsor' = [sponsor EXCEPT !.reserved = @ - Discount(r)] /\ UNCHANGED adjusted
      BY <1>6, <2>3 DEF ReleaseReservedBudget
    <3>2. sponsor.reserved - Discount(r) \in Nat
      BY <2>2, <2>3, ColumnTypes
    <3> QED
      BY <3>1, <3>2 DEF Columns, Budget
  <2>4. CASE ~ (sponsor.reserved >= Discount(r))
    BY <1>1, <1>6, <2>4 DEF ReleaseReservedBudget
  <2> QED
    BY <2>3, <2>4
<1>7. ASSUME NEW h \in Procs, Consume(h) PROVE Columns'
  <2> DEFINE r == call[h].id
  <2>1. r \in Redemptions /\ UNCHANGED adjusted
    BY <1>7 DEF Consume, At, TypeInv, HasRedemption
  <2>2. CASE Consumable(r)
    <3>1. /\ sponsor' = Depleted(Consumed(Discount(r)))
          /\ sponsor.remaining >= Discount(r) /\ sponsor.reserved >= Discount(r)
      BY <1>7, <2>2 DEF Consume, Consumable
    <3>2. Discount(r) \in Nat
      BY <2>1, DiscountType DEF Discount
    <3> QED
      BY <2>1, <3>1, <3>2, SettledColumns
  <2>3. CASE ~ Consumable(r)
    BY <1>1, <1>7, <2>3 DEF Consume
  <2> QED
    BY <2>2, <2>3
<1>8. ASSUME NEW delta \in Adjustments, AdjustBudget(delta) PROVE Columns'
  <2>1. delta \in Int /\ adjusted' \in Int
    BY <1>8, OpeningsType, ColumnTypes DEF AdjustBudget
  <2>2. sponsor.remaining + delta >= 0
    BY <1>8, <2>1, ColumnTypes DEF AdjustBudget, Adjustable
  <2>3. Credit(delta)
    BY <1>8 DEF AdjustBudget, Credit
  <2> QED
    BY <2>1, <2>2, <2>3, CreditColumns
<1>9. CASE Reactivate
  BY <1>9 DEF Reactivate, Columns, Budget
<1>10. CASE MoneyNext
  <2>1. UNCHANGED adjusted
    BY <1>10, MoneySteps
  <2>2. CASE Credit(ChargeAmount)
    <3>1. ChargeAmount \in Int /\ sponsor.remaining + ChargeAmount >= 0
      BY AmountsType, ColumnTypes
    <3> QED
      BY <2>1, <2>2, <3>1, CreditColumns, ColumnTypes
  <2>3. ASSUME NEW a \in Amounts, Withdrawable(a), Credit(-a) PROVE Columns'
    <3>1. a \in Nat /\ -a \in Int
      BY AmountsType
    <3>2. sponsor.remaining + (-a) >= 0
      BY <2>3, <3>1, ColumnTypes DEF Withdrawable, Spendable
    <3> QED
      BY <2>1, <2>3, <3>1, <3>2, CreditColumns, ColumnTypes
  <2> QED
    BY <1>1, <1>10, <2>1, <2>2, <2>3, MoneySteps
<1>11. CASE UNCHANGED vars
  BY <1>1, <1>11 DEF vars, specialVars
<1> QED
  BY <1>1, <1>2, <1>3, <1>4, <1>5, <1>6, <1>7, <1>8, <1>9, <1>10, <1>11 DEF Next, SpecialsNext, Continue

-----------------------------------------------------------------------------
(* Every step keeps the reserved column and the reservations together.     *)

\* Every step preserves ReservedIsHeld.
LEMMA StepReserved ==
  ASSUME IsFiniteSet(Redemptions), TypeInv, TypeInv', EndsInv, EndsInv', Leaks, Leaks', Columns, ReservedIsHeld,
         [Next]_vars
  PROVE  ReservedIsHeld'
<1> USE DEF books, history
<1>1. ASSUME \A r \in Redemptions: /\ redemption'[r].discount = redemption[r].discount
                                   /\ Holds(Status(r)') <=> Holds(Status(r)),
             \A g \in Procs: call'[g] = call[g] \/ (call[g].at # "release" /\ call'[g].at # "release"),
             UNCHANGED leaked, sponsor'.reserved = sponsor.reserved
      PROVE  ReservedIsHeld'
  <2>1. Reserving' = Reserving
    BY <1>1, StillReserving
  <2> QED
    BY <1>1, <2>1, SameReservations
<1>2. ASSUME NEW r \in Redemptions, CreateForRider(r) \/ Supersede(r) PROVE ReservedIsHeld'
  <2>1. UNCHANGED <<call, leaked, sponsor>>
    BY <1>2 DEF CreateForRider, Supersede
  <2>2. \A q \in Redemptions: redemption'[q].discount = redemption[q].discount /\ (Holds(Status(q)') <=> Holds(Status(q)))
    BY <1>2 DEF CreateForRider, Supersede, SetStatus, Holds, Status, TypeInv, Special
  <2> QED
    BY <1>1, <2>1, <2>2
<1>3. ASSUME NEW r \in Redemptions, AttachToRideRequest(r) PROVE ReservedIsHeld'
  <2>1. PICK d \in Discounts:
          /\ sponsor' = [sponsor EXCEPT !.reserved = @ + d]
          /\ redemption' = [redemption EXCEPT ![r].status = "RIDE_PENDING", ![r].discount = d]
    BY <1>3 DEF AttachToRideRequest
  <2>2. Status(r) = "CREATED" /\ UNCHANGED <<call, leaked>>
    BY <1>3 DEF AttachToRideRequest
  <2>3. /\ redemption'[r].discount = d /\ redemption'[r].status = "RIDE_PENDING"
        /\ \A q \in Redemptions \ {r}: redemption'[q] = redemption[q]
    BY <2>1 DEF TypeInv, Special
  <2>4. r \notin Reserving
    BY <2>2, InReserving DEF EndsInv, ReleasedOnce, Leaks, Closed, Holds
  <2>5. \A q \in Redemptions: q \in Reserving' <=> (q \in Reserving \/ q = r)
    BY <2>2, <2>3, InReserving, InReservingNext DEF Holds, Status, At
  <2>6. Reserving' = Reserving \cup {r}
    BY <2>5, ReservingType, ReservingTypeNext
  <2>7. sponsor'.reserved = sponsor.reserved + redemption'[r].discount
    BY <2>1, <2>3 DEF Columns, Budget
  <2>8. \A q \in Redemptions \ {r}: redemption'[q].discount = redemption[q].discount
    BY <2>3
  <2> QED
    BY <2>4, <2>6, <2>7, <2>8, OneMore
<1>4. ASSUME NEW h \in Procs, NEW r \in Redemptions, RideEnds(h, r) \/ Reconcile(h, r) PROVE ReservedIsHeld'
  <2>1. UNCHANGED <<redemption, leaked, sponsor>>
    BY <1>4 DEF RideEnds, Reconcile
  <2>2. \A g \in Procs: call'[g] = call[g] \/ (call[g].at # "release" /\ call'[g].at # "release")
    BY <1>4 DEF RideEnds, Reconcile, Start, NoCall, TypeInv
  <2> QED
    BY <1>1, <2>1, <2>2 DEF Status
<1>5. ASSUME NEW h \in Procs, NEW r \in Redemptions, SponsorValidate(h, r) PROVE ReservedIsHeld'
  <2>1. UNCHANGED <<leaked, sponsor>>
    BY <1>5 DEF SponsorValidate
  <2>2. \A g \in Procs: call'[g] = call[g] \/ (call[g].at # "release" /\ call'[g].at # "release")
    BY <1>5 DEF SponsorValidate, Start, NoCall, TypeInv
  <2>3. \A q \in Redemptions: redemption'[q].discount = redemption[q].discount /\ (Holds(Status(q)') <=> Holds(Status(q)))
    BY <1>5 DEF SponsorValidate, Holds, Status, TypeInv, Special
  <2> QED
    BY <1>1, <2>1, <2>2, <2>3
<1>6. ASSUME NEW r \in Redemptions, NEW h \in Procs, Holds(Status(r)), call[h].at # "release",
             SetStatus(r, "CANCELLED") \/ SetStatus(r, "EXPIRED"),
             call'[h].at = "release", call'[h].id = r, \A g \in Procs \ {h}: call'[g] = call[g],
             UNCHANGED <<leaked, sponsor>>
      PROVE  ReservedIsHeld'
  <2>1. \A q \in Redemptions: redemption'[q].discount = redemption[q].discount /\ (q # r => redemption'[q] = redemption[q])
    BY <1>6 DEF SetStatus, TypeInv, Special
  <2>2. r \in Reserving /\ r \in Reserving'
    BY <1>6, InReserving, InReservingNext
  <2>3. \A q \in Redemptions \ {r}: (\E g \in Procs: At(g, "release") /\ call[g].id = q)
                                     <=> (\E g \in Procs: call'[g].at = "release" /\ call'[g].id = q)
    BY <1>6 DEF At
  <2>4. \A q \in Redemptions \ {r}: Holds(Status(q)') <=> Holds(Status(q))
    BY <2>1 DEF Status
  <2>5. \A q \in Redemptions \ {r}: q \in Reserving' <=> q \in Reserving
    BY <1>6, <2>3, <2>4, InReserving, InReservingNext
  <2>6. Reserving' = Reserving
    BY <2>2, <2>5, ReservingType, ReservingTypeNext
  <2> QED
    BY <1>6, <2>1, <2>6, SameReservations
<1>7. ASSUME NEW h \in Procs, NEW r \in Redemptions, SponsorCancel(h, r) \/ Expire(h, r) PROVE ReservedIsHeld'
  <2>1. Holds(Status(r)) /\ (SetStatus(r, "CANCELLED") \/ SetStatus(r, "EXPIRED")) /\ UNCHANGED <<leaked, sponsor>>
    BY <1>7 DEF SponsorCancel, Expire, Cancellable, Holds
  <2>2. /\ call[h].at # "release" /\ call'[h].at = "release" /\ call'[h].id = r
        /\ \A g \in Procs \ {h}: call'[g] = call[g]
    BY <1>7 DEF SponsorCancel, Expire, Start, NoCall, TypeInv
  <2> QED
    BY <1>6, <2>1, <2>2
<1>8. ASSUME NEW h \in Procs, VoidWithRide(h) PROVE ReservedIsHeld'
  <2> DEFINE r == call[h].id
  <2>1. r \in Redemptions /\ call[h].at # "release"
    BY <1>8 DEF VoidWithRide, At, TypeInv, HasRedemption
  <2>2. Holds(Status(r)) /\ SetStatus(r, "CANCELLED") /\ UNCHANGED <<leaked, sponsor>>
    BY <1>8 DEF VoidWithRide, Holds
  <2>3. call'[h].at = "release" /\ call'[h].id = r /\ \A g \in Procs \ {h}: call'[g] = call[g]
    BY <1>8 DEF VoidWithRide, Goto, TypeInv, Calls
  <2> HIDE DEF r
  <2> QED
    BY <1>6, <2>1, <2>2, <2>3
<1>9. ASSUME NEW h \in Procs, ReleaseReservedBudget(h) PROVE ReservedIsHeld'
  <2> DEFINE r == call[h].id
  <2>1. r \in Redemptions /\ At(h, "release")
    BY <1>9 DEF ReleaseReservedBudget, At, TypeInv, HasRedemption
  <2>2. Closed(r) /\ r \notin leaked /\ \A g \in Procs \ {h}: At(g, "release") => call[g].id # r
    BY <2>1 DEF EndsInv, ReleasedOnce, Leaks
  <2>3. UNCHANGED <<redemption, leaked>>
    BY <1>9 DEF ReleaseReservedBudget
  <2>4. call'[h].at # "release" /\ \A g \in Procs \ {h}: call'[g] = call[g]
    BY <1>9 DEF ReleaseReservedBudget, AfterRelease, Finish, Goto, NoCall, TypeInv, Calls
  <2>5. r \in Reserving
    BY <2>1, InReserving
  <2>6. \A q \in Redemptions: q \in Reserving' <=> (q \in Reserving /\ q # r)
    <3>1. \A q \in Redemptions: Holds(Status(q)') <=> Holds(Status(q))
      BY <2>3 DEF Status
    <3>2. \A q \in Redemptions: (\E g \in Procs: call'[g].at = "release" /\ call'[g].id = q)
                                 <=> q # r /\ \E g \in Procs: At(g, "release") /\ call[g].id = q
      BY <2>1, <2>2, <2>4 DEF At
    <3>3. ~ Holds(Status(r))
      BY <2>2 DEF Holds, Closed
    <3> HIDE DEF r
    <3> QED
      BY <2>1, <2>2, <2>3, <3>1, <3>2, <3>3, InReserving, InReservingNext
  <2>7. Reserving' = Reserving \ {r}
    BY <2>6, ReservingType, ReservingTypeNext
  <2>8. sponsor.reserved >= Discount(r) /\ (sponsor'.reserved = sponsor.reserved - Discount(r) => ReservedIsHeld')
    BY <2>3, <2>5, <2>7, OneLess
  <2>9. sponsor' = [sponsor EXCEPT !.reserved = @ - Discount(r)]
    BY <1>9, <2>8 DEF ReleaseReservedBudget
  <2> QED
    BY <2>8, <2>9 DEF Columns, Budget
<1>10. ASSUME NEW h \in Procs, At(h, "release"), leaked' = leaked \cup {call[h].id},
              call'[h].at # "release", \A g \in Procs \ {h}: call'[g] = call[g], UNCHANGED <<redemption, sponsor>>
       PROVE  ReservedIsHeld'
  <2> DEFINE r == call[h].id
  <2>1. r \in Redemptions
    BY <1>10 DEF At, TypeInv, HasRedemption
  <2>2. r \in Reserving /\ r \in Reserving'
    BY <1>10, <2>1, InReserving, InReservingNext
  <2>3. \A q \in Redemptions \ {r}: (\E g \in Procs: At(g, "release") /\ call[g].id = q)
                                     <=> (\E g \in Procs: call'[g].at = "release" /\ call'[g].id = q)
    BY <1>10 DEF At
  <2>4. \A q \in Redemptions: Holds(Status(q)') <=> Holds(Status(q))
    BY <1>10 DEF Status
  <2> HIDE DEF r
  <2>5. \A q \in Redemptions \ {r}: q \in leaked' <=> q \in leaked
    BY <1>10 DEF r
  <2>6. \A q \in Redemptions \ {r}: q \in Reserving' <=> q \in Reserving
    BY <2>3, <2>4, <2>5, InReserving, InReservingNext
  <2>7. Reserving' = Reserving
    BY <2>2, <2>6, ReservingType, ReservingTypeNext
  <2> QED
    BY <1>10, <2>7, SameReservations
<1>11. ASSUME NEW h \in Procs, call[h].at # "release", call'[h].at # "release", \A g \in Procs \ {h}: call'[g] = call[g],
              UNCHANGED <<leaked, sponsor>>,
              \A r \in Redemptions: /\ redemption'[r].discount = redemption[r].discount
                                    /\ Holds(Status(r)') <=> Holds(Status(r))
       PROVE  ReservedIsHeld'
  BY <1>1, <1>11
<1>12. ASSUME NEW h \in Procs, Crash(h) \/ Error(h) PROVE ReservedIsHeld'
  <2>1. UNCHANGED <<redemption, sponsor>> /\ \A g \in Procs \ {h}: call'[g] = call[g]
    BY <1>12 DEF Crash, Error, AfterRelease, Finish, Goto, TypeInv
  <2>2. call'[h].at # "release"
    BY <1>12 DEF Crash, Error, AfterRelease, Finish, Goto, NoCall, TypeInv, Calls
  <2>3. leaked' = IF At(h, "release") THEN leaked \cup {call[h].id} ELSE leaked
    BY <1>12 DEF Crash, Error, At
  <2> QED
    BY <1>10, <1>11, <2>1, <2>2, <2>3 DEF At, Status
<1>13. ASSUME NEW h \in Procs, IssueCode(h) \/ SettleFailed(h) PROVE ReservedIsHeld'
  <2>1. UNCHANGED <<leaked, sponsor>> /\ \A g \in Procs \ {h}: call'[g] = call[g]
    BY <1>13 DEF IssueCode, SettleFailed, Finish, TypeInv
  <2>2. call[h].at # "release" /\ call'[h].at # "release"
    BY <1>13 DEF IssueCode, SettleFailed, Finish, NoCall, TypeInv, At
  <2>3. \A q \in Redemptions: redemption'[q].discount = redemption[q].discount /\ (Holds(Status(q)') <=> Holds(Status(q)))
    BY <1>13 DEF IssueCode, SettleFailed, SetStatus, Holds, Status, TypeInv, Special
  <2> QED
    BY <1>11, <2>1, <2>2, <2>3
<1>14. ASSUME NEW h \in Procs, BillRider(h) \/ SettleRead(h) \/ RecordComponents(h) PROVE ReservedIsHeld'
  <2>1. UNCHANGED <<leaked, sponsor, redemption>> /\ \A g \in Procs \ {h}: call'[g] = call[g]
    BY <1>14 DEF BillRider, SettleRead, RecordComponents, Finish, Goto, TypeInv
  <2>2. call[h].at # "release" /\ call'[h].at # "release"
    BY <1>14 DEF BillRider, SettleRead, RecordComponents, Finish, Goto, NoCall, TypeInv, Calls, At
  <2> QED
    BY <1>11, <2>1, <2>2 DEF Status
<1>15. ASSUME NEW h \in Procs, Consume(h) PROVE ReservedIsHeld'
  <2>1. call[h].id \in Redemptions /\ call[h].at # "release" /\ UNCHANGED leaked
    BY <1>15 DEF Consume, At, TypeInv, HasRedemption
  <2> PICK r \in Redemptions: r = call[h].id
    BY <2>1
  <2>2. call'[h].at # "release" /\ \A g \in Procs \ {h}: call'[g] = call[g]
    BY <1>15 DEF Consume, Goto, TypeInv, Calls
  <2>3. CASE Consumable(r)
    <3>1. /\ Holds(Status(r)) /\ ~ Closed(r) /\ SetStatus(r, "REWARD_COMPLETED")
          /\ sponsor' = Depleted(Consumed(Discount(r)))
          /\ sponsor.remaining >= Discount(r) /\ sponsor.reserved >= Discount(r)
      BY <1>15, <2>3 DEF Consume, Consumable, Holds, Closed
    <3>2. UNCHANGED adjusted
      BY <1>15 DEF Consume
    <3>3. /\ \A q \in Redemptions: redemption'[q].discount = redemption[q].discount
          /\ ~ Holds(Status(r)') /\ \A q \in Redemptions \ {r}: Holds(Status(q)') <=> Holds(Status(q))
      <4>1. redemption'[r].status = "REWARD_COMPLETED" /\ \A q \in Redemptions \ {r}: redemption'[q] = redemption[q]
        BY <2>1, <3>1 DEF SetStatus, TypeInv, Special
      <4>2. redemption'[r].discount = redemption[r].discount
        BY <2>1, <3>1 DEF SetStatus, TypeInv, Special
      <4> QED
        BY <4>1, <4>2 DEF Holds, Status
    <3>4. r \in Reserving
      BY <2>1, <3>1, InReserving
    <3>5. r \notin leaked /\ \A g \in Procs: At(g, "release") => call[g].id # r
      BY <3>1 DEF EndsInv, ReleasedOnce, Leaks
    <3>6. \A g \in Procs: (call'[g].at = "release" <=> At(g, "release")) /\ (At(g, "release") => call'[g] = call[g])
      BY <2>1, <2>2 DEF At
    <3>7. \A q \in Redemptions: q \in Reserving' <=> (q \in Reserving /\ q # r)
      <4>1. \A q \in Redemptions: (\E g \in Procs: At(g, "release") /\ call[g].id = q)
                                   <=> (\E g \in Procs: call'[g].at = "release" /\ call'[g].id = q)
        BY <3>6 DEF At
      <4>2. r \notin Reserving'
        BY <2>1, <3>3, <3>5, <4>1, InReservingNext
      <4>3. \A q \in Redemptions \ {r}: q \in Reserving' <=> q \in Reserving
        BY <2>1, <3>3, <4>1, InReserving, InReservingNext
      <4> QED
        BY <4>2, <4>3
    <3>8. Reserving' = Reserving \ {r}
      BY <3>7, ReservingType, ReservingTypeNext
    <3>9. Discount(r) \in Nat
      BY <2>1, DiscountType DEF Discount
    <3>10. sponsor'.reserved = sponsor.reserved - Discount(r)
      BY <3>1, <3>2, <3>9, SettledColumns
    <3> QED
      BY <3>3, <3>4, <3>8, <3>10, OneLess
  <2>4. CASE ~ Consumable(r)
    <3>1. UNCHANGED <<redemption, sponsor>>
      BY <1>15, <2>4 DEF Consume
    <3> QED
      BY <1>11, <2>1, <2>2, <3>1 DEF Status
  <2> QED
    BY <2>3, <2>4
<1>16. ASSUME UNCHANGED <<redemption, call, leaked>>, sponsor'.reserved = sponsor.reserved PROVE ReservedIsHeld'
  BY <1>1, <1>16 DEF Status
<1>17. ASSUME (\E delta \in Adjustments: AdjustBudget(delta)) \/ Reactivate PROVE ReservedIsHeld'
  <2>1. UNCHANGED <<redemption, call, leaked>> /\ sponsor'.reserved = sponsor.reserved
    BY <1>17 DEF AdjustBudget, Reactivate, Columns, Budget
  <2> QED
    BY <1>16, <2>1
<1>18. CASE MoneyNext
  <2>1. sponsor'.reserved = sponsor.reserved
    BY <1>18, MoneySteps DEF Credit, Columns, Budget
  <2>2. UNCHANGED <<redemption, call, leaked>>
    BY <1>18, MoneyLeavesEnds DEF ends
  <2> QED
    BY <1>16, <2>1, <2>2
<1>19. CASE UNCHANGED vars
  BY <1>16, <1>19 DEF vars, specialVars
<1> QED
  BY <1>2, <1>3, <1>4, <1>5, <1>7, <1>8, <1>9, <1>12, <1>13, <1>14, <1>15, <1>17, <1>18, <1>19
  DEF Next, SpecialsNext, Continue

\* ReservedIsHeld holds initially.
LEMMA InitReserved == Init => Leaks /\ ReservedIsHeld
<1> SUFFICES ASSUME Init PROVE Leaks /\ ReservedIsHeld
  OBVIOUS
<1>1. Leaks
  BY DEF Init, SpecialsInit, Leaks
<1>2. Reserving = {}
  BY DEF Init, SpecialsInit, Reserving, Holding, Releasing, Status, At, NoCall
<1>3. Total(Discounted, Reserving) = 0
  BY <1>2, SumEmpty, TotalIsSum
<1>4. sponsor.reserved = 0
  BY DEF Init, SpecialsInit
<1> QED
  BY <1>1, <1>3, <1>4 DEF ReservedIsHeld, Reserving

\* The reserved column is the sum of the discounts of the redemptions that are
\* open, are being released, or whose release a crash lost: no redemption's
\* reservation is released twice or for another, with any number of them.
THEOREM ReservationsHeld ==
  ASSUME IsFiniteSet(Redemptions)
  PROVE  Spec => []ReservedIsHeld
<1> DEFINE I == TypeInv /\ EndsInv /\ Leaks /\ Columns /\ ReservedIsHeld
<1>1. Init => I
  BY InitType, InitEnds, InitReserved, InitColumns
<1>2. I /\ [Next]_vars => I'
  BY StepType, StepEnds, StepLeaks, StepColumns, StepReserved
<1>3. I => ReservedIsHeld
  OBVIOUS
<1> QED
  BY <1>1, <1>2, <1>3, PTL DEF Spec

\* No column of the sponsors row goes below zero, and what was put in is what
\* remains and what was used, after any transactions.
THEOREM SponsorColumns == Spec => []Columns
<1>1. Init => TypeInv /\ Columns
  BY InitType, InitColumns
<1>2. TypeInv /\ Columns /\ [Next]_vars => (TypeInv /\ Columns)'
  BY StepType, StepColumns
<1> QED
  BY <1>1, <1>2, PTL DEF Spec

-----------------------------------------------------------------------------
(* The books: what was used is what redemptions were paid, and what was    *)
(* put in is what was opened with, adjusted, funded and withdrawn.         *)

Row(w) == withdrawal[w]

\* The rows of withdrawals: an amount, which is zero before the request.
Rows ==
  /\ withdrawal = [w \in Withdrawals |-> Row(w)]
  /\ \A w \in Withdrawals:
       /\ Row(w) = [status |-> Row(w).status, amount |-> Row(w).amount, ids |-> Row(w).ids,
                    thisWeek |-> Row(w).thisWeek]
       /\ Row(w).amount \in Nat
       /\ Row(w).status = "none" => Row(w).amount = 0

SameAmounts == \A w \in Withdrawals: Row(w)'.amount = Row(w).amount

Amount == [w \in Withdrawals |-> withdrawal[w].amount]

UsedIsRedeemed == sponsor.used = Total(Discounted, redeemed)

Financed ==
  \E b \in Openings: sponsor.initial = b + adjusted + ChargeAmount * Cardinality(credited) - Withdrawn

Books == IsFiniteSet(credited) /\ Rows /\ UsedIsRedeemed /\ Financed

\* Steps of money keep the rows in order; one credits a charge for the first
\* time, another debits a new withdrawal, and the rest leave the books alone.
LEMMA RowSteps ==
  ASSUME Rows, MoneyNext
  PROVE  /\ Rows'
         /\ \/ SameAmounts /\ UNCHANGED <<sponsor, credited>>
            \/ SameAmounts /\ \E c : c \notin credited /\ credited' = credited \cup {c} /\ Credit(ChargeAmount)
            \/ /\ UNCHANGED credited
               /\ \E w \in Withdrawals, a \in Amounts:
                    /\ Row(w).amount = 0 /\ Row(w)'.amount = a /\ Credit(-a)
                    /\ \A v \in Withdrawals \ {w}: Row(v)'.amount = Row(v).amount
<1> USE DEF specialVars, noRedemption
<1>1. ASSUME UNCHANGED withdrawal PROVE Rows' /\ SameAmounts
  BY <1>1 DEF Rows, Row, SameAmounts
<1>2. ASSUME NEW c \in Charges, Pay(c) \/ ChargeRefunded(c) PROVE UNCHANGED <<withdrawal, sponsor, credited>>
  BY <1>2 DEF Pay, ChargeRefunded
<1>3. CASE NewWeek
  <2>1. withdrawal' = [w \in Withdrawals |-> [withdrawal[w] EXCEPT !.thisWeek = FALSE]]
    BY <1>3 DEF NewWeek
  <2>2. \A w \in Withdrawals: Row(w)' = [status |-> Row(w).status, amount |-> Row(w).amount, ids |-> Row(w).ids,
                                         thisWeek |-> FALSE]
    <3> SUFFICES ASSUME NEW w \in Withdrawals
                 PROVE  Row(w)' = [status |-> Row(w).status, amount |-> Row(w).amount, ids |-> Row(w).ids,
                                   thisWeek |-> FALSE]
      OBVIOUS
    <3>1. Row(w) = [status |-> Row(w).status, amount |-> Row(w).amount, ids |-> Row(w).ids,
                    thisWeek |-> Row(w).thisWeek]
      BY DEF Rows
    <3>2. Row(w)' = [Row(w) EXCEPT !.thisWeek = FALSE]
      BY <2>1 DEF Row
    <3> QED
      BY <3>1, <3>2
  <2>3. Rows' /\ SameAmounts
    BY <2>1, <2>2 DEF Rows, Row, SameAmounts
  <2> QED
    BY <1>3, <2>3 DEF NewWeek
<1>4. ASSUME NEW h \in Procs, NEW c \in Charges, TopupClaim(h, c) \/ CountKnown(h, c) \/ CreateRefund(h, c)
      PROVE  UNCHANGED <<withdrawal, sponsor, credited>>
  BY <1>4 DEF TopupClaim, CountKnown, CreateRefund
<1>5. ASSUME NEW h \in Procs, CreditFundedBudget(h)
      PROVE  /\ UNCHANGED withdrawal
             /\ \/ UNCHANGED <<sponsor, credited>>
                \/ \E c : c \notin credited /\ credited' = credited \cup {c} /\ Credit(ChargeAmount)
  BY <1>5 DEF CreditFundedBudget, Fresh
<1>6. ASSUME NEW h \in Procs, TopupMark(h) \/ TopupFailed(h) PROVE UNCHANGED <<withdrawal, sponsor, credited>>
  BY <1>6 DEF TopupMark, TopupFailed
<1>7. ASSUME NEW h \in Procs, NEW w \in Withdrawals, Sweep(h, w) PROVE UNCHANGED <<withdrawal, sponsor, credited>>
  BY <1>7 DEF Sweep
<1>8. ASSUME NEW h \in Procs, NEW w \in Withdrawals, NEW a \in Amounts, RequestWithdrawal(h, w, a)
      PROVE  /\ Rows' /\ UNCHANGED credited
             /\ Row(w).amount = 0 /\ Row(w)'.amount = a /\ Credit(-a)
             /\ \A v \in Withdrawals \ {w}: Row(v)'.amount = Row(v).amount
  <2>1. /\ withdrawal[w].status = "none" /\ Credit(-a) /\ UNCHANGED credited
        /\ withdrawal' = [withdrawal EXCEPT ![w] = [status |-> "PENDING", amount |-> a, ids |-> {}, thisWeek |-> TRUE]]
    BY <1>8 DEF RequestWithdrawal
  <2>2. /\ Row(w)' = [status |-> "PENDING", amount |-> a, ids |-> {}, thisWeek |-> TRUE]
        /\ \A v \in Withdrawals \ {w}: Row(v)' = Row(v)
        /\ withdrawal' = [v \in Withdrawals |-> withdrawal'[v]]
    BY <2>1 DEF Rows, Row
  <2>3. a \in Nat
    BY AmountsType
  <2>4. Rows'
    BY <2>2, <2>3 DEF Rows, Row
  <2> QED
    BY <2>1, <2>2, <2>4 DEF Rows, Row
<1>9. ASSUME NEW h \in Procs, Plan(h) \/ RunCrash(h) PROVE UNCHANGED <<withdrawal, sponsor, credited>>
  BY <1>9 DEF Plan, RunCrash
<1>10. ASSUME NEW h \in Procs, RefundsEnd(h) PROVE Rows' /\ SameAmounts /\ UNCHANGED <<sponsor, credited>>
  <2> DEFINE u == run[h].id
             s == Outcome(h)
             i == run[h].applied
  <2>1. withdrawal' = [withdrawal EXCEPT ![u].status = s, ![u].ids = i] /\ UNCHANGED <<sponsor, credited>>
    BY <1>10 DEF RefundsEnd
  <2>2. s # "none"
    BY DEF Outcome
  <2> HIDE DEF u, s, i
  <2>3. \A w \in Withdrawals: Row(w)' = IF w = u THEN [status |-> s, amount |-> Row(w).amount, ids |-> i,
                                                       thisWeek |-> Row(w).thisWeek]
                                        ELSE Row(w)
    <3> SUFFICES ASSUME NEW w \in Withdrawals
                 PROVE  Row(w)' = IF w = u THEN [status |-> s, amount |-> Row(w).amount, ids |-> i,
                                                 thisWeek |-> Row(w).thisWeek]
                                  ELSE Row(w)
      OBVIOUS
    <3>1. Row(w) = [status |-> Row(w).status, amount |-> Row(w).amount, ids |-> Row(w).ids,
                    thisWeek |-> Row(w).thisWeek]
      BY DEF Rows
    <3>2. Row(w)' = IF w = u THEN [[Row(w) EXCEPT !.status = s] EXCEPT !.ids = i] ELSE Row(w)
      BY <2>1 DEF Rows, Row
    <3> QED
      BY <3>1, <3>2
  <2>4. withdrawal' = [w \in Withdrawals |-> withdrawal'[w]]
    BY <2>1 DEF Rows
  <2>5. Rows'
    BY <2>2, <2>3, <2>4 DEF Rows, Row
  <2>6. \A w \in Withdrawals: Row(w)'.amount = Row(w).amount
    BY <2>3
  <2> QED
    BY <2>1, <2>5, <2>6 DEF SameAmounts
<1> QED
  BY <1>1, <1>2, <1>3, <1>4, <1>5, <1>6, <1>7, <1>8, <1>9, <1>10 DEF MoneyNext

\* Withdrawn is a sum over the withdrawals.
LEMMA WithdrawnIsSum == Withdrawn = Sum(Amount, Withdrawals)
  BY TotalIsSum DEF Withdrawn, Amount

\* The same in the next state.
LEMMA WithdrawnIsSumNext == Withdrawn' = Sum(Amount', Withdrawals)
<1>1. Withdrawn' = Total([w \in Withdrawals |-> withdrawal'[w].amount], Withdrawals)
  BY DEF Withdrawn
<1> QED
  BY <1>1, TotalIsSum DEF Amount

\* The books after a step that changes one of their terms.
LEMMA UsedSame ==
  ASSUME IsFiniteSet(Redemptions), TypeInv, UsedIsRedeemed, UNCHANGED redeemed, sponsor'.used = sponsor.used,
         \A r \in redeemed: redemption'[r].discount = redemption[r].discount
  PROVE  UsedIsRedeemed'
<1>1. redeemed \subseteq Redemptions /\ IsFiniteSet(redeemed)
  BY FS_Subset DEF TypeInv
<1>2. \A r \in redeemed: Discounted'[r] = Discounted[r]
  BY <1>1 DEF Discounted, Discount
<1>3. Sum(Discounted', redeemed) = Sum(Discounted, redeemed)
  BY <1>1, <1>2, SumSame
<1>4. sponsor'.used = Total(Discounted', redeemed')
  BY <1>3, TotalIsSum DEF UsedIsRedeemed
<1> QED
  BY <1>4 DEF UsedIsRedeemed

\* A settlement adds its discount to what is used.
LEMMA UsedMore ==
  ASSUME IsFiniteSet(Redemptions), TypeInv, UsedIsRedeemed, Columns, NEW r \in Redemptions, r \notin redeemed,
         redeemed' = redeemed \cup {r}, sponsor'.used = sponsor.used + Discount(r),
         \A q \in Redemptions: redemption'[q].discount = redemption[q].discount
  PROVE  UsedIsRedeemed'
<1>1. redeemed \subseteq Redemptions /\ IsFiniteSet(redeemed) /\ IsFiniteSet(redeemed \cup {r})
  BY FS_Subset DEF TypeInv
<1>2. \A q \in Redemptions: Discounted'[q] = Discounted[q] /\ Discounted[q] \in Int
  BY DiscountType DEF Discounted, Discount
<1>3. Sum(Discounted', redeemed \cup {r}) = Sum(Discounted, redeemed \cup {r})
  BY <1>1, <1>2, SumSame
<1>4. Sum(Discounted, redeemed \cup {r}) = Discounted[r] + Sum(Discounted, redeemed)
  BY <1>1, <1>2, SumAdd
<1>5. Discounted[r] = Discount(r)
  BY DEF Discounted
<1>6. sponsor.used = Sum(Discounted, redeemed) /\ sponsor.used \in Nat /\ Discounted[r] \in Int
  BY <1>2, TotalIsSum, ColumnTypes DEF UsedIsRedeemed
<1>7. sponsor'.used = Sum(Discounted', redeemed \cup {r})
  BY <1>3, <1>4, <1>5, <1>6
<1>8. sponsor'.used = Total(Discounted', redeemed')
  BY <1>7, TotalIsSum
<1> QED
  BY <1>8 DEF UsedIsRedeemed

\* The terms of the books are integers.
LEMMA Terms ==
  ASSUME IsFiniteSet(credited), IsFiniteSet(Withdrawals), Rows
  PROVE  ChargeAmount * Cardinality(credited) \in Int /\ Withdrawn \in Int
<1>1. Cardinality(credited) \in Nat /\ ChargeAmount \in Nat
  BY FS_CardinalityType, AmountsType
<1>2. \A w \in Withdrawals: Amount[w] \in Int
  BY DEF Amount, Rows, Row
<1>3. Sum(Amount, Withdrawals) \in Int
  BY <1>2, SumType
<1> QED
  BY <1>1, <1>3, WithdrawnIsSum

\* The books after a step that adjusts, funds or withdraws.
LEMMA FinancedStep ==
  ASSUME IsFiniteSet(credited), IsFiniteSet(Withdrawals), Rows, Columns, Financed,
         NEW da \in Int, NEW dc \in Int, NEW dw \in Int,
         adjusted' = adjusted + da,
         ChargeAmount * Cardinality(credited') = ChargeAmount * Cardinality(credited) + dc,
         Withdrawn' = Withdrawn + dw,
         sponsor'.initial = sponsor.initial + da + dc - dw
  PROVE  Financed'
<1>1. PICK b \in Openings: sponsor.initial = b + adjusted + ChargeAmount * Cardinality(credited) - Withdrawn
  BY DEF Financed
<1>2. b \in Int /\ adjusted \in Int /\ sponsor.initial \in Int
  BY OpeningsType, ColumnTypes
<1> DEFINE put == ChargeAmount * Cardinality(credited)
           out == Withdrawn
           puts == ChargeAmount * Cardinality(credited')
           outs == Withdrawn'
<1>3. put \in Int /\ out \in Int
  BY Terms
<1>4. sponsor.initial = b + adjusted + put - out /\ puts = put + dc /\ outs = out + dw
  BY <1>1
<1> HIDE DEF put, out, puts, outs
<1>5. sponsor'.initial = b + adjusted' + puts - outs
  BY <1>2, <1>3, <1>4
<1>6. sponsor'.initial = b + adjusted' + ChargeAmount * Cardinality(credited') - Withdrawn'
  BY <1>5 DEF puts, outs
<1> QED
  BY <1>6 DEF Financed

\* Withdrawn does not change while no amount does.
LEMMA WithdrawnSame ==
  ASSUME IsFiniteSet(Withdrawals), Rows, SameAmounts
  PROVE  Withdrawn' = Withdrawn
<1>1. \A w \in Withdrawals: Amount'[w] = Amount[w]
  BY DEF Amount, SameAmounts, Row
<1>2. Sum(Amount', Withdrawals) = Sum(Amount, Withdrawals)
  BY <1>1, SumSame
<1> QED
  BY <1>2, WithdrawnIsSum, WithdrawnIsSumNext

\* Money steps keep the books.
LEMMA MoneyFinanced ==
  ASSUME IsFiniteSet(Withdrawals), Columns, Books, MoneyNext
  PROVE  IsFiniteSet(credited') /\ Rows' /\ Financed' /\ sponsor'.used = sponsor.used
<1>1. IsFiniteSet(credited) /\ Rows /\ Financed /\ UNCHANGED adjusted /\ Rows'
  BY RowSteps, MoneySteps DEF Books
<1>2. adjusted' = adjusted + 0 /\ adjusted \in Int
  BY <1>1, ColumnTypes
<1>3. Cardinality(credited) \in Nat /\ ChargeAmount \in Int
  BY <1>1, FS_CardinalityType, AmountsType
<1>4. ASSUME NEW d \in Int, Credit(d)
      PROVE  sponsor'.initial = sponsor.initial + d /\ sponsor'.used = sponsor.used /\ sponsor.initial \in Int
  BY <1>4 DEF Credit, Columns, Budget
<1>5. CASE SameAmounts /\ UNCHANGED <<sponsor, credited>>
  <2>1. Withdrawn' = Withdrawn + 0
    BY <1>1, <1>5, WithdrawnSame, Terms
  <2>2. ChargeAmount * Cardinality(credited') = ChargeAmount * Cardinality(credited) + 0
    BY <1>1, <1>5, Terms
  <2>3. sponsor'.initial = sponsor.initial + 0 + 0 - 0
    BY <1>5, ColumnTypes
  <2>4. Financed'
    BY <1>1, <1>2, <2>1, <2>2, <2>3, FinancedStep
  <2> QED
    BY <1>1, <1>5, <2>4
<1>6. ASSUME SameAmounts, NEW c, c \notin credited, credited' = credited \cup {c}, Credit(ChargeAmount)
      PROVE  IsFiniteSet(credited') /\ Financed' /\ sponsor'.used = sponsor.used
  <2>1. IsFiniteSet(credited') /\ Cardinality(credited') = Cardinality(credited) + 1
    BY <1>1, <1>6, FS_AddElement
  <2>2. ChargeAmount * Cardinality(credited') = ChargeAmount * Cardinality(credited) + ChargeAmount
    <3> DEFINE n == Cardinality(credited)
    <3>1. n \in Nat
      BY <1>3
    <3> HIDE DEF n
    <3>2. ChargeAmount * (n + 1) = ChargeAmount * n + ChargeAmount
      BY <1>3, <3>1
    <3> QED
      BY <2>1, <3>2 DEF n
  <2>3. Withdrawn' = Withdrawn + 0
    BY <1>1, <1>6, WithdrawnSame, Terms
  <2>4. /\ sponsor'.initial = sponsor.initial + 0 + ChargeAmount - 0
        /\ sponsor'.used = sponsor.used
    BY <1>3, <1>4, <1>6
  <2>5. Financed'
    BY <1>1, <1>2, <1>3, <2>2, <2>3, <2>4, FinancedStep
  <2> QED
    BY <2>1, <2>4, <2>5
<1>7. ASSUME NEW w \in Withdrawals, NEW a \in Amounts, UNCHANGED credited,
             Row(w).amount = 0, Row(w)'.amount = a, Credit(-a),
             \A v \in Withdrawals \ {w}: Row(v)'.amount = Row(v).amount
      PROVE  IsFiniteSet(credited') /\ Financed' /\ sponsor'.used = sponsor.used
  <2>1. a \in Nat /\ -a \in Int
    BY AmountsType
  <2>2. \A v \in Withdrawals: Amount[v] \in Int /\ Amount'[v] \in Int
    BY <1>1 DEF Amount, Rows, Row
  <2>3. Amount[w] = 0 /\ Amount'[w] = a /\ \A v \in Withdrawals \ {w}: Amount[v] = Amount'[v]
    BY <1>7 DEF Amount, Row
  <2>4. Sum(Amount', Withdrawals) = Sum(Amount, Withdrawals) - Amount[w] + Amount'[w]
    BY <2>2, <2>3, SumUpdate
  <2>5. Withdrawn' = Withdrawn + a
    BY <1>1, <2>1, <2>3, <2>4, WithdrawnIsSum, WithdrawnIsSumNext, Terms
  <2>6. ChargeAmount * Cardinality(credited') = ChargeAmount * Cardinality(credited) + 0
    BY <1>1, <1>7, Terms
  <2>7. /\ sponsor'.initial = sponsor.initial + 0 + 0 - a
        /\ sponsor'.used = sponsor.used
    BY <1>4, <1>7, <2>1
  <2>8. Financed'
    BY <1>1, <1>2, <2>1, <2>5, <2>6, <2>7, FinancedStep
  <2> QED
    BY <1>1, <1>7, <2>7, <2>8
<1> QED
  BY <1>1, <1>5, <1>6, <1>7, RowSteps

\* Every step preserves Books.
LEMMA StepBooks ==
  ASSUME IsFiniteSet(Redemptions), IsFiniteSet(Withdrawals), TypeInv, TypeInv', EndsInv, Columns, Books,
         [Next]_vars
  PROVE  Books'
<1> USE DEF books, history
<1>1. IsFiniteSet(credited) /\ Rows /\ UsedIsRedeemed /\ Financed
  BY DEF Books
<1>2. adjusted \in Int /\ sponsor.initial \in Int
  BY ColumnTypes
<1>3. ASSUME UNCHANGED moneyVars PROVE IsFiniteSet(credited') /\ Rows' /\ SameAmounts /\ UNCHANGED credited
  BY <1>1, <1>3 DEF moneyVars, Rows, Row, SameAmounts
<1>4. ASSUME UNCHANGED moneyVars, NEW d \in Int, adjusted' = adjusted + d, sponsor'.initial = sponsor.initial + d
      PROVE  IsFiniteSet(credited') /\ Rows' /\ Financed'
  <2>1. Withdrawn' = Withdrawn + 0 /\ ChargeAmount * Cardinality(credited') = ChargeAmount * Cardinality(credited) + 0
    BY <1>1, <1>3, <1>4, WithdrawnSame, Terms
  <2>2. sponsor'.initial = sponsor.initial + d + 0 - 0
    BY <1>2, <1>4
  <2>3. Financed'
    BY <1>1, <1>4, <2>1, <2>2, FinancedStep
  <2> QED
    BY <1>3, <1>4, <2>3
<1>5. ASSUME UNCHANGED moneyVars, UNCHANGED <<redeemed, adjusted>>,
             sponsor'.used = sponsor.used, sponsor'.initial = sponsor.initial,
             \A r \in redeemed: redemption'[r].discount = redemption[r].discount
      PROVE  Books'
  <2>1. adjusted' = adjusted + 0 /\ sponsor'.initial = sponsor.initial + 0
    BY <1>2, <1>5
  <2>2. UsedIsRedeemed'
    BY <1>1, <1>5, UsedSame
  <2> QED
    BY <1>4, <1>5, <2>1, <2>2 DEF Books
<1>6. ASSUME UNCHANGED moneyVars, NEW r \in Redemptions, CreateForRider(r) \/ Supersede(r) PROVE Books'
  <2>1. UNCHANGED <<redeemed, adjusted, sponsor>>
    BY <1>6 DEF CreateForRider, Supersede
  <2>2. \A q \in redeemed: redemption'[q].discount = redemption[q].discount
    BY <1>6 DEF CreateForRider, Supersede, SetStatus, TypeInv, Special
  <2> QED
    BY <1>5, <1>6, <2>1, <2>2
<1>7. ASSUME UNCHANGED moneyVars, NEW r \in Redemptions, AttachToRideRequest(r) PROVE Books'
  <2>1. UNCHANGED <<redeemed, adjusted>> /\ Status(r) = "CREATED"
    BY <1>7 DEF AttachToRideRequest
  <2>2. sponsor'.used = sponsor.used /\ sponsor'.initial = sponsor.initial
    BY <1>7 DEF AttachToRideRequest, Columns, Budget
  <2>3. r \notin redeemed
    BY <2>1 DEF EndsInv, Settled
  <2>4. \A q \in redeemed: redemption'[q].discount = redemption[q].discount
    BY <1>7, <2>3 DEF AttachToRideRequest, TypeInv
  <2> QED
    BY <1>5, <1>7, <2>1, <2>2, <2>4
<1>8. ASSUME UNCHANGED moneyVars, NEW h \in Procs, NEW r \in Redemptions,
             RideEnds(h, r) \/ Reconcile(h, r) \/ SponsorValidate(h, r) \/ SponsorCancel(h, r) \/ Expire(h, r)
      PROVE  Books'
  <2>1. UNCHANGED <<redeemed, adjusted, sponsor>>
    BY <1>8 DEF RideEnds, Reconcile, SponsorValidate, SponsorCancel, Expire
  <2>2. \A q \in redeemed: redemption'[q].discount = redemption[q].discount
    BY <1>8 DEF RideEnds, Reconcile, SponsorValidate, SponsorCancel, Expire, SetStatus, TypeInv, Special
  <2> QED
    BY <1>5, <1>8, <2>1, <2>2
<1>9. ASSUME UNCHANGED moneyVars, NEW h \in Procs,
             \/ IssueCode(h) \/ VoidWithRide(h) \/ BillRider(h) \/ SettleRead(h) \/ SettleFailed(h)
             \/ RecordComponents(h) \/ Crash(h) \/ Error(h)
      PROVE  Books'
  <2>1. UNCHANGED <<redeemed, adjusted, sponsor>>
    BY <1>9 DEF IssueCode, VoidWithRide, BillRider, SettleRead, SettleFailed, RecordComponents, Crash, Error
  <2>2. \A q \in redeemed: redemption'[q].discount = redemption[q].discount
    BY <1>9 DEF IssueCode, VoidWithRide, BillRider, SettleRead, SettleFailed, RecordComponents, Crash, Error,
       SetStatus, TypeInv, Special
  <2> QED
    BY <1>5, <1>9, <2>1, <2>2
<1>10. ASSUME UNCHANGED moneyVars, NEW h \in Procs, ReleaseReservedBudget(h) PROVE Books'
  <2>1. UNCHANGED <<redeemed, adjusted, redemption>>
    BY <1>10 DEF ReleaseReservedBudget
  <2>2. sponsor'.used = sponsor.used /\ sponsor'.initial = sponsor.initial
    BY <1>10 DEF ReleaseReservedBudget, Columns, Budget
  <2> QED
    BY <1>5, <1>10, <2>1, <2>2
<1>11. ASSUME UNCHANGED moneyVars, NEW h \in Procs, Consume(h) PROVE Books'
  <2>1. call[h].id \in Redemptions /\ UNCHANGED adjusted
    BY <1>11 DEF Consume, At, TypeInv, HasRedemption
  <2> PICK r \in Redemptions: r = call[h].id
    BY <2>1
  <2>2. CASE Consumable(r)
    <3>1. /\ Status(r) # "REWARD_COMPLETED" /\ SetStatus(r, "REWARD_COMPLETED") /\ redeemed' = redeemed \cup {r}
          /\ sponsor' = Depleted(Consumed(Discount(r)))
          /\ sponsor.remaining >= Discount(r) /\ sponsor.reserved >= Discount(r)
      BY <1>11, <2>2 DEF Consume, Consumable
    <3>2. r \notin redeemed
      BY <3>1 DEF EndsInv, Settled
    <3>3. Discount(r) \in Nat
      BY DiscountType DEF Discount
    <3>4. sponsor'.used = sponsor.used + Discount(r) /\ sponsor'.initial = sponsor.initial
      BY <2>1, <3>1, <3>3, SettledColumns
    <3>5. \A q \in Redemptions: redemption'[q].discount = redemption[q].discount
      BY <3>1 DEF SetStatus, TypeInv, Special
    <3>6. UsedIsRedeemed'
      BY <1>1, <3>1, <3>2, <3>4, <3>5, UsedMore
    <3>7. adjusted' = adjusted + 0 /\ sponsor'.initial = sponsor.initial + 0
      BY <1>2, <2>1, <3>4
    <3> QED
      BY <1>4, <1>11, <3>6, <3>7 DEF Books
  <2>3. CASE ~ Consumable(r)
    <3>1. UNCHANGED <<redemption, redeemed, sponsor>>
      BY <1>11, <2>3 DEF Consume
    <3> QED
      BY <1>5, <1>11, <2>1, <3>1
  <2> QED
    BY <2>2, <2>3
<1>12. ASSUME UNCHANGED moneyVars, NEW delta \in Adjustments, AdjustBudget(delta) PROVE Books'
  <2>1. UNCHANGED <<redeemed, redemption>> /\ adjusted' = adjusted + delta /\ delta \in Int
    BY <1>12, OpeningsType DEF AdjustBudget
  <2>2. sponsor'.used = sponsor.used /\ sponsor'.initial = sponsor.initial + delta
    BY <1>12 DEF AdjustBudget, Columns, Budget
  <2>3. UsedIsRedeemed'
    BY <1>1, <2>1, <2>2, UsedSame
  <2> QED
    BY <1>4, <1>12, <2>1, <2>2, <2>3 DEF Books
<1>13. ASSUME UNCHANGED moneyVars, Reactivate PROVE Books'
  <2>1. UNCHANGED <<redeemed, redemption, adjusted>>
    BY <1>13 DEF Reactivate
  <2>2. sponsor'.used = sponsor.used /\ sponsor'.initial = sponsor.initial
    BY <1>13 DEF Reactivate, Columns, Budget
  <2> QED
    BY <1>5, <1>13, <2>1, <2>2
<1>14. CASE MoneyNext
  <2>1. IsFiniteSet(credited') /\ Rows' /\ Financed' /\ sponsor'.used = sponsor.used
    BY <1>14, MoneyFinanced
  <2>2. UNCHANGED <<redeemed, redemption>>
    BY <1>14, MoneyLeavesEnds DEF ends
  <2>3. UsedIsRedeemed'
    BY <1>1, <2>1, <2>2, UsedSame
  <2> QED
    BY <2>1, <2>3 DEF Books
<1>15. CASE UNCHANGED vars
  BY <1>5, <1>15 DEF vars, specialVars
<1> QED
  BY <1>6, <1>7, <1>8, <1>9, <1>10, <1>11, <1>12, <1>13, <1>14, <1>15 DEF Next, SpecialsNext, Continue

\* Books holds initially.
LEMMA InitBooks == ASSUME IsFiniteSet(Withdrawals), Init PROVE Books
<1>1. IsFiniteSet(credited) /\ Cardinality(credited) = 0
  BY FS_EmptySet DEF Init
<1>2. Rows /\ \A w \in Withdrawals: Amount[w] = 0
  BY DEF Init, Rows, Row, Amount
<1>3. UsedIsRedeemed
  <2>1. sponsor.used = 0 /\ redeemed = {}
    BY DEF Init, SpecialsInit
  <2>2. Total(Discounted, redeemed) = 0
    BY <2>1, SumEmpty, TotalIsSum
  <2> QED
    BY <2>1, <2>2 DEF UsedIsRedeemed
<1>4. Withdrawn = 0
  <2>1. Sum(Amount, Withdrawals) = 0
    BY <1>2, SumZero
  <2> QED
    BY <2>1, WithdrawnIsSum
<1>5. PICK b \in Openings: sponsor.initial = b /\ adjusted = 0
  BY DEF Init, SpecialsInit
<1>6. b \in Nat /\ ChargeAmount * Cardinality(credited) = 0
  BY <1>1, OpeningsType, AmountsType
<1>7. sponsor.initial = b + adjusted + ChargeAmount * Cardinality(credited) - Withdrawn
  BY <1>4, <1>5, <1>6
<1> QED
  BY <1>1, <1>2, <1>3, <1>7 DEF Books, Financed

\* The sponsor's books balance: what was opened with, adjusted and funded,
\* less what was withdrawn, is what remains and what redemptions used, with any
\* number of charges, withdrawals and redemptions.
THEOREM BooksAlwaysBalance ==
  ASSUME IsFiniteSet(Redemptions), IsFiniteSet(Withdrawals)
  PROVE  Spec => []BooksBalance
<1> DEFINE I == TypeInv /\ EndsInv /\ Columns /\ Books
<1>1. Init => I
  BY InitType, InitEnds, InitColumns, InitBooks
<1>2. I /\ [Next]_vars => I'
  BY StepType, StepEnds, StepColumns, StepBooks
<1>3. I => BooksBalance
  BY DEF Columns, Books, UsedIsRedeemed, Financed, BooksBalance
<1> QED
  BY <1>1, <1>2, <1>3, PTL DEF Spec

-----------------------------------------------------------------------------
(* What a withdrawal refunds.  The runs of one withdrawal walk through the  *)
(* same charges, and each finds the amounts of the runs before it, or stops.*)

\* The charges before the i-th of a list, and what R has of them.
Passed(s, i) == {s[j]: j \in 1..(i - 1)}
Off(R, s, i) == Sum(R, Passed(s, i))

NoRepeats(s) == \A i, j \in 1..Len(s): s[i] = s[j] => i = j

\* The refunds R of a withdrawal of amount A, over the charges s, where k is
\* what its last run took off each for others: they fill the charges one after
\* the other, except those that are full, and each takes all that is still to
\* be refunded or all that is left of the charge.
Fills(R, s, k, A, full) ==
  /\ Sum(R, Charges) <= A
  /\ \A b \in 1..Len(s): \A a \in 1..(b - 1): R[s[b]] > 0 => R[s[a]] > 0 \/ s[a] \in full
  /\ \A c \in Charges: R[c] > 0 => \E i \in 1..Len(s): s[i] = c
  /\ \A i \in 1..Len(s):
       R[s[i]] > 0 => R[s[i]] = A - Off(R, s, i) \/ k[s[i]] >= ChargeAmount - R[s[i]]

\* A run r that has come to the i-th charge counted what is refunded of those
\* before it.
WalkAt(i, R, s, k, A, full, r) ==
  /\ i + Len(r.todo) <= Len(s) + 1
  /\ \A j \in 1..Len(r.todo): r.todo[j] = s[i + j - 1]
  /\ r.left = A - Off(R, s, i)
  /\ \A j \in 1..(i - 1): R[s[j]] > 0 \/ s[j] \in full
  /\ \A c \in Charges: r.prior[c] <= k[c]
  /\ \A m \in 1..Len(s):
       s[m] \in r.already => R[s[m]] = A - Off(R, s, m) \/ r.prior[s[m]] >= ChargeAmount - R[s[m]]

Walks(R, s, k, A, full, r) == \E i \in 1..(Len(s) + 1): WalkAt(i, R, s, k, A, full, r)

\* A part of a sum of naturals.
LEMMA SumPart ==
  ASSUME NEW f, NEW T, IsFiniteSet(T), NEW S \in SUBSET T, \A x \in T: f[x] \in Nat
  PROVE  Sum(f, S) \in Nat /\ Sum(f, T) \in Nat /\ Sum(f, S) <= Sum(f, T)
<1> DEFINE g == [x \in T |-> IF x \in S THEN f[x] ELSE 0]
<1>1. \A x \in T: g[x] = (IF x \in S THEN f[x] ELSE 0) /\ g[x] \in Int /\ f[x] \in Int /\ g[x] <= f[x]
  OBVIOUS
<1> HIDE DEF g
<1>2. Sum(g, T) <= Sum(f, T)
  BY <1>1, SumMonotone
<1>3. Sum(g, T) = Sum(g, S)
  BY <1>1, SumSupport
<1>4. IsFiniteSet(S) /\ \A x \in S: g[x] = f[x]
  BY <1>1, FS_Subset
<1>5. Sum(g, S) = Sum(f, S)
  BY <1>4, SumSame
<1>6. Sum(f, S) \in Nat /\ Sum(f, T) \in Nat
  BY <1>4, SumType
<1> QED
  BY <1>2, <1>3, <1>5, <1>6

\* What was passed, and what is passed next.
LEMMA PassedNext ==
  ASSUME IsFiniteSet(Charges), NEW s \in Seq(Charges), NoRepeats(s), NEW i \in 1..(Len(s) + 1)
  PROVE  /\ Passed(s, i) \in SUBSET Charges /\ IsFiniteSet(Passed(s, i))
         /\ Passed(s, 1) = {}
         /\ i <= Len(s) => s[i] \in Charges /\ s[i] \notin Passed(s, i) /\ Passed(s, i + 1) = Passed(s, i) \cup {s[i]}
<1>1. Passed(s, i) \in SUBSET Charges
  BY DEF Passed
<1>2. IsFiniteSet(Passed(s, i))
  BY <1>1, FS_Subset
<1>3. ASSUME i <= Len(s) PROVE s[i] \in Charges /\ s[i] \notin Passed(s, i) /\ Passed(s, i + 1) = Passed(s, i) \cup {s[i]}
  <2>1. i \in 1..Len(s)
    BY <1>3
  <2>2. s[i] \in Charges
    BY <2>1
  <2>3. s[i] \notin Passed(s, i)
    BY <2>1 DEF Passed, NoRepeats
  <2>4. 1..((i + 1) - 1) = (1..(i - 1)) \cup {i}
    BY <2>1
  <2>5. Passed(s, i + 1) = Passed(s, i) \cup {s[i]}
    BY <2>4 DEF Passed
  <2> QED
    BY <2>2, <2>3, <2>5
<1>4. Passed(s, 1) = {}
  BY DEF Passed
<1> QED
  BY <1>1, <1>2, <1>3, <1>4

\* What a list of charges has of the refunds.
LEMMA OffNext ==
  ASSUME IsFiniteSet(Charges), NEW s \in Seq(Charges), NoRepeats(s), NEW i \in 1..(Len(s) + 1),
         NEW R \in [Charges -> Nat]
  PROVE  /\ Off(R, s, i) \in Nat /\ Sum(R, Charges) \in Nat /\ Off(R, s, i) <= Sum(R, Charges)
         /\ Off(R, s, 1) = 0
         /\ i <= Len(s) => /\ Off(R, s, i + 1) = R[s[i]] + Off(R, s, i)
                           /\ Off(R, s, i) + R[s[i]] <= Sum(R, Charges)
<1>0. \A c \in Charges: R[c] \in Nat /\ R[c] \in Int
  OBVIOUS
<1>1. Off(R, s, i) \in Nat /\ Sum(R, Charges) \in Nat /\ Off(R, s, i) <= Sum(R, Charges)
  BY <1>0, PassedNext, SumPart DEF Off
<1>2. Off(R, s, 1) = 0
  <2>1. Passed(s, 1) = {}
    BY PassedNext
  <2> QED
    BY <2>1, SumEmpty DEF Off
<1>3. ASSUME i <= Len(s)
      PROVE  /\ Off(R, s, i + 1) = R[s[i]] + Off(R, s, i)
             /\ Off(R, s, i) + R[s[i]] <= Sum(R, Charges)
  <2>1. PICK P: P = Passed(s, i)
    OBVIOUS
  <2>2. /\ IsFiniteSet(P) /\ P \in SUBSET Charges /\ s[i] \in Charges /\ s[i] \notin P
        /\ Passed(s, i + 1) = P \cup {s[i]}
    BY <1>3, <2>1, PassedNext
  <2>3. \A x \in P \cup {s[i]}: R[x] \in Int
    BY <1>0, <2>2
  <2>4. Sum(R, P \cup {s[i]}) = R[s[i]] + Sum(R, P)
    BY <2>2, <2>3, SumAdd
  <2>5. P \cup {s[i]} \in SUBSET Charges
    BY <2>2
  <2>6. Sum(R, P \cup {s[i]}) <= Sum(R, Charges)
    BY <1>0, <2>5, SumPart
  <2>7. Sum(R, P) \in Nat /\ Sum(R, Charges) \in Nat /\ R[s[i]] \in Nat
    BY <1>0, <1>1, <2>1, <2>2 DEF Off
  <2>8. Off(R, s, i) = Sum(R, P) /\ Off(R, s, i + 1) = Sum(R, P \cup {s[i]})
    BY <2>1, <2>2 DEF Off
  <2> QED
    BY <2>4, <2>6, <2>7, <2>8
<1> QED
  BY <1>1, <1>2, <1>3

\* R is updated at a charge that was not passed.
LEMMA OffElsewhere ==
  ASSUME IsFiniteSet(Charges), NEW s \in Seq(Charges), NoRepeats(s), NEW m \in 1..(Len(s) + 1),
         NEW R, NEW Q, \A d \in Passed(s, m): Q[d] = R[d]
  PROVE  Off(Q, s, m) = Off(R, s, m)
<1>1. IsFiniteSet(Passed(s, m))
  BY PassedNext
<1> QED
  BY <1>1, SumSame DEF Off

\* A charge that is neither full nor touched is not among those passed.
LEMMA NotPassed ==
  ASSUME NEW s, NEW m, NEW R, NEW full, NEW c, R[c] = 0, c \notin full,
         \A j \in 1..(m - 1): R[s[j]] > 0 \/ s[j] \in full
  PROVE  c \notin Passed(s, m)
<1> SUFFICES ASSUME c \in Passed(s, m) PROVE FALSE
  OBVIOUS
<1>1. PICK j \in 1..(m - 1): c = s[j]
  BY DEF Passed
<1> QED
  BY <1>1

\* The first of a list and the rest of it.
LEMMA Unfold ==
  ASSUME NEW t \in Seq(Charges), t # <<>>
  PROVE  /\ Len(t) \in Nat \ {0} /\ Head(t) = t[1] /\ Head(t) \in Charges
         /\ Tail(t) \in Seq(Charges) /\ Len(Tail(t)) = Len(t) - 1
         /\ \A j \in 1..Len(Tail(t)): Tail(t)[j] = t[j + 1]
<1>1. Len(t) \in Nat \ {0}
  OBVIOUS
<1>2. Head(t) = t[1] /\ Head(t) \in Charges
  BY <1>1
<1>3. Tail(t) \in Seq(Charges) /\ Len(Tail(t)) = Len(t) - 1
  BY <1>1
<1>4. ASSUME NEW j \in 1..Len(Tail(t)) PROVE Tail(t)[j] = t[j + 1]
  BY <1>1, <1>3
<1> QED
  BY <1>1, <1>2, <1>3, <1>4

\* A run goes past its charge, of which it counted what is refunded.
LEMMA WalkOn ==
  ASSUME IsFiniteSet(Charges), NEW s \in Seq(Charges), NoRepeats(s), NEW R \in [Charges -> Nat],
         NEW k, NEW A, NEW full, NEW r, NEW r2, NEW i \in 1..(Len(s) + 1), WalkAt(i, R, s, k, A, full, r),
         A \in Int, r.todo \in Seq(Charges), r.todo # <<>>,
         R[Head(r.todo)] > 0 \/ Head(r.todo) \in full,
         r2.todo = Tail(r.todo), r2.left = r.left - R[Head(r.todo)],
         r2.prior = r.prior, r2.already = r.already
  PROVE  Walks(R, s, k, A, full, r2)
<1>1. PICK n \in Nat \ {0}: n = Len(r.todo)
  BY Unfold
<1>2. PICK z \in Nat: z = Len(s)
  OBVIOUS
<1>3. Len(r2.todo) = n - 1 /\ \A j \in 1..(n - 1): r2.todo[j] = r.todo[j + 1]
  BY <1>1, Unfold
<1>4. i \in Nat /\ i <= z /\ i + 1 \in 1..(z + 1) /\ (i + 1) + (n - 1) <= z + 1
  <2>1. i + n <= z + 1
    BY <1>1, <1>2 DEF WalkAt
  <2>2. i \in 1..(z + 1)
    BY <1>2
  <2> HIDE <1>1, <1>2, <1>3
  <2> QED
    BY <2>1, <2>2
<1>5. Head(r.todo) = s[i] /\ i \in 1..Len(s)
  <2>1. r.todo[1] = s[i + 1 - 1]
    BY <1>1 DEF WalkAt
  <2>2. i + 1 - 1 = i
    BY <1>4
  <2>3. Head(r.todo) = r.todo[1]
    BY Unfold
  <2> QED
    BY <1>2, <1>4, <2>1, <2>2, <2>3
<1>6. ASSUME NEW j \in 1..(n - 1) PROVE r2.todo[j] = s[(i + 1) + j - 1]
  <2>1. j + 1 \in 1..n /\ j \in Nat
    BY <1>1
  <2>2. r2.todo[j] = r.todo[j + 1]
    BY <1>3
  <2>3. r.todo[j + 1] = s[i + (j + 1) - 1]
    BY <1>1, <2>1 DEF WalkAt
  <2>4. i + (j + 1) - 1 = (i + 1) + j - 1
    BY <1>4, <2>1
  <2> QED
    BY <2>2, <2>3, <2>4
<1>7. r2.left = A - Off(R, s, i + 1)
  <2>1. Off(R, s, i) \in Nat /\ Off(R, s, i + 1) = R[s[i]] + Off(R, s, i)
    BY <1>2, <1>4, OffNext
  <2>2. R[s[i]] \in Nat
    BY <1>5
  <2>3. r.left = A - Off(R, s, i)
    BY DEF WalkAt
  <2>4. r2.left = (A - Off(R, s, i)) - R[s[i]]
    BY <1>5, <2>3
  <2> QED
    BY <2>1, <2>2, <2>4
<1>8. ASSUME NEW j \in 1..((i + 1) - 1) PROVE R[s[j]] > 0 \/ s[j] \in full
  <2>1. j = i \/ j \in 1..(i - 1)
    BY <1>4
  <2> QED
    BY <1>5, <2>1 DEF WalkAt
<1>9. (i + 1) + Len(r2.todo) <= Len(s) + 1 /\ i + 1 \in 1..(Len(s) + 1)
  BY <1>2, <1>3, <1>4
<1>10. \A j \in 1..Len(r2.todo): r2.todo[j] = s[(i + 1) + j - 1]
  BY <1>3, <1>6
<1>11. /\ \A c \in Charges: r2.prior[c] <= k[c]
       /\ \A m \in 1..Len(s):
            s[m] \in r2.already => R[s[m]] = A - Off(R, s, m) \/ r2.prior[s[m]] >= ChargeAmount - R[s[m]]
  BY DEF WalkAt
<1>12. WalkAt(i + 1, R, s, k, A, full, r2)
  BY <1>7, <1>8, <1>9, <1>10, <1>11 DEF WalkAt
<1> QED
  BY <1>9, <1>12 DEF Walks

\* A run that gives up stays where it is.
LEMMA WalkStops ==
  ASSUME NEW s \in Seq(Charges), NEW R, NEW k, NEW A, NEW full, NEW r, NEW r2, Walks(R, s, k, A, full, r),
         r.todo \in Seq(Charges), r2.todo = <<>>, r2.left = r.left, r2.prior = r.prior, r2.already = r.already
  PROVE  Walks(R, s, k, A, full, r2)
<1>1. PICK i \in 1..(Len(s) + 1): WalkAt(i, R, s, k, A, full, r)
  BY DEF Walks
<1>2. Len(r2.todo) = 0
  OBVIOUS
<1>3. WalkAt(i, R, s, k, A, full, r2)
  BY <1>1, <1>2 DEF WalkAt
<1> QED
  BY <1>3 DEF Walks

\* Charges that become full change nothing, nor does a longer list or a last run
\* that takes off more.
LEMMA WalkLater ==
  ASSUME NEW s \in Seq(Charges), NEW s2 \in Seq(Charges), NoRepeats(s2), NEW R, NEW k, NEW k2, NEW A, NEW full,
         NEW full2, NEW r, Walks(R, s, k, A, full, r), full \subseteq full2,
         r.prior \in [Charges -> Nat], k \in [Charges -> Nat], k2 \in [Charges -> Nat],
         Len(s) <= Len(s2), \A i \in 1..Len(s): s2[i] = s[i], \A c \in Charges: k[c] <= k2[c],
         \A c \in r.already: \E i \in 1..Len(s): s[i] = c
  PROVE  Walks(R, s2, k2, A, full2, r)
<1>1. PICK i \in 1..(Len(s) + 1): WalkAt(i, R, s, k, A, full, r)
  BY DEF Walks
<1>2. i \in 1..(Len(s2) + 1) /\ Len(s) \in Nat /\ Len(s2) \in Nat /\ i \in Nat
  OBVIOUS
<1>3. \A m \in 1..(Len(s) + 1): Off(R, s2, m) = Off(R, s, m)
  <2>1. ASSUME NEW m \in 1..(Len(s) + 1) PROVE Passed(s2, m) = Passed(s, m)
    <3>1. \A j \in 1..(m - 1): s2[j] = s[j]
      BY <1>2
    <3> QED
      BY <3>1 DEF Passed
  <2> QED
    BY <2>1 DEF Off
<1>4. i + Len(r.todo) <= Len(s2) + 1
  BY <1>1, <1>2 DEF WalkAt
<1>5. ASSUME NEW j \in 1..Len(r.todo) PROVE r.todo[j] = s2[i + j - 1]
  <2>1. i + j - 1 \in 1..Len(s) /\ r.todo[j] = s[i + j - 1]
    BY <1>1, <1>2 DEF WalkAt
  <2> QED
    BY <2>1
<1>6. r.left = A - Off(R, s2, i)
  BY <1>1, <1>3 DEF WalkAt
<1>7. ASSUME NEW j \in 1..(i - 1) PROVE R[s2[j]] > 0 \/ s2[j] \in full2
  <2>1. j \in 1..Len(s)
    BY <1>2
  <2> QED
    BY <1>1, <2>1 DEF WalkAt
<1>8. ASSUME NEW c \in Charges PROVE r.prior[c] <= k2[c]
  <2>1. r.prior[c] <= k[c] /\ k[c] <= k2[c] /\ r.prior[c] \in Nat /\ k[c] \in Nat /\ k2[c] \in Nat
    BY <1>1 DEF WalkAt
  <2> QED
    BY <2>1
<1>9. ASSUME NEW m \in 1..Len(s2), s2[m] \in r.already
      PROVE  R[s2[m]] = A - Off(R, s2, m) \/ r.prior[s2[m]] >= ChargeAmount - R[s2[m]]
  <2>1. PICK n \in 1..Len(s): s[n] = s2[m]
    BY <1>9
  <2>2. n \in 1..Len(s2) /\ s2[n] = s2[m]
    BY <1>2, <2>1
  <2>3. n = m
    BY <2>2 DEF NoRepeats
  <2>4. Off(R, s2, m) = Off(R, s, m)
    BY <1>2, <1>3, <2>3
  <2>5. R[s[m]] = A - Off(R, s, m) \/ r.prior[s[m]] >= ChargeAmount - R[s[m]]
    BY <1>1, <1>9, <2>1, <2>3 DEF WalkAt
  <2> QED
    BY <2>1, <2>3, <2>4, <2>5
<1>10. WalkAt(i, R, s2, k2, A, full2, r)
  BY <1>4, <1>5, <1>6, <1>7, <1>8, <1>9 DEF WalkAt
<1> QED
  BY <1>2, <1>10 DEF Walks

\* What a last run takes off at least.
LEMMA AtLeast ==
  ASSUME NEW a \in Nat, NEW x \in Nat, NEW y \in Nat, NEW u \in Nat, y <= u, y >= a - x
  PROVE  u >= a - x
  OBVIOUS

\* The same of the refunds.
LEMMA FillsLater ==
  ASSUME NEW s \in Seq(Charges), NEW s2 \in Seq(Charges), NoRepeats(s2), NEW R \in [Charges -> Nat],
         NEW k, NEW k2, NEW A, NEW full, NEW full2, Fills(R, s, k, A, full), full \subseteq full2,
         k \in [Charges -> Nat], k2 \in [Charges -> Nat], ChargeAmount \in Nat,
         Len(s) <= Len(s2), \A i \in 1..Len(s): s2[i] = s[i], \A c \in Charges: k[c] <= k2[c]
  PROVE  Fills(R, s2, k2, A, full2)
<1>1. Len(s) \in Nat /\ Len(s2) \in Nat
  OBVIOUS
<1>2. ASSUME NEW b \in 1..Len(s2), R[s2[b]] > 0 PROVE b \in 1..Len(s) /\ s2[b] = s[b]
  <2>1. PICK c \in Charges: s2[b] = c
    BY <1>2
  <2>2. PICK n \in 1..Len(s): s[n] = c
    <3>1. R[c] > 0
      BY <1>2, <2>1
    <3> QED
      BY <3>1 DEF Fills
  <2>3. n \in 1..Len(s2) /\ s2[n] = c
    <3>1. s2[n] = c
      BY <2>2
    <3>2. n \in 1..Len(s2)
      BY <1>1
    <3> QED
      BY <3>1, <3>2
  <2>4. n = b
    BY <2>1, <2>3 DEF NoRepeats
  <2> QED
    BY <2>1, <2>2, <2>4
<1>3. \A m \in 1..(Len(s) + 1): Off(R, s2, m) = Off(R, s, m)
  <2>1. ASSUME NEW m \in 1..(Len(s) + 1) PROVE Passed(s2, m) = Passed(s, m)
    <3>1. \A j \in 1..(m - 1): s2[j] = s[j]
      BY <1>1
    <3> QED
      BY <3>1 DEF Passed
  <2> QED
    BY <2>1 DEF Off
<1>4. ASSUME NEW b \in 1..Len(s2), NEW a \in 1..(b - 1), R[s2[b]] > 0 PROVE R[s2[a]] > 0 \/ s2[a] \in full2
  <2>1. b \in 1..Len(s) /\ s2[b] = s[b]
    BY <1>2, <1>4
  <2>2. a \in 1..Len(s)
    BY <1>1, <2>1
  <2>3. R[s[a]] > 0 \/ s[a] \in full
    BY <1>4, <2>1 DEF Fills
  <2>4. s2[a] = s[a]
    BY <2>2
  <2> QED
    BY <2>3, <2>4
<1>5. ASSUME NEW c \in Charges, R[c] > 0 PROVE \E i \in 1..Len(s2): s2[i] = c
  <2>1. PICK i \in 1..Len(s): s[i] = c
    BY <1>5 DEF Fills
  <2>2. s2[i] = c
    BY <2>1
  <2>3. i \in 1..Len(s2)
    BY <1>1
  <2> QED
    BY <2>2, <2>3
<1>6. ASSUME NEW i \in 1..Len(s2), R[s2[i]] > 0
      PROVE  R[s2[i]] = A - Off(R, s2, i) \/ k2[s2[i]] >= ChargeAmount - R[s2[i]]
  <2>1. i \in 1..Len(s) /\ s2[i] = s[i] /\ R[s[i]] > 0 /\ s[i] \in Charges
    <3>1. i \in 1..Len(s) /\ s2[i] = s[i]
      BY <1>2, <1>6
    <3>2. s[i] \in Charges
      BY <3>1
    <3> QED
      BY <1>6, <3>1, <3>2
  <2>2. R[s[i]] = A - Off(R, s, i) \/ k[s[i]] >= ChargeAmount - R[s[i]]
    BY <2>1 DEF Fills
  <2>3. Off(R, s2, i) = Off(R, s, i)
    BY <1>1, <1>3, <2>1
  <2>4. k[s[i]] <= k2[s[i]] /\ k[s[i]] \in Nat /\ k2[s[i]] \in Nat /\ R[s[i]] \in Nat
    BY <2>1
  <2>5. CASE R[s[i]] = A - Off(R, s, i)
    BY <2>1, <2>3, <2>5
  <2>6. CASE k[s[i]] >= ChargeAmount - R[s[i]]
    <3>1. k2[s[i]] >= ChargeAmount - R[s[i]]
      BY <2>4, <2>6, AtLeast
    <3> QED
      BY <2>1, <3>1
  <2> QED
    BY <2>2, <2>5, <2>6
<1>7. Sum(R, Charges) <= A
  BY DEF Fills
<1> QED
  BY <1>4, <1>5, <1>6, <1>7 DEF Fills

\* Of the charges before one that has a refund, each has one or is full.
LEMMA NotBefore ==
  ASSUME NEW s, NEW R, NEW k, NEW A, NEW full, Fills(R, s, k, A, full), NEW c, R[c] = 0, c \notin full,
         NEW m \in 1..Len(s), R[s[m]] > 0
  PROVE  c \notin Passed(s, m)
<1>1. \A j \in 1..(m - 1): R[s[j]] > 0 \/ s[j] \in full
  BY DEF Fills
<1> QED
  BY <1>1, NotPassed

\* A run r has come to charge c, of which it may refund x.
HereAt(i, R, s, k, A, full, r, c, x) ==
  /\ NoRepeats(s) /\ Fills(R, s, k, A, full)
  /\ i \in 1..Len(s) /\ c = s[i] /\ WalkAt(i, R, s, k, A, full, r)
  /\ Sum(R, Charges) \in Int
  /\ x <= A - Off(R, s, i)
  /\ x > 0 => x = A - Off(R, s, i) \/ k[c] >= ChargeAmount - x

\* Refunds R become Q: x is refunded of charge c.
Granted(R, Q, c, x, full) ==
  /\ c \in Charges /\ R[c] = 0 /\ c \notin full /\ x \in Nat \ {0}
  /\ Q \in [Charges -> Nat] /\ Q[c] = x /\ \A d \in Charges \ {c}: Q[d] = R[d]

\* A run refunds the charge it has come to, which was not refunded before:
\* no later charge was, so that the withdrawal was not complete.
LEMMA Grant ==
  ASSUME IsFiniteSet(Charges), NEW s \in Seq(Charges), NEW R \in [Charges -> Nat], NEW k, NEW A, A \in Int,
         NEW full, NEW r, NEW i, NEW c, NEW x, HereAt(i, R, s, k, A, full, r, c, x),
         NEW Q, Granted(R, Q, c, x, full)
  PROVE  Fills(Q, s, k, A, full) /\ Sum(R, Charges) < A
<1>1. /\ NoRepeats(s) /\ i \in 1..Len(s) /\ c = s[i] /\ WalkAt(i, R, s, k, A, full, r)
      /\ Fills(R, s, k, A, full)
  BY DEF HereAt
<1>2. i \in 1..(Len(s) + 1) /\ Len(s) \in Nat
  BY <1>1
<1>3. c \in Charges /\ R[c] = 0 /\ c \notin full /\ Q \in [Charges -> Nat] /\ \A d \in Charges \ {c}: Q[d] = R[d]
  BY DEF Granted
<1>4. x \in Nat \ {0} /\ Q[c] = x /\ x <= A - Off(R, s, i) /\ (x = A - Off(R, s, i) \/ k[c] >= ChargeAmount - x)
  BY DEF HereAt, Granted
<1>5. \A m \in 1..Len(s): R[s[m]] > 0 => c \notin Passed(s, m)
  BY <1>1, <1>3, NotBefore
<1>6. Sum(R, Charges) = Off(R, s, i)
  <2>1. ASSUME NEW d \in Charges, d \notin Passed(s, i) PROVE R[d] = 0
    <3> SUFFICES ASSUME R[d] > 0 PROVE FALSE
      OBVIOUS
    <3>1. PICK m \in 1..Len(s): s[m] = d
      BY <1>1 DEF Fills
    <3>2. m \notin 1..(i - 1) /\ m # i
      BY <1>1, <1>3, <2>1, <3>1 DEF Passed
    <3>3. i \in 1..(m - 1)
      BY <1>1, <3>1, <3>2
    <3>4. c \in Passed(s, m)
      BY <1>1, <3>3 DEF Passed
    <3> QED
      BY <1>5, <3>1, <3>4
  <2>2. PICK P \in SUBSET Charges: P = Passed(s, i)
    BY <1>1, <1>2, PassedNext
  <2>3. \A d \in Charges: R[d] \in Int
    OBVIOUS
  <2>4. \A d \in Charges \ P: R[d] = 0
    BY <2>1, <2>2
  <2>5. Sum(R, Charges) = Sum(R, P)
    BY <2>3, <2>4, SumSupport
  <2> QED
    BY <2>2, <2>5 DEF Off
<1>7. Sum(Q, Charges) <= A /\ Sum(R, Charges) < A
  <2>1. \A d \in Charges: R[d] \in Int /\ Q[d] \in Int
    BY <1>3
  <2>2. Sum(Q, Charges) = Sum(R, Charges) - R[c] + Q[c]
    BY <1>3, <2>1, SumUpdate
  <2>3. PICK o \in Nat: o = Off(R, s, i)
    BY <1>1, <1>2, OffNext
  <2>4. Sum(R, Charges) = o /\ Sum(Q, Charges) = o - 0 + x /\ x <= A - o
    BY <1>3, <1>4, <1>6, <2>2, <2>3
  <2> QED
    BY <1>4, <2>4
<1>8. ASSUME NEW b \in 1..Len(s), NEW a \in 1..(b - 1), Q[s[b]] > 0 PROVE Q[s[a]] > 0 \/ s[a] \in full
  <2>1. a \in 1..Len(s) /\ s[a] \in Charges /\ s[b] \in Charges
    <3>1. a \in 1..Len(s)
      BY <1>2
    <3>2. s[a] \in Charges /\ s[b] \in Charges
      BY <3>1
    <3> QED
      BY <3>1, <3>2
  <2>2. ASSUME R[s[a]] > 0 PROVE Q[s[a]] > 0
    <3>1. s[a] # c
      <4>1. R[s[a]] # 0
        BY <2>2
      <4> QED
        BY <1>3, <4>1
    <3> QED
      BY <1>3, <2>1, <2>2, <3>1
  <2>3. CASE b = i
    BY <1>1, <2>2, <2>3 DEF WalkAt
  <2>4. CASE b # i
    <3>1. s[b] # c
      BY <1>1, <2>4 DEF NoRepeats
    <3>2. R[s[b]] > 0
      BY <1>3, <1>8, <2>1, <3>1
    <3> QED
      BY <1>1, <2>2, <3>2 DEF Fills
  <2> QED
    BY <2>3, <2>4
<1>9. ASSUME NEW d \in Charges, Q[d] > 0 PROVE \E m \in 1..Len(s): s[m] = d
  <2>1. CASE d = c
    BY <1>1, <2>1
  <2>2. CASE d # c
    <3>1. R[d] > 0
      BY <1>3, <1>9, <2>2
    <3> QED
      BY <1>1, <3>1 DEF Fills
  <2> QED
    BY <2>1, <2>2
<1>10. ASSUME NEW m \in 1..(Len(s) + 1), c \notin Passed(s, m) PROVE Off(Q, s, m) = Off(R, s, m)
  <2>1. \A d \in Passed(s, m): Q[d] = R[d]
    BY <1>1, <1>3, <1>10, PassedNext
  <2> QED
    BY <1>1, <2>1, OffElsewhere
<1>11. ASSUME NEW m \in 1..Len(s), Q[s[m]] > 0
       PROVE  Q[s[m]] = A - Off(Q, s, m) \/ k[s[m]] >= ChargeAmount - Q[s[m]]
  <2>1. m \in 1..(Len(s) + 1) /\ s[m] \in Charges
    BY <1>2
  <2>2. CASE m = i
    <3>1. c \notin Passed(s, i)
      BY <1>1, <1>2, PassedNext
    <3>2. Off(Q, s, i) = Off(R, s, i)
      BY <1>2, <1>10, <3>1
    <3> QED
      BY <1>1, <1>4, <2>2, <3>2
  <2>3. CASE m # i
    <3>1. s[m] # c
      BY <1>1, <2>3 DEF NoRepeats
    <3>2. R[s[m]] > 0 /\ Q[s[m]] = R[s[m]]
      BY <1>3, <1>11, <2>1, <3>1
    <3>3. Off(Q, s, m) = Off(R, s, m)
      BY <1>5, <1>10, <2>1, <3>2
    <3>4. R[s[m]] = A - Off(R, s, m) \/ k[s[m]] >= ChargeAmount - R[s[m]]
      BY <1>1, <3>2 DEF Fills
    <3> QED
      BY <3>2, <3>3, <3>4
  <2> QED
    BY <2>2, <2>3
<1> QED
  BY <1>7, <1>8, <1>9, <1>11 DEF Fills

\* The other runs of the withdrawal have not come to that charge.
LEMMA GrantWalks ==
  ASSUME IsFiniteSet(Charges), NEW s \in Seq(Charges), NoRepeats(s), NEW R \in [Charges -> Nat],
         NEW k, NEW A, NEW full, NEW r, Walks(R, s, k, A, full, r), Fills(R, s, k, A, full),
         NEW c \in Charges, R[c] = 0, c \notin full, \A d \in r.already: R[d] > 0,
         NEW Q \in [Charges -> Nat], \A d \in Charges \ {c}: Q[d] = R[d]
  PROVE  Walks(Q, s, k, A, full, r)
<1>1. PICK i \in 1..(Len(s) + 1): WalkAt(i, R, s, k, A, full, r)
  BY DEF Walks
<1>2. Len(s) \in Nat
  OBVIOUS
<1>3. c \notin Passed(s, i)
  <2>1. \A j \in 1..(i - 1): R[s[j]] > 0 \/ s[j] \in full
    BY <1>1 DEF WalkAt
  <2> QED
    BY <2>1, NotPassed
<1>4. Off(Q, s, i) = Off(R, s, i)
  <2>1. \A d \in Passed(s, i): Q[d] = R[d]
    BY <1>3, PassedNext
  <2> QED
    BY <2>1, OffElsewhere
<1>5. ASSUME NEW j \in 1..(i - 1) PROVE Q[s[j]] > 0 \/ s[j] \in full
  <2>1. j \in 1..Len(s)
    BY <1>2
  <2>2. s[j] \in Charges
    BY <2>1
  <2>3. s[j] # c
    BY <1>3 DEF Passed
  <2>4. R[s[j]] > 0 \/ s[j] \in full
    BY <1>1 DEF WalkAt
  <2> QED
    BY <2>2, <2>3, <2>4
<1>6. ASSUME NEW m \in 1..Len(s), s[m] \in r.already
      PROVE  Q[s[m]] = A - Off(Q, s, m) \/ r.prior[s[m]] >= ChargeAmount - Q[s[m]]
  <2>1. m \in 1..(Len(s) + 1) /\ s[m] \in Charges
    BY <1>2
  <2>2. R[s[m]] > 0
    BY <1>6
  <2>3. s[m] # c /\ c \notin Passed(s, m)
    BY <2>2, NotBefore
  <2>6. \A d \in Passed(s, m): Q[d] = R[d]
    BY <2>1, <2>3, PassedNext
  <2>4. Q[s[m]] = R[s[m]] /\ Off(Q, s, m) = Off(R, s, m)
    BY <2>1, <2>3, <2>6, OffElsewhere
  <2>5. R[s[m]] = A - Off(R, s, m) \/ r.prior[s[m]] >= ChargeAmount - R[s[m]]
    BY <1>1, <1>6 DEF WalkAt
  <2> QED
    BY <2>4, <2>5
<1>7. WalkAt(i, Q, s, k, A, full, r)
  <2>1. /\ i + Len(r.todo) <= Len(s) + 1
        /\ \A j \in 1..Len(r.todo): r.todo[j] = s[i + j - 1]
        /\ r.left = A - Off(Q, s, i)
        /\ \A d \in Charges: r.prior[d] <= k[d]
    BY <1>1, <1>4 DEF WalkAt
  <2> QED
    BY <1>5, <1>6, <2>1 DEF WalkAt
<1> QED
  BY <1>7 DEF Walks

\* A run that is through has refunded the whole amount.
LEMMA WalkedThrough ==
  ASSUME IsFiniteSet(Charges), NEW s \in Seq(Charges), NoRepeats(s), NEW R \in [Charges -> Nat],
         NEW k, NEW A, A \in Int, NEW full, NEW r, Walks(R, s, k, A, full, r), Fills(R, s, k, A, full), r.left <= 0
  PROVE  Sum(R, Charges) = A
<1>1. PICK i \in 1..(Len(s) + 1): WalkAt(i, R, s, k, A, full, r)
  BY DEF Walks
<1>2. Off(R, s, i) \in Nat /\ Sum(R, Charges) \in Nat /\ Off(R, s, i) <= Sum(R, Charges)
  BY OffNext
<1>3. r.left = A - Off(R, s, i) /\ Sum(R, Charges) <= A
  BY <1>1 DEF WalkAt, Fills
<1> QED
  BY <1>2, <1>3

\* A longer list of charges starts with the shorter one.
LEMMA PrefixIs ==
  ASSUME NEW s \in Seq(Charges), NEW t \in Seq(Charges), IsPrefix(s, t)
  PROVE  Len(s) <= Len(t) /\ \A i \in 1..Len(s): t[i] = s[i]
<1>1. Len(s) <= Len(t) /\ SubSeq(s, 1, Len(s)) = SubSeq(t, 1, Len(s))
  BY DEF IsPrefix
<1>2. ASSUME NEW i \in 1..Len(s) PROVE t[i] = s[i]
  <2>1. SubSeq(s, 1, Len(s))[i] = s[i] /\ SubSeq(t, 1, Len(s))[i] = t[i]
    BY <1>1
  <2> QED
    BY <1>1, <2>1
<1> QED
  BY <1>1, <1>2

\* The candidates are charges, each of them once.
LEMMA CandidatesType ==
  ASSUME IsFiniteSet(Charges), NEW s \in Candidates
  PROVE  s \in Seq(Charges) /\ NoRepeats(s)
<1> DEFINE S == {c \in Charges: payment[c].status = "SUCCEEDED"}
<1>1. S \in SUBSET Charges
  OBVIOUS
<1> HIDE DEF S
<1>2. IsFiniteSet(S)
  BY <1>1, FS_Subset
<1>3. PICK n \in Nat: n = Cardinality(S)
  BY <1>2, FS_CardinalityType
<1>4. s \in [1..n -> S] /\ \A i, j \in 1..n: i # j => s[i] # s[j]
  BY <1>3 DEF Candidates, S, SetToSeqs
<1>5. s \in [1..n -> Charges]
  BY <1>1, <1>4
<1>6. s \in Seq(Charges) /\ Len(s) = n
  BY <1>5
<1> QED
  BY <1>4, <1>6 DEF NoRepeats

\* A run starts at the first charge.
LEMMA WalkStarts ==
  ASSUME IsFiniteSet(Charges), NEW s \in Seq(Charges), NoRepeats(s), NEW R \in [Charges -> Nat],
         NEW k \in [Charges -> Nat], NEW A, A \in Int, NEW full, NEW r, Fills(R, s, k, A, full),
         r.todo = s, r.left = A, r.prior = k, \A d \in r.already: R[d] > 0
  PROVE  Walks(R, s, k, A, full, r)
<1>1. PICK z \in Nat: z = Len(s)
  OBVIOUS
<1>2. 1 \in 1..(Len(s) + 1) /\ 1 + Len(r.todo) <= Len(s) + 1
  BY <1>1
<1>3. \A j \in 1..Len(r.todo): r.todo[j] = s[1 + j - 1]
  <2> SUFFICES ASSUME NEW j \in 1..Len(s) PROVE s[j] = s[1 + j - 1]
    OBVIOUS
  <2>1. 1 + j - 1 = j
    BY <1>1
  <2> QED
    BY <2>1
<1>4. r.left = A - Off(R, s, 1)
  BY <1>2, OffNext
<1>5. \A j \in 1..(1 - 1): R[s[j]] > 0 \/ s[j] \in full
  OBVIOUS
<1>6. \A c \in Charges: r.prior[c] <= k[c]
  OBVIOUS
<1>7. \A m \in 1..Len(s):
        s[m] \in r.already => R[s[m]] = A - Off(R, s, m) \/ r.prior[s[m]] >= ChargeAmount - R[s[m]]
  BY DEF Fills
<1>8. WalkAt(1, R, s, k, A, full, r)
  BY <1>2, <1>3, <1>4, <1>5, <1>6, <1>7 DEF WalkAt
<1> QED
  BY <1>2, <1>8 DEF Walks

\* What a run counts of a charge (RefundAmount).
Counts(r, c) == IF ChargeAmount - r.prior[c] > 0 THEN Smaller(ChargeAmount - r.prior[c], r.left) ELSE 0

\* What a run counts of a charge it knows is what is refunded of it.
LEMMA KnownIsRefunded ==
  ASSUME IsFiniteSet(Charges), NEW s \in Seq(Charges), NoRepeats(s), NEW R \in [Charges -> Nat],
         NEW k, NEW A, A \in Int, NEW full, NEW r, NEW i, i \in 1..Len(s),
         WalkAt(i, R, s, k, A, full, r), Fills(R, s, k, A, full)
  PROVE  \E l \in Int:
           /\ l = r.left /\ R[s[i]] <= l
           /\ s[i] \in r.already => R[s[i]] = l \/ r.prior[s[i]] >= ChargeAmount - R[s[i]]
<1>1. i \in 1..(Len(s) + 1) /\ i <= Len(s) /\ s[i] \in Charges
  OBVIOUS
<1>2. Off(R, s, i) \in Nat /\ Sum(R, Charges) \in Nat /\ Off(R, s, i) + R[s[i]] <= Sum(R, Charges)
  BY <1>1, OffNext
<1>3. r.left = A - Off(R, s, i) /\ Sum(R, Charges) <= A
  BY DEF WalkAt, Fills
<1>4. s[i] \in r.already => R[s[i]] = r.left \/ r.prior[s[i]] >= ChargeAmount - R[s[i]]
  BY <1>3 DEF WalkAt
<1>5. R[s[i]] \in Nat
  BY <1>1
<1>6. r.left \in Int /\ R[s[i]] <= r.left
  BY <1>2, <1>3, <1>5
<1> QED
  BY <1>4, <1>6

LEMMA CountsIs ==
  ASSUME ChargeAmount \in Nat, NEW r, NEW c, NEW z \in Nat, NEW p \in Nat, NEW l, l \in Int,
         p = r.prior[c], l = r.left, z > 0, z <= l, z = l \/ p >= ChargeAmount - z, p <= ChargeAmount - z
  PROVE  Counts(r, c) = z
<1>1. Counts(r, c) = IF ChargeAmount - p > 0 THEN Smaller(ChargeAmount - p, l) ELSE 0
  BY DEF Counts
<1>2. (IF ChargeAmount - p > 0 THEN Smaller(ChargeAmount - p, l) ELSE 0) = z
  BY DEF Smaller
<1> QED
  BY <1>1, <1>2

\* A run finds its charge in the list.
LEMMA WalkHead ==
  ASSUME NEW s \in Seq(Charges), NEW R, NEW k, NEW A, NEW full, NEW r, NEW i \in 1..(Len(s) + 1),
         WalkAt(i, R, s, k, A, full, r), r.todo \in Seq(Charges), r.todo # <<>>
  PROVE  i \in 1..Len(s) /\ s[i] = Head(r.todo)
<1>1. PICK n \in Nat \ {0}: n = Len(r.todo)
  BY Unfold
<1>2. PICK z \in Nat: z = Len(s)
  OBVIOUS
<1>3. i + n <= z + 1 /\ i \in 1..(z + 1)
  BY <1>1, <1>2 DEF WalkAt
<1>4. i \in 1..z /\ i + 1 - 1 = i
  <2> HIDE <1>1, <1>2
  <2> QED
    BY <1>3
<1>5. r.todo[1] = s[i + 1 - 1]
  BY <1>1 DEF WalkAt
<1>6. Head(r.todo) = r.todo[1]
  BY Unfold
<1> QED
  BY <1>2, <1>4, <1>5, <1>6

-----------------------------------------------------------------------------
(* What withdrawals take off a charge together.                            *)

Of(f, c) == [w \in Withdrawals |-> f[w][c]]
TakenOf(f, c) == Sum(Of(f, c), Withdrawals)

\* Taken is a sum.
LEMMA TakenIsSum == ASSUME NEW c PROVE Taken(c) = TakenOf(refund, c)
  BY TotalIsSum DEF Taken, TakenOf, Of

\* One of its terms.
LEMMA TakenType ==
  ASSUME IsFiniteSet(Withdrawals), NEW f, f \in [Withdrawals -> [Charges -> Nat]], NEW c \in Charges
  PROVE  TakenOf(f, c) \in Nat /\ \A w \in Withdrawals: f[w][c] <= TakenOf(f, c)
<1>1. PICK g: g = Of(f, c)
  OBVIOUS
<1>2. \A w \in Withdrawals: g[w] = f[w][c] /\ g[w] \in Nat
  BY <1>1 DEF Of
<1>3. Sum(g, Withdrawals) \in Nat
  BY <1>2, SumType
<1>4. \A w \in Withdrawals: g[w] <= Sum(g, Withdrawals)
  BY <1>2, SumBounds
<1> QED
  BY <1>1, <1>2, <1>3, <1>4 DEF TakenOf

\* q has one more refund than f, of amount x.
AddsTo(f, q, w, c, x) ==
  /\ q \in [Withdrawals -> [Charges -> Nat]]
  /\ q[w][c] = f[w][c] + x
  /\ \A d \in Charges \ {c}: q[w][d] = f[w][d]
  /\ \A v \in Withdrawals \ {w}: q[v] = f[v]

LEMMA AddsOne ==
  ASSUME NEW f, f \in [Withdrawals -> [Charges -> Nat]], NEW w \in Withdrawals, NEW c \in Charges, NEW x \in Nat,
         NEW q, q = [f EXCEPT ![w][c] = @ + x]
  PROVE  AddsTo(f, q, w, c, x)
<1>1. q \in [Withdrawals -> [Charges -> Nat]]
  OBVIOUS
<1>2. /\ q[w][c] = f[w][c] + x
      /\ \A d \in Charges \ {c}: q[w][d] = f[w][d]
      /\ \A v \in Withdrawals \ {w}: q[v] = f[v]
  OBVIOUS
<1> QED
  BY <1>1, <1>2 DEF AddsTo

\* It adds to what is taken off the charge.
LEMMA TakenMore ==
  ASSUME IsFiniteSet(Withdrawals), NEW f, f \in [Withdrawals -> [Charges -> Nat]], NEW w \in Withdrawals,
         NEW c \in Charges, NEW x, x \in Nat, NEW q, AddsTo(f, q, w, c, x)
  PROVE  TakenOf(q, c) = TakenOf(f, c) + x
<1>1. q \in [Withdrawals -> [Charges -> Nat]]
  BY DEF AddsTo
<1>2. /\ q[w][c] = f[w][c] + x
      /\ \A d \in Charges \ {c}: q[w][d] = f[w][d]
      /\ \A v \in Withdrawals \ {w}: q[v] = f[v]
  BY DEF AddsTo
<1>3. TakenOf(q, c) = TakenOf(f, c) + x
  <2>1. PICK g, e: g = Of(f, c) /\ e = Of(q, c)
    OBVIOUS
  <2>2. \A v \in Withdrawals: g[v] = f[v][c] /\ g[v] \in Int /\ e[v] = q[v][c] /\ e[v] \in Int
    BY <1>1, <2>1 DEF Of
  <2>3. \A v \in Withdrawals \ {w}: g[v] = e[v]
    BY <1>2, <2>2
  <2>4. Sum(e, Withdrawals) = Sum(g, Withdrawals) - g[w] + e[w]
    BY <2>2, <2>3, SumUpdate
  <2>5. e[w] = g[w] + x /\ g[w] \in Int
    BY <1>2, <2>2
  <2>6. Sum(g, Withdrawals) \in Int
    BY <2>2, SumType
  <2>7. Sum(e, Withdrawals) = Sum(g, Withdrawals) + x
    BY <2>4, <2>5, <2>6
  <2> QED
    BY <2>1, <2>7 DEF TakenOf
<1> QED
  BY <1>3

\* And to nothing else.
LEMMA TakenSame ==
  ASSUME NEW f, NEW w \in Withdrawals, NEW c \in Charges, NEW x, NEW q, AddsTo(f, q, w, c, x),
         NEW d \in Charges, d # c
  PROVE  TakenOf(q, d) = TakenOf(f, d)
<1>1. /\ \A e \in Charges \ {c}: q[w][e] = f[w][e]
      /\ \A v \in Withdrawals \ {w}: q[v] = f[v]
  BY DEF AddsTo
<1>2. \A v \in Withdrawals: q[v][d] = f[v][d]
  BY <1>1
<1>3. Of(q, d) = Of(f, d)
  BY <1>2 DEF Of
<1> QED
  BY <1>3 DEF TakenOf

\* Each withdrawal that names a charge took something off it.
LEMMA PriorBound ==
  ASSUME IsFiniteSet(Withdrawals), NEW f, f \in [Withdrawals -> [Charges -> Nat]], NEW c \in Charges,
         NEW w \in Withdrawals, \A v \in Withdrawals: c \in withdrawal[v].ids => f[v][c] > 0
  PROVE  Prior(w, c) \in Nat /\ Prior(w, c) <= TakenOf(f, c) - f[w][c]
<1> DEFINE others == Withdrawals \ {w}
           A == {v \in Withdrawals \ {w}: withdrawal[v].status = "COMPLETED" /\ c \in withdrawal[v].ids}
           one == [v \in others |-> IF v \in A THEN 1 ELSE 0]
<1>1. PICK g: g = Of(f, c)
  OBVIOUS
<1>2. \A v \in Withdrawals: g[v] = f[v][c] /\ g[v] \in Nat /\ g[v] \in Int
  BY <1>1 DEF Of
<1>3. A \in SUBSET others /\ Prior(w, c) = Cardinality(A)
  BY DEF Prior
<1>4. \A v \in others: one[v] = (IF v \in A THEN 1 ELSE 0)
  OBVIOUS
<1>5. \A v \in A: g[v] > 0
  BY <1>2
<1>6. others \in SUBSET Withdrawals /\ w \in Withdrawals
  OBVIOUS
<1> HIDE DEF A, one
<1>7. IsFiniteSet(others)
  BY <1>6, FS_Subset
<1>8. Sum(g, Withdrawals) = g[w] + Sum(g, others)
  <2>1. \A v \in Withdrawals: g[v] \in Int
    BY <1>2
  <2>2. Sum(g, Withdrawals) = g[w] + Sum(g, Withdrawals \ {w})
    BY <2>1, SumRemove
  <2> QED
    BY <2>2
<1>9. Sum(one, others) = Cardinality(A)
  <2> HIDE DEF others
  <2> QED
    BY <1>3, <1>4, <1>7, SumCount
<1>10. \A v \in others: one[v] \in Int /\ g[v] \in Int /\ one[v] <= g[v]
  BY <1>2, <1>4, <1>5
<1>11. Sum(one, others) <= Sum(g, others)
  <2> HIDE DEF others
  <2> QED
    BY <1>7, <1>10, SumMonotone
<1>12. Cardinality(A) \in Nat
  <2> HIDE DEF others
  <2>1. IsFiniteSet(A)
    BY <1>3, <1>7, FS_Subset
  <2> QED
    BY <2>1, FS_CardinalityType
<1>13. Sum(g, others) \in Nat
  <2>1. \A v \in others: g[v] \in Nat
    BY <1>2
  <2> HIDE DEF others
  <2> QED
    BY <1>7, <2>1, SumType
<1>14. PICK n \in Nat, t \in Nat, z \in Nat: n = Cardinality(A) /\ t = Sum(g, others) /\ z = g[w]
  BY <1>2, <1>12, <1>13
<1>15. Prior(w, c) = n /\ n <= t
  BY <1>3, <1>9, <1>11, <1>14
<1>16. TakenOf(f, c) = z + t /\ f[w][c] = z
  BY <1>1, <1>2, <1>8, <1>14 DEF TakenOf
<1> QED
  BY <1>15, <1>16

-----------------------------------------------------------------------------
(* The runs and the rows they work on.                                     *)

Runs == [at: {"idle", "credit", "link", "unlink", "plan", "refund"}, id: Charges \cup Withdrawals \cup {None},
         already: SUBSET Charges, todo: Seq(Charges), prior: [Charges -> Nat], left: Int,
         applied: SUBSET Charges]

WithdrawalRows == [status: {"none", "PENDING", "COMPLETED", "FAILED"}, amount: Nat, ids: SUBSET Charges,
                   thisWeek: BOOLEAN]

Working(r) == r.at \in {"plan", "refund"}

RunTypes ==
  /\ run \in [Procs -> Runs]
  /\ \A h \in Procs: Working(run[h]) => run[h].id \in Withdrawals
  /\ withdrawal \in [Withdrawals -> WithdrawalRows]
  /\ refund \in [Withdrawals -> [Charges -> Nat]]
  /\ declined \in [Withdrawals -> SUBSET Charges]
  /\ seen \in [Withdrawals -> Seq(Charges)]
  /\ \A w \in Withdrawals: NoRepeats(seen[w])
  /\ reckoned \in [Withdrawals -> [Charges -> Nat]]

\* An idle run has its type.
LEMMA IdleType == Idle \in Runs
<1>1. <<>> \in Seq(Charges)
  OBVIOUS
<1> QED
  BY <1>1 DEF Idle, Runs

\* A run has the fields of its type.
LEMMA RunFields ==
  ASSUME RunTypes, NEW h \in Procs
  PROVE  /\ run[h] \in Runs
         /\ run[h].todo \in Seq(Charges) /\ run[h].prior \in [Charges -> Nat] /\ run[h].left \in Int
         /\ run[h].already \subseteq Charges /\ run[h].applied \subseteq Charges
         /\ Working(run[h]) => run[h].id \in Withdrawals
  BY DEF RunTypes, Runs

\* A step of one run.
LEMMA OneRun ==
  ASSUME RunTypes, NEW h \in Procs, NEW r \in Runs, Working(r) => r.id \in Withdrawals,
         run' = [run EXCEPT ![h] = r]
  PROVE  /\ run' \in [Procs -> Runs]
         /\ \A g \in Procs: Working(run'[g]) => run'[g].id \in Withdrawals
         /\ run'[h] = r /\ \A g \in Procs \ {h}: run'[g] = run[g]
<1>1. run'[h] = r /\ (\A g \in Procs \ {h}: run'[g] = run[g]) /\ run' \in [Procs -> Runs]
  BY DEF RunTypes
<1>2. ASSUME NEW g \in Procs, Working(run'[g]) PROVE run'[g].id \in Withdrawals
  <2>1. CASE g = h
    BY <1>1, <1>2, <2>1
  <2>2. CASE g # h
    <3>1. run'[g] = run[g]
      BY <1>1, <2>2
    <3> QED
      BY <1>2, <3>1 DEF RunTypes
  <2> QED
    BY <2>1, <2>2
<1> QED
  BY <1>1, <1>2

\* What a run becomes when it goes past a charge, and when it gives up.
Past(r, amount) ==
  [r EXCEPT !.todo = Tail(@), !.left = @ - amount,
            !.applied = IF amount > 0 THEN @ \cup {Head(r.todo)} ELSE @]

GivesUp(r) == [r EXCEPT !.todo = <<>>]

\* Their types and fields.
LEMMA PastFields ==
  ASSUME NEW r \in Runs, r.todo # <<>>, NEW x \in Int
  PROVE  LET q == Past(r, x) IN
         /\ q \in Runs /\ q.at = r.at /\ q.id = r.id /\ q.already = r.already /\ q.prior = r.prior
         /\ q.todo = Tail(r.todo) /\ q.left = r.left - x
         /\ q.applied = IF x > 0 THEN r.applied \cup {Head(r.todo)} ELSE r.applied
<1>1. r.todo \in Seq(Charges) /\ r.left \in Int /\ r.applied \subseteq Charges
  BY DEF Runs
<1>2. Tail(r.todo) \in Seq(Charges) /\ Head(r.todo) \in Charges
  BY <1>1, Unfold
<1> DEFINE a == IF x > 0 THEN r.applied \cup {Head(r.todo)} ELSE r.applied
           t == Tail(r.todo)
           l == r.left - x
<1>3. a \in SUBSET Charges /\ t \in Seq(Charges) /\ l \in Int
  BY <1>1, <1>2
<1>4. Past(r, x) = [at |-> r.at, id |-> r.id, already |-> r.already, todo |-> t, prior |-> r.prior,
                    left |-> l, applied |-> a]
  <2>1. Past(r, x) = [[[r EXCEPT !.todo = t] EXCEPT !.left = l] EXCEPT !.applied = a]
    BY DEF Past, Runs
  <2> HIDE DEF a, t, l
  <2> QED
    BY <2>1 DEF Runs
<1> HIDE DEF a, t, l
<1>5. /\ Past(r, x) \in Runs
      /\ Past(r, x).at = r.at /\ Past(r, x).id = r.id /\ Past(r, x).already = r.already
      /\ Past(r, x).prior = r.prior /\ Past(r, x).todo = t /\ Past(r, x).left = l /\ Past(r, x).applied = a
  BY <1>3, <1>4 DEF Runs
<1> QED
  BY <1>5 DEF a, t, l

\* The same of a run that gives up.
LEMMA GivesUpFields ==
  ASSUME NEW r \in Runs
  PROVE  LET q == GivesUp(r) IN
         /\ q \in Runs /\ q.at = r.at /\ q.id = r.id /\ q.already = r.already /\ q.prior = r.prior
         /\ q.todo = <<>> /\ q.left = r.left /\ q.applied = r.applied
<1>1. <<>> \in Seq(Charges)
  OBVIOUS
<1>2. GivesUp(r) = [at |-> r.at, id |-> r.id, already |-> r.already, todo |-> <<>>, prior |-> r.prior,
                    left |-> r.left, applied |-> r.applied]
  BY DEF GivesUp, Runs
<1> QED
  BY <1>1, <1>2 DEF Runs

\* What a run counts of its charge is a natural number, positive unless the
\* charge is used up.
LEMMA AmountType ==
  ASSUME RunTypes, NEW h \in Procs, NEW c \in Charges, run[h].left > 0
  PROVE  /\ RefundAmount(h, c) \in Nat
         /\ RefundAmount(h, c) <= run[h].left
         /\ RefundAmount(h, c) = 0 => run[h].prior[c] >= ChargeAmount
         /\ RefundAmount(h, c) > 0 => RefundAmount(h, c) = run[h].left \/ RefundAmount(h, c) = ChargeAmount - run[h].prior[c]
         /\ RefundAmount(h, c) = Counts(run[h], c)
<1>1. run[h].left \in Int /\ run[h].prior[c] \in Nat /\ ChargeAmount \in Nat
  BY RunFields, AmountsType
<1> QED
  BY <1>1 DEF RefundAmount, Refundable, Smaller, Counts

\* A run that has come to a charge goes past it.
LEMMA CountedIsPast ==
  ASSUME RunTypes, NEW h \in Procs, NEW c \in Charges, NextCharge(h, c), NEW x, Counted(h, c, x)
  PROVE  run' = [run EXCEPT ![h] = Past(run[h], x)]
<1>1. c = Head(run[h].todo) /\ run \in [Procs -> Runs]
  BY DEF NextCharge, RunTypes
<1> QED
  BY <1>1 DEF Counted, Past

\* The charges of which nothing is left, and those a withdrawal gets nothing of.
FullOf(f) == {c \in Charges: TakenOf(f, c) >= ChargeAmount}

LostOf(f, d, w) == FullOf(f) \cup d[w]

\* A withdrawal nobody asked for.
NotAsked(w) ==
  /\ \A c \in Charges: refund[w][c] = 0
  /\ seen[w] = <<>> /\ withdrawal[w].ids = {} /\ withdrawal[w].amount = 0
  /\ \A h \in Procs: Working(run[h]) => run[h].id # w

Unasked == \A w \in Withdrawals: withdrawal[w].status = "none" => NotAsked(w)

\* What a run knows to be refunded is, and what it takes off for others they took.
RunTaken(f, r) ==
  /\ \A c \in r.already \cup r.applied: f[r.id][c] > 0
  /\ \A c \in Charges: r.prior[c] <= TakenOf(f, c) - f[r.id][c]

TakenInv ==
  /\ \A c \in Charges: TakenOf(refund, c) <= ChargeAmount
  /\ \A w \in Withdrawals: \A c \in withdrawal[w].ids: refund[w][c] > 0
  /\ \A w \in Withdrawals: \A c \in Charges: reckoned[w][c] <= TakenOf(refund, c) - refund[w][c]
  /\ \A h \in Procs: run[h].at = "refund" => RunTaken(refund, run[h])

\* A withdrawal, and a run of it, whose charges were never missed.
Filled(f, d, s, k, rows, w) ==
  /\ Fills(f[w], s[w], k[w], rows[w].amount, LostOf(f, d, w))
  /\ rows[w].status = "COMPLETED" => Sum(f[w], Charges) = rows[w].amount

Walking(f, d, s, k, rows, r) == Walks(f[r.id], s[r.id], k[r.id], rows[r.id].amount, LostOf(f, d, r.id), r)

FillInv ==
  /\ \A w \in Withdrawals \ blind: Filled(refund, declined, seen, reckoned, withdrawal, w)
  /\ \A h \in Procs:
       run[h].at = "refund" /\ run[h].id \notin blind => Walking(refund, declined, seen, reckoned, withdrawal, run[h])

\* Initially nothing is refunded.
LEMMA InitRefunds ==
  ASSUME IsFiniteSet(Charges), IsFiniteSet(Withdrawals), Init
  PROVE  RunTypes /\ Unasked /\ TakenInv /\ FillInv
<1>1. /\ run = [h \in Procs |-> Idle] /\ seen = [w \in Withdrawals |-> <<>>] /\ blind = {}
      /\ withdrawal = [w \in Withdrawals |-> [status |-> "none", amount |-> 0, ids |-> {}, thisWeek |-> FALSE]]
      /\ refund = [w \in Withdrawals |-> [c \in Charges |-> 0]]
      /\ declined = [w \in Withdrawals |-> {}]
      /\ reckoned = [w \in Withdrawals |-> [c \in Charges |-> 0]]
  BY DEF Init
<1>2. \A h \in Procs: run[h].at = "idle"
  BY <1>1 DEF Idle
<1>3. RunTypes
  <2>1. run \in [Procs -> Runs]
    BY <1>1, IdleType
  <2>2. <<>> \in Seq(Charges) /\ NoRepeats(<<>>)
    BY DEF NoRepeats
  <2>3. seen \in [Withdrawals -> Seq(Charges)] /\ \A w \in Withdrawals: NoRepeats(seen[w])
    BY <1>1, <2>2
  <2>4. withdrawal \in [Withdrawals -> WithdrawalRows]
    BY <1>1 DEF WithdrawalRows
  <2>5. refund \in [Withdrawals -> [Charges -> Nat]] /\ reckoned \in [Withdrawals -> [Charges -> Nat]]
    BY <1>1
  <2>6. declined \in [Withdrawals -> SUBSET Charges]
    BY <1>1
  <2> QED
    BY <1>2, <2>1, <2>3, <2>4, <2>5, <2>6 DEF RunTypes, Working
<1>4. Unasked
  BY <1>1, <1>2 DEF Unasked, NotAsked, Working
<1>5. ASSUME NEW c \in Charges PROVE TakenOf(refund, c) = 0
  <2>1. \A w \in Withdrawals: Of(refund, c)[w] = 0
    BY <1>1 DEF Of
  <2> QED
    BY <2>1, SumZero DEF TakenOf
<1>6. TakenInv
  <2>1. \A w \in Withdrawals: withdrawal[w].ids = {}
    BY <1>1
  <2>2. \A w \in Withdrawals: \A c \in Charges: reckoned[w][c] = 0 /\ refund[w][c] = 0
    BY <1>1
  <2> QED
    BY <1>2, <1>5, <2>1, <2>2, AmountsType DEF TakenInv
<1>7. ASSUME NEW w \in Withdrawals PROVE Filled(refund, declined, seen, reckoned, withdrawal, w)
  <2>1. PICK R: R = refund[w]
    OBVIOUS
  <2>2. (\A c \in Charges: R[c] = 0) /\ seen[w] = <<>> /\ withdrawal[w].amount = 0 /\ withdrawal[w].status = "none"
    BY <1>1, <2>1
  <2>3. Sum(R, Charges) = 0
    BY <2>2, SumZero
  <2>4. Fills(R, <<>>, reckoned[w], 0, LostOf(refund, declined, w))
    BY <2>2, <2>3 DEF Fills
  <2> QED
    BY <2>1, <2>2, <2>4 DEF Filled
<1> QED
  BY <1>2, <1>3, <1>4, <1>6, <1>7 DEF FillInv

-----------------------------------------------------------------------------
\* Steps that touch neither refunds nor what is known of them.
Calm ==
  /\ UNCHANGED <<refund, declined, seen, reckoned, blind>>
  /\ withdrawal' \in [Withdrawals -> WithdrawalRows]
  /\ \A w \in Withdrawals:
       /\ withdrawal'[w].status = withdrawal[w].status
       /\ withdrawal'[w].amount = withdrawal[w].amount
       /\ withdrawal'[w].ids = withdrawal[w].ids
  /\ run' \in [Procs -> Runs]
  /\ \A g \in Procs:
       \/ run'[g] = run[g]
       \/ ~ Working(run'[g])
       \/ run'[g].at = "plan" /\ run'[g].id \in Withdrawals /\ withdrawal[run'[g].id].status # "none"

\* A calm step keeps the invariant.
LEMMA CalmKeeps ==
  ASSUME RunTypes, Unasked, TakenInv, FillInv, Calm
  PROVE  RunTypes' /\ Unasked' /\ TakenInv' /\ FillInv'
<1>1. \A g \in Procs: run'[g].at = "refund" => run'[g] = run[g] /\ run[g].at = "refund"
  BY DEF Calm, Working
<1>2. RunTypes'
  BY DEF RunTypes, Calm
<1>3. Unasked'
  BY DEF Unasked, NotAsked, Calm
<1>4. TakenInv'
  <2>1. refund' = refund /\ reckoned' = reckoned /\ \A w \in Withdrawals: withdrawal'[w].ids = withdrawal[w].ids
    BY DEF Calm
  <2> QED
    BY <1>1, <2>1 DEF TakenInv
<1>5. FillInv'
  <2>1. UNCHANGED <<refund, declined, seen, reckoned, blind>>
    BY DEF Calm
  <2>2. ASSUME NEW w \in Withdrawals \ blind PROVE Filled(refund, declined, seen, reckoned, withdrawal', w)
    <3>1. withdrawal'[w].status = withdrawal[w].status /\ withdrawal'[w].amount = withdrawal[w].amount
      BY DEF Calm
    <3>2. Filled(refund, declined, seen, reckoned, withdrawal, w)
      BY DEF FillInv
    <3> QED
      BY <3>1, <3>2 DEF Filled
  <2>3. ASSUME NEW g \in Procs, run'[g].at = "refund", run'[g].id \notin blind
        PROVE  Walking(refund, declined, seen, reckoned, withdrawal', run'[g])
    <3>1. run'[g] = run[g] /\ run[g].at = "refund" /\ run[g].id \notin blind
      BY <1>1, <2>3
    <3>2. run[g].id \in Withdrawals
      BY <3>1 DEF RunTypes, Working
    <3>3. withdrawal'[run[g].id].amount = withdrawal[run[g].id].amount
      BY <3>2 DEF Calm
    <3>4. Walking(refund, declined, seen, reckoned, withdrawal, run[g])
      BY <3>1 DEF FillInv
    <3> QED
      BY <3>1, <3>3, <3>4 DEF Walking
  <2> QED
    BY <2>1, <2>2, <2>3 DEF FillInv
<1> QED
  BY <1>2, <1>3, <1>4, <1>5

\* A row of which only the week changes.
LEMMA RowFields ==
  ASSUME NEW r \in WithdrawalRows
  PROVE  /\ r.amount \in Nat /\ r.ids \subseteq Charges
         /\ [r EXCEPT !.thisWeek = FALSE] \in WithdrawalRows
         /\ [r EXCEPT !.thisWeek = FALSE].status = r.status
         /\ [r EXCEPT !.thisWeek = FALSE].amount = r.amount
         /\ [r EXCEPT !.thisWeek = FALSE].ids = r.ids
  BY DEF WithdrawalRows

\* All steps but those of a withdrawal are calm, and so is starting a run again.
LEMMA CalmSteps ==
  ASSUME RunTypes
  PROVE  /\ UNCHANGED moneyVars => Calm
         /\ \A c \in Charges: Pay(c) \/ ChargeRefunded(c) => Calm
         /\ NewWeek => Calm
         /\ \A h \in Procs, c \in Charges: TopupClaim(h, c) => Calm
         /\ \A h \in Procs: CreditFundedBudget(h) \/ TopupMark(h) \/ TopupFailed(h) \/ RunCrash(h) => Calm
         /\ \A h \in Procs, w \in Withdrawals: Sweep(h, w) => Calm
<1>0. \A h \in Procs: run[h] \in Runs
  BY DEF RunTypes
<1>1. ASSUME UNCHANGED <<withdrawal, refund, declined, run, seen, reckoned, blind>> PROVE Calm
  BY <1>1 DEF Calm, RunTypes
<1>2. ASSUME NEW h \in Procs, NEW r \in Runs, ~ Working(r), run' = [run EXCEPT ![h] = r],
             UNCHANGED <<withdrawal, refund, declined, seen, reckoned, blind>>
      PROVE  Calm
  <2>1. run' \in [Procs -> Runs] /\ run'[h] = r /\ \A g \in Procs \ {h}: run'[g] = run[g]
    BY <1>2, OneRun
  <2>2. \A g \in Procs: run'[g] = run[g] \/ ~ Working(run'[g])
    BY <1>2, <2>1
  <2> QED
    BY <1>2, <2>1, <2>2 DEF Calm, RunTypes
<1>3. ASSUME NEW h \in Procs, EndRun(h), UNCHANGED <<withdrawal, refund, declined, seen, reckoned, blind>> PROVE Calm
  <2>1. ~ Working(Idle)
    BY DEF Idle, Working
  <2> QED
    BY <1>2, <1>3, <2>1, IdleType DEF EndRun
<1>4. ASSUME UNCHANGED moneyVars PROVE Calm
  BY <1>1, <1>4 DEF moneyVars
<1>5. ASSUME NEW c \in Charges, Pay(c) \/ ChargeRefunded(c) PROVE Calm
  BY <1>1, <1>5 DEF Pay, ChargeRefunded, watched
<1>6. ASSUME NewWeek PROVE Calm
  <2>1. /\ withdrawal' = [w \in Withdrawals |-> [withdrawal[w] EXCEPT !.thisWeek = FALSE]]
        /\ UNCHANGED <<refund, declined, run, seen, reckoned, blind>>
    BY <1>6 DEF NewWeek, watched
  <2>2. \A w \in Withdrawals: withdrawal[w] \in WithdrawalRows
    BY DEF RunTypes
  <2>3. \A w \in Withdrawals:
          /\ withdrawal'[w] = [withdrawal[w] EXCEPT !.thisWeek = FALSE]
          /\ withdrawal'[w] \in WithdrawalRows
          /\ withdrawal'[w].status = withdrawal[w].status
          /\ withdrawal'[w].amount = withdrawal[w].amount
          /\ withdrawal'[w].ids = withdrawal[w].ids
    BY <2>1, <2>2, RowFields
  <2>4. withdrawal' \in [Withdrawals -> WithdrawalRows]
    BY <2>1, <2>3
  <2> QED
    BY <2>1, <2>3, <2>4 DEF Calm, RunTypes
<1>7. ASSUME NEW h \in Procs, NEW c \in Charges, TopupClaim(h, c) PROVE Calm
  <2> DEFINE r == [[run[h] EXCEPT !.at = "credit"] EXCEPT !.id = c]
  <2>1. r \in Runs /\ ~ Working(r)
    BY <1>0 DEF Runs, Working
  <2>2. run' = [run EXCEPT ![h] = r]
    BY <1>7 DEF TopupClaim, RunTypes
  <2>3. UNCHANGED <<withdrawal, refund, declined, seen, reckoned, blind>>
    BY <1>7 DEF TopupClaim, watched
  <2> HIDE DEF r
  <2> QED
    BY <1>2, <2>1, <2>2, <2>3
<1>8. ASSUME NEW h \in Procs, CreditFundedBudget(h) PROVE Calm
  <2> DEFINE link == [run[h] EXCEPT !.at = "link"]
             unlink == [run[h] EXCEPT !.at = "unlink"]
  <2>1. link \in Runs /\ ~ Working(link) /\ unlink \in Runs /\ ~ Working(unlink)
    BY <1>0 DEF Runs, Working
  <2>2. run' = [run EXCEPT ![h] = link] \/ run' = [run EXCEPT ![h] = unlink]
    BY <1>8 DEF CreditFundedBudget, RunTypes
  <2>3. UNCHANGED <<withdrawal, refund, declined, seen, reckoned, blind>>
    BY <1>8 DEF CreditFundedBudget, watched
  <2> HIDE DEF link, unlink
  <2> QED
    BY <1>2, <2>1, <2>2, <2>3
<1>9. ASSUME NEW h \in Procs, TopupMark(h) \/ TopupFailed(h) \/ RunCrash(h) PROVE Calm
  BY <1>3, <1>9 DEF TopupMark, TopupFailed, RunCrash, watched
<1>10. ASSUME NEW h \in Procs, NEW w \in Withdrawals, Sweep(h, w) PROVE Calm
  <2> DEFINE r == [[run[h] EXCEPT !.at = "plan"] EXCEPT !.id = w]
  <2>1. r \in Runs /\ r.at = "plan" /\ r.id = w
    BY <1>0 DEF Runs
  <2>2. run' = [run EXCEPT ![h] = r]
    BY <1>10 DEF Sweep, RunFor, RunTypes
  <2>3. UNCHANGED <<withdrawal, refund, declined, seen, reckoned, blind>> /\ withdrawal[w].status # "none"
    BY <1>10 DEF Sweep, watched
  <2> HIDE DEF r
  <2>4. run' \in [Procs -> Runs] /\ run'[h] = r /\ \A g \in Procs \ {h}: run'[g] = run[g]
    BY <2>1, <2>2, OneRun
  <2>5. \A g \in Procs: run'[g] = run[g] \/ g = h
    BY <2>4
  <2> QED
    BY <2>1, <2>3, <2>4, <2>5 DEF Calm, RunTypes
<1> QED
  BY <1>4, <1>5, <1>6, <1>7, <1>8, <1>9, <1>10

\* A withdrawal is requested.
LEMMA RequestKeeps ==
  ASSUME IsFiniteSet(Charges), RunTypes, Unasked, TakenInv, FillInv,
         NEW h \in Procs, NEW w \in Withdrawals, NEW a \in Amounts, RequestWithdrawal(h, w, a)
  PROVE  RunTypes' /\ Unasked' /\ TakenInv' /\ FillInv'
<1> DEFINE row == [status |-> "PENDING", amount |-> a, ids |-> {}, thisWeek |-> TRUE]
           r == [[run[h] EXCEPT !.at = "plan"] EXCEPT !.id = w]
<1>1. /\ withdrawal[w].status = "none" /\ withdrawal' = [withdrawal EXCEPT ![w] = row]
      /\ run' = [run EXCEPT ![h] = r] /\ UNCHANGED <<refund, declined, seen, reckoned, blind>>
  BY DEF RequestWithdrawal, RunFor, RunTypes, watched
<1>2. a \in Nat
  BY AmountsType
<1>3. row \in WithdrawalRows /\ row.status = "PENDING" /\ row.amount = a /\ row.ids = {}
  BY <1>2 DEF WithdrawalRows
<1>4. r \in Runs /\ r.at = "plan" /\ r.id = w
  <2>1. run[h] \in Runs
    BY DEF RunTypes
  <2> QED
    BY <2>1 DEF Runs
<1> HIDE DEF row, r
<1>5. /\ run' \in [Procs -> Runs] /\ run'[h] = r /\ \A g \in Procs \ {h}: run'[g] = run[g]
      /\ \A g \in Procs: Working(run'[g]) => run'[g].id \in Withdrawals
  BY <1>1, <1>4, OneRun
<1>6. withdrawal' \in [Withdrawals -> WithdrawalRows] /\ withdrawal'[w] = row
      /\ \A v \in Withdrawals \ {w}: withdrawal'[v] = withdrawal[v]
  BY <1>1, <1>3 DEF RunTypes
<1>7. NotAsked(w)
  BY <1>1 DEF Unasked
<1>8. RunTypes'
  BY <1>1, <1>5, <1>6 DEF RunTypes
<1>9. Unasked'
  <2> SUFFICES ASSUME NEW v \in Withdrawals, withdrawal'[v].status = "none" PROVE NotAsked(v)'
    BY DEF Unasked
  <2>1. v # w /\ withdrawal'[v] = withdrawal[v]
    BY <1>3, <1>6
  <2>2. NotAsked(v)
    BY <2>1 DEF Unasked
  <2>3. \A g \in Procs: Working(run'[g]) => run'[g].id # v
    BY <1>4, <1>5, <2>1, <2>2 DEF NotAsked
  <2> QED
    BY <1>1, <2>1, <2>2, <2>3 DEF NotAsked
<1>10. \A g \in Procs: run'[g].at = "refund" => run'[g] = run[g] /\ run[g].at = "refund" /\ run[g].id # w
  BY <1>4, <1>5, <1>7 DEF NotAsked, Working
<1>11. TakenInv'
  <2>1. \A v \in Withdrawals: \A c \in withdrawal'[v].ids: refund[v][c] > 0
    BY <1>3, <1>6 DEF TakenInv
  <2> QED
    BY <1>1, <1>10, <2>1 DEF TakenInv
<1>12. FillInv'
  <2>1. ASSUME NEW v \in Withdrawals \ blind PROVE Filled(refund, declined, seen, reckoned, withdrawal', v)
    <3>1. Filled(refund, declined, seen, reckoned, withdrawal, v)
      BY DEF FillInv
    <3>2. CASE v # w
      <4>1. withdrawal'[v] = withdrawal[v]
        BY <1>6, <3>2
      <4> QED
        BY <3>1, <4>1 DEF Filled
    <3>3. CASE v = w
      <4>1. PICK R: R = refund[w]
        OBVIOUS
      <4>2. \A c \in Charges: R[c] = 0
        BY <1>7, <4>1 DEF NotAsked
      <4>3. Sum(R, Charges) = 0
        BY <4>2, SumZero
      <4>4. Fills(R, <<>>, reckoned[w], a, LostOf(refund, declined, w))
        BY <1>2, <4>2, <4>3 DEF Fills
      <4>5. seen[w] = <<>>
        BY <1>7 DEF NotAsked
      <4> QED
        BY <1>3, <1>6, <3>3, <4>1, <4>4, <4>5 DEF Filled
    <3> QED
      BY <3>2, <3>3
  <2>2. ASSUME NEW g \in Procs, run'[g].at = "refund", run'[g].id \notin blind
        PROVE  Walking(refund, declined, seen, reckoned, withdrawal', run'[g])
    <3>1. run'[g] = run[g] /\ run[g].at = "refund" /\ run[g].id # w /\ run[g].id \notin blind
      BY <1>10, <2>2
    <3>2. run[g].id \in Withdrawals
      BY <3>1 DEF RunTypes, Working
    <3>3. withdrawal'[run[g].id] = withdrawal[run[g].id]
      BY <1>6, <3>1, <3>2
    <3>4. Walking(refund, declined, seen, reckoned, withdrawal, run[g])
      BY <3>1 DEF FillInv
    <3> QED
      BY <3>1, <3>3, <3>4 DEF Walking
  <2> QED
    BY <1>1, <2>1, <2>2 DEF FillInv
<1> QED
  BY <1>8, <1>9, <1>11, <1>12

\* A run of a withdrawal reads the rows it works from.
LEMMA PlanKeeps ==
  ASSUME IsFiniteSet(Charges), IsFiniteSet(Withdrawals), RunTypes, Unasked, TakenInv, FillInv,
         NEW h \in Procs, Plan(h)
  PROVE  RunTypes' /\ Unasked' /\ TakenInv' /\ FillInv'
<1>1. PICK w \in Withdrawals: w = run[h].id /\ run[h].at = "plan"
  BY DEF Plan, RunAt, RunTypes, Working
<1>2. PICK p: p = [c \in Charges |-> Prior(w, c)]
  OBVIOUS
<1>3. PICK t \in Candidates:
        /\ run' = [run EXCEPT ![h] =
                     [at |-> "refund", id |-> w, already |-> withdrawal[w].ids, todo |-> t, prior |-> p,
                      left |-> withdrawal[w].amount, applied |-> {}]]
        /\ seen' = [seen EXCEPT ![w] = t]
        /\ blind' = IF IsPrefix(seen[w], t) /\ \A c \in Charges: reckoned[w][c] <= p[c]
                      THEN blind ELSE blind \cup {w}
        /\ reckoned' = [reckoned EXCEPT ![w] = p] /\ UNCHANGED <<withdrawal, refund, declined>>
  BY <1>1, <1>2 DEF Plan
<1> DEFINE r == [at |-> "refund", id |-> w, already |-> withdrawal[w].ids, todo |-> t, prior |-> p,
                 left |-> withdrawal[w].amount, applied |-> {}]
<1>4. run' = [run EXCEPT ![h] = r]
  BY <1>3
<1>5. t \in Seq(Charges) /\ NoRepeats(t)
  BY CandidatesType
<1>6. withdrawal[w].ids \subseteq Charges /\ withdrawal[w].amount \in Nat /\ withdrawal[w].status # "none"
  <2>1. withdrawal[w].ids \subseteq Charges /\ withdrawal[w].amount \in Nat
    BY DEF RunTypes, WithdrawalRows
  <2>2. withdrawal[w].status # "none"
    BY <1>1 DEF Unasked, NotAsked, Working
  <2> QED
    BY <2>1, <2>2
<1>7. p \in [Charges -> Nat] /\ \A c \in Charges: p[c] <= TakenOf(refund, c) - refund[w][c]
  <2>1. ASSUME NEW c \in Charges PROVE Prior(w, c) \in Nat /\ Prior(w, c) <= TakenOf(refund, c) - refund[w][c]
    <3>1. refund \in [Withdrawals -> [Charges -> Nat]] /\ \A v \in Withdrawals: c \in withdrawal[v].ids => refund[v][c] > 0
      BY DEF RunTypes, TakenInv
    <3> QED
      BY <3>1, PriorBound
  <2> QED
    BY <1>2, <2>1
<1>8. r \in Runs
  BY <1>5, <1>6, <1>7 DEF Runs
<1>9. /\ r.at = "refund" /\ r.id = w /\ r.already = withdrawal[w].ids /\ r.todo = t /\ r.prior = p
      /\ r.left = withdrawal[w].amount /\ r.applied = {}
  OBVIOUS
<1> HIDE DEF r
<1>10. /\ run' \in [Procs -> Runs] /\ run'[h] = r /\ \A g \in Procs \ {h}: run'[g] = run[g]
       /\ \A g \in Procs: Working(run'[g]) => run'[g].id \in Withdrawals
  BY <1>4, <1>8, <1>9, OneRun
<1>11. /\ seen'[w] = t /\ reckoned'[w] = p
       /\ \A v \in Withdrawals \ {w}: seen'[v] = seen[v] /\ reckoned'[v] = reckoned[v]
  BY <1>3 DEF RunTypes
<1>12. RunTypes'
  <2>1. seen' \in [Withdrawals -> Seq(Charges)] /\ reckoned' \in [Withdrawals -> [Charges -> Nat]]
    BY <1>3, <1>5, <1>7 DEF RunTypes
  <2>2. \A v \in Withdrawals: NoRepeats(seen'[v])
    BY <1>5, <1>11 DEF RunTypes
  <2> QED
    BY <1>3, <1>10, <2>1, <2>2 DEF RunTypes
<1>13. Unasked'
  <2> SUFFICES ASSUME NEW v \in Withdrawals, withdrawal[v].status = "none" PROVE NotAsked(v)'
    BY <1>3 DEF Unasked
  <2>1. v # w /\ NotAsked(v)
    BY <1>6 DEF Unasked
  <2>2. \A g \in Procs: Working(run'[g]) => run'[g].id # v
    BY <1>9, <1>10, <2>1 DEF NotAsked
  <2> QED
    BY <1>3, <1>11, <2>1, <2>2 DEF NotAsked
<1>14. RunTaken(refund, r)
  BY <1>7, <1>9 DEF RunTaken, TakenInv
<1>15. TakenInv'
  <2>1. \A v \in Withdrawals: \A c \in Charges: reckoned'[v][c] <= TakenOf(refund, c) - refund[v][c]
    BY <1>7, <1>11 DEF TakenInv
  <2>2. \A g \in Procs: run'[g].at = "refund" => RunTaken(refund, run'[g])
    BY <1>10, <1>14 DEF TakenInv
  <2> QED
    BY <1>3, <2>1, <2>2 DEF TakenInv
<1>16. blind \subseteq blind'
  BY <1>3
<1>17. PICK full: full = LostOf(refund, declined, w)
  OBVIOUS
<1>18. ASSUME w \notin blind'
       PROVE  /\ Fills(refund[w], t, p, withdrawal[w].amount, full)
              /\ withdrawal[w].status = "COMPLETED" => Sum(refund[w], Charges) = withdrawal[w].amount
              /\ \A g \in Procs \ {h}: run[g].at = "refund" /\ run[g].id = w =>
                   Walks(refund[w], t, p, withdrawal[w].amount, full, run[g])
  <2>1. w \notin blind /\ IsPrefix(seen[w], t) /\ \A c \in Charges: reckoned[w][c] <= p[c]
    BY <1>3, <1>18
  <2>2. PICK s \in Seq(Charges), k \in [Charges -> Nat], R \in [Charges -> Nat], A \in Nat:
          s = seen[w] /\ k = reckoned[w] /\ R = refund[w] /\ A = withdrawal[w].amount
    BY <1>6 DEF RunTypes
  <2>3. /\ Fills(R, s, k, A, full)
        /\ withdrawal[w].status = "COMPLETED" => Sum(R, Charges) = A
    BY <1>17, <2>1, <2>2 DEF FillInv, Filled
  <2>4. Len(s) <= Len(t) /\ (\A i \in 1..Len(s): t[i] = s[i]) /\ \A c \in Charges: k[c] <= p[c]
    BY <1>5, <2>1, <2>2, PrefixIs
  <2>5. Fills(R, t, p, A, full)
    BY <1>5, <1>7, <2>3, <2>4, AmountsType, FillsLater
  <2>6. ASSUME NEW g \in Procs, run[g].at = "refund", run[g].id = w PROVE Walks(R, t, p, A, full, run[g])
    <3>1. Walks(R, s, k, A, full, run[g])
      BY <1>17, <2>1, <2>2, <2>6 DEF FillInv, Walking
    <3>2. run[g].prior \in [Charges -> Nat] /\ run[g].already \subseteq Charges
      BY RunFields
    <3>3. \A c \in run[g].already: R[c] > 0
      BY <2>2, <2>6 DEF TakenInv, RunTaken
    <3>4. \A c \in run[g].already: \E i \in 1..Len(s): s[i] = c
      BY <2>3, <3>2, <3>3 DEF Fills
    <3> QED
      BY <1>5, <1>7, <2>4, <3>1, <3>2, <3>4, WalkLater
  <2> QED
    BY <2>2, <2>3, <2>5, <2>6
<1>19. FillInv'
  <2>1. ASSUME NEW v \in Withdrawals \ blind' PROVE Filled(refund, declined, seen', reckoned', withdrawal, v)
    <3>1. CASE v = w
      BY <1>11, <1>17, <1>18, <2>1, <3>1 DEF Filled
    <3>2. CASE v # w
      <4>1. Filled(refund, declined, seen, reckoned, withdrawal, v)
        BY <1>16, <2>1 DEF FillInv
      <4> QED
        BY <1>11, <3>2, <4>1 DEF Filled
    <3> QED
      BY <3>1, <3>2
  <2>2. ASSUME NEW g \in Procs, run'[g].at = "refund", run'[g].id \notin blind'
        PROVE  Walking(refund, declined, seen', reckoned', withdrawal, run'[g])
    <3>1. CASE g = h
      <4>1. run'[g] = r /\ w \notin blind'
        BY <1>9, <1>10, <2>2, <3>1
      <4>2. Fills(refund[w], t, p, withdrawal[w].amount, full)
        BY <1>18, <4>1
      <4>3. \A d \in withdrawal[w].ids: refund[w][d] > 0
        BY DEF TakenInv
      <4>4. refund[w] \in [Charges -> Nat] /\ withdrawal[w].amount \in Int
        BY <1>6 DEF RunTypes
      <4>5. Walks(refund[w], t, p, withdrawal[w].amount, full, r)
        BY <1>5, <1>7, <1>9, <4>2, <4>3, <4>4, WalkStarts
      <4> QED
        BY <1>9, <1>11, <1>17, <4>1, <4>5 DEF Walking
    <3>2. CASE g # h /\ run[g].id = w
      <4>1. run'[g] = run[g] /\ run[g].at = "refund" /\ w \notin blind'
        BY <1>10, <2>2, <3>2
      <4>2. Walks(refund[w], t, p, withdrawal[w].amount, full, run[g])
        BY <1>18, <3>2, <4>1
      <4> QED
        BY <1>11, <1>17, <3>2, <4>1, <4>2 DEF Walking
    <3>3. CASE g # h /\ run[g].id # w
      <4>1. run'[g] = run[g] /\ run[g].at = "refund" /\ run[g].id \notin blind
        BY <1>10, <1>16, <2>2, <3>3
      <4>2. Walking(refund, declined, seen, reckoned, withdrawal, run[g]) /\ run[g].id \in Withdrawals \ {w}
        BY <3>3, <4>1 DEF FillInv, RunTypes, Working
      <4> QED
        BY <1>11, <4>1, <4>2 DEF Walking
    <3> QED
      BY <3>1, <3>2, <3>3
  <2> QED
    BY <1>3, <2>1, <2>2 DEF FillInv
<1> QED
  BY <1>12, <1>13, <1>15, <1>19

\* Charges that become full change nothing.
LEMMA FullerKeeps ==
  ASSUME NEW R, NEW s, NEW k, NEW A, NEW full, NEW full2, full \subseteq full2
  PROVE  /\ Fills(R, s, k, A, full) => Fills(R, s, k, A, full2)
         /\ \A r: Walks(R, s, k, A, full, r) => Walks(R, s, k, A, full2, r)
<1>1. ASSUME Fills(R, s, k, A, full) PROVE Fills(R, s, k, A, full2)
  BY <1>1 DEF Fills
<1>2. ASSUME NEW r, Walks(R, s, k, A, full, r) PROVE Walks(R, s, k, A, full2, r)
  <2>1. PICK i \in 1..(Len(s) + 1): WalkAt(i, R, s, k, A, full, r)
    BY <1>2 DEF Walks
  <2>2. WalkAt(i, R, s, k, A, full2, r)
    BY <2>1 DEF WalkAt
  <2> QED
    BY <2>2 DEF Walks
<1> QED
  BY <1>1, <1>2

\* Refunds that Stripe declines stay declined.
Growing ==
  /\ declined' \in [Withdrawals -> SUBSET Charges]
  /\ \A v \in Withdrawals: declined[v] \subseteq declined'[v]

\* What is declined of more charges takes nothing from what was filled.
LEMMA GrowingKeeps ==
  ASSUME Growing, RunTypes, FillInv
  PROVE  /\ \A v \in Withdrawals \ blind: Filled(refund, declined', seen, reckoned, withdrawal, v)
         /\ \A g \in Procs:
              run[g].at = "refund" /\ run[g].id \notin blind =>
                Walking(refund, declined', seen, reckoned, withdrawal, run[g])
<1>1. \A v \in Withdrawals: LostOf(refund, declined, v) \subseteq LostOf(refund, declined', v)
  BY DEF Growing, LostOf
<1>2. ASSUME NEW v \in Withdrawals \ blind PROVE Filled(refund, declined', seen, reckoned, withdrawal, v)
  <2>1. Filled(refund, declined, seen, reckoned, withdrawal, v)
    BY DEF FillInv
  <2> QED
    BY <1>1, <2>1, FullerKeeps DEF Filled
<1>3. ASSUME NEW g \in Procs, run[g].at = "refund", run[g].id \notin blind
      PROVE  Walking(refund, declined', seen, reckoned, withdrawal, run[g])
  <2>1. PICK v \in Withdrawals: v = run[g].id
    BY <1>3 DEF RunTypes, Working
  <2>2. Walking(refund, declined, seen, reckoned, withdrawal, run[g])
    BY <1>3 DEF FillInv
  <2> QED
    BY <1>1, <2>1, <2>2, FullerKeeps DEF Walking
<1> QED
  BY <1>2, <1>3

\* A run moves on while nothing else changes.
LEMMA MoveKeeps ==
  ASSUME RunTypes, Unasked, TakenInv, FillInv, NEW h \in Procs, run[h].at = "refund",
         NEW q \in Runs, q.at = "refund", q.id = run[h].id, run' = [run EXCEPT ![h] = q],
         UNCHANGED <<withdrawal, refund, seen, reckoned, blind>>, Growing, RunTaken(refund, q),
         q.id \notin blind => Walking(refund, declined', seen, reckoned, withdrawal, q)
  PROVE  RunTypes' /\ Unasked' /\ TakenInv' /\ FillInv'
<1>1. q.id \in Withdrawals
  BY DEF RunTypes, Working
<1>2. /\ run' \in [Procs -> Runs] /\ run'[h] = q /\ \A g \in Procs \ {h}: run'[g] = run[g]
      /\ \A g \in Procs: Working(run'[g]) => run'[g].id \in Withdrawals
  BY <1>1, OneRun
<1>3. \A g \in Procs: Working(run'[g]) => Working(run[g]) /\ run'[g].id = run[g].id
  BY <1>2 DEF Working
<1>4. RunTypes'
  BY <1>2 DEF RunTypes, Growing
<1>5. Unasked'
  BY <1>3 DEF Unasked, NotAsked
<1>6. TakenInv'
  BY <1>2 DEF TakenInv
<1>7. FillInv'
  BY <1>2, GrowingKeeps DEF FillInv
<1> QED
  BY <1>4, <1>5, <1>6, <1>7

\* What a run that has not missed a charge walks through.
LEMMA WalkIs ==
  ASSUME RunTypes, FillInv, NEW h \in Procs, run[h].at = "refund", NEW w, w = run[h].id, w \notin blind
  PROVE  \E s \in Seq(Charges), k \in [Charges -> Nat], R \in [Charges -> Nat], A \in Int:
           /\ s = seen[w] /\ k = reckoned[w] /\ R = refund[w] /\ A = withdrawal[w].amount
           /\ NoRepeats(s)
           /\ Fills(R, s, k, A, LostOf(refund, declined, w)) /\ Walks(R, s, k, A, LostOf(refund, declined, w), run[h])
           /\ withdrawal[w].status = "COMPLETED" => Sum(R, Charges) = A
<1>1. w \in Withdrawals
  BY DEF RunTypes, Working
<1>2. /\ seen[w] \in Seq(Charges) /\ reckoned[w] \in [Charges -> Nat] /\ refund[w] \in [Charges -> Nat]
      /\ withdrawal[w].amount \in Int /\ NoRepeats(seen[w])
  BY <1>1 DEF RunTypes, WithdrawalRows
<1>3. /\ Filled(refund, declined, seen, reckoned, withdrawal, w)
      /\ Walking(refund, declined, seen, reckoned, withdrawal, run[h])
  BY <1>1 DEF FillInv
<1> QED
  BY <1>2, <1>3 DEF Filled, Walking

\* A run that gives up keeps what it knows.
LEMMA GivesUpKeeps ==
  ASSUME RunTypes, Unasked, TakenInv, FillInv, NEW h \in Procs, run[h].at = "refund",
         run' = [run EXCEPT ![h].todo = <<>>], UNCHANGED <<withdrawal, refund, declined, seen, reckoned, blind>>
  PROVE  RunTypes' /\ Unasked' /\ TakenInv' /\ FillInv'
<1>1. run[h] \in Runs
  BY DEF RunTypes
<1>2. PICK q: q = GivesUp(run[h])
  OBVIOUS
<1>3. run' = [run EXCEPT ![h] = q]
  BY <1>2 DEF GivesUp
<1>4. /\ q \in Runs /\ q.at = run[h].at /\ q.id = run[h].id /\ q.already = run[h].already /\ q.prior = run[h].prior
      /\ q.todo = <<>> /\ q.left = run[h].left /\ q.applied = run[h].applied
  BY <1>1, <1>2, GivesUpFields
<1>5. RunTaken(refund, q)
  BY <1>4 DEF TakenInv, RunTaken
<1>6. ASSUME q.id \notin blind PROVE Walking(refund, declined, seen, reckoned, withdrawal, q)
  <2>1. PICK w: w = run[h].id
    OBVIOUS
  <2>2. PICK s \in Seq(Charges), k \in [Charges -> Nat], R \in [Charges -> Nat], A \in Int:
          /\ s = seen[w] /\ k = reckoned[w] /\ R = refund[w] /\ A = withdrawal[w].amount
          /\ Walks(R, s, k, A, LostOf(refund, declined, w), run[h])
    BY <1>4, <1>6, <2>1, WalkIs
  <2>3. Walks(R, s, k, A, LostOf(refund, declined, w), q)
    BY <1>1, <1>4, <2>2, WalkStops DEF Runs
  <2> QED
    BY <1>4, <2>1, <2>2, <2>3 DEF Walking
<1>7. Growing
  BY DEF Growing, RunTypes
<1> QED
  BY <1>3, <1>4, <1>5, <1>6, <1>7, MoveKeeps

\* A run goes past a charge of which it counts what is refunded.
LEMMA PastKeeps ==
  ASSUME IsFiniteSet(Charges), RunTypes, Unasked, TakenInv, FillInv, NEW h \in Procs, NEW c \in Charges,
         NextCharge(h, c), NEW x \in Nat, Counted(h, c, x),
         UNCHANGED <<withdrawal, refund, seen, reckoned, blind>>, Growing,
         x > 0 => refund[run[h].id][c] > 0,
         run[h].id \notin blind => /\ refund[run[h].id][c] = x
                                   /\ refund[run[h].id][c] > 0 \/ c \in LostOf(refund, declined', run[h].id)
  PROVE  RunTypes' /\ Unasked' /\ TakenInv' /\ FillInv'
<1>1. run[h] \in Runs /\ run[h].at = "refund" /\ run[h].todo # <<>> /\ c = Head(run[h].todo)
  BY DEF RunTypes, NextCharge, RunAt
<1>2. PICK q: q = Past(run[h], x)
  OBVIOUS
<1>3. run' = [run EXCEPT ![h] = q]
  BY <1>2, CountedIsPast
<1>4. /\ q \in Runs /\ q.at = run[h].at /\ q.id = run[h].id /\ q.already = run[h].already /\ q.prior = run[h].prior
      /\ q.todo = Tail(run[h].todo) /\ q.left = run[h].left - x
      /\ q.applied = IF x > 0 THEN run[h].applied \cup {c} ELSE run[h].applied
  <2>1. PICK r \in Runs: r = run[h]
    BY <1>1
  <2>2. r.todo # <<>> /\ x \in Int /\ q = Past(r, x) /\ c = Head(r.todo)
    BY <1>1, <1>2, <2>1
  <2>3. /\ q \in Runs /\ q.at = r.at /\ q.id = r.id /\ q.already = r.already /\ q.prior = r.prior
        /\ q.todo = Tail(r.todo) /\ q.left = r.left - x
        /\ q.applied = IF x > 0 THEN r.applied \cup {Head(r.todo)} ELSE r.applied
    BY <2>2, PastFields
  <2> QED
    BY <2>1, <2>2, <2>3
<1>5. RunTaken(refund, q)
  <2>1. RunTaken(refund, run[h])
    BY <1>1 DEF TakenInv
  <2> QED
    BY <1>4, <2>1 DEF RunTaken
<1>6. ASSUME q.id \notin blind PROVE Walking(refund, declined', seen, reckoned, withdrawal, q)
  <2>1. PICK w: w = run[h].id
    OBVIOUS
  <2>2. PICK s \in Seq(Charges), k \in [Charges -> Nat], R \in [Charges -> Nat], A \in Int:
          /\ s = seen[w] /\ k = reckoned[w] /\ R = refund[w] /\ A = withdrawal[w].amount /\ NoRepeats(s)
          /\ Walks(R, s, k, A, LostOf(refund, declined', w), run[h])
    <3>1. w \notin blind
      BY <1>4, <1>6, <2>1
    <3>2. PICK s \in Seq(Charges), k \in [Charges -> Nat], R \in [Charges -> Nat], A \in Int:
            s = seen[w] /\ k = reckoned[w] /\ R = refund[w] /\ A = withdrawal[w].amount /\ NoRepeats(s)
      <4>1. w \in Withdrawals
        BY <1>1, <2>1 DEF RunTypes, Working
      <4>2. /\ seen[w] \in Seq(Charges) /\ reckoned[w] \in [Charges -> Nat] /\ refund[w] \in [Charges -> Nat]
            /\ withdrawal[w].amount \in Int /\ NoRepeats(seen[w])
        BY <4>1 DEF RunTypes, WithdrawalRows
      <4> QED
        BY <4>2
    <3>3. Walking(refund, declined', seen, reckoned, withdrawal, run[h])
      BY <1>1, <2>1, <3>1, GrowingKeeps
    <3> QED
      BY <2>1, <3>2, <3>3 DEF Walking
  <2>3. PICK i \in 1..(Len(s) + 1): WalkAt(i, R, s, k, A, LostOf(refund, declined', w), run[h])
    BY <2>2 DEF Walks
  <2>4. R[c] = x /\ (R[c] > 0 \/ c \in LostOf(refund, declined', w))
    BY <1>4, <1>6, <2>1, <2>2
  <2>5. run[h].todo \in Seq(Charges)
    BY <1>1 DEF Runs
  <2>6. Walks(R, s, k, A, LostOf(refund, declined', w), q)
    <3>1. q.left = run[h].left - R[Head(run[h].todo)]
      BY <1>1, <1>4, <2>4
    <3>2. R[Head(run[h].todo)] > 0 \/ Head(run[h].todo) \in LostOf(refund, declined', w)
      BY <1>1, <2>4
    <3> QED
      BY <1>1, <1>4, <2>2, <2>3, <2>5, <3>1, <3>2, WalkOn
  <2> QED
    BY <1>4, <2>1, <2>2, <2>6 DEF Walking
<1> QED
  BY <1>1, <1>3, <1>4, <1>5, <1>6, MoveKeeps

\* A run counts a charge it knows.
LEMMA KnownKeeps ==
  ASSUME IsFiniteSet(Charges), IsFiniteSet(Withdrawals), RunTypes, Unasked, TakenInv, FillInv,
         NEW h \in Procs, NEW c \in Charges, CountKnown(h, c)
  PROVE  RunTypes' /\ Unasked' /\ TakenInv' /\ FillInv'
<1>1. /\ NextCharge(h, c) /\ Known(h, c) /\ Counted(h, c, RefundAmount(h, c))
      /\ UNCHANGED <<withdrawal, refund, declined, seen, reckoned, blind>>
  BY DEF CountKnown, watched
<1>2. /\ run[h].at = "refund" /\ run[h].left > 0 /\ run[h].todo # <<>> /\ c = Head(run[h].todo)
      /\ run[h].todo \in Seq(Charges) /\ run[h].prior \in [Charges -> Nat] /\ run[h].left \in Int
  BY <1>1, RunFields DEF NextCharge, RunAt
<1>3. PICK w \in Withdrawals: w = run[h].id
  BY <1>2 DEF RunTypes, Working
<1>4. PICK x \in Nat: x = RefundAmount(h, c)
  BY <1>2, AmountType
<1>5. /\ x = 0 => run[h].prior[c] >= ChargeAmount
      /\ x = Counts(run[h], c)
  BY <1>2, <1>4, AmountType
<1>6. /\ refund[w][c] \in Nat /\ TakenOf(refund, c) \in Nat /\ TakenOf(refund, c) <= ChargeAmount
      /\ run[h].prior[c] \in Nat /\ run[h].prior[c] <= TakenOf(refund, c) - refund[w][c]
      /\ c \in run[h].already => refund[w][c] > 0
  <2>1. refund[w][c] \in Nat /\ TakenOf(refund, c) \in Nat
    BY TakenType DEF RunTypes
  <2> QED
    BY <1>2, <1>3, <2>1 DEF TakenInv, RunTaken
<1>7. c \in run[h].already \/ x = 0
  BY <1>1, <1>4 DEF Known
<1>8. x > 0 => refund[w][c] > 0
  BY <1>6, <1>7
<1>9. ASSUME c \notin run[h].already PROVE x = 0 /\ refund[w][c] = 0 /\ c \in LostOf(refund, declined, w)
  <2>1. x = 0 /\ run[h].prior[c] >= ChargeAmount
    BY <1>5, <1>7, <1>9
  <2>2. refund[w][c] = 0 /\ TakenOf(refund, c) >= ChargeAmount
    BY <1>6, <2>1, AmountsType
  <2> QED
    BY <2>1, <2>2 DEF FullOf, LostOf
<1>10. ASSUME w \notin blind, c \in run[h].already PROVE refund[w][c] = x
  <2>1. PICK s \in Seq(Charges), k \in [Charges -> Nat], R \in [Charges -> Nat], A \in Int:
          /\ s = seen[w] /\ k = reckoned[w] /\ R = refund[w] /\ A = withdrawal[w].amount /\ NoRepeats(s)
          /\ Fills(R, s, k, A, LostOf(refund, declined, w)) /\ Walks(R, s, k, A, LostOf(refund, declined, w), run[h])
    BY <1>2, <1>3, <1>10, WalkIs
  <2>2. PICK r, full: r = run[h] /\ full = LostOf(refund, declined, w)
    OBVIOUS
  <2>3. PICK i \in 1..(Len(s) + 1): WalkAt(i, R, s, k, A, full, r)
    BY <2>1, <2>2 DEF Walks
  <2>4. r.todo \in Seq(Charges) /\ r.todo # <<>> /\ c = Head(r.todo)
    BY <1>2, <2>2
  <2>5. i \in 1..Len(s) /\ c = s[i]
    BY <2>3, <2>4, WalkHead
  <2>6. R[c] = refund[w][c] /\ R[c] \in Nat
    BY <2>1
  <2>7. R[c] > 0 /\ r.prior[c] <= ChargeAmount - R[c] /\ ChargeAmount \in Nat
    <3>1. PICK p \in Nat, t \in Nat, z \in Nat: p = r.prior[c] /\ t = TakenOf(refund, c) /\ z = R[c]
      BY <1>6, <2>2, <2>6
    <3>2. z > 0 /\ t <= ChargeAmount /\ p <= t - z
      BY <1>6, <1>10, <2>2, <2>6, <3>1
    <3>3. p <= ChargeAmount - z
      BY <3>2, AmountsType
    <3> QED
      BY <3>1, <3>2, <3>3, AmountsType
  <2>8. r.prior \in [Charges -> Nat] /\ c \in r.already /\ x = Counts(r, c)
    BY <1>2, <1>5, <1>10, <2>2
  <2>9. Fills(R, s, k, A, full) /\ NoRepeats(s)
    BY <2>1, <2>2
  <2>10. Counts(r, c) = R[c]
    <3>1. PICK l \in Int:
            /\ l = r.left /\ R[s[i]] <= l
            /\ s[i] \in r.already => R[s[i]] = l \/ r.prior[s[i]] >= ChargeAmount - R[s[i]]
      BY <2>3, <2>5, <2>9, KnownIsRefunded
    <3>2. PICK z \in Nat, p \in Nat: z = R[c] /\ p = r.prior[c]
      BY <2>6, <2>8
    <3>3. z > 0 /\ z <= l /\ (z = l \/ p >= ChargeAmount - z) /\ p <= ChargeAmount - z
      BY <2>5, <2>7, <2>8, <3>1, <3>2
    <3>4. Counts(r, c) = z
      BY <2>7, <3>1, <3>2, <3>3, CountsIs
    <3> QED
      BY <3>2, <3>4
  <2> QED
    BY <2>6, <2>8, <2>10
<1>11. Growing /\ declined' = declined
  BY <1>1 DEF Growing, RunTypes
<1> QED
  BY <1>1, <1>3, <1>4, <1>6, <1>8, <1>9, <1>10, <1>11, PastKeeps

\* The charges of which nothing is left, once one more refund was made.
LEMMA FullMore ==
  ASSUME IsFiniteSet(Withdrawals), NEW f, f \in [Withdrawals -> [Charges -> Nat]], NEW w \in Withdrawals,
         NEW c \in Charges, NEW x, x \in Nat, NEW q, AddsTo(f, q, w, c, x)
  PROVE  FullOf(f) \subseteq FullOf(q) /\ \A d \in Charges: TakenOf(f, d) <= TakenOf(q, d)
<1>1. ASSUME NEW d \in Charges PROVE TakenOf(f, d) \in Nat /\ TakenOf(f, d) <= TakenOf(q, d)
  <2>1. PICK t \in Nat: t = TakenOf(f, d)
    BY TakenType
  <2>2. CASE d = c
    <3>1. TakenOf(q, c) = TakenOf(f, c) + x
      BY TakenMore
    <3> QED
      BY <2>1, <2>2, <3>1
  <2>3. CASE d # c
    BY <2>1, <2>3, TakenSame
  <2> QED
    BY <2>2, <2>3
<1>2. ASSUME NEW d \in Charges, TakenOf(f, d) >= ChargeAmount PROVE TakenOf(q, d) >= ChargeAmount
  <2>1. PICK t \in Nat, u \in Nat: t = TakenOf(f, d) /\ u = TakenOf(q, d)
    BY TakenType DEF AddsTo
  <2> QED
    BY <1>1, <1>2, <2>1, AmountsType
<1> QED
  BY <1>1, <1>2 DEF FullOf

\* What a run knows stays so.
LEMMA RunTakenMore ==
  ASSUME IsFiniteSet(Withdrawals), NEW f, f \in [Withdrawals -> [Charges -> Nat]], NEW w \in Withdrawals,
         NEW c \in Charges, NEW x, x \in Nat, NEW q, AddsTo(f, q, w, c, x),
         NEW v \in Withdrawals, NEW d \in Charges
  PROVE  /\ f[v][d] > 0 => q[v][d] > 0
         /\ \A p \in Nat: p <= TakenOf(f, d) - f[v][d] => p <= TakenOf(q, d) - q[v][d]
<1>0. TakenOf(q, d) = IF d = c THEN TakenOf(f, c) + x ELSE TakenOf(f, d)
  <2>1. CASE d = c
    BY <2>1, TakenMore
  <2>2. CASE d # c
    BY <2>2, TakenSame
  <2> QED
    BY <2>1, <2>2
<1>1. PICK a \in Nat, t \in Nat: a = f[v][d] /\ t = TakenOf(f, d)
  BY TakenType
<1>2. q[v][d] = IF v = w /\ d = c THEN a + x ELSE a
  BY <1>1 DEF AddsTo
<1>3. TakenOf(q, d) = IF d = c THEN t + x ELSE t
  BY <1>0, <1>1
<1> QED
  BY <1>1, <1>2, <1>3

\* A refund that Stripe grants under a new key.
LEMMA GrantFacts ==
  ASSUME IsFiniteSet(Charges), IsFiniteSet(Withdrawals), RunTypes, TakenInv,
         NEW w \in Withdrawals, NEW c \in Charges, NEW x, x \in Nat, TakenOf(refund, c) + x <= ChargeAmount,
         NEW f, AddsTo(refund, f, w, c, x)
  PROVE  /\ \A d \in Charges: TakenOf(f, d) <= ChargeAmount
         /\ \A v \in Withdrawals: \A d \in withdrawal[v].ids: f[v][d] > 0
         /\ \A v \in Withdrawals: \A d \in Charges: reckoned[v][d] <= TakenOf(f, d) - f[v][d]
         /\ \A g \in Procs: run[g].at = "refund" => RunTaken(f, run[g])
<1>1. refund \in [Withdrawals -> [Charges -> Nat]]
  BY DEF RunTypes
<1>2. ASSUME NEW d \in Charges PROVE TakenOf(f, d) <= ChargeAmount
  <2>1. TakenOf(f, d) = IF d = c THEN TakenOf(refund, d) + x ELSE TakenOf(refund, d)
    BY <1>1, TakenMore, TakenSame
  <2> QED
    BY <2>1 DEF TakenInv
<1>3. ASSUME NEW v \in Withdrawals, NEW d \in Charges
      PROVE  /\ refund[v][d] > 0 => f[v][d] > 0
             /\ \A p \in Nat: p <= TakenOf(refund, d) - refund[v][d] => p <= TakenOf(f, d) - f[v][d]
  BY <1>1, RunTakenMore
<1>4. ASSUME NEW v \in Withdrawals, NEW d \in withdrawal[v].ids PROVE f[v][d] > 0
  <2>1. d \in Charges /\ refund[v][d] > 0
    BY DEF TakenInv, RunTypes, WithdrawalRows
  <2> QED
    BY <1>3, <2>1
<1>5. ASSUME NEW v \in Withdrawals, NEW d \in Charges PROVE reckoned[v][d] <= TakenOf(f, d) - f[v][d]
  <2>1. PICK p \in Nat: p = reckoned[v][d]
    BY DEF RunTypes
  <2>2. p <= TakenOf(refund, d) - refund[v][d]
    BY <2>1 DEF TakenInv
  <2> QED
    BY <1>3, <2>1, <2>2
<1>6. ASSUME NEW g \in Procs, run[g].at = "refund" PROVE RunTaken(f, run[g])
  <2>1. PICK v \in Withdrawals: v = run[g].id
    BY <1>6 DEF RunTypes, Working
  <2>2. RunTaken(refund, run[g])
    BY <1>6 DEF TakenInv
  <2>3. run[g].already \cup run[g].applied \subseteq Charges /\ run[g].prior \in [Charges -> Nat]
    BY RunFields
  <2>4. ASSUME NEW d \in run[g].already \cup run[g].applied PROVE f[v][d] > 0
    <3>1. d \in Charges /\ refund[v][d] > 0
      BY <2>1, <2>2, <2>3 DEF RunTaken
    <3> QED
      BY <1>3, <3>1
  <2>5. ASSUME NEW d \in Charges PROVE run[g].prior[d] <= TakenOf(f, d) - f[v][d]
    <3>1. PICK p \in Nat: p = run[g].prior[d]
      BY <2>3
    <3>2. p <= TakenOf(refund, d) - refund[v][d]
      BY <2>1, <2>2, <3>1 DEF RunTaken
    <3> QED
      BY <1>3, <3>1, <3>2
  <2> QED
    BY <2>1, <2>4, <2>5 DEF RunTaken
<1> QED
  BY <1>2, <1>4, <1>5, <1>6

\* A refund of one withdrawal and what the others refund.
LEMMA OthersFill ==
  ASSUME IsFiniteSet(Withdrawals), RunTypes, FillInv, NEW w \in Withdrawals, NEW c \in Charges, NEW x, x \in Nat,
         NEW f, AddsTo(refund, f, w, c, x)
  PROVE  /\ \A v \in Withdrawals \ (blind \cup {w}): Filled(f, declined, seen, reckoned, withdrawal, v)
         /\ \A g \in Procs:
              run[g].at = "refund" /\ run[g].id \notin blind \cup {w} => Walking(f, declined, seen, reckoned, withdrawal, run[g])
<1>1. \A v: LostOf(refund, declined, v) \subseteq LostOf(f, declined, v)
  BY FullMore DEF RunTypes, LostOf
<1>2. \A v \in Withdrawals \ {w}: f[v] = refund[v]
  BY DEF AddsTo
<1>3. ASSUME NEW v \in Withdrawals \ (blind \cup {w}) PROVE Filled(f, declined, seen, reckoned, withdrawal, v)
  <2>1. Filled(refund, declined, seen, reckoned, withdrawal, v)
    BY DEF FillInv
  <2> QED
    BY <1>1, <1>2, <2>1, FullerKeeps DEF Filled
<1>4. ASSUME NEW g \in Procs, run[g].at = "refund", run[g].id \notin blind \cup {w}
      PROVE  Walking(f, declined, seen, reckoned, withdrawal, run[g])
  <2>1. PICK v \in Withdrawals \ {w}: v = run[g].id
    BY <1>4 DEF RunTypes, Working
  <2>2. Walking(refund, declined, seen, reckoned, withdrawal, run[g])
    BY <1>4 DEF FillInv
  <2> QED
    BY <1>1, <1>2, <2>1, <2>2, FullerKeeps DEF Walking
<1> QED
  BY <1>3, <1>4

\* Where the run of a withdrawal is, and what it may refund there.
LEMMA WalkHere ==
  ASSUME IsFiniteSet(Charges), RunTypes, FillInv, NEW h \in Procs, NEW c \in Charges, NextCharge(h, c),
         NEW w, w = run[h].id, w \notin blind
  PROVE  \E s \in Seq(Charges), k \in [Charges -> Nat], R \in [Charges -> Nat], A \in Int, i \in Nat:
           /\ s = seen[w] /\ k = reckoned[w] /\ R = refund[w] /\ A = withdrawal[w].amount
           /\ withdrawal[w].status = "COMPLETED" => Sum(R, Charges) = A
           /\ HereAt(i, R, s, k, A, LostOf(refund, declined, w), run[h], c, RefundAmount(h, c))
<1>1. /\ run[h].at = "refund" /\ run[h].todo # <<>> /\ c = Head(run[h].todo) /\ run[h].left > 0
  BY DEF NextCharge, RunAt
<1>2. PICK s \in Seq(Charges), k \in [Charges -> Nat], R \in [Charges -> Nat], A \in Int:
        /\ s = seen[w] /\ k = reckoned[w] /\ R = refund[w] /\ A = withdrawal[w].amount
        /\ NoRepeats(s)
        /\ Fills(R, s, k, A, LostOf(refund, declined, w)) /\ Walks(R, s, k, A, LostOf(refund, declined, w), run[h])
        /\ withdrawal[w].status = "COMPLETED" => Sum(R, Charges) = A
  <2>1. w \in Withdrawals
    BY <1>1 DEF RunTypes, Working
  <2>2. PICK s \in Seq(Charges), k \in [Charges -> Nat], R \in [Charges -> Nat], A \in Int:
          s = seen[w] /\ k = reckoned[w] /\ R = refund[w] /\ A = withdrawal[w].amount /\ NoRepeats(s)
    <3>1. /\ seen[w] \in Seq(Charges) /\ reckoned[w] \in [Charges -> Nat] /\ refund[w] \in [Charges -> Nat]
          /\ withdrawal[w].amount \in Int /\ NoRepeats(seen[w])
      BY <2>1 DEF RunTypes, WithdrawalRows
    <3> QED
      BY <3>1
  <2>3. Filled(refund, declined, seen, reckoned, withdrawal, w) /\ Walking(refund, declined, seen, reckoned, withdrawal, run[h])
    BY <1>1, <2>1 DEF FillInv
  <2>4. /\ Fills(R, s, k, A, LostOf(refund, declined, w)) /\ Walks(R, s, k, A, LostOf(refund, declined, w), run[h])
        /\ withdrawal[w].status = "COMPLETED" => Sum(R, Charges) = A
    BY <2>2, <2>3 DEF Filled, Walking
  <2> QED
    BY <2>2, <2>4
<1>3. PICK r, full: r = run[h] /\ full = LostOf(refund, declined, w)
  OBVIOUS
<1>4. PICK i \in 1..(Len(s) + 1): WalkAt(i, R, s, k, A, full, r)
  BY <1>2, <1>3 DEF Walks
<1>5. /\ r \in Runs /\ r.todo \in Seq(Charges) /\ r.todo # <<>> /\ c = Head(r.todo) /\ r.prior \in [Charges -> Nat]
      /\ r.left \in Int
  BY <1>1, <1>3, RunFields
<1>6. i \in 1..Len(s) /\ c = s[i]
  BY <1>4, <1>5, WalkHead
<1>7. Sum(R, Charges) \in Int /\ Off(R, s, i) \in Int
  <2>1. NoRepeats(s)
    BY <1>2
  <2> QED
    BY <2>1, OffNext
<1>8. PICK o \in Int: o = Off(R, s, i)
  BY <1>7
<1>9. r.left = A - o /\ r.prior[c] <= k[c]
  BY <1>4, <1>8 DEF WalkAt
<1>10. PICK x \in Nat: x = RefundAmount(h, c)
  BY <1>1, AmountType
<1>11. x <= r.left /\ (x > 0 => x = r.left \/ x = ChargeAmount - r.prior[c])
  BY <1>1, <1>3, <1>10, AmountType
<1>12. x <= A - o /\ (x > 0 => x = A - o \/ k[c] >= ChargeAmount - x)
  <2>1. PICK p \in Nat, u \in Nat: p = r.prior[c] /\ u = k[c]
    BY <1>5
  <2>2. p <= u /\ ChargeAmount \in Nat
    BY <1>9, <2>1, AmountsType
  <2>3. x <= A - o /\ (x > 0 => x = A - o \/ x = ChargeAmount - p)
    BY <1>9, <1>11, <2>1
  <2>4. x > 0 => x = A - o \/ u >= ChargeAmount - x
    BY <2>2, <2>3
  <2> QED
    BY <2>1, <2>3, <2>4
<1>13. i \in Nat
  BY <1>4
<1>14. HereAt(i, R, s, k, A, full, r, c, x)
  <2>1. NoRepeats(s) /\ Fills(R, s, k, A, full)
    BY <1>2, <1>3
  <2>2. x <= A - Off(R, s, i) /\ (x > 0 => x = A - Off(R, s, i) \/ k[c] >= ChargeAmount - x)
    BY <1>8, <1>12
  <2> QED
    BY <1>4, <1>6, <1>7, <2>1, <2>2 DEF HereAt
<1>15. HereAt(i, R, s, k, A, LostOf(refund, declined, w), run[h], c, RefundAmount(h, c))
  BY <1>3, <1>10, <1>14
<1> QED
  BY <1>2, <1>13, <1>15

\* A refund under a new key and what the withdrawal itself refunds.
LEMMA OwnFill ==
  ASSUME IsFiniteSet(Charges), IsFiniteSet(Withdrawals), RunTypes, TakenInv, FillInv,
         NEW h \in Procs, NEW c \in Charges, NextCharge(h, c),
         NEW w \in Withdrawals, w = run[h].id, w \notin blind, refund[w][c] = 0, c \notin declined[w],
         RefundAmount(h, c) \in Nat \ {0},
         TakenOf(refund, c) + RefundAmount(h, c) <= ChargeAmount,
         NEW f, AddsTo(refund, f, w, c, RefundAmount(h, c))
  PROVE  /\ Filled(f, declined, seen, reckoned, withdrawal, w)
         /\ \A g \in Procs: run[g].at = "refund" /\ run[g].id = w => Walking(f, declined, seen, reckoned, withdrawal, run[g])
<1>1. PICK s \in Seq(Charges), k \in [Charges -> Nat], R \in [Charges -> Nat], A \in Int, i \in Nat:
        /\ s = seen[w] /\ k = reckoned[w] /\ R = refund[w] /\ A = withdrawal[w].amount
        /\ withdrawal[w].status = "COMPLETED" => Sum(R, Charges) = A
        /\ HereAt(i, R, s, k, A, LostOf(refund, declined, w), run[h], c, RefundAmount(h, c))
  BY WalkHere
<1>2. PICK r, full, x: r = run[h] /\ full = LostOf(refund, declined, w) /\ x = RefundAmount(h, c)
  OBVIOUS
<1>3. c \notin full
  <2>1. PICK t \in Nat: t = TakenOf(refund, c)
    BY TakenType DEF RunTypes
  <2>2. x \in Nat \ {0} /\ t + x <= ChargeAmount /\ ChargeAmount \in Nat
    BY <1>2, <2>1, AmountsType
  <2>3. t < ChargeAmount
    BY <2>2
  <2> QED
    BY <1>2, <2>1, <2>2, <2>3 DEF FullOf, LostOf
<1>4. PICK Q \in [Charges -> Nat]: Q = f[w] /\ Q[c] = x /\ \A d \in Charges \ {c}: Q[d] = R[d]
  <2>1. f[w] \in [Charges -> Nat] /\ f[w][c] = refund[w][c] + x
    BY <1>2 DEF AddsTo
  <2>2. f[w][c] = x
    BY <1>2, <2>1
  <2>3. \A d \in Charges \ {c}: f[w][d] = R[d]
    BY <1>1 DEF AddsTo
  <2> QED
    BY <2>1, <2>2, <2>3
<1>5. Fills(Q, s, k, A, full) /\ Sum(R, Charges) < A
  <2>1. HereAt(i, R, s, k, A, full, r, c, x)
    BY <1>1, <1>2
  <2>2. Granted(R, Q, c, x, full)
    BY <1>1, <1>2, <1>3, <1>4 DEF Granted
  <2> QED
    BY <2>1, <2>2, Grant
<1>6. LostOf(refund, declined, w) \subseteq LostOf(f, declined, w)
  BY FullMore DEF RunTypes, LostOf
<1>7. Filled(f, declined, seen, reckoned, withdrawal, w)
  <2>1. Fills(Q, s, k, A, LostOf(f, declined, w))
    BY <1>2, <1>5, <1>6, FullerKeeps
  <2>2. withdrawal[w].status # "COMPLETED"
    <3>1. Sum(R, Charges) \in Int
      BY <1>1 DEF HereAt
    <3>2. Sum(R, Charges) # A
      BY <1>5, <3>1
    <3> QED
      BY <1>1, <3>2
  <2> QED
    BY <1>1, <1>4, <2>1, <2>2 DEF Filled
<1>8. ASSUME NEW g \in Procs, run[g].at = "refund", run[g].id = w
      PROVE  Walking(f, declined, seen, reckoned, withdrawal, run[g])
  <2>1. PICK e: e = run[g]
    OBVIOUS
  <2>2. Walks(R, s, k, A, full, e)
    BY <1>1, <1>2, <1>8, <2>1 DEF FillInv, Walking
  <2>3. \A d \in e.already: R[d] > 0
    BY <1>1, <1>8, <2>1 DEF TakenInv, RunTaken
  <2>4. Walks(Q, s, k, A, full, e)
    <3>1. Fills(R, s, k, A, full) /\ NoRepeats(s) /\ R[c] = 0
      BY <1>1, <1>2 DEF HereAt
    <3>2. \A d \in Charges \ {c}: Q[d] = R[d]
      BY <1>4
    <3> QED
      BY <1>3, <2>2, <2>3, <3>1, <3>2, GrantWalks
  <2>5. Walks(Q, s, k, A, LostOf(f, declined, w), e)
    BY <1>2, <1>6, <2>4, FullerKeeps
  <2> QED
    BY <1>1, <1>4, <1>8, <2>1, <2>5 DEF Walking
<1> QED
  BY <1>7, <1>8

\* A refund is granted under a new key, and the run goes on as q.
LEMMA GrantKeeps ==
  ASSUME IsFiniteSet(Charges), IsFiniteSet(Withdrawals), RunTypes, Unasked, TakenInv, FillInv,
         NEW h \in Procs, NEW c \in Charges, NextCharge(h, c),
         NEW w \in Withdrawals, w = run[h].id, refund[w][c] = 0, c \notin declined[w], RefundAmount(h, c) \in Nat \ {0},
         TakenOf(refund, c) + RefundAmount(h, c) <= ChargeAmount,
         AddsTo(refund, refund', w, c, RefundAmount(h, c)),
         NEW q \in Runs, q.at = "refund", q.id = w, run' = [run EXCEPT ![h] = q],
         UNCHANGED <<withdrawal, declined, seen, reckoned, blind>>,
         q.already = run[h].already, q.prior = run[h].prior, q.applied \subseteq run[h].applied \cup {c},
         w \notin blind /\ Walking(refund', declined, seen, reckoned, withdrawal, run[h])
           => Walking(refund', declined, seen, reckoned, withdrawal, q)
  PROVE  RunTypes' /\ Unasked' /\ TakenInv' /\ FillInv'
<1>1. run[h].at = "refund"
  BY DEF NextCharge, RunAt
<1>2. /\ run' \in [Procs -> Runs] /\ run'[h] = q /\ \A g \in Procs \ {h}: run'[g] = run[g]
      /\ \A g \in Procs: Working(run'[g]) => run'[g].id \in Withdrawals
  BY OneRun
<1>3. PICK f, x: f = refund' /\ x = RefundAmount(h, c)
  OBVIOUS
<1>4. AddsTo(refund, f, w, c, x) /\ x \in Nat \ {0}
  BY <1>3
<1>5. /\ f \in [Withdrawals -> [Charges -> Nat]] /\ f[w][c] = x
      /\ \A v \in Withdrawals \ {w}: f[v] = refund[v]
  BY <1>4 DEF AddsTo
<1>6. /\ \A d \in Charges: TakenOf(f, d) <= ChargeAmount
      /\ \A v \in Withdrawals: \A d \in withdrawal[v].ids: f[v][d] > 0
      /\ \A v \in Withdrawals: \A d \in Charges: reckoned[v][d] <= TakenOf(f, d) - f[v][d]
      /\ \A g \in Procs: run[g].at = "refund" => RunTaken(f, run[g])
  <2>1. x \in Nat /\ TakenOf(refund, c) + x <= ChargeAmount
    BY <1>3, <1>4
  <2> QED
    BY <1>4, <2>1, GrantFacts
<1>7. RunTypes'
  BY <1>2, <1>3, <1>5 DEF RunTypes
<1>8. \A g \in Procs: Working(run'[g]) => Working(run[g]) /\ run'[g].id = run[g].id
  BY <1>1, <1>2 DEF Working
<1>9. Unasked'
  <2>1. withdrawal[w].status # "none"
    BY <1>1 DEF Unasked, NotAsked, Working
  <2> QED
    BY <1>3, <1>5, <1>8, <2>1 DEF Unasked, NotAsked
<1>10. RunTaken(f, q)
  <2>1. RunTaken(f, run[h])
    BY <1>1, <1>6
  <2>2. f[w][c] > 0
    BY <1>4, <1>5
  <2> QED
    BY <2>1, <2>2 DEF RunTaken
<1>11. TakenInv'
  <2>1. \A g \in Procs: run'[g].at = "refund" => RunTaken(f, run'[g])
    BY <1>2, <1>6, <1>10
  <2> QED
    BY <1>3, <1>6, <2>1 DEF TakenInv
<1>12. /\ \A v \in Withdrawals \ (blind \cup {w}): Filled(f, declined, seen, reckoned, withdrawal, v)
       /\ \A g \in Procs:
            run[g].at = "refund" /\ run[g].id \notin blind \cup {w} => Walking(f, declined, seen, reckoned, withdrawal, run[g])
  <2>1. x \in Nat
    BY <1>4
  <2> QED
    BY <1>4, <2>1, OthersFill
<1>13. ASSUME w \notin blind
       PROVE  /\ Filled(f, declined, seen, reckoned, withdrawal, w)
              /\ \A g \in Procs: run[g].at = "refund" /\ run[g].id = w => Walking(f, declined, seen, reckoned, withdrawal, run[g])
  BY <1>3, <1>4, <1>13, OwnFill
<1>14. \A v \in Withdrawals \ blind: Filled(f, declined, seen, reckoned, withdrawal, v)
  BY <1>12, <1>13
<1>15. ASSUME NEW g \in Procs, run'[g].at = "refund", run'[g].id \notin blind
       PROVE  Walking(f, declined, seen, reckoned, withdrawal, run'[g])
  <2>1. CASE g = h
    BY <1>1, <1>2, <1>3, <1>13, <1>15, <2>1
  <2>2. CASE g # h
    BY <1>2, <1>12, <1>13, <1>15, <2>2
  <2> QED
    BY <2>1, <2>2
<1>16. FillInv'
  BY <1>3, <1>14, <1>15 DEF FillInv
<1> QED
  BY <1>7, <1>9, <1>11, <1>16

\* createRefund keeps the invariant, however it answers.
LEMMA RefundKeeps ==
  ASSUME IsFiniteSet(Charges), IsFiniteSet(Withdrawals), RunTypes, Unasked, TakenInv, FillInv,
         NEW h \in Procs, NEW c \in Charges, CreateRefund(h, c)
  PROVE  RunTypes' /\ Unasked' /\ TakenInv' /\ FillInv'
<1>1. /\ NextCharge(h, c) /\ run[h].at = "refund" /\ run[h].left > 0 /\ run[h].todo # <<>> /\ c = Head(run[h].todo)
      /\ UNCHANGED <<withdrawal, seen, reckoned, blind>>
  BY DEF CreateRefund, NextCharge, RunAt, watched
<1>2. PICK w \in Withdrawals: w = run[h].id
  BY <1>1 DEF RunTypes, Working
<1>3. RefundAmount(h, c) \in Nat \ {0}
  BY <1>1, AmountType DEF CreateRefund, Known
<1>4. refund[w][c] \in Nat /\ Taken(c) = TakenOf(refund, c)
  BY TakenIsSum DEF RunTypes
<1>5. CASE UNCHANGED <<refund, declined>> /\ run' = [run EXCEPT ![h].todo = <<>>]
  BY <1>1, <1>5, GivesUpKeeps
<1>6. CASE Replays(w, c) /\ Grants(w, c, RefundAmount(h, c)) /\ UNCHANGED <<refund, declined>>
           /\ Counted(h, c, RefundAmount(h, c))
  <2>1. refund[w][c] = RefundAmount(h, c) /\ refund[w][c] > 0
    BY <1>6 DEF Replays, Grants
  <2>2. Growing
    BY <1>6 DEF Growing, RunTypes
  <2> QED
    BY <1>1, <1>2, <1>3, <1>6, <2>1, <2>2, PastKeeps
<1>7. ASSUME ~ Replays(w, c), Grants(w, c, RefundAmount(h, c)),
             refund' = [refund EXCEPT ![w][c] = @ + RefundAmount(h, c)]
      PROVE  /\ refund[w][c] = 0 /\ TakenOf(refund, c) + RefundAmount(h, c) <= ChargeAmount
             /\ AddsTo(refund, refund', w, c, RefundAmount(h, c))
  <2>1. refund[w][c] = 0
    BY <1>4, <1>7 DEF Replays
  <2>2. TakenOf(refund, c) + RefundAmount(h, c) <= ChargeAmount
    BY <1>4, <1>7 DEF Grants
  <2>3. AddsTo(refund, refund', w, c, RefundAmount(h, c))
    BY <1>3, <1>7, AddsOne DEF RunTypes
  <2> QED
    BY <2>1, <2>2, <2>3
<1>8. CASE /\ c \notin declined[w] /\ UNCHANGED declined /\ ~ Replays(w, c) /\ Grants(w, c, RefundAmount(h, c))
           /\ refund' = [refund EXCEPT ![w][c] = @ + RefundAmount(h, c)] /\ Counted(h, c, RefundAmount(h, c))
  <2>1. PICK r \in Runs: r = run[h]
    BY DEF RunTypes
  <2>2. PICK x \in Nat: x = RefundAmount(h, c) /\ x > 0
    BY <1>3
  <2>3. PICK q: q = Past(r, x)
    OBVIOUS
  <2>4. run' = [run EXCEPT ![h] = q]
    BY <1>1, <1>8, <2>1, <2>2, <2>3, CountedIsPast
  <2>5. /\ q \in Runs /\ q.at = r.at /\ q.id = r.id /\ q.already = r.already /\ q.prior = r.prior
        /\ q.todo = Tail(r.todo) /\ q.left = r.left - x
        /\ q.applied = IF x > 0 THEN r.applied \cup {Head(r.todo)} ELSE r.applied
    <3>1. r.todo # <<>> /\ x \in Int
      BY <1>1, <2>1, <2>2
    <3> QED
      BY <2>3, <3>1, PastFields
  <2>6. ASSUME w \notin blind, Walking(refund', declined, seen, reckoned, withdrawal, r)
        PROVE  Walking(refund', declined, seen, reckoned, withdrawal, q)
    <3>0. PICK k, full: k = reckoned[w] /\ full = LostOf(refund', declined, w)
      OBVIOUS
    <3>1. PICK s \in Seq(Charges), A \in Int, R \in [Charges -> Nat]:
            s = seen[w] /\ A = withdrawal[w].amount /\ R = refund'[w] /\ NoRepeats(s)
      <4>1. refund'[w] \in [Charges -> Nat]
        BY <1>7, <1>8 DEF AddsTo
      <4>2. seen[w] \in Seq(Charges) /\ NoRepeats(seen[w]) /\ withdrawal[w].amount \in Int
        BY DEF RunTypes, WithdrawalRows
      <4> QED
        BY <4>1, <4>2
    <3>2. Walks(R, s, k, A, full, r)
      BY <1>2, <2>1, <2>6, <3>0, <3>1 DEF Walking
    <3>3. R[c] = x
      BY <1>7, <1>8, <2>2, <3>1 DEF AddsTo
    <3>4. Walks(R, s, k, A, full, q)
      <4>1. PICK i \in 1..(Len(s) + 1): WalkAt(i, R, s, k, A, full, r)
        BY <3>2 DEF Walks
      <4>2. r.todo \in Seq(Charges) /\ r.todo # <<>> /\ R[Head(r.todo)] = x /\ x > 0
        BY <1>1, <2>1, <2>2, <3>3 DEF Runs
      <4>3. q.todo = Tail(r.todo) /\ q.left = r.left - R[Head(r.todo)] /\ q.prior = r.prior /\ q.already = r.already
        BY <2>5, <4>2
      <4> QED
        BY <3>1, <4>1, <4>2, <4>3, WalkOn
    <3> QED
      BY <1>2, <2>1, <2>5, <3>0, <3>1, <3>4 DEF Walking
  <2>7. q.at = "refund" /\ q.id = w /\ q.already = run[h].already /\ q.prior = run[h].prior
    BY <1>1, <1>2, <2>1, <2>5
  <2>8. q.applied \subseteq run[h].applied \cup {c} /\ q \in Runs
    BY <1>1, <2>1, <2>5
  <2> QED
    BY <1>1, <1>2, <1>3, <1>7, <1>8, <2>1, <2>4, <2>6, <2>7, <2>8, GrantKeeps
<1>9. CASE /\ c \notin declined[w] /\ UNCHANGED declined /\ ~ Replays(w, c) /\ Grants(w, c, RefundAmount(h, c))
           /\ refund' = [refund EXCEPT ![w][c] = @ + RefundAmount(h, c)] /\ run' = [run EXCEPT ![h].todo = <<>>]
  <2>1. PICK r \in Runs: r = run[h]
    BY DEF RunTypes
  <2>2. PICK q: q = GivesUp(r)
    OBVIOUS
  <2>3. run' = [run EXCEPT ![h] = q]
    BY <1>9, <2>1, <2>2 DEF GivesUp
  <2>4. /\ q \in Runs /\ q.at = r.at /\ q.id = r.id /\ q.already = r.already /\ q.prior = r.prior
        /\ q.todo = <<>> /\ q.left = r.left /\ q.applied = r.applied
    BY <2>2, GivesUpFields
  <2>5. ASSUME w \notin blind, Walking(refund', declined, seen, reckoned, withdrawal, r)
        PROVE  Walking(refund', declined, seen, reckoned, withdrawal, q)
    <3>0. PICK s \in Seq(Charges): s = seen[w]
      BY DEF RunTypes
    <3>1. PICK k, A, full, R: k = reckoned[w] /\ A = withdrawal[w].amount /\ full = LostOf(refund', declined, w) /\ R = refund'[w]
      OBVIOUS
    <3>2. Walks(R, s, k, A, full, r)
      BY <1>2, <2>1, <2>5, <3>0, <3>1 DEF Walking
    <3>3. r.todo \in Seq(Charges)
      BY DEF Runs
    <3>4. Walks(R, s, k, A, full, q)
      BY <2>4, <3>2, <3>3, WalkStops
    <3> QED
      BY <1>2, <2>1, <2>4, <3>0, <3>1, <3>4 DEF Walking
  <2>6. q.at = "refund" /\ q.id = w /\ q.already = run[h].already /\ q.prior = run[h].prior
    BY <1>1, <1>2, <2>1, <2>4
  <2>7. q.applied \subseteq run[h].applied \cup {c} /\ q \in Runs
    BY <2>1, <2>4
  <2>8. w \notin blind /\ Walking(refund', declined, seen, reckoned, withdrawal, run[h])
          => Walking(refund', declined, seen, reckoned, withdrawal, q)
    BY <2>1, <2>5
  <2>9. /\ refund[w][c] = 0 /\ TakenOf(refund, c) + RefundAmount(h, c) <= ChargeAmount
        /\ AddsTo(refund, refund', w, c, RefundAmount(h, c))
    BY <1>7, <1>9
  <2>10. c \notin declined[w] /\ UNCHANGED <<withdrawal, declined, seen, reckoned, blind>>
    BY <1>1, <1>9
  <2> QED
    BY <1>1, <1>2, <1>3, <2>3, <2>6, <2>7, <2>8, <2>9, <2>10, GrantKeeps
<1>10. CASE Declines(w, c) /\ Counted(h, c, 0) /\ UNCHANGED refund
  <2>1. refund[w][c] = 0
    BY <1>4, <1>10 DEF Declines, Replays
  <2>2. Growing /\ c \in declined'[w]
    BY <1>10 DEF Declines, Growing, RunTypes
  <2>3. c \in LostOf(refund, declined', w)
    BY <2>2 DEF LostOf
  <2> QED
    BY <1>1, <1>2, <1>10, <2>1, <2>2, <2>3, PastKeeps
<1> QED
  BY <1>2, <1>5, <1>6, <1>8, <1>9, <1>10 DEF CreateRefund, Refund, GiveUp

\* A row with another status and other ids.
LEMMA EndedRow ==
  ASSUME NEW row \in WithdrawalRows, NEW o, NEW a
  PROVE  [[row EXCEPT !.status = o] EXCEPT !.ids = a]
           = [status |-> o, amount |-> row.amount, ids |-> a, thisWeek |-> row.thisWeek]
<1>1. PICK st, am, id, tw: row = [status |-> st, amount |-> am, ids |-> id, thisWeek |-> tw]
  BY DEF WithdrawalRows
<1>2. [row EXCEPT !.status = o] = [status |-> o, amount |-> am, ids |-> id, thisWeek |-> tw]
  BY <1>1
<1>3. PICK r2: r2 = [row EXCEPT !.status = o]
  OBVIOUS
<1>4. r2 = [status |-> o, amount |-> am, ids |-> id, thisWeek |-> tw]
  BY <1>2, <1>3
<1>5. [r2 EXCEPT !.ids = a] = [status |-> o, amount |-> am, ids |-> a, thisWeek |-> tw]
  <2> HIDE <1>1, <1>2, <1>3
  <2> QED
    BY <1>4
<1> QED
  BY <1>1, <1>3, <1>5

\* The end of a run keeps the invariant: a withdrawal is COMPLETED when its
\* refunds add up to it.
LEMMA EndsKeeps ==
  ASSUME IsFiniteSet(Charges), RunTypes, Unasked, TakenInv, FillInv, NEW h \in Procs, RefundsEnd(h)
  PROVE  RunTypes' /\ Unasked' /\ TakenInv' /\ FillInv'
<1>1. /\ run[h].at = "refund" /\ run' = [run EXCEPT ![h] = Idle] /\ UNCHANGED <<refund, declined, seen, reckoned, blind>>
      /\ withdrawal' = [withdrawal EXCEPT ![run[h].id].status = Outcome(h), ![run[h].id].ids = run[h].applied]
  BY DEF RefundsEnd, RunAt, EndRun, watched
<1>2. PICK w \in Withdrawals: w = run[h].id
  BY <1>1 DEF RunTypes, Working
<1>3. PICK row \in WithdrawalRows: row = withdrawal[w]
  BY DEF RunTypes
<1>4. PICK new: new = [status |-> Outcome(h), amount |-> row.amount, ids |-> run[h].applied, thisWeek |-> row.thisWeek]
  OBVIOUS
<1>5. /\ Outcome(h) \in {"COMPLETED", "FAILED"} /\ (Outcome(h) = "COMPLETED" => run[h].left <= 0)
      /\ run[h].applied \subseteq Charges
  BY RunFields DEF Outcome
<1>6. new \in WithdrawalRows /\ new.status = Outcome(h) /\ new.amount = row.amount /\ new.ids = run[h].applied
  BY <1>4, <1>5 DEF WithdrawalRows
<1>7. withdrawal' \in [Withdrawals -> WithdrawalRows] /\ withdrawal'[w] = new
      /\ \A v \in Withdrawals \ {w}: withdrawal'[v] = withdrawal[v]
  <2>1. [[row EXCEPT !.status = Outcome(h)] EXCEPT !.ids = run[h].applied] = new
    BY <1>4, EndedRow
  <2>2. withdrawal' = [withdrawal EXCEPT ![w] = new]
    BY <1>1, <1>2, <1>3, <2>1 DEF RunTypes
  <2> QED
    BY <1>6, <2>2 DEF RunTypes
<1>8. ~ Working(Idle) /\ Idle.at = "idle" /\ Idle \in Runs
  BY IdleType DEF Idle, Working
<1>9. /\ run' \in [Procs -> Runs] /\ run'[h] = Idle /\ \A g \in Procs \ {h}: run'[g] = run[g]
      /\ \A g \in Procs: Working(run'[g]) => run'[g].id \in Withdrawals
  BY <1>1, <1>8, OneRun
<1>10. \A g \in Procs: Working(run'[g]) => run'[g] = run[g]
  BY <1>8, <1>9
<1>11. \A g \in Procs: run'[g].at = "refund" => run'[g] = run[g]
  BY <1>10 DEF Working
<1>12. RunTypes'
  BY <1>1, <1>7, <1>9 DEF RunTypes
<1>13. Unasked'
  <2>1. withdrawal'[w].status # "none"
    BY <1>5, <1>6, <1>7
  <2>2. ASSUME NEW v \in Withdrawals, withdrawal'[v].status = "none" PROVE NotAsked(v)'
    <3>1. v # w /\ withdrawal'[v] = withdrawal[v]
      BY <1>7, <2>1, <2>2
    <3>2. NotAsked(v)
      BY <2>2, <3>1 DEF Unasked
    <3> QED
      BY <1>1, <1>10, <3>1, <3>2 DEF NotAsked
  <2> QED
    BY <2>2 DEF Unasked
<1>14. TakenInv'
  <2>1. ASSUME NEW v \in Withdrawals, NEW c \in withdrawal'[v].ids PROVE refund[v][c] > 0
    <3>1. CASE v = w
      BY <1>1, <1>2, <1>6, <1>7, <2>1, <3>1 DEF TakenInv, RunTaken
    <3>2. CASE v # w
      BY <1>7, <2>1, <3>2 DEF TakenInv
    <3> QED
      BY <3>1, <3>2
  <2>2. \A g \in Procs: run'[g].at = "refund" => RunTaken(refund, run'[g])
    BY <1>11 DEF TakenInv
  <2> QED
    BY <1>1, <2>1, <2>2 DEF TakenInv
<1>15. \A v \in Withdrawals: withdrawal'[v].amount = withdrawal[v].amount
  BY <1>3, <1>6, <1>7
<1>16. ASSUME NEW v \in Withdrawals \ blind PROVE Filled(refund, declined, seen, reckoned, withdrawal', v)
  <2>1. Filled(refund, declined, seen, reckoned, withdrawal, v)
    BY DEF FillInv
  <2>2. CASE v = w
    <3>1. PICK s \in Seq(Charges), k \in [Charges -> Nat], R \in [Charges -> Nat], A \in Int:
            /\ s = seen[w] /\ k = reckoned[w] /\ R = refund[w] /\ A = withdrawal[w].amount
            /\ NoRepeats(s)
            /\ Fills(R, s, k, A, LostOf(refund, declined, w)) /\ Walks(R, s, k, A, LostOf(refund, declined, w), run[h])
      BY <1>1, <1>2, <2>2, WalkIs
    <3>2. ASSUME Outcome(h) = "COMPLETED" PROVE Sum(R, Charges) = A
      <4>1. PICK r, full: r = run[h] /\ full = LostOf(refund, declined, w)
        OBVIOUS
      <4>2. r.left <= 0 /\ NoRepeats(s) /\ Walks(R, s, k, A, full, r) /\ Fills(R, s, k, A, full)
        BY <1>5, <3>1, <3>2, <4>1
      <4> QED
        BY <4>2, WalkedThrough
    <3>3. Fills(refund[w], seen[w], reckoned[w], withdrawal'[w].amount, LostOf(refund, declined, w))
      BY <1>15, <3>1
    <3>4. withdrawal'[w].status = "COMPLETED" => Sum(refund[w], Charges) = withdrawal'[w].amount
      BY <1>6, <1>7, <1>15, <3>1, <3>2
    <3> QED
      BY <2>2, <3>3, <3>4 DEF Filled
  <2>3. CASE v # w
    BY <1>7, <2>1, <2>3 DEF Filled
  <2> QED
    BY <2>2, <2>3
<1>17. ASSUME NEW g \in Procs, run'[g].at = "refund", run'[g].id \notin blind
       PROVE  Walking(refund, declined, seen, reckoned, withdrawal', run'[g])
  <2>1. run'[g] = run[g] /\ Walking(refund, declined, seen, reckoned, withdrawal, run[g])
    BY <1>11, <1>17 DEF FillInv
  <2>2. run[g].id \in Withdrawals
    BY <1>17, <2>1 DEF RunTypes, Working
  <2> QED
    BY <1>15, <2>1, <2>2 DEF Walking
<1>18. FillInv'
  BY <1>1, <1>16, <1>17 DEF FillInv
<1> QED
  BY <1>12, <1>13, <1>14, <1>18

\* Every step keeps the invariant.
RefundsInv == RunTypes /\ Unasked /\ TakenInv /\ FillInv

LEMMA RefundsStep ==
  ASSUME IsFiniteSet(Charges), IsFiniteSet(Withdrawals), RefundsInv, [Next]_vars
  PROVE  RefundsInv'
<1> USE DEF RefundsInv
<1>1. ASSUME UNCHANGED moneyVars PROVE RefundsInv'
  BY <1>1, CalmSteps, CalmKeeps
<1>2. ASSUME NEW c \in Charges, Pay(c) \/ ChargeRefunded(c) PROVE RefundsInv'
  BY <1>2, CalmSteps, CalmKeeps
<1>3. ASSUME NewWeek PROVE RefundsInv'
  BY <1>3, CalmSteps, CalmKeeps
<1>4. ASSUME NEW h \in Procs, NEW c \in Charges, TopupClaim(h, c) PROVE RefundsInv'
  BY <1>4, CalmSteps, CalmKeeps
<1>5. ASSUME NEW h \in Procs, CreditFundedBudget(h) \/ TopupMark(h) \/ TopupFailed(h) \/ RunCrash(h)
      PROVE  RefundsInv'
  BY <1>5, CalmSteps, CalmKeeps
<1>6. ASSUME NEW h \in Procs, NEW w \in Withdrawals, Sweep(h, w) PROVE RefundsInv'
  BY <1>6, CalmSteps, CalmKeeps
<1>7. ASSUME NEW h \in Procs, NEW w \in Withdrawals, NEW a \in Amounts, RequestWithdrawal(h, w, a)
      PROVE  RefundsInv'
  BY <1>7, RequestKeeps
<1>8. ASSUME NEW h \in Procs, Plan(h) PROVE RefundsInv'
  BY <1>8, PlanKeeps
<1>9. ASSUME NEW h \in Procs, NEW c \in Charges, CountKnown(h, c) PROVE RefundsInv'
  BY <1>9, KnownKeeps
<1>10. ASSUME NEW h \in Procs, NEW c \in Charges, CreateRefund(h, c) PROVE RefundsInv'
  BY <1>10, RefundKeeps
<1>11. ASSUME NEW h \in Procs, RefundsEnd(h) PROVE RefundsInv'
  BY <1>11, EndsKeeps
<1>12. ASSUME UNCHANGED vars PROVE RefundsInv'
  BY <1>1, <1>12 DEF vars
<1> HIDE DEF RefundsInv
<1> QED
  BY <1>1, <1>2, <1>3, <1>4, <1>5, <1>6, <1>7, <1>8, <1>9, <1>10, <1>11, <1>12 DEF Next, MoneyNext

\* The invariant says what a reader wants to know.
LEMMA RefundsMatch ==
  ASSUME RefundsInv PROVE RefundsWithinWithdrawal
<1>1. ASSUME NEW w \in Withdrawals \ blind
      PROVE  LET refunded == Total(refund[w], Charges) IN
             /\ refunded <= withdrawal[w].amount
             /\ withdrawal[w].status = "COMPLETED" => refunded = withdrawal[w].amount
  <2>1. Filled(refund, declined, seen, reckoned, withdrawal, w)
    BY DEF RefundsInv, FillInv
  <2>2. Total(refund[w], Charges) = Sum(refund[w], Charges)
    BY TotalIsSum
  <2> QED
    BY <2>1, <2>2 DEF Filled, Fills
<1> QED
  BY <1>1 DEF RefundsWithinWithdrawal

\* The refunds of a withdrawal whose charges no run of it missed stay within
\* its amount, and are its amount when it is COMPLETED, whatever overlapping
\* runs, sweeps, crashes and lost answers there were (executeSponsorWithdrawalRefunds).
THEOREM RefundsStayWithinWithdrawal ==
  ASSUME IsFiniteSet(Charges), IsFiniteSet(Withdrawals)
  PROVE  Spec => []RefundsWithinWithdrawal
<1>1. Init => RefundsInv
  BY InitRefunds DEF RefundsInv
<1>2. RefundsInv /\ [Next]_vars => RefundsInv'
  BY RefundsStep
<1>3. RefundsInv => RefundsWithinWithdrawal
  BY RefundsMatch
<1> QED
  BY <1>1, <1>2, <1>3, PTL DEF Spec

=============================================================================
