--------------------------- MODULE Payouts_proofs ---------------------------
(***************************************************************************)
(* Proofs about Payouts, for any number of drivers' requests, handlers,    *)
(* retries and mishaps: a driver withdraws once a week, nothing that was   *)
(* earned is lost, and no row is PAID without a transfer or an admin.      *)
(***************************************************************************)
EXTENDS Payouts, FiniteSetTheorems, TLAPS

Bounds == Price \in Nat /\ Earnings \in Nat /\ MaxRides \in Nat /\ MaxTries \in Nat /\ MaxMishaps \in Nat

Row == [status: {"none", "PENDING", "PAID"}, id: BOOLEAN,
        transfer: {"none", "BLOCKED", "FAILED", "TRANSFERRED"}, thisWeek: BOOLEAN]

Steps == [at: {"idle", "request", "verify", "transfer", "store", "failed", "paid"},
          id: Requests \cup {NoPayout}]

\* Past its transaction, a handler works on a row.
HasRow == \A h \in Handlers: step[h].at \in {"verify", "transfer", "store", "failed", "paid"} => step[h].id \in Requests

TypeInv == PayoutsTypeOK /\ HasRow

LEMMA InitType == Bounds /\ PayoutsInit => TypeInv
  BY DEF Bounds, PayoutsInit, TypeInv, PayoutsTypeOK, HasRow, Resting, NoRow

LEMMA StepType == Bounds /\ TypeInv /\ [PayoutsNext]_payoutVars => TypeInv'
<1> SUFFICES ASSUME Bounds, TypeInv, [PayoutsNext]_payoutVars PROVE TypeInv'
  OBVIOUS
<1> USE DEF Bounds, TypeInv, PayoutsTypeOK, HasRow, stripe, Move, Rest, Resting, On, Mishap
<1>1. CASE Earn
  BY <1>1 DEF Earn
<1>2. CASE AccountUpdated
  BY <1>2 DEF AccountUpdated
<1>3. CASE NewPayoutWeek
  BY <1>3 DEF NewPayoutWeek
<1>4. ASSUME NEW h \in Handlers, RequestOnDemandPayout(h) PROVE TypeInv'
  BY <1>4 DEF RequestOnDemandPayout
<1>5. ASSUME NEW h \in Handlers, InsertPayout(h) PROVE TypeInv'
  <2>1. ASSUME Grantable, wallet' = Debited, NEW p \in Requests,
               payout' = [payout EXCEPT ![p] = NewRow],
               step' = [step EXCEPT ![h] = [at |-> "verify", id |-> p]]
        PROVE  TypeInv'
    <3>1. wallet' \in Nat
      BY <2>1 DEF Grantable, Debited
    <3>2. payout' \in [Requests -> Row]
      BY <2>1 DEF Row, NewRow, NoRow
    <3>3. step' \in [Handlers -> Steps] /\ HasRow'
      BY <2>1 DEF Steps
    <3> QED
      BY <3>1, <3>2, <3>3, <1>5 DEF InsertPayout, Row, Steps
  <2>2. ASSUME Rest(h), UNCHANGED <<wallet, payout>>
        PROVE  TypeInv'
    BY <2>2, <1>5 DEF InsertPayout
  <2> QED
    BY <1>5, <2>1, <2>2 DEF InsertPayout
<1>6. ASSUME NEW h \in Handlers, VerifyAccount(h) PROVE TypeInv'
  <2>1. step[h].id \in Requests /\ payout[step[h].id] \in Row
    BY <1>6 DEF VerifyAccount, Row
  <2>2. payout' \in [Requests -> Row]
    BY <1>6, <2>1 DEF VerifyAccount, Row
  <2>3. step' \in [Handlers -> Steps] /\ HasRow'
    BY <1>6, <2>1 DEF VerifyAccount, Steps
  <2> QED
    BY <1>6, <2>2, <2>3 DEF VerifyAccount, Row, Steps
<1>7. ASSUME NEW h \in Handlers, CreateTransfer(h) PROVE TypeInv'
  BY <1>7 DEF CreateTransfer, AtStripe
<1>8. ASSUME NEW h \in Handlers, StoreTransfer(h) PROVE TypeInv'
  <2>1. step[h].id \in Requests /\ payout[step[h].id] \in Row
    BY <1>8 DEF StoreTransfer, Row
  <2>2. [payout[step[h].id] EXCEPT !.id = TRUE, !.transfer = "TRANSFERRED"] \in Row
    BY <2>1 DEF Row
  <2>3. payout' \in [Requests -> Row]
    BY <1>8, <2>2 DEF StoreTransfer, Row
  <2>4. step' \in [Handlers -> Steps] /\ HasRow'
    BY <1>8, <2>1 DEF StoreTransfer, Steps
  <2> QED
    BY <1>8, <2>3, <2>4 DEF StoreTransfer, Row, Steps
<1>9. ASSUME NEW h \in Handlers, TransferFailed(h) PROVE TypeInv'
  <2>1. step[h].id \in Requests /\ payout[step[h].id] \in Row
    BY <1>9 DEF TransferFailed, Row
  <2>2. payout' \in [Requests -> Row]
    BY <1>9, <2>1 DEF TransferFailed, Row
  <2> QED
    BY <1>9, <2>2 DEF TransferFailed, AfterFailure, Row
<1>10. ASSUME NEW h \in Handlers, MarkPaid(h) PROVE TypeInv'
  BY <1>10 DEF MarkPaid
<1>11. ASSUME NEW h \in Handlers, HandlerDies(h) PROVE TypeInv'
  BY <1>11 DEF HandlerDies
<1>12. ASSUME NEW h \in Handlers, NEW p \in Requests, Retry(h, p) PROVE TypeInv'
  BY <1>12 DEF Retry
<1>13. ASSUME NEW p \in Requests, MarkPayoutPaid(p) PROVE TypeInv'
  BY <1>13 DEF MarkPayoutPaid
<1>14. ASSUME NEW p \in Requests, TransferReversed(p) PROVE TypeInv'
  BY <1>14 DEF TransferReversed
<1>15. ASSUME NEW n \in notice, Deliver(n) PROVE TypeInv'
  BY <1>15 DEF Deliver
<1>16. CASE UNCHANGED payoutVars
  BY <1>16 DEF payoutVars
<1> QED
  BY <1>1, <1>2, <1>3, <1>4, <1>5, <1>6, <1>7, <1>8, <1>9, <1>10, <1>11, <1>12, <1>13,
     <1>14, <1>15, <1>16 DEF PayoutsNext

\* Every variable of the payouts has its type.
THEOREM PayoutsTypes == ASSUME Bounds PROVE PayoutsSpec => []PayoutsTypeOK
<1>1. PayoutsInit => TypeInv
  BY InitType
<1>2. TypeInv /\ [PayoutsNext]_payoutVars => TypeInv'
  BY StepType
<1>3. TypeInv => PayoutsTypeOK
  BY DEF TypeInv
<1> QED
  BY <1>1, <1>2, <1>3, PTL DEF PayoutsSpec

-----------------------------------------------------------------------------
(* What the handlers know of the rows they work on, and what became of     *)
(* them at Stripe.                                                         *)

Started == \A h \in Handlers:
  step[h].at \in {"verify", "transfer", "store", "failed", "paid"} => payout[step[h].id].status # "none"

Backed ==
  /\ PaidIsTransferred
  /\ \A p \in Requests: payout[p].id => p \in transferred
  /\ \A h \in Handlers: step[h].at \in {"store", "paid"} => step[h].id \in transferred

LEMMA StepStarted == TypeInv /\ Started /\ [PayoutsNext]_payoutVars => Started'
<1> SUFFICES ASSUME TypeInv, Started, [PayoutsNext]_payoutVars PROVE Started'
  OBVIOUS
<1> USE DEF TypeInv, PayoutsTypeOK, HasRow, Started, stripe, Move, Rest, Resting, On
<1>1. CASE Earn
  BY <1>1 DEF Earn
<1>2. CASE AccountUpdated
  BY <1>2 DEF AccountUpdated
<1>3. CASE NewPayoutWeek
  BY <1>3 DEF NewPayoutWeek
<1>4. ASSUME NEW h \in Handlers, RequestOnDemandPayout(h) PROVE Started'
  BY <1>4 DEF RequestOnDemandPayout
<1>5. ASSUME NEW h \in Handlers, InsertPayout(h) PROVE Started'
  <2>1. CASE UNCHANGED <<wallet, payout>> /\ Rest(h)
    BY <1>5, <2>1 DEF InsertPayout
  <2>2. ASSUME NEW p \in Requests, payout' = [payout EXCEPT ![p] = NewRow],
               step' = [step EXCEPT ![h] = [at |-> "verify", id |-> p]]
        PROVE  Started'
    <3>1. payout'[p] = NewRow /\ \A q \in Requests \ {p}: payout'[q] = payout[q]
      BY <2>2
    <3>2. step'[h] = [at |-> "verify", id |-> p] /\ \A k \in Handlers \ {h}: step'[k] = step[k]
      BY <2>2
    <3>3. NewRow.status = "PENDING" /\ NewRow.id = FALSE
      BY DEF NewRow, NoRow
    <3>4. UNCHANGED <<transferred, byHand>>
      BY <1>5 DEF InsertPayout
    <3> QED
      BY <3>1, <3>2, <3>3, <3>4
  <2> QED
    BY <1>5, <2>1, <2>2 DEF InsertPayout
<1>6. ASSUME NEW h \in Handlers, VerifyAccount(h) PROVE Started'
  BY <1>6 DEF VerifyAccount
<1>7. ASSUME NEW h \in Handlers, CreateTransfer(h) PROVE Started'
  BY <1>7 DEF CreateTransfer, AtStripe
<1>8. ASSUME NEW h \in Handlers, StoreTransfer(h) PROVE Started'
  BY <1>8 DEF StoreTransfer
<1>9. ASSUME NEW h \in Handlers, TransferFailed(h) PROVE Started'
  BY <1>9 DEF TransferFailed, AfterFailure
<1>10. ASSUME NEW h \in Handlers, MarkPaid(h) PROVE Started'
  BY <1>10 DEF MarkPaid
<1>11. ASSUME NEW h \in Handlers, HandlerDies(h) PROVE Started'
  BY <1>11 DEF HandlerDies
<1>12. ASSUME NEW h \in Handlers, NEW p \in Requests, Retry(h, p) PROVE Started'
  BY <1>12 DEF Retry
<1>13. ASSUME NEW p \in Requests, MarkPayoutPaid(p) PROVE Started'
  BY <1>13 DEF MarkPayoutPaid
<1>14. ASSUME NEW p \in Requests, TransferReversed(p) PROVE Started'
  BY <1>14 DEF TransferReversed
<1>15. ASSUME NEW n \in notice, Deliver(n) PROVE Started'
  BY <1>15 DEF Deliver
<1>16. CASE UNCHANGED payoutVars
  BY <1>16 DEF payoutVars
<1> QED
  BY <1>1, <1>2, <1>3, <1>4, <1>5, <1>6, <1>7, <1>8, <1>9, <1>10, <1>11, <1>12, <1>13, <1>14, <1>15, <1>16 DEF PayoutsNext

LEMMA StepBacked == TypeInv /\ Backed /\ [PayoutsNext]_payoutVars => Backed'
<1> SUFFICES ASSUME TypeInv, Backed, [PayoutsNext]_payoutVars PROVE Backed'
  OBVIOUS
<1> USE DEF TypeInv, PayoutsTypeOK, HasRow, Backed, PaidIsTransferred, stripe, Move, Rest, Resting, On
<1>1. CASE Earn
  BY <1>1 DEF Earn
<1>2. CASE AccountUpdated
  BY <1>2 DEF AccountUpdated
<1>3. CASE NewPayoutWeek
  BY <1>3 DEF NewPayoutWeek
<1>4. ASSUME NEW h \in Handlers, RequestOnDemandPayout(h) PROVE Backed'
  BY <1>4 DEF RequestOnDemandPayout
<1>5. ASSUME NEW h \in Handlers, InsertPayout(h) PROVE Backed'
  <2>1. CASE UNCHANGED <<wallet, payout>> /\ Rest(h)
    BY <1>5, <2>1 DEF InsertPayout
  <2>2. ASSUME NEW p \in Requests, payout' = [payout EXCEPT ![p] = NewRow],
               step' = [step EXCEPT ![h] = [at |-> "verify", id |-> p]]
        PROVE  Backed'
    <3>1. payout'[p] = NewRow /\ \A q \in Requests \ {p}: payout'[q] = payout[q]
      BY <2>2
    <3>2. step'[h] = [at |-> "verify", id |-> p] /\ \A k \in Handlers \ {h}: step'[k] = step[k]
      BY <2>2
    <3>3. NewRow.status = "PENDING" /\ NewRow.id = FALSE
      BY DEF NewRow, NoRow
    <3>4. UNCHANGED <<transferred, byHand>>
      BY <1>5 DEF InsertPayout
    <3> QED
      BY <3>1, <3>2, <3>3, <3>4
  <2> QED
    BY <1>5, <2>1, <2>2 DEF InsertPayout
<1>6. ASSUME NEW h \in Handlers, VerifyAccount(h) PROVE Backed'
  BY <1>6 DEF VerifyAccount
<1>7. ASSUME NEW h \in Handlers, CreateTransfer(h) PROVE Backed'
  <2> DEFINE p == step[h].id
  <2>1. p \in Requests /\ transferred \subseteq transferred'
    BY <1>7 DEF CreateTransfer, AtStripe
  <2>2. step'[h].at \in {"store", "paid"} => step'[h].id \in transferred'
    BY <1>7 DEF CreateTransfer, AtStripe, Mishap
  <2>3. \A k \in Handlers \ {h}: step'[k] = step[k]
    BY <1>7 DEF CreateTransfer
  <2> QED
    BY <1>7, <2>1, <2>2, <2>3 DEF CreateTransfer
<1>8. ASSUME NEW h \in Handlers, StoreTransfer(h) PROVE Backed'
  BY <1>8 DEF StoreTransfer
<1>9. ASSUME NEW h \in Handlers, TransferFailed(h) PROVE Backed'
  BY <1>9 DEF TransferFailed, AfterFailure
<1>10. ASSUME NEW h \in Handlers, MarkPaid(h) PROVE Backed'
  BY <1>10 DEF MarkPaid
<1>11. ASSUME NEW h \in Handlers, HandlerDies(h) PROVE Backed'
  BY <1>11 DEF HandlerDies
<1>12. ASSUME NEW h \in Handlers, NEW p \in Requests, Retry(h, p) PROVE Backed'
  BY <1>12 DEF Retry
<1>13. ASSUME NEW p \in Requests, MarkPayoutPaid(p) PROVE Backed'
  BY <1>13 DEF MarkPayoutPaid
<1>14. ASSUME NEW p \in Requests, TransferReversed(p) PROVE Backed'
  BY <1>14 DEF TransferReversed
<1>15. ASSUME NEW n \in notice, Deliver(n) PROVE Backed'
  BY <1>15 DEF Deliver
<1>16. CASE UNCHANGED payoutVars
  BY <1>16 DEF payoutVars
<1> QED
  BY <1>1, <1>2, <1>3, <1>4, <1>5, <1>6, <1>7, <1>8, <1>9, <1>10, <1>11, <1>12, <1>13, <1>14, <1>15, <1>16 DEF PayoutsNext

\* A payout that is PAID was transferred or paid by hand: PAID is only written
\* by a handler that stored a transfer or found one stored, or by an admin.
THEOREM PaidWasTransferred == ASSUME Bounds PROVE PayoutsSpec => []PaidIsTransferred
<1>1. PayoutsInit => TypeInv /\ Backed
  BY InitType DEF PayoutsInit, Backed, PaidIsTransferred, Resting, NoRow
<1>2. TypeInv /\ Backed /\ [PayoutsNext]_payoutVars => TypeInv' /\ Backed'
  BY StepType, StepBacked
<1>3. TypeInv /\ Backed => PaidIsTransferred
  BY DEF Backed
<1> QED
  BY <1>1, <1>2, <1>3, PTL DEF PayoutsSpec

-----------------------------------------------------------------------------
(* One payout a week: the rows of this week, without counting them. *)

Single == \A p, q \in Requests: payout[p].thisWeek /\ payout[q].thisWeek => p = q

\* The flag of a row is raised by the transaction only.
LEMMA WeekStep ==
  ASSUME TypeInv, [PayoutsNext]_payoutVars
  PROVE  \/ \A p \in Requests: payout'[p].thisWeek => payout[p].thisWeek
         \/ /\ CanWithdraw
            /\ \E p \in Requests: payout' = [payout EXCEPT ![p] = NewRow]
<1> USE DEF TypeInv, PayoutsTypeOK, HasRow
<1>1. CASE NewPayoutWeek
  BY <1>1 DEF NewPayoutWeek
<1>2. ASSUME NEW h \in Handlers, InsertPayout(h)
      PROVE  UNCHANGED payout \/ (CanWithdraw /\ \E p \in Requests: payout' = [payout EXCEPT ![p] = NewRow])
  BY <1>2 DEF InsertPayout, Grantable
<1>3. ASSUME NEW h \in Handlers, VerifyAccount(h) PROVE \A p \in Requests: payout'[p].thisWeek = payout[p].thisWeek
  BY <1>3 DEF VerifyAccount, Move, Rest, On
<1>4. ASSUME NEW h \in Handlers, StoreTransfer(h) PROVE \A p \in Requests: payout'[p].thisWeek = payout[p].thisWeek
  BY <1>4 DEF StoreTransfer, Move, On
<1>5. ASSUME NEW h \in Handlers, TransferFailed(h) PROVE \A p \in Requests: payout'[p].thisWeek = payout[p].thisWeek
  BY <1>5 DEF TransferFailed, AfterFailure, Rest, On
<1>6. ASSUME NEW h \in Handlers, MarkPaid(h) PROVE \A p \in Requests: payout'[p].thisWeek = payout[p].thisWeek
  BY <1>6 DEF MarkPaid, Rest, On
<1>7. ASSUME NEW p \in Requests, MarkPayoutPaid(p) PROVE \A q \in Requests: payout'[q].thisWeek = payout[q].thisWeek
  BY <1>7 DEF MarkPayoutPaid
<1>8. ASSUME NEW n \in notice, Deliver(n) PROVE \A p \in Requests: payout'[p].thisWeek = payout[p].thisWeek
  BY <1>8 DEF Deliver
<1>9. ASSUME NEW h \in Handlers,
             \/ RequestOnDemandPayout(h) \/ CreateTransfer(h) \/ HandlerDies(h) \/ \E p \in Requests: Retry(h, p)
      PROVE  UNCHANGED payout
  BY <1>9 DEF RequestOnDemandPayout, CreateTransfer, HandlerDies, Retry
<1>10. CASE Earn \/ AccountUpdated \/ (\E p \in Requests: TransferReversed(p)) \/ UNCHANGED payoutVars
  BY <1>10 DEF Earn, AccountUpdated, TransferReversed, payoutVars
<1> QED
  BY <1>1, <1>2, <1>3, <1>4, <1>5, <1>6, <1>7, <1>8, <1>9, <1>10 DEF PayoutsNext

LEMMA StepSingle == TypeInv /\ Single /\ [PayoutsNext]_payoutVars => Single'
<1> SUFFICES ASSUME TypeInv, Single, [PayoutsNext]_payoutVars PROVE Single'
  OBVIOUS
<1>1. CASE \A p \in Requests: payout'[p].thisWeek => payout[p].thisWeek
  BY <1>1 DEF Single
<1>2. ASSUME CanWithdraw, NEW p \in Requests, payout' = [payout EXCEPT ![p] = NewRow]
      PROVE  Single'
  <2>1. \A q \in Requests \ {p}: payout'[q] = payout[q]
    BY <1>2 DEF TypeInv, PayoutsTypeOK
  <2> QED
    BY <2>1, <1>2 DEF Single, CanWithdraw
<1> QED
  BY <1>1, <1>2, WeekStep

\* A driver withdraws once a week: the transaction asks again, with the lock.
THEOREM WeeklyLimit == ASSUME Bounds PROVE PayoutsSpec => []OnePayoutAWeek
<1>1. PayoutsInit => TypeInv /\ Single
  BY InitType DEF PayoutsInit, Single, NoRow
<1>2. TypeInv /\ Single /\ [PayoutsNext]_payoutVars => TypeInv' /\ Single'
  BY StepType, StepSingle
<1>3. Single => OnePayoutAWeek
  <2> SUFFICES ASSUME Single PROVE OnePayoutAWeek
    OBVIOUS
  <2> DEFINE Week == {p \in Requests: payout[p].thisWeek}
  <2>1. CASE Week = {}
    BY <2>1, FS_EmptySet DEF OnePayoutAWeek
  <2>2. ASSUME NEW p \in Week PROVE OnePayoutAWeek
    <3>1. Week = {p}
      BY <2>2 DEF Single
    <3>2. Cardinality({p}) = 1
      BY FS_Singleton
    <3> QED
      BY <3>1, <3>2 DEF OnePayoutAWeek
  <2> QED
    BY <2>1, <2>2
<1> QED
  BY <1>1, <1>2, <1>3, PTL DEF PayoutsSpec

-----------------------------------------------------------------------------
(* The driver's money. *)

\* A step earns a ride's worth, or moves the price of one new payout out of
\* the wallet, or moves no money.
LEMMA MoneyStep ==
  ASSUME TypeInv, Started, [PayoutsNext]_payoutVars
  PROVE  \/ rides' = rides + 1 /\ wallet' = wallet + Earnings /\ Requested' = Requested
         \/ /\ rides' = rides /\ wallet' = wallet - Price
            /\ \E p \in Requests \ Requested: Requested' = Requested \cup {p}
         \/ rides' = rides /\ wallet' = wallet /\ Requested' = Requested
<1> USE DEF TypeInv, PayoutsTypeOK, HasRow
<1> DEFINE Still == rides' = rides /\ wallet' = wallet /\ Requested' = Requested
<1>1. CASE NewPayoutWeek
  BY <1>1 DEF NewPayoutWeek, Requested
<1>2. ASSUME NEW h \in Handlers, InsertPayout(h)
      PROVE  \/ Still
             \/ /\ rides' = rides /\ wallet' = wallet - Price
                /\ \E p \in Requests \ Requested: Requested' = Requested \cup {p}
  <2>1. CASE UNCHANGED <<wallet, payout>>
    BY <1>2, <2>1 DEF InsertPayout, Requested
  <2>2. ASSUME NEW p \in Requests, payout[p].status = "none",
               payout' = [payout EXCEPT ![p] = NewRow], wallet' = Debited
        PROVE  /\ rides' = rides /\ wallet' = wallet - Price
               /\ p \in Requests \ Requested /\ Requested' = Requested \cup {p}
    <3>1. payout'[p].status = "PENDING" /\ \A q \in Requests \ {p}: payout'[q] = payout[q]
      BY <2>2 DEF NewRow, NoRow
    <3> QED
      BY <1>2, <2>2, <3>1 DEF InsertPayout, Requested, Debited
  <2> QED
    BY <1>2, <2>1, <2>2 DEF InsertPayout
<1>3. ASSUME NEW h \in Handlers, VerifyAccount(h) PROVE Still
  <2>1. \A q \in Requests: payout'[q].status = payout[q].status
    BY <1>3 DEF VerifyAccount, On
  <2> QED
    BY <1>3, <2>1 DEF VerifyAccount, Requested
<1>4. ASSUME NEW h \in Handlers, StoreTransfer(h) PROVE Still
  BY <1>4 DEF StoreTransfer, Move, On, Requested
<1>5. ASSUME NEW h \in Handlers, TransferFailed(h) PROVE Still
  BY <1>5 DEF TransferFailed, AfterFailure, Rest, On, Requested
<1>6. ASSUME NEW h \in Handlers, MarkPaid(h) PROVE Still
  <2> DEFINE p == step[h].id
  <2>1. p \in Requests /\ payout[p].status # "none"
    BY <1>6 DEF MarkPaid, On, Started
  <2>2. payout'[p].status = "PAID" /\ \A q \in Requests \ {p}: payout'[q] = payout[q]
    BY <1>6, <2>1 DEF MarkPaid
  <2> QED
    BY <1>6, <2>1, <2>2 DEF MarkPaid, Requested
<1>7. ASSUME NEW p \in Requests, MarkPayoutPaid(p) PROVE Still
  BY <1>7 DEF MarkPayoutPaid, Requested
<1>8. ASSUME NEW n \in notice, Deliver(n) PROVE Still
  BY <1>8 DEF Deliver, Requested
<1>9. ASSUME NEW h \in Handlers,
             \/ RequestOnDemandPayout(h) \/ CreateTransfer(h) \/ HandlerDies(h) \/ \E p \in Requests: Retry(h, p)
      PROVE  Still
  BY <1>9 DEF RequestOnDemandPayout, CreateTransfer, HandlerDies, Retry, Requested
<1>10. CASE AccountUpdated \/ (\E p \in Requests: TransferReversed(p)) \/ UNCHANGED payoutVars
  BY <1>10 DEF AccountUpdated, TransferReversed, payoutVars, Requested
<1>11. CASE Earn
  BY <1>11 DEF Earn, Requested
<1> QED
  BY <1>1, <1>2, <1>3, <1>4, <1>5, <1>6, <1>7, <1>8, <1>9, <1>10, <1>11 DEF PayoutsNext

\* What was earned is in the wallet or in a payout, for any prices and fees.
THEOREM EarningsAccounted == ASSUME Bounds, IsFiniteSet(Requests) PROVE PayoutsSpec => []NothingLost
<1>1. PayoutsInit => TypeInv /\ Started /\ NothingLost
  <2> SUFFICES ASSUME PayoutsInit PROVE TypeInv /\ Started /\ NothingLost
    OBVIOUS
  <2>1. Requested = {}
    BY DEF PayoutsInit, Requested, NoRow
  <2>2. Cardinality(Requested) = 0
    BY <2>1, FS_EmptySet
  <2> QED
    BY <2>2, InitType DEF PayoutsInit, Started, NothingLost, Resting, Bounds
<1>2. TypeInv /\ Started /\ NothingLost /\ [PayoutsNext]_payoutVars => NothingLost'
  <2> SUFFICES ASSUME TypeInv, Started, NothingLost, [PayoutsNext]_payoutVars PROVE NothingLost'
    OBVIOUS
  <2>1. IsFiniteSet(Requested) /\ Cardinality(Requested) \in Nat
    BY FS_Subset, FS_CardinalityType DEF Requested
  <2>2. wallet \in Nat /\ rides \in Nat
    BY DEF TypeInv, PayoutsTypeOK, Bounds
  <2>3. CASE rides' = rides + 1 /\ wallet' = wallet + Earnings /\ Requested' = Requested
    BY <2>1, <2>2, <2>3 DEF NothingLost, Bounds
  <2>4. CASE rides' = rides /\ wallet' = wallet /\ Requested' = Requested
    BY <2>4 DEF NothingLost
  <2>5. ASSUME rides' = rides, wallet' = wallet - Price,
               NEW p \in Requests \ Requested, Requested' = Requested \cup {p}
        PROVE  NothingLost'
    <3>1. Cardinality(Requested') = Cardinality(Requested) + 1
      BY <2>1, <2>5, FS_AddElement
    <3>2. \A n \in Nat: Price * (n + 1) = Price * n + Price
      BY DEF Bounds
    <3> QED
      BY <2>1, <2>2, <2>5, <3>1, <3>2 DEF NothingLost, Bounds
  <2> QED
    BY <2>3, <2>4, <2>5, MoneyStep
<1>3. TypeInv /\ Started /\ NothingLost /\ [PayoutsNext]_payoutVars => TypeInv' /\ Started' /\ NothingLost'
  BY <1>2, StepType, StepStarted
<1> QED
  BY <1>1, <1>3, PTL DEF PayoutsSpec

=============================================================================
