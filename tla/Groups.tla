------------------------------- MODULE Groups -------------------------------
(***************************************************************************)
(* A group ride from the invitations to the end of the ride: who is in it, *)
(* what invalidates the fare quote, how the quote is made and booked, and  *)
(* how the group follows its ride.  GroupPayments has the money.           *)
(***************************************************************************)
EXTENDS GroupPayments

CONSTANTS
  Host,           \* who creates the group
  MaxParticipants,
  MaxVersion      \* configuration changes

ASSUME HostAssumption == Host \in Users

VARIABLES
  pickup,         \* users whose pickup is set
  invited,        \* user -> status of the last invitation
  ride,           \* the ride row the group names, and the quote it consumed
  reopened        \* history: a quote was made for the group after it was closed

vars == <<moneyVars, pickup, invited, ride, reopened>>

Live == {"REQUESTED", "ACCEPTED", "IN_PROGRESS"}

Init ==
  /\ MoneyInit
  /\ \E friends \in SUBSET (Users \ {Host}):
       /\ member = [u \in Users |-> IF u \in friends \cup {Host} THEN "JOINED" ELSE "none"]
       /\ group = [status |-> IF friends = {} THEN "COLLECTING_MEMBERS" ELSE "CONFIGURING",
                   host |-> Host, version |-> 0, quote |-> None]
       /\ pickup \in SUBSET (friends \cup {Host})
  /\ invited = [u \in Users |-> "none"]
  /\ ride = [status |-> "none", quote |-> None, planned |-> FALSE]
  /\ reopened = FALSE

groupRest == <<late, credits, returned, charge, faults, again, raced, lapsed, reopened>>

Active == {u \in Users: member[u] = "JOINED"}

\* requireMembership.
Belongs(u) == member[u] \in {"JOINED", "PICKED_UP", "COMPLETED", "CANCELLED", "NO_SHOW"}

ActiveQuote == {q \in Quotes: quote[q] = "ACTIVE"}

Invalidated(p) ==
  [r \in Rows |-> IF r[1] \in ActiveQuote /\ p[r].status \in {"PENDING", "PROCESSING", "FAILED"}
                    THEN [p[r] EXCEPT !.status = "CANCELLED"] ELSE p[r]]

Bump(g) == [g EXCEPT !.version = @ + 1]

Reopened(g) == IF g.status \in Configurable
                 THEN [g EXCEPT !.quote = None, !.status = "CONFIGURING"] ELSE g

\* Handler h changes the configuration: the group becomes g, its version goes
\* up and invalidateActiveQuote follows, in one transaction; then the refund.
Reconfigure(h, g) ==
  /\ On(h, "idle") /\ Unlocked
  /\ group.version < MaxVersion
  /\ IF ActiveQuote = {}
       THEN group' = Bump(g) /\ UNCHANGED <<quote, pay, work>>
       ELSE /\ group' = Reopened(Bump(g))
            /\ quote' = [q \in Quotes |-> IF q \in ActiveQuote THEN "SUPERSEDED" ELSE quote[q]]
            /\ pay' = Invalidated(pay)
            /\ \E q \in ActiveQuote: work' = [work EXCEPT ![h] = [Idle EXCEPT !.at = "select", !.quote = q]]
  /\ UNCHANGED groupRest

-----------------------------------------------------------------------------
(* Members and configuration. *)

Pending == {u \in Users: invited[u] = "PENDING"}

InviteFriend(u) ==
  /\ Unlocked
  /\ group.status \notin RideActive
  /\ Belongs(group.host)
  /\ u \notin Active \cup Pending
  /\ Cardinality(Active) + Cardinality(Pending) < MaxParticipants
  /\ invited' = [invited EXCEPT ![u] = "PENDING"]
  /\ UNCHANGED <<moneyVars, pickup, ride, reopened>>

\* declineInvitation, cancelInvitation, or the invitation's expiry.
CloseInvitation(u) ==
  /\ u \in Pending
  /\ invited' = [invited EXCEPT ![u] = "closed"]
  /\ UNCHANGED <<moneyVars, pickup, ride, reopened>>

Joined(g) == IF g.status = "COLLECTING_MEMBERS" THEN [g EXCEPT !.status = "CONFIGURING"] ELSE g

AcceptInvitation(h, u) ==
  /\ u \in Pending
  /\ Stays
  /\ Cardinality(Active) < MaxParticipants
  /\ member[u] # "REMOVED"
  /\ member' = [member EXCEPT ![u] = "JOINED"]
  /\ invited' = [invited EXCEPT ![u] = "ACCEPTED"]
  /\ Reconfigure(h, Joined(group))
  /\ UNCHANGED <<pickup, ride>>

RemoveMember(h, u) ==
  /\ group.status \notin RideActive
  /\ Belongs(group.host)
  /\ u \in Active /\ u # group.host
  /\ member' = [member EXCEPT ![u] = "REMOVED"]
  /\ Reconfigure(h, group)
  /\ UNCHANGED <<pickup, invited, ride>>

\* The host hands the role to who joined next, or disbands the group.
LeaveGroup(h, u) ==
  LET others == Active \ {u} IN
  /\ Belongs(u)
  /\ group.status \notin RideActive
  /\ member' = [member EXCEPT ![u] = "LEFT"]
  /\ \/ /\ u # group.host
        /\ Reconfigure(h, group)
        /\ UNCHANGED invited
     \/ /\ u = group.host /\ others # {}
        /\ \E v \in others: Reconfigure(h, [group EXCEPT !.host = v])
        /\ UNCHANGED invited
     \/ /\ u = group.host /\ others = {}
        /\ Reconfigure(h, [group EXCEPT !.status = "CANCELLED"])
        /\ invited' = [v \in Users |-> IF v \in Pending THEN "closed" ELSE invited[v]]
  /\ UNCHANGED <<pickup, ride>>

SetPickup(h, u) ==
  /\ Belongs(u)
  /\ Stays
  /\ pickup' = pickup \cup {u}
  /\ Reconfigure(h, group)
  /\ UNCHANGED <<member, invited, ride>>

SetDestination(h) ==
  /\ Belongs(group.host)
  /\ Stays
  /\ Reconfigure(h, Joined(group))
  /\ UNCHANGED <<member, pickup, invited, ride>>

-----------------------------------------------------------------------------
(* Quotes. *)

\* loadQuoteContext and the routing call: nothing is locked.
LoadQuoteContext(h) ==
  /\ On(h, "idle")
  /\ Belongs(group.host)
  /\ group.status \notin Final
  /\ Active # {} /\ Active \subseteq pickup /\ group.host \in Active
  /\ work' = [work EXCEPT ![h] = [Idle EXCEPT !.at = "quote", !.members = Active,
                                             !.version = group.version]]
  /\ UNCHANGED <<group, member, quote, pay, groupRest, pickup, invited, ride>>

\* Mutant of SameConfiguration: the version is not compared.
SameConfigurationAny(h) == TRUE

SameConfiguration(h) == work[h].version = group.version

\* createQuote's transaction, which looks at the version and at whether a ride
\* is on, and not at whether the group was closed meanwhile.
CreateQuote(h) ==
  /\ On(h, "quote") /\ Unlocked
  /\ \/ /\ group.status \notin RideActive /\ Belongs(group.host) /\ SameConfiguration(h)
        /\ \E q \in Quotes, method \in Methods:
             /\ quote[q] = "none"
             /\ \E share \in Shares(method, group.host, work[h].members):
                  /\ pay' = [r \in Rows |->
                       IF r[1] = q /\ r[2] \in work[h].members
                         THEN [NoPayment EXCEPT !.amount = share[r[2]],
                                 !.status = IF share[r[2]] > 0 THEN "PENDING" ELSE "NOT_REQUIRED"]
                         ELSE Invalidated(pay)[r]]
                  /\ group' = [Bump(group) EXCEPT !.quote = q,
                       !.status = IF \A u \in work[h].members: share[u] = 0
                                    THEN "READY_TO_REQUEST" ELSE "AWAITING_PAYMENT"]
             /\ quote' = [p \in Quotes |-> IF p = q THEN "ACTIVE"
                                           ELSE IF p \in ActiveQuote THEN "SUPERSEDED" ELSE quote[p]]
        /\ reopened' = (reopened \/ group.status \in Final)
        /\ IF ActiveQuote = {} THEN Rest(h)
           ELSE \E p \in ActiveQuote: work' = [work EXCEPT ![h] = [Idle EXCEPT !.at = "select", !.quote = p]]
     \/ /\ group.status \in RideActive \/ ~ SameConfiguration(h) \/ ~ Belongs(group.host)
        /\ Rest(h)
        /\ UNCHANGED <<group, quote, pay, reopened>>
  /\ UNCHANGED <<member, late, credits, returned, charge, faults, again, raced, lapsed, pickup, invited, ride>>

-----------------------------------------------------------------------------
(* The booking (requestRide). *)

\* Mutant of Payable: nothing looks at the payments.
PayableUnchecked(q) == TRUE

\* Every share is confirmed and the totals reconcile.
Payable(q) ==
  /\ \A u \in Required(q): pay[<<q, u>>].status = "SUCCEEDED"
  /\ Weight([u \in Users |-> pay[<<q, u>>].credit + pay[<<q, u>>].card]) = Total

\* The checks, under the locks of the group and the quote.
RequestRide(h) ==
  LET q == group.quote IN
  /\ On(h, "idle") /\ Unlocked
  /\ Belongs(group.host)
  /\ ride.status \notin Live
  /\ group.status \in {"AWAITING_PAYMENT", "READY_TO_REQUEST", "CONFIGURING"}
  /\ q # None /\ quote[q] = "ACTIVE" /\ q \notin late
  /\ Payable(q)
  /\ group.host \in Active
  /\ work' = [work EXCEPT ![h] = [Idle EXCEPT !.at = "book", !.quote = q]]
  /\ UNCHANGED <<group, member, quote, pay, groupRest, pickup, invited, ride>>

\* An expired quote that was asked for is marked, after the rollback.
RequestExpired(h) ==
  LET q == group.quote IN
  /\ On(h, "idle") /\ Unlocked
  /\ Belongs(group.host)
  /\ ride.status \notin Live
  /\ group.status \in {"AWAITING_PAYMENT", "READY_TO_REQUEST", "CONFIGURING"}
  /\ q # None /\ quote[q] = "ACTIVE" /\ q \in late
  /\ quote' = [quote EXCEPT ![q] = "EXPIRED"]
  /\ work' = [work EXCEPT ![h] = [Idle EXCEPT !.at = "select", !.quote = q]]
  /\ UNCHANGED <<group, member, pay, groupRest, pickup, invited, ride>>

Book(h) ==
  LET q == work[h].quote IN
  /\ On(h, "book")
  /\ ride' = [ride EXCEPT !.status = "REQUESTED", !.quote = q]
  /\ quote' = [quote EXCEPT ![q] = "CONSUMED"]
  /\ group' = [group EXCEPT !.status = "DRIVER_MATCHING"]
  /\ Rest(h)
  /\ UNCHANGED <<member, pay, groupRest, pickup, invited>>

\* cancelGroup: the group is closed, then its ride is cancelled or its quotes
\* are refunded one by one.  The quotes keep their status.
CancelGroup(h) ==
  /\ On(h, "idle") /\ Unlocked
  /\ Belongs(group.host)
  /\ group.status \notin Final
  /\ group' = [group EXCEPT !.status = "CANCELLED"]
  /\ invited' = [u \in Users |-> IF u \in Pending THEN "closed" ELSE invited[u]]
  /\ Goto(h, IF ride.status = "none" THEN "selectQuotes" ELSE "cancelRide")
  /\ UNCHANGED <<member, quote, pay, groupRest, pickup, ride>>

-----------------------------------------------------------------------------
(* The ride, as ride.service.ts moves it, and the group behind it. *)

rideRest == <<quote, pay, groupRest, pickup, invited>>

\* acceptTrip; its hook follows.
AcceptTrip(h) ==
  /\ On(h, "idle")
  /\ ride.status = "REQUESTED"
  /\ ride' = [ride EXCEPT !.status = "ACCEPTED"]
  /\ Goto(h, "assigned")
  /\ UNCHANGED <<group, member, rideRest>>

Aboard == {u \in Users: member[u] \in {"JOINED", "PICKED_UP"}}

\* onDriverAssigned: a route from the driver, a fresh pickup flow.  Without a
\* route, or anyone to pick up, nothing is written.
OnDriverAssigned(h) ==
  /\ On(h, "assigned") /\ Unlocked
  /\ Rest(h)
  /\ \/ /\ Fault \/ (Aboard = {} /\ UNCHANGED faults)
        /\ UNCHANGED <<group, member, ride>>
     \/ /\ Aboard # {}
        /\ member' = [u \in Users |-> IF member[u] = "PICKED_UP" THEN "JOINED" ELSE member[u]]
        /\ group' = IF group.status \in {"DRIVER_MATCHING", "DRIVER_ASSIGNED"}
                      THEN [group EXCEPT !.status = "DRIVER_ASSIGNED"] ELSE group
        /\ ride' = [ride EXCEPT !.planned = TRUE]
        /\ UNCHANGED faults
  /\ UNCHANGED <<quote, late, pay, credits, returned, charge, again, raced, lapsed, pickup, invited, reopened>>

\* A driver who cancels before anyone is on board frees the ride for another.
ReleaseByDriver(h) ==
  /\ On(h, "idle")
  /\ ride.status = "ACCEPTED"
  /\ \A u \in Users: member[u] # "PICKED_UP"
  /\ ride' = [ride EXCEPT !.status = "REQUESTED"]
  /\ Goto(h, "released")
  /\ UNCHANGED <<group, member, rideRest>>

OnReleased(h) ==
  /\ On(h, "released") /\ Unlocked
  /\ group' = IF group.status = "DRIVER_ASSIGNED" THEN [group EXCEPT !.status = "DRIVER_MATCHING"] ELSE group
  /\ Rest(h)
  /\ UNCHANGED <<member, rideRest, ride>>

InPlan == {u \in Users: member[u] \in {"JOINED", "PICKED_UP", "NO_SHOW"}}
Resolved(m) == \A u \in InPlan: m[u] \in {"PICKED_UP", "NO_SHOW"}

\* resolvePickupOutcome: one passenger is on board or a no-show.  Who resolves
\* the last one, and who taps again later, starts the trip.  (Its SELECT names a
\* column, full_name, that no migration gives ride_group_members; on such a
\* table the call fails and nothing happens.  The properties are invariants, so
\* that they hold either way.)
ResolvePickup(h, u) ==
  /\ On(h, "idle") /\ Unlocked
  /\ ride.status = "ACCEPTED" /\ ride.planned
  /\ \/ /\ member[u] = "JOINED"
        /\ \E outcome \in {"PICKED_UP", "NO_SHOW"}: member' = [member EXCEPT ![u] = outcome]
        /\ IF Resolved(member') THEN Goto(h, "start") ELSE UNCHANGED work
     \/ /\ InPlan # {} /\ Resolved(member)
        /\ Goto(h, "restart")
        /\ UNCHANGED member
  /\ UNCHANGED <<group, rideRest, ride>>

\* updateTripStatus, which refuses unless the ride is ACCEPTED.
StartTrip(h) ==
  /\ On(h, "start") \/ On(h, "restart")
  /\ IF ride.status = "ACCEPTED"
       THEN /\ ride' = [ride EXCEPT !.status = "IN_PROGRESS"]
            /\ Goto(h, IF On(h, "start") THEN "started" ELSE "restarted")
       ELSE Rest(h) /\ UNCHANGED ride
  /\ UNCHANGED <<group, member, rideRest>>

\* pickUpRider, which starts any ride of the driver: the group is not told.
PickUpRider ==
  /\ ride.status = "ACCEPTED"
  /\ ride' = [ride EXCEPT !.status = "IN_PROGRESS"]
  /\ UNCHANGED <<moneyVars, pickup, invited, reopened>>

\* The group follows; unguarded, except on the recovery path.
OnStarted(h) ==
  /\ On(h, "started") \/ On(h, "restarted")
  /\ Unlocked
  /\ group' = IF On(h, "started") \/ group.status \in {"DRIVER_MATCHING", "DRIVER_ASSIGNED"}
                THEN [group EXCEPT !.status = "IN_PROGRESS"] ELSE group
  /\ Rest(h)
  /\ UNCHANGED <<member, rideRest, ride>>

CompleteTrip(h) ==
  /\ On(h, "idle")
  /\ ride.status \in {"ACCEPTED", "IN_PROGRESS"}
  /\ ride' = [ride EXCEPT !.status = "COMPLETED"]
  /\ Goto(h, "completed")
  /\ UNCHANGED <<group, member, rideRest>>

OnRideCompleted(h) ==
  /\ On(h, "completed") /\ Unlocked
  /\ IF group.status \in Final THEN UNCHANGED <<group, member>>
     ELSE /\ group' = [group EXCEPT !.status = "COMPLETED"]
          /\ member' = [u \in Users |-> IF member[u] = "PICKED_UP" THEN "COMPLETED" ELSE member[u]]
  /\ Rest(h)
  /\ UNCHANGED <<rideRest, ride>>

\* The rider, the driver with someone on board, a watchdog or cancelGroup, which
\* does nothing more when the ride is over already.
CancelTrip(h) ==
  /\ On(h, "idle") \/ On(h, "cancelRide")
  /\ \/ /\ ride.status \in Live
        /\ ride' = [ride EXCEPT !.status = "CANCELLED"]
        /\ Goto(h, "cancelled")
     \/ On(h, "cancelRide") /\ ride.status \notin Live /\ Rest(h) /\ UNCHANGED ride
  /\ UNCHANGED <<group, member, rideRest>>

OnRideCancelled(h) ==
  /\ On(h, "cancelled") /\ Unlocked
  /\ IF group.status \in Final THEN UNCHANGED <<group, member>>
     ELSE /\ group' = [group EXCEPT !.status = "CANCELLED"]
          /\ member' = [u \in Users |-> IF member[u] \in {"PICKED_UP", "JOINED"} THEN "CANCELLED" ELSE member[u]]
  /\ Goto(h, "selectAll")
  /\ UNCHANGED <<rideRest, ride>>

\* matchRide gives up: the ride is cancelled and no hook is called.
NoDriver ==
  /\ ride.status = "REQUESTED"
  /\ ride' = [ride EXCEPT !.status = "CANCELLED"]
  /\ UNCHANGED <<moneyVars, pickup, invited, reopened>>

-----------------------------------------------------------------------------
Next ==
  \/ MoneyNext /\ UNCHANGED <<pickup, invited, ride, reopened>>
  \/ \E h \in Procs:
       \/ SetDestination(h) \/ LoadQuoteContext(h) \/ CreateQuote(h)
       \/ RequestRide(h) \/ RequestExpired(h) \/ Book(h) \/ CancelGroup(h)
       \/ AcceptTrip(h) \/ OnDriverAssigned(h) \/ ReleaseByDriver(h) \/ OnReleased(h)
       \/ StartTrip(h) \/ OnStarted(h) \/ CompleteTrip(h) \/ OnRideCompleted(h)
       \/ CancelTrip(h) \/ OnRideCancelled(h)
       \/ \E u \in Users:
            \/ AcceptInvitation(h, u) \/ RemoveMember(h, u) \/ LeaveGroup(h, u)
            \/ SetPickup(h, u) \/ ResolvePickup(h, u)
  \/ \E u \in Users: InviteFriend(u) \/ CloseInvitation(u)
  \/ NoDriver \/ PickUpRider

Spec == Init /\ [][Next]_vars

-----------------------------------------------------------------------------
(* What the group and its money promise. *)

PaymentType ==
  [status: {"none", "NOT_REQUIRED", "PENDING", "PROCESSING", "SUCCEEDED", "FAILED", "CANCELLED", "REFUNDED"},
   amount: 0..Total, credit: 0..Total, card: 0..Total,
   charge: 0..MaxAttempts, attempts: 0..MaxAttempts]

ChargeType ==
  [local: {"none", "PENDING", "SUCCEEDED", "FAILED", "REFUNDED"}, intent: BOOLEAN,
   stripe: {"none", "paid", "declined", "refunded"},
   event: {"none", "succeeded", "failed"}]

WorkAt ==
  {"idle", "charge", "record", "recordFailure", "update", "decline", "succeeded", "failed",
   "select", "selectAll", "selectQuotes", "selectEach", "refund", "skip", "credit", "creditOnly", "mark", "expire", "quote", "book",
   "assigned", "released", "start", "restart", "started", "restarted", "completed",
   "cancelRide", "cancelled"}

SnapshotType == [row: Rows, charge: 0..MaxAttempts, credit: 0..Total]

WorkType ==
  [at: WorkAt, row: Rows \cup {None}, n: 0..MaxAttempts, quote: Quotes \cup {None},
   todo: SUBSET SnapshotType, left: SUBSET Quotes, members: SUBSET Users, version: Nat]

\* Every variable has its type.
TypeOK ==
  /\ group \in [status: Configurable \cup RideActive \cup Final, host: Users,
                version: Nat, quote: Quotes \cup {None}]
  /\ member \in [Users -> {"none", "JOINED", "REMOVED", "LEFT", "PICKED_UP", "NO_SHOW", "COMPLETED", "CANCELLED"}]
  /\ quote \in [Quotes -> {"none", "ACTIVE", "SUPERSEDED", "EXPIRED", "CONSUMED"}]
  /\ late \subseteq Quotes
  /\ pay \in [Rows -> PaymentType]
  /\ credits \in [Users -> Nat]
  /\ returned \subseteq Rows
  /\ charge \in [Rows \X Attempts -> ChargeType]
  /\ work \in [Procs -> WorkType]
  /\ faults \in 0..MaxFaults
  /\ again \subseteq raced /\ raced \subseteq Rows
  /\ lapsed \subseteq Quotes
  /\ pickup \subseteq Users
  /\ invited \in [Users -> {"none", "PENDING", "ACCEPTED", "closed"}]
  /\ ride \in [status: {"none", "CANCELLED", "COMPLETED"} \cup Live, quote: Quotes \cup {None}, planned: BOOLEAN]
  /\ reopened \in BOOLEAN

Participants(q) == {u \in Users: pay[<<q, u>>].status # "none"}
Paid(r) == {n \in Attempts: charge[<<r, n>>].stripe = "paid"}

\* Until a ride is booked, the quote of an open group has a share for everyone
\* who is in it and none for anyone who left or was removed, and the shares add
\* up to the fare to the cent: a change of the configuration during the routing
\* call or the payments never leaves an outdated split in force.
QuoteCoversMembers ==
  group.quote \in {q \in Quotes: quote[q] = "ACTIVE"} /\ Stays /\ ride.status = "none" =>
    /\ Active \subseteq Participants(group.quote)
    /\ \A u \in Participants(group.quote): member[u] \notin {"none", "LEFT", "REMOVED"}
    /\ Weight([u \in Users |-> pay[<<group.quote, u>>].amount]) = Total

\* A ride is on the road only for a group that is not closed, except while the
\* handler that closed it cancels the ride, and only while every share of its
\* quote is held, whatever was retried, answered late or refunded meanwhile: in
\* credits that were not returned and a card charge that was not refunded.  The
\* code breaks this in two ways, which are left out: createQuote opens a group
\* again that was closed during its routing call (reopened), and getGroup, which
\* read the quote as expired before it was booked, refunds it all the same
\* (lapsed).
BookedIsPaid ==
  ride.status \in Live /\ ~ reopened /\ ride.quote \notin lapsed =>
    /\ group.status \in Final => faults > 0 \/ \E h \in Procs: On(h, "cancelRide")
    /\ \A u \in Required(ride.quote):
         LET r == <<ride.quote, u>> IN
         /\ pay[r].credit + pay[r].card = pay[r].amount
         /\ pay[r].credit > 0 => r \notin returned
         /\ pay[r].card > 0 => Paid(r) # {}

\* A share has one card charge at most, through any refunds, late events, sweeps
\* and quotes, as long as it was never confirmed again while a charge of it was
\* open: in flight, or paid with the row not saying so.  A share that was (after
\* a lost or late answer, two minutes, or on the failure of an earlier attempt,
\* whose id the row still carries) the code may charge twice.
NeverChargedTwice == \A r \in Rows \ again: Cardinality(Paid(r)) <= 1

\* Credits move between the balance and the shares and nowhere else: what the
\* refunds, repeated and concurrent, put back is what was taken.
CreditsConserved ==
  \A u \in Users:
    credits[u] + Weight([q \in Quotes |-> IF <<q, u>> \in returned THEN 0 ELSE pay[<<q, u>>].credit])
      \in Openings

\* Stripe's word that r is paid is still to come, or is being applied.
Announced(r) ==
  \/ \E n \in Attempts: charge[<<r, n>>].event = "succeeded"
  \/ \E h \in Procs: On(h, "succeeded") /\ work[h].row = r

\* A share of a replaced or expired quote that still holds credits or a card
\* charge is one the sweep finds, or one whose payment Stripe has still to
\* announce: none is closed or marked as refunded with money on it.  Left out are
\* the groups that a quote reopened and the raced shares.  The code does forget
\* the charge of a share that was refunded or confirmed again while that charge
\* was open, or whose success was announced to a handler that died or while the
\* row named another charge.
NoMoneyForgotten ==
  ~ reopened => \A r \in Rows \ raced:
    /\ quote[r[1]] \in {"SUPERSEDED", "EXPIRED"}
    /\ Paid(r) # {} \/ (pay[r].credit > 0 /\ r \notin returned)
    => Refundable(r) \/ Announced(r)

=============================================================================
