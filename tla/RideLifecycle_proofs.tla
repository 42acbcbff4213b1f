----------------------- MODULE RideLifecycle_proofs -----------------------
(* The properties of RideLifecycle hold for every set of rides, drivers and  *)
(* riders.  IInv is inductive: the driver column follows the status only     *)
(* because rows are typed, and one active ride per rider, group bookings     *)
(* aside, follows from the guard of Request and from the fact that no other  *)
(* action but a group booking's INSERT makes a row active that was not:      *)
(* Release does return a row to REQUESTED, but only an engaged one, which    *)
(* already held its rider's slot.                                            *)
EXTENDS RideLifecycle, TLAPS

IInv == TypeOK /\ DriverFollowsStatus /\ OneActiveRidePerRider

USE DEF Unassigned, PrePickup, Engaged, Active, Terminal, Status

----------------------------------------------------------------------------
(* The rows of the database before any ride is booked satisfy the invariant. *)
LEMMA InitInvariant == Init => IInv
  BY DEF Init, IInv, TypeOK, DriverFollowsStatus, OneActiveRidePerRider

(* A step is a booking, individual or by a group, or one of the UPDATEs.     *)
LEMMA StepKinds ==
  ASSUME Next
  PROVE  \E r \in Rides : \/ Request(r) \/ GroupCheck(r) \/ GroupInsert(r) \/ GroupRollback(r)
                         \/ (\E d \in Drivers : Assign(r, d))
                         \/ Arrive(r) \/ Start(r) \/ Complete(r)
                         \/ Release(r) \/ Cancel(r)
  BY DEF Next, Update

(* The UPDATEs leave the bookings in progress alone, and every booking keeps *)
(* them and the rides of groups sets of rides.                               *)
LEMMA BookingsTyped ==
  ASSUME TypeOK, Next
  PROVE  checked' \subseteq Rides /\ grouped' \subseteq Rides
  BY DEF Next, Update, TypeOK, Request, GroupCheck, GroupInsert, GroupRollback

(* Every write keeps a row within its type.                                  *)
LEMMA TypeStep == TypeOK /\ [Next]_vars => TypeOK'
<1>1. ASSUME TypeOK, UNCHANGED vars PROVE TypeOK'
  BY <1>1 DEF TypeOK, vars
<1>2. ASSUME TypeOK, Next PROVE ride' \in [Rides -> [status : Status, driver : Drivers \cup {None}]]
  <2> PICK r \in Rides : \/ Request(r) \/ GroupCheck(r) \/ GroupInsert(r) \/ GroupRollback(r)
                         \/ (\E d \in Drivers : Assign(r, d))
                         \/ Arrive(r) \/ Start(r) \/ Complete(r)
                         \/ Release(r) \/ Cancel(r)
    BY <1>2, StepKinds
  <2>1. CASE Request(r) \/ GroupCheck(r) \/ GroupInsert(r) \/ GroupRollback(r)
    BY <1>2, <2>1 DEF TypeOK, Request, GroupCheck, GroupInsert, GroupRollback, SetStatus
  <2>2. CASE (\E d \in Drivers : Assign(r, d)) \/ Release(r)
    BY <1>2, <2>2 DEF TypeOK, Assign, Release
  <2>3. CASE Arrive(r) \/ Start(r) \/ Complete(r) \/ Cancel(r)
    BY <1>2, <2>3 DEF TypeOK, Arrive, Start, Complete, Cancel, SetStatus
  <2>4. QED
    BY <2>1, <2>2, <2>3
<1>3. QED
  BY <1>1, <1>2, BookingsTyped DEF TypeOK

(* Every write keeps the driver column in step with the status.              *)
LEMMA DriverStep == TypeOK /\ DriverFollowsStatus /\ [Next]_vars => DriverFollowsStatus'
<1>1. ASSUME DriverFollowsStatus, UNCHANGED vars PROVE DriverFollowsStatus'
  BY <1>1 DEF DriverFollowsStatus, vars
<1>2. ASSUME TypeOK, DriverFollowsStatus, Next PROVE DriverFollowsStatus'
  <2> PICK r \in Rides : \/ Request(r) \/ GroupCheck(r) \/ GroupInsert(r) \/ GroupRollback(r)
                         \/ (\E d \in Drivers : Assign(r, d))
                         \/ Arrive(r) \/ Start(r) \/ Complete(r)
                         \/ Release(r) \/ Cancel(r)
    BY <1>2, StepKinds
  <2>1. CASE Request(r) \/ GroupInsert(r)
    BY <1>2, <2>1 DEF TypeOK, DriverFollowsStatus, Request, GroupInsert, SetStatus
  <2>2. CASE GroupCheck(r) \/ GroupRollback(r)
    BY <1>2, <2>2 DEF DriverFollowsStatus, GroupCheck, GroupRollback
  <2>3. CASE \E d \in Drivers : Assign(r, d)
    BY <1>2, <2>3, NoneAssumption DEF TypeOK, DriverFollowsStatus, Assign
  <2>4. CASE Release(r)
    BY <1>2, <2>4 DEF TypeOK, DriverFollowsStatus, Release
  <2>5. CASE Arrive(r) \/ Start(r)
    BY <1>2, <2>5 DEF TypeOK, DriverFollowsStatus, Arrive, Start, SetStatus
  <2>6. CASE Complete(r) \/ Cancel(r)
    BY <1>2, <2>6 DEF TypeOK, DriverFollowsStatus, Complete, Cancel, SetStatus
  <2>7. QED
    BY <2>1, <2>2, <2>3, <2>4, <2>5, <2>6
<1>3. QED
  BY <1>1, <1>2

(* A row that a step leaves active was active before it, unless the step is  *)
(* its individual booking or its INSERT by a group.                          *)
LEMMA NothingElseActivates ==
  ASSUME TypeOK, [Next]_vars, NEW q \in Rides,
         ~Request(q), ~GroupInsert(q), ride'[q].status \in Active
  PROVE  ride[q].status \in Active
<1>1. CASE UNCHANGED vars
  BY <1>1 DEF vars
<1>2. CASE Next
  <2> PICK r \in Rides : \/ Request(r) \/ GroupCheck(r) \/ GroupInsert(r) \/ GroupRollback(r)
                         \/ (\E d \in Drivers : Assign(r, d))
                         \/ Arrive(r) \/ Start(r) \/ Complete(r)
                         \/ Release(r) \/ Cancel(r)
    BY <1>2, StepKinds
  <2>1. CASE q # r
    BY <2>1 DEF TypeOK, Request, GroupCheck, GroupInsert, GroupRollback, Assign, Arrive,
                Start, Complete, Release, Cancel, SetStatus
  <2>2. CASE q = r
    BY <2>2 DEF TypeOK, GroupCheck, GroupRollback, Assign, Arrive, Start, Complete, Release,
                Cancel, SetStatus
  <2>3. QED
    BY <2>1, <2>2
<1>3. QED
  BY <1>1, <1>2

(* A booking touches its own row alone.                                      *)
LEMMA RequestTouchesOne ==
  ASSUME TypeOK, NEW r \in Rides, Request(r), NEW q \in Rides, q # r
  PROVE  ride'[q] = ride[q]
  BY DEF TypeOK, Request, SetStatus

(* A ride booked by a group stays one.                                       *)
LEMMA GroupedOnlyGrows == ASSUME [Next]_vars PROVE grouped \subseteq grouped'
  BY DEF Next, Update, vars, Request, GroupCheck, GroupInsert, GroupRollback

(* Every step leaves each rider at most one active ride, groups' rides apart. *)
LEMMA OneActiveStep ==
  TypeOK /\ OneActiveRidePerRider /\ [Next]_vars => OneActiveRidePerRider'
<1> SUFFICES ASSUME TypeOK, OneActiveRidePerRider, [Next]_vars,
                    NEW q \in Rides, NEW r \in Rides,
                    q # r, RiderOf[q] = RiderOf[r],
                    ride'[q].status \in Active, ride'[r].status \in Active,
                    q \notin grouped', r \notin grouped'
             PROVE  FALSE
  BY DEF OneActiveRidePerRider
<1>1. CASE Request(q)
  <2>1. ride[r].status \notin Active
    BY <1>1 DEF Request, NoActiveRide
  <2>2. ride'[r] = ride[r]
    BY <1>1, RequestTouchesOne
  <2>3. QED
    BY <2>1, <2>2
<1>2. CASE Request(r)
  <2>1. ride[q].status \notin Active
    BY <1>2 DEF Request, NoActiveRide
  <2>2. ride'[q] = ride[q]
    BY <1>2, RequestTouchesOne
  <2>3. QED
    BY <2>1, <2>2
<1>3. CASE ~Request(q) /\ ~Request(r)
  <2>1. ~GroupInsert(q) /\ ~GroupInsert(r)
    BY DEF GroupInsert
  <2>2. ride[q].status \in Active /\ ride[r].status \in Active
    BY <1>3, <2>1, NothingElseActivates
  <2>3. q \notin grouped /\ r \notin grouped
    BY GroupedOnlyGrows
  <2>4. QED
    BY <2>2, <2>3 DEF OneActiveRidePerRider
<1>4. QED
  BY <1>1, <1>2, <1>3

----------------------------------------------------------------------------
(* The invariant holds in every reachable state of every instance.           *)
THEOREM Invariance == Spec => []IInv
<1>1. Init => IInv
  BY InitInvariant
<1>2. IInv /\ [Next]_vars => IInv'
  BY TypeStep, DriverStep, OneActiveStep DEF IInv
<1>3. QED
  BY <1>1, <1>2, PTL DEF Spec

(* Rows are always typed: TripStatus and a driver or NULL.                   *)
THEOREM Typing == Spec => []TypeOK
  BY Invariance, PTL DEF IInv

(* A REQUESTED ride never carries a driver left over from an assignment that *)
(* was released, and an engaged or completed one always has its driver.      *)
THEOREM DriverFollows == Spec => []DriverFollowsStatus
  BY Invariance, PTL DEF IInv

(* The booking transaction's check holds for good: whatever is released or   *)
(* cancelled later, an account has two rides that are not terminal only      *)
(* where a group booking, which checks without the lock, made one of them.   *)
THEOREM OneActiveRide == Spec => []OneActiveRidePerRider
  BY Invariance, PTL DEF IInv

(* No step changes the status or the driver of a terminal row.               *)
THEOREM TerminalFinal == Spec => TerminalIsFinal
<1> DEFINE Final == \A r \in Rides : ride[r].status \in Terminal => ride'[r] = ride[r]
<1>1. TypeOK /\ [Next]_vars => [Final]_ride
  <2> SUFFICES ASSUME TypeOK, [Next]_vars, ride' # ride,
                      NEW q \in Rides, ride[q].status \in Terminal
               PROVE  ride'[q] = ride[q]
    OBVIOUS
  <2>1. Next
    BY DEF vars
  <2> PICK r \in Rides : \/ Request(r) \/ GroupCheck(r) \/ GroupInsert(r) \/ GroupRollback(r)
                         \/ (\E d \in Drivers : Assign(r, d))
                         \/ Arrive(r) \/ Start(r) \/ Complete(r)
                         \/ Release(r) \/ Cancel(r)
    BY <2>1, StepKinds
  <2>2. CASE q # r
    BY <2>2 DEF TypeOK, Request, GroupCheck, GroupInsert, GroupRollback, Assign, Arrive,
                Start, Complete, Release, Cancel, SetStatus
  <2>3. CASE q = r
    BY <2>3 DEF Request, GroupCheck, GroupInsert, GroupRollback, Assign, Arrive, Start,
                Complete, Release, Cancel
  <2>4. QED
    BY <2>2, <2>3
<1>2. QED
  BY <1>1, Typing, PTL DEF Spec, TerminalIsFinal

(* The driver column is set only out of REQUESTED and cleared only back to   *)
(* it, so a ride never passes from one driver directly to another.           *)
THEOREM DriverThroughPool == Spec => DriverChangesThroughPool
<1> DEFINE ThroughPool ==
      \A r \in Rides :
          ride'[r].driver # ride[r].driver =>
              \/ ride[r].status = "REQUESTED" /\ ride'[r].status = "ACCEPTED"
              \/ ride[r].status \in PrePickup /\ ride'[r].status = "REQUESTED"
<1>1. TypeOK /\ [Next]_vars => [ThroughPool]_ride
  <2> SUFFICES ASSUME TypeOK, [Next]_vars, ride' # ride,
                      NEW q \in Rides, ride'[q].driver # ride[q].driver
               PROVE  \/ ride[q].status = "REQUESTED" /\ ride'[q].status = "ACCEPTED"
                      \/ ride[q].status \in PrePickup /\ ride'[q].status = "REQUESTED"
    OBVIOUS
  <2>1. Next
    BY DEF vars
  <2> PICK r \in Rides : \/ Request(r) \/ GroupCheck(r) \/ GroupInsert(r) \/ GroupRollback(r)
                         \/ (\E d \in Drivers : Assign(r, d))
                         \/ Arrive(r) \/ Start(r) \/ Complete(r)
                         \/ Release(r) \/ Cancel(r)
    BY <2>1, StepKinds
  <2>2. CASE (\E d \in Drivers : Assign(r, d)) \/ Release(r)
    BY <2>2 DEF TypeOK, Assign, Release
  <2>3. CASE Request(r) \/ GroupInsert(r) \/ Arrive(r) \/ Start(r) \/ Complete(r) \/ Cancel(r)
    BY <2>3 DEF TypeOK, Request, GroupInsert, Arrive, Start, Complete, Cancel, SetStatus
  <2>4. CASE GroupCheck(r) \/ GroupRollback(r)
    BY <2>4 DEF GroupCheck, GroupRollback
  <2>5. QED
    BY <2>2, <2>3, <2>4
<1>2. QED
  BY <1>1, Typing, PTL DEF Spec, DriverChangesThroughPool
=============================================================================
