--------------------------- MODULE RideLifecycle ---------------------------
(* What the backend promises about one row of the `rides` table, whatever    *)
(* handler, worker or watchdog writes it: every status write is one UPDATE   *)
(* whose WHERE clause names the statuses it may leave, so the row follows a  *)
(* fixed graph and its driver column follows the status.  Dispatch.tla, the  *)
(* multi-step protocol that issues those UPDATEs, implements this module.    *)
EXTENDS Naturals, FiniteSets

CONSTANTS
    Rides,      \* ride identifiers
    Drivers,    \* driver identifiers
    Riders,     \* rider accounts
    RiderOf,    \* the account that books a given ride
    None        \* SQL NULL

ASSUME RiderOfAssumption == RiderOf \in [Rides -> Riders]
ASSUME NoneAssumption == None \notin Drivers

VARIABLES
    ride,      \* ride[r]: the row, reduced to its status and driver columns
    checked,   \* group bookings that found no active ride and are yet to INSERT
    grouped    \* rows a group booking INSERTed (their group_id is set)

vars == <<ride, checked, grouped>>

Unassigned == {"REQUESTED"}
PrePickup  == {"ACCEPTED", "DRIVER_ARRIVING"}
Engaged    == PrePickup \cup {"IN_PROGRESS"}
Active     == Unassigned \cup Engaged
Terminal   == {"COMPLETED", "CANCELLED"}
Status     == {"NONE"} \cup Active \cup Terminal     \* NONE: no row yet

(* A row has a status of TripStatus and a driver or NULL.                    *)
TypeOK ==
    /\ ride \in [Rides -> [status : Status, driver : Drivers \cup {None}]]
    /\ checked \subseteq Rides
    /\ grouped \subseteq Rides

Init ==
    /\ ride = [r \in Rides |-> [status |-> "NONE", driver |-> None]]
    /\ checked = {}
    /\ grouped = {}

(* Mutant of SetStatus: the column that is set is the driver's.              *)
SetDriver(r, s) == ride' = [ride EXCEPT ![r].driver = s]

SetStatus(r, s) == ride' = [ride EXCEPT ![r].status = s]

(* SELECT ... WHERE rider_id = $1 AND status NOT IN the terminal statuses.   *)
NoActiveRide(rider) ==
    \A q \in Rides : RiderOf[q] = rider => ride[q].status \notin Active

(* Mutant of Request: the rider's other rides are not checked.               *)
RequestUnchecked(r) ==
    /\ ride[r].status = "NONE" /\ r \notin checked
    /\ SetStatus(r, "REQUESTED")
    /\ UNCHANGED <<checked, grouped>>

(* The booking transaction: it locks the rider's `users` row, so the check   *)
(* for another non-terminal ride and the INSERT are one step.  Rides are on  *)
(* demand: one scheduled for later is exempt from the check until it is due. *)
Request(r) ==
    /\ ride[r].status = "NONE" /\ r \notin checked
    /\ NoActiveRide(RiderOf[r])
    /\ SetStatus(r, "REQUESTED")
    /\ UNCHANGED <<checked, grouped>>

(* A group booking, whose rider is the group's host, makes the same check    *)
(* (of the other participants too) without that lock: what it locks is the   *)
(* group.  It INSERTs some statements later, whatever was booked since, or   *)
(* is rolled back.                                                           *)
GroupCheck(r) ==
    /\ ride[r].status = "NONE" /\ r \notin checked
    /\ NoActiveRide(RiderOf[r])
    /\ checked' = checked \cup {r}
    /\ UNCHANGED <<ride, grouped>>

GroupInsert(r) ==
    /\ r \in checked /\ ride[r].status = "NONE"
    /\ SetStatus(r, "REQUESTED")
    /\ checked' = checked \ {r}
    /\ grouped' = grouped \cup {r}

GroupRollback(r) ==
    /\ r \in checked
    /\ checked' = checked \ {r}
    /\ UNCHANGED <<ride, grouped>>

----------------------------------------------------------------------------
(* The UPDATEs of a row.  Mutant of Assign: one that takes a ride another    *)
(* driver has accepted.                                                      *)
AssignOver(r, d) ==
    /\ ride[r].status \in Unassigned \cup PrePickup
    /\ ride' = [ride EXCEPT ![r] = [status |-> "ACCEPTED", driver |-> d]]

(* The conditional flip of acceptTrip: only a row still REQUESTED is taken.  *)
Assign(r, d) ==
    /\ ride[r].status = "REQUESTED"
    /\ ride' = [ride EXCEPT ![r] = [status |-> "ACCEPTED", driver |-> d]]

Arrive(r) ==
    /\ ride[r].status = "ACCEPTED"
    /\ SetStatus(r, "DRIVER_ARRIVING")

Start(r) ==
    /\ ride[r].status \in PrePickup
    /\ SetStatus(r, "IN_PROGRESS")

(* ALLOWED_TRANSITIONS lets a ride complete from any engaged status.         *)
Complete(r) ==
    /\ ride[r].status \in Engaged
    /\ SetStatus(r, "COMPLETED")

(* Mutant of Release: the UPDATE without `driver_id = NULL`.                 *)
ReleaseKeepsDriver(r) ==
    /\ ride[r].status \in PrePickup
    /\ SetStatus(r, "REQUESTED")

(* RELEASE_DRIVER_PRE_PICKUP_SQL: the same ride goes back to the pool.       *)
Release(r) ==
    /\ ride[r].status \in PrePickup
    /\ ride' = [ride EXCEPT ![r] = [status |-> "REQUESTED", driver |-> None]]

(* Mutant of Cancel: an UPDATE that does not leave a terminal row alone.     *)
CancelAnything(r) == ride[r].status # "NONE" /\ SetStatus(r, "CANCELLED")

(* A terminal cancel keeps the driver column: history and reporting read it. *)
Cancel(r) ==
    /\ ride[r].status \in Active
    /\ SetStatus(r, "CANCELLED")

Update(r) ==
    /\ \/ \E d \in Drivers : Assign(r, d)
       \/ Arrive(r) \/ Start(r) \/ Complete(r)
       \/ Release(r) \/ Cancel(r)
    /\ UNCHANGED <<checked, grouped>>

Next ==
    \E r \in Rides :
        \/ Request(r)
        \/ GroupCheck(r) \/ GroupInsert(r) \/ GroupRollback(r)
        \/ Update(r)

Spec == Init /\ [][Next]_vars

----------------------------------------------------------------------------
(* A driver is on the row exactly when somebody is driving it or drove it:   *)
(* a REQUESTED ride has no driver left over from an earlier assignment (the  *)
(* release must clear the column), an engaged or completed one has a driver. *)
DriverFollowsStatus ==
    \A r \in Rides :
        /\ ride[r].status \in {"NONE", "REQUESTED"} => ride[r].driver = None
        /\ ride[r].status \in Engaged \cup {"COMPLETED"} => ride[r].driver # None

(* The single-active-ride invariant of the booking transaction, as far as it *)
(* goes: an account never has two rides that are not terminal unless a group *)
(* booking, which checks without the account's lock, made one of them.  It   *)
(* holds although a release brings a ride back to REQUESTED long after the   *)
(* check was made, and although a group booking may come in between.         *)
OneActiveRidePerRider ==
    \A q, r \in Rides :
        /\ q # r /\ RiderOf[q] = RiderOf[r]
        /\ ride[q].status \in Active /\ ride[r].status \in Active
        => q \in grouped \/ r \in grouped

(* A terminal row is final: no write changes its status or its driver, so    *)
(* what was charged and paid for it stays attributed to the same driver.     *)
TerminalIsFinal ==
    [][\A r \in Rides : ride[r].status \in Terminal => ride'[r] = ride[r]]_ride

(* The driver column changes hands only through the pool: it is set when the *)
(* row leaves REQUESTED and cleared when it goes back, never overwritten.    *)
DriverChangesThroughPool ==
    [][\A r \in Rides :
          ride'[r].driver # ride[r].driver =>
              \/ ride[r].status = "REQUESTED" /\ ride'[r].status = "ACCEPTED"
              \/ ride[r].status \in PrePickup /\ ride'[r].status = "REQUESTED"]_ride
=============================================================================
