------------------------------ MODULE Dispatch ------------------------------
(* Dispatch: how a REQUESTED ride finds a driver, and every handler, worker  *)
(* and watchdog that races on the way.  The `rides` row is written by single *)
(* guarded UPDATEs; everything around it (offers, locks, active-trip keys)   *)
(* lives in Redis and is read and written one command at a time, so a step   *)
(* of this module is one database statement or one Redis command and a call  *)
(* of the code is a process that walks through several of them.              *)
(*                                                                           *)
(* proc[p].pc names the next command of process p:                           *)
(*   a_  RideService.acceptTrip           d_  RideService.declineTrip        *)
(*   x_  RideService.cancelTrip           r_  ... its pre-pickup release     *)
(*   u_  RideService.updateTripStatus     n_  socket getPendingOffer         *)
(*   w_  the stale-ride watchdog          m_  the matchRide worker           *)
(*   t_  DriverOfferService.transitionOffer                                  *)
(*   o_  DriverOfferService.cancelRideOffers                                 *)
EXTENDS Naturals, FiniteSets

CONSTANTS
    Rides, Drivers, Riders, RiderOf, None,
    Handlers,        \* API and socket calls in flight at once
    Matchers,        \* matchRide jobs running at once (worker concurrency)
    Watchdog,        \* the cron worker that sweeps stale rides
    Ops,             \* the calls clients make, and the timers that run
    MaxCalls,        \* bound: calls the clients make altogether
    MaxFaults,       \* bound: crashes, job errors and lock expiries
    MaxOffers,       \* bound: offers created altogether
    MaxJobs,         \* bound: copies of one matchRide job in the queue
    MaxRetries,      \* MAX_MATCH_RETRIES (6 in the code)
    LastStage,       \* last radius stage of executeMatching (2 in the code)
    LockTtlOffers    \* timed-out offers that outlast the 120 s ride lock

ASSUME DispatchAssumption ==
    /\ MaxCalls \in Nat /\ MaxFaults \in Nat /\ MaxOffers \in Nat
    /\ MaxJobs \in Nat /\ MaxRetries \in Nat /\ LastStage \in Nat
    /\ LockTtlOffers \in Nat
    /\ RiderOf \in [Rides -> Riders]
    /\ None \notin Rides \cup Drivers \cup Matchers \cup 1 .. MaxOffers
    /\ Handlers \cap Matchers = {} /\ Watchdog \notin Handlers \cup Matchers

VARIABLES
    ride,      \* PostgreSQL rides: status and driver_id
    aged,      \* the row's timestamps older than the cutoff of the sweep at work
    rejected,  \* PostgreSQL ride_driver_rejections: drivers excluded per ride
    active,    \* Redis driver:{d}:active_trip
    hold,      \* Redis driver:offer:{d}, the driver's offer lock
    pointer,   \* Redis ride:offer:{r}, the ride's current offer
    offer,     \* Redis offer:data:{o}
    lock,      \* Redis ride:lock:{r} (and, for its TTL, who set it)
    jobs,      \* BullMQ match-ride: copies of a job per ride and retryCount
    proc,      \* the calls and jobs being executed
    calls, faults   \* how much of the bounds is used

db == <<ride, aged, rejected>>
redis == <<active, hold, pointer, offer, lock>>
vars == <<db, redis, jobs, proc, calls, faults>>

Procs == Handlers \cup Matchers \cup {Watchdog}
OfferIds == 1 .. MaxOffers

Unassigned == {"REQUESTED"}
PrePickup  == {"ACCEPTED", "DRIVER_ARRIVING"}
Engaged    == PrePickup \cup {"IN_PROGRESS"}
Terminal   == {"COMPLETED", "CANCELLED"}
Status     == {"NONE"} \cup Unassigned \cup Engaged \cup Terminal

(* NONE: never created; GONE: the key has expired.                           *)
OfferStatus == {"NONE", "GONE", "SENT", "ACCEPTED", "DECLINED",
                "EXPIRED", "CANCELLED", "SUPERSEDED"}

(* The three sweeps of sweepStaleActiveRides: candidate statuses and the     *)
(* timestamp column that must be older than the sweep's cutoff.              *)
Sweeps == {"requested", "stalled", "overdue"}
(* Mutant of SweptStatuses: the stall sweep forgets DRIVER_ARRIVING, the     *)
(* overdue sweep asks for a status no journey has.                           *)
SweptStatusesShort == [s \in Sweeps |->
    CASE s = "requested" -> {"REQUESTED"}
      [] s = "stalled"   -> {"ACCEPTED"}
      [] s = "overdue"   -> {"DRIVER_ARRIVING"}]
SweptStatuses == [s \in Sweeps |->
    CASE s = "requested" -> {"REQUESTED"}
      [] s = "stalled"   -> PrePickup
      [] s = "overdue"   -> {"DRIVER_ARRIVING", "IN_PROGRESS"}]
SweptColumn == [s \in Sweeps |->
    CASE s = "requested" -> "created"
      [] s = "stalled"   -> "accepted"
      [] s = "overdue"   -> "started"]
IsStale(r, s) == ride[r].status \in SweptStatuses[s] /\ SweptColumn[s] \in aged[r]

Idle == [pc |-> "idle", ride |-> None, driver |-> None, offer |-> None,
         seen |-> None, to |-> None, ok |-> "idle", miss |-> "idle", back |-> "idle",
         sweep |-> None, retry |-> 0, stage |-> 0, left |-> {}, waits |-> 0]

Labels == {"idle", "q_enqueue",
           "a_rejected", "a_active", "a_stale", "a_clear", "a_offer", "a_flip",
           "a_key", "a_supersede", "a_free", "d_offer", "d_free", "d_reject", "d_rematch",
           "u_start", "u_key", "u_complete", "x_key", "x_write",
           "r_key", "r_write", "r_unlink", "r_rematch", "n_offer", "n_free",
           "w_read", "w_key", "w_write", "m_lock", "m_stage", "m_next", "m_check",
           "m_stale", "m_heal", "m_create", "m_publish", "m_attach", "m_payload",
           "m_wait", "m_free", "m_failed", "m_unlock", "m_throw", "m_rescue",
           "t_get", "t_set", "o_pointer", "o_free", "o_unlink"}

(* What a process remembers: its next command, its arguments, what it has    *)
(* read, the labels transitionOffer and cancelRideOffers return to, and, in  *)
(* a match job, the retryCount, the stage and the candidates left.           *)
Process ==
    [pc : Labels, ride : Rides \cup {None}, driver : Drivers \cup {None},
     offer : OfferIds \cup {None}, seen : Rides \cup OfferStatus \cup {None},
     to : Rides \cup OfferStatus \cup {None}, ok : Labels, miss : Labels,
     back : {"idle", "x_write", "w_write"}, sweep : Sweeps \cup {None},
     retry : 0 .. MaxRetries, stage : 0 .. LastStage, left : SUBSET Drivers,
     waits : 0 .. LockTtlOffers]

Init ==
    /\ ride = [r \in Rides |-> [status |-> "NONE", driver |-> None]]
    /\ aged = [r \in Rides |-> {}]
    /\ rejected = [r \in Rides |-> {}]
    /\ active = [d \in Drivers |-> None]
    /\ hold = [d \in Drivers |-> None]
    /\ pointer = [r \in Rides |-> None]
    /\ offer = [o \in OfferIds |->
                  [ride |-> None, driver |-> None, status |-> "NONE", due |-> FALSE]]
    /\ lock = [r \in Rides |-> None]
    /\ jobs = [r \in Rides |-> [k \in 0 .. MaxRetries |-> 0]]
    /\ proc = [p \in Procs |-> Idle]
    /\ calls = 0
    /\ faults = 0

----------------------------------------------------------------------------
(* Control flow of a process.                                                *)
At(p, pc) == proc[p].pc = pc
Return(p) == proc' = [proc EXCEPT ![p] = Idle]
Goto(p, pc) ==
    IF pc = "idle" THEN Return(p) ELSE proc' = [proc EXCEPT ![p].pc = pc]

(* A client call starts on a free handler; what it reads first is read now.  *)
Call(h, op, new) ==
    /\ op \in Ops
    /\ calls < MaxCalls
    /\ At(h, "idle")
    /\ calls' = calls + 1
    /\ proc' = [proc EXCEPT ![h] = new]
    /\ UNCHANGED faults

NewCall(pc, r, d) == [Idle EXCEPT !.pc = pc, !.ride = r, !.driver = d]

(* Jumps into transitionOffer(o, from, to), which continues at ok when the   *)
(* status was `from` and at miss when it was not.                            *)
Transition(p, o, from, to, ok, miss) ==
    proc' = [proc EXCEPT ![p].pc = "t_get", ![p].offer = o, ![p].seen = from,
                         ![p].to = to, ![p].ok = ok, ![p].miss = miss]

Transitioned(p, pc) ==
    IF pc = "idle" THEN Return(p)
    ELSE proc' = [proc EXCEPT ![p].pc = pc, ![p].seen = None, ![p].to = None,
                              ![p].ok = "idle", ![p].miss = "idle"]

(* Jumps into cancelRideOffers, which returns to `back`.                     *)
CancelOffers(p, back) ==
    proc' = [proc EXCEPT ![p].pc = "o_pointer", ![p].back = back]

(* Copies of a job are interchangeable; past MaxJobs they are not counted.   *)
Enqueue(r, k) ==
    jobs' = [jobs EXCEPT ![r][k] = IF @ < MaxJobs THEN @ + 1 ELSE @]

Exists(o) == o # None /\ offer[o].status \notin {"NONE", "GONE"}
(* The clock is at or past the offer's expiresAt, now and from now on.       *)
PastExpiry(o) == offer' = [offer EXCEPT ![o].due = TRUE]
SetOffer(o, s) == offer' = [offer EXCEPT ![o].status = s]
DelHold(d) == hold' = [hold EXCEPT ![d] = None]
DelActive(d) == active' = [active EXCEPT ![d] = None]

----------------------------------------------------------------------------
(* DriverOfferService                                                        *)

(* transitionOffer reads the offer, compares the status in the process and   *)
(* writes the whole value back: a GET and a later SET, not one command.      *)
TransitionGet(p) ==
    /\ At(p, "t_get")
    /\ IF offer[proc[p].offer].status = proc[p].seen
       THEN Goto(p, "t_set")
       ELSE Transitioned(p, proc[p].miss)
    /\ UNCHANGED <<db, redis, jobs, calls, faults>>

TransitionSet(p) ==
    /\ At(p, "t_set")
    /\ SetOffer(proc[p].offer, proc[p].to)
    /\ Transitioned(p, proc[p].ok)
    /\ UNCHANGED <<db, active, hold, pointer, lock, jobs, calls, faults>>

(* cancelRideOffers: find the ride's offer, cancel it if it is still SENT,   *)
(* free its driver whatever came of that, drop the pointer.                  *)
CancelOffersRead(p) ==
    /\ At(p, "o_pointer")
    /\ LET o == pointer[proc[p].ride] IN
         IF Exists(o) THEN Transition(p, o, "SENT", "CANCELLED", "o_free", "o_free")
                      ELSE Goto(p, proc[p].back)
    /\ UNCHANGED <<db, redis, jobs, calls, faults>>

CancelOffersFree(p) ==
    /\ At(p, "o_free")
    /\ DelHold(offer[proc[p].offer].driver)
    /\ Goto(p, "o_unlink")
    /\ UNCHANGED <<db, active, pointer, offer, lock, jobs, calls, faults>>

CancelOffersUnlink(p) ==
    /\ At(p, "o_unlink")
    /\ pointer' = [pointer EXCEPT ![proc[p].ride] = None]
    /\ Goto(p, proc[p].back)
    /\ UNCHANGED <<db, active, hold, offer, lock, jobs, calls, faults>>

----------------------------------------------------------------------------
(* RideService.requestRide: the booking transaction, then the match job.     *)
(* Rides are on demand: one scheduled for later is exempt from the check.    *)
(* Bookings are the riders' own; a group's, whose unlocked check             *)
(* RideLifecycle has, is dispatched in the same way once it is INSERTed.     *)
RequestRide(h, r) ==
    /\ ride[r].status = "NONE"
    /\ \A q \in Rides : RiderOf[q] = RiderOf[r] =>
                          ride[q].status \in {"NONE"} \cup Terminal
    /\ At(h, "idle")
    /\ ride' = [ride EXCEPT ![r].status = "REQUESTED"]
    /\ proc' = [proc EXCEPT ![h] = NewCall("q_enqueue", r, None)]
    /\ UNCHANGED <<aged, rejected, redis, jobs, calls, faults>>

RequestEnqueue(h) ==
    /\ At(h, "q_enqueue")
    /\ Enqueue(proc[h].ride, 0)
    /\ Return(h)
    /\ UNCHANGED <<db, redis, calls, faults>>

----------------------------------------------------------------------------
(* RideService.acceptTrip                                                    *)
Accept(h, r, d) ==
    /\ ride[r].status = "REQUESTED"      \* otherwise returns or throws at once
    /\ Call(h, "accept", NewCall("a_rejected", r, d))
    /\ UNCHANGED <<db, redis, jobs>>

AcceptCheckRejected(h) ==
    /\ At(h, "a_rejected")
    /\ IF proc[h].driver \in rejected[proc[h].ride] THEN Return(h)
                                                  ELSE Goto(h, "a_active")
    /\ UNCHANGED <<db, redis, jobs, calls, faults>>

AcceptReadActive(h) ==
    /\ At(h, "a_active")
    /\ LET busy == active[proc[h].driver] IN
         IF busy = None THEN Goto(h, "a_offer")
         ELSE proc' = [proc EXCEPT ![h].pc = "a_stale", ![h].seen = busy]
    /\ UNCHANGED <<db, redis, jobs, calls, faults>>

AcceptCheckStale(h) ==
    /\ At(h, "a_stale")
    /\ IF ride[proc[h].seen].status \in Terminal THEN Goto(h, "a_clear")
                                                  ELSE Return(h)
    /\ UNCHANGED <<db, redis, jobs, calls, faults>>

AcceptClearStale(h) ==
    /\ At(h, "a_clear")
    /\ DelActive(proc[h].driver)
    /\ Goto(h, "a_offer")
    /\ UNCHANGED <<db, hold, pointer, offer, lock, jobs, calls, faults>>

(* Mutant of AcceptSetActive: the arguments of SET swapped.                  *)
AcceptSetActiveSwapped(h) ==
    /\ At(h, "a_key")
    /\ active' = [active EXCEPT ![proc[h].driver] = proc[h].driver]
    /\ Return(h)
    /\ UNCHANGED <<db, hold, pointer, offer, lock, jobs, calls, faults>>

(* Mutant of AcceptFlip: the UPDATE without its `status = 'REQUESTED'`.      *)
AcceptFlipUnguarded(h) ==
    /\ At(h, "a_flip")
    /\ ride' = [ride EXCEPT ![proc[h].ride] = [status |-> "ACCEPTED", driver |-> proc[h].driver]]
    /\ Goto(h, "a_key")
    /\ UNCHANGED <<aged, rejected, redis, jobs, calls, faults>>

(* Mutant of AcceptOffer: the offer's driver is not compared.                *)
AcceptAnyOffer(h) ==
    /\ At(h, "a_offer")
    /\ LET o == pointer[proc[h].ride] IN
         IF Exists(o) /\ offer[o].status = "SENT"
         THEN Transition(h, o, "SENT", "ACCEPTED", "a_flip", "idle")
         ELSE Return(h)
    /\ UNCHANGED <<db, redis, jobs, calls, faults>>

(* getOfferForRide: the offer must be this driver's.  One that already reads *)
(* ACCEPTED is reconciled by going straight to the flip; one that is SENT    *)
(* goes through acceptOffer, whose own read of it repeats this one: to       *)
(* EXPIRED once it is past its expiry, else to ACCEPTED.                     *)
AcceptOffer(h) ==
    /\ At(h, "a_offer")
    /\ LET o == pointer[proc[h].ride]
           mine == Exists(o) /\ offer[o].driver = proc[h].driver IN
         \/ /\ mine /\ offer[o].status = "SENT"
            /\ PastExpiry(o)
            /\ Transition(h, o, "SENT", "EXPIRED", "idle", "idle")
         \/ /\ mine /\ offer[o].status = "SENT" /\ ~offer[o].due
            /\ Transition(h, o, "SENT", "ACCEPTED", "a_flip", "idle")
            /\ UNCHANGED offer
         \/ /\ mine /\ offer[o].status = "ACCEPTED"
            /\ proc' = [proc EXCEPT ![h].pc = "a_flip", ![h].offer = o]
            /\ UNCHANGED offer
         \/ /\ ~(mine /\ offer[o].status \in {"SENT", "ACCEPTED"})
            /\ Return(h)
            /\ UNCHANGED offer
    /\ UNCHANGED <<db, active, hold, pointer, lock, jobs, calls, faults>>

(* The conditional flip.  A new accepted_at is younger than any cutoff.      *)
AcceptFlip(h) ==
    /\ At(h, "a_flip")
    /\ LET r == proc[h].ride IN
         IF ride[r].status = "REQUESTED"
         THEN /\ ride' = [ride EXCEPT ![r] = [status |-> "ACCEPTED", driver |-> proc[h].driver]]
              /\ aged' = [aged EXCEPT ![r] = @ \ {"accepted"}]
              /\ Goto(h, "a_key")
         ELSE /\ UNCHANGED <<ride, aged>>
              /\ Goto(h, "a_supersede")
    /\ UNCHANGED <<rejected, redis, jobs, calls, faults>>

AcceptSetActive(h) ==
    /\ At(h, "a_key")
    /\ active' = [active EXCEPT ![proc[h].driver] = proc[h].ride]
    /\ Return(h)
    /\ UNCHANGED <<db, hold, pointer, offer, lock, jobs, calls, faults>>

(* supersedeOffer: whatever status is read is replaced by SUPERSEDED.        *)
AcceptSupersede(h) ==
    /\ At(h, "a_supersede")
    /\ LET o == proc[h].offer IN
         IF Exists(o)
         THEN Transition(h, o, offer[o].status, "SUPERSEDED", "a_free", "a_free")
         ELSE Return(h)
    /\ UNCHANGED <<db, redis, jobs, calls, faults>>

AcceptFree(h) ==
    /\ At(h, "a_free")
    /\ DelHold(proc[h].driver)
    /\ Return(h)
    /\ UNCHANGED <<db, active, pointer, offer, lock, jobs, calls, faults>>

----------------------------------------------------------------------------
(* RideService.declineTrip.  With an offer id only the offer's own driver    *)
(* gets past the check; without one (a notification action) the driver's     *)
(* lock is followed to the ride's current offer, whoever that belongs to.    *)
(* A driver learns an offer's id once its payload is attached and emitted.   *)
Decline(h, o) ==
    /\ Exists(o)
    /\ \A m \in Matchers : proc[m].offer = o => proc[m].pc \notin {"m_attach", "m_payload"}
    /\ LET c == NewCall("d_free", offer[o].ride, offer[o].driver) IN
         Call(h, "decline",
              IF offer[o].status = "SENT"
              THEN [c EXCEPT !.pc = "t_set", !.offer = o, !.to = "DECLINED", !.ok = "d_free"]
              ELSE c)
    /\ UNCHANGED <<db, redis, jobs>>

DeclineByRide(h, d) ==
    /\ hold[d] # None
    /\ Call(h, "decline", NewCall("d_offer", hold[d], d))
    /\ UNCHANGED <<db, redis, jobs>>

DeclineReadOffer(h) ==
    /\ At(h, "d_offer")
    /\ LET o == pointer[proc[h].ride] IN
         IF Exists(o) THEN Transition(h, o, "SENT", "DECLINED", "d_free", "d_free")
                      ELSE Return(h)
    /\ UNCHANGED <<db, redis, jobs, calls, faults>>

DeclineFree(h) ==
    /\ At(h, "d_free")
    /\ DelHold(proc[h].driver)
    /\ Goto(h, "d_reject")
    /\ UNCHANGED <<db, active, pointer, offer, lock, jobs, calls, faults>>

DeclineRecord(h) ==
    /\ At(h, "d_reject")
    /\ rejected' = [rejected EXCEPT ![proc[h].ride] = @ \cup {proc[h].driver}]
    /\ Goto(h, "d_rematch")
    /\ UNCHANGED <<ride, aged, redis, jobs, calls, faults>>

DeclineRematch(h) ==
    /\ At(h, "d_rematch")
    /\ IF ride[proc[h].ride].status = "REQUESTED" THEN Enqueue(proc[h].ride, 0)
                                                  ELSE UNCHANGED jobs
    /\ Return(h)
    /\ UNCHANGED <<db, redis, calls, faults>>

----------------------------------------------------------------------------
(* RideService.updateTripStatus, called by the assigned driver.  The driver  *)
(* is checked on the row read first; the UPDATE names statuses only.         *)
StartRide(h, r, d) ==
    /\ ride[r].driver = d /\ ride[r].status \in PrePickup
    /\ Call(h, "start", NewCall("u_start", r, d))
    /\ UNCHANGED <<db, redis, jobs>>

(* A missed guard throws and the call ends without a write.                  *)
StartWrite(h) ==
    /\ At(h, "u_start")
    /\ LET r == proc[h].ride IN
         IF ride[r].status \in PrePickup
         THEN /\ ride' = [ride EXCEPT ![r].status = "IN_PROGRESS"]
              /\ aged' = [aged EXCEPT ![r] = @ \ {"started"}]
         ELSE UNCHANGED <<ride, aged>>
    /\ Return(h)
    /\ UNCHANGED <<rejected, redis, jobs, calls, faults>>

CompleteRide(h, r, d) ==
    /\ ride[r].driver = d /\ ride[r].status \in Engaged
    /\ Call(h, "complete", NewCall("u_key", r, d))
    /\ UNCHANGED <<db, redis, jobs>>

(* The active-trip key goes before the row is written.                       *)
CompleteDelActive(h) ==
    /\ At(h, "u_key")
    /\ DelActive(proc[h].driver)
    /\ Goto(h, "u_complete")
    /\ UNCHANGED <<db, hold, pointer, offer, lock, jobs, calls, faults>>

CompleteWrite(h) ==
    /\ At(h, "u_complete")
    /\ LET r == proc[h].ride IN
         IF ride[r].status \in Engaged
         THEN ride' = [ride EXCEPT ![r].status = "COMPLETED"]
         ELSE UNCHANGED ride
    /\ Return(h)
    /\ UNCHANGED <<aged, rejected, redis, jobs, calls, faults>>

(* markDriverArriving: one UPDATE guarded by driver and status.              *)
MarkArriving(r, d) ==
    /\ "arrive" \in Ops
    /\ ride[r] = [status |-> "ACCEPTED", driver |-> d]
    /\ ride' = [ride EXCEPT ![r].status = "DRIVER_ARRIVING"]
    /\ UNCHANGED <<aged, rejected, redis, jobs, proc, calls, faults>>

----------------------------------------------------------------------------
(* RideService.cancelTrip by the rider, or by the driver once IN_PROGRESS:   *)
(* drop the driver's key, cancel the offers of a ride read as REQUESTED,     *)
(* then the terminal UPDATE of _terminalCancel.                              *)
Cancel(h, r) ==
    /\ ride[r].status \in Unassigned \cup Engaged
    /\ LET c == NewCall("x_write", r, ride[r].driver) IN
         Call(h, "cancel",
              IF ride[r].status = "REQUESTED"
              THEN [c EXCEPT !.pc = "o_pointer", !.back = "x_write"]
              ELSE [c EXCEPT !.pc = "x_key"])
    /\ UNCHANGED <<db, redis, jobs>>

CancelDelActive(p) ==
    /\ \/ At(p, "x_key") /\ Goto(p, "x_write")
       \/ At(p, "w_key") /\ Goto(p, "w_write")
    /\ DelActive(proc[p].driver)
    /\ UNCHANGED <<db, hold, pointer, offer, lock, jobs, calls, faults>>

(* The rider's socket handler runs cancelRideOffers once more after a        *)
(* successful cancel, the HTTP routes do not; a miss throws before it.       *)
CancelWrite(h) ==
    /\ At(h, "x_write")
    /\ LET r == proc[h].ride IN
         IF ride[r].status \in Unassigned \cup Engaged
         THEN /\ ride' = [ride EXCEPT ![r].status = "CANCELLED"]
              /\ CancelOffers(h, "idle") \/ Return(h)
         ELSE /\ UNCHANGED ride
              /\ Return(h)
    /\ UNCHANGED <<aged, rejected, redis, jobs, calls, faults>>

(* cancelTrip by the driver before pickup.  The socket handler has already   *)
(* released the driver's offer lock when cancelTrip reads the row; the REST  *)
(* route has not.                                                            *)
ReleaseRide(h, r, d) ==
    /\ ride[r].driver = d /\ ride[r].status \in PrePickup
    /\ Call(h, "release", NewCall("r_key", r, d))
    /\ \/ UNCHANGED hold
       \/ DelHold(d)
    /\ UNCHANGED <<db, active, pointer, offer, lock, jobs>>

ReleaseDelActive(h) ==
    /\ At(h, "r_key")
    /\ DelActive(proc[h].driver)
    /\ Goto(h, "r_write")
    /\ UNCHANGED <<db, hold, pointer, offer, lock, jobs, calls, faults>>

(* The release transaction: RELEASE_DRIVER_PRE_PICKUP_SQL and the driver's   *)
(* exclusion commit together or not at all.                                  *)
ReleaseWrite(h) ==
    /\ At(h, "r_write")
    /\ LET r == proc[h].ride
           d == proc[h].driver IN
         IF ride[r].driver = d /\ ride[r].status \in PrePickup
         THEN /\ ride' = [ride EXCEPT ![r] = [status |-> "REQUESTED", driver |-> None]]
              /\ rejected' = [rejected EXCEPT ![r] = @ \cup {d}]
              /\ Goto(h, "r_unlink")
         ELSE /\ UNCHANGED <<ride, rejected>>
              /\ Return(h)
    /\ UNCHANGED <<aged, redis, jobs, calls, faults>>

ReleaseUnlink(h) ==
    /\ At(h, "r_unlink")
    /\ pointer' = [pointer EXCEPT ![proc[h].ride] = None]
    /\ Goto(h, "r_rematch")
    /\ UNCHANGED <<db, active, hold, offer, lock, jobs, calls, faults>>

ReleaseRematch(h) ==
    /\ At(h, "r_rematch")
    /\ Enqueue(proc[h].ride, 0)
    /\ Return(h)
    /\ UNCHANGED <<db, redis, calls, faults>>

----------------------------------------------------------------------------
(* Socket getPendingOffer: an offer past its expiry is cleaned up.           *)
PendingOffer(h, d) ==
    /\ hold[d] # None
    /\ Call(h, "pending", NewCall("n_offer", hold[d], d))
    /\ UNCHANGED <<db, redis, jobs>>

PendingReadOffer(h) ==
    /\ At(h, "n_offer")
    /\ LET o == pointer[proc[h].ride] IN
         \/ /\ Exists(o) /\ offer[o].status = "SENT"
            /\ PastExpiry(o)
            /\ Transition(h, o, "SENT", "EXPIRED", "n_free", "n_free")
         \/ /\ ~(Exists(o) /\ offer[o].status = "SENT" /\ offer[o].due)
            /\ Return(h)
            /\ UNCHANGED offer
    /\ UNCHANGED <<db, active, hold, pointer, lock, jobs, calls, faults>>

PendingFree(h) ==
    /\ At(h, "n_free")
    /\ DelHold(proc[h].driver)
    /\ Return(h)
    /\ UNCHANGED <<db, active, pointer, offer, lock, jobs, calls, faults>>

(* Socket goOnline, and checkScheduledRides on its timer: every REQUESTED    *)
(* ride gets one more match job, whether or not it is being matched.         *)
Retrigger(r) ==
    /\ "online" \in Ops
    /\ calls < MaxCalls
    /\ ride[r].status = "REQUESTED"
    /\ Enqueue(r, 0)
    /\ calls' = calls + 1
    /\ UNCHANGED <<db, redis, proc, faults>>

----------------------------------------------------------------------------
(* The matchRide job and DispatchEngine.                                     *)

(* A worker takes a job; the job of a ride no longer REQUESTED is skipped.   *)
MatchTake(m, r, k) ==
    /\ At(m, "idle")
    /\ jobs[r][k] > 0
    /\ jobs' = [jobs EXCEPT ![r][k] = @ - 1]
    /\ proc' = IF ride[r].status = "REQUESTED"
               THEN [proc EXCEPT ![m] = [Idle EXCEPT !.pc = "m_lock", !.ride = r, !.retry = k]]
               ELSE proc
    /\ UNCHANGED <<db, redis, calls, faults>>

(* Mutant of MatchLock: SET without NX.                                      *)
MatchLockAlways(m) ==
    /\ At(m, "m_lock")
    /\ lock' = [lock EXCEPT ![proc[m].ride] = m]
    /\ Goto(m, "m_stage")
    /\ UNCHANGED <<db, active, hold, pointer, offer, jobs, calls, faults>>

(* acquireRideLock: SET NX.  The job of a ride somebody is matching ends.    *)
MatchLock(m) ==
    /\ At(m, "m_lock")
    /\ LET r == proc[m].ride IN
         IF lock[r] = None
         THEN /\ lock' = [lock EXCEPT ![r] = m]
              /\ Goto(m, "m_stage")
         ELSE /\ UNCHANGED lock
              /\ Return(m)
    /\ UNCHANGED <<db, active, hold, pointer, offer, jobs, calls, faults>>

(* Healing: the key of a ride that is over, back in the pool, or accepted by *)
(* somebody else does not keep its driver from being dispatched.             *)
IsStaleKey(d, r) ==
    \/ ride[r].status \in Unassigned \cup Terminal
    \/ ride[r].status = "ACCEPTED" /\ ride[r].driver # d

NextCandidate(m) ==
    proc' = [proc EXCEPT ![m] =
        [@ EXCEPT !.pc = "m_next", !.driver = None, !.offer = None,
                  !.seen = None, !.to = None, !.ok = "idle", !.miss = "idle"]]

MatchDecide(m, held) ==
    \/ NextCandidate(m)
    \/ /\ held = None
       /\ \E o \in OfferIds : offer[o].status = "NONE"     \* the bound on offers
       /\ proc[m].driver \notin rejected[proc[m].ride]
       /\ Transitioned(m, "m_create")

(* findCandidates: which of the drivers that pass the filter are near and    *)
(* online is up to the world.  The filter's reads are one step here; the     *)
(* same check runs again, command by command, before each offer.             *)
MatchStage(m) ==
    /\ At(m, "m_stage")
    /\ LET healed == {d \in Drivers : active[d] # None /\ IsStaleKey(d, active[d])}
           passing == {d \in Drivers \ rejected[proc[m].ride] :
                          hold[d] = None /\ (active[d] = None \/ d \in healed)} IN
         \E near \in SUBSET Drivers :
            /\ active' = [d \in Drivers |->
                  IF d \in (near \cap healed) \ rejected[proc[m].ride] THEN None ELSE active[d]]
            /\ proc' = [proc EXCEPT ![m].pc = "m_next", ![m].left = near \cap passing]
    /\ UNCHANGED <<db, hold, pointer, offer, lock, jobs, calls, faults>>

(* The next candidate, or the next stage, or the end of the pass.  A ride    *)
(* that left REQUESTED ends the pass; one that is past ACCEPTED by then      *)
(* counts as `failed` and is retried like a ride without drivers.            *)
MatchNext(m) ==
    /\ At(m, "m_next")
    /\ LET status == ride[proc[m].ride].status IN
         \/ /\ proc[m].left = {}
            /\ IF proc[m].stage < LastStage
               THEN proc' = [proc EXCEPT ![m].pc = "m_stage", ![m].stage = @ + 1]
               ELSE Goto(m, "m_failed")
         \/ \E d \in proc[m].left :
               CASE status = "REQUESTED" ->
                      proc' = [proc EXCEPT ![m].pc = "m_check", ![m].driver = d,
                                           ![m].left = @ \ {d}]
                 [] status \in {"CANCELLED", "ACCEPTED"} -> Goto(m, "m_unlock")
                 [] OTHER -> Goto(m, "m_failed")
    /\ UNCHANGED <<db, redis, jobs, calls, faults>>

(* checkEligibility: the keys first, then the ride behind the active-trip    *)
(* key, then the exclusion table.  A driver may also be offline or stale.    *)
MatchCheckKeys(m) ==
    /\ At(m, "m_check")
    /\ LET d == proc[m].driver IN
         IF active[d] = None THEN MatchDecide(m, hold[d])
         ELSE proc' = [proc EXCEPT ![m].pc = "m_stale", ![m].seen = active[d], ![m].to = hold[d]]
    /\ UNCHANGED <<db, redis, jobs, calls, faults>>

MatchCheckStale(m) ==
    /\ At(m, "m_stale")
    /\ IF IsStaleKey(proc[m].driver, proc[m].seen) THEN Goto(m, "m_heal")
                                                   ELSE NextCandidate(m)
    /\ UNCHANGED <<db, redis, jobs, calls, faults>>

MatchHeal(m) ==
    /\ At(m, "m_heal")
    /\ DelActive(proc[m].driver)
    /\ MatchDecide(m, proc[m].to)
    /\ UNCHANGED <<db, hold, pointer, offer, lock, jobs, calls, faults>>

(* createOffer: the driver's lock is taken with SET NX, then the offer and   *)
(* the ride's pointer to it are written.                                     *)
MatchHold(m) ==
    /\ At(m, "m_create")
    /\ LET d == proc[m].driver IN
         IF hold[d] = None
         THEN /\ hold' = [hold EXCEPT ![d] = proc[m].ride]
              /\ Goto(m, "m_publish")
         ELSE /\ UNCHANGED hold
              /\ NextCandidate(m)
    /\ UNCHANGED <<db, active, pointer, offer, lock, jobs, calls, faults>>

MatchPublish(m) ==
    /\ At(m, "m_publish")
    /\ \E o \in OfferIds :
         /\ offer[o].status = "NONE"
         /\ \A q \in 1 .. o - 1 : offer[q].status # "NONE"
         /\ offer' = [offer EXCEPT ![o] = [ride |-> proc[m].ride, driver |-> proc[m].driver,
                                           status |-> "SENT", due |-> FALSE]]
         /\ pointer' = [pointer EXCEPT ![proc[m].ride] = o]
         /\ proc' = [proc EXCEPT ![m].pc = "m_attach", ![m].offer = o]
    /\ UNCHANGED <<db, active, hold, lock, jobs, calls, faults>>

(* attachPayload: read the offer, write it back with the payload added.      *)
MatchAttachGet(m) ==
    /\ At(m, "m_attach")
    /\ LET o == proc[m].offer IN
         IF Exists(o)
         THEN proc' = [proc EXCEPT ![m].pc = "m_payload", ![m].seen = offer[o].status]
         ELSE Goto(m, "m_wait")
    /\ UNCHANGED <<db, redis, jobs, calls, faults>>

(* Mutant of MatchAttachSet: the attempt does not await the answer.          *)
MatchAttachUnawaited(m) ==
    /\ At(m, "m_payload")
    /\ SetOffer(proc[m].offer, proc[m].seen)
    /\ NextCandidate(m)
    /\ UNCHANGED <<db, active, hold, pointer, lock, jobs, calls, faults>>

MatchAttachSet(m) ==
    /\ At(m, "m_payload")
    /\ SetOffer(proc[m].offer, proc[m].seen)
    /\ Goto(m, "m_wait")
    /\ UNCHANGED <<db, active, hold, pointer, lock, jobs, calls, faults>>

(* _waitForOfferResponse: the poll ...                                       *)
MatchPoll(m) ==
    /\ At(m, "m_wait")
    /\ LET o == proc[m].offer IN
         CASE ~Exists(o) -> Goto(m, "m_unlock")
           [] Exists(o) /\ offer[o].status \in {"ACCEPTED", "CANCELLED"} -> Goto(m, "m_unlock")
           [] Exists(o) /\ offer[o].status = "DECLINED" -> NextCandidate(m)
           [] OTHER -> FALSE
    /\ UNCHANGED <<db, redis, jobs, calls, faults>>

(* Mutants of MatchTimeout: a driver freed without expiring the offer; a     *)
(* timer that does nothing unless the offer is still SENT.                   *)
MatchTimeoutKeepsOffer(m) ==
    /\ At(m, "m_wait")
    /\ Goto(m, "m_free")
    /\ UNCHANGED <<db, redis, jobs, calls, faults>>

MatchTimeoutOfSentOnly(m) ==
    /\ At(m, "m_wait")
    /\ offer[proc[m].offer].status = "SENT"
    /\ PastExpiry(proc[m].offer)
    /\ Transition(m, proc[m].offer, "SENT", "EXPIRED", "m_free", "m_free")
    /\ UNCHANGED <<db, active, hold, pointer, lock, jobs, calls, faults>>

(* ... and the timer, which frees the driver whatever the offer's status.    *)
MatchTimeout(m) ==
    /\ At(m, "m_wait")
    /\ PastExpiry(proc[m].offer)
    /\ proc' = [proc EXCEPT ![m].pc = "t_get", ![m].seen = "SENT", ![m].to = "EXPIRED",
                            ![m].ok = "m_free", ![m].miss = "m_free",
                            ![m].waits = IF @ < LockTtlOffers THEN @ + 1 ELSE @]
    /\ UNCHANGED <<db, active, hold, pointer, lock, jobs, calls, faults>>

MatchFree(m) ==
    /\ At(m, "m_free")
    /\ DelHold(proc[m].driver)
    /\ NextCandidate(m)
    /\ UNCHANGED <<db, active, pointer, offer, lock, jobs, calls, faults>>

(* Nobody took the ride: retry later, or cancel it if it is still REQUESTED. *)
MatchFailed(m) ==
    /\ At(m, "m_failed")
    /\ LET r == proc[m].ride IN
         IF proc[m].retry < MaxRetries
         THEN /\ Enqueue(r, proc[m].retry + 1)
              /\ UNCHANGED ride
         ELSE /\ ride' = IF ride[r].status = "REQUESTED"
                         THEN [ride EXCEPT ![r].status = "CANCELLED"] ELSE ride
              /\ UNCHANGED jobs
    /\ Goto(m, "m_unlock")
    /\ UNCHANGED <<aged, rejected, redis, calls, faults>>

(* Mutant of MatchUnlock: an early return that skips `finally`.              *)
MatchUnlockForgets(m) ==
    /\ \/ At(m, "m_unlock") /\ Return(m)
       \/ At(m, "m_throw") /\ Goto(m, "m_rescue")
    /\ UNCHANGED <<db, redis, jobs, calls, faults>>

(* releaseRideLock deletes the key, whoever set it.                          *)
MatchUnlock(m) ==
    /\ \/ At(m, "m_unlock") /\ Return(m)
       \/ At(m, "m_throw") /\ Goto(m, "m_rescue")
    /\ lock' = [lock EXCEPT ![proc[m].ride] = None]
    /\ UNCHANGED <<db, active, hold, pointer, offer, jobs, calls, faults>>

(* A failed job: `finally` (only after the lock was taken) and `catch` both  *)
(* delete the lock, and BullMQ runs the job again.                           *)
JobThrows(m) ==
    /\ faults < MaxFaults
    /\ proc[m].pc \notin {"idle", "m_unlock", "m_throw", "m_rescue"}
    /\ faults' = faults + 1
    /\ Goto(m, IF At(m, "m_lock") THEN "m_rescue" ELSE "m_throw")
    /\ UNCHANGED <<db, redis, jobs, calls>>

JobRescue(m) ==
    /\ At(m, "m_rescue")
    /\ lock' = [lock EXCEPT ![proc[m].ride] = None]
    /\ Enqueue(proc[m].ride, proc[m].retry)
    /\ Return(m)
    /\ UNCHANGED <<db, active, hold, pointer, offer, calls, faults>>

(* The worker process dies: its lock stays, the stalled job is requeued.     *)
JobCrash(m) ==
    /\ faults < MaxFaults
    /\ ~At(m, "idle")
    /\ faults' = faults + 1
    /\ Enqueue(proc[m].ride, proc[m].retry)
    /\ Return(m)
    /\ UNCHANGED <<db, redis, calls>>

(* The API process dies in the middle of a call.                             *)
CallCrash(h) ==
    /\ faults < MaxFaults
    /\ ~At(h, "idle")
    /\ faults' = faults + 1
    /\ Return(h)
    /\ UNCHANGED <<db, redis, jobs, calls>>

----------------------------------------------------------------------------
(* Time.                                                                     *)

(* DRIVER_LOCK_TTL_S, three offer timeouts, runs for each key from its own   *)
(* last write: no worker still waits for the offer when one of them goes.    *)
OfferExpires(o) ==
    /\ "expire" \in Ops
    /\ Exists(o)
    /\ \A m \in Matchers : proc[m].offer # o
    /\ SetOffer(o, "GONE")
    /\ UNCHANGED <<db, active, hold, pointer, lock, jobs, proc, calls, faults>>

PointerExpires(r) ==
    /\ "expire" \in Ops
    /\ pointer[r] # None
    /\ \A m \in Matchers : proc[m].offer # pointer[r]
    /\ pointer' = [pointer EXCEPT ![r] = None]
    /\ UNCHANGED <<db, active, hold, offer, lock, jobs, proc, calls, faults>>

HoldExpires(d) ==
    /\ "expire" \in Ops
    /\ hold[d] # None
    /\ \A m \in Matchers : proc[m].ride = hold[d] => proc[m].driver # d
    /\ DelHold(d)
    /\ UNCHANGED <<db, active, pointer, offer, lock, jobs, proc, calls, faults>>

(* The 120 s ride lock goes on its own.  Its owner is normally gone by then, *)
(* unless enough of its offers timed out.                                    *)
Owns(m, r) == proc[m].ride = r /\ proc[m].pc \notin {"idle", "m_lock"}

LockExpires(r) ==
    /\ lock[r] # None
    /\ ~Owns(lock[r], r)
    /\ lock' = [lock EXCEPT ![r] = None]
    /\ UNCHANGED <<db, active, hold, pointer, offer, jobs, proc, calls, faults>>

LockOutlived(r) ==
    /\ faults < MaxFaults
    /\ lock[r] # None
    /\ Owns(lock[r], r) /\ proc[lock[r]].waits >= LockTtlOffers
    /\ lock' = [lock EXCEPT ![r] = None]
    /\ faults' = faults + 1
    /\ UNCHANGED <<db, active, hold, pointer, offer, jobs, proc, calls>>

----------------------------------------------------------------------------
(* The stale-ride watchdog: sweepStaleActiveRides fixes a cutoff and selects *)
(* the rows older than it, then cancelTripSystem reads each row, tears down  *)
(* its keys and offers, and repeats the sweep's predicate in the terminal    *)
(* UPDATE.                                                                   *)
SweepSelect(r, s) ==
    /\ "sweep" \in Ops
    /\ At(Watchdog, "idle")
    /\ ride[r].status \in SweptStatuses[s]
    /\ s = "overdue" => ride[r].status = "IN_PROGRESS"   \* started_at is NULL before
    /\ aged' = [aged EXCEPT ![r] = {SweptColumn[s]}]
    /\ proc' = [proc EXCEPT ![Watchdog] =
                  [Idle EXCEPT !.pc = "w_read", !.ride = r, !.sweep = s]]
    /\ UNCHANGED <<ride, rejected, redis, jobs, calls, faults>>

SweepRead ==
    /\ At(Watchdog, "w_read")
    /\ LET row == ride[proc[Watchdog].ride] IN
         CASE row.status \in Terminal -> Return(Watchdog)
           [] row.status = "REQUESTED" -> CancelOffers(Watchdog, "w_write")
           [] OTHER -> proc' = [proc EXCEPT ![Watchdog].pc = "w_key",
                                            ![Watchdog].driver = row.driver]
    /\ UNCHANGED <<db, redis, jobs, calls, faults>>

SweepWrite ==
    /\ At(Watchdog, "w_write")
    /\ LET r == proc[Watchdog].ride IN
         ride' = IF IsStale(r, proc[Watchdog].sweep)
                 THEN [ride EXCEPT ![r].status = "CANCELLED"] ELSE ride
    /\ Return(Watchdog)
    /\ UNCHANGED <<aged, rejected, redis, jobs, calls, faults>>

----------------------------------------------------------------------------
Shared(p) ==
    \/ TransitionGet(p) \/ TransitionSet(p)
    \/ CancelOffersRead(p) \/ CancelOffersFree(p) \/ CancelOffersUnlink(p)
    \/ CancelDelActive(p)

HandlerStep(h) ==
    \/ RequestEnqueue(h)
    \/ AcceptCheckRejected(h) \/ AcceptReadActive(h) \/ AcceptCheckStale(h)
    \/ AcceptClearStale(h) \/ AcceptOffer(h)
    \/ AcceptFlip(h) \/ AcceptSetActive(h) \/ AcceptSupersede(h) \/ AcceptFree(h)
    \/ DeclineReadOffer(h) \/ DeclineFree(h) \/ DeclineRecord(h) \/ DeclineRematch(h)
    \/ StartWrite(h) \/ CompleteDelActive(h) \/ CompleteWrite(h)
    \/ CancelWrite(h)
    \/ ReleaseDelActive(h) \/ ReleaseWrite(h) \/ ReleaseUnlink(h) \/ ReleaseRematch(h)
    \/ PendingReadOffer(h) \/ PendingFree(h)

MatcherStep(m) ==
    \/ \E r \in Rides, k \in 0 .. MaxRetries : MatchTake(m, r, k)
    \/ MatchLock(m) \/ MatchStage(m) \/ MatchNext(m)
    \/ MatchCheckKeys(m) \/ MatchCheckStale(m) \/ MatchHeal(m)
    \/ MatchHold(m) \/ MatchPublish(m) \/ MatchAttachGet(m) \/ MatchAttachSet(m)
    \/ MatchPoll(m) \/ MatchTimeout(m) \/ MatchFree(m)
    \/ MatchFailed(m) \/ MatchUnlock(m) \/ JobRescue(m)

WatchdogStep ==
    \/ \E r \in Rides, s \in Sweeps : SweepSelect(r, s)
    \/ SweepRead \/ SweepWrite

ClientCall(h) ==
    \/ \E r \in Rides : RequestRide(h, r) \/ Cancel(h, r)
    \/ \E r \in Rides, d \in Drivers :
          \/ Accept(h, r, d) \/ StartRide(h, r, d)
          \/ CompleteRide(h, r, d) \/ ReleaseRide(h, r, d)
    \/ \E o \in OfferIds : Decline(h, o)
    \/ \E d \in Drivers : DeclineByRide(h, d) \/ PendingOffer(h, d)

World ==
    \/ \E r \in Rides, d \in Drivers : MarkArriving(r, d)
    \/ \E r \in Rides : Retrigger(r) \/ LockExpires(r) \/ LockOutlived(r)
    \/ \E o \in OfferIds : OfferExpires(o)
    \/ \E r \in Rides : PointerExpires(r)
    \/ \E d \in Drivers : HoldExpires(d)
    \/ \E m \in Matchers : JobThrows(m) \/ JobCrash(m)
    \/ \E h \in Handlers \cup {Watchdog} : CallCrash(h)

Next ==
    \/ \E p \in Procs : Shared(p)
    \/ \E h \in Handlers : ClientCall(h) \/ HandlerStep(h)
    \/ \E m \in Matchers : MatcherStep(m)
    \/ WatchdogStep
    \/ World

Spec == Init /\ [][Next]_vars

(* Workers, handlers and the cron job keep running: each takes its next      *)
(* step unless it crashes, and faults are bounded.  Clients owe nothing.     *)
Fairness ==
    /\ \A p \in Procs : WF_vars(Shared(p))
    /\ \A h \in Handlers : WF_vars(HandlerStep(h))
    /\ \A m \in Matchers : WF_vars(MatcherStep(m))
    /\ WF_vars(WatchdogStep)
    /\ \A r \in Rides : WF_vars(LockExpires(r))

FairSpec == Spec /\ Fairness

(* Whatever the driver, the rider and the crashes do (an accept abandoned    *)
(* half way, a lost match job, a driver who never starts or never finishes), *)
(* the three sweeps of the watchdog together leave no ride open for ever.    *)
EveryRideEnds ==
    \A r \in Rides : ride[r].status = "REQUESTED" ~> ride[r].status \in Terminal

----------------------------------------------------------------------------
(* Every variable keeps its type: what is stored in each Redis key, and the  *)
(* bounds of the counters.                                                   *)
TypeOK ==
    /\ ride \in [Rides -> [status : Status, driver : Drivers \cup {None}]]
    /\ aged \in [Rides -> SUBSET {"created", "accepted", "started"}]
    /\ rejected \in [Rides -> SUBSET Drivers]
    /\ active \in [Drivers -> Rides \cup {None}]
    /\ hold \in [Drivers -> Rides \cup {None}]
    /\ pointer \in [Rides -> OfferIds \cup {None}]
    /\ offer \in [OfferIds -> [ride : Rides \cup {None}, driver : Drivers \cup {None},
                               status : OfferStatus, due : BOOLEAN]]
    /\ lock \in [Rides -> Matchers \cup {None}]
    /\ jobs \in [Rides -> [0 .. MaxRetries -> 0 .. MaxJobs]]
    /\ calls \in 0 .. MaxCalls /\ faults \in 0 .. MaxFaults
    /\ proc \in [Procs -> Process]

(* Every write any of these processes makes to a ride row is one the row's   *)
(* lifecycle allows, in every interleaving.                                  *)
Lifecycle == INSTANCE RideLifecycle WITH checked <- {}, grouped <- {}
LifecycleSpec == Lifecycle!Spec

(* The ride lock serializes matchers: as long as no job dies and no lock     *)
(* runs out, one job at a time walks the candidates of a ride, although      *)
(* every decline, release and goOnline queues another one.                   *)
Matching(m, r) == proc[m].ride = r /\ proc[m].pc \notin {"idle", "m_lock", "m_rescue"}
OneMatcherPerRide ==
    faults = 0 =>
        \A r \in Rides, m, n \in Matchers : Matching(m, r) /\ Matching(n, r) => m = n

(* A ride lock always has a job at work behind it while nothing crashes, so  *)
(* the jobs that find it taken and end do not leave the ride to a dead lock. *)
NoOrphanLock ==
    faults = 0 =>
        \A r \in Rides : lock[r] # None => Matching(lock[r], r)

(* The driver who gets a ride is one the matcher offered it to: whatever     *)
(* offers time out, are superseded or replaced while an accept is between    *)
(* its commands, the flip never assigns a driver the ride was not offered.   *)
AssignedDriverWasOffered ==
    [][\A r \in Rides :
          ride[r].status = "REQUESTED" /\ ride'[r].status = "ACCEPTED" =>
              \E o \in OfferIds : offer[o].ride = r /\ offer[o].driver = ride'[r].driver]_vars

(* Once every call and job has returned no offer is left SENT: although a    *)
(* matcher may write SENT back over a cancellation, somebody still waits for *)
(* it and closes it, and no driver's screen shows a ride nobody waits on.    *)
Quiet == faults = 0 /\ \A p \in Procs : At(p, "idle")
NoForgottenOffer == Quiet => \A o \in OfferIds : offer[o].status # "SENT"

(* The matcher gives a ride up and cancels it only when nobody is looking at *)
(* an offer of it any more: whatever decline, cancellation or second ride of *)
(* the same driver comes between the commands of its attempts, every offer   *)
(* it sent has been closed, and no driver's screen shows the dead ride.      *)
NotGivenUpWhileOffered ==
    [][\A r \in Rides, m \in Matchers :
          /\ faults = 0 /\ At(m, "m_failed") /\ proc[m].ride = r
          /\ ride'[r].status # ride[r].status
          => \A o \in OfferIds : offer[o].ride = r => offer[o].status # "SENT"]_vars

(* A ride lock is free again sooner or later, whether its job returns,       *)
(* throws, or dies and leaves it to its TTL: no ride becomes unmatchable.    *)
LockEventuallyFree == \A r \in Rides : lock[r] # None ~> lock[r] = None

----------------------------------------------------------------------------
(* What comments in the code say, and these protocols do not keep.           *)

(* cancelTrip and declineTrip re-dispatch the same ride: as long as nothing  *)
(* crashes, a REQUESTED ride has a job queued, a matcher at work, or a call  *)
(* about to queue one.                                                       *)
RematchNotLost ==
    faults = 0 =>
        \A r \in Rides :
            ride[r].status = "REQUESTED" =>
                \/ \E k \in 0 .. MaxRetries : jobs[r][k] > 0
                \/ \E m \in Matchers : proc[m].ride = r
                \/ \E h \in Handlers : proc[h].ride = r

(* createOffer succeeds only if the driver has no active offer: a driver     *)
(* never has two offers open, neither past its expiry, at once.              *)
OneLiveOfferPerDriver ==
    \A o, q \in OfferIds :
        /\ o # q /\ offer[o].status = "SENT" /\ offer[q].status = "SENT"
        /\ ~offer[o].due /\ ~offer[q].due
        => offer[o].driver # offer[q].driver

(* Only the driver an offer belongs to may decline it.                       *)
OnlyOwnOfferDeclined ==
    [][\A o \in OfferIds, h \in Handlers :
          /\ At(h, "t_set") /\ proc[h].offer = o /\ offer'[o].status = "DECLINED"
          /\ offer[o].status # "DECLINED"
          => offer[o].driver = proc[h].driver]_vars

(* acceptTrip ensures that the driver does not have another active trip.     *)
OneRidePerDriver ==
    \A q, r \in Rides :
        /\ q # r /\ ride[q].status \in Engaged /\ ride[r].status \in Engaged
        => ride[q].driver # ride[r].driver
=============================================================================
