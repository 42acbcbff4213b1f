-------------------------- MODULE Dispatch_proofs ---------------------------
(* Every key, row and counter of Dispatch keeps its type, for any number of   *)
(* rides, drivers, handlers and matchers.  Typing alone is not inductive: a   *)
(* process applies ride, offer and the keys to what it read commands ago, so  *)
(* IInv adds that every process holds what its next command needs (Ready).    *)
EXTENDS Dispatch, TLAPS

(* Labels whose next command needs a driver, and those that need an offer.   *)
WithDriver == {"a_rejected", "a_active", "a_stale", "a_clear", "a_offer", "a_flip",
               "d_offer", "d_free", "d_reject", "r_key", "r_write",
               "m_check", "m_stale", "m_heal", "m_create", "m_publish"}
WithOffer == {"t_get", "t_set", "m_attach", "m_payload", "m_wait"}
(* Statuses of an offer that has been created, expired or not.               *)
Written == OfferStatus \ {"NONE"}

(* What the next command of a process needs: a ride unless it is idle, a     *)
(* driver or a written offer where the label says so, and a legal status to  *)
(* write.                                                                    *)
Ready(q, offers) ==
    /\ q.pc # "idle" => q.ride \in Rides
    /\ q.pc \in WithDriver => q.driver \in Drivers
    /\ q.pc \in WithOffer => q.offer \in OfferIds /\ offers[q.offer].status \in Written
    /\ q.pc \in {"t_get", "t_set"} =>
          /\ q.to \in Written
          /\ q.ok \in WithDriver \/ q.miss \in WithDriver => q.driver \in Drivers
          /\ q.ok \notin WithOffer /\ q.miss \notin WithOffer
    /\ q.pc = "m_payload" => q.seen \in Written

(* The types of the tables, the Redis keys, the offers, the queue and the    *)
(* processes; an offer that was written names its ride and its driver.       *)
DbOK ==
    /\ ride \in [Rides -> [status : Status, driver : Drivers \cup {None}]]
    /\ aged \in [Rides -> SUBSET {"created", "accepted", "started"}]
    /\ rejected \in [Rides -> SUBSET Drivers]
RedisOK ==
    /\ active \in [Drivers -> Rides \cup {None}]
    /\ hold \in [Drivers -> Rides \cup {None}]
    /\ pointer \in [Rides -> OfferIds \cup {None}]
    /\ lock \in [Rides -> Matchers \cup {None}]
OffersOK ==
    /\ offer \in [OfferIds -> [ride : Rides \cup {None}, driver : Drivers \cup {None},
                               status : OfferStatus, due : BOOLEAN]]
    /\ \A o \in OfferIds :
          offer[o].status \in Written => offer[o].ride \in Rides /\ offer[o].driver \in Drivers
QueueOK ==
    /\ jobs \in [Rides -> [0 .. MaxRetries -> 0 .. MaxJobs]]
    /\ calls \in 0 .. MaxCalls /\ faults \in 0 .. MaxFaults
ProcsOK ==
    /\ proc \in [Procs -> Process]
    /\ \A p \in Procs : Ready(proc[p], offer)

(* An offer that was written is never unwritten (it may be gone).            *)
OffersStay == \A o \in OfferIds : offer[o].status \in Written => offer'[o].status \in Written

USE DispatchAssumption DEF Procs, OfferIds, Written

(* A step that gives one process a state it is ready in keeps every process  *)
(* ready.                                                                    *)
LEMMA ProcStep ==
  ASSUME ProcsOK, OffersStay, NEW p \in Procs, NEW q \in Process, Ready(q, offer'),
         proc' = [proc EXCEPT ![p] = q]
  PROVE  ProcsOK'
<1>1. proc' \in [Procs -> Process]
  BY DEF ProcsOK
<1>2. ASSUME NEW x \in Procs PROVE Ready(proc'[x], offer')
  <2>1. CASE x = p
    BY <2>1 DEF ProcsOK
  <2>2. CASE x # p
    <3>1. proc'[x] = proc[x] /\ Ready(proc[x], offer)
      BY <2>2 DEF ProcsOK
    <3>2. QED
      BY <3>1 DEF Ready, OffersStay, ProcsOK
  <2>3. QED
    BY <2>1, <2>2
<1>3. QED
  BY <1>1, <1>2 DEF ProcsOK

(* So does the end of a call.                                                *)
LEMMA ReturnStep ==
  ASSUME ProcsOK, OffersStay, NEW p \in Procs, Return(p)
  PROVE  ProcsOK'
<1>1. Idle \in Process /\ Ready(Idle, offer')
  BY DEF Idle, Process, Labels, Ready, WithDriver, WithOffer
<1>2. QED
  BY <1>1, ProcStep DEF Return

(* Labels that need no offer and are not the end of a call.                  *)
Plain == Labels \ (WithOffer \cup {"idle"})

(* So does going on to such a label.                                         *)
LEMMA GotoStep ==
  ASSUME ProcsOK, OffersStay, NEW p \in Procs, NEW pc \in Plain, Goto(p, pc),
         proc[p].ride \in Rides, pc \in WithDriver => proc[p].driver \in Drivers
  PROVE  ProcsOK'
<1> DEFINE q == [proc[p] EXCEPT !.pc = pc]
<1>1. proc[p] \in Process
  BY DEF ProcsOK
<1>2. q \in Process /\ q.pc = pc /\ q.ride = proc[p].ride /\ q.driver = proc[p].driver
  BY <1>1 DEF Process, Plain
<1>3. Ready(q, offer')
  BY <1>2 DEF Ready, Plain, WithOffer
<1>4. proc' = [proc EXCEPT ![p] = q]
  BY DEF Goto, Plain, ProcsOK
<1> HIDE DEF q
<1>5. QED
  BY <1>2, <1>3, <1>4, ProcStep

(* So does entering transitionOffer on a written offer.                      *)
LEMMA TransitionStep ==
  ASSUME ProcsOK, OffersStay, NEW p \in Procs, NEW o \in OfferIds, offer'[o].status \in Written,
         NEW from \in OfferStatus, NEW to \in Written, NEW ok \in Labels \ WithOffer, NEW miss \in Labels \ WithOffer,
         Transition(p, o, from, to, ok, miss), proc[p].ride \in Rides,
         ok \in WithDriver \/ miss \in WithDriver => proc[p].driver \in Drivers
  PROVE  ProcsOK'
<1> DEFINE q == [proc[p] EXCEPT !.pc = "t_get", !.offer = o, !.seen = from,
                                !.to = to, !.ok = ok, !.miss = miss]
<1>1. proc[p] \in Process
  BY DEF ProcsOK
<1>a. "t_get" \in Labels
  BY DEF Labels
<1>2. /\ q \in Process /\ q.pc = "t_get" /\ q.ride = proc[p].ride /\ q.driver = proc[p].driver
      /\ q.offer = o /\ q.to = to /\ q.ok = ok /\ q.miss = miss
  BY <1>1, <1>a DEF Process
<1>3. Ready(q, offer')
  BY <1>2 DEF Ready, WithOffer, WithDriver
<1>4. proc' = [proc EXCEPT ![p] = q]
  BY DEF Transition, ProcsOK
<1> HIDE DEF q
<1>5. QED
  BY <1>2, <1>3, <1>4, ProcStep

(* So does leaving transitionOffer.                                          *)
LEMMA TransitionedStep ==
  ASSUME ProcsOK, OffersStay, NEW p \in Procs, NEW pc \in Labels \ WithOffer,
         Transitioned(p, pc), pc # "idle" => proc[p].ride \in Rides,
         pc \in WithDriver => proc[p].driver \in Drivers
  PROVE  ProcsOK'
<1>1. CASE pc = "idle"
  BY <1>1, ReturnStep DEF Transitioned
<1>2. CASE pc # "idle"
  <2> DEFINE q == [proc[p] EXCEPT !.pc = pc, !.seen = None, !.to = None,
                                  !.ok = "idle", !.miss = "idle"]
  <2>1. proc[p] \in Process /\ "idle" \in Labels
    BY DEF ProcsOK, Labels
  <2>2. q \in Process /\ q.pc = pc /\ q.ride = proc[p].ride /\ q.driver = proc[p].driver
    BY <2>1 DEF Process
  <2>3. Ready(q, offer')
    BY <1>2, <2>2 DEF Ready, WithOffer
  <2>4. proc' = [proc EXCEPT ![p] = q]
    BY <1>2 DEF Transitioned, ProcsOK
  <2> HIDE DEF q
  <2>5. QED
    BY <2>2, <2>3, <2>4, ProcStep
<1>3. QED
  BY <1>1, <1>2

(* So does entering cancelRideOffers.                                        *)
LEMMA CancelOffersStep ==
  ASSUME ProcsOK, OffersStay, NEW p \in Procs, NEW back \in {"idle", "x_write", "w_write"},
         CancelOffers(p, back), proc[p].ride \in Rides
  PROVE  ProcsOK'
<1> DEFINE q == [proc[p] EXCEPT !.pc = "o_pointer", !.back = back]
<1>1. proc[p] \in Process /\ "o_pointer" \in Labels
  BY DEF ProcsOK, Labels
<1>2. q \in Process /\ q.pc = "o_pointer" /\ q.ride = proc[p].ride
  BY <1>1 DEF Process
<1>3. Ready(q, offer')
  BY <1>2 DEF Ready, WithOffer, WithDriver
<1>4. proc' = [proc EXCEPT ![p] = q]
  BY DEF CancelOffers, ProcsOK
<1> HIDE DEF q
<1>5. QED
  BY <1>2, <1>3, <1>4, ProcStep

(* So does turning to the next candidate.                                    *)
LEMMA NextCandidateStep ==
  ASSUME ProcsOK, OffersStay, NEW m \in Procs, NextCandidate(m), proc[m].ride \in Rides
  PROVE  ProcsOK'
<1> DEFINE q == [proc[m] EXCEPT !.pc = "m_next", !.driver = None, !.offer = None,
                  !.seen = None, !.to = None, !.ok = "idle", !.miss = "idle"]
<1>1. proc[m] \in Process /\ "m_next" \in Labels /\ "idle" \in Labels
  BY DEF ProcsOK, Labels
<1>2. q \in Process /\ q.pc = "m_next" /\ q.ride = proc[m].ride
  BY <1>1 DEF Process
<1>3. Ready(q, offer')
  BY <1>2 DEF Ready, WithOffer, WithDriver
<1>4. proc' = [proc EXCEPT ![m] = q]
  BY DEF NextCandidate, ProcsOK
<1> HIDE DEF q
<1>5. QED
  BY <1>2, <1>3, <1>4, ProcStep

(* So does a new call.                                                       *)
LEMMA NewCallStep ==
  ASSUME ProcsOK, OffersStay, NEW p \in Procs, NEW pc \in Plain, NEW r \in Rides,
         NEW d \in Drivers \cup {None}, pc \in WithDriver => d \in Drivers,
         proc' = [proc EXCEPT ![p] = NewCall(pc, r, d)]
  PROVE  ProcsOK'
<1> DEFINE q == NewCall(pc, r, d)
<1>1. Idle \in Process
  BY DEF Idle, Process, Labels
<1>2. q \in Process /\ q.pc = pc /\ q.ride = r /\ q.driver = d
  <2>1. pc \in Labels
    BY DEF Plain
  <2>2. QED
    BY <1>1, <2>1 DEF Process, NewCall
<1>3. Ready(q, offer')
  BY <1>2 DEF Ready, WithOffer, Plain
<1>4. proc' = [proc EXCEPT ![p] = q]
  OBVIOUS
<1> HIDE DEF q
<1>5. QED
  BY <1>2, <1>3, <1>4, ProcStep

(* So does a step that moves no process.                                     *)
LEMMA ProcsStay == ASSUME ProcsOK, OffersStay, UNCHANGED proc PROVE ProcsOK'
<1>1. ASSUME NEW x \in Procs PROVE Ready(proc'[x], offer')
  BY DEF ProcsOK, Ready, OffersStay
<1>2. QED
  BY <1>1 DEF ProcsOK

(* Everything but the processes.                                             *)
Store == DbOK /\ RedisOK /\ OffersOK /\ QueueOK

(* A step that writes no key and no row keeps the types of what is stored.   *)
LEMMA NothingStored ==
  ASSUME Store, UNCHANGED <<db, redis, jobs>>,
         calls' \in 0 .. MaxCalls, faults' \in 0 .. MaxFaults
  PROVE  Store' /\ OffersStay
BY DEF Store, DbOK, RedisOK, OffersOK, QueueOK, OffersStay, db, redis

(* So does deleting a driver's offer lock.                                   *)
LEMMA HoldFreed ==
  ASSUME Store, NEW d, DelHold(d),
         UNCHANGED <<db, active, pointer, offer, lock, jobs, calls, faults>>
  PROVE  Store' /\ OffersStay
BY DEF Store, DbOK, RedisOK, OffersOK, QueueOK, OffersStay, db, DelHold

(* So does deleting an active-trip key.                                      *)
LEMMA ActiveFreed ==
  ASSUME Store, NEW d, DelActive(d),
         UNCHANGED <<db, hold, pointer, offer, lock, jobs, calls, faults>>
  PROVE  Store' /\ OffersStay
BY DEF Store, DbOK, RedisOK, OffersOK, QueueOK, OffersStay, db, DelActive

(* So does deleting a ride's offer pointer.                                  *)
LEMMA PointerFreed ==
  ASSUME Store, NEW r, pointer' = [pointer EXCEPT ![r] = None],
         UNCHANGED <<db, active, hold, offer, lock, jobs, calls, faults>>
  PROVE  Store' /\ OffersStay
BY DEF Store, DbOK, RedisOK, OffersOK, QueueOK, OffersStay, db

(* So does setting or deleting a ride lock.                                  *)
LEMMA LockWritten ==
  ASSUME Store, NEW r, NEW m \in Matchers \cup {None}, lock' = [lock EXCEPT ![r] = m],
         UNCHANGED <<db, active, hold, pointer, offer, jobs>>,
         calls' \in 0 .. MaxCalls, faults' \in 0 .. MaxFaults
  PROVE  Store' /\ OffersStay
BY DEF Store, DbOK, RedisOK, OffersOK, QueueOK, OffersStay, db

(* Queueing a job keeps the type of the queue.                               *)
LEMMA JobQueued ==
  ASSUME Store, NEW r \in Rides, NEW k \in 0 .. MaxRetries, Enqueue(r, k)
  PROVE  jobs' \in [Rides -> [0 .. MaxRetries -> 0 .. MaxJobs]]
<1> DEFINE old == jobs[r]
           new == [old EXCEPT ![k] = IF @ < MaxJobs THEN @ + 1 ELSE @]
<1>1. jobs \in [Rides -> [0 .. MaxRetries -> 0 .. MaxJobs]]
  BY DEF Store, QueueOK
<1>2. old \in [0 .. MaxRetries -> 0 .. MaxJobs]
  BY <1>1
<1>3. new \in [0 .. MaxRetries -> 0 .. MaxJobs]
  BY <1>2
<1>4. jobs' = [jobs EXCEPT ![r] = new]
  BY DEF Enqueue
<1> HIDE DEF new
<1>5. QED
  BY <1>1, <1>3, <1>4

(* Writing a status to a written offer keeps the types and leaves it         *)
(* written.                                                                  *)
LEMMA OfferWritten ==
  ASSUME Store, NEW o \in OfferIds, offer[o].status \in Written,
         NEW s \in Written, SetOffer(o, s),
         UNCHANGED <<db, active, hold, pointer, lock, jobs, calls, faults>>
  PROVE  Store' /\ OffersStay /\ offer'[o].status \in Written
<1> DEFINE old == offer[o]
           new == [old EXCEPT !.status = s]
<1>1. old \in [ride : Rides \cup {None}, driver : Drivers \cup {None},
               status : OfferStatus, due : BOOLEAN]
  BY DEF Store, OffersOK
<1>2. /\ new \in [ride : Rides \cup {None}, driver : Drivers \cup {None},
                  status : OfferStatus, due : BOOLEAN]
      /\ new.ride = old.ride /\ new.driver = old.driver /\ new.status = s
  BY <1>1
<1>3. offer' = [offer EXCEPT ![o] = new]
  BY DEF SetOffer
<1> HIDE DEF new
<1>4. OffersOK' /\ OffersStay /\ offer'[o].status \in Written
  BY <1>2, <1>3 DEF Store, OffersOK, OffersStay
<1>5. QED
  BY <1>4 DEF Store, DbOK, RedisOK, QueueOK, db

(* So does the clock passing an offer's expiry, which changes no status.     *)
LEMMA OfferPassed ==
  ASSUME Store, NEW o \in OfferIds, PastExpiry(o),
         UNCHANGED <<db, active, hold, pointer, lock, jobs, calls, faults>>
  PROVE  Store' /\ OffersStay /\ offer'[o].status = offer[o].status
<1> DEFINE old == offer[o]
           new == [old EXCEPT !.due = TRUE]
<1>1. old \in [ride : Rides \cup {None}, driver : Drivers \cup {None},
               status : OfferStatus, due : BOOLEAN]
  BY DEF Store, OffersOK
<1>2. /\ new \in [ride : Rides \cup {None}, driver : Drivers \cup {None},
                  status : OfferStatus, due : BOOLEAN]
      /\ new.ride = old.ride /\ new.driver = old.driver /\ new.status = old.status
  BY <1>1
<1>3. offer' = [offer EXCEPT ![o] = new]
  BY DEF PastExpiry
<1> HIDE DEF new
<1>4. OffersOK' /\ OffersStay /\ offer'[o].status = offer[o].status
  BY <1>2, <1>3 DEF Store, OffersOK, OffersStay
<1>5. QED
  BY <1>4 DEF Store, DbOK, RedisOK, QueueOK, db

(* Writing a row keeps the types.                                            *)
LEMMA RideWritten ==
  ASSUME Store, NEW r \in Rides, NEW s \in Status, NEW d \in Drivers \cup {None},
         ride' = [ride EXCEPT ![r] = [status |-> s, driver |-> d]],
         aged' \in [Rides -> SUBSET {"created", "accepted", "started"}],
         rejected' \in [Rides -> SUBSET Drivers],
         UNCHANGED <<redis, calls, faults>>,
         jobs' \in [Rides -> [0 .. MaxRetries -> 0 .. MaxJobs]]
  PROVE  Store' /\ OffersStay
<1>1. DbOK'
  BY DEF Store, DbOK
<1>2. QED
  BY <1>1 DEF Store, RedisOK, OffersOK, QueueOK, OffersStay, redis

(* So does writing its status column alone.                                  *)
LEMMA StatusWritten ==
  ASSUME Store, NEW r \in Rides, NEW s \in Status,
         ride' = [ride EXCEPT ![r].status = s],
         aged' \in [Rides -> SUBSET {"created", "accepted", "started"}],
         UNCHANGED <<rejected, redis, calls, faults>>,
         jobs' \in [Rides -> [0 .. MaxRetries -> 0 .. MaxJobs]]
  PROVE  Store' /\ OffersStay
<1> DEFINE old == ride[r]
           new == [old EXCEPT !.status = s]
           d == old.driver
<1>1. ride \in [Rides -> [status : Status, driver : Drivers \cup {None}]]
  BY DEF Store, DbOK
<1>2. old \in [status : Status, driver : Drivers \cup {None}]
  BY <1>1
<1>3. d \in Drivers \cup {None} /\ new = [status |-> s, driver |-> d]
  BY <1>2
<1>4. ride' = [ride EXCEPT ![r] = new]
  OBVIOUS
<1> HIDE DEF new, d
<1>5. rejected' \in [Rides -> SUBSET Drivers]
  BY DEF Store, DbOK
<1>6. QED
  BY <1>3, <1>4, <1>5, RideWritten

(* The inductive invariant: types, and every process is ready for its next   *)
(* command.                                                                  *)
IInv == Store /\ ProcsOK

(* The invariant holds after every step of transitionOffer, of               *)
(* cancelRideOffers and of the teardown cancels share.                       *)
LEMMA SharedPreserves ==
  ASSUME IInv, NEW p \in Procs, Shared(p) PROVE IInv'
<1> DEFINE q == proc[p]
<1>q. q \in Process /\ Ready(q, offer)
  BY DEF IInv, ProcsOK
<1>1. CASE TransitionGet(p)
  <2>1. Store' /\ OffersStay
    BY <1>1, NothingStored DEF TransitionGet, IInv, Store, QueueOK
  <2>2. /\ q.pc = "t_get" /\ q.ride \in Rides
        /\ q.ok \in Labels \ WithOffer /\ q.miss \in Labels \ WithOffer
        /\ q.ok \in WithDriver \/ q.miss \in WithDriver => q.driver \in Drivers
    BY <1>q, <1>1 DEF TransitionGet, At, Ready, Process, WithOffer
  <2>3. CASE offer[q.offer].status = q.seen
    <3> DEFINE n == [q EXCEPT !.pc = "t_set"]
    <3>1. proc' = [proc EXCEPT ![p] = n]
      BY <1>1, <2>3 DEF TransitionGet, Goto
    <3>2. n \in Process /\ n.pc = "t_set" /\ n.ride = q.ride /\ n.driver = q.driver
          /\ n.offer = q.offer /\ n.to = q.to /\ n.ok = q.ok /\ n.miss = q.miss
      BY <1>q DEF Process, Labels
    <3>3. Ready(n, offer')
      BY <1>q, <2>1, <2>2, <3>2 DEF Ready, WithDriver, WithOffer, OffersStay
    <3> HIDE DEF n
    <3>4. QED
      BY <2>1, <3>1, <3>2, <3>3, ProcStep DEF IInv
  <2>4. CASE offer[q.offer].status # q.seen
    BY <1>1, <2>1, <2>2, <2>4, TransitionedStep DEF TransitionGet, IInv
  <2>5. QED
    BY <2>3, <2>4
<1>2. CASE TransitionSet(p)
  <2>1. /\ q.pc = "t_set" /\ q.ride \in Rides /\ q.ok \in Labels \ WithOffer
        /\ q.ok \in WithDriver => q.driver \in Drivers
        /\ q.offer \in OfferIds /\ offer[q.offer].status \in Written /\ q.to \in Written
    BY <1>q, <1>2 DEF TransitionSet, At, Ready, Process, WithOffer
  <2>2. Store' /\ OffersStay
    BY <1>2, <2>1, OfferWritten DEF TransitionSet, IInv
  <2>3. QED
    BY <1>2, <2>1, <2>2, TransitionedStep DEF TransitionSet, IInv
<1>3. CASE CancelOffersRead(p)
  <2>1. Store' /\ OffersStay
    BY <1>3, NothingStored DEF CancelOffersRead, IInv, Store, QueueOK
  <2>2. q.ride \in Rides
    BY <1>q, <1>3 DEF CancelOffersRead, At, Ready
  <2>3. CASE Exists(pointer[q.ride])
    <3>1. /\ pointer[q.ride] \in OfferIds /\ offer[pointer[q.ride]].status \in Written
          /\ offer' = offer
      BY <1>3, <2>2, <2>3 DEF CancelOffersRead, redis, Exists, IInv, Store, RedisOK, OffersOK
    <3>2. /\ "SENT" \in OfferStatus /\ "CANCELLED" \in Written
          /\ "o_free" \in Labels \ WithOffer /\ "o_free" \notin WithDriver
      BY DEF OfferStatus, Labels, WithOffer, WithDriver
    <3>3. QED
      BY <1>3, <2>1, <2>2, <2>3, <3>1, <3>2, TransitionStep DEF CancelOffersRead, IInv
  <2>4. CASE ~Exists(pointer[q.ride])
    <3>1. q.back = "idle" \/ q.back \in Plain \ WithDriver
      BY <1>q DEF Process, Plain, Labels, WithOffer, WithDriver
    <3>2. Goto(p, q.back)
      BY <1>3, <2>4 DEF CancelOffersRead
    <3>3. QED
      BY <2>1, <2>2, <3>1, <3>2, GotoStep, ReturnStep DEF Goto, IInv
  <2>5. QED
    BY <2>3, <2>4
<1>4. CASE CancelOffersFree(p)
  <2>1. Store' /\ OffersStay
    BY <1>4, HoldFreed DEF CancelOffersFree, IInv
  <2>2. q.ride \in Rides /\ "o_unlink" \in Plain \ WithDriver
    BY <1>q, <1>4 DEF CancelOffersFree, At, Ready, Plain, Labels, WithOffer, WithDriver
  <2>3. QED
    BY <1>4, <2>1, <2>2, GotoStep DEF CancelOffersFree, IInv
<1>5. CASE CancelOffersUnlink(p)
  <2>1. Store' /\ OffersStay
    BY <1>5, PointerFreed DEF CancelOffersUnlink, IInv
  <2>2. q.ride \in Rides /\ (q.back = "idle" \/ q.back \in Plain \ WithDriver)
    BY <1>q, <1>5 DEF CancelOffersUnlink, At, Ready, Process, Plain, Labels, WithOffer, WithDriver
  <2>3. QED
    BY <1>5, <2>1, <2>2, GotoStep, ReturnStep DEF CancelOffersUnlink, Goto, IInv
<1>6. CASE CancelDelActive(p)
  <2>1. Store' /\ OffersStay
    BY <1>6, ActiveFreed DEF CancelDelActive, IInv
  <2>2. q.ride \in Rides /\ {"x_write", "w_write"} \subseteq Plain \ WithDriver
    BY <1>q, <1>6 DEF CancelDelActive, At, Ready, Plain, Labels, WithOffer, WithDriver
  <2>3. QED
    BY <1>6, <2>1, <2>2, GotoStep DEF CancelDelActive, IInv
<1>7. QED
  BY <1>1, <1>2, <1>3, <1>4, <1>5, <1>6 DEF Shared

(* The invariant holds after every step of a handler.                        *)
LEMMA HandlerPreserves ==
  ASSUME IInv, NEW h \in Handlers, HandlerStep(h) PROVE IInv'
<1> DEFINE q == proc[h]
<1>q. q \in Process /\ Ready(q, offer) /\ h \in Procs
  BY DEF IInv, ProcsOK
<1>1. CASE RequestEnqueue(h) \/ ReleaseRematch(h)
  <2>1. q.ride \in Rides /\ Enqueue(q.ride, 0) /\ 0 \in 0 .. MaxRetries
    BY <1>q, <1>1 DEF RequestEnqueue, ReleaseRematch, At, Ready
  <2>2. jobs' \in [Rides -> [0 .. MaxRetries -> 0 .. MaxJobs]]
    BY <2>1, JobQueued DEF IInv
  <2>a. Store' /\ OffersStay
    BY <1>1, <2>2 DEF RequestEnqueue, ReleaseRematch, IInv, Store, DbOK, RedisOK, OffersOK, QueueOK,
       OffersStay, db, redis
  <2>3. QED
    BY <1>1, <1>q, <2>a, ReturnStep DEF RequestEnqueue, ReleaseRematch, IInv
<1>2. CASE AcceptCheckRejected(h)
  <2>1. Store' /\ OffersStay
    BY <1>2, NothingStored DEF AcceptCheckRejected, IInv, Store, QueueOK
  <2>2. q.ride \in Rides /\ q.driver \in Drivers /\ "a_active" \in Plain
    BY <1>q, <1>2 DEF AcceptCheckRejected, At, Ready, WithDriver, WithOffer, Plain, Labels
  <2>3. QED
    BY <1>2, <1>q, <2>1, <2>2, GotoStep, ReturnStep DEF AcceptCheckRejected, IInv
<1>3. CASE AcceptReadActive(h)
  <2>1. Store' /\ OffersStay
    BY <1>3, NothingStored DEF AcceptReadActive, IInv, Store, QueueOK
  <2>2. q.ride \in Rides /\ q.driver \in Drivers /\ "a_offer" \in Plain
    BY <1>q, <1>3 DEF AcceptReadActive, At, Ready, WithDriver, WithOffer, Plain, Labels
  <2>3. CASE active[q.driver] = None
    BY <1>3, <1>q, <2>1, <2>2, <2>3, GotoStep DEF AcceptReadActive, IInv
  <2>4. CASE active[q.driver] # None
    <3>1. PICK busy \in Rides : busy = active[q.driver]
      BY <2>2, <2>4 DEF IInv, Store, RedisOK
    <3> DEFINE n == [q EXCEPT !.pc = "a_stale", !.seen = busy]
    <3>b. q \in Process /\ "a_stale" \in Labels
      BY <1>q DEF Labels
    <3>2. n \in Process /\ n.pc = "a_stale" /\ n.ride = q.ride /\ n.driver = q.driver
      BY <3>b DEF Process
    <3>3. Ready(n, offer')
      BY <2>2, <3>2 DEF Ready, WithDriver, WithOffer
    <3>4. proc' = [proc EXCEPT ![h] = n]
      BY <1>3, <2>4, <3>1 DEF AcceptReadActive
    <3> HIDE DEF n
    <3>5. QED
      BY <1>q, <2>1, <3>2, <3>3, <3>4, ProcStep DEF IInv
  <2>5. QED
    BY <2>3, <2>4
<1>4. CASE AcceptCheckStale(h)
  <2>1. Store' /\ OffersStay
    BY <1>4, NothingStored DEF AcceptCheckStale, IInv, Store, QueueOK
  <2>2. q.ride \in Rides /\ q.driver \in Drivers /\ "a_clear" \in Plain
    BY <1>q, <1>4 DEF AcceptCheckStale, At, Ready, WithDriver, WithOffer, Plain, Labels
  <2>3. QED
    BY <1>4, <1>q, <2>1, <2>2, GotoStep, ReturnStep DEF AcceptCheckStale, IInv
<1>5. CASE AcceptClearStale(h)
  <2>1. Store' /\ OffersStay
    BY <1>5, ActiveFreed DEF AcceptClearStale, IInv
  <2>2. q.ride \in Rides /\ q.driver \in Drivers /\ "a_offer" \in Plain
    BY <1>q, <1>5 DEF AcceptClearStale, At, Ready, WithDriver, WithOffer, Plain, Labels
  <2>3. QED
    BY <1>5, <1>q, <2>1, <2>2, GotoStep DEF AcceptClearStale, IInv
<1>6. CASE AcceptOffer(h)
  <2> DEFINE o == pointer[q.ride]
             mine == Exists(o) /\ offer[o].driver = q.driver
  <2>1. q.ride \in Rides /\ q.driver \in Drivers
    BY <1>q, <1>6 DEF AcceptOffer, At, Ready, WithDriver, WithOffer
  <2>2. Exists(o) => o \in OfferIds /\ offer[o].status \in Written
    BY <2>1 DEF Exists, IInv, Store, RedisOK, OffersOK
  <2>3. /\ "SENT" \in OfferStatus /\ {"EXPIRED", "ACCEPTED"} \subseteq Written
        /\ {"idle", "a_flip"} \subseteq Labels \ WithOffer /\ "idle" \notin WithDriver
    BY DEF OfferStatus, Labels, WithOffer, WithDriver
  <2>4. CASE /\ mine /\ PastExpiry(o)
             /\ Transition(h, o, "SENT", "EXPIRED", "idle", "idle")
    <3>1. Store' /\ OffersStay /\ offer'[o].status \in Written
      BY <1>6, <2>2, <2>4, OfferPassed DEF AcceptOffer, IInv
    <3>2. QED
      BY <1>q, <2>1, <2>2, <2>3, <2>4, <3>1, TransitionStep DEF IInv
  <2>5. CASE /\ mine /\ offer' = offer
             /\ Transition(h, o, "SENT", "ACCEPTED", "a_flip", "idle")
    <3>1. Store' /\ OffersStay
      BY <1>6, <2>5, NothingStored DEF AcceptOffer, redis, IInv, Store, QueueOK
    <3>2. QED
      BY <1>q, <2>1, <2>2, <2>3, <2>5, <3>1, TransitionStep DEF IInv
  <2>6. CASE /\ mine /\ offer' = offer
             /\ proc' = [proc EXCEPT ![h].pc = "a_flip", ![h].offer = o]
    <3>a. PICK mine_o \in OfferIds : mine_o = o
      BY <2>2, <2>6
    <3> DEFINE n == [q EXCEPT !.pc = "a_flip", !.offer = mine_o]
    <3>1. Store' /\ OffersStay
      BY <1>6, <2>6, NothingStored DEF AcceptOffer, redis, IInv, Store, QueueOK
    <3>b. q \in Process /\ "a_flip" \in Labels
      BY <1>q DEF Labels
    <3>2. n \in Process /\ n.pc = "a_flip" /\ n.ride = q.ride /\ n.driver = q.driver
      BY <3>b DEF Process
    <3>3. Ready(n, offer')
      BY <2>1, <3>2 DEF Ready, WithDriver, WithOffer
    <3>4. proc' = [proc EXCEPT ![h] = n]
      BY <2>6, <3>a
    <3> HIDE DEF n
    <3>5. QED
      BY <1>q, <3>1, <3>2, <3>3, <3>4, ProcStep DEF IInv
  <2>7. CASE offer' = offer /\ Return(h)
    <3>1. Store' /\ OffersStay
      BY <1>6, <2>7, NothingStored DEF AcceptOffer, redis, IInv, Store, QueueOK
    <3>2. QED
      BY <1>q, <2>7, <3>1, ReturnStep DEF IInv
  <2>8. QED
    BY <1>6, <2>4, <2>5, <2>6, <2>7 DEF AcceptOffer
<1>7. CASE AcceptFlip(h)
  <2>1. /\ q.ride \in Rides /\ q.driver \in Drivers /\ "ACCEPTED" \in Status
        /\ {"a_key", "a_supersede"} \subseteq Plain \ WithDriver
    BY <1>q, <1>7 DEF AcceptFlip, At, Ready, WithDriver, WithOffer, Plain, Labels, Status, Engaged, PrePickup
  <2>2. aged' \in [Rides -> SUBSET {"created", "accepted", "started"}] /\ rejected' \in [Rides -> SUBSET Drivers]
    BY <1>7, <2>1 DEF AcceptFlip, IInv, Store, DbOK
  <2>3. CASE ride[q.ride].status = "REQUESTED"
    <3>1. Store' /\ OffersStay
      BY <1>7, <2>1, <2>2, <2>3, RideWritten DEF AcceptFlip, IInv, Store, QueueOK
    <3>2. QED
      BY <1>7, <1>q, <2>1, <2>3, <3>1, GotoStep DEF AcceptFlip, IInv
  <2>4. CASE ride[q.ride].status # "REQUESTED"
    <3>1. Store' /\ OffersStay
      BY <1>7, <2>4, NothingStored DEF AcceptFlip, IInv, Store, QueueOK, db
    <3>2. QED
      BY <1>7, <1>q, <2>1, <2>4, <3>1, GotoStep DEF AcceptFlip, IInv
  <2>5. QED
    BY <2>3, <2>4
<1>8. CASE AcceptSetActive(h)
  <2>1. q.ride \in Rides
    BY <1>q, <1>8 DEF AcceptSetActive, At, Ready
  <2>2. Store' /\ OffersStay
    BY <1>8, <2>1 DEF AcceptSetActive, IInv, Store, DbOK, RedisOK, OffersOK, QueueOK, OffersStay, db
  <2>3. QED
    BY <1>8, <1>q, <2>2, ReturnStep DEF AcceptSetActive, IInv
<1>9. CASE AcceptSupersede(h)
  <2> DEFINE o == q.offer
  <2>1. Store' /\ OffersStay /\ offer' = offer
    BY <1>9, NothingStored DEF AcceptSupersede, IInv, Store, QueueOK, redis
  <2>2. q.ride \in Rides
    BY <1>q, <1>9 DEF AcceptSupersede, At, Ready
  <2>3. CASE Exists(o)
    <3>1. o \in OfferIds /\ offer[o].status \in Written /\ offer[o].status \in OfferStatus
      BY <1>q, <2>3 DEF Exists, Process, IInv, Store, OffersOK
    <3>2. "SUPERSEDED" \in Written /\ "a_free" \in Labels \ WithOffer /\ "a_free" \notin WithDriver
      BY DEF OfferStatus, Labels, WithOffer, WithDriver
    <3>3. QED
      BY <1>9, <1>q, <2>1, <2>2, <2>3, <3>1, <3>2, TransitionStep DEF AcceptSupersede, IInv
  <2>4. CASE ~Exists(o)
    BY <1>9, <1>q, <2>1, <2>4, ReturnStep DEF AcceptSupersede, IInv
  <2>5. QED
    BY <2>3, <2>4
<1>10. CASE AcceptFree(h)
  <2>1. Store' /\ OffersStay
    BY <1>10, HoldFreed DEF AcceptFree, IInv
  <2>2. QED
    BY <1>10, <1>q, <2>1, ReturnStep DEF AcceptFree, IInv
<1>11. CASE DeclineReadOffer(h)
  <2> DEFINE o == pointer[q.ride]
  <2>1. Store' /\ OffersStay /\ offer' = offer
    BY <1>11, NothingStored DEF DeclineReadOffer, IInv, Store, QueueOK, redis
  <2>2. q.ride \in Rides /\ q.driver \in Drivers
    BY <1>q, <1>11 DEF DeclineReadOffer, At, Ready, WithDriver, WithOffer
  <2>3. CASE Exists(o)
    <3>1. o \in OfferIds /\ offer[o].status \in Written
      BY <2>2, <2>3 DEF Exists, IInv, Store, RedisOK, OffersOK
    <3>2. "SENT" \in OfferStatus /\ "DECLINED" \in Written /\ "d_free" \in Labels \ WithOffer
      BY DEF OfferStatus, Labels, WithOffer
    <3>3. QED
      BY <1>11, <1>q, <2>1, <2>2, <2>3, <3>1, <3>2, TransitionStep DEF DeclineReadOffer, IInv
  <2>4. CASE ~Exists(o)
    BY <1>11, <1>q, <2>1, <2>4, ReturnStep DEF DeclineReadOffer, IInv
  <2>5. QED
    BY <2>3, <2>4
<1>12. CASE DeclineFree(h)
  <2>1. Store' /\ OffersStay
    BY <1>12, HoldFreed DEF DeclineFree, IInv
  <2>2. q.ride \in Rides /\ q.driver \in Drivers /\ "d_reject" \in Plain
    BY <1>q, <1>12 DEF DeclineFree, At, Ready, WithDriver, WithOffer, Plain, Labels
  <2>3. QED
    BY <1>12, <1>q, <2>1, <2>2, GotoStep DEF DeclineFree, IInv
<1>13. CASE DeclineRecord(h)
  <2>1. q.ride \in Rides /\ q.driver \in Drivers /\ "d_rematch" \in Plain \ WithDriver
    BY <1>q, <1>13 DEF DeclineRecord, At, Ready, WithDriver, WithOffer, Plain, Labels
  <2>2. DbOK'
    BY <1>13, <2>1 DEF DeclineRecord, IInv, Store, DbOK
  <2>3. Store' /\ OffersStay
    BY <1>13, <2>2 DEF DeclineRecord, IInv, Store, RedisOK, OffersOK, QueueOK, OffersStay, redis
  <2>4. QED
    BY <1>13, <1>q, <2>1, <2>3, GotoStep DEF DeclineRecord, IInv
<1>14. CASE DeclineRematch(h)
  <2>1. q.ride \in Rides /\ 0 \in 0 .. MaxRetries
    BY <1>q, <1>14 DEF DeclineRematch, At, Ready
  <2>2. jobs' \in [Rides -> [0 .. MaxRetries -> 0 .. MaxJobs]]
    BY <1>14, <2>1, JobQueued DEF DeclineRematch, IInv, Store, QueueOK
  <2>3. Store' /\ OffersStay
    BY <1>14, <2>2 DEF DeclineRematch, IInv, Store, DbOK, RedisOK, OffersOK, QueueOK, OffersStay, db, redis
  <2>4. QED
    BY <1>14, <1>q, <2>3, ReturnStep DEF DeclineRematch, IInv
<1>15. CASE StartWrite(h)
  <2>1. q.ride \in Rides /\ "IN_PROGRESS" \in Status
    BY <1>q, <1>15 DEF StartWrite, At, Ready, Status, Engaged
  <2>2. aged' \in [Rides -> SUBSET {"created", "accepted", "started"}]
    BY <1>15, <2>1 DEF StartWrite, IInv, Store, DbOK
  <2>3. Store' /\ OffersStay
    <3>1. CASE ride[q.ride].status \in PrePickup
      BY <1>15, <2>1, <2>2, <3>1, StatusWritten DEF StartWrite, IInv, Store, QueueOK
    <3>2. CASE ride[q.ride].status \notin PrePickup
      BY <1>15, <3>2, NothingStored DEF StartWrite, IInv, Store, QueueOK, db
    <3>3. QED
      BY <3>1, <3>2
  <2>4. QED
    BY <1>15, <1>q, <2>3, ReturnStep DEF StartWrite, IInv
<1>16. CASE CompleteDelActive(h)
  <2>1. Store' /\ OffersStay
    BY <1>16, ActiveFreed DEF CompleteDelActive, IInv
  <2>2. q.ride \in Rides /\ "u_complete" \in Plain \ WithDriver
    BY <1>q, <1>16 DEF CompleteDelActive, At, Ready, WithDriver, WithOffer, Plain, Labels
  <2>3. QED
    BY <1>16, <1>q, <2>1, <2>2, GotoStep DEF CompleteDelActive, IInv
<1>17. CASE CompleteWrite(h)
  <2>1. q.ride \in Rides /\ "COMPLETED" \in Status
    BY <1>q, <1>17 DEF CompleteWrite, At, Ready, Status, Terminal
  <2>2. Store' /\ OffersStay
    <3>1. CASE ride[q.ride].status \in Engaged
      BY <1>17, <2>1, <3>1, StatusWritten DEF CompleteWrite, IInv, Store, DbOK, QueueOK
    <3>2. CASE ride[q.ride].status \notin Engaged
      BY <1>17, <3>2, NothingStored DEF CompleteWrite, IInv, Store, QueueOK, db
    <3>3. QED
      BY <3>1, <3>2
  <2>3. QED
    BY <1>17, <1>q, <2>2, ReturnStep DEF CompleteWrite, IInv
<1>18. CASE CancelWrite(h)
  <2>1. q.ride \in Rides /\ "CANCELLED" \in Status
    BY <1>q, <1>18 DEF CancelWrite, At, Ready, Status, Terminal
  <2>2. Store' /\ OffersStay
    <3>1. CASE ride[q.ride].status \in Unassigned \cup Engaged
      BY <1>18, <2>1, <3>1, StatusWritten DEF CancelWrite, IInv, Store, DbOK, QueueOK
    <3>2. CASE ride[q.ride].status \notin Unassigned \cup Engaged
      BY <1>18, <3>2, NothingStored DEF CancelWrite, IInv, Store, QueueOK, db
    <3>3. QED
      BY <3>1, <3>2
  <2>3. CancelOffers(h, "idle") \/ Return(h)
    BY <1>18 DEF CancelWrite
  <2>4. QED
    BY <2>3, <1>q, <2>1, <2>2, ReturnStep, CancelOffersStep DEF IInv
<1>19. CASE ReleaseDelActive(h)
  <2>1. Store' /\ OffersStay
    BY <1>19, ActiveFreed DEF ReleaseDelActive, IInv
  <2>2. q.ride \in Rides /\ q.driver \in Drivers /\ "r_write" \in Plain
    BY <1>q, <1>19 DEF ReleaseDelActive, At, Ready, WithDriver, WithOffer, Plain, Labels
  <2>3. QED
    BY <1>19, <1>q, <2>1, <2>2, GotoStep DEF ReleaseDelActive, IInv
<1>20. CASE ReleaseWrite(h)
  <2>1. q.ride \in Rides /\ q.driver \in Drivers /\ "REQUESTED" \in Status /\ "r_unlink" \in Plain \ WithDriver
    BY <1>q, <1>20 DEF ReleaseWrite, At, Ready, WithDriver, WithOffer, Plain, Labels, Status, Unassigned
  <2>2. aged' \in [Rides -> SUBSET {"created", "accepted", "started"}] /\ rejected' \in [Rides -> SUBSET Drivers]
    BY <1>20, <2>1 DEF ReleaseWrite, IInv, Store, DbOK
  <2>3. CASE ride[q.ride].driver = q.driver /\ ride[q.ride].status \in PrePickup
    <3>1. Store' /\ OffersStay
      BY <1>20, <2>1, <2>2, <2>3, RideWritten DEF ReleaseWrite, IInv, Store, QueueOK
    <3>2. QED
      BY <1>20, <1>q, <2>1, <2>3, <3>1, GotoStep DEF ReleaseWrite, IInv
  <2>4. CASE ~(ride[q.ride].driver = q.driver /\ ride[q.ride].status \in PrePickup)
    <3>1. Store' /\ OffersStay
      BY <1>20, <2>4, NothingStored DEF ReleaseWrite, IInv, Store, QueueOK, db
    <3>2. QED
      BY <1>20, <1>q, <2>4, <3>1, ReturnStep DEF ReleaseWrite, IInv
  <2>5. QED
    BY <2>3, <2>4
<1>21. CASE ReleaseUnlink(h)
  <2>1. Store' /\ OffersStay
    BY <1>21, PointerFreed DEF ReleaseUnlink, IInv
  <2>2. q.ride \in Rides /\ "r_rematch" \in Plain \ WithDriver
    BY <1>q, <1>21 DEF ReleaseUnlink, At, Ready, WithDriver, WithOffer, Plain, Labels
  <2>3. QED
    BY <1>21, <1>q, <2>1, <2>2, GotoStep DEF ReleaseUnlink, IInv
<1>22. CASE PendingReadOffer(h)
  <2> DEFINE o == pointer[q.ride]
  <2>1. q.ride \in Rides
    BY <1>q, <1>22 DEF PendingReadOffer, At, Ready
  <2>2. CASE /\ Exists(o) /\ PastExpiry(o)
             /\ Transition(h, o, "SENT", "EXPIRED", "n_free", "n_free")
    <3>1. o \in OfferIds /\ offer[o].status \in Written
      BY <2>1, <2>2 DEF Exists, IInv, Store, RedisOK, OffersOK
    <3>2. Store' /\ OffersStay /\ offer'[o].status \in Written
      BY <1>22, <2>2, <3>1, OfferPassed DEF PendingReadOffer, IInv
    <3>3. "SENT" \in OfferStatus /\ "EXPIRED" \in Written /\ "n_free" \in Labels \ (WithOffer \cup WithDriver)
      BY DEF OfferStatus, Labels, WithOffer, WithDriver
    <3>4. QED
      BY <1>q, <2>1, <2>2, <3>1, <3>2, <3>3, TransitionStep DEF IInv
  <2>3. CASE offer' = offer /\ Return(h)
    <3>1. Store' /\ OffersStay
      BY <1>22, <2>3, NothingStored DEF PendingReadOffer, redis, IInv, Store, QueueOK
    <3>2. QED
      BY <1>q, <2>3, <3>1, ReturnStep DEF IInv
  <2>4. QED
    BY <1>22, <2>2, <2>3 DEF PendingReadOffer
<1>23. CASE PendingFree(h)
  <2>1. Store' /\ OffersStay
    BY <1>23, HoldFreed DEF PendingFree, IInv
  <2>2. QED
    BY <1>23, <1>q, <2>1, ReturnStep DEF PendingFree, IInv
<1>24. QED
  BY <1>1, <1>2, <1>3, <1>4, <1>5, <1>6, <1>7, <1>8, <1>9, <1>10, <1>11, <1>12, <1>13,
     <1>14, <1>15, <1>16, <1>17, <1>18, <1>19, <1>20, <1>21, <1>22, <1>23 DEF HandlerStep

(* A matcher that goes on to wait for its written offer is ready for it.     *)
LEMMA WaitStep ==
  ASSUME ProcsOK, OffersStay, NEW m \in Procs, proc' = [proc EXCEPT ![m].pc = "m_wait"],
         proc[m].ride \in Rides, proc[m].offer \in OfferIds, offer[proc[m].offer].status \in Written
  PROVE  ProcsOK'
<1> DEFINE q == [proc[m] EXCEPT !.pc = "m_wait"]
<1>1. proc[m] \in Process /\ "m_wait" \in Labels
  BY DEF ProcsOK, Labels
<1>2. q \in Process /\ q.pc = "m_wait" /\ q.ride = proc[m].ride /\ q.offer = proc[m].offer
  BY <1>1 DEF Process
<1>3. Ready(q, offer')
  BY <1>2 DEF Ready, WithOffer, WithDriver, OffersStay
<1>4. proc' = [proc EXCEPT ![m] = q]
  OBVIOUS
<1> HIDE DEF q
<1>5. QED
  BY <1>2, <1>3, <1>4, ProcStep

(* A matcher that has decided about a candidate is ready for what follows.   *)
LEMMA MatchDecideStep ==
  ASSUME ProcsOK, OffersStay, NEW m \in Procs, NEW x, MatchDecide(m, x),
         proc[m].ride \in Rides, proc[m].driver \in Drivers
  PROVE  ProcsOK'
<1>1. "m_create" \in Labels \ WithOffer /\ "m_create" # "idle"
  BY DEF Labels, WithOffer
<1>2. QED
  BY <1>1, NextCandidateStep, TransitionedStep DEF MatchDecide

(* The invariant holds after every step of a match job.                      *)
LEMMA MatcherPreserves ==
  ASSUME IInv, NEW m \in Matchers, MatcherStep(m) PROVE IInv'
<1> DEFINE q == proc[m]
<1>q. q \in Process /\ Ready(q, offer) /\ m \in Procs
  BY DEF IInv, ProcsOK
<1>1. ASSUME NEW r \in Rides, NEW k \in 0 .. MaxRetries, MatchTake(m, r, k) PROVE IInv'
  <2>1. jobs' \in [Rides -> [0 .. MaxRetries -> 0 .. MaxJobs]]
    <3> DEFINE old == jobs[r]
               new == [old EXCEPT ![k] = @ - 1]
    <3>1. old \in [0 .. MaxRetries -> 0 .. MaxJobs] /\ old[k] > 0
      BY <1>1 DEF MatchTake, IInv, Store, QueueOK
    <3>2. old[k] \in 0 .. MaxJobs
      BY <3>1
    <3>3. old[k] - 1 \in 0 .. MaxJobs
      BY <3>1, <3>2
    <3>4. new \in [0 .. MaxRetries -> 0 .. MaxJobs]
      BY <3>1, <3>3
    <3>5. jobs' = [jobs EXCEPT ![r] = new]
      BY <1>1 DEF MatchTake
    <3> HIDE DEF new
    <3>6. QED
      BY <3>4, <3>5 DEF IInv, Store, QueueOK
  <2>2. Store' /\ OffersStay
    BY <1>1, <2>1 DEF MatchTake, IInv, Store, DbOK, RedisOK, OffersOK, QueueOK, OffersStay, db, redis
  <2>3. CASE ride[r].status = "REQUESTED"
    <3> DEFINE n == [Idle EXCEPT !.pc = "m_lock", !.ride = r, !.retry = k]
    <3>1. Idle \in Process /\ "m_lock" \in Labels
      BY DEF Idle, Process, Labels
    <3>2. n \in Process /\ n.pc = "m_lock" /\ n.ride = r
      BY <3>1 DEF Process
    <3>3. Ready(n, offer')
      BY <3>2 DEF Ready, WithDriver, WithOffer
    <3>4. proc' = [proc EXCEPT ![m] = n]
      BY <1>1, <2>3 DEF MatchTake
    <3> HIDE DEF n
    <3>5. QED
      BY <1>q, <2>2, <3>2, <3>3, <3>4, ProcStep DEF IInv
  <2>4. CASE ride[r].status # "REQUESTED"
    BY <1>1, <2>2, <2>4, ProcsStay DEF MatchTake, IInv
  <2>5. QED
    BY <2>3, <2>4
<1>2. CASE MatchLock(m)
  <2>1. q.ride \in Rides /\ "m_stage" \in Plain \ WithDriver
    BY <1>q, <1>2 DEF MatchLock, At, Ready, WithDriver, WithOffer, Plain, Labels
  <2>2. CASE lock[q.ride] = None
    <3>1. Store' /\ OffersStay
      BY <1>2, <2>2, LockWritten DEF MatchLock, IInv, Store, QueueOK
    <3>2. QED
      BY <1>2, <1>q, <2>1, <2>2, <3>1, GotoStep DEF MatchLock, IInv
  <2>3. CASE lock[q.ride] # None
    <3>1. Store' /\ OffersStay
      BY <1>2, <2>3, NothingStored DEF MatchLock, IInv, Store, QueueOK, redis
    <3>2. QED
      BY <1>2, <1>q, <2>3, <3>1, ReturnStep DEF MatchLock, IInv
  <2>4. QED
    BY <2>2, <2>3
<1>3. CASE MatchStage(m)
  <2>1. q.ride \in Rides
    BY <1>q, <1>3 DEF MatchStage, At, Ready
  <2>2. active' \in [Drivers -> Rides \cup {None}]
    BY <1>3 DEF MatchStage, IInv, Store, RedisOK
  <2>3. Store' /\ OffersStay
    BY <1>3, <2>2 DEF MatchStage, IInv, Store, DbOK, RedisOK, OffersOK, QueueOK, OffersStay, db
  <2>4. PICK left \in SUBSET Drivers : proc' = [proc EXCEPT ![m].pc = "m_next", ![m].left = left]
    BY <1>3 DEF MatchStage
  <2> DEFINE n == [q EXCEPT !.pc = "m_next", !.left = left]
  <2>5. q \in Process /\ "m_next" \in Labels
    BY <1>q DEF Labels
  <2>6. n \in Process /\ n.pc = "m_next" /\ n.ride = q.ride
    BY <2>5 DEF Process
  <2>7. Ready(n, offer')
    BY <2>1, <2>6 DEF Ready, WithDriver, WithOffer
  <2>8. proc' = [proc EXCEPT ![m] = n]
    BY <2>4
  <2> HIDE DEF n
  <2>9. QED
    BY <1>q, <2>3, <2>6, <2>7, <2>8, ProcStep DEF IInv
<1>4. CASE MatchNext(m)
  <2>1. Store' /\ OffersStay
    BY <1>4, NothingStored DEF MatchNext, IInv, Store, QueueOK
  <2>2. /\ q.ride \in Rides /\ {"m_failed", "m_unlock"} \subseteq Plain \ WithDriver
        /\ q \in Process /\ {"m_stage", "m_check"} \subseteq Labels
    BY <1>q, <1>4 DEF MatchNext, At, Ready, WithDriver, WithOffer, Plain, Labels
  <2>3. CASE Goto(m, "m_failed") \/ Goto(m, "m_unlock")
    BY <1>q, <2>1, <2>2, <2>3, GotoStep DEF IInv
  <2>4. CASE q.stage < LastStage /\ proc' = [proc EXCEPT ![m].pc = "m_stage", ![m].stage = @ + 1]
    <3> DEFINE stage == q.stage + 1
    <3>1. stage \in 0 .. LastStage
      <4>1. q.stage \in 0 .. LastStage
        BY <2>2 DEF Process
      <4>2. QED
        BY <4>1, <2>4
    <3>2. proc' = [proc EXCEPT ![m] = [q EXCEPT !.pc = "m_stage", !.stage = stage]]
      BY <2>4
    <3> HIDE DEF stage
    <3> DEFINE n == [q EXCEPT !.pc = "m_stage", !.stage = stage]
    <3>a. proc' = [proc EXCEPT ![m] = n]
      BY <3>2
    <3>3. n \in Process /\ n.pc = "m_stage" /\ n.ride = q.ride
      BY <2>2, <3>1 DEF Process
    <3>4. Ready(n, offer')
      BY <2>2, <3>3 DEF Ready, WithDriver, WithOffer
    <3> HIDE DEF n
    <3>5. QED
      BY <1>q, <2>1, <3>a, <3>3, <3>4, ProcStep DEF IInv
  <2>5. ASSUME NEW d \in q.left,
               proc' = [proc EXCEPT ![m].pc = "m_check", ![m].driver = d, ![m].left = @ \ {d}]
        PROVE  IInv'
    <3> DEFINE left == q.left \ {d}
               n == [q EXCEPT !.pc = "m_check", !.driver = d, !.left = left]
    <3>1. left \in SUBSET Drivers /\ d \in Drivers
      BY <2>2, <2>5 DEF Process
    <3>2. proc' = [proc EXCEPT ![m] = n]
      BY <2>5
    <3> HIDE DEF left
    <3>3. n \in Process /\ n.pc = "m_check" /\ n.ride = q.ride /\ n.driver = d
      BY <2>2, <3>1 DEF Process
    <3>4. Ready(n, offer')
      BY <2>2, <3>1, <3>3 DEF Ready, WithDriver, WithOffer
    <3> HIDE DEF n
    <3>5. QED
      BY <1>q, <2>1, <3>2, <3>3, <3>4, ProcStep DEF IInv
  <2>6. QED
    BY <1>4, <2>3, <2>4, <2>5 DEF MatchNext
<1>5. CASE MatchCheckKeys(m)
  <2>1. Store' /\ OffersStay
    BY <1>5, NothingStored DEF MatchCheckKeys, IInv, Store, QueueOK
  <2>2. q.ride \in Rides /\ q.driver \in Drivers /\ q \in Process /\ "m_stale" \in Labels
    BY <1>q, <1>5 DEF MatchCheckKeys, At, Ready, WithDriver, WithOffer, Labels
  <2>3. CASE active[q.driver] = None
    BY <1>5, <1>q, <2>1, <2>2, <2>3, MatchDecideStep DEF MatchCheckKeys, IInv
  <2>4. CASE active[q.driver] # None
    <3>1. PICK busy \in Rides, held \in Rides \cup {None} : busy = active[q.driver] /\ held = hold[q.driver]
      BY <2>2, <2>4 DEF IInv, Store, RedisOK
    <3> DEFINE n == [q EXCEPT !.pc = "m_stale", !.seen = busy, !.to = held]
    <3>2. n \in Process /\ n.pc = "m_stale" /\ n.ride = q.ride /\ n.driver = q.driver
      BY <2>2 DEF Process
    <3>3. Ready(n, offer')
      BY <2>2, <3>2 DEF Ready, WithDriver, WithOffer
    <3>4. proc' = [proc EXCEPT ![m] = n]
      BY <1>5, <2>4, <3>1 DEF MatchCheckKeys
    <3> HIDE DEF n
    <3>5. QED
      BY <1>q, <2>1, <3>2, <3>3, <3>4, ProcStep DEF IInv
  <2>5. QED
    BY <2>3, <2>4
<1>6. CASE MatchCheckStale(m)
  <2>1. Store' /\ OffersStay
    BY <1>6, NothingStored DEF MatchCheckStale, IInv, Store, QueueOK
  <2>2. q.ride \in Rides /\ q.driver \in Drivers /\ "m_heal" \in Plain
    BY <1>q, <1>6 DEF MatchCheckStale, At, Ready, WithDriver, WithOffer, Plain, Labels
  <2>3. QED
    BY <1>6, <1>q, <2>1, <2>2, GotoStep, NextCandidateStep DEF MatchCheckStale, IInv
<1>7. CASE MatchHeal(m)
  <2>1. Store' /\ OffersStay
    BY <1>7, ActiveFreed DEF MatchHeal, IInv
  <2>2. q.ride \in Rides /\ q.driver \in Drivers
    BY <1>q, <1>7 DEF MatchHeal, At, Ready, WithDriver, WithOffer
  <2>3. QED
    BY <1>7, <1>q, <2>1, <2>2, MatchDecideStep DEF MatchHeal, IInv
<1>8. CASE MatchHold(m)
  <2>1. q.ride \in Rides /\ q.driver \in Drivers /\ "m_publish" \in Plain
    BY <1>q, <1>8 DEF MatchHold, At, Ready, WithDriver, WithOffer, Plain, Labels
  <2>2. hold' \in [Drivers -> Rides \cup {None}]
    BY <1>8, <2>1 DEF MatchHold, IInv, Store, RedisOK
  <2>3. Store' /\ OffersStay
    BY <1>8, <2>2 DEF MatchHold, IInv, Store, DbOK, RedisOK, OffersOK, QueueOK, OffersStay, db
  <2>4. QED
    BY <1>8, <1>q, <2>1, <2>3, GotoStep, NextCandidateStep DEF MatchHold, IInv
<1>9. CASE MatchPublish(m)
  <2>1. /\ q.ride \in Rides /\ q.driver \in Drivers /\ q \in Process
        /\ "m_attach" \in Labels /\ "SENT" \in Written
    BY <1>q, <1>9 DEF MatchPublish, At, Ready, WithDriver, WithOffer, Labels, OfferStatus
  <2>2. PICK o \in OfferIds :
          /\ offer' = [offer EXCEPT ![o] = [ride |-> q.ride, driver |-> q.driver,
                                            status |-> "SENT", due |-> FALSE]]
          /\ pointer' = [pointer EXCEPT ![q.ride] = o]
          /\ proc' = [proc EXCEPT ![m].pc = "m_attach", ![m].offer = o]
    BY <1>9 DEF MatchPublish
  <2>3. OffersOK' /\ OffersStay /\ offer'[o].status = "SENT"
    BY <2>1, <2>2 DEF IInv, Store, OffersOK, OffersStay
  <2>4. RedisOK'
    BY <1>9, <2>1, <2>2 DEF MatchPublish, IInv, Store, RedisOK
  <2>5. Store'
    BY <1>9, <2>3, <2>4 DEF MatchPublish, IInv, Store, DbOK, QueueOK, db
  <2> DEFINE n == [q EXCEPT !.pc = "m_attach", !.offer = o]
  <2>6. n \in Process /\ n.pc = "m_attach" /\ n.ride = q.ride /\ n.offer = o
    BY <2>1 DEF Process
  <2>7. Ready(n, offer')
    BY <2>1, <2>3, <2>6 DEF Ready, WithDriver, WithOffer
  <2>8. proc' = [proc EXCEPT ![m] = n]
    BY <2>2
  <2> HIDE DEF n
  <2>9. QED
    BY <1>q, <2>3, <2>5, <2>6, <2>7, <2>8, ProcStep DEF IInv
<1>10. CASE MatchAttachGet(m)
  <2>1. Store' /\ OffersStay
    BY <1>10, NothingStored DEF MatchAttachGet, IInv, Store, QueueOK
  <2>2. /\ q.ride \in Rides /\ q \in Process /\ {"m_payload", "m_wait"} \subseteq Labels
        /\ q.offer \in OfferIds /\ offer[q.offer].status \in Written
    BY <1>q, <1>10 DEF MatchAttachGet, At, Ready, WithDriver, WithOffer, Labels
  <2>3. CASE Exists(q.offer)
    <3>1. PICK status \in Written : status = offer[q.offer].status
      BY <2>2
    <3> DEFINE n == [q EXCEPT !.pc = "m_payload", !.seen = status]
    <3>2. n \in Process /\ n.pc = "m_payload" /\ n.ride = q.ride /\ n.offer = q.offer /\ n.seen = status
      BY <2>2 DEF Process
    <3>3. Ready(n, offer')
      BY <2>1, <2>2, <3>2 DEF Ready, WithDriver, WithOffer, OffersStay
    <3>4. proc' = [proc EXCEPT ![m] = n]
      BY <1>10, <2>3, <3>1 DEF MatchAttachGet
    <3> HIDE DEF n
    <3>5. QED
      BY <1>q, <2>1, <3>2, <3>3, <3>4, ProcStep DEF IInv
  <2>4. CASE ~Exists(q.offer)
    <3>1. proc' = [proc EXCEPT ![m].pc = "m_wait"]
      BY <1>10, <2>4 DEF MatchAttachGet, Goto
    <3>2. QED
      BY <1>q, <2>1, <2>2, <3>1, WaitStep DEF IInv
  <2>5. QED
    BY <2>3, <2>4
<1>11. CASE MatchAttachSet(m)
  <2>1. /\ q.ride \in Rides /\ q.offer \in OfferIds /\ offer[q.offer].status \in Written
        /\ q.seen \in Written
    BY <1>q, <1>11 DEF MatchAttachSet, At, Ready, WithOffer
  <2>2. Store' /\ OffersStay
    BY <1>11, <2>1, OfferWritten DEF MatchAttachSet, IInv
  <2>3. proc' = [proc EXCEPT ![m].pc = "m_wait"]
    BY <1>11 DEF MatchAttachSet, Goto
  <2>4. QED
    BY <1>q, <2>1, <2>2, <2>3, WaitStep DEF IInv
<1>12. CASE MatchPoll(m)
  <2>1. Store' /\ OffersStay
    BY <1>12, NothingStored DEF MatchPoll, IInv, Store, QueueOK
  <2>2. q.ride \in Rides /\ "m_unlock" \in Plain \ WithDriver
    BY <1>q, <1>12 DEF MatchPoll, At, Ready, WithDriver, WithOffer, Plain, Labels
  <2>3. Goto(m, "m_unlock") \/ NextCandidate(m)
    BY <1>12 DEF MatchPoll
  <2>4. QED
    BY <1>q, <2>1, <2>2, <2>3, GotoStep, NextCandidateStep DEF IInv
<1>13. CASE MatchTimeout(m)
  <2>1. /\ q.ride \in Rides /\ q \in Process /\ {"t_get", "m_free"} \subseteq Labels
        /\ q.offer \in OfferIds /\ offer[q.offer].status \in Written
        /\ "SENT" \in Written /\ "EXPIRED" \in Written
    BY <1>q, <1>13 DEF MatchTimeout, At, Ready, WithOffer, Labels, OfferStatus
  <2>2. Store' /\ OffersStay /\ offer'[q.offer].status \in Written
    BY <1>13, <2>1, OfferPassed DEF MatchTimeout, IInv
  <2> DEFINE waits == IF q.waits < LockTtlOffers THEN q.waits + 1 ELSE q.waits
             n == [q EXCEPT !.pc = "t_get", !.seen = "SENT", !.to = "EXPIRED",
                            !.ok = "m_free", !.miss = "m_free", !.waits = waits]
  <2>3. waits \in 0 .. LockTtlOffers
    <3>1. q.waits \in 0 .. LockTtlOffers
      BY <2>1 DEF Process
    <3>2. QED
      BY <3>1
  <2>4. proc' = [proc EXCEPT ![m] = n]
    BY <1>13 DEF MatchTimeout
  <2> HIDE DEF waits
  <2>5. /\ n \in Process /\ n.pc = "t_get" /\ n.ride = q.ride /\ n.offer = q.offer
        /\ n.to = "EXPIRED" /\ n.ok = "m_free" /\ n.miss = "m_free"
    BY <2>1, <2>3 DEF Process
  <2>6. Ready(n, offer')
    BY <2>1, <2>2, <2>5 DEF Ready, WithDriver, WithOffer
  <2> HIDE DEF n
  <2>7. QED
    BY <1>q, <2>2, <2>4, <2>5, <2>6, ProcStep DEF IInv
<1>14. CASE MatchFree(m)
  <2>1. Store' /\ OffersStay
    BY <1>14, HoldFreed DEF MatchFree, IInv
  <2>2. q.ride \in Rides
    BY <1>q, <1>14 DEF MatchFree, At, Ready
  <2>3. QED
    BY <1>14, <1>q, <2>1, <2>2, NextCandidateStep DEF MatchFree, IInv
<1>15. CASE MatchFailed(m)
  <2>1. q.ride \in Rides /\ "m_unlock" \in Plain \ WithDriver /\ "CANCELLED" \in Status
    BY <1>q, <1>15 DEF MatchFailed, At, Ready, WithDriver, WithOffer, Plain, Labels, Status, Terminal
  <2>2. jobs' \in [Rides -> [0 .. MaxRetries -> 0 .. MaxJobs]]
    <3>1. CASE q.retry < MaxRetries
      <4>1. q.retry + 1 \in 0 .. MaxRetries
        BY <1>q, <3>1 DEF Process
      <4>2. QED
        BY <1>15, <2>1, <3>1, <4>1, JobQueued DEF MatchFailed, IInv
    <3>2. CASE ~(q.retry < MaxRetries)
      BY <1>15, <3>2 DEF MatchFailed, IInv, Store, QueueOK
    <3>3. QED
      BY <3>1, <3>2
  <2>3. ride' = ride \/ ride' = [ride EXCEPT ![q.ride].status = "CANCELLED"]
    BY <1>15 DEF MatchFailed
  <2>4. Store' /\ OffersStay
    <3>1. CASE ride' = ride
      BY <1>15, <2>2, <3>1 DEF MatchFailed, IInv, Store, DbOK, RedisOK, OffersOK, QueueOK, OffersStay, redis
    <3>2. CASE ride' = [ride EXCEPT ![q.ride].status = "CANCELLED"]
      BY <1>15, <2>1, <2>2, <3>2, StatusWritten DEF MatchFailed, IInv, Store, DbOK
    <3>3. QED
      BY <2>3, <3>1, <3>2
  <2>5. QED
    BY <1>15, <1>q, <2>1, <2>4, GotoStep DEF MatchFailed, IInv
<1>16. CASE MatchUnlock(m)
  <2>1. Store' /\ OffersStay
    BY <1>16, LockWritten DEF MatchUnlock, IInv, Store, QueueOK
  <2>2. CASE Return(m)
    BY <1>q, <2>1, <2>2, ReturnStep DEF IInv
  <2>3. CASE At(m, "m_throw") /\ Goto(m, "m_rescue")
    <3>1. q.ride \in Rides /\ "m_rescue" \in Plain \ WithDriver
      BY <1>q, <2>3 DEF At, Ready, WithDriver, WithOffer, Plain, Labels
    <3>2. QED
      BY <1>q, <2>1, <2>3, <3>1, GotoStep DEF IInv
  <2>4. QED
    BY <1>16, <2>2, <2>3 DEF MatchUnlock
<1>17. CASE JobRescue(m)
  <2>1. q.ride \in Rides /\ q.retry \in 0 .. MaxRetries
    BY <1>q, <1>17 DEF JobRescue, At, Ready, Process
  <2>2. jobs' \in [Rides -> [0 .. MaxRetries -> 0 .. MaxJobs]]
    BY <1>17, <2>1, JobQueued DEF JobRescue, IInv
  <2>3. Store' /\ OffersStay
    BY <1>17, <2>2 DEF JobRescue, IInv, Store, DbOK, RedisOK, OffersOK, QueueOK, OffersStay, db
  <2>4. QED
    BY <1>17, <1>q, <2>3, ReturnStep DEF JobRescue, IInv
<1>18. QED
  BY <1>1, <1>2, <1>3, <1>4, <1>5, <1>6, <1>7, <1>8, <1>9, <1>10, <1>11, <1>12, <1>13,
     <1>14, <1>15, <1>16, <1>17 DEF MatcherStep

(* The invariant holds after every step of the watchdog.                     *)
LEMMA WatchdogPreserves == ASSUME IInv, WatchdogStep PROVE IInv'
<1> DEFINE w == Watchdog
           q == proc[w]
<1>q. q \in Process /\ Ready(q, offer) /\ w \in Procs
  BY DEF IInv, ProcsOK
<1>1. ASSUME NEW r \in Rides, NEW s \in Sweeps, SweepSelect(r, s) PROVE IInv'
  <2>1. SweptColumn[s] \in {"created", "accepted", "started"}
    BY DEF SweptColumn, Sweeps
  <2>2. DbOK'
    BY <1>1, <2>1 DEF SweepSelect, IInv, Store, DbOK
  <2>3. Store' /\ OffersStay
    BY <1>1, <2>2 DEF SweepSelect, IInv, Store, RedisOK, OffersOK, QueueOK, OffersStay, redis
  <2> DEFINE n == [Idle EXCEPT !.pc = "w_read", !.ride = r, !.sweep = s]
  <2>4. Idle \in Process /\ "w_read" \in Labels
    BY DEF Idle, Process, Labels
  <2>5. n \in Process /\ n.pc = "w_read" /\ n.ride = r
    BY <2>4 DEF Process
  <2>6. Ready(n, offer')
    BY <2>5 DEF Ready, WithDriver, WithOffer
  <2>7. proc' = [proc EXCEPT ![w] = n]
    BY <1>1 DEF SweepSelect
  <2> HIDE DEF n
  <2>8. QED
    BY <1>q, <2>3, <2>5, <2>6, <2>7, ProcStep DEF IInv
<1>2. CASE SweepRead
  <2>1. Store' /\ OffersStay
    BY <1>2, NothingStored DEF SweepRead, IInv, Store, QueueOK
  <2>2. q.ride \in Rides /\ q \in Process /\ "w_key" \in Labels
    BY <1>q, <1>2 DEF SweepRead, At, Ready, Labels
  <2>3. CASE Return(w) \/ CancelOffers(w, "w_write")
    BY <1>q, <2>1, <2>2, <2>3, ReturnStep, CancelOffersStep DEF IInv
  <2>4. CASE proc' = [proc EXCEPT ![w].pc = "w_key", ![w].driver = ride[q.ride].driver]
    <3>1. PICK d \in Drivers \cup {None} : d = ride[q.ride].driver
      BY <2>2 DEF IInv, Store, DbOK
    <3> DEFINE n == [q EXCEPT !.pc = "w_key", !.driver = d]
    <3>2. n \in Process /\ n.pc = "w_key" /\ n.ride = q.ride
      BY <2>2 DEF Process
    <3>3. Ready(n, offer')
      BY <2>2, <3>2 DEF Ready, WithDriver, WithOffer
    <3>4. proc' = [proc EXCEPT ![w] = n]
      BY <2>4, <3>1
    <3> HIDE DEF n
    <3>5. QED
      BY <1>q, <2>1, <3>2, <3>3, <3>4, ProcStep DEF IInv
  <2>5. QED
    BY <1>2, <2>3, <2>4 DEF SweepRead
<1>3. CASE SweepWrite
  <2>1. q.ride \in Rides /\ "CANCELLED" \in Status
    BY <1>q, <1>3 DEF SweepWrite, At, Ready, Status, Terminal
  <2>2. ride' = ride \/ ride' = [ride EXCEPT ![q.ride].status = "CANCELLED"]
    BY <1>3 DEF SweepWrite
  <2>3. Store' /\ OffersStay
    <3>1. CASE ride' = ride
      BY <1>3, <3>1, NothingStored DEF SweepWrite, IInv, Store, QueueOK, db
    <3>2. CASE ride' = [ride EXCEPT ![q.ride].status = "CANCELLED"]
      BY <1>3, <2>1, <3>2, StatusWritten DEF SweepWrite, IInv, Store, DbOK, QueueOK
    <3>3. QED
      BY <2>2, <3>1, <3>2
  <2>4. QED
    BY <1>3, <1>q, <2>3, ReturnStep DEF SweepWrite, IInv
<1>4. QED
  BY <1>1, <1>2, <1>3 DEF WatchdogStep

(* A call that only reads keeps the types of what is stored.                 *)
LEMMA CallStored ==
  ASSUME Store, NEW h \in Handlers, NEW op, NEW new, Call(h, op, new), UNCHANGED <<db, redis, jobs>>
  PROVE  Store' /\ OffersStay
<1>1. calls' \in 0 .. MaxCalls /\ faults' \in 0 .. MaxFaults
  BY DEF Call, Store, QueueOK
<1>2. QED
  BY <1>1, NothingStored

(* The invariant holds after every call a client makes.                      *)
LEMMA ClientPreserves ==
  ASSUME IInv, NEW h \in Handlers, ClientCall(h) PROVE IInv'
<1>h. h \in Procs
  OBVIOUS
<1>1. ASSUME NEW r \in Rides, RequestRide(h, r) PROVE IInv'
  <2>1. "REQUESTED" \in Status /\ "q_enqueue" \in Plain \ WithDriver
    BY DEF Status, Unassigned, Plain, Labels, WithOffer, WithDriver
  <2>2. Store' /\ OffersStay
    BY <1>1, <2>1, StatusWritten DEF RequestRide, IInv, Store, DbOK, QueueOK
  <2>3. QED
    BY <1>1, <1>h, <2>1, <2>2, NewCallStep DEF RequestRide, IInv
<1>2. ASSUME NEW r \in Rides, Cancel(h, r) PROVE IInv'
  <2>1. Store' /\ OffersStay
    BY <1>2, CallStored DEF Cancel, IInv
  <2>2. PICK d \in Drivers \cup {None} : d = ride[r].driver
    BY DEF IInv, Store, DbOK
  <2> DEFINE c == NewCall("x_write", r, d)
             asked == [c EXCEPT !.pc = "o_pointer", !.back = "x_write"]
             held == [c EXCEPT !.pc = "x_key"]
  <2>3. Idle \in Process /\ {"x_write", "o_pointer", "x_key"} \subseteq Labels
    BY DEF Idle, Process, Labels
  <2>4. c \in Process /\ c.ride = r
    BY <2>3 DEF Process, NewCall
  <2>5. proc' = [proc EXCEPT ![h] = asked] \/ proc' = [proc EXCEPT ![h] = held]
    BY <1>2, <2>2 DEF Cancel, Call
  <2> HIDE DEF c
  <2>6. asked \in Process /\ asked.pc = "o_pointer" /\ asked.ride = r
    <3>1. "o_pointer" \in Labels /\ "x_write" \in {"idle", "x_write", "w_write"}
      BY <2>3
    <3>2. QED
      BY <2>4, <3>1 DEF Process
  <2>a. held \in Process /\ held.pc = "x_key" /\ held.ride = r
    BY <2>3, <2>4 DEF Process
  <2>7. Ready(asked, offer') /\ Ready(held, offer')
    BY <2>6, <2>a DEF Ready, WithDriver, WithOffer
  <2> HIDE DEF asked, held
  <2>8. QED
    BY <1>h, <2>1, <2>5, <2>6, <2>a, <2>7, ProcStep DEF IInv
<1>3. ASSUME NEW r \in Rides, NEW d \in Drivers,
             Accept(h, r, d) \/ StartRide(h, r, d) \/ CompleteRide(h, r, d)
      PROVE  IInv'
  <2>1. Store' /\ OffersStay
    BY <1>3, CallStored DEF Accept, StartRide, CompleteRide, IInv
  <2>2. {"a_rejected", "u_start", "u_key"} \subseteq Plain
    BY DEF Plain, Labels, WithOffer
  <2>3. QED
    BY <1>3, <1>h, <2>1, <2>2, NewCallStep DEF Accept, StartRide, CompleteRide, Call, IInv
<1>4. ASSUME NEW r \in Rides, NEW d \in Drivers, ReleaseRide(h, r, d) PROVE IInv'
  <2>1. "r_key" \in Plain
    BY DEF Plain, Labels, WithOffer
  <2>2. hold' = hold \/ DelHold(d)
    BY <1>4 DEF ReleaseRide
  <2>3. RedisOK'
    BY <1>4, <2>2 DEF ReleaseRide, DelHold, IInv, Store, RedisOK
  <2>4. QueueOK'
    BY <1>4 DEF ReleaseRide, Call, IInv, Store, QueueOK
  <2>5. Store' /\ OffersStay
    BY <1>4, <2>3, <2>4 DEF ReleaseRide, IInv, Store, DbOK, OffersOK, OffersStay, db
  <2>6. QED
    BY <1>4, <1>h, <2>1, <2>5, NewCallStep DEF ReleaseRide, Call, IInv
<1>5. ASSUME NEW o \in OfferIds, Decline(h, o) PROVE IInv'
  <2>1. Store' /\ OffersStay
    BY <1>5, CallStored DEF Decline, IInv
  <2>2. offer[o].status \in Written /\ offer[o].ride \in Rides /\ offer[o].driver \in Drivers
    BY <1>5 DEF Decline, Exists, IInv, Store, OffersOK
  <2>3. PICK r \in Rides, d \in Drivers : r = offer[o].ride /\ d = offer[o].driver
    BY <2>2
  <2> DEFINE c == NewCall("d_free", r, d)
             sent == [c EXCEPT !.pc = "t_set", !.offer = o, !.to = "DECLINED", !.ok = "d_free"]
  <2>4. Idle \in Process /\ {"d_free", "t_set", "idle"} \subseteq Labels /\ "DECLINED" \in Written
    BY DEF Idle, Process, Labels, OfferStatus
  <2>5. c \in Process /\ c.ride = r /\ c.driver = d /\ c.miss = "idle" /\ c.pc = "d_free"
    BY <2>4 DEF Process, NewCall, Idle
  <2>6. proc' = [proc EXCEPT ![h] = c] \/ proc' = [proc EXCEPT ![h] = sent]
    BY <1>5, <2>3 DEF Decline, Call
  <2> HIDE DEF c
  <2>7. /\ sent \in Process /\ sent.pc = "t_set" /\ sent.ride = r /\ sent.driver = d /\ sent.offer = o
        /\ sent.to = "DECLINED" /\ sent.ok = "d_free" /\ sent.miss = "idle"
    BY <2>4, <2>5 DEF Process
  <2>8. Ready(c, offer') /\ Ready(sent, offer')
    BY <2>1, <2>2, <2>4, <2>5, <2>7 DEF Ready, WithDriver, WithOffer, OffersStay
  <2> HIDE DEF sent
  <2>9. QED
    BY <1>h, <2>1, <2>5, <2>6, <2>7, <2>8, ProcStep DEF IInv
<1>6. ASSUME NEW d \in Drivers, DeclineByRide(h, d) \/ PendingOffer(h, d) PROVE IInv'
  <2>1. Store' /\ OffersStay
    BY <1>6, CallStored DEF DeclineByRide, PendingOffer, IInv
  <2>2. hold[d] \in Rides
    BY <1>6 DEF DeclineByRide, PendingOffer, IInv, Store, RedisOK
  <2>3. {"d_offer", "n_offer"} \subseteq Plain
    BY DEF Plain, Labels, WithOffer
  <2>4. QED
    BY <1>6, <1>h, <2>1, <2>2, <2>3, NewCallStep DEF DeclineByRide, PendingOffer, Call, IInv
<1>7. QED
  BY <1>1, <1>2, <1>3, <1>4, <1>5, <1>6 DEF ClientCall

(* The invariant holds after every fault, expiry and single-statement call.  *)
LEMMA WorldPreserves == ASSUME IInv, World PROVE IInv'
<1>1. ASSUME NEW r \in Rides, NEW d \in Drivers, MarkArriving(r, d) PROVE IInv'
  <2>1. "DRIVER_ARRIVING" \in Status
    BY DEF Status, Engaged, PrePickup
  <2>2. Store' /\ OffersStay
    BY <1>1, <2>1, StatusWritten DEF MarkArriving, IInv, Store, DbOK, QueueOK
  <2>3. QED
    BY <1>1, <2>2, ProcsStay DEF MarkArriving, IInv
<1>2. ASSUME NEW r \in Rides, Retrigger(r) PROVE IInv'
  <2>1. 0 \in 0 .. MaxRetries /\ calls' \in 0 .. MaxCalls
    BY <1>2 DEF Retrigger, IInv, Store, QueueOK
  <2>2. jobs' \in [Rides -> [0 .. MaxRetries -> 0 .. MaxJobs]]
    BY <1>2, <2>1, JobQueued DEF Retrigger, IInv
  <2>3. Store' /\ OffersStay
    BY <1>2, <2>1, <2>2 DEF Retrigger, IInv, Store, DbOK, RedisOK, OffersOK, QueueOK, OffersStay, db, redis
  <2>4. QED
    BY <1>2, <2>3, ProcsStay DEF Retrigger, IInv
<1>3. ASSUME NEW r \in Rides, LockExpires(r) PROVE IInv'
  <2>1. Store' /\ OffersStay
    BY <1>3, LockWritten DEF LockExpires, IInv, Store, QueueOK
  <2>2. QED
    BY <1>3, <2>1, ProcsStay DEF LockExpires, IInv
<1>4. ASSUME NEW r \in Rides, LockOutlived(r) PROVE IInv'
  <2>1. faults' \in 0 .. MaxFaults
    BY <1>4 DEF LockOutlived, IInv, Store, QueueOK
  <2>2. Store' /\ OffersStay
    BY <1>4, <2>1, LockWritten DEF LockOutlived, IInv, Store, QueueOK
  <2>3. QED
    BY <1>4, <2>2, ProcsStay DEF LockOutlived, IInv
<1>5. ASSUME NEW o \in OfferIds, OfferExpires(o) PROVE IInv'
  <2>1. offer[o].status \in Written /\ "GONE" \in Written
    BY <1>5 DEF OfferExpires, Exists, IInv, Store, OffersOK, OfferStatus
  <2>2. Store' /\ OffersStay
    BY <1>5, <2>1, OfferWritten DEF OfferExpires, IInv
  <2>3. QED
    BY <1>5, <2>2, ProcsStay DEF OfferExpires, IInv
<1>6. ASSUME NEW r \in Rides, PointerExpires(r) PROVE IInv'
  <2>1. Store' /\ OffersStay
    BY <1>6, PointerFreed DEF PointerExpires, IInv
  <2>2. QED
    BY <1>6, <2>1, ProcsStay DEF PointerExpires, IInv
<1>7. ASSUME NEW d \in Drivers, HoldExpires(d) PROVE IInv'
  <2>1. Store' /\ OffersStay
    BY <1>7, HoldFreed DEF HoldExpires, IInv
  <2>2. QED
    BY <1>7, <2>1, ProcsStay DEF HoldExpires, IInv
<1>8. ASSUME NEW m \in Matchers, JobThrows(m) PROVE IInv'
  <2>1. faults' \in 0 .. MaxFaults
    BY <1>8 DEF JobThrows, IInv, Store, QueueOK
  <2>2. Store' /\ OffersStay
    BY <1>8, <2>1, NothingStored DEF JobThrows, IInv, Store, QueueOK
  <2>3. m \in Procs /\ proc[m].ride \in Rides /\ {"m_rescue", "m_throw"} \subseteq Plain \ WithDriver
    BY <1>8 DEF JobThrows, IInv, ProcsOK, Ready, Plain, Labels, WithOffer, WithDriver
  <2>4. QED
    BY <1>8, <2>2, <2>3, GotoStep DEF JobThrows, IInv
<1>9. ASSUME NEW m \in Matchers, JobCrash(m) PROVE IInv'
  <2>1. faults' \in 0 .. MaxFaults
    BY <1>9 DEF JobCrash, IInv, Store, QueueOK
  <2>2. m \in Procs /\ proc[m].ride \in Rides /\ proc[m].retry \in 0 .. MaxRetries
    BY <1>9 DEF JobCrash, At, IInv, ProcsOK, Ready, Process
  <2>3. jobs' \in [Rides -> [0 .. MaxRetries -> 0 .. MaxJobs]]
    BY <1>9, <2>2, JobQueued DEF JobCrash, IInv
  <2>4. Store' /\ OffersStay
    BY <1>9, <2>1, <2>3 DEF JobCrash, IInv, Store, DbOK, RedisOK, OffersOK, QueueOK, OffersStay, db, redis
  <2>5. QED
    BY <1>9, <2>2, <2>4, ReturnStep DEF JobCrash, IInv
<1>10. ASSUME NEW h \in Handlers \cup {Watchdog}, CallCrash(h) PROVE IInv'
  <2>1. faults' \in 0 .. MaxFaults
    BY <1>10 DEF CallCrash, IInv, Store, QueueOK
  <2>2. Store' /\ OffersStay
    BY <1>10, <2>1, NothingStored DEF CallCrash, IInv, Store, QueueOK
  <2>3. QED
    BY <1>10, <2>2, ReturnStep DEF CallCrash, IInv
<1>11. QED
  BY <1>1, <1>2, <1>3, <1>4, <1>5, <1>6, <1>7, <1>8, <1>9, <1>10 DEF World

(* The initial state satisfies the invariant.                                *)
LEMMA Initially == Init => IInv
<1> SUFFICES ASSUME Init PROVE IInv
  OBVIOUS
<1>1. Store
  BY DEF Init, Store, DbOK, RedisOK, OffersOK, QueueOK, Status, OfferStatus
<1>2. Idle \in Process /\ Idle.pc = "idle"
  BY DEF Idle, Process, Labels
<1>3. Ready(Idle, offer)
  BY <1>2 DEF Ready, WithDriver, WithOffer
<1>4. ProcsOK
  BY <1>2, <1>3 DEF Init, ProcsOK
<1>5. QED
  BY <1>1, <1>4 DEF IInv

(* Every step of the specification preserves it.                             *)
LEMMA Preserved == IInv /\ [Next]_vars => IInv'
<1> SUFFICES ASSUME IInv, [Next]_vars PROVE IInv'
  OBVIOUS
<1>1. CASE \E p \in Procs : Shared(p)
  BY <1>1, SharedPreserves
<1>2. CASE \E h \in Handlers : ClientCall(h) \/ HandlerStep(h)
  BY <1>2, ClientPreserves, HandlerPreserves
<1>3. CASE \E m \in Matchers : MatcherStep(m)
  BY <1>3, MatcherPreserves
<1>4. CASE WatchdogStep
  BY <1>4, WatchdogPreserves
<1>5. CASE World
  BY <1>5, WorldPreserves
<1>6. CASE UNCHANGED vars
  <2>1. Store' /\ OffersStay
    BY <1>6, NothingStored DEF vars, IInv, Store, QueueOK
  <2>2. QED
    BY <1>6, <2>1, ProcsStay DEF vars, IInv
<1>7. QED
  BY <1>1, <1>2, <1>3, <1>4, <1>5, <1>6 DEF Next

(* The invariant holds in every reachable state, for any numbers of rides,   *)
(* drivers, handlers and matchers and for any bounds.                        *)
THEOREM Invariance == Spec => []IInv
BY Initially, Preserved, PTL DEF Spec

(* Every key, row and counter keeps its type in every reachable state,       *)
(* whatever the number of processes: no command of the dispatch code is ever *)
(* run on a missing ride, driver or offer.                                   *)
THEOREM TypeCorrect == Spec => []TypeOK
<1>1. IInv => TypeOK
  BY DEF IInv, Store, DbOK, RedisOK, OffersOK, QueueOK, ProcsOK, TypeOK
<1>2. QED
  BY <1>1, Invariance, PTL

(* A step of one process leaves what the others remember alone.              *)
Alone(p) == \A x \in Procs \ {p} : proc'[x] = proc[x]

(* The end of a call moves one process.                                      *)
LEMMA ReturnAlone == ASSUME ProcsOK, NEW p, Return(p) PROVE Alone(p)
BY DEF ProcsOK, Return, Alone

(* So does going on,                                                         *)
LEMMA GotoAlone == ASSUME ProcsOK, NEW p, NEW pc, Goto(p, pc) PROVE Alone(p)
BY ReturnAlone DEF ProcsOK, Goto, Alone

(* entering transitionOffer,                                                 *)
LEMMA TransitionAlone ==
  ASSUME ProcsOK, NEW p, NEW o, NEW from, NEW to, NEW ok, NEW miss,
         Transition(p, o, from, to, ok, miss)
  PROVE  Alone(p)
BY DEF ProcsOK, Transition, Alone

(* leaving it,                                                               *)
LEMMA TransitionedAlone == ASSUME ProcsOK, NEW p, NEW pc, Transitioned(p, pc) PROVE Alone(p)
BY ReturnAlone DEF ProcsOK, Transitioned, Alone

(* entering cancelRideOffers,                                                *)
LEMMA CancelOffersAlone == ASSUME ProcsOK, NEW p, NEW back, CancelOffers(p, back) PROVE Alone(p)
BY DEF ProcsOK, CancelOffers, Alone

(* and turning to the next candidate.                                        *)
LEMMA NextCandidateAlone == ASSUME ProcsOK, NEW p, NextCandidate(p) PROVE Alone(p)
BY DEF ProcsOK, NextCandidate, Alone

(* A shared step moves one process.                                          *)
LEMMA SharedAlone == ASSUME ProcsOK, NEW p \in Procs, Shared(p) PROVE Alone(p)
<1>1. CASE TransitionGet(p) \/ TransitionSet(p)
  BY <1>1, GotoAlone, TransitionedAlone DEF TransitionGet, TransitionSet
<1>2. CASE CancelOffersRead(p)
  BY <1>2, GotoAlone, TransitionAlone DEF CancelOffersRead
<1>3. CASE CancelOffersFree(p) \/ CancelOffersUnlink(p) \/ CancelDelActive(p)
  BY <1>3, GotoAlone DEF CancelOffersFree, CancelOffersUnlink, CancelDelActive
<1>4. QED
  BY <1>1, <1>2, <1>3 DEF Shared

(* A handler's step moves one process.                                       *)
LEMMA HandlerAlone == ASSUME ProcsOK, NEW h \in Handlers, HandlerStep(h) PROVE Alone(h)
<1>1. CASE RequestEnqueue(h) \/ AcceptCheckRejected(h) \/ AcceptCheckStale(h) \/ AcceptClearStale(h)
  BY <1>1, ReturnAlone, GotoAlone
     DEF RequestEnqueue, AcceptCheckRejected, AcceptCheckStale, AcceptClearStale
<1>2. CASE AcceptReadActive(h)
  BY <1>2, GotoAlone DEF AcceptReadActive, ProcsOK, Alone
<1>3. CASE AcceptOffer(h)
  <2>1. PICK o : o = pointer[proc[h].ride]
    OBVIOUS
  <2>2. \/ Transition(h, o, "SENT", "EXPIRED", "idle", "idle")
        \/ Transition(h, o, "SENT", "ACCEPTED", "a_flip", "idle")
        \/ proc' = [proc EXCEPT ![h].pc = "a_flip", ![h].offer = o]
        \/ Return(h)
    BY <1>3, <2>1 DEF AcceptOffer
  <2>3. QED
    BY <2>2, ReturnAlone, TransitionAlone DEF ProcsOK, Alone
<1>4. CASE AcceptFlip(h) \/ AcceptSetActive(h) \/ AcceptFree(h)
  BY <1>4, ReturnAlone, GotoAlone DEF AcceptFlip, AcceptSetActive, AcceptFree
<1>5. CASE AcceptSupersede(h) \/ DeclineReadOffer(h)
  BY <1>5, ReturnAlone, TransitionAlone DEF AcceptSupersede, DeclineReadOffer
<1>6. CASE DeclineFree(h) \/ DeclineRecord(h) \/ DeclineRematch(h)
  BY <1>6, ReturnAlone, GotoAlone DEF DeclineFree, DeclineRecord, DeclineRematch
<1>7. CASE StartWrite(h) \/ CompleteDelActive(h) \/ CompleteWrite(h)
  BY <1>7, ReturnAlone, GotoAlone DEF StartWrite, CompleteDelActive, CompleteWrite
<1>8. CASE CancelWrite(h) \/ ReleaseDelActive(h) \/ ReleaseWrite(h)
  BY <1>8, ReturnAlone, GotoAlone, CancelOffersAlone DEF CancelWrite, ReleaseDelActive, ReleaseWrite
<1>9. CASE ReleaseUnlink(h) \/ ReleaseRematch(h) \/ PendingFree(h)
  BY <1>9, ReturnAlone, GotoAlone DEF ReleaseUnlink, ReleaseRematch, PendingFree
<1>10. CASE PendingReadOffer(h)
  BY <1>10, ReturnAlone, TransitionAlone DEF PendingReadOffer
<1>11. QED
  BY <1>1, <1>2, <1>3, <1>4, <1>5, <1>6, <1>7, <1>8, <1>9, <1>10 DEF HandlerStep

(* A client's call moves one process.                                        *)
LEMMA ClientAlone == ASSUME ProcsOK, NEW h \in Handlers, ClientCall(h) PROVE Alone(h)
<1>1. \E new : proc' = [proc EXCEPT ![h] = new]
  BY DEF ClientCall, Call, RequestRide, Cancel, Accept, StartRide, CompleteRide, ReleaseRide,
         Decline, DeclineByRide, PendingOffer
<1>2. QED
  BY <1>1 DEF ProcsOK, Alone

(* A match job's step moves one process.                                     *)
LEMMA MatcherAlone == ASSUME ProcsOK, NEW m \in Matchers, MatcherStep(m) PROVE Alone(m)
<1>1. CASE \E r \in Rides, k \in 0 .. MaxRetries : MatchTake(m, r, k)
  BY <1>1 DEF MatchTake, ProcsOK, Alone
<1>2. CASE MatchLock(m) \/ MatchFree(m) \/ MatchFailed(m) \/ MatchUnlock(m) \/ JobRescue(m)
  BY <1>2, ReturnAlone, GotoAlone, NextCandidateAlone
     DEF MatchLock, MatchFree, MatchFailed, MatchUnlock, JobRescue
<1>3. CASE MatchStage(m)
  BY <1>3 DEF MatchStage, ProcsOK, Alone
<1>4. CASE MatchNext(m)
  BY <1>4, GotoAlone DEF MatchNext, ProcsOK, Alone
<1>5. ASSUME NEW x, MatchDecide(m, x) PROVE Alone(m)
  BY <1>5, NextCandidateAlone, TransitionedAlone DEF MatchDecide
<1>6. CASE MatchCheckKeys(m)
  BY <1>5, <1>6 DEF MatchCheckKeys, ProcsOK, Alone
<1>7. CASE MatchCheckStale(m) \/ MatchHeal(m)
  BY <1>5, <1>7, GotoAlone, NextCandidateAlone DEF MatchCheckStale, MatchHeal
<1>8. CASE MatchHold(m) \/ MatchPoll(m) \/ MatchAttachSet(m)
  BY <1>8, GotoAlone, NextCandidateAlone DEF MatchHold, MatchPoll, MatchAttachSet
<1>9. CASE MatchPublish(m) \/ MatchTimeout(m)
  BY <1>9 DEF MatchPublish, MatchTimeout, ProcsOK, Alone
<1>10. CASE MatchAttachGet(m)
  BY <1>10, GotoAlone DEF MatchAttachGet, ProcsOK, Alone
<1>11. QED
  BY <1>1, <1>2, <1>3, <1>4, <1>6, <1>7, <1>8, <1>9, <1>10 DEF MatcherStep

(* The watchdog's step moves one process.                                    *)
LEMMA WatchdogAlone == ASSUME ProcsOK, WatchdogStep PROVE Alone(Watchdog)
<1>1. CASE \E r \in Rides, s \in Sweeps : SweepSelect(r, s)
  BY <1>1 DEF SweepSelect, ProcsOK, Alone
<1>2. CASE SweepRead
  BY <1>2, ReturnAlone, CancelOffersAlone DEF SweepRead, ProcsOK, Alone
<1>3. CASE SweepWrite
  BY <1>3, ReturnAlone DEF SweepWrite
<1>4. QED
  BY <1>1, <1>2, <1>3 DEF WatchdogStep

-----------------------------------------------------------------------------
(* What the invariant is for.  First: Dispatch implements RideLifecycle;      *)
(* IInv gives the rides and drivers of the writes, SweepOK adds that the      *)
(* watchdog writes under one of the three sweeps, whose statuses are those a  *)
(* cancel may leave.  Then the ride lock serializes the match jobs and        *)
(* outlives none of them, the driver who gets a ride was offered it, and the  *)
(* offers that were sent are closed.                                          *)
USE DispatchAssumption DEF Procs, OfferIds, Written

(* A sweep at work knows which of the three it is.                           *)
SweepOK == At(Watchdog, "idle") \/ proc[Watchdog].sweep \in Sweeps
RInv == IInv /\ SweepOK

(* Until a call ends it remembers which sweep it belongs to.                 *)
KeepsSweep(p) == proc'[p].pc = "idle" \/ proc'[p].sweep = proc[p].sweep

(* The end of a call leaves its process idle.                                *)
LEMMA ReturnIdles == ASSUME ProcsOK, NEW p \in Procs, Return(p) PROVE proc'[p].pc = "idle"
BY DEF ProcsOK, Return, Idle

(* A shared step does not change which sweep a process belongs to.           *)
LEMMA SharedKeepsSweep == ASSUME ProcsOK, NEW p \in Procs, Shared(p) PROVE KeepsSweep(p)
<1> proc \in [Procs -> Process] /\ proc[p] \in Process
  BY DEF ProcsOK
<1>1. ASSUME NEW pc, Goto(p, pc) PROVE KeepsSweep(p)
  BY <1>1, ReturnIdles DEF Goto, KeepsSweep, Process
<1>2. ASSUME NEW pc, Transitioned(p, pc) PROVE KeepsSweep(p)
  BY <1>2, ReturnIdles DEF Transitioned, KeepsSweep, Process
<1>3. ASSUME NEW o, NEW from, NEW to, NEW ok, NEW miss, Transition(p, o, from, to, ok, miss)
      PROVE  KeepsSweep(p)
  BY <1>3 DEF Transition, KeepsSweep, Process
<1>4. CASE TransitionGet(p) \/ TransitionSet(p)
  BY <1>1, <1>2, <1>4 DEF TransitionGet, TransitionSet
<1>5. CASE CancelOffersRead(p)
  BY <1>1, <1>3, <1>5 DEF CancelOffersRead
<1>6. CASE CancelOffersFree(p) \/ CancelOffersUnlink(p) \/ CancelDelActive(p)
  BY <1>1, <1>6 DEF CancelOffersFree, CancelOffersUnlink, CancelDelActive
<1>7. QED
  BY <1>4, <1>5, <1>6 DEF Shared

(* Nor does a step of the watchdog.                                          *)
(* A sweep of the watchdog fails nothing and writes no offer.                *)
LEMMA WatchdogKeepsSweep == ASSUME ProcsOK, SweepOK, WatchdogStep PROVE SweepOK'
<1> DEFINE w == Watchdog
<1> proc \in [Procs -> Process] /\ proc[w] \in Process /\ w \in Procs
  BY DEF ProcsOK
<1>1. ASSUME NEW r \in Rides, NEW s \in Sweeps, SweepSelect(r, s) PROVE SweepOK'
  BY <1>1 DEF SweepSelect, SweepOK, Idle
<1>2. CASE SweepRead
  <2>1. proc[w].sweep \in Sweeps
    BY <1>2 DEF SweepRead, SweepOK, At
  <2>2. CASE Return(w)
    BY <2>2, ReturnIdles DEF SweepOK, At
  <2>3. CASE CancelOffers(w, "w_write")
    BY <2>1, <2>3 DEF CancelOffers, SweepOK, Process
  <2>4. CASE proc' = [proc EXCEPT ![w].pc = "w_key", ![w].driver = ride[proc[w].ride].driver]
    BY <2>1, <2>4 DEF SweepOK, Process
  <2>5. QED
    BY <1>2, <2>2, <2>3, <2>4 DEF SweepRead
<1>3. CASE SweepWrite
  BY <1>3, ReturnIdles DEF SweepWrite, SweepOK, At
<1>4. QED
  BY <1>1, <1>2, <1>3 DEF WatchdogStep

(* Every step preserves the invariant and the watchdog's knowledge of its    *)
(* sweep.                                                                    *)
LEMMA SweepPreserved == RInv /\ [Next]_vars => RInv'
<1> SUFFICES ASSUME RInv, [Next]_vars PROVE RInv'
  OBVIOUS
<1>1. IInv'
  BY Preserved DEF RInv
<1>2. SweepOK'
  <2>1. ASSUME proc'[Watchdog] = proc[Watchdog] PROVE SweepOK'
    BY <2>1 DEF RInv, SweepOK, At
  <2>2. ASSUME NEW p \in Procs, Shared(p) PROVE SweepOK'
    <3>1. CASE p = Watchdog
      BY <2>2, <3>1, SharedKeepsSweep DEF RInv, IInv, SweepOK, KeepsSweep, At, Shared, TransitionGet,
         TransitionSet, CancelOffersRead, CancelOffersFree, CancelOffersUnlink, CancelDelActive
    <3>2. CASE p # Watchdog
      BY <2>1, <2>2, <3>2, SharedAlone DEF RInv, IInv, Alone
    <3>3. QED
      BY <3>1, <3>2
  <2>3. ASSUME NEW h \in Handlers, ClientCall(h) \/ HandlerStep(h) PROVE SweepOK'
    BY <2>1, <2>3, ClientAlone, HandlerAlone DEF RInv, IInv, Alone
  <2>4. ASSUME NEW m \in Matchers, MatcherStep(m) PROVE SweepOK'
    BY <2>1, <2>4, MatcherAlone DEF RInv, IInv, Alone
  <2>5. CASE WatchdogStep
    BY <2>5, WatchdogKeepsSweep DEF RInv, IInv
  <2>6. CASE World
    <3>1. ASSUME NEW m \in Matchers, JobThrows(m) \/ JobCrash(m) PROVE SweepOK'
      BY <2>1, <3>1, GotoAlone, ReturnAlone DEF JobThrows, JobCrash, RInv, IInv, Alone
    <3>2. ASSUME NEW h \in Handlers \cup {Watchdog}, CallCrash(h) PROVE SweepOK'
      BY <2>1, <3>2, ReturnAlone, ReturnIdles DEF CallCrash, RInv, IInv, Alone, SweepOK, At
    <3>3. CASE UNCHANGED proc
      BY <2>1, <3>3
    <3>4. QED
      BY <2>6, <3>1, <3>2, <3>3 DEF World, MarkArriving, Retrigger, LockExpires, LockOutlived,
         OfferExpires, PointerExpires, HoldExpires
  <2>7. CASE UNCHANGED vars
    BY <2>1, <2>7 DEF vars
  <2>8. QED
    BY <2>2, <2>3, <2>4, <2>5, <2>6, <2>7 DEF Next
<1>3. QED
  BY <1>1, <1>2 DEF RInv

(* The initial tables are RideLifecycle's.                                   *)
LEMMA InitRefines == Init => Lifecycle!Init
BY DEF Init, Lifecycle!Init

(* No shared step writes a ride row.                                         *)
LEMMA SharedKeepsRides == ASSUME NEW p, Shared(p) PROVE UNCHANGED ride
BY DEF Shared, TransitionGet, TransitionSet, CancelOffersRead, CancelOffersFree,
       CancelOffersUnlink, CancelDelActive, db

(* Five steps of the handlers write ride rows.                               *)
LEMMA HandlerWrites ==
  ASSUME NEW h, HandlerStep(h)
  PROVE  \/ UNCHANGED ride
         \/ AcceptFlip(h) \/ StartWrite(h) \/ CompleteWrite(h) \/ CancelWrite(h) \/ ReleaseWrite(h)
<1>1. CASE \/ RequestEnqueue(h) \/ AcceptCheckRejected(h) \/ AcceptReadActive(h)
           \/ AcceptCheckStale(h) \/ AcceptClearStale(h) \/ AcceptOffer(h)
  BY <1>1 DEF RequestEnqueue, AcceptCheckRejected, AcceptReadActive, AcceptCheckStale,
              AcceptClearStale, AcceptOffer, db
<1>2. CASE \/ AcceptSetActive(h) \/ AcceptSupersede(h) \/ AcceptFree(h) \/ DeclineReadOffer(h)
           \/ DeclineFree(h) \/ DeclineRecord(h) \/ DeclineRematch(h)
  BY <1>2 DEF AcceptSetActive, AcceptSupersede, AcceptFree, DeclineReadOffer, DeclineFree,
              DeclineRecord, DeclineRematch, db
<1>3. CASE \/ CompleteDelActive(h) \/ ReleaseDelActive(h) \/ ReleaseUnlink(h)
           \/ ReleaseRematch(h) \/ PendingReadOffer(h) \/ PendingFree(h)
  BY <1>3 DEF CompleteDelActive, ReleaseDelActive, ReleaseUnlink, ReleaseRematch,
              PendingReadOffer, PendingFree, db
<1>4. QED
  BY <1>1, <1>2, <1>3 DEF HandlerStep

(* Each of them is a step of RideLifecycle or leaves the rows alone.         *)
LEMMA HandlerRefines ==
  ASSUME IInv, NEW h \in Handlers, HandlerStep(h) PROVE [Lifecycle!Next]_ride
<1> DEFINE r == proc[h].ride
           d == proc[h].driver
<1>1. \/ UNCHANGED ride
      \/ AcceptFlip(h) \/ StartWrite(h) \/ CompleteWrite(h) \/ CancelWrite(h) \/ ReleaseWrite(h)
  BY HandlerWrites
<1>2. Ready(proc[h], offer)
  BY DEF IInv, ProcsOK
<1>3. CASE AcceptFlip(h)
  <2>1. r \in Rides /\ d \in Drivers
    BY <1>2, <1>3 DEF AcceptFlip, At, Ready, WithDriver
  <2>2. UNCHANGED ride \/ Lifecycle!Assign(r, d)
    BY <1>3 DEF AcceptFlip, Lifecycle!Assign
  <2>3. QED
    BY <2>1, <2>2 DEF Lifecycle!Next, Lifecycle!Update
<1>4. CASE StartWrite(h)
  <2>1. r \in Rides
    BY <1>2, <1>4 DEF StartWrite, At, Ready
  <2>2. UNCHANGED ride \/ Lifecycle!Start(r)
    BY <1>4 DEF StartWrite, PrePickup, Lifecycle!Start, Lifecycle!SetStatus, Lifecycle!PrePickup
  <2>3. QED
    BY <2>1, <2>2 DEF Lifecycle!Next, Lifecycle!Update
<1>5. CASE CompleteWrite(h)
  <2>1. r \in Rides
    BY <1>2, <1>5 DEF CompleteWrite, At, Ready
  <2>2. UNCHANGED ride \/ Lifecycle!Complete(r)
    BY <1>5 DEF CompleteWrite, PrePickup, Engaged, Lifecycle!Complete, Lifecycle!SetStatus,
                Lifecycle!PrePickup, Lifecycle!Engaged
  <2>3. QED
    BY <2>1, <2>2 DEF Lifecycle!Next, Lifecycle!Update
<1>6. CASE CancelWrite(h)
  <2>1. r \in Rides
    BY <1>2, <1>6 DEF CancelWrite, At, Ready
  <2>2. UNCHANGED ride \/ Lifecycle!Cancel(r)
    BY <1>6 DEF CancelWrite, Unassigned, PrePickup, Engaged, Lifecycle!Cancel, Lifecycle!SetStatus,
                Lifecycle!Unassigned, Lifecycle!PrePickup, Lifecycle!Engaged, Lifecycle!Active
  <2>3. QED
    BY <2>1, <2>2 DEF Lifecycle!Next, Lifecycle!Update
<1>7. CASE ReleaseWrite(h)
  <2>1. r \in Rides
    BY <1>2, <1>7 DEF ReleaseWrite, At, Ready
  <2>2. UNCHANGED ride \/ Lifecycle!Release(r)
    BY <1>7 DEF ReleaseWrite, PrePickup, Lifecycle!Release, Lifecycle!PrePickup
  <2>3. QED
    BY <2>1, <2>2 DEF Lifecycle!Next, Lifecycle!Update
<1>8. QED
  BY <1>1, <1>3, <1>4, <1>5, <1>6, <1>7

(* One step of a match job writes a ride row,                                *)
LEMMA MatcherWrites == ASSUME NEW m, MatcherStep(m) PROVE UNCHANGED ride \/ MatchFailed(m)
BY DEF MatcherStep, MatchTake, MatchLock, MatchStage, MatchNext, MatchCheckKeys, MatchCheckStale,
       MatchHeal, MatchHold, MatchPublish, MatchAttachGet, MatchAttachSet, MatchPoll,
       MatchTimeout, MatchFree, MatchUnlock, JobRescue, db

(* and it is a cancel of RideLifecycle or leaves the rows alone.             *)
LEMMA MatcherRefines ==
  ASSUME IInv, NEW m \in Matchers, MatcherStep(m) PROVE [Lifecycle!Next]_ride
<1>1. UNCHANGED ride \/ MatchFailed(m)
  BY MatcherWrites
<1>2. CASE MatchFailed(m)
  <2>1. proc[m].ride \in Rides
    BY <1>2 DEF MatchFailed, At, IInv, ProcsOK, Ready
  <2> DEFINE r == proc[m].ride
  <2>a. \/ UNCHANGED ride
        \/ ride[r].status = "REQUESTED" /\ ride' = [ride EXCEPT ![r].status = "CANCELLED"]
    BY <1>2 DEF MatchFailed
  <2>2. UNCHANGED ride \/ Lifecycle!Cancel(r)
    BY <2>a DEF Lifecycle!Cancel, Lifecycle!SetStatus, Lifecycle!Unassigned, Lifecycle!Active
  <2>3. QED
    BY <2>1, <2>2 DEF Lifecycle!Next, Lifecycle!Update
<1>3. QED
  BY <1>1, <1>2

(* The watchdog's write repeats the sweep's predicate, so it is a cancel.    *)
LEMMA WatchdogRefines ==
  ASSUME RInv, WatchdogStep PROVE [Lifecycle!Next]_ride
<1> DEFINE r == proc[Watchdog].ride
           s == proc[Watchdog].sweep
<1>1. UNCHANGED ride \/ SweepWrite
  BY DEF WatchdogStep, SweepSelect, SweepRead, db
<1>2. CASE SweepWrite /\ IsStale(r, s)
  <2>1. r \in Rides
    BY <1>2 DEF SweepWrite, At, RInv, IInv, ProcsOK, Ready
  <2>2. s \in Sweeps
    BY <1>2 DEF SweepWrite, At, RInv, SweepOK
  <2>3. ride[r].status \in Lifecycle!Active
    BY <1>2, <2>2 DEF IsStale, SweptStatuses, Sweeps, PrePickup, Lifecycle!Unassigned,
                      Lifecycle!PrePickup, Lifecycle!Engaged, Lifecycle!Active
  <2>4. Lifecycle!Cancel(r)
    BY <1>2, <2>3 DEF SweepWrite, Lifecycle!Cancel, Lifecycle!SetStatus
  <2>5. QED
    BY <2>1, <2>4 DEF Lifecycle!Next, Lifecycle!Update
<1>3. CASE SweepWrite /\ ~IsStale(r, s)
  BY <1>3 DEF SweepWrite
<1>4. QED
  BY <1>1, <1>2, <1>3

(* The only call that writes a row at once is the booking.                   *)
LEMMA ClientRefines ==
  ASSUME IInv, NEW h \in Handlers, ClientCall(h) PROVE [Lifecycle!Next]_ride
<1>1. UNCHANGED ride \/ \E r \in Rides : RequestRide(h, r)
  BY DEF ClientCall, Cancel, Accept, StartRide, CompleteRide, ReleaseRide, Decline, DeclineByRide,
         PendingOffer, db
<1>2. ASSUME NEW r \in Rides, RequestRide(h, r) PROVE [Lifecycle!Next]_ride
  <2>1. Lifecycle!Request(r)
    BY <1>2 DEF RequestRide, Terminal, Lifecycle!Request, Lifecycle!NoActiveRide, Lifecycle!SetStatus, Lifecycle!Unassigned,
                Lifecycle!PrePickup, Lifecycle!Engaged, Lifecycle!Active
  <2>2. QED
    BY <2>1 DEF Lifecycle!Next, Lifecycle!Update
<1>3. QED
  BY <1>1, <1>2

(* The only single-statement write is markDriverArriving.                    *)
LEMMA WorldRefines == ASSUME IInv, World PROVE [Lifecycle!Next]_ride
<1>1. UNCHANGED ride \/ \E r \in Rides, d \in Drivers : MarkArriving(r, d)
  BY DEF World, Retrigger, LockExpires, LockOutlived, OfferExpires, PointerExpires, HoldExpires,
         JobThrows, JobCrash, CallCrash, db
<1>2. ASSUME NEW r \in Rides, NEW d \in Drivers, MarkArriving(r, d) PROVE [Lifecycle!Next]_ride
  <2>1. Lifecycle!Arrive(r)
    BY <1>2 DEF MarkArriving, Lifecycle!Arrive, Lifecycle!SetStatus
  <2>2. QED
    BY <2>1 DEF Lifecycle!Next, Lifecycle!Update
<1>3. QED
  BY <1>1, <1>2

(* Every step of Dispatch is a step of RideLifecycle or leaves the rows      *)
(* alone.                                                                    *)
LEMMA StepRefines == RInv /\ [Next]_vars => [Lifecycle!Next]_ride
<1> SUFFICES ASSUME RInv, [Next]_vars PROVE [Lifecycle!Next]_ride
  OBVIOUS
<1>1. CASE UNCHANGED vars
  BY <1>1 DEF vars, db
<1>2. CASE Next
  BY <1>2, SharedKeepsRides, HandlerRefines, MatcherRefines, WatchdogRefines, ClientRefines,
     WorldRefines DEF Next, RInv
<1>3. QED
  BY <1>1, <1>2

(* Dispatch implements RideLifecycle: whatever calls, jobs, sweeps, crashes  *)
(* and expiries are interleaved, and however many of them, the rows only     *)
(* take the steps the lifecycle allows.                                      *)
THEOREM Refinement == Spec => LifecycleSpec
<1>1. Init => RInv
  BY Initially DEF RInv, SweepOK, Init, At, Idle
<1>2. [Lifecycle!Next]_ride => [Lifecycle!Next]_(Lifecycle!vars)
  BY DEF Lifecycle!vars
<1>3. QED
  BY <1>1, <1>2, SweepPreserved, InitRefines, StepRefines, PTL DEF Spec, LifecycleSpec, Lifecycle!Spec

-----------------------------------------------------------------------------

(* Labels at which a match job has the ride's lock while nothing fails.      *)
Working == {"m_stage", "m_next", "m_check", "m_stale", "m_heal", "m_create", "m_publish",
            "m_attach", "m_payload", "m_wait", "m_free", "m_failed", "m_unlock", "t_get", "t_set"}

(* Where a match job can be while nothing fails; its timer is the only       *)
(* caller of transitionOffer, and comes back to free the driver.             *)
InCharge(q) ==
    /\ q.pc \in {"idle", "m_lock"} \cup Working
    /\ q.pc \in {"t_get", "t_set"} => q.ok = "m_free" /\ q.miss = "m_free"

(* While nothing has failed, a ride is locked by a matcher exactly when that *)
(* matcher is at work on the ride.                                           *)
Locked ==
    faults = 0 =>
        /\ \A m \in Matchers : InCharge(proc[m])
        /\ \A m \in Matchers, r \in Rides :
              lock[r] = m <=> proc[m].pc \in Working /\ proc[m].ride = r
LInv == IInv /\ Locked

(* A step that leaves the locks and the matchers alone keeps this.           *)
LEMMA LockStays ==
  ASSUME Locked, UNCHANGED <<lock, faults>>, \A m \in Matchers : proc'[m] = proc[m]
  PROVE  Locked'
BY DEF Locked, InCharge

(* A step within the work of a match job.                                    *)
Keeps(m) ==
    /\ proc[m].pc \in Working /\ proc'[m].pc \in Working
    /\ proc'[m].ride = proc[m].ride
    /\ InCharge(proc'[m])

(* So does a step of a matcher at work that stays at work on its ride.       *)
LEMMA WorkingStep ==
  ASSUME LInv, NEW m \in Matchers, Alone(m), faults = 0 => Keeps(m), UNCHANGED <<lock, faults>>
  PROVE  Locked'
<1> SUFFICES ASSUME faults = 0
             PROVE  /\ \A n \in Matchers : InCharge(proc'[n])
                    /\ \A n \in Matchers, r \in Rides :
                          lock[r] = n <=> proc'[n].pc \in Working /\ proc'[n].ride = r
  BY DEF Locked, InCharge
<1>1. \A n \in Matchers \ {m} : proc'[n] = proc[n]
  BY DEF Alone
<1>2. QED
  BY <1>1 DEF LInv, Locked, Keeps

(* So does a shared step: a matcher reaches transitionOffer only, and comes  *)
(* back.                                                                     *)
LEMMA SharedKeepsLock == ASSUME LInv, NEW p \in Procs, Shared(p) PROVE Locked'
<1>1. Alone(p)
  BY SharedAlone DEF LInv, IInv
<1>2. UNCHANGED <<lock, faults>>
  BY DEF Shared, TransitionGet, TransitionSet, CancelOffersRead, CancelOffersFree,
         CancelOffersUnlink, CancelDelActive, redis
<1>3. CASE p \in Matchers
  <2>1. ASSUME faults = 0 PROVE Keeps(p)
    <3> DEFINE q == proc[p]
    <3>1. InCharge(q) /\ q \in Process /\ proc \in [Procs -> Process]
      BY <1>3, <2>1 DEF LInv, Locked, IInv, ProcsOK
    <3>2. q.pc \in {"t_get", "t_set"}
      BY <3>1 DEF Shared, TransitionGet, TransitionSet, CancelOffersRead, CancelOffersFree,
         CancelOffersUnlink, CancelDelActive, At, InCharge, Working
    <3>3. q.ok = "m_free" /\ q.miss = "m_free"
      BY <3>1, <3>2 DEF InCharge
    <3>4. Goto(p, "t_set") \/ Transitioned(p, "m_free")
      BY <3>2, <3>3 DEF Shared, TransitionGet, TransitionSet, CancelOffersRead, CancelOffersFree,
         CancelOffersUnlink, CancelDelActive, At
    <3>5. CASE Goto(p, "t_set")
      BY <3>1, <3>2, <3>3, <3>5 DEF Goto, Keeps, InCharge, Working, Process
    <3>6. CASE Transitioned(p, "m_free")
      BY <3>1, <3>2, <3>3, <3>6 DEF Transitioned, Keeps, InCharge, Working, Process
    <3>7. QED
      BY <3>4, <3>5, <3>6
  <2>2. QED
    BY <1>1, <1>2, <1>3, <2>1, WorkingStep
<1>4. CASE p \notin Matchers
  BY <1>1, <1>2, <1>4, LockStays DEF LInv, Alone
<1>5. QED
  BY <1>3, <1>4

(* So does a handler: it never touches a ride lock.                          *)
LEMMA HandlerKeepsLock ==
  ASSUME LInv, NEW h \in Handlers, ClientCall(h) \/ HandlerStep(h) PROVE Locked'
<1>1. Alone(h)
  BY ClientAlone, HandlerAlone DEF LInv, IInv
<1>2. UNCHANGED <<lock, faults>>
  <2>1. CASE ClientCall(h)
    BY <2>1 DEF ClientCall, Call, RequestRide, Cancel, Accept, StartRide, CompleteRide, ReleaseRide,
       Decline, DeclineByRide, PendingOffer, redis
  <2>2. CASE \/ RequestEnqueue(h) \/ AcceptCheckRejected(h) \/ AcceptReadActive(h)
             \/ AcceptCheckStale(h) \/ AcceptClearStale(h) \/ AcceptOffer(h)
    BY <2>2 DEF RequestEnqueue, AcceptCheckRejected, AcceptReadActive, AcceptCheckStale,
       AcceptClearStale, AcceptOffer, redis
  <2>3. CASE \/ AcceptFlip(h) \/ AcceptSetActive(h) \/ AcceptSupersede(h) \/ AcceptFree(h)
             \/ DeclineReadOffer(h) \/ DeclineFree(h) \/ DeclineRecord(h) \/ DeclineRematch(h)
    BY <2>3 DEF AcceptFlip, AcceptSetActive, AcceptSupersede, AcceptFree, DeclineReadOffer,
       DeclineFree, DeclineRecord, DeclineRematch, redis
  <2>4. CASE \/ StartWrite(h) \/ CompleteDelActive(h) \/ CompleteWrite(h) \/ CancelWrite(h)
             \/ ReleaseDelActive(h) \/ ReleaseWrite(h) \/ ReleaseUnlink(h) \/ ReleaseRematch(h)
             \/ PendingReadOffer(h) \/ PendingFree(h)
    BY <2>4 DEF StartWrite, CompleteDelActive, CompleteWrite, CancelWrite, ReleaseDelActive,
       ReleaseWrite, ReleaseUnlink, ReleaseRematch, PendingReadOffer, PendingFree, redis
  <2>5. QED
    BY <2>1, <2>2, <2>3, <2>4 DEF HandlerStep
<1>3. QED
  BY <1>1, <1>2, LockStays DEF LInv, Alone

(* So does a match job: SET NX succeeds only on a free lock, and the unlock  *)
(* deletes a lock that is its own.                                           *)
LEMMA MatcherKeepsLock == ASSUME LInv, NEW m \in Matchers, MatcherStep(m) PROVE Locked'
<1> DEFINE q == proc[m]
<1>1. Alone(m) /\ q \in Process /\ proc \in [Procs -> Process] /\ m \in Procs
  BY MatcherAlone DEF LInv, IInv, ProcsOK
<1>a. \A n \in Matchers \ {m} : proc'[n] = proc[n]
  BY <1>1 DEF Alone
<1>2. ASSUME NEW pc \in Working \ {"t_get", "t_set"}, Goto(m, pc), q.pc \in Working PROVE Keeps(m)
  BY <1>1, <1>2 DEF Goto, Keeps, InCharge, Working, Process
<1>3. ASSUME NextCandidate(m), q.pc \in Working PROVE Keeps(m)
  BY <1>1, <1>3 DEF NextCandidate, Keeps, InCharge, Working, Process
<1>4. ASSUME NEW x, MatchDecide(m, x), q.pc \in Working PROVE Keeps(m)
  BY <1>1, <1>3, <1>4 DEF MatchDecide, Transitioned, Keeps, InCharge, Working, Process
<1>5. CASE \E r \in Rides, k \in 0 .. MaxRetries : MatchTake(m, r, k)
  <2>1. q.pc = "idle" /\ proc'[m].pc \in {"idle", "m_lock"} /\ UNCHANGED <<lock, faults>>
    BY <1>1, <1>5 DEF MatchTake, At, Idle, redis, Process
  <2>2. QED
    BY <1>a, <2>1 DEF LInv, Locked, InCharge, Working
<1>6. CASE MatchLock(m)
  <2>1. q.pc = "m_lock" /\ q.ride \in Rides /\ UNCHANGED faults
    BY <1>1, <1>6 DEF MatchLock, At, LInv, IInv, ProcsOK, Ready
  <2>2. CASE lock[q.ride] = None
    <3>1. /\ lock' = [lock EXCEPT ![q.ride] = m]
          /\ proc'[m].pc = "m_stage" /\ proc'[m].ride = q.ride
      BY <1>1, <1>6, <2>2 DEF MatchLock, Goto, Process
    <3>2. lock \in [Rides -> Matchers \cup {None}]
      BY DEF LInv, IInv, Store, RedisOK
    <3>3. QED
      BY <1>a, <2>1, <2>2, <3>1, <3>2 DEF LInv, Locked, InCharge, Working
  <2>3. CASE lock[q.ride] # None
    <3>1. proc'[m].pc = "idle" /\ UNCHANGED lock
      BY <1>1, <1>6, <2>3 DEF MatchLock, Return, Idle
    <3>2. QED
      BY <1>a, <2>1, <3>1 DEF LInv, Locked, InCharge, Working
  <2>4. QED
    BY <2>2, <2>3
<1>7. CASE MatchStage(m)
  <2>1. Keeps(m) /\ UNCHANGED <<lock, faults>>
    BY <1>1, <1>7 DEF MatchStage, At, Keeps, InCharge, Working, Process
  <2>2. QED
    BY <1>1, <2>1, WorkingStep
<1>8. CASE MatchNext(m)
  <2>1. q.pc \in Working /\ UNCHANGED <<lock, faults>>
    BY <1>8 DEF MatchNext, At, Working, redis
  <2>2. \/ Goto(m, "m_failed") \/ Goto(m, "m_unlock")
        \/ proc' = [proc EXCEPT ![m].pc = "m_stage", ![m].stage = @ + 1]
        \/ \E d \in q.left : proc' = [proc EXCEPT ![m].pc = "m_check", ![m].driver = d,
                                                  ![m].left = @ \ {d}]
    BY <1>8 DEF MatchNext
  <2>3. ASSUME Goto(m, "m_failed") \/ Goto(m, "m_unlock") PROVE Keeps(m)
    BY <1>2, <2>1, <2>3 DEF Working
  <2>4. ASSUME proc' = [proc EXCEPT ![m].pc = "m_stage", ![m].stage = @ + 1] PROVE Keeps(m)
    BY <1>1, <2>1, <2>4 DEF Keeps, InCharge, Working, Process
  <2>5. ASSUME NEW d \in q.left,
               proc' = [proc EXCEPT ![m].pc = "m_check", ![m].driver = d, ![m].left = @ \ {d}]
        PROVE  Keeps(m)
    BY <1>1, <2>1, <2>5 DEF Keeps, InCharge, Working, Process
  <2>6. QED
    BY <1>1, <2>1, <2>2, <2>3, <2>4, <2>5, WorkingStep
<1>9. CASE MatchCheckKeys(m)
  <2>1. q.pc = "m_check" /\ q.pc \in Working /\ UNCHANGED <<lock, faults>>
    BY <1>9 DEF MatchCheckKeys, At, Working, redis
  <2>2. CASE active[q.driver] = None
    BY <1>1, <1>4, <1>9, <2>1, <2>2, WorkingStep DEF MatchCheckKeys
  <2>3. CASE active[q.driver] # None
    <3>1. Keeps(m)
      BY <1>1, <1>9, <2>1, <2>3 DEF MatchCheckKeys, Keeps, InCharge, Working, Process
    <3>2. QED
      BY <1>1, <2>1, <3>1, WorkingStep
  <2>4. QED
    BY <2>2, <2>3
<1>10. CASE MatchCheckStale(m) \/ MatchHold(m) \/ MatchPoll(m) \/ MatchFree(m)
  <2>1. q.pc \in Working /\ UNCHANGED <<lock, faults>>
    BY <1>10 DEF MatchCheckStale, MatchHold, MatchPoll, MatchFree, At, Working, redis
  <2>2. \/ NextCandidate(m)
        \/ \E pc \in {"m_heal", "m_publish", "m_unlock"} : Goto(m, pc)
    BY <1>10 DEF MatchCheckStale, MatchHold, MatchPoll, MatchFree
  <2>3. Keeps(m)
    BY <1>2, <1>3, <2>1, <2>2 DEF Working
  <2>4. QED
    BY <1>1, <2>1, <2>3, WorkingStep
<1>11. CASE MatchHeal(m)
  <2>1. q.pc \in Working /\ UNCHANGED <<lock, faults>>
    BY <1>11 DEF MatchHeal, At, Working
  <2>2. QED
    BY <1>1, <1>4, <1>11, <2>1, WorkingStep DEF MatchHeal
<1>12. CASE MatchPublish(m)
  <2>1. Keeps(m) /\ UNCHANGED <<lock, faults>>
    BY <1>1, <1>12 DEF MatchPublish, At, Keeps, InCharge, Working, Process
  <2>2. QED
    BY <1>1, <2>1, WorkingStep
<1>13. CASE MatchAttachGet(m)
  <2>1. q.pc = "m_attach" /\ UNCHANGED <<lock, faults>>
    BY <1>13 DEF MatchAttachGet, At, redis
  <2>2. Goto(m, "m_wait") \/ \E s : proc' = [proc EXCEPT ![m].pc = "m_payload", ![m].seen = s]
    BY <1>13 DEF MatchAttachGet
  <2>3. Keeps(m)
    BY <1>1, <2>1, <2>2 DEF Goto, Keeps, InCharge, Working, Process
  <2>4. QED
    BY <1>1, <2>1, <2>3, WorkingStep
<1>14. CASE MatchAttachSet(m) \/ MatchFailed(m)
  <2>1. q.pc \in Working /\ UNCHANGED <<lock, faults>>
    BY <1>14 DEF MatchAttachSet, MatchFailed, At, Working, redis
  <2>2. Goto(m, "m_wait") \/ Goto(m, "m_unlock")
    BY <1>14 DEF MatchAttachSet, MatchFailed
  <2>3. Keeps(m)
    BY <1>2, <2>1, <2>2 DEF Working
  <2>4. QED
    BY <1>1, <2>1, <2>3, WorkingStep
<1>15. CASE MatchTimeout(m)
  <2>1. Keeps(m) /\ UNCHANGED <<lock, faults>>
    BY <1>1, <1>15 DEF MatchTimeout, At, Keeps, InCharge, Working, Process
  <2>2. QED
    BY <1>1, <2>1, WorkingStep
<1>16. CASE MatchUnlock(m) \/ JobRescue(m)
  <2>1. UNCHANGED faults /\ lock' = [lock EXCEPT ![q.ride] = None]
    BY <1>16 DEF MatchUnlock, JobRescue
  <2>2. ASSUME faults = 0 PROVE q.pc = "m_unlock" /\ q.ride \in Rides /\ proc'[m].pc = "idle"
    <3>1. InCharge(q)
      BY <2>2 DEF LInv, Locked
    <3>2. At(m, "m_unlock") /\ Return(m)
      BY <1>16, <3>1 DEF MatchUnlock, JobRescue, At, InCharge, Working
    <3>3. QED
      BY <1>1, <3>2 DEF At, Return, Idle, LInv, IInv, ProcsOK, Ready
  <2>3. lock \in [Rides -> Matchers \cup {None}]
    BY DEF LInv, IInv, Store, RedisOK
  <2>4. QED
    BY <1>a, <2>1, <2>2, <2>3 DEF LInv, Locked, InCharge, Working
<1>17. QED
  BY <1>5, <1>6, <1>7, <1>8, <1>9, <1>10, <1>11, <1>12, <1>13, <1>14, <1>15, <1>16 DEF MatcherStep

(* So does the world: a lock at work does not expire, and a fault ends the   *)
(* claim.                                                                    *)
LEMMA WorldKeepsLock == ASSUME LInv, World PROVE Locked'
<1>1. ASSUME NEW r \in Rides, LockExpires(r) PROVE Locked'
  <2>1. ASSUME faults = 0 PROVE FALSE
    <3>1. lock[r] \in Matchers
      BY <1>1 DEF LockExpires, LInv, IInv, Store, RedisOK
    <3>2. Owns(lock[r], r)
      BY <2>1, <3>1 DEF LInv, Locked, Owns, Working
    <3>3. QED
      BY <1>1, <3>2 DEF LockExpires
  <2>2. QED
    BY <1>1, <2>1 DEF LockExpires, Locked
<1>2. ASSUME faults' = faults + 1 PROVE Locked'
  BY <1>2 DEF Locked, LInv, IInv, Store, QueueOK
<1>3. CASE UNCHANGED <<lock, proc, faults>>
  BY <1>3, LockStays DEF LInv
<1>4. QED
  BY <1>1, <1>2, <1>3 DEF World, MarkArriving, Retrigger, LockOutlived, OfferExpires,
     PointerExpires, HoldExpires, JobThrows, JobCrash, CallCrash, redis

(* Every step keeps it.                                                      *)
LEMMA LockPreserved == LInv /\ [Next]_vars => LInv'
<1> SUFFICES ASSUME LInv, [Next]_vars PROVE LInv'
  OBVIOUS
<1>1. IInv'
  BY Preserved DEF LInv
<1>2. Locked'
  <2>1. CASE WatchdogStep
    <3>1. UNCHANGED <<lock, faults>>
      BY <2>1 DEF WatchdogStep, SweepSelect, SweepRead, SweepWrite, redis
    <3>2. Alone(Watchdog)
      BY <2>1, WatchdogAlone DEF LInv, IInv
    <3>3. QED
      BY <3>1, <3>2, LockStays DEF LInv, Alone
  <2>2. CASE UNCHANGED vars
    BY <2>2, LockStays DEF vars, redis, LInv
  <2>3. QED
    BY <2>1, <2>2, SharedKeepsLock, HandlerKeepsLock, MatcherKeepsLock, WorldKeepsLock DEF Next
<1>3. QED
  BY <1>1, <1>2 DEF LInv

(* While nothing has failed, ride locks and matchers at work correspond one  *)
(* to one.                                                                   *)
THEOREM LockInvariant == Spec => []LInv
<1>1. Init => LInv
  BY Initially DEF LInv, Locked, InCharge, Init, Idle, Working
<1>2. QED
  BY <1>1, LockPreserved, PTL DEF Spec

(* While nothing has failed, the lock of a ride tells who matches it.        *)
LEMMA LockTells ==
  ASSUME LInv, faults = 0
  PROVE  /\ \A r \in Rides, m \in Matchers : Matching(m, r) <=> lock[r] = m
         /\ lock \in [Rides -> Matchers \cup {None}]
BY DEF LInv, Locked, InCharge, Working, Matching, IInv, Store, RedisOK

(* As long as no job dies and no lock runs out, at most one job at a time    *)
(* matches a ride, for any number of queued jobs, matchers and rides.        *)
THEOREM MatchersSerialized == Spec => []OneMatcherPerRide
<1>1. LInv => OneMatcherPerRide
  BY LockTells DEF OneMatcherPerRide
<1>2. QED
  BY <1>1, LockInvariant, PTL

(* And no lock is left behind by a job that has ended.                       *)
THEOREM LocksHaveOwners == Spec => []NoOrphanLock
<1>1. LInv => NoOrphanLock
  BY LockTells DEF NoOrphanLock
<1>2. QED
  BY <1>1, LockInvariant, PTL

----------------------------------------------------------------------------
(* Some offer of the ride went to the driver.                                *)
OfferedTo(r, d) == \E o \in OfferIds : offer[o].ride = r /\ offer[o].driver = d

(* A process about to assign a ride (at the flip, or on its way there        *)
(* through transitionOffer) does so for a driver the ride was offered to.    *)
Entitled(p) ==
    LET q == proc[p] IN
      /\ q.pc = "a_flip" => OfferedTo(q.ride, q.driver)
      /\ q.pc \in {"t_get", "t_set"} =>
            q.miss # "a_flip" /\ (q.ok = "a_flip" => OfferedTo(q.ride, q.driver))

(* A ride's pointer leads to an offer of that ride; an offer not yet written *)
(* names no ride.                                                            *)
Pointed == \A r \in Rides : pointer[r] # None => offer[pointer[r]].ride = r
Blank == \A o \in OfferIds : offer[o].status = "NONE" => offer[o].ride = None
FInv ==
    /\ IInv /\ Pointed /\ Blank
    /\ \A p \in Procs : Entitled(p)

(* An offer keeps its ride and its driver.                                   *)
OffersKept ==
    \A o \in OfferIds :
        offer[o].ride \in Rides => /\ offer'[o].ride = offer[o].ride
                                  /\ offer'[o].driver = offer[o].driver
(* Not on the way to the flip.                                               *)
Unflipped(q) ==
    /\ q.pc # "a_flip"
    /\ q.pc \in {"t_get", "t_set"} => q.ok # "a_flip" /\ q.miss # "a_flip"

(* The part of the invariant about offers, after a step.                     *)
Traced == Pointed' /\ Blank' /\ OffersKept

(* A driver who was offered a ride stays one.                                *)
LEMMA OfferedStays ==
  ASSUME OffersKept, NEW r \in Rides, NEW d, OfferedTo(r, d) PROVE OfferedTo(r, d)'
BY DEF OfferedTo, OffersKept

(* A step of one process that keeps the offers traced and that process       *)
(* entitled keeps the invariant.                                             *)
LEMMA TracedStep ==
  ASSUME FInv, IInv', Traced, NEW p \in Procs, Alone(p),
         Entitled(p)'
  PROVE  FInv'
<1>1. ASSUME NEW x \in Procs \ {p}
      PROVE  Entitled(x)'
  <2>1. proc'[x] = proc[x]
    BY DEF Alone
  <2>2. Entitled(x)
    BY DEF FInv
  <2>3. CASE proc[x].ride \in Rides
    BY <2>1, <2>2, <2>3, OfferedStays DEF Entitled, Traced
  <2>4. CASE proc[x].ride \notin Rides
    BY <2>1, <2>4 DEF FInv, IInv, ProcsOK, Ready, Entitled
  <2>5. QED
    BY <2>3, <2>4
<1>2. QED
  BY <1>1 DEF FInv, Traced

(* In particular one after which the process is not on the way to the flip.  *)
LEMMA UnflippedStep ==
  ASSUME FInv, IInv', Traced, NEW p \in Procs, Alone(p), Unflipped(proc'[p])
  PROVE  FInv'
BY TracedStep DEF Unflipped, Entitled

(* A step that touches neither offers nor pointers keeps them traced.        *)
LEMMA OffersSame == ASSUME FInv, UNCHANGED <<offer, pointer>> PROVE Traced
BY DEF FInv, Traced, Pointed, Blank, OffersKept

(* So does deleting a pointer,                                               *)
LEMMA PointerGone ==
  ASSUME FInv, NEW r \in Rides, pointer' = [pointer EXCEPT ![r] = None], UNCHANGED offer
  PROVE  Traced
BY DEF FInv, IInv, Store, RedisOK, Traced, Pointed, Blank, OffersKept

(* writing an offer's status,                                                *)
LEMMA OfferSet ==
  ASSUME FInv, NEW o \in OfferIds, NEW s \in Written, SetOffer(o, s), UNCHANGED pointer
  PROVE  Traced
<1>1. offer \in [OfferIds -> [ride : Rides \cup {None}, driver : Drivers \cup {None},
                              status : OfferStatus, due : BOOLEAN]]
  BY DEF FInv, IInv, Store, OffersOK
<1>2. \A x \in OfferIds : /\ offer'[x].ride = offer[x].ride /\ offer'[x].driver = offer[x].driver
                          /\ offer'[x].status = IF x = o THEN s ELSE offer[x].status
  BY <1>1 DEF SetOffer
<1>3. pointer \in [Rides -> OfferIds \cup {None}]
  BY DEF FInv, IInv, Store, RedisOK
<1>4. QED
  BY <1>2, <1>3 DEF FInv, Traced, Pointed, Blank, OffersKept

(* and the clock passing its expiry.                                         *)
LEMMA OfferDue ==
  ASSUME FInv, NEW o \in OfferIds, PastExpiry(o), UNCHANGED pointer
  PROVE  Traced
<1>1. offer \in [OfferIds -> [ride : Rides \cup {None}, driver : Drivers \cup {None},
                              status : OfferStatus, due : BOOLEAN]]
  BY DEF FInv, IInv, Store, OffersOK
<1>2. \A x \in OfferIds : /\ offer'[x].ride = offer[x].ride /\ offer'[x].driver = offer[x].driver
                          /\ offer'[x].status = offer[x].status
  BY <1>1 DEF PastExpiry
<1>3. pointer \in [Rides -> OfferIds \cup {None}]
  BY DEF FInv, IInv, Store, RedisOK
<1>4. QED
  BY <1>2, <1>3 DEF FInv, Traced, Pointed, Blank, OffersKept

(* Going on to another label is not on the way to the flip.                  *)
LEMMA GotoUnflipped ==
  ASSUME ProcsOK, NEW p \in Procs, NEW pc, Goto(p, pc), pc \notin {"a_flip", "t_get", "t_set"}
  PROVE  Unflipped(proc'[p])
BY DEF ProcsOK, Goto, Return, Idle, Unflipped, Process

(* Nor is the end of a call,                                                 *)
LEMMA ReturnUnflipped ==
  ASSUME ProcsOK, NEW p \in Procs, Return(p) PROVE Unflipped(proc'[p])
BY DEF ProcsOK, Return, Idle, Unflipped

(* a transition that does not lead there,                                    *)
LEMMA TransitionUnflipped ==
  ASSUME ProcsOK, NEW p \in Procs, NEW o, NEW from, NEW to, NEW ok, NEW miss,
         Transition(p, o, from, to, ok, miss), ok # "a_flip", miss # "a_flip"
  PROVE  Unflipped(proc'[p])
BY DEF ProcsOK, Transition, Unflipped, Process

(* the return from one,                                                      *)
LEMMA TransitionedUnflipped ==
  ASSUME ProcsOK, NEW p \in Procs, NEW pc, Transitioned(p, pc), pc \notin {"a_flip", "t_get", "t_set"}
  PROVE  Unflipped(proc'[p])
BY DEF ProcsOK, Transitioned, Return, Idle, Unflipped, Process

(* or the next candidate.                                                    *)
LEMMA NextUnflipped ==
  ASSUME ProcsOK, NEW m \in Procs, NextCandidate(m) PROVE Unflipped(proc'[m])
BY DEF ProcsOK, NextCandidate, Unflipped, Process

(* A shared step keeps the invariant: transitionOffer carries the            *)
(* entitlement along.                                                        *)
LEMMA SharedTraces == ASSUME FInv, NEW p \in Procs, Shared(p) PROVE FInv'
<1> DEFINE q == proc[p]
<1>i. IInv' /\ Alone(p) /\ ProcsOK
  BY SharedPreserves, SharedAlone DEF FInv, IInv
<1>q. q \in Process /\ Ready(q, offer) /\ Entitled(p)
      /\ proc \in [Procs -> Process]
  BY DEF FInv, IInv, ProcsOK
<1>1. CASE TransitionGet(p)
  <2>1. Traced
    BY <1>1, OffersSame DEF TransitionGet, redis
  <2>2. CASE Goto(p, "t_set")
    <3>1. /\ proc'[p].pc = "t_set" /\ proc'[p].ok = q.ok /\ proc'[p].miss = q.miss
          /\ proc'[p].ride = q.ride /\ proc'[p].driver = q.driver
      BY <1>q, <2>2 DEF Goto, Process
    <3>2. q.pc = "t_get" /\ q.ride \in Rides
      BY <1>q, <1>1 DEF TransitionGet, At, Ready
    <3>3. Entitled(p)'
      BY <1>q, <2>1, <3>1, <3>2, OfferedStays DEF Entitled, Traced
    <3>4. QED
      BY <1>i, <2>1, <3>3, TracedStep
  <2>3. CASE Transitioned(p, q.miss)
    <3>1. q.miss \notin {"a_flip", "t_get", "t_set"}
      BY <1>q, <1>1 DEF TransitionGet, At, Ready, Entitled, WithOffer
    <3>2. QED
      BY <1>i, <2>1, <2>3, <3>1, TransitionedUnflipped, UnflippedStep
  <2>4. QED
    BY <1>1, <2>2, <2>3 DEF TransitionGet
<1>2. CASE TransitionSet(p)
  <2>1. /\ q.pc = "t_set" /\ q.ride \in Rides /\ q.offer \in OfferIds /\ q.to \in Written
        /\ q.ok \notin {"t_get", "t_set"}
    BY <1>q, <1>2 DEF TransitionSet, At, Ready, WithOffer
  <2>2. Traced
    BY <1>2, <2>1, OfferSet DEF TransitionSet
  <2>3. CASE q.ok = "a_flip"
    <3>1. proc'[p].pc = "a_flip" /\ proc'[p].ride = q.ride /\ proc'[p].driver = q.driver
      BY <1>q, <1>2, <2>3 DEF TransitionSet, Transitioned, Process
    <3>2. OfferedTo(q.ride, q.driver)
      BY <1>q, <2>1, <2>3 DEF Entitled
    <3>3. Entitled(p)'
      BY <2>1, <2>2, <3>1, <3>2, OfferedStays DEF Entitled, Traced
    <3>4. QED
      BY <1>i, <2>2, <3>3, TracedStep
  <2>4. CASE q.ok # "a_flip"
    BY <1>2, <1>i, <2>1, <2>2, <2>4, TransitionedUnflipped, UnflippedStep DEF TransitionSet
  <2>5. QED
    BY <2>3, <2>4
<1>3. CASE CancelOffersRead(p)
  <2>1. Traced
    BY <1>3, OffersSame DEF CancelOffersRead, redis
  <2>2. q.back \notin {"a_flip", "t_get", "t_set"}
    BY <1>q DEF Process
  <2>3. Unflipped(proc'[p])
    BY <1>3, <1>i, <2>2, GotoUnflipped, TransitionUnflipped DEF CancelOffersRead
  <2>4. QED
    BY <1>i, <2>1, <2>3, UnflippedStep
<1>4. CASE CancelOffersFree(p) \/ CancelDelActive(p)
  <2>1. Traced
    BY <1>4, OffersSame DEF CancelOffersFree, CancelDelActive
  <2>2. Unflipped(proc'[p])
    BY <1>4, <1>i, GotoUnflipped DEF CancelOffersFree, CancelDelActive
  <2>3. QED
    BY <1>i, <2>1, <2>2, UnflippedStep
<1>5. CASE CancelOffersUnlink(p)
  <2>1. q.ride \in Rides /\ q.back \notin {"a_flip", "t_get", "t_set"}
    BY <1>q, <1>5 DEF CancelOffersUnlink, At, Ready, Process
  <2>2. Traced
    BY <1>5, <2>1, PointerGone DEF CancelOffersUnlink
  <2>3. Unflipped(proc'[p])
    BY <1>5, <1>i, <2>1, GotoUnflipped DEF CancelOffersUnlink
  <2>4. QED
    BY <1>i, <2>2, <2>3, UnflippedStep
<1>6. QED
  BY <1>1, <1>2, <1>3, <1>4, <1>5 DEF Shared

(* So does a handler: AcceptOffer, which alone leads to the flip, compares   *)
(* the offer's driver with its own.                                          *)
LEMMA HandlerTraces == ASSUME FInv, NEW h \in Handlers, HandlerStep(h) PROVE FInv'
<1> DEFINE q == proc[h]
           o == pointer[q.ride]
<1>i. IInv' /\ Alone(h) /\ ProcsOK /\ h \in Procs
  BY HandlerPreserves, HandlerAlone DEF FInv, IInv
<1>q. q \in Process /\ Ready(q, offer) /\ Entitled(h) /\ proc \in [Procs -> Process]
  BY <1>i DEF FInv, IInv, ProcsOK
<1>o. q.ride \in Rides /\ Exists(o) => o \in OfferIds /\ offer[o].ride = q.ride
  BY DEF Exists, FInv, IInv, Store, RedisOK, Pointed
<1>1. ASSUME Traced, Unflipped(proc'[h]) PROVE FInv'
  BY <1>i, <1>1, UnflippedStep
<1>2. CASE AcceptOffer(h)
  <2>1. q.ride \in Rides
    BY <1>q, <1>2 DEF AcceptOffer, At, Ready
  <2>2. Traced
    BY <1>2, <1>o, <2>1, OfferDue, OffersSame DEF AcceptOffer
  <2>3. CASE /\ Exists(o) /\ offer[o].driver = q.driver
             /\ \/ Transition(h, o, "SENT", "ACCEPTED", "a_flip", "idle")
                \/ proc' = [proc EXCEPT ![h].pc = "a_flip", ![h].offer = o]
    <3>1. OfferedTo(q.ride, q.driver)
      BY <1>o, <2>1, <2>3 DEF OfferedTo
    <3>2. /\ proc'[h].ride = q.ride /\ proc'[h].driver = q.driver
          /\ proc'[h].pc \in {"t_get", "t_set"} => proc'[h].miss # "a_flip"
      BY <1>i, <1>q, <2>3 DEF Transition, Process
    <3>3. Entitled(h)'
      BY <2>1, <2>2, <3>1, <3>2, OfferedStays DEF Entitled, Traced
    <3>4. QED
      BY <1>i, <2>2, <3>3, TracedStep
  <2>4. CASE Return(h) \/ Transition(h, o, "SENT", "EXPIRED", "idle", "idle")
    BY <1>1, <1>i, <2>2, <2>4, ReturnUnflipped, TransitionUnflipped
  <2>5. QED
    BY <1>2, <2>3, <2>4 DEF AcceptOffer
<1>3. CASE \/ RequestEnqueue(h) \/ AcceptCheckRejected(h) \/ AcceptCheckStale(h) \/ AcceptClearStale(h)
           \/ AcceptFlip(h) \/ AcceptSetActive(h) \/ AcceptFree(h)
  <2>1. Traced
    BY <1>3, OffersSame DEF RequestEnqueue, AcceptCheckRejected, AcceptCheckStale, AcceptClearStale,
       AcceptFlip, AcceptSetActive, AcceptFree, redis
  <2>2. Unflipped(proc'[h])
    BY <1>3, <1>i, GotoUnflipped, ReturnUnflipped DEF RequestEnqueue, AcceptCheckRejected,
       AcceptCheckStale, AcceptClearStale, AcceptFlip, AcceptSetActive, AcceptFree
  <2>3. QED
    BY <1>1, <2>1, <2>2
<1>4. CASE AcceptReadActive(h)
  <2>1. Traced
    BY <1>4, OffersSame DEF AcceptReadActive, redis
  <2>2. Goto(h, "a_offer") \/ \E busy : proc' = [proc EXCEPT ![h].pc = "a_stale", ![h].seen = busy]
    BY <1>4 DEF AcceptReadActive
  <2>3. Unflipped(proc'[h])
    BY <1>i, <1>q, <2>2, GotoUnflipped DEF Unflipped, Process
  <2>4. QED
    BY <1>1, <2>1, <2>3
<1>5. CASE AcceptSupersede(h) \/ DeclineReadOffer(h)
  <2>1. Traced
    BY <1>5, OffersSame DEF AcceptSupersede, DeclineReadOffer, redis
  <2>2. Unflipped(proc'[h])
    BY <1>5, <1>i, ReturnUnflipped, TransitionUnflipped DEF AcceptSupersede, DeclineReadOffer
  <2>3. QED
    BY <1>1, <2>1, <2>2
<1>6. CASE DeclineFree(h) \/ DeclineRecord(h) \/ DeclineRematch(h) \/ StartWrite(h)
  <2>1. Traced
    BY <1>6, OffersSame DEF DeclineFree, DeclineRecord, DeclineRematch, StartWrite, redis
  <2>2. Unflipped(proc'[h])
    BY <1>6, <1>i, ReturnUnflipped, GotoUnflipped DEF DeclineFree, DeclineRecord, DeclineRematch, StartWrite
  <2>3. QED
    BY <1>1, <2>1, <2>2
<1>7. CASE CompleteDelActive(h) \/ CompleteWrite(h) \/ ReleaseDelActive(h) \/ ReleaseWrite(h)
  <2>1. Traced
    BY <1>7, OffersSame DEF CompleteDelActive, CompleteWrite, ReleaseDelActive, ReleaseWrite, redis
  <2>2. Unflipped(proc'[h])
    BY <1>7, <1>i, ReturnUnflipped, GotoUnflipped
       DEF CompleteDelActive, CompleteWrite, ReleaseDelActive, ReleaseWrite
  <2>3. QED
    BY <1>1, <2>1, <2>2
<1>8. CASE CancelWrite(h)
  <2>1. Traced
    BY <1>8, OffersSame DEF CancelWrite, redis
  <2>2. CancelOffers(h, "idle") \/ Return(h)
    BY <1>8 DEF CancelWrite
  <2>3. Unflipped(proc'[h])
    BY <1>i, <1>q, <2>2, ReturnUnflipped DEF CancelOffers, Unflipped, Process
  <2>4. QED
    BY <1>1, <2>1, <2>3
<1>9. CASE ReleaseUnlink(h)
  <2>1. q.ride \in Rides
    BY <1>q, <1>9 DEF ReleaseUnlink, At, Ready
  <2>2. Traced
    BY <1>9, <2>1, PointerGone DEF ReleaseUnlink
  <2>3. Unflipped(proc'[h])
    BY <1>9, <1>i, GotoUnflipped DEF ReleaseUnlink
  <2>4. QED
    BY <1>1, <2>2, <2>3
<1>10. CASE ReleaseRematch(h) \/ PendingFree(h)
  <2>1. Traced
    BY <1>10, OffersSame DEF ReleaseRematch, PendingFree, redis
  <2>2. Unflipped(proc'[h])
    BY <1>10, <1>i, ReturnUnflipped DEF ReleaseRematch, PendingFree
  <2>3. QED
    BY <1>1, <2>1, <2>2
<1>11. CASE PendingReadOffer(h)
  <2>1. q.ride \in Rides
    BY <1>q, <1>11 DEF PendingReadOffer, At, Ready
  <2>2. Traced
    BY <1>11, <1>o, <2>1, OfferDue, OffersSame DEF PendingReadOffer
  <2>3. Unflipped(proc'[h])
    BY <1>11, <1>i, ReturnUnflipped, TransitionUnflipped DEF PendingReadOffer
  <2>4. QED
    BY <1>1, <2>2, <2>3
<1>12. QED
  BY <1>2, <1>3, <1>4, <1>5, <1>6, <1>7, <1>8, <1>9, <1>10, <1>11 DEF HandlerStep

(* So does a client's call.                                                  *)
LEMMA ClientTraces == ASSUME FInv, NEW h \in Handlers, ClientCall(h) PROVE FInv'
<1>1. IInv' /\ Alone(h) /\ ProcsOK /\ h \in Procs
  BY ClientPreserves, ClientAlone DEF FInv, IInv
<1>2. Traced
  BY OffersSame DEF ClientCall, RequestRide, Cancel, Accept, StartRide, CompleteRide, ReleaseRide,
     Decline, DeclineByRide, PendingOffer, redis
<1>3. Unflipped(proc'[h])
  <2>1. CASE \E r \in Rides : RequestRide(h, r)
    BY <1>1, <2>1 DEF RequestRide, ProcsOK, NewCall, Idle, Unflipped
  <2>2. CASE \E r \in Rides : Cancel(h, r)
    BY <1>1, <2>2 DEF Cancel, Call, ProcsOK, NewCall, Idle, Unflipped
  <2>3. CASE \E r \in Rides, d \in Drivers :
               Accept(h, r, d) \/ StartRide(h, r, d) \/ CompleteRide(h, r, d) \/ ReleaseRide(h, r, d)
    <3>1. \E pc \in {"a_rejected", "u_start", "u_key", "r_key"}, r \in Rides, d \in Drivers :
             proc' = [proc EXCEPT ![h] = NewCall(pc, r, d)]
      BY <2>3 DEF Accept, StartRide, CompleteRide, ReleaseRide, Call
    <3>2. QED
      BY <1>1, <3>1 DEF ProcsOK, NewCall, Idle, Unflipped
  <2>4. CASE \E o \in OfferIds : Decline(h, o)
    BY <1>1, <2>4 DEF Decline, Call, ProcsOK, NewCall, Idle, Unflipped
  <2>5. CASE \E d \in Drivers : DeclineByRide(h, d) \/ PendingOffer(h, d)
    <3>1. \E pc \in {"d_offer", "n_offer"}, d \in Drivers :
             proc' = [proc EXCEPT ![h] = NewCall(pc, hold[d], d)]
      BY <2>5 DEF DeclineByRide, PendingOffer, Call
    <3>2. QED
      BY <1>1, <3>1 DEF ProcsOK, NewCall, Idle, Unflipped
  <2>6. QED
    BY <2>1, <2>2, <2>3, <2>4, <2>5 DEF ClientCall
<1>4. QED
  BY <1>1, <1>2, <1>3, UnflippedStep

(* So does a match job: an offer is published under an unused id and the     *)
(* pointer is set to it.                                                     *)
LEMMA MatcherTraces == ASSUME FInv, NEW m \in Matchers, MatcherStep(m) PROVE FInv'
<1> DEFINE q == proc[m]
<1>i. IInv' /\ Alone(m) /\ ProcsOK /\ m \in Procs
  BY MatcherPreserves, MatcherAlone DEF FInv, IInv
<1>q. q \in Process /\ Ready(q, offer) /\ proc \in [Procs -> Process]
  BY <1>i DEF FInv, IInv, ProcsOK
<1>1. ASSUME Traced, Unflipped(proc'[m]) PROVE FInv'
  BY <1>i, <1>1, UnflippedStep
<1>2. CASE \E r \in Rides, k \in 0 .. MaxRetries : MatchTake(m, r, k)
  <2>1. Traced
    BY <1>2, OffersSame DEF MatchTake, redis
  <2>2. Unflipped(proc'[m])
    BY <1>i, <1>q, <1>2 DEF MatchTake, At, Idle, Unflipped
  <2>3. QED
    BY <1>1, <2>1, <2>2
<1>3. CASE MatchLock(m) \/ MatchFree(m) \/ MatchFailed(m) \/ MatchUnlock(m) \/ JobRescue(m)
  <2>1. Traced
    BY <1>3, OffersSame DEF MatchLock, MatchFree, MatchFailed, MatchUnlock, JobRescue, redis
  <2>2. Unflipped(proc'[m])
    BY <1>3, <1>i, ReturnUnflipped, GotoUnflipped, NextUnflipped
       DEF MatchLock, MatchFree, MatchFailed, MatchUnlock, JobRescue
  <2>3. QED
    BY <1>1, <2>1, <2>2
<1>4. CASE MatchStage(m)
  <2>1. Traced
    BY <1>4, OffersSame DEF MatchStage
  <2>2. Unflipped(proc'[m])
    BY <1>4, <1>i, <1>q DEF MatchStage, Unflipped, Process
  <2>3. QED
    BY <1>1, <2>1, <2>2
<1>5. CASE MatchNext(m)
  <2>1. Traced
    BY <1>5, OffersSame DEF MatchNext, redis
  <2>2. \/ Goto(m, "m_failed") \/ Goto(m, "m_unlock")
        \/ proc' = [proc EXCEPT ![m].pc = "m_stage", ![m].stage = @ + 1]
        \/ \E d \in q.left : proc' = [proc EXCEPT ![m].pc = "m_check", ![m].driver = d,
                                                  ![m].left = @ \ {d}]
    BY <1>5 DEF MatchNext
  <2>3. ASSUME proc' = [proc EXCEPT ![m].pc = "m_stage", ![m].stage = @ + 1]
        PROVE  Unflipped(proc'[m])
    BY <1>i, <1>q, <2>3 DEF Unflipped, Process
  <2>4. ASSUME NEW d, proc' = [proc EXCEPT ![m].pc = "m_check", ![m].driver = d, ![m].left = @ \ {d}]
        PROVE  Unflipped(proc'[m])
    BY <1>i, <1>q, <2>4 DEF Unflipped, Process
  <2>5. QED
    BY <1>1, <1>i, <2>1, <2>2, <2>3, <2>4, GotoUnflipped
<1>6. ASSUME NEW x, MatchDecide(m, x) PROVE Unflipped(proc'[m])
  BY <1>i, <1>6, NextUnflipped, TransitionedUnflipped DEF MatchDecide
<1>7. CASE MatchCheckKeys(m)
  <2>1. Traced
    BY <1>7, OffersSame DEF MatchCheckKeys, redis
  <2>2. CASE active[q.driver] = None
    BY <1>1, <1>6, <1>7, <2>1, <2>2 DEF MatchCheckKeys
  <2>3. CASE active[q.driver] # None
    <3>1. Unflipped(proc'[m])
      BY <1>i, <1>q, <1>7, <2>3 DEF MatchCheckKeys, Unflipped, Process
    <3>2. QED
      BY <1>1, <2>1, <3>1
  <2>4. QED
    BY <2>2, <2>3
<1>8. CASE MatchCheckStale(m) \/ MatchHeal(m) \/ MatchHold(m) \/ MatchPoll(m)
  <2>1. Traced
    BY <1>8, OffersSame DEF MatchCheckStale, MatchHeal, MatchHold, MatchPoll, redis
  <2>2. \/ NextCandidate(m) \/ \E x : MatchDecide(m, x)
        \/ \E pc \in {"m_heal", "m_publish", "m_unlock"} : Goto(m, pc)
    BY <1>8 DEF MatchCheckStale, MatchHeal, MatchHold, MatchPoll
  <2>3. Unflipped(proc'[m])
    BY <1>i, <1>6, <2>2, NextUnflipped, GotoUnflipped
  <2>4. QED
    BY <1>1, <2>1, <2>3
<1>9. CASE MatchPublish(m)
  <2>1. q.ride \in Rides /\ q.driver \in Drivers
    BY <1>q, <1>9 DEF MatchPublish, At, Ready, WithDriver
  <2>2. PICK o \in OfferIds :
          /\ offer[o].status = "NONE"
          /\ offer' = [offer EXCEPT ![o] = [ride |-> q.ride, driver |-> q.driver,
                                            status |-> "SENT", due |-> FALSE]]
          /\ pointer' = [pointer EXCEPT ![q.ride] = o]
          /\ proc' = [proc EXCEPT ![m].pc = "m_attach", ![m].offer = o]
    BY <1>9 DEF MatchPublish
  <2>3. offer[o].ride = None
    BY <2>2 DEF FInv, Blank
  <2>4. /\ offer'[o].ride = q.ride /\ offer'[o].status = "SENT"
        /\ \A x \in OfferIds \ {o} : offer'[x] = offer[x]
    BY <2>2 DEF FInv, IInv, Store, OffersOK
  <2>5. pointer \in [Rides -> OfferIds \cup {None}]
    BY DEF FInv, IInv, Store, RedisOK
  <2>6. Pointed'
    <3>1. ASSUME NEW r \in Rides, pointer'[r] # None PROVE offer'[pointer'[r]].ride = r
      <4>1. CASE r = q.ride
        BY <2>2, <2>4, <2>5, <4>1
      <4>2. CASE r # q.ride
        <5>1. pointer'[r] = pointer[r] /\ pointer[r] \in OfferIds
          BY <2>2, <2>5, <3>1, <4>2
        <5>2. offer[pointer[r]].ride = r
          BY <3>1, <5>1 DEF FInv, Pointed
        <5>3. pointer[r] # o
          BY <2>3, <5>2
        <5>4. QED
          BY <2>4, <5>1, <5>2, <5>3
      <4>3. QED
        BY <4>1, <4>2
    <3>2. QED
      BY <3>1 DEF Pointed
  <2>7. Blank' /\ OffersKept
    BY <2>3, <2>4 DEF FInv, Blank, OffersKept
  <2>8. Unflipped(proc'[m])
    BY <1>i, <1>q, <2>2 DEF Unflipped, Process
  <2>9. QED
    BY <1>1, <2>6, <2>7, <2>8 DEF Traced
<1>10. CASE MatchAttachGet(m)
  <2>1. Traced
    BY <1>10, OffersSame DEF MatchAttachGet, redis
  <2>2. Goto(m, "m_wait") \/ \E s : proc' = [proc EXCEPT ![m].pc = "m_payload", ![m].seen = s]
    BY <1>10 DEF MatchAttachGet
  <2>3. Unflipped(proc'[m])
    BY <1>i, <1>q, <2>2, GotoUnflipped DEF Unflipped, Process
  <2>4. QED
    BY <1>1, <2>1, <2>3
<1>11. CASE MatchAttachSet(m)
  <2>1. q.offer \in OfferIds /\ q.seen \in Written
    BY <1>q, <1>11 DEF MatchAttachSet, At, Ready, WithOffer
  <2>2. Traced
    BY <1>11, <2>1, OfferSet DEF MatchAttachSet
  <2>3. Unflipped(proc'[m])
    BY <1>11, <1>i, GotoUnflipped DEF MatchAttachSet
  <2>4. QED
    BY <1>1, <2>2, <2>3
<1>12. CASE MatchTimeout(m)
  <2>1. q.offer \in OfferIds
    BY <1>q, <1>12 DEF MatchTimeout, At, Ready, WithOffer
  <2>2. Traced
    BY <1>12, <2>1, OfferDue DEF MatchTimeout
  <2>3. Unflipped(proc'[m])
    BY <1>12, <1>i, <1>q DEF MatchTimeout, Unflipped, Process
  <2>4. QED
    BY <1>1, <2>2, <2>3
<1>13. QED
  BY <1>2, <1>3, <1>4, <1>5, <1>7, <1>8, <1>9, <1>10, <1>11, <1>12 DEF MatcherStep

(* So does the watchdog.                                                     *)
LEMMA WatchdogTraces == ASSUME FInv, WatchdogStep PROVE FInv'
<1>1. IInv' /\ Alone(Watchdog) /\ ProcsOK /\ Watchdog \in Procs
  BY WatchdogPreserves, WatchdogAlone DEF FInv, IInv
<1>2. Traced
  BY OffersSame DEF WatchdogStep, SweepSelect, SweepRead, SweepWrite, redis
<1>3. Unflipped(proc'[Watchdog])
  <2>1. CASE \E r \in Rides, s \in Sweeps : SweepSelect(r, s)
    BY <1>1, <2>1 DEF SweepSelect, ProcsOK, Idle, Unflipped
  <2>2. CASE SweepRead
    BY <1>1, <2>2, ReturnUnflipped DEF SweepRead, CancelOffers, ProcsOK, Unflipped, Process
  <2>3. CASE SweepWrite
    BY <1>1, <2>3, ReturnUnflipped DEF SweepWrite
  <2>4. QED
    BY <2>1, <2>2, <2>3 DEF WatchdogStep
<1>4. QED
  BY <1>1, <1>2, <1>3, UnflippedStep

(* So does the world.                                                        *)
LEMMA WorldTraces == ASSUME FInv, World PROVE FInv'
<1>1. IInv' /\ ProcsOK
  BY WorldPreserves DEF FInv, IInv
<1>2. ASSUME Traced, UNCHANGED proc PROVE FInv'
  <2>1. ASSUME NEW x \in Procs PROVE Entitled(x)'
    <3>1. CASE proc[x].ride \in Rides
      BY <1>2, <3>1, OfferedStays DEF FInv, Entitled, Traced
    <3>2. CASE proc[x].ride \notin Rides
      BY <1>2, <3>2 DEF FInv, IInv, ProcsOK, Ready, Entitled
    <3>3. QED
      BY <3>1, <3>2
  <2>2. QED
    BY <1>1, <1>2, <2>1 DEF FInv, Traced
<1>3. ASSUME NEW r \in Rides, PointerExpires(r) PROVE FInv'
  BY <1>2, <1>3, PointerGone DEF PointerExpires
<1>4. ASSUME NEW o \in OfferIds, OfferExpires(o) PROVE FInv'
  <2>1. "GONE" \in Written
    BY DEF OfferStatus
  <2>2. QED
    BY <1>2, <1>4, <2>1, OfferSet DEF OfferExpires
<1>5. CASE UNCHANGED <<offer, pointer, proc>>
  BY <1>2, <1>5, OffersSame
<1>6. ASSUME NEW m \in Matchers, JobThrows(m) PROVE FInv'
  <2>1. Traced /\ m \in Procs
    BY <1>6, OffersSame DEF JobThrows, redis
  <2>2. Goto(m, "m_rescue") \/ Goto(m, "m_throw")
    BY <1>6 DEF JobThrows
  <2>3. QED
    BY <1>1, <2>1, <2>2, GotoAlone, GotoUnflipped, UnflippedStep
<1>7. ASSUME NEW p \in Procs, JobCrash(p) \/ CallCrash(p) PROVE FInv'
  <2>1. Traced
    BY <1>7, OffersSame DEF JobCrash, CallCrash, redis
  <2>2. Return(p)
    BY <1>7 DEF JobCrash, CallCrash
  <2>3. QED
    BY <1>1, <2>1, <2>2, ReturnAlone, ReturnUnflipped, UnflippedStep
<1>8. QED
  <2>1. CASE \/ \E r \in Rides, d \in Drivers : MarkArriving(r, d)
             \/ \E r \in Rides : Retrigger(r) \/ LockExpires(r) \/ LockOutlived(r)
             \/ \E d \in Drivers : HoldExpires(d)
    BY <1>5, <2>1 DEF MarkArriving, Retrigger, LockExpires, LockOutlived, HoldExpires, redis
  <2>2. QED
    BY <1>3, <1>4, <1>6, <1>7, <2>1 DEF World

(* Every step keeps it.                                                      *)
LEMMA TracePreserved == FInv /\ [Next]_vars => FInv'
<1> SUFFICES ASSUME FInv, [Next]_vars PROVE FInv'
  OBVIOUS
<1>1. CASE UNCHANGED vars
  <2>1. IInv' /\ UNCHANGED <<offer, pointer, proc>>
    BY <1>1, Preserved DEF FInv, vars, redis
  <2>2. QED
    BY <2>1 DEF FInv, Pointed, Blank, Entitled, OfferedTo
<1>2. CASE Next
  BY <1>2, SharedTraces, HandlerTraces, ClientTraces, MatcherTraces, WatchdogTraces, WorldTraces DEF Next
<1>3. QED
  BY <1>1, <1>2

(* A row goes from REQUESTED to ACCEPTED in the conditional flip only.       *)
LEMMA OnlyFlipAssigns ==
  ASSUME IInv, Next, NEW r \in Rides, ride[r].status = "REQUESTED", ride'[r].status = "ACCEPTED"
  PROVE  \E h \in Handlers : AcceptFlip(h) /\ r = proc[h].ride
<1>r. ride \in [Rides -> [status : Status, driver : Drivers \cup {None}]]
  BY DEF IInv, Store, DbOK
<1>1. ASSUME NEW x, NEW s, ride' = [ride EXCEPT ![x].status = s], s # "ACCEPTED" PROVE FALSE
  BY <1>r, <1>1
<1>2. CASE \E p \in Procs : Shared(p)
  BY <1>2, SharedKeepsRides
<1>3. ASSUME NEW h \in Handlers, ClientCall(h) PROVE FALSE
  <2>1. UNCHANGED ride \/ \E x \in Rides : ride' = [ride EXCEPT ![x].status = "REQUESTED"]
    BY <1>3 DEF ClientCall, RequestRide, Cancel, Accept, StartRide, CompleteRide, ReleaseRide, Decline,
       DeclineByRide, PendingOffer, db
  <2>2. QED
    BY <1>1, <2>1
<1>4. ASSUME NEW h \in Handlers, HandlerStep(h) PROVE AcceptFlip(h) /\ r = proc[h].ride
  <2>1. CASE AcceptFlip(h)
    BY <1>r, <2>1 DEF AcceptFlip
  <2>2. CASE StartWrite(h) \/ CompleteWrite(h) \/ CancelWrite(h)
    BY <1>1, <2>2 DEF StartWrite, CompleteWrite, CancelWrite
  <2>3. CASE ReleaseWrite(h)
    BY <1>r, <2>3 DEF ReleaseWrite
  <2>4. QED
    BY <1>4, <2>1, <2>2, <2>3, HandlerWrites
<1>5. ASSUME NEW m \in Matchers, MatcherStep(m) PROVE FALSE
  <2>1. UNCHANGED ride \/ \E x : ride' = [ride EXCEPT ![x].status = "CANCELLED"]
    BY <1>5, MatcherWrites DEF MatchFailed
  <2>2. QED
    BY <1>1, <2>1
<1>6. CASE WatchdogStep
  <2>1. UNCHANGED ride \/ \E x : ride' = [ride EXCEPT ![x].status = "CANCELLED"]
    BY <1>6 DEF WatchdogStep, SweepSelect, SweepRead, SweepWrite, db
  <2>2. QED
    BY <1>1, <2>1
<1>7. CASE World
  <2>1. UNCHANGED ride \/ \E x : ride' = [ride EXCEPT ![x].status = "DRIVER_ARRIVING"]
    BY <1>7 DEF World, MarkArriving, Retrigger, LockExpires, LockOutlived, OfferExpires, PointerExpires,
       HoldExpires, JobThrows, JobCrash, CallCrash, db
  <2>2. QED
    BY <1>1, <2>1
<1>8. QED
  BY <1>2, <1>3, <1>4, <1>5, <1>6, <1>7 DEF Next

(* The driver assigned to a ride is one it was offered to, whatever offers   *)
(* expire, are superseded or replaced between the commands of an accept, in  *)
(* every reachable state of any size.                                        *)
THEOREM AssignedWasOffered == Spec => AssignedDriverWasOffered
<1>1. Init => FInv
  BY Initially DEF FInv, Init, Pointed, Blank, Entitled, Idle
<1>2. ASSUME FInv, [Next]_vars
      PROVE  [\A r \in Rides :
                ride[r].status = "REQUESTED" /\ ride'[r].status = "ACCEPTED" =>
                  \E o \in OfferIds : offer[o].ride = r /\ offer[o].driver = ride'[r].driver]_vars
  <2>1. CASE UNCHANGED vars
    BY <2>1
  <2>2. ASSUME Next, NEW r \in Rides, ride[r].status = "REQUESTED", ride'[r].status = "ACCEPTED"
        PROVE  \E o \in OfferIds : offer[o].ride = r /\ offer[o].driver = ride'[r].driver
    <3>1. PICK h \in Handlers : AcceptFlip(h) /\ r = proc[h].ride
      BY <1>2, <2>2, OnlyFlipAssigns DEF FInv
    <3>2. ride'[r].driver = proc[h].driver
      BY <1>2, <2>2, <3>1 DEF AcceptFlip, FInv, IInv, Store, DbOK
    <3>3. OfferedTo(r, proc[h].driver)
      BY <1>2, <3>1 DEF AcceptFlip, At, FInv, Entitled
    <3>4. QED
      BY <3>2, <3>3 DEF OfferedTo
  <2>3. QED
    BY <1>2, <2>1, <2>2
<1>3. QED
  BY <1>1, <1>2, TracePreserved, PTL DEF Spec, AssignedDriverWasOffered

----------------------------------------------------------------------------
(* A process still has offer o in hand: the match job that published it, on   *)
(* the way to its timer or in the timer itself.                               *)
Waits(q, o) ==
    /\ q.offer = o
    /\ \/ q.pc \in {"m_attach", "m_payload", "m_wait", "t_set"}
       \/ q.pc = "t_get" /\ q.seen = "SENT"
Awaited(o) == \E m \in Matchers : Waits(proc[m], o)

(* transitionOffer writes other statuses than SENT.                          *)
Closing(q) == q.pc \in {"t_get", "t_set"} => q.to # "SENT"

(* The inductive invariant: while nothing has failed, an offer that is SENT   *)
(* is one whose match job is still about to close it.  Only attachPayload may *)
(* write SENT back over an answer, and it is that job which does.             *)
WInv ==
    /\ IInv
    /\ \A p \in Procs : Closing(proc[p])
    /\ faults = 0 => \A o \in OfferIds : offer[o].status = "SENT" => Awaited(o)

(* What the step of one process has to keep for that.                        *)
KeepsOffer(p, o) ==
    \/ offer'[o].status # "SENT"
    \/ p \in Matchers /\ Waits(proc'[p], o)
    \/ offer[o].status = "SENT" /\ ~ (p \in Matchers /\ Waits(proc[p], o))

(* A step of one process that keeps it keeps the invariant.                  *)
LEMMA AwaitStep ==
  ASSUME WInv, IInv', NEW p \in Procs, Alone(p), Closing(proc'[p]), UNCHANGED faults,
         \A o \in OfferIds : KeepsOffer(p, o)
  PROVE  WInv'
<1>1. ASSUME NEW x \in Procs PROVE Closing(proc'[x])
  BY DEF Alone, WInv
<1>2. ASSUME faults' = 0, NEW o \in OfferIds, offer'[o].status = "SENT"
      PROVE  \E m \in Matchers : Waits(proc'[m], o)
  <2>1. CASE p \in Matchers /\ Waits(proc'[p], o)
    BY <2>1
  <2>2. CASE offer[o].status = "SENT" /\ ~ (p \in Matchers /\ Waits(proc[p], o))
    <3>1. PICK m \in Matchers : Waits(proc[m], o)
      BY <1>2, <2>2 DEF WInv, Awaited
    <3>2. m # p /\ m \in Procs
      BY <2>2, <3>1
    <3>3. proc'[m] = proc[m]
      BY <3>2 DEF Alone
    <3>4. QED
      BY <3>1, <3>3
  <2>3. QED
    BY <1>2, <2>1, <2>2 DEF KeepsOffer
<1>3. QED
  BY <1>1, <1>2 DEF WInv, Closing, Awaited, Waits

(* The offers keep their statuses, but for their clocks.                     *)
SameStatuses == \A o \in OfferIds : offer'[o].status = offer[o].status

(* So does one that changes no status, of a process that has no offer in hand.*)
LEMMA ElsewhereStep ==
  ASSUME WInv, IInv', NEW p \in Procs, Alone(p), Closing(proc'[p]), UNCHANGED faults, SameStatuses,
         p \notin Matchers \/ \A o \in OfferIds : ~ Waits(proc[p], o)
  PROVE  WInv'
BY AwaitStep DEF KeepsOffer, SameStatuses

(* The clock passing an offer's expiry changes no status.                    *)
LEMMA DueSame == ASSUME IInv, NEW o, PastExpiry(o) PROVE SameStatuses
BY DEF IInv, Store, OffersOK, PastExpiry, SameStatuses

(* A process that goes on is at the label it went to,                        *)
LEMMA GotoAt ==
  ASSUME ProcsOK, NEW p \in Procs, NEW pc, Goto(p, pc) PROVE proc'[p].pc = pc
BY DEF ProcsOK, Goto, Return, Idle, Process

(* and a call that ends is idle, as is a process that took up transitionOffer *)
(* to write what it was told.                                                *)
LEMMA TransitionAt ==
  ASSUME ProcsOK, NEW p \in Procs, NEW o, NEW from, NEW to, NEW ok, NEW miss,
         Transition(p, o, from, to, ok, miss)
  PROVE  proc'[p].pc = "t_get" /\ proc'[p].to = to
BY DEF ProcsOK, Transition, Process

(* A shared step keeps it: transitionOffer writes nothing over an offer that *)
(* it did not find SENT, and never SENT.                                     *)
LEMMA SharedCloses == ASSUME WInv, NEW p \in Procs, Shared(p) PROVE WInv'
<1> DEFINE q == proc[p]
<1>i. IInv' /\ Alone(p) /\ ProcsOK
  BY SharedPreserves, SharedAlone DEF WInv, IInv
<1>q. q \in Process /\ Ready(q, offer) /\ Closing(q) /\ proc \in [Procs -> Process]
  BY DEF WInv, IInv, ProcsOK
<1>1. CASE TransitionGet(p)
  <2>1. q.pc = "t_get" /\ UNCHANGED <<offer, faults>>
    BY <1>1 DEF TransitionGet, At, redis
  <2>2. CASE offer[q.offer].status = q.seen
    <3>1. proc' = [proc EXCEPT ![p].pc = "t_set"]
      BY <1>1, <2>2 DEF TransitionGet, Goto
    <3>2. proc'[p].pc = "t_set" /\ proc'[p].offer = q.offer /\ proc'[p].to = q.to
      BY <1>q, <3>1 DEF Process
    <3>3. Closing(proc'[p])
      BY <1>q, <2>1, <3>2 DEF Closing
    <3>4. \A o \in OfferIds : KeepsOffer(p, o)
      BY <2>1, <3>2 DEF KeepsOffer, Waits
    <3>5. QED
      BY <1>i, <2>1, <3>3, <3>4, AwaitStep
  <2>3. CASE offer[q.offer].status # q.seen
    <3>1. Transitioned(p, q.miss) /\ q.miss \notin {"t_get", "t_set"}
      BY <1>1, <1>q, <2>1, <2>3 DEF TransitionGet, Ready, WithOffer
    <3>2. proc'[p].pc = q.miss
      BY <1>q, <3>1 DEF Transitioned, Return, Idle, Process
    <3>3. Closing(proc'[p])
      BY <3>1, <3>2 DEF Closing
    <3>4. \A o \in OfferIds : KeepsOffer(p, o)
      BY <2>1, <2>3 DEF KeepsOffer, Waits
    <3>5. QED
      BY <1>i, <2>1, <3>3, <3>4, AwaitStep
  <2>4. QED
    BY <2>2, <2>3
<1>2. CASE TransitionSet(p)
  <2>1. /\ q.pc = "t_set" /\ q.offer \in OfferIds /\ q.to # "SENT"
        /\ q.ok \notin {"t_get", "t_set"} /\ UNCHANGED faults
    BY <1>q, <1>2 DEF TransitionSet, At, Ready, WithOffer, Closing
  <2>2. \A o \in OfferIds : offer'[o].status = IF o = q.offer THEN q.to ELSE offer[o].status
    BY <1>2, <2>1 DEF TransitionSet, SetOffer, WInv, IInv, Store, OffersOK
  <2>3. proc'[p].pc = q.ok
    BY <1>q, <1>2 DEF TransitionSet, Transitioned, Return, Idle, Process
  <2>4. Closing(proc'[p])
    BY <2>1, <2>3 DEF Closing
  <2>5. \A o \in OfferIds : KeepsOffer(p, o)
    BY <2>1, <2>2 DEF KeepsOffer, Waits
  <2>6. QED
    BY <1>i, <2>1, <2>4, <2>5, AwaitStep
<1>3. CASE CancelOffersRead(p) \/ CancelOffersFree(p) \/ CancelOffersUnlink(p) \/ CancelDelActive(p)
  <2>1. SameStatuses /\ UNCHANGED faults
    BY <1>3 DEF CancelOffersRead, CancelOffersFree, CancelOffersUnlink, CancelDelActive, SameStatuses, redis
  <2>2. q.pc \in {"o_pointer", "o_free", "o_unlink", "x_key", "w_key"} /\ q.back \notin {"t_get", "t_set"}
    BY <1>3, <1>q DEF CancelOffersRead, CancelOffersFree, CancelOffersUnlink, CancelDelActive, At, Process
  <2>3. \/ \E pc : pc \notin {"t_get", "t_set"} /\ Goto(p, pc)
        \/ \E o : Transition(p, o, "SENT", "CANCELLED", "o_free", "o_free")
    BY <1>3, <2>2 DEF CancelOffersRead, CancelOffersFree, CancelOffersUnlink, CancelDelActive
  <2>4. Closing(proc'[p])
    BY <1>i, <2>3, GotoAt, TransitionAt DEF Closing
  <2>5. QED
    BY <1>i, <2>1, <2>2, <2>4, ElsewhereStep DEF Waits
<1>4. QED
  BY <1>1, <1>2, <1>3 DEF Shared

(* A handler's step keeps it: no handler writes SENT.                        *)
LEMMA HandlerCloses == ASSUME WInv, NEW h \in Handlers, HandlerStep(h) PROVE WInv'
<1>i. IInv' /\ Alone(h) /\ ProcsOK /\ h \in Procs /\ h \notin Matchers
  BY HandlerPreserves, HandlerAlone DEF WInv, IInv
<1>q. proc[h] \in Process /\ proc \in [Procs -> Process]
  BY <1>i DEF ProcsOK
<1>1. ASSUME SameStatuses, UNCHANGED faults, Closing(proc'[h]) PROVE WInv'
  BY <1>i, <1>1, ElsewhereStep
<1>2. ASSUME Return(h) PROVE Closing(proc'[h])
  BY <1>q, <1>2 DEF Return, Idle, Closing
<1>3. ASSUME NEW pc, Goto(h, pc), pc \notin {"t_get", "t_set"} PROVE Closing(proc'[h])
  BY <1>i, <1>3, GotoAt DEF Closing
<1>4. ASSUME NEW o, NEW from, NEW to, NEW ok, NEW miss, Transition(h, o, from, to, ok, miss), to # "SENT"
      PROVE  Closing(proc'[h])
  BY <1>i, <1>4, TransitionAt DEF Closing
<1>5. CASE AcceptOffer(h)
  <2>1. PICK o : o = pointer[proc[h].ride]
    OBVIOUS
  <2>2. /\ UNCHANGED offer \/ PastExpiry(o)
        /\ UNCHANGED faults
        /\ \/ Transition(h, o, "SENT", "EXPIRED", "idle", "idle")
           \/ Transition(h, o, "SENT", "ACCEPTED", "a_flip", "idle")
           \/ proc' = [proc EXCEPT ![h].pc = "a_flip", ![h].offer = o]
           \/ Return(h)
    BY <1>5, <2>1 DEF AcceptOffer
  <2>3. SameStatuses
    BY <2>2, DueSame DEF SameStatuses, WInv
  <2>4. ASSUME proc' = [proc EXCEPT ![h].pc = "a_flip", ![h].offer = o] PROVE Closing(proc'[h])
    BY <1>i, <1>q, <2>4 DEF Closing, Process
  <2>5. QED
    BY <1>1, <1>2, <1>4, <2>2, <2>3, <2>4
<1>6. CASE PendingReadOffer(h)
  <2>1. PICK o : o = pointer[proc[h].ride]
    OBVIOUS
  <2>2. /\ UNCHANGED offer \/ PastExpiry(o)
        /\ UNCHANGED faults
        /\ Transition(h, o, "SENT", "EXPIRED", "n_free", "n_free") \/ Return(h)
    BY <1>6, <2>1 DEF PendingReadOffer
  <2>3. SameStatuses
    BY <2>2, DueSame DEF SameStatuses, WInv
  <2>4. QED
    BY <1>1, <1>2, <1>4, <2>2, <2>3
<1>7. CASE AcceptReadActive(h)
  <2>1. SameStatuses /\ UNCHANGED faults
    BY <1>7 DEF AcceptReadActive, redis, SameStatuses
  <2>2. Goto(h, "a_offer") \/ \E b : proc' = [proc EXCEPT ![h].pc = "a_stale", ![h].seen = b]
    BY <1>7 DEF AcceptReadActive
  <2>3. ASSUME NEW b, proc' = [proc EXCEPT ![h].pc = "a_stale", ![h].seen = b] PROVE Closing(proc'[h])
    BY <1>i, <1>q, <2>3 DEF Closing, Process
  <2>4. QED
    BY <1>1, <1>3, <2>1, <2>2, <2>3
<1>8. CASE AcceptSupersede(h) \/ DeclineReadOffer(h)
  <2>1. SameStatuses /\ UNCHANGED faults
    BY <1>8 DEF AcceptSupersede, DeclineReadOffer, redis, SameStatuses
  <2>2. \/ Return(h)
        \/ \E o, from, to, ok : to # "SENT" /\ Transition(h, o, from, to, ok, ok)
    BY <1>8 DEF AcceptSupersede, DeclineReadOffer
  <2>3. QED
    BY <1>1, <1>2, <1>4, <2>1, <2>2
<1>9. CASE CancelWrite(h)
  <2>1. SameStatuses /\ UNCHANGED faults
    BY <1>9 DEF CancelWrite, redis, SameStatuses
  <2>2. Return(h) \/ CancelOffers(h, "idle")
    BY <1>9 DEF CancelWrite
  <2>3. ASSUME CancelOffers(h, "idle") PROVE Closing(proc'[h])
    BY <1>i, <1>q, <2>3 DEF CancelOffers, Closing, Process
  <2>4. QED
    BY <1>1, <1>2, <2>1, <2>2, <2>3
<1>10. CASE \/ RequestEnqueue(h) \/ AcceptCheckRejected(h) \/ AcceptCheckStale(h) \/ AcceptClearStale(h)
            \/ AcceptFlip(h) \/ AcceptSetActive(h) \/ AcceptFree(h)
            \/ DeclineFree(h) \/ DeclineRecord(h) \/ DeclineRematch(h)
            \/ StartWrite(h) \/ CompleteDelActive(h) \/ CompleteWrite(h)
            \/ ReleaseDelActive(h) \/ ReleaseWrite(h) \/ ReleaseUnlink(h) \/ ReleaseRematch(h)
            \/ PendingFree(h)
  <2>1. UNCHANGED <<offer, faults>>
    BY <1>10 DEF RequestEnqueue, AcceptCheckRejected, AcceptCheckStale, AcceptClearStale, AcceptFlip,
       AcceptSetActive, AcceptFree, DeclineFree, DeclineRecord, DeclineRematch, StartWrite,
       CompleteDelActive, CompleteWrite, ReleaseDelActive, ReleaseWrite, ReleaseUnlink, ReleaseRematch,
       PendingFree, redis
  <2>2. Return(h) \/ \E pc : pc \notin {"t_get", "t_set"} /\ Goto(h, pc)
    BY <1>10 DEF RequestEnqueue, AcceptCheckRejected, AcceptCheckStale, AcceptClearStale, AcceptFlip,
       AcceptSetActive, AcceptFree, DeclineFree, DeclineRecord, DeclineRematch, StartWrite,
       CompleteDelActive, CompleteWrite, ReleaseDelActive, ReleaseWrite, ReleaseUnlink, ReleaseRematch,
       PendingFree
  <2>3. QED
    BY <1>1, <1>2, <1>3, <2>1, <2>2 DEF SameStatuses
<1>11. QED
  BY <1>5, <1>6, <1>7, <1>8, <1>9, <1>10 DEF HandlerStep

(* So does a client's call: a decline is told to write DECLINED.             *)
LEMMA ClientCloses == ASSUME WInv, NEW h \in Handlers, ClientCall(h) PROVE WInv'
<1>1. IInv' /\ Alone(h) /\ ProcsOK /\ h \in Procs /\ h \notin Matchers
  BY ClientPreserves, ClientAlone DEF WInv, IInv
<1>2. SameStatuses /\ UNCHANGED faults
  BY DEF ClientCall, RequestRide, Cancel, Accept, StartRide, CompleteRide, ReleaseRide,
     Decline, DeclineByRide, PendingOffer, Call, redis, SameStatuses
<1>3. Closing(proc'[h])
  <2>1. CASE \E r \in Rides : RequestRide(h, r)
    BY <1>1, <2>1 DEF RequestRide, ProcsOK, NewCall, Idle, Closing
  <2>2. CASE \E r \in Rides : Cancel(h, r)
    BY <1>1, <2>2 DEF Cancel, Call, ProcsOK, NewCall, Idle, Closing
  <2>3. CASE \E r \in Rides, d \in Drivers :
               Accept(h, r, d) \/ StartRide(h, r, d) \/ CompleteRide(h, r, d) \/ ReleaseRide(h, r, d)
    <3>1. \E pc \in {"a_rejected", "u_start", "u_key", "r_key"}, r \in Rides, d \in Drivers :
             proc' = [proc EXCEPT ![h] = NewCall(pc, r, d)]
      BY <2>3 DEF Accept, StartRide, CompleteRide, ReleaseRide, Call
    <3>2. QED
      BY <1>1, <3>1 DEF ProcsOK, NewCall, Idle, Closing
  <2>4. CASE \E o \in OfferIds : Decline(h, o)
    BY <1>1, <2>4 DEF Decline, Call, ProcsOK, NewCall, Idle, Closing
  <2>5. CASE \E d \in Drivers : DeclineByRide(h, d) \/ PendingOffer(h, d)
    <3>1. \E pc \in {"d_offer", "n_offer"}, d \in Drivers :
             proc' = [proc EXCEPT ![h] = NewCall(pc, hold[d], d)]
      BY <2>5 DEF DeclineByRide, PendingOffer, Call
    <3>2. QED
      BY <1>1, <3>1 DEF ProcsOK, NewCall, Idle, Closing
  <2>6. QED
    BY <2>1, <2>2, <2>3, <2>4, <2>5 DEF ClientCall
<1>4. QED
  BY <1>1, <1>2, <1>3, ElsewhereStep

(* So does the watchdog.                                                     *)
LEMMA WatchdogCloses == ASSUME WInv, WatchdogStep PROVE WInv'
<1>1. IInv' /\ Alone(Watchdog) /\ ProcsOK /\ Watchdog \in Procs /\ Watchdog \notin Matchers
  BY WatchdogPreserves, WatchdogAlone DEF WInv, IInv
<1>2. SameStatuses /\ UNCHANGED faults
  BY DEF WatchdogStep, SweepSelect, SweepRead, SweepWrite, redis, SameStatuses
<1>3. Closing(proc'[Watchdog])
  <2>1. CASE \E r \in Rides, s \in Sweeps : SweepSelect(r, s)
    BY <1>1, <2>1 DEF SweepSelect, ProcsOK, Idle, Closing
  <2>2. CASE SweepRead
    BY <1>1, <2>2 DEF SweepRead, Return, Idle, CancelOffers, ProcsOK, Closing, Process
  <2>3. CASE SweepWrite
    BY <1>1, <2>3 DEF SweepWrite, Return, Idle, ProcsOK, Closing
  <2>4. QED
    BY <2>1, <2>2, <2>3 DEF WatchdogStep
<1>4. QED
  BY <1>1, <1>2, <1>3, ElsewhereStep

(* So does the world: an offer expires once no match job has it in hand, and  *)
(* a crash is a fault.                                                       *)
LEMMA WorldCloses == ASSUME WInv, World PROVE WInv'
<1>1. IInv' /\ ProcsOK /\ QueueOK
  BY WorldPreserves DEF WInv, IInv, Store
<1>2. ASSUME UNCHANGED <<proc, faults>>, \A o \in OfferIds : offer'[o].status = "SENT" => offer[o].status = "SENT"
      PROVE  WInv'
  BY <1>1, <1>2 DEF WInv, Closing, Awaited, Waits
<1>3. ASSUME faults' = faults + 1, \A p \in Procs : Closing(proc'[p]) PROVE WInv'
  BY <1>1, <1>3 DEF WInv, QueueOK, Closing
<1>4. ASSUME NEW p \in Procs, NEW pc, pc \notin {"t_get", "t_set"}, Goto(p, pc)
      PROVE  \A x \in Procs : Closing(proc'[x])
  <2>1. Alone(p) /\ proc'[p].pc = pc
    BY <1>1, <1>4, GotoAlone, GotoAt
  <2>2. QED
    BY <1>4, <2>1 DEF Alone, Closing, WInv
<1>5. ASSUME NEW o \in OfferIds, OfferExpires(o) PROVE WInv'
  BY <1>2, <1>5 DEF OfferExpires, SetOffer, WInv, IInv, Store, OffersOK
<1>6. ASSUME NEW m \in Matchers, JobThrows(m) PROVE WInv'
  BY <1>3, <1>4, <1>6 DEF JobThrows
<1>7. ASSUME NEW p \in Procs, JobCrash(p) \/ CallCrash(p) PROVE WInv'
  BY <1>3, <1>4, <1>7 DEF JobCrash, CallCrash, Goto
<1>8. ASSUME NEW r \in Rides, LockOutlived(r) PROVE WInv'
  BY <1>3, <1>8 DEF LockOutlived, WInv
<1>9. CASE \/ \E r \in Rides, d \in Drivers : MarkArriving(r, d)
           \/ \E r \in Rides : Retrigger(r) \/ LockExpires(r) \/ PointerExpires(r)
           \/ \E d \in Drivers : HoldExpires(d)
  BY <1>2, <1>9 DEF MarkArriving, Retrigger, LockExpires, PointerExpires, HoldExpires, redis
<1>10. QED
  BY <1>5, <1>6, <1>7, <1>8, <1>9 DEF World

(* So does a match job: it has the offer it publishes in hand until it finds  *)
(* it answered or its timer has closed it.                                   *)
LEMMA MatcherCloses == ASSUME WInv, NEW m \in Matchers, MatcherStep(m) PROVE WInv'
<1> DEFINE q == proc[m]
<1>i. IInv' /\ Alone(m) /\ ProcsOK /\ m \in Procs
  BY MatcherPreserves, MatcherAlone DEF WInv, IInv
<1>q. q \in Process /\ Ready(q, offer) /\ Closing(q) /\ proc \in [Procs -> Process]
  BY <1>i DEF WInv, ProcsOK
<1>o. offer \in [OfferIds -> [ride : Rides \cup {None}, driver : Drivers \cup {None},
                              status : OfferStatus, due : BOOLEAN]]
  BY DEF WInv, IInv, Store, OffersOK
<1>1. ASSUME UNCHANGED <<offer, faults>>, proc'[m].pc \notin {"t_get", "t_set"},
             q.pc \notin {"m_attach", "m_payload", "m_wait", "t_get", "t_set"}
      PROVE  WInv'
  BY <1>i, <1>1, ElsewhereStep DEF SameStatuses, Closing, Waits
<1>2. ASSUME NextCandidate(m) PROVE proc'[m].pc = "m_next"
  BY <1>q, <1>2 DEF NextCandidate, Process
<1>3. ASSUME NEW x, MatchDecide(m, x) PROVE proc'[m].pc \in {"m_next", "m_create"}
  BY <1>q, <1>2, <1>3 DEF MatchDecide, Transitioned, Process
<1>4. CASE \E r \in Rides, k \in 0 .. MaxRetries : MatchTake(m, r, k)
  <2>1. UNCHANGED <<offer, faults>> /\ q.pc = "idle" /\ proc'[m].pc \in {"idle", "m_lock"}
    BY <1>q, <1>4 DEF MatchTake, At, Idle, redis
  <2>2. QED
    BY <1>1, <2>1
<1>5. CASE MatchLock(m) \/ MatchFree(m) \/ MatchFailed(m) \/ MatchUnlock(m) \/ JobRescue(m)
  <2>1. UNCHANGED <<offer, faults>> /\ q.pc \in {"m_lock", "m_free", "m_failed", "m_unlock", "m_throw", "m_rescue"}
    BY <1>5 DEF MatchLock, MatchFree, MatchFailed, MatchUnlock, JobRescue, At, redis
  <2>2. NextCandidate(m) \/ Return(m) \/ \E pc \in {"m_stage", "m_unlock", "m_rescue"} : Goto(m, pc)
    BY <1>5 DEF MatchLock, MatchFree, MatchFailed, MatchUnlock, JobRescue
  <2>3. proc'[m].pc \notin {"t_get", "t_set"}
    BY <1>i, <1>q, <1>2, <2>2, GotoAt DEF Return, Idle
  <2>4. QED
    BY <1>1, <2>1, <2>3
<1>6. CASE MatchStage(m) \/ MatchNext(m)
  <2>1. UNCHANGED <<offer, faults>> /\ q.pc \in {"m_stage", "m_next"}
    BY <1>6 DEF MatchStage, MatchNext, At, redis
  <2>2. \/ \E pc \in {"m_failed", "m_unlock"} : Goto(m, pc)
        \/ \E left : proc' = [proc EXCEPT ![m].pc = "m_next", ![m].left = left]
        \/ proc' = [proc EXCEPT ![m].pc = "m_stage", ![m].stage = @ + 1]
        \/ \E d : proc' = [proc EXCEPT ![m].pc = "m_check", ![m].driver = d, ![m].left = @ \ {d}]
    BY <1>6 DEF MatchStage, MatchNext
  <2>3. ASSUME NEW left, proc' = [proc EXCEPT ![m].pc = "m_next", ![m].left = left]
        PROVE  proc'[m].pc = "m_next"
    BY <1>q, <2>3 DEF Process
  <2>4. ASSUME proc' = [proc EXCEPT ![m].pc = "m_stage", ![m].stage = @ + 1]
        PROVE  proc'[m].pc = "m_stage"
    BY <1>q, <2>4 DEF Process
  <2>5. ASSUME NEW d, proc' = [proc EXCEPT ![m].pc = "m_check", ![m].driver = d, ![m].left = @ \ {d}]
        PROVE  proc'[m].pc = "m_check"
    BY <1>q, <2>5 DEF Process
  <2>6. proc'[m].pc \in {"m_failed", "m_unlock", "m_next", "m_stage", "m_check"}
    BY <1>i, <2>2, <2>3, <2>4, <2>5, GotoAt
  <2>7. QED
    BY <1>1, <2>1, <2>6
<1>7. CASE MatchCheckKeys(m) \/ MatchCheckStale(m) \/ MatchHeal(m) \/ MatchHold(m)
  <2>1. UNCHANGED <<offer, faults>> /\ q.pc \in {"m_check", "m_stale", "m_heal", "m_create"}
    BY <1>7 DEF MatchCheckKeys, MatchCheckStale, MatchHeal, MatchHold, At, redis
  <2>2. \/ NextCandidate(m) \/ \E x : MatchDecide(m, x)
        \/ \E pc \in {"m_heal", "m_publish"} : Goto(m, pc)
        \/ \E b, d : proc' = [proc EXCEPT ![m].pc = "m_stale", ![m].seen = b, ![m].to = d]
    BY <1>7 DEF MatchCheckKeys, MatchCheckStale, MatchHeal, MatchHold
  <2>3. ASSUME NEW b, NEW d, proc' = [proc EXCEPT ![m].pc = "m_stale", ![m].seen = b, ![m].to = d]
        PROVE  proc'[m].pc = "m_stale"
    BY <1>q, <2>3 DEF Process
  <2>4. proc'[m].pc \in {"m_next", "m_create", "m_heal", "m_publish", "m_stale"}
    BY <1>i, <1>2, <1>3, <2>2, <2>3, GotoAt
  <2>5. QED
    BY <1>1, <2>1, <2>4
<1>8. CASE MatchPublish(m)
  <2>1. PICK o \in OfferIds :
          /\ offer' = [offer EXCEPT ![o] = [ride |-> q.ride, driver |-> q.driver,
                                            status |-> "SENT", due |-> FALSE]]
          /\ proc' = [proc EXCEPT ![m].pc = "m_attach", ![m].offer = o]
          /\ q.pc = "m_publish" /\ UNCHANGED faults
    BY <1>8 DEF MatchPublish, At
  <2>2. proc'[m].pc = "m_attach" /\ proc'[m].offer = o
    BY <1>q, <2>1 DEF Process
  <2>3. \A x \in OfferIds \ {o} : offer'[x] = offer[x]
    BY <1>o, <2>1
  <2>4. \A x \in OfferIds : KeepsOffer(m, x)
    BY <2>1, <2>2, <2>3 DEF KeepsOffer, Waits
  <2>5. QED
    BY <1>i, <2>1, <2>2, <2>4, AwaitStep DEF Closing
<1>9. CASE MatchAttachGet(m)
  <2>1. UNCHANGED <<offer, faults>> /\ q.pc = "m_attach"
    BY <1>9 DEF MatchAttachGet, At, redis
  <2>2. Goto(m, "m_wait") \/ \E s : proc' = [proc EXCEPT ![m].pc = "m_payload", ![m].seen = s]
    BY <1>9 DEF MatchAttachGet
  <2>3. proc'[m].pc \in {"m_wait", "m_payload"} /\ proc'[m].offer = q.offer
    BY <1>q, <2>2 DEF Goto, Process
  <2>4. \A x \in OfferIds : KeepsOffer(m, x)
    BY <2>1, <2>3 DEF KeepsOffer, Waits
  <2>5. QED
    BY <1>i, <2>1, <2>3, <2>4, AwaitStep DEF Closing
<1>10. CASE MatchAttachSet(m)
  <2>1. q.pc = "m_payload" /\ q.offer \in OfferIds /\ UNCHANGED faults
    BY <1>q, <1>10 DEF MatchAttachSet, At, Ready, WithOffer
  <2>2. proc'[m].pc = "m_wait" /\ proc'[m].offer = q.offer
    BY <1>q, <1>10 DEF MatchAttachSet, Goto, Process
  <2>3. \A x \in OfferIds \ {q.offer} : offer'[x] = offer[x]
    BY <1>o, <1>10 DEF MatchAttachSet, SetOffer
  <2>4. \A x \in OfferIds : KeepsOffer(m, x)
    BY <2>1, <2>2, <2>3 DEF KeepsOffer, Waits
  <2>5. QED
    BY <1>i, <2>1, <2>2, <2>4, AwaitStep DEF Closing
<1>11. CASE MatchPoll(m)
  <2>1. q.pc = "m_wait" /\ q.offer \in OfferIds /\ UNCHANGED <<offer, faults>>
    BY <1>q, <1>11 DEF MatchPoll, At, Ready, WithOffer, redis
  <2>2. offer[q.offer].status # "SENT" /\ (Goto(m, "m_unlock") \/ NextCandidate(m))
    BY <1>11, <2>1 DEF MatchPoll, Exists
  <2>3. proc'[m].pc \in {"m_unlock", "m_next"}
    BY <1>i, <1>2, <2>2, GotoAt
  <2>4. \A x \in OfferIds : KeepsOffer(m, x)
    BY <2>1, <2>2 DEF KeepsOffer, Waits
  <2>5. QED
    BY <1>i, <2>1, <2>3, <2>4, AwaitStep DEF Closing
<1>12. CASE MatchTimeout(m)
  <2>1. q.pc = "m_wait" /\ UNCHANGED faults /\ SameStatuses
    BY <1>12, DueSame DEF MatchTimeout, At, WInv
  <2>2. proc'[m].pc = "t_get" /\ proc'[m].seen = "SENT" /\ proc'[m].to = "EXPIRED" /\ proc'[m].offer = q.offer
    BY <1>q, <1>12 DEF MatchTimeout, Process
  <2>3. \A x \in OfferIds : KeepsOffer(m, x)
    BY <2>1, <2>2 DEF KeepsOffer, Waits, SameStatuses
  <2>4. QED
    BY <1>i, <2>1, <2>2, <2>3, AwaitStep DEF Closing
<1>13. QED
  BY <1>4, <1>5, <1>6, <1>7, <1>8, <1>9, <1>10, <1>11, <1>12 DEF MatcherStep

(* Every step keeps it.                                                      *)
LEMMA AwaitPreserved == WInv /\ [Next]_vars => WInv'
<1> SUFFICES ASSUME WInv, [Next]_vars PROVE WInv'
  OBVIOUS
<1>1. CASE UNCHANGED vars
  <2>1. IInv' /\ UNCHANGED <<offer, proc, faults>>
    BY <1>1, Preserved DEF WInv, vars, redis
  <2>2. QED
    BY <2>1 DEF WInv, Closing, Awaited, Waits
<1>2. CASE Next
  BY <1>2, SharedCloses, HandlerCloses, ClientCloses, MatcherCloses, WatchdogCloses, WorldCloses DEF Next
<1>3. QED
  BY <1>1, <1>2

(* No offer is left SENT once every call and job has returned, in every      *)
(* reachable state of any size without a crash: although attachPayload may   *)
(* write SENT back over a cancellation, its match job still waits for the    *)
(* offer and closes it.                                                      *)
THEOREM OffersAreClosed == Spec => []NoForgottenOffer
<1>1. Init => WInv
  BY Initially DEF WInv, Init, Idle, Closing
<1>2. WInv => NoForgottenOffer
  BY DEF WInv, NoForgottenOffer, Quiet, At, Awaited, Waits
<1>3. QED
  BY <1>1, <1>2, AwaitPreserved, PTL DEF Spec

----------------------------------------------------------------------------
(* A match job that has an offer in hand has one of the ride it works on.    *)
InHand == {"m_attach", "m_payload", "m_wait", "t_get", "t_set"}
OwnOffer(m) == proc[m].pc \in InHand => offer[proc[m].offer].ride = proc[m].ride

HInv == FInv /\ LInv /\ WInv /\ (faults = 0 => \A m \in Matchers : OwnOffer(m))

(* A client's call fails nothing, and writes no offer before its first step. *)
LEMMA ClientKeeps == ASSUME NEW h \in Handlers, ClientCall(h) PROVE UNCHANGED <<offer, faults>>
BY DEF ClientCall, RequestRide, Cancel, Accept, StartRide, CompleteRide, ReleaseRide,
   Decline, DeclineByRide, PendingOffer, Call, redis

LEMMA WatchdogKeeps == ASSUME WatchdogStep PROVE UNCHANGED <<offer, faults>>
BY DEF WatchdogStep, SweepSelect, SweepRead, SweepWrite, redis

(* A handler may only age the offer its ride points to in this way.          *)
LEMMA HandlerKeeps ==
  ASSUME NEW h \in Handlers, HandlerStep(h)
  PROVE  UNCHANGED faults /\ (UNCHANGED offer \/ PastExpiry(pointer[proc[h].ride]))
<1>1. CASE AcceptOffer(h)
  BY <1>1 DEF AcceptOffer
<1>2. CASE PendingReadOffer(h)
  BY <1>2 DEF PendingReadOffer
<1>3. CASE AcceptReadActive(h)
  BY <1>3 DEF AcceptReadActive, redis
<1>4. CASE AcceptSupersede(h) \/ DeclineReadOffer(h)
  BY <1>4 DEF AcceptSupersede, DeclineReadOffer, redis
<1>5. CASE CancelWrite(h)
  BY <1>5 DEF CancelWrite, redis
<1>6. CASE \/ RequestEnqueue(h) \/ AcceptCheckRejected(h) \/ AcceptCheckStale(h) \/ AcceptClearStale(h)
           \/ AcceptFlip(h) \/ AcceptSetActive(h) \/ AcceptFree(h)
           \/ DeclineFree(h) \/ DeclineRecord(h) \/ DeclineRematch(h)
           \/ StartWrite(h) \/ CompleteDelActive(h) \/ CompleteWrite(h)
           \/ ReleaseDelActive(h) \/ ReleaseWrite(h) \/ ReleaseUnlink(h) \/ ReleaseRematch(h)
           \/ PendingFree(h)
  BY <1>6 DEF RequestEnqueue, AcceptCheckRejected, AcceptCheckStale, AcceptClearStale, AcceptFlip,
     AcceptSetActive, AcceptFree, DeclineFree, DeclineRecord, DeclineRematch, StartWrite,
     CompleteDelActive, CompleteWrite, ReleaseDelActive, ReleaseWrite, ReleaseUnlink, ReleaseRematch,
     PendingFree, redis
<1>7. QED
  BY <1>1, <1>2, <1>3, <1>4, <1>5, <1>6 DEF HandlerStep

(* A match job publishes an offer, or writes the status of the one in hand.  *)
LEMMA MatcherKeeps ==
  ASSUME NEW m \in Matchers, MatcherStep(m)
  PROVE  /\ UNCHANGED faults
         /\ \/ UNCHANGED offer \/ MatchPublish(m)
            \/ PastExpiry(proc[m].offer) \/ SetOffer(proc[m].offer, proc[m].seen)
<1>1. CASE \E r \in Rides, k \in 0 .. MaxRetries : MatchTake(m, r, k)
  BY <1>1 DEF MatchTake, redis
<1>2. CASE MatchLock(m) \/ MatchFree(m) \/ MatchFailed(m) \/ MatchUnlock(m) \/ JobRescue(m)
  BY <1>2 DEF MatchLock, MatchFree, MatchFailed, MatchUnlock, JobRescue, redis
<1>3. CASE MatchStage(m) \/ MatchNext(m)
  BY <1>3 DEF MatchStage, MatchNext, redis
<1>4. CASE MatchCheckKeys(m) \/ MatchCheckStale(m) \/ MatchHeal(m) \/ MatchHold(m)
  BY <1>4 DEF MatchCheckKeys, MatchCheckStale, MatchHeal, MatchHold, redis
<1>5. CASE MatchPublish(m)
  BY <1>5 DEF MatchPublish
<1>6. CASE MatchAttachGet(m) \/ MatchPoll(m)
  BY <1>6 DEF MatchAttachGet, MatchPoll, redis
<1>7. CASE MatchAttachSet(m) \/ MatchTimeout(m)
  BY <1>7 DEF MatchAttachSet, MatchTimeout
<1>8. QED
  BY <1>1, <1>2, <1>3, <1>4, <1>5, <1>6, <1>7 DEF MatcherStep

(* Every step leaves an offer with its ride, for an offer is written in full  *)
(* only under an unused id.                                                  *)
LEMMA OffersAreKept == ASSUME FInv, Next PROVE OffersKept
<1>o. offer \in [OfferIds -> [ride : Rides \cup {None}, driver : Drivers \cup {None},
                              status : OfferStatus, due : BOOLEAN]]
  BY DEF FInv, IInv, Store, OffersOK
<1>1. CASE UNCHANGED offer
  BY <1>1 DEF OffersKept
<1>2. ASSUME NEW o, NEW s, SetOffer(o, s) PROVE OffersKept
  BY <1>o, <1>2 DEF SetOffer, OffersKept
<1>3. ASSUME NEW o, PastExpiry(o) PROVE OffersKept
  BY <1>o, <1>3 DEF PastExpiry, OffersKept
<1>4. ASSUME NEW p \in Procs, Shared(p) PROVE OffersKept
  BY <1>1, <1>2, <1>4 DEF Shared, TransitionGet, TransitionSet, CancelOffersRead, CancelOffersFree,
     CancelOffersUnlink, CancelDelActive, redis
<1>5. ASSUME NEW h \in Handlers, ClientCall(h) PROVE OffersKept
  BY <1>1, <1>5, ClientKeeps
<1>6. ASSUME NEW h \in Handlers, HandlerStep(h) PROVE OffersKept
  BY <1>1, <1>3, <1>6, HandlerKeeps
<1>7. ASSUME NEW m \in Matchers, MatcherStep(m) PROVE OffersKept
  <2>1. CASE MatchPublish(m)
    <3>1. PICK o \in OfferIds : /\ offer[o].status = "NONE"
                                /\ \E new : offer' = [offer EXCEPT ![o] = new]
      BY <2>1 DEF MatchPublish
    <3>2. offer[o].ride = None
      BY <3>1 DEF FInv, Blank
    <3>3. offer[o].ride \notin Rides /\ \A x \in OfferIds \ {o} : offer'[x] = offer[x]
      BY <1>o, <3>1, <3>2, DispatchAssumption
    <3>4. QED
      BY <3>3 DEF OffersKept
  <2>2. QED
    BY <1>1, <1>2, <1>3, <1>7, <2>1, MatcherKeeps
<1>8. CASE WatchdogStep
  BY <1>1, <1>8, WatchdogKeeps
<1>9. CASE World
  <2>1. UNCHANGED offer \/ \E o \in OfferIds : SetOffer(o, "GONE")
    BY <1>9 DEF World, MarkArriving, Retrigger, LockExpires, LockOutlived, OfferExpires, PointerExpires,
       HoldExpires, JobThrows, JobCrash, CallCrash, redis
  <2>2. QED
    BY <1>1, <1>2, <2>1
<1>10. QED
  BY <1>4, <1>5, <1>6, <1>7, <1>8, <1>9 DEF Next

(* A match job takes an offer in hand by publishing it for its ride, and     *)
(* keeps the one it has.                                                     *)
TakesInHand(m) ==
    proc'[m].pc \in InHand =>
        \/ proc[m].pc \in InHand /\ proc'[m].offer = proc[m].offer /\ proc'[m].ride = proc[m].ride
        \/ offer'[proc'[m].offer].ride = proc'[m].ride

LEMMA MatcherTakes ==
  ASSUME IInv, NEW m \in Matchers, MatcherStep(m) PROVE TakesInHand(m)
<1> DEFINE q == proc[m]
<1>i. ProcsOK /\ m \in Procs
  BY DEF IInv
<1>q. q \in Process /\ proc \in [Procs -> Process]
  BY <1>i DEF ProcsOK
<1>o. offer \in [OfferIds -> [ride : Rides \cup {None}, driver : Drivers \cup {None},
                              status : OfferStatus, due : BOOLEAN]]
  BY DEF IInv, Store, OffersOK
<1>1. CASE proc'[m].pc \notin InHand
  BY <1>1 DEF TakesInHand
<1>2. ASSUME NextCandidate(m) PROVE proc'[m].pc = "m_next"
  BY <1>q, <1>2 DEF NextCandidate, Process
<1>3. ASSUME NEW x, MatchDecide(m, x) PROVE proc'[m].pc \in {"m_next", "m_create"}
  BY <1>q, <1>2, <1>3 DEF MatchDecide, Transitioned, Process
<1>4. CASE \E r \in Rides, k \in 0 .. MaxRetries : MatchTake(m, r, k)
  <2>1. proc'[m].pc \in {"idle", "m_lock"}
    BY <1>q, <1>4 DEF MatchTake, At, Idle
  <2>2. QED
    BY <1>1, <2>1 DEF InHand
<1>5. CASE MatchLock(m) \/ MatchFree(m) \/ MatchFailed(m) \/ MatchUnlock(m) \/ JobRescue(m) \/ MatchPoll(m)
  <2>1. NextCandidate(m) \/ Return(m) \/ \E pc \in {"m_stage", "m_unlock", "m_rescue"} : Goto(m, pc)
    BY <1>5 DEF MatchLock, MatchFree, MatchFailed, MatchUnlock, JobRescue, MatchPoll
  <2>2. proc'[m].pc \in {"m_next", "idle", "m_stage", "m_unlock", "m_rescue"}
    BY <1>i, <1>q, <1>2, <2>1, GotoAt DEF Return, Idle
  <2>3. QED
    BY <1>1, <2>2 DEF InHand
<1>6. CASE MatchStage(m) \/ MatchNext(m)
  <2>1. \/ \E pc \in {"m_failed", "m_unlock"} : Goto(m, pc)
        \/ \E left : proc' = [proc EXCEPT ![m].pc = "m_next", ![m].left = left]
        \/ proc' = [proc EXCEPT ![m].pc = "m_stage", ![m].stage = @ + 1]
        \/ \E d : proc' = [proc EXCEPT ![m].pc = "m_check", ![m].driver = d, ![m].left = @ \ {d}]
    BY <1>6 DEF MatchStage, MatchNext
  <2>2. ASSUME NEW left, proc' = [proc EXCEPT ![m].pc = "m_next", ![m].left = left]
        PROVE  proc'[m].pc = "m_next"
    BY <1>q, <2>2 DEF Process
  <2>3. ASSUME proc' = [proc EXCEPT ![m].pc = "m_stage", ![m].stage = @ + 1]
        PROVE  proc'[m].pc = "m_stage"
    BY <1>q, <2>3 DEF Process
  <2>4. ASSUME NEW d, proc' = [proc EXCEPT ![m].pc = "m_check", ![m].driver = d, ![m].left = @ \ {d}]
        PROVE  proc'[m].pc = "m_check"
    BY <1>q, <2>4 DEF Process
  <2>5. proc'[m].pc \in {"m_failed", "m_unlock", "m_next", "m_stage", "m_check"}
    BY <1>i, <2>1, <2>2, <2>3, <2>4, GotoAt
  <2>6. QED
    BY <1>1, <2>5 DEF InHand
<1>7. CASE MatchCheckKeys(m) \/ MatchCheckStale(m) \/ MatchHeal(m) \/ MatchHold(m)
  <2>1. \/ NextCandidate(m) \/ \E x : MatchDecide(m, x)
        \/ \E pc \in {"m_heal", "m_publish"} : Goto(m, pc)
        \/ \E b, d : proc' = [proc EXCEPT ![m].pc = "m_stale", ![m].seen = b, ![m].to = d]
    BY <1>7 DEF MatchCheckKeys, MatchCheckStale, MatchHeal, MatchHold
  <2>2. ASSUME NEW b, NEW d, proc' = [proc EXCEPT ![m].pc = "m_stale", ![m].seen = b, ![m].to = d]
        PROVE  proc'[m].pc = "m_stale"
    BY <1>q, <2>2 DEF Process
  <2>3. proc'[m].pc \in {"m_next", "m_create", "m_heal", "m_publish", "m_stale"}
    BY <1>i, <1>2, <1>3, <2>1, <2>2, GotoAt
  <2>4. QED
    BY <1>1, <2>3 DEF InHand
<1>8. CASE MatchPublish(m)
  <2>1. PICK o \in OfferIds :
          /\ offer' = [offer EXCEPT ![o] = [ride |-> q.ride, driver |-> q.driver,
                                            status |-> "SENT", due |-> FALSE]]
          /\ proc' = [proc EXCEPT ![m].pc = "m_attach", ![m].offer = o]
    BY <1>8 DEF MatchPublish
  <2>2. proc'[m].offer = o /\ proc'[m].ride = q.ride
    BY <1>q, <2>1 DEF Process
  <2>3. offer'[o].ride = q.ride
    BY <1>o, <2>1
  <2>4. QED
    BY <2>2, <2>3 DEF TakesInHand
<1>9. CASE MatchAttachGet(m) \/ MatchAttachSet(m) \/ MatchTimeout(m)
  <2>1. q.pc \in {"m_attach", "m_payload", "m_wait"}
    BY <1>9 DEF MatchAttachGet, MatchAttachSet, MatchTimeout, At
  <2>2. proc'[m].offer = q.offer /\ proc'[m].ride = q.ride
    BY <1>q, <1>9 DEF MatchAttachGet, MatchAttachSet, MatchTimeout, Goto, Process
  <2>3. QED
    BY <2>1, <2>2 DEF TakesInHand, InHand
<1>10. QED
  BY <1>4, <1>5, <1>6, <1>7, <1>8, <1>9 DEF MatcherStep

(* So does its timer.                                                        *)
LEMMA SharedTakes ==
  ASSUME LInv, faults = 0, NEW m \in Matchers, Shared(m) PROVE TakesInHand(m)
<1> DEFINE q == proc[m]
<1>q. InCharge(q) /\ q \in Process /\ proc \in [Procs -> Process] /\ m \in Procs
  BY DEF LInv, Locked, IInv, ProcsOK
<1>1. q.pc \in {"t_get", "t_set"}
  BY <1>q DEF Shared, TransitionGet, TransitionSet, CancelOffersRead, CancelOffersFree,
     CancelOffersUnlink, CancelDelActive, At, InCharge, Working
<1>2. Goto(m, "t_set") \/ Transitioned(m, "m_free")
  BY <1>q, <1>1 DEF InCharge, Shared, TransitionGet, TransitionSet, CancelOffersRead, CancelOffersFree,
     CancelOffersUnlink, CancelDelActive, At
<1>3. CASE Goto(m, "t_set")
  <2>1. proc'[m].offer = q.offer /\ proc'[m].ride = q.ride
    BY <1>q, <1>3 DEF Goto, Process
  <2>2. QED
    BY <1>1, <2>1 DEF TakesInHand, InHand
<1>4. CASE Transitioned(m, "m_free")
  <2>1. proc'[m].pc = "m_free"
    BY <1>q, <1>4 DEF Transitioned, Process
  <2>2. QED
    BY <2>1 DEF TakesInHand, InHand
<1>5. QED
  BY <1>2, <1>3, <1>4

(* Hence a match job that had an offer of its ride in hand, or took one, has  *)
(* one of its ride.                                                          *)
LEMMA OwnStays ==
  ASSUME IInv, OffersKept, NEW m \in Matchers, OwnOffer(m), TakesInHand(m)
  PROVE  OwnOffer(m)'
<1>1. proc[m].pc \in InHand => proc[m].ride \in Rides /\ proc[m].offer \in OfferIds
  BY DEF IInv, ProcsOK, Ready, InHand, WithOffer, Procs
<1>2. QED
  BY <1>1 DEF OwnOffer, TakesInHand, OffersKept

(* Every step keeps it.                                                      *)
LEMMA HandPreserved == HInv /\ [Next]_vars => HInv'
<1> SUFFICES ASSUME HInv, [Next]_vars PROVE HInv'
  OBVIOUS
<1>1. FInv' /\ LInv' /\ WInv' /\ IInv /\ ProcsOK
  BY TracePreserved, LockPreserved, AwaitPreserved DEF HInv, LInv, IInv
<1>2. ASSUME faults' = 0, NEW m \in Matchers PROVE OwnOffer(m)'
  <2>f. faults \in Nat /\ faults' \in Nat /\ m \in Procs
    BY <1>1, DispatchAssumption DEF LInv, IInv, Store, QueueOK
  <2>s. ASSUME proc'[m] = proc[m], faults = 0, OffersKept PROVE OwnOffer(m)'
    <3>1. TakesInHand(m)
      BY <2>s DEF TakesInHand
    <3>2. QED
      BY <1>1, <2>s, <3>1, OwnStays DEF HInv
  <2>2. CASE UNCHANGED vars
    BY <1>2, <2>2 DEF vars, redis, HInv, OwnOffer
  <2>3. CASE \E p \in Procs : Shared(p)
    <3>1. PICK p \in Procs : Shared(p)
      BY <2>3
    <3>2. faults = 0 /\ Alone(p) /\ OffersKept
      BY <1>1, <1>2, <2>3, <3>1, SharedAlone, OffersAreKept DEF HInv, Next, Shared, TransitionGet, TransitionSet, CancelOffersRead,
         CancelOffersFree, CancelOffersUnlink, CancelDelActive, redis
    <3>3. CASE p = m
      BY <1>1, <3>1, <3>2, <3>3, SharedTakes, OwnStays DEF HInv
    <3>4. CASE p # m
      BY <2>f, <2>s, <3>2, <3>4 DEF Alone
    <3>5. QED
      BY <3>3, <3>4
  <2>4. CASE \E h \in Handlers : ClientCall(h) \/ HandlerStep(h)
    <3>1. PICK h \in Handlers : ClientCall(h) \/ HandlerStep(h)
      BY <2>4
    <3>2. h # m /\ Alone(h) /\ UNCHANGED faults /\ OffersKept
      BY <1>1, <2>4, <3>1, ClientAlone, HandlerAlone, ClientKeeps, HandlerKeeps, OffersAreKept, DispatchAssumption DEF HInv, Next
    <3>3. QED
      BY <1>2, <2>f, <2>s, <3>2 DEF Alone
  <2>5. CASE \E n \in Matchers : MatcherStep(n)
    <3>1. PICK n \in Matchers : MatcherStep(n)
      BY <2>5
    <3>2. Alone(n) /\ UNCHANGED faults /\ OffersKept
      BY <1>1, <2>5, <3>1, MatcherAlone, MatcherKeeps, OffersAreKept DEF HInv, Next
    <3>3. CASE n = m
      BY <1>1, <1>2, <3>1, <3>2, <3>3, MatcherTakes, OwnStays DEF HInv
    <3>4. CASE n # m
      BY <1>2, <2>f, <2>s, <3>2, <3>4 DEF Alone
    <3>5. QED
      BY <3>3, <3>4
  <2>6. CASE WatchdogStep
    <3>1. Alone(Watchdog) /\ Watchdog # m /\ UNCHANGED faults /\ OffersKept
      BY <1>1, <2>6, WatchdogAlone, WatchdogKeeps, OffersAreKept, DispatchAssumption DEF HInv, Next
    <3>2. QED
      BY <1>2, <2>f, <2>s, <3>1 DEF Alone
  <2>7. CASE World
    <3>1. UNCHANGED <<proc, faults>> \/ faults' = faults + 1
      BY <2>7 DEF World, MarkArriving, Retrigger, LockExpires, LockOutlived, OfferExpires, PointerExpires,
         HoldExpires, JobThrows, JobCrash, CallCrash, redis
    <3>2. UNCHANGED proc /\ faults = 0 /\ OffersKept
      BY <1>2, <2>7, <2>f, <3>1, OffersAreKept DEF HInv, Next
    <3>3. QED
      BY <2>s, <3>2
  <2>8. QED
    BY <2>2, <2>3, <2>4, <2>5, <2>6, <2>7 DEF Next
<1>3. QED
  BY <1>1, <1>2 DEF HInv

(* When the matcher gives a ride up and cancels it, no offer of that ride is *)
(* SENT, for any numbers of drivers, matchers, offers and calls: such an     *)
(* offer would be in the hands of another job at work on the same ride.      *)
THEOREM GivenUpUnoffered == Spec => NotGivenUpWhileOffered
<1>1. Init => HInv
  BY Initially DEF HInv, FInv, LInv, WInv, Init, Pointed, Blank, Entitled, Locked, InCharge, Working,
     Closing, Awaited, OwnOffer, InHand, Idle
<1>2. HInv => \A r \in Rides, m \in Matchers :
                faults = 0 /\ At(m, "m_failed") /\ proc[m].ride = r =>
                  \A o \in OfferIds : offer[o].ride = r => offer[o].status # "SENT"
  <2> SUFFICES ASSUME HInv, NEW r \in Rides, NEW m \in Matchers, faults = 0,
                      At(m, "m_failed"), proc[m].ride = r,
                      NEW o \in OfferIds, offer[o].ride = r, offer[o].status = "SENT"
               PROVE  FALSE
    OBVIOUS
  <2>1. PICK n \in Matchers : Waits(proc[n], o)
    BY DEF HInv, WInv, Awaited
  <2>2. proc[n].pc \in InHand /\ proc[n].offer = o
    BY <2>1 DEF Waits, InHand
  <2>3. proc[n].ride = r
    BY <2>2 DEF HInv, OwnOffer
  <2>4. lock[r] = m /\ lock[r] = n
    BY <2>2, <2>3 DEF HInv, LInv, Locked, At, Working, InHand
  <2>5. QED
    BY <2>2, <2>4 DEF At, InHand
<1>3. HInv =>
        [\A r \in Rides, m \in Matchers :
           /\ faults = 0 /\ At(m, "m_failed") /\ proc[m].ride = r
           /\ ride'[r].status # ride[r].status
           => \A o \in OfferIds : offer[o].ride = r => offer[o].status # "SENT"]_vars
  BY <1>2
<1>4. QED
  BY <1>1, <1>3, HandPreserved, PTL DEF Spec, NotGivenUpWhileOffered
=============================================================================
