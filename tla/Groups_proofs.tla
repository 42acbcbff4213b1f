---------------------------- MODULE Groups_proofs ----------------------------
(***************************************************************************)
(* Proofs about GroupPayments and Groups, for any set of users, quotes and *)
(* handlers and any bounds: the shares of a quote add up to its fare, an   *)
(* active quote covers the members, a booked ride is paid, no share is     *)
(* charged twice, no credits appear or vanish and no money is forgotten.   *)
(* GroupsInv, at the end, is the inductive invariant; each part of it has  *)
(* a section.                                                              *)
(***************************************************************************)
EXTENDS Groups, Sums, TLAPS

-----------------------------------------------------------------------------
(* The split of the fare. *)

\* Weight adds up a function over its domain.
LEMMA WeightIsSum == ASSUME NEW f PROVE Weight(f) = Sum(f, DOMAIN f)
  BY DEF Weight, Sum

\* The floor and the remainder of a division.
LEMMA Division ==
  ASSUME NEW a \in Nat, NEW w \in Nat \ {0}
  PROVE  /\ a \div w \in Nat /\ a % w \in Nat
         /\ w * (a \div w) <= a
         /\ a <= w * (a \div w) + w
  OBVIOUS

\* Products keep the order.
LEMMA Cancel ==
  ASSUME NEW w \in Nat \ {0}, NEW a \in Int, NEW b \in Int, w * a <= w * b
  PROVE  a <= b
<1>1. ASSUME a > b PROVE FALSE
  <2>1. a - b >= 1 /\ a - b \in Nat
    BY <1>1
  <2>2. w * (a - b) >= 1
    BY <2>1
  <2>3. w * (a - b) = w * a - w * b
    OBVIOUS
  <2> QED
    BY <2>2, <2>3
<1> QED
  BY <1>1

\* The floors fall short of the fare by no more cents than there are
\* participants.
LEMMA CentsLeft ==
  ASSUME NEW P, IsFiniteSet(P), P # {}, NEW f \in [P -> Nat \ {0}], NEW base,
         base = [u \in P |-> (Total * f[u]) \div Sum(f, P)]
  PROVE  /\ base \in [P -> Nat]
         /\ Total - Sum(base, P) \in 0..Cardinality(P)
<1> USE PaymentsAssumption
<1> DEFINE W == Sum(f, P)
           B == Sum(base, P)
           part == [u \in P |-> Total * f[u]]
           low == [u \in P |-> W * base[u]]
           one == [u \in P |-> 1]
           ws == [u \in P |-> W * one[u]]
           high == [u \in P |-> low[u] + ws[u]]
<1>1. W \in Nat \ {0}
  <2>1. PICK u \in P : TRUE
    OBVIOUS
  <2>2. f[u] <= W /\ \A v \in P : f[v] \in Nat
    BY SumBounds
  <2>3. W \in Nat
    BY SumType
  <2> HIDE DEF W
  <2> QED
    BY <2>2, <2>3
<1> HIDE DEF W
<1>2. \A u \in P : /\ Total * f[u] \in Nat
                   /\ base[u] = (Total * f[u]) \div W
                   /\ base[u] \in Nat
                   /\ W * base[u] <= Total * f[u]
                   /\ Total * f[u] <= W * base[u] + W
  <2> SUFFICES ASSUME NEW u \in P PROVE
                   /\ Total * f[u] \in Nat
                   /\ base[u] = (Total * f[u]) \div W
                   /\ base[u] \in Nat
                   /\ W * base[u] <= Total * f[u]
                   /\ Total * f[u] <= W * base[u] + W
    OBVIOUS
  <2>1. f[u] \in Nat
    OBVIOUS
  <2>2. Total * f[u] \in Nat
    BY <2>1
  <2>3. base[u] = (Total * f[u]) \div W
    BY DEF W
  <2>4. \A a \in Nat : a \div W \in Nat /\ W * (a \div W) <= a /\ a <= W * (a \div W) + W
    BY <1>1, Division
  <2> QED
    BY <2>2, <2>3, <2>4
<1>3. base \in [P -> Nat]
  BY <1>2
<1>4. B \in Nat
  BY <1>2, SumType
<1>5. Sum(part, P) = Total * W
  <2>1. Total \in Int /\ \A u \in P : f[u] \in Int /\ part[u] = Total * f[u]
    OBVIOUS
  <2> HIDE DEF part
  <2> QED
    BY <2>1, SumScale DEF W
<1>6. Sum(low, P) = W * B
  <2>1. W \in Int /\ \A u \in P : base[u] \in Int /\ low[u] = W * base[u]
    BY <1>1, <1>2
  <2> HIDE DEF low
  <2> QED
    BY <2>1, SumScale
<1>7. Sum(ws, P) = W * Cardinality(P)
  <2>1. \A u \in P : one[u] = IF u \in P THEN 1 ELSE 0
    OBVIOUS
  <2>2. W \in Int /\ \A u \in P : one[u] \in Int /\ ws[u] = W * one[u]
    BY <1>1
  <2> HIDE DEF one, ws
  <2>3. Sum(one, P) = Cardinality(P)
    BY <2>1, SumCount
  <2> QED
    BY <2>2, <2>3, SumScale
<1>8. Sum(high, P) = W * B + W * Cardinality(P)
  <2>1. \A u \in P : low[u] \in Int /\ ws[u] \in Int /\ high[u] = low[u] + ws[u]
    BY <1>1, <1>2
  <2> HIDE DEF low, ws, high
  <2> QED
    BY <1>6, <1>7, <2>1, SumPlus
<1>9. W * B <= Total * W
  <2>1. \A u \in P : low[u] \in Int /\ part[u] \in Int /\ low[u] <= part[u]
    BY <1>1, <1>2
  <2> HIDE DEF low, part
  <2> QED
    BY <1>5, <1>6, <2>1, SumMonotone
<1>10. Total * W <= W * B + W * Cardinality(P)
  <2>1. \A u \in P : part[u] \in Int /\ high[u] \in Int /\ part[u] <= high[u]
    BY <1>1, <1>2
  <2> HIDE DEF high, part
  <2> QED
    BY <1>5, <1>8, <2>1, SumMonotone
<1>11. B <= Total /\ Total <= B + Cardinality(P)
  <2>1. Cardinality(P) \in Nat
    BY FS_CardinalityType
  <2> HIDE DEF B
  <2>2. W * B <= W * Total
    BY <1>1, <1>4, <1>9
  <2>3. W * Total <= W * (B + Cardinality(P))
    BY <1>1, <1>4, <1>10, <2>1
  <2> QED
    BY <1>1, <1>4, <2>1, <2>2, <2>3, Cancel
<1> QED
  <2>1. Cardinality(P) \in Nat
    BY FS_CardinalityType
  <2> HIDE DEF B
  <2>2. Total - B \in 0..Cardinality(P)
    BY <1>4, <1>11, <2>1
  <2> QED
    BY <1>3, <2>2 DEF B

\* One more for each of some elements.
LEMMA OneMoreEach ==
  ASSUME NEW P, IsFiniteSet(P), NEW base \in [P -> Nat], NEW Lucky \in SUBSET P, NEW share,
         \A u \in P : share[u] = IF u \in Lucky THEN base[u] + 1 ELSE base[u]
  PROVE  Sum(share, P) = Sum(base, P) + Cardinality(Lucky)
<1> DEFINE lucky == [u \in P |-> IF u \in Lucky THEN 1 ELSE 0]
<1>1. \A u \in P : lucky[u] = IF u \in Lucky THEN 1 ELSE 0
  OBVIOUS
<1>2. \A u \in P : base[u] \in Int /\ lucky[u] \in Int /\ share[u] = base[u] + lucky[u]
  OBVIOUS
<1> HIDE DEF lucky
<1>3. Sum(lucky, P) = Cardinality(Lucky)
  BY <1>1, SumCount
<1>4. Sum(share, P) = Sum(base, P) + Sum(lucky, P)
  BY <1>2, SumPlus
<1> QED
  BY <1>3, <1>4

\* What the largest remainders make of the fare: the shares are whole cents
\* and add up to it.
LEMMA LargestRemainderSplits ==
  ASSUME NEW P \in SUBSET Users, P # {}, NEW f \in [P -> Nat \ {0}]
  PROVE  /\ LargestRemainder(f) \in [P -> Nat]
         /\ Sum(LargestRemainder(f), P) = Total
<1> DEFINE W == Sum(f, P)
           base == [u \in P |-> (Total * f[u]) \div W]
           rem == [u \in P |-> (Total * f[u]) % W]
           left == Total - Sum(base, P)
           Ahead(u) == {v \in P : rem[v] > rem[u] \/ (rem[v] = rem[u] /\ v < u)}
           A == [u \in P |-> Ahead(u)]
           Lucky == {u \in P : Cardinality(A[u]) < left}
           share == [u \in P |-> IF Cardinality(Ahead(u)) < left THEN base[u] + 1 ELSE base[u]]
<1>1. IsFiniteSet(P) /\ P \subseteq Nat /\ Total \in Nat
  BY FS_Subset, PaymentsAssumption
<1>2. LargestRemainder(f) = share
  <2>1. DOMAIN f = P /\ DOMAIN base = P
    OBVIOUS
  <2>2. Weight(f) = W /\ Weight(base) = Sum(base, P)
    BY <2>1, WeightIsSum
  <2> QED
    BY <2>1, <2>2 DEF LargestRemainder
<1>3. base \in [P -> Nat] /\ left \in 0..Cardinality(P)
  <2> HIDE DEF W
  <2>1. base = [u \in P |-> (Total * f[u]) \div Sum(f, P)]
    BY DEF W
  <2> HIDE DEF base
  <2> QED
    BY <1>1, <2>1, CentsLeft
<1>4. \A u \in P : rem[u] \in Int
  <2>1. W \in Nat
    BY <1>1, SumType
  <2> HIDE DEF W
  <2>2. PICK u \in P : TRUE
    OBVIOUS
  <2>3. f[u] <= W
    BY <1>1, SumBounds DEF W
  <2>4. W \in Nat \ {0}
    BY <2>1, <2>3
  <2>5. \A a \in Nat : a % W \in Nat
    BY <2>4, Division
  <2>6. \A v \in P : Total * f[v] \in Nat
    BY <1>1
  <2> QED
    BY <2>5, <2>6
<1>5. StrictTotalOrder(A, P)
  <2> HIDE DEF rem
  <2>1. \A u \in P : A[u] = Ahead(u) /\ u \in Nat
    BY <1>1
  <2>2. A \in [P -> SUBSET P]
    OBVIOUS
  <2>3. ASSUME NEW u \in P PROVE u \notin A[u]
    BY <1>1, <1>4, <2>1
  <2>4. ASSUME NEW u \in P, NEW v \in P, v \in A[u], NEW w \in A[v] PROVE w \in A[u]
    <3>1. w \in P /\ w \in Ahead(v) /\ v \in Ahead(u)
      BY <2>1, <2>2, <2>4
    <3>2. w \in Ahead(u)
      BY <1>4, <2>1, <3>1
    <3> QED
      BY <2>1, <3>2
  <2>5. ASSUME NEW u \in P, NEW v \in P, u # v PROVE u \in A[v] \/ v \in A[u]
    <3>1. u \in Ahead(v) \/ v \in Ahead(u)
      BY <1>4, <2>1, <2>5
    <3> QED
      BY <2>1, <3>1
  <2> HIDE DEF A
  <2> QED
    BY <2>2, <2>3, <2>4, <2>5 DEF StrictTotalOrder
<1>6. Cardinality(Lucky) = left /\ left \in Nat
  <2>1. left \in Nat /\ left <= Cardinality(P)
    <3>1. Cardinality(P) \in Nat
      BY <1>1, FS_CardinalityType
    <3> HIDE DEF left
    <3> QED
      BY <1>3, <3>1
  <2> HIDE DEF A, left
  <2> QED
    BY <1>1, <1>5, <2>1, RanksBelow
<1>7. /\ share \in [P -> Nat]
      /\ \A u \in P : share[u] = IF u \in Lucky THEN base[u] + 1 ELSE base[u]
  <2>1. \A u \in P : A[u] = Ahead(u)
    OBVIOUS
  <2> HIDE DEF Ahead, A, left, base
  <2> QED
    BY <1>3, <2>1
<1>8. Sum(share, P) = Sum(base, P) + Cardinality(Lucky)
  <2>1. Lucky \in SUBSET P
    OBVIOUS
  <2>2. IsFiniteSet(P)
    BY <1>1
  <2> HIDE DEF share, Lucky, base
  <2> QED
    BY <1>3, <1>7, <2>1, <2>2, OneMoreEach
<1>9. Sum(base, P) \in Nat
  BY <1>1, <1>3, SumType
<1>10. Sum(share, P) = Total
  <2> DEFINE b == Sum(base, P)
  <2>1. left = Total - b
    OBVIOUS
  <2> HIDE DEF share, left, b
  <2>2. Sum(share, P) = b + left /\ b \in Nat
    BY <1>6, <1>8, <1>9 DEF b
  <2> QED
    BY <1>1, <2>1, <2>2
<1> HIDE DEF share
<1> QED
  BY <1>2, <1>7, <1>10

\* Whatever method the host chooses.
LEMMA SharesSplit ==
  ASSUME NEW method \in Methods, NEW host, NEW P \in SUBSET Users, P # {},
         NEW share \in Shares(method, host, P)
  PROVE  share \in [P -> 0..Total] /\ (host \in P => Sum(share, P) = Total)
<1>1. IsFiniteSet(P) /\ Total \in Nat
  BY FS_Subset, PaymentsAssumption
<1>2. CASE method = "HOST_PAYS"
  <2>1. share = [u \in P |-> IF u = host THEN Total ELSE 0]
    BY <1>2 DEF Shares
  <2>2. share \in [P -> 0..Total]
    BY <1>1, <2>1
  <2>3. ASSUME host \in P PROVE Sum(share, P) = Total
    <3>1. IsFiniteSet(P \ {host}) /\ \A u \in P \ {host} : share[u] = 0
      BY <1>1, <2>1, FS_RemoveElement
    <3>2. Sum(share, P \ {host}) = 0
      BY <3>1, SumZero
    <3>3. \A u \in P : share[u] \in Int
      BY <2>2
    <3>4. Sum(share, P) = share[host] + Sum(share, P \ {host})
      BY <1>1, <2>3, <3>3, SumRemove
    <3> QED
      BY <1>1, <2>1, <2>3, <3>2, <3>4
  <2> QED
    BY <2>2, <2>3
<1>3. ASSUME NEW f \in [P -> Nat \ {0}], share = LargestRemainder(f)
      PROVE  share \in [P -> 0..Total] /\ Sum(share, P) = Total
  <2>1. share \in [P -> Nat] /\ Sum(share, P) = Total
    BY <1>3, LargestRemainderSplits
  <2>2. ASSUME NEW u \in P PROVE share[u] \in 0..Total
    <3>1. \A v \in P : share[v] \in Nat
      BY <2>1
    <3>2. share[u] <= Sum(share, P)
      BY <1>1, <3>1, SumBounds
    <3> QED
      BY <1>1, <2>1, <3>1, <3>2
  <2> QED
    BY <2>1, <2>2
<1>4. CASE method = "EQUAL"
  <2>1. share = LargestRemainder([u \in P |-> 1])
    BY <1>4 DEF Shares
  <2> QED
    BY <1>3, <2>1
<1>5. CASE method = "DISTANCE"
  <2>1. share = LargestRemainder([u \in P |-> u])
    BY <1>5 DEF Shares
  <2>2. [u \in P |-> u] \in [P -> Nat \ {0}]
    BY PaymentsAssumption
  <2> QED
    BY <1>3, <2>1, <2>2
<1>6. CASE method = "CUSTOM"
  <2>1. share \in [P -> 0..Total] /\ Weight(share) = Total
    BY <1>6 DEF Shares
  <2>2. DOMAIN share = P
    BY <2>1
  <2> QED
    BY <2>1, <2>2, WeightIsSum
<1> QED
  BY <1>2, <1>4, <1>5, <1>6, PaymentsAssumption

-----------------------------------------------------------------------------
(* Types, with what a handler knows of its row, its quote and the rows it  *)
(* still has to refund.                                                    *)

\* A handler with an attempt of a share in hand.
WithCharge == {"charge", "record", "recordFailure", "decline", "succeeded", "failed"}

WorkOK(w) ==
  /\ w \in WorkType
  /\ w.at \in WithCharge \cup {"update"} => w.row \in Rows
  /\ w.at \in WithCharge => w.n \in Attempts
  /\ w.at \in {"skip", "credit", "creditOnly", "mark"} => \E s \in w.todo: s.row = w.row
  /\ \A s, t \in w.todo: s.row = t.row => s = t
  /\ w.at \in {"select", "expire", "book"} => w.quote \in Quotes
  /\ w.at = "quote" => w.members # {}

WorkInv == work \in [Procs -> WorkType] /\ \A h \in Procs: WorkOK(work[h])

PayInv == pay \in [Rows -> PaymentType] /\ \A r \in Rows: pay[r].credit <= pay[r].amount

GroupType ==
  [status: Configurable \cup RideActive \cup Final, host: Users, version: Nat, quote: Quotes \cup {None}]

QuoteStatus == {"none", "ACTIVE", "SUPERSEDED", "EXPIRED", "CONSUMED"}

RideType == [status: {"none", "CANCELLED", "COMPLETED"} \cup Live, quote: Quotes \cup {None}, planned: BOOLEAN]

MemberStatus == {"none", "JOINED", "REMOVED", "LEFT", "PICKED_UP", "NO_SHOW", "COMPLETED", "CANCELLED"}

InvitedStatus == {"none", "PENDING", "ACCEPTED", "closed"}

TypeInv ==
  /\ group \in GroupType
  /\ member \in [Users -> MemberStatus]
  /\ quote \in [Quotes -> QuoteStatus]
  /\ late \subseteq Quotes
  /\ PayInv
  /\ credits \in [Users -> Nat]
  /\ returned \subseteq Rows
  /\ charge \in [Rows \X Attempts -> ChargeType]
  /\ WorkInv
  /\ faults \in 0..MaxFaults
  /\ again \subseteq raced /\ raced \subseteq Rows
  /\ lapsed \subseteq Quotes
  /\ pickup \subseteq Users
  /\ invited \in [Users -> InvitedStatus]
  /\ ride \in RideType
  /\ reopened \in BOOLEAN

\* What a handler may turn to: nothing, a quote or the next step of its path.
LEMMA IdleOK == WorkOK(Idle)
  BY PaymentsAssumption DEF WorkOK, Idle, WorkType, WorkAt, WithCharge

\* The same for the quotes that are left.
LEMMA OnwardOK == ASSUME NEW quotes \in SUBSET Quotes PROVE WorkOK(Onward(quotes))
<1> DEFINE w == [Idle EXCEPT !.at = "selectEach", !.left = quotes]
<1>1. Idle \in WorkType /\ Idle.todo = {}
  BY IdleOK DEF WorkOK, Idle
<1>2. w.at = "selectEach" /\ w.todo = {} /\ w \in WorkType
  BY <1>1 DEF WorkType, WorkAt
<1>3. Onward(quotes) \in {Idle, w}
  BY DEF Onward
<1> HIDE DEF w
<1>4. WorkOK(w)
  BY <1>2 DEF WorkOK, WithCharge
<1> QED
  BY <1>3, <1>4, IdleOK

\* A handler that gets a record of its type.
LEMMA SetWork ==
  ASSUME WorkInv, NEW h \in Procs, NEW w, WorkOK(w), work' = [work EXCEPT ![h] = w]
  PROVE  WorkInv'
  BY DEF WorkInv, WorkOK

\* A handler that comes to rest.
LEMMA RestOK == ASSUME WorkInv, NEW h \in Procs, Rest(h) PROVE WorkInv'
  BY IdleOK, SetWork DEF Rest

\* Steps of a handler that has no quote, row or charge to know of.
Free == {"selectAll", "selectQuotes", "assigned", "released", "start", "restart", "started", "restarted", "completed",
         "cancelRide", "cancelled", "idle", "refund"}

\* A handler that goes on keeps what its next step needs.
LEMMA GotoOK ==
  ASSUME WorkInv, NEW h \in Procs, NEW at \in WorkAt, Goto(h, at),
         \/ at \in Free
         \/ at \in WithCharge \cup {"update"} /\ work[h].at \in WithCharge
         \/ at = "select" /\ work[h].quote \in Quotes
         \/ at \in {"skip", "mark"} /\ work[h].at \in {"credit", "creditOnly"}
  PROVE  WorkInv'
<1> DEFINE w == [work[h] EXCEPT !.at = at]
<1>1. WorkOK(work[h]) /\ work[h] \in WorkType
  BY DEF WorkInv
<1>2. /\ w \in WorkType /\ w.at = at /\ w.row = work[h].row /\ w.n = work[h].n /\ w.todo = work[h].todo
      /\ w.quote = work[h].quote
  BY <1>1 DEF WorkType
<1> HIDE DEF w
<1>3. WorkOK(w)
  BY <1>1, <1>2 DEF WorkOK, WithCharge, Free
<1>4. work' = [work EXCEPT ![h] = w]
  BY DEF Goto, WorkInv, w
<1> QED
  BY <1>3, <1>4, SetWork

\* A handler that turns to a quote.
LEMMA QuoteWorkOK ==
  ASSUME WorkInv, NEW h \in Procs, NEW q \in Quotes, NEW at \in {"select", "expire", "book"},
         work' = [work EXCEPT ![h] = [Idle EXCEPT !.at = at, !.quote = q]]
  PROVE  WorkInv'
<1> DEFINE w == [Idle EXCEPT !.at = at, !.quote = q]
<1>0. Idle \in WorkType /\ Idle.todo = {}
  BY IdleOK DEF WorkOK, Idle
<1>1. w.at = at /\ w.quote = q /\ w.todo = {}
  BY <1>0 DEF WorkType
<1>2. work' = [work EXCEPT ![h] = w]
  OBVIOUS
<1>3. w \in WorkType
  BY <1>0 DEF WorkType, WorkAt
<1> HIDE DEF w
<1>4. WorkOK(w)
  BY <1>1, <1>3 DEF WorkOK, WithCharge
<1> QED
  BY <1>2, <1>4, SetWork

\* A handler that turns to a share.
LEMMA RowWorkOK ==
  ASSUME WorkInv, NEW h \in Procs, NEW r \in Rows, NEW n \in 0..MaxAttempts, NEW at \in WithCharge \cup {"update"},
         n \in Attempts \/ at = "update",
         work' = [work EXCEPT ![h] = [Idle EXCEPT !.at = at, !.row = r, !.n = n]]
  PROVE  WorkInv'
<1> DEFINE w == [Idle EXCEPT !.at = at, !.row = r, !.n = n]
<1>1. WorkOK(w)
  BY PaymentsAssumption DEF WorkOK, Idle, WorkType, WorkAt, WithCharge
<1> QED
  BY <1>1, SetWork

\* A handler that selects rows takes down one snapshot of each.
LEMMA SelectOK ==
  ASSUME WorkInv, PayInv, NEW h \in Procs, NEW rows \in SUBSET Rows, NEW rest \in SUBSET Quotes,
         Select(h, rows, rest)
  PROVE  WorkInv'
<1> DEFINE todo == {r \in rows: Refundable(r)}
           snaps == {Snapshot(r): r \in todo}
           w == [Idle EXCEPT !.at = "refund", !.todo = snaps, !.left = rest]
<1>1. CASE todo = {}
  BY <1>1, OnwardOK, SetWork DEF Select
<1>2. CASE todo # {}
  <2>1. work' = [work EXCEPT ![h] = w]
    BY <1>2 DEF Select
  <2>2. ASSUME NEW r \in todo PROVE Snapshot(r) \in SnapshotType /\ Snapshot(r).row = r
    BY DEF PayInv, PaymentType, Snapshot, SnapshotType
  <2>3. snaps \subseteq SnapshotType
    BY <2>2
  <2>4. \A s, t \in snaps: s.row = t.row => s = t
    BY <2>2
  <2> HIDE DEF snaps
  <2>5. Idle \in WorkType
    BY IdleOK DEF WorkOK
  <2>6. w.at = "refund" /\ w.todo = snaps /\ w \in WorkType
    BY <2>3, <2>5 DEF WorkType, WorkAt
  <2> HIDE DEF w
  <2>7. WorkOK(w)
    BY <2>4, <2>6 DEF WorkOK, WithCharge
  <2> QED
    BY <2>1, <2>7, SetWork
<1> QED
  BY <1>1, <1>2

\* A handler that takes up one of its rows.
LEMMA TakeOK ==
  ASSUME WorkInv, NEW h \in Procs, NEW s \in work[h].todo, NEW at \in {"credit", "creditOnly", "skip"},
         Take(h, at, s)
  PROVE  WorkInv'
<1> DEFINE w == [work[h] EXCEPT !.at = at, !.row = s.row]
<1>1. WorkOK(work[h]) /\ work[h] \in WorkType /\ work \in [Procs -> WorkType]
  BY DEF WorkInv
<1>2. s \in SnapshotType
  BY <1>1 DEF WorkType
<1>3. s.row \in Rows
  BY <1>2 DEF SnapshotType
<1>4. w \in WorkType /\ w.at = at /\ w.row = s.row /\ w.todo = work[h].todo
  BY <1>1, <1>3 DEF WorkType, WorkAt
<1>5. work' = [work EXCEPT ![h] = w]
  BY <1>1 DEF Take
<1> HIDE DEF w
<1>6. WorkOK(w)
  BY <1>1, <1>4 DEF WorkOK, WithCharge
<1> QED
  BY <1>5, <1>6, SetWork

\* And one that is through with it.
LEMMA DoneOK == ASSUME WorkInv, NEW h \in Procs, Done(h) PROVE WorkInv'
<1> DEFINE rest == {s \in work[h].todo: s.row # work[h].row}
           w == [Idle EXCEPT !.at = "refund", !.todo = rest, !.left = work[h].left]
<1>1. WorkOK(work[h]) /\ work[h] \in WorkType
  BY DEF WorkInv
<1>0. work[h].left \in SUBSET Quotes
  BY <1>1 DEF WorkType
<1>2. CASE rest = {}
  BY <1>0, <1>2, OnwardOK, SetWork DEF Done
<1>3. CASE rest # {}
  <2>1. work' = [work EXCEPT ![h] = w]
    BY <1>3 DEF Done
  <2>2. rest \subseteq work[h].todo /\ work[h].todo \subseteq SnapshotType
    BY <1>1 DEF WorkType
  <2> HIDE DEF rest
  <2>3. Idle \in WorkType
    BY IdleOK DEF WorkOK
  <2>4. w.at = "refund" /\ w.todo = rest /\ w \in WorkType
    BY <1>0, <2>2, <2>3 DEF WorkType, WorkAt
  <2> HIDE DEF w
  <2>5. WorkOK(w)
    BY <1>1, <2>2, <2>4 DEF WorkOK, WithCharge
  <2> QED
    BY <2>1, <2>5, SetWork
<1> QED
  BY <1>2, <1>3

\* The group's row after a change of status.
LEMMA StatusOK ==
  ASSUME group \in GroupType, NEW s \in Configurable \cup RideActive \cup Final
  PROVE  [group EXCEPT !.status = s] \in GroupType
  BY DEF GroupType

\* What Gate, Bump and Reopened make of a group has its type.
LEMMA GateOK == ASSUME group \in GroupType, NEW p, NEW q PROVE Gate(p, q) \in GroupType
  BY StatusOK DEF Gate, Configurable

\* The same for the changes of the configuration.
LEMMA BumpOK ==
  ASSUME NEW g \in GroupType
  PROVE  Bump(g) \in GroupType /\ Reopened(Bump(g)) \in GroupType /\ Joined(g) \in GroupType
<1>1. Bump(g) \in GroupType
  BY DEF Bump, GroupType
<1>2. ASSUME NEW k \in GroupType PROVE Reopened(k) \in GroupType
  <2>1. [k EXCEPT !.quote = None, !.status = "CONFIGURING"] \in GroupType
    BY DEF GroupType, Configurable
  <2> QED
    BY <2>1 DEF Reopened
<1>3. Joined(g) \in GroupType
  BY DEF Joined, GroupType, Configurable
<1> QED
  BY <1>1, <1>2, <1>3

\* A change of a payment row's status or charge.
LEMMA PayOK ==
  ASSUME PayInv,
         pay' \in [Rows -> PaymentType],
         \A r \in Rows: pay'[r].credit = pay[r].credit /\ pay'[r].amount = pay[r].amount
  PROVE  PayInv'
  BY DEF PayInv

\* Closing the unpaid shares leaves amounts and credits alone.
LEMMA InvalidatedOK ==
  ASSUME PayInv
  PROVE  /\ Invalidated(pay) \in [Rows -> PaymentType]
         /\ \A r \in Rows: /\ Invalidated(pay)[r].credit = pay[r].credit
                           /\ Invalidated(pay)[r].amount = pay[r].amount
  BY DEF PayInv, Invalidated, PaymentType

\* A change of the configuration, wherever it comes from.
LEMMA ReconfigureOK ==
  ASSUME TypeInv, NEW h \in Procs, NEW g \in GroupType, Reconfigure(h, g)
  PROVE  group' \in GroupType /\ quote' \in [Quotes -> QuoteStatus] /\ PayInv' /\ WorkInv'
<1> USE DEF TypeInv
<1>1. CASE ActiveQuote = {}
  BY <1>1, BumpOK DEF Reconfigure, PayInv, WorkInv
<1>2. CASE ActiveQuote # {}
  <2>1. group' \in GroupType
    BY <1>2, BumpOK DEF Reconfigure
  <2>2. quote' \in [Quotes -> QuoteStatus]
    BY <1>2 DEF Reconfigure, QuoteStatus
  <2>3. PayInv'
    BY <1>2, InvalidatedOK, PayOK DEF Reconfigure
  <2>4. WorkInv'
    <3>1. PICK q \in ActiveQuote: work' = [work EXCEPT ![h] = [Idle EXCEPT !.at = "select", !.quote = q]]
      BY <1>2 DEF Reconfigure
    <3>2. q \in Quotes
      BY DEF ActiveQuote
    <3> QED
      BY <3>1, <3>2, QuoteWorkOK
  <2> QED
    BY <2>1, <2>2, <2>3, <2>4
<1> QED
  BY <1>1, <1>2

\* The initial state has its types.
LEMMA InitType == Init => TypeInv
<1> SUFFICES ASSUME Init PROVE TypeInv
  OBVIOUS
<1> USE DEF Init, MoneyInit
<1>1. group \in GroupType /\ member \in [Users -> MemberStatus] /\ pickup \subseteq Users
  BY HostAssumption DEF GroupType, Configurable, MemberStatus
<1>2. PayInv
  BY PaymentsAssumption DEF PayInv, PaymentType, NoPayment
<1>3. WorkInv
  BY IdleOK DEF WorkInv, WorkOK
<1>4. charge \in [Rows \X Attempts -> ChargeType]
  BY DEF ChargeType, NoCharge
<1>5. credits \in [Users -> Nat] /\ faults \in 0..MaxFaults
  <2>1. credits \in [Users -> Openings] /\ Openings \subseteq Nat
    BY PaymentsAssumption
  <2> HIDE DEF Init, MoneyInit
  <2>2. credits \in [Users -> Nat]
    BY <2>1
  <2> QED
    BY <2>2, PaymentsAssumption DEF Init, MoneyInit
<1>6. invited \in [Users -> InvitedStatus] /\ ride \in RideType
  BY DEF InvitedStatus, RideType
<1> QED
  BY <1>1, <1>2, <1>3, <1>4, <1>5, <1>6 DEF TypeInv, QuoteStatus

\* Of two numbers, the less.
LEMMA MinOfTwo ==
  ASSUME NEW a \in Nat, NEW b \in Nat
  PROVE  Min({a, b}) \in Nat /\ Min({a, b}) <= a /\ Min({a, b}) <= b
<1>1. \E x \in {a, b}: \A y \in {a, b}: x <= y
  <2>1. CASE a <= b
    BY <2>1
  <2>2. CASE b <= a
    BY <2>2
  <2> QED
    BY <2>1, <2>2
<1>2. Min({a, b}) \in {a, b} /\ \A y \in {a, b}: Min({a, b}) <= y
  BY <1>1 DEF Min
<1> QED
  BY <1>2

\* What ConfirmPayment does to the share of u.
ConfirmStep(h, u) ==
  LET r == <<group.quote, u>> IN
  \E applied \in Nat, n \in Attempts:
    /\ n = pay[r].attempts + 1
    /\ applied > 0 => pay[r].credit = 0
    /\ applied <= credits[u]
    /\ pay[r].credit + applied <= pay[r].amount
    /\ credits' = [credits EXCEPT ![u] = @ - applied]
    /\ LET credit == pay[r].credit + applied
           card == pay[r].amount - credit IN
       /\ card \in Nat
       /\ pay' = [pay EXCEPT ![r].status = IF card > 0 THEN "PROCESSING" ELSE "SUCCEEDED",
                             ![r].credit = credit, ![r].card = card, ![r].attempts = n]
       /\ work' = [work EXCEPT ![h] = [Idle EXCEPT !.at = IF card > 0 THEN "charge" ELSE "update",
                                                  !.row = r, !.n = IF card > 0 THEN n ELSE 0]]

\* What a confirmation does to its row.
LEMMA ConfirmPaymentStep ==
  ASSUME TypeInv, NEW h \in Procs, NEW u \in Users, ConfirmPayment(h, u)
  PROVE  <<group.quote, u>> \in Rows /\ ConfirmStep(h, u)
<1> DEFINE r == <<group.quote, u>>
<1>1. r \in Rows
  BY DEF ConfirmPayment, MayConfirm, TypeInv, GroupType, Rows
<1>2. pay[r] \in PaymentType /\ pay[r].credit <= pay[r].amount
  BY <1>1 DEF TypeInv, PayInv
<1> HIDE DEF r
<1>3. /\ pay[r].credit \in Nat /\ pay[r].amount \in Nat /\ pay[r].attempts \in Nat
      /\ credits[u] \in Nat
  BY <1>2, PaymentsAssumption DEF PaymentType, TypeInv
<1>4. pay[r].attempts < MaxAttempts
  BY DEF ConfirmPayment, r
<1>5. pay[r].attempts + 1 \in Attempts
  BY <1>3, <1>4, PaymentsAssumption DEF Attempts
<1>6. PICK useCredits \in BOOLEAN:
       LET n == pay[r].attempts + 1
           applied == IF useCredits /\ pay[r].credit = 0 THEN Min({credits[u], pay[r].amount}) ELSE 0
           credit == pay[r].credit + applied
           card == pay[r].amount - credit IN
       /\ credits' = [credits EXCEPT ![u] = @ - applied]
       /\ pay' = [pay EXCEPT ![r].status = IF card > 0 THEN "PROCESSING" ELSE "SUCCEEDED",
                             ![r].credit = credit, ![r].card = card, ![r].attempts = n]
       /\ work' = [work EXCEPT ![h] = [Idle EXCEPT !.at = IF card > 0 THEN "charge" ELSE "update",
                                                  !.row = r, !.n = IF card > 0 THEN n ELSE 0]]
  BY DEF ConfirmPayment, r
<1> DEFINE applied == IF useCredits /\ pay[r].credit = 0 THEN Min({credits[u], pay[r].amount}) ELSE 0
           credit == pay[r].credit + applied
           card == pay[r].amount - credit
           n == pay[r].attempts + 1
<1>7. /\ applied \in Nat
      /\ applied > 0 => pay[r].credit = 0
      /\ applied <= credits[u]
      /\ pay[r].credit + applied <= pay[r].amount
  BY <1>2, <1>3, MinOfTwo
<1>8. /\ credits' = [credits EXCEPT ![u] = @ - applied]
      /\ pay' = [pay EXCEPT ![r].status = IF card > 0 THEN "PROCESSING" ELSE "SUCCEEDED",
                            ![r].credit = credit, ![r].card = card, ![r].attempts = n]
      /\ work' = [work EXCEPT ![h] = [Idle EXCEPT !.at = IF card > 0 THEN "charge" ELSE "update",
                                                 !.row = r, !.n = IF card > 0 THEN n ELSE 0]]
  BY <1>6
<1> HIDE DEF applied
<1>9. card \in Nat
  BY <1>3, <1>7
<1>10. ConfirmStep(h, u)
  BY <1>5, <1>7, <1>8, <1>9 DEF ConfirmStep, r
<1> QED
  BY <1>1, <1>10 DEF r

\* A confirmation keeps the types.
LEMMA ConfirmPaymentTypes ==
  ASSUME TypeInv, NEW h \in Procs, NEW u \in Users, ConfirmPayment(h, u)
  PROVE  PayInv' /\ WorkInv' /\ credits' \in [Users -> Nat]
<1> DEFINE r == <<group.quote, u>>
<1>1. r \in Rows /\ ConfirmStep(h, u)
  BY ConfirmPaymentStep
<1>2. pay \in [Rows -> PaymentType] /\ pay[r] \in PaymentType /\ credits[u] \in Nat
  BY <1>1 DEF TypeInv, PayInv
<1>3. PICK applied \in Nat, n \in Attempts:
    /\ applied <= credits[u]
    /\ pay[r].credit + applied <= pay[r].amount
    /\ credits' = [credits EXCEPT ![u] = @ - applied]
    /\ LET credit == pay[r].credit + applied
           card == pay[r].amount - credit IN
       /\ card \in Nat
       /\ pay' = [pay EXCEPT ![r].status = IF card > 0 THEN "PROCESSING" ELSE "SUCCEEDED",
                             ![r].credit = credit, ![r].card = card, ![r].attempts = n]
       /\ work' = [work EXCEPT ![h] = [Idle EXCEPT !.at = IF card > 0 THEN "charge" ELSE "update",
                                                  !.row = r, !.n = IF card > 0 THEN n ELSE 0]]
  BY <1>1 DEF ConfirmStep
<1> DEFINE credit == pay[r].credit + applied
           card == pay[r].amount - credit
           p == [pay[r] EXCEPT !.status = IF card > 0 THEN "PROCESSING" ELSE "SUCCEEDED",
                               !.credit = credit, !.card = card, !.attempts = n]
<1> HIDE DEF r
<1>4. /\ pay[r].credit \in 0..Total /\ pay[r].amount \in 0..Total
  BY <1>2 DEF PaymentType
<1>5. credit \in 0..Total /\ card \in 0..Total /\ credit <= pay[r].amount /\ n \in 0..MaxAttempts
  BY <1>3, <1>4, PaymentsAssumption DEF Attempts
<1>6. pay' = [pay EXCEPT ![r] = p]
  BY <1>1, <1>2, <1>3
<1>7. /\ work' = [work EXCEPT ![h] = [Idle EXCEPT !.at = IF card > 0 THEN "charge" ELSE "update",
                                                 !.row = r, !.n = IF card > 0 THEN n ELSE 0]]
  BY <1>3
<1> HIDE DEF credit
<1>8. card \in Nat
  BY <1>5, PaymentsAssumption
<1> HIDE DEF card
<1>9. p \in PaymentType /\ p.credit = credit /\ p.amount = pay[r].amount
  BY <1>2, <1>5 DEF PaymentType
<1> HIDE DEF p
<1>10. PayInv'
  BY <1>1, <1>2, <1>5, <1>6, <1>9 DEF TypeInv, PayInv
<1>11. WorkInv'
  <2>1. CASE card > 0
    BY <1>1, <1>5, <1>7, <2>1, RowWorkOK DEF TypeInv, WithCharge
  <2>2. CASE ~ (card > 0)
    <3>1. 0 \in 0..MaxAttempts
      BY PaymentsAssumption
    <3> QED
      BY <1>1, <1>7, <2>2, <3>1, RowWorkOK DEF TypeInv
  <2> QED
    BY <2>1, <2>2
<1>12. credits' \in [Users -> Nat]
  BY <1>2, <1>3 DEF TypeInv
<1> QED
  BY <1>10, <1>11, <1>12

\* Sharp cases of a change of a payment row.
LEMMA PayRowOK ==
  ASSUME PayInv, NEW r \in Rows, NEW s \in {"SUCCEEDED", "FAILED", "REFUNDED"}, NEW n \in 0..MaxAttempts,
         \/ pay' = [pay EXCEPT ![r].status = s]
         \/ pay' = [pay EXCEPT ![r].status = s, ![r].charge = n]
  PROVE  PayInv'
<1> DEFINE p1 == [pay[r] EXCEPT !.status = s]
           p2 == [pay[r] EXCEPT !.status = s, !.charge = n]
<1>1. pay[r] \in PaymentType /\ pay \in [Rows -> PaymentType]
  BY DEF PayInv
<1>2. p1 \in PaymentType /\ p1.credit = pay[r].credit /\ p1.amount = pay[r].amount
  BY <1>1 DEF PaymentType
<1>3. p2 \in PaymentType /\ p2.credit = pay[r].credit /\ p2.amount = pay[r].amount
  BY <1>1 DEF PaymentType
<1>4. pay' = [pay EXCEPT ![r] = p1] \/ pay' = [pay EXCEPT ![r] = p2]
  BY <1>1
<1> HIDE DEF p1, p2
<1> QED
  BY <1>1, <1>2, <1>3, <1>4 DEF PayInv

\* The new quote: its shares are between zero and the fare, and nothing is
\* paid of them.
LEMMA CreateQuoteTypes ==
  ASSUME TypeInv, NEW h \in Procs, CreateQuote(h)
  PROVE  group' \in GroupType /\ quote' \in [Quotes -> QuoteStatus] /\ PayInv' /\ WorkInv'
<1> USE DEF TypeInv
<1>0. On(h, "quote") /\ work[h].members \in SUBSET Users /\ work[h].members # {}
  BY DEF CreateQuote, WorkInv, WorkOK, WorkType, On
<1>1. CASE UNCHANGED <<group, quote, pay>> /\ Rest(h)
  BY <1>1, RestOK DEF PayInv
<1>2. CASE ~ (UNCHANGED <<group, quote, pay>> /\ Rest(h))
  <2>1. PICK q \in Quotes, method \in Methods:
             /\ quote[q] = "none"
             /\ \E share \in Shares(method, group.host, work[h].members):
                  /\ pay' = [r \in Rows |->
                       IF r[1] = q /\ r[2] \in work[h].members
                         THEN [NoPayment EXCEPT !.amount = share[r[2]],
                                 !.status = IF share[r[2]] > 0 THEN "PENDING" ELSE "NOT_REQUIRED"]
                         ELSE Invalidated(pay)[r]]
                  /\ group' = [Bump(group) EXCEPT !.quote = q,
                       !.status = IF \A u \in work[h].members: share[u] = 0
                                    THEN "READY_TO_REQUEST" ELSE "AWAITING_PAYMENT"]
    BY <1>2 DEF CreateQuote
  <2>2. \E p \in Quotes: quote' = [k \in Quotes |-> IF k = p THEN "ACTIVE"
                                    ELSE IF k \in ActiveQuote THEN "SUPERSEDED" ELSE quote[k]]
    BY <1>2 DEF CreateQuote
  <2>3. quote' \in [Quotes -> QuoteStatus]
    BY <2>2 DEF QuoteStatus
  <2>4. PICK share \in Shares(method, group.host, work[h].members):
                  /\ pay' = [r \in Rows |->
                       IF r[1] = q /\ r[2] \in work[h].members
                         THEN [NoPayment EXCEPT !.amount = share[r[2]],
                                 !.status = IF share[r[2]] > 0 THEN "PENDING" ELSE "NOT_REQUIRED"]
                         ELSE Invalidated(pay)[r]]
                  /\ group' = [Bump(group) EXCEPT !.quote = q,
                       !.status = IF \A u \in work[h].members: share[u] = 0
                                    THEN "READY_TO_REQUEST" ELSE "AWAITING_PAYMENT"]
    BY <2>1
  <2>5. group' \in GroupType
    BY <2>4, BumpOK DEF GroupType, Configurable
  <2>6. share \in [work[h].members -> 0..Total]
    BY <1>0, SharesSplit
  <2>7. ASSUME NEW a \in 0..Total, NEW s \in {"PENDING", "NOT_REQUIRED"}
        PROVE  LET p == [NoPayment EXCEPT !.amount = a, !.status = s] IN
               p \in PaymentType /\ p.credit <= p.amount
    <3>1. a \in Nat /\ 0 <= a /\ 0 \in 0..Total /\ 0 \in 0..MaxAttempts
      BY PaymentsAssumption
    <3> QED
      BY <3>1 DEF NoPayment, PaymentType
  <2>8. ASSUME NEW r \in Rows PROVE pay'[r] \in PaymentType /\ pay'[r].credit <= pay'[r].amount
    <3>1. CASE r[1] = q /\ r[2] \in work[h].members
      <4> DEFINE a == share[r[2]]
                 s == IF a > 0 THEN "PENDING" ELSE "NOT_REQUIRED"
      <4>1. a \in 0..Total
        BY <2>6, <3>1
      <4>2. s \in {"PENDING", "NOT_REQUIRED"}
        OBVIOUS
      <4>3. pay'[r] = [NoPayment EXCEPT !.amount = a, !.status = s]
        BY <2>4, <3>1
      <4> HIDE DEF a, s
      <4> QED
        BY <2>7, <4>1, <4>2, <4>3
    <3>2. CASE ~ (r[1] = q /\ r[2] \in work[h].members)
      <4>1. pay'[r] = Invalidated(pay)[r]
        BY <2>4, <3>2
      <4> QED
        BY <4>1, InvalidatedOK DEF PayInv
    <3> QED
      BY <3>1, <3>2
  <2>9. PayInv'
    <3>1. pay' = [r \in Rows |-> pay'[r]]
      BY <2>4
    <3> QED
      BY <2>8, <3>1 DEF PayInv
  <2>10. WorkInv'
    <3>1. Rest(h) \/ \E p \in ActiveQuote: work' = [work EXCEPT ![h] = [Idle EXCEPT !.at = "select", !.quote = p]]
      BY <1>2 DEF CreateQuote
    <3>2. ActiveQuote \subseteq Quotes
      BY DEF ActiveQuote
    <3> QED
      BY <3>1, <3>2, RestOK, QuoteWorkOK
  <2> QED
    BY <2>3, <2>5, <2>9, <2>10
<1> QED
  BY <1>1, <1>2

\* A charge's row after a step of it.
LEMMA ChargeOK ==
  ASSUME charge \in [Rows \X Attempts -> ChargeType], NEW r \in Rows, NEW n \in Attempts, NEW c \in ChargeType,
         charge' = [charge EXCEPT ![<<r, n>>] = c]
  PROVE  charge' \in [Rows \X Attempts -> ChargeType]
  OBVIOUS

\* The steps of the payments keep the types.
LEMMA MoneyTypes == ASSUME TypeInv, MoneyNext, UNCHANGED <<pickup, invited, ride, reopened>> PROVE TypeInv'
<1> USE DEF TypeInv, On
<1>0. /\ pay \in [Rows -> PaymentType] /\ work \in [Procs -> WorkType]
      /\ \A h \in Procs: WorkOK(work[h]) /\ work[h] \in WorkType
  BY DEF PayInv, WorkInv
<1>1. ASSUME NEW h \in Procs, ChargeStripe(h) PROVE TypeInv'
  <2> DEFINE r == work[h].row
             n == work[h].n
             c(paid) == [local |-> "PENDING", intent |-> FALSE, stripe |-> IF paid THEN "paid" ELSE "declined",
                         event |-> IF paid THEN "succeeded" ELSE "failed"]
  <2>1. On(h, "charge") /\ r \in Rows /\ n \in Attempts
    BY <1>0, <1>1 DEF ChargeStripe, WorkOK, WithCharge
  <2>2. (\E paid \in BOOLEAN: charge' = [charge EXCEPT ![<<r, n>>] = c(paid)]) \/ UNCHANGED charge
    BY <1>1 DEF ChargeStripe
  <2>3. \A paid \in BOOLEAN: c(paid) \in ChargeType
    BY DEF ChargeType
  <2> HIDE DEF c
  <2>4. charge' \in [Rows \X Attempts -> ChargeType]
    BY <2>1, <2>2, <2>3, ChargeOK
  <2>5. \E at \in {"record", "recordFailure", "decline"}: Goto(h, at)
    BY <1>1 DEF ChargeStripe
  <2>6. WorkInv'
    BY <2>1, <2>5, GotoOK DEF WithCharge, WorkAt
  <2>7. faults' \in 0..MaxFaults
    BY <1>1, PaymentsAssumption DEF ChargeStripe, Fault
  <2> QED
    BY <1>1, <2>4, <2>6, <2>7 DEF ChargeStripe, PayInv
<1>2. ASSUME NEW h \in Procs, ChargeUpdate(h) PROVE TypeInv'
  <2> DEFINE r == work[h].row
             n == work[h].n
             c(s, i) == [charge[<<r, n>>] EXCEPT !.local = s, !.intent = i]
  <2>1. work[h].at \in WithCharge /\ r \in Rows /\ n \in Attempts
    BY <1>0, <1>2 DEF ChargeUpdate, WorkOK, WithCharge
  <2>2. \E s \in {"SUCCEEDED", "FAILED"}, i \in BOOLEAN: charge' = [charge EXCEPT ![<<r, n>>] = c(s, i)]
    <3>1. CASE On(h, "record")
      <4>1. charge' = [charge EXCEPT ![<<r, n>>] = c("SUCCEEDED", TRUE)]
        BY <1>2, <2>1, <3>1 DEF ChargeUpdate
      <4> QED
        BY <4>1
    <3>2. CASE On(h, "recordFailure")
      <4>1. PICK named \in BOOLEAN: charge' = [charge EXCEPT ![<<r, n>>] = c("FAILED", named)]
        BY <1>2, <2>1, <3>2 DEF ChargeUpdate
      <4> QED
        BY <4>1
    <3> QED
      BY <1>2, <3>1, <3>2 DEF ChargeUpdate
  <2>3. \A s \in {"SUCCEEDED", "FAILED"}, i \in BOOLEAN: c(s, i) \in ChargeType
    <3>1. charge[<<r, n>>] \in ChargeType
      BY <2>1
    <3>2. ASSUME NEW s \in {"SUCCEEDED", "FAILED"}, NEW i \in BOOLEAN PROVE c(s, i) \in ChargeType
      BY <3>1 DEF ChargeType
    <3> QED
      BY <3>2
  <2> HIDE DEF c
  <2>4. charge' \in [Rows \X Attempts -> ChargeType]
    BY <2>1, <2>2, <2>3, ChargeOK
  <2>5. \E at \in {"update", "decline"}: Goto(h, at)
    BY <1>2 DEF ChargeUpdate
  <2>6. WorkInv'
    BY <2>1, <2>5, GotoOK DEF WithCharge, WorkAt
  <2> QED
    BY <1>2, <2>4, <2>6 DEF ChargeUpdate, PayInv
<1>3. ASSUME NEW h \in Procs, ConfirmUpdate(h) PROVE TypeInv'
  <2> DEFINE r == work[h].row
             n == work[h].n
  <2>1. r \in Rows /\ n \in 0..MaxAttempts
    BY <1>0, <1>3 DEF ConfirmUpdate, WorkOK, WithCharge, WorkType
  <2>2. PayInv'
    <3>1. CASE On(h, "update")
      <4>1. pay' = [pay EXCEPT ![r].status = "SUCCEEDED", ![r].charge = IF n = 0 THEN @ ELSE n]
        BY <1>3, <3>1 DEF ConfirmUpdate
      <4>2. pay[r].charge \in 0..MaxAttempts
        BY <1>0, <2>1 DEF PaymentType
      <4>3. CASE n = 0
        BY <2>1, <4>1, <4>2, <4>3, <1>0, PayRowOK
      <4>4. CASE n # 0
        BY <2>1, <4>1, <4>4, PayRowOK
      <4> QED
        BY <4>3, <4>4
    <3>2. CASE On(h, "decline")
      <4>1. pay' = [pay EXCEPT ![r].status = "FAILED", ![r].charge = IF charge[<<r, n>>] = NoCharge THEN 0 ELSE n]
        BY <1>3, <3>2 DEF ConfirmUpdate
      <4>2. (IF charge[<<r, n>>] = NoCharge THEN 0 ELSE n) \in 0..MaxAttempts
        BY <2>1, PaymentsAssumption
      <4> QED
        BY <2>1, <4>1, <4>2, PayRowOK
    <3> QED
      BY <1>3, <3>1, <3>2 DEF ConfirmUpdate
  <2> QED
    BY <1>3, <2>2, GateOK, RestOK DEF ConfirmUpdate
<1>4. ASSUME NEW h \in Procs, ApplySuccess(h) \/ ApplyFailure(h) PROVE TypeInv'
  <2> DEFINE r == work[h].row
             n == Named(r, work[h].n)
  <2>1. r \in Rows /\ n \in 0..MaxAttempts
    BY <1>0, <1>4 DEF ApplySuccess, ApplyFailure, WorkOK, WithCharge, WorkType, Named, PaymentType
  <2>2. UNCHANGED pay \/ \E s \in {"SUCCEEDED", "FAILED"}: pay' = [pay EXCEPT ![r].status = s, ![r].charge = n]
    BY <1>4 DEF ApplySuccess, ApplyFailure
  <2> HIDE DEF n
  <2>3. PayInv'
    <3>1. CASE UNCHANGED pay
      BY <3>1 DEF PayInv
    <3> QED
      BY <2>1, <2>2, <3>1, PayRowOK
  <2>4. again' \subseteq raced' /\ raced' \subseteq Rows
    BY <1>4, <2>1 DEF ApplySuccess, ApplyFailure
  <2> QED
    BY <1>4, <2>3, <2>4, GateOK, RestOK DEF ApplySuccess, ApplyFailure
<1>5. ASSUME NEW h \in Procs, RefundQuotePayments(h) \/ RefundGroupPayments(h) \/ RefundNextQuote(h) PROVE TypeInv'
  <2>1. PICK rows \in SUBSET Rows, rest \in SUBSET Quotes: Select(h, rows, rest)
    <3>1. CASE RefundQuotePayments(h)
      <4>1. work[h].quote \in Quotes
        BY <1>0, <3>1 DEF RefundQuotePayments, WorkOK
      <4>2. {work[h].quote} \X Users \in SUBSET Rows
        BY <4>1 DEF Rows
      <4> QED
        BY <3>1, <4>2 DEF RefundQuotePayments
    <3>2. CASE RefundGroupPayments(h)
      BY <3>2 DEF RefundGroupPayments
    <3>3. CASE RefundNextQuote(h)
      <4>1. work[h].left \subseteq Quotes
        BY <1>0 DEF WorkType
      <4>2. PICK q \in work[h].left: Select(h, {q} \X Users, work[h].left \ {q})
        BY <3>3 DEF RefundNextQuote
      <4>3. {q} \X Users \in SUBSET Rows /\ work[h].left \ {q} \in SUBSET Quotes
        BY <4>1 DEF Rows
      <4> QED
        BY <4>2, <4>3
    <3> QED
      BY <1>5, <3>1, <3>2, <3>3
  <2>2. WorkInv'
    BY <2>1, SelectOK
  <2>3. raced \subseteq raced' /\ raced' \subseteq Rows
    BY <2>1 DEF Select
  <2> QED
    BY <1>5, <2>2, <2>3 DEF RefundQuotePayments, RefundGroupPayments, RefundNextQuote, PayInv
<1>17. ASSUME NEW h \in Procs, SelectQuotes(h) PROVE TypeInv'
  <2>1. WorkInv'
    BY <1>17, OnwardOK, SetWork DEF SelectQuotes
  <2> QED
    BY <1>17, <2>1 DEF SelectQuotes, PayInv
<1>6. ASSUME NEW h \in Procs, RefundCredit(h) PROVE TypeInv'
  <2>1. Taken(h) \in SnapshotType
    <3>1. \E s \in work[h].todo: s.row = work[h].row
      BY <1>0, <1>6 DEF RefundCredit, WorkOK
    <3>2. Taken(h) \in work[h].todo
      BY <3>1 DEF Taken
    <3> QED
      BY <1>0, <3>2 DEF WorkType
  <2>2. Taken(h).row \in Rows /\ Taken(h).credit \in Nat
    BY <2>1, PaymentsAssumption DEF SnapshotType
  <2>3. credits' \in [Users -> Nat] /\ returned' \subseteq Rows
    BY <1>6, <2>2 DEF RefundCredit, Rows
  <2>4. WorkInv'
    BY <1>6, GotoOK DEF RefundCredit, WorkAt
  <2> QED
    BY <1>6, <2>3, <2>4 DEF RefundCredit, PayInv
<1>7. ASSUME NEW h \in Procs, RefundMark(h) PROVE TypeInv'
  <2>1. \E s \in work[h].todo: s.row = work[h].row
    BY <1>0, <1>7 DEF RefundMark, WorkOK
  <2>2. work[h].row \in Rows
    BY <1>0, <2>1 DEF WorkType, SnapshotType
  <2>3. 0 \in 0..MaxAttempts
    BY PaymentsAssumption
  <2>4. PayInv'
    BY <1>7, <2>2, <2>3, PayRowOK DEF RefundMark
  <2> QED
    BY <1>7, <2>4, DoneOK DEF RefundMark
<1>8. ASSUME NEW h \in Procs, RefundSkipped(h) PROVE TypeInv'
  BY <1>8, DoneOK DEF RefundSkipped, PayInv
<1>9. ASSUME NEW h \in Procs, ExpireQuote(h) PROVE TypeInv'
  <2>1. work[h].quote \in Quotes
    BY <1>0, <1>9 DEF ExpireQuote, WorkOK
  <2>2. group' \in GroupType
    BY <1>9 DEF ExpireQuote, GroupType, Configurable
  <2>3. quote' \in [Quotes -> QuoteStatus] /\ lapsed' \subseteq Quotes
    BY <1>9, <2>1 DEF ExpireQuote, QuoteStatus, Rows
  <2>4. WorkInv'
    BY <1>9, <2>1, GotoOK DEF ExpireQuote, WorkAt
  <2> QED
    BY <1>9, <2>2, <2>3, <2>4 DEF ExpireQuote, PayInv
<1>10. ASSUME NEW h \in Procs, Crash(h) PROVE TypeInv'
  <2>1. On(h, "succeeded") => work[h].row \in Rows
    BY <1>0 DEF WorkOK, WithCharge
  <2>2. again' \subseteq raced' /\ raced' \subseteq Rows
    BY <1>10, <2>1 DEF Crash
  <2>3. faults' \in 0..MaxFaults
    BY <1>10, PaymentsAssumption DEF Crash, Fault
  <2> QED
    BY <1>10, <2>2, <2>3, RestOK DEF Crash, PayInv
<1>11. ASSUME NEW h \in Procs, NEW u \in Users, ConfirmPayment(h, u) PROVE TypeInv'
  <2>1. PayInv' /\ WorkInv' /\ credits' \in [Users -> Nat]
    BY <1>11, ConfirmPaymentTypes
  <2>2. <<group.quote, u>> \in Rows
    BY <1>11, ConfirmPaymentStep
  <2>3. again' \subseteq raced' /\ raced' \subseteq Rows
    BY <1>11, <2>2 DEF ConfirmPayment
  <2> QED
    BY <1>11, <2>1, <2>3, GateOK DEF ConfirmPayment
<1>12. ASSUME NEW h \in Procs, NEW r \in Rows, NEW n \in Attempts, ReceiveEvent(h, r, n) PROVE TypeInv'
  <2> DEFINE c(s) == [charge[<<r, n>>] EXCEPT !.event = "none", !.local = s]
  <2>0. charge[<<r, n>>] \in ChargeType
    OBVIOUS
  <2>1. \E s \in {"SUCCEEDED", "FAILED", charge[<<r, n>>].local}: charge' = [charge EXCEPT ![<<r, n>>] = c(s)]
    BY <1>12 DEF ReceiveEvent
  <2>2. \A s \in {"SUCCEEDED", "FAILED", charge[<<r, n>>].local}: c(s) \in ChargeType
    BY <2>0 DEF ChargeType
  <2> HIDE DEF c
  <2>3. charge' \in [Rows \X Attempts -> ChargeType]
    BY <2>1, <2>2, ChargeOK
  <2>4. WorkInv'
    <3>1. charge[<<r, n>>].event \in {"succeeded", "failed"}
      BY <1>12, <2>0 DEF ReceiveEvent, ChargeType
    <3>2. n \in 0..MaxAttempts
      BY PaymentsAssumption DEF Attempts
    <3>3. UNCHANGED work \/ work' = [work EXCEPT ![h] = [Idle EXCEPT !.at = charge[<<r, n>>].event, !.row = r, !.n = n]]
      BY <1>12 DEF ReceiveEvent
    <3>4. CASE UNCHANGED work
      BY <3>4 DEF WorkInv
    <3> QED
      BY <3>1, <3>2, <3>3, <3>4, RowWorkOK DEF WithCharge
  <2> QED
    BY <1>12, <2>3, <2>4 DEF ReceiveEvent, PayInv
<1>13. ASSUME NEW h \in Procs, NEW q \in Quotes, Sweep(h, q) \/ ReadExpired(h, q) PROVE TypeInv'
  <2>1. WorkInv'
    BY <1>13, QuoteWorkOK DEF Sweep, ReadExpired
  <2> QED
    BY <1>13, <2>1 DEF Sweep, ReadExpired, PayInv
<1>14. ASSUME NEW h \in Procs, NEW s \in work[h].todo, RefundCharge(h, s) PROVE TypeInv'
  <2> DEFINE a == <<s.row, s.charge>>
             c == [charge[a] EXCEPT !.local = "REFUNDED", !.stripe = "refunded"]
  <2>1. s \in SnapshotType
    BY <1>0 DEF WorkType
  <2>2. s.row \in Rows /\ s.charge \in 0..MaxAttempts
    BY <2>1 DEF SnapshotType
  <2>3. UNCHANGED charge \/ (s.charge # 0 /\ charge' = [charge EXCEPT ![a] = c])
    BY <1>14 DEF RefundCharge
  <2>4. s.charge # 0 => s.charge \in Attempts /\ c \in ChargeType
    <3>1. s.charge # 0 => s.charge \in Attempts
      BY <2>2, PaymentsAssumption DEF Attempts
    <3>2. s.charge # 0 => charge[a] \in ChargeType
      BY <2>2, <3>1
    <3>3. charge[a] \in ChargeType => c \in ChargeType
      BY DEF ChargeType
    <3> QED
      BY <3>1, <3>2, <3>3
  <2> HIDE DEF c
  <2>5. charge' \in [Rows \X Attempts -> ChargeType]
    BY <2>2, <2>3, <2>4, ChargeOK
  <2>6. WorkInv'
    BY <1>14, TakeOK DEF RefundCharge
  <2>7. faults' \in 0..MaxFaults
    BY <1>14, PaymentsAssumption DEF RefundCharge, Fault
  <2> QED
    BY <1>14, <2>5, <2>6, <2>7 DEF RefundCharge, PayInv
<1>15. ASSUME NEW u \in Users, ConfirmSettled(u) PROVE TypeInv'
  <2> DEFINE r == <<group.quote, u>>
  <2>1. r \in Rows
    BY <1>15 DEF ConfirmSettled, MayConfirm, GroupType, Rows
  <2>2. UNCHANGED pay \/ pay' = [pay EXCEPT ![r].status = "SUCCEEDED"]
    BY <1>15 DEF ConfirmSettled
  <2>3. PayInv'
    <3>1. 0 \in 0..MaxAttempts
      BY PaymentsAssumption
    <3>2. CASE UNCHANGED pay
      BY <3>2 DEF PayInv
    <3> QED
      BY <2>1, <2>2, <3>1, <3>2, PayRowOK
  <2> QED
    BY <1>15, <2>3, GateOK DEF ConfirmSettled, WorkInv
<1>16. ASSUME NEW q \in Quotes, Expires(q) PROVE TypeInv'
  BY <1>16 DEF Expires, PayInv, WorkInv
<1> QED
  BY <1>1, <1>2, <1>3, <1>4, <1>5, <1>6, <1>7, <1>8, <1>9, <1>10, <1>11, <1>12, <1>13, <1>14, <1>15, <1>16, <1>17
  DEF MoneyNext

\* A handler that read the group before the routing call.
LEMMA LoadWorkOK ==
  ASSUME WorkInv, NEW h \in Procs, NEW members \in SUBSET Users, members # {}, NEW version \in Nat,
         work' = [work EXCEPT ![h] = [Idle EXCEPT !.at = "quote", !.members = members, !.version = version]]
  PROVE  WorkInv'
<1> DEFINE w == [Idle EXCEPT !.at = "quote", !.members = members, !.version = version]
<1>1. Idle \in WorkType /\ Idle.todo = {}
  BY IdleOK DEF WorkOK, Idle
<1>2. w.at = "quote" /\ w.members = members /\ w.todo = {}
  BY <1>1 DEF WorkType
<1>3. w \in WorkType
  BY <1>1 DEF WorkType, WorkAt
<1>4. work' = [work EXCEPT ![h] = w]
  OBVIOUS
<1> HIDE DEF w
<1>5. WorkOK(w)
  BY <1>2, <1>3 DEF WorkOK, WithCharge
<1> QED
  BY <1>4, <1>5, SetWork

\* The steps of the group and its ride keep the types.
LEMMA StepType == TypeInv /\ [Next]_vars => TypeInv'
<1> SUFFICES ASSUME TypeInv, [Next]_vars PROVE TypeInv'
  OBVIOUS
<1> USE DEF TypeInv, On, groupRest, rideRest
<1>0. /\ pay \in [Rows -> PaymentType] /\ work \in [Procs -> WorkType]
      /\ \A h \in Procs: WorkOK(work[h]) /\ work[h] \in WorkType
  BY DEF PayInv, WorkInv
<1>1. CASE MoneyNext /\ UNCHANGED <<pickup, invited, ride, reopened>>
  BY <1>1, MoneyTypes
<1>2. ASSUME NEW h \in Procs, SetDestination(h) PROVE TypeInv'
  <2>1. Joined(group) \in GroupType
    BY BumpOK
  <2>2. Reconfigure(h, Joined(group))
    BY <1>2 DEF SetDestination
  <2>3. group' \in GroupType /\ quote' \in [Quotes -> QuoteStatus] /\ PayInv' /\ WorkInv'
    BY <2>1, <2>2, ReconfigureOK
  <2> QED
    BY <1>2, <2>2, <2>3 DEF SetDestination, Reconfigure
<1>3. ASSUME NEW h \in Procs, LoadQuoteContext(h) PROVE TypeInv'
  <2>1. Active \subseteq Users /\ Active # {}
    BY <1>3 DEF LoadQuoteContext, Active
  <2>2. group.version \in Nat
    BY DEF GroupType
  <2>3. WorkInv'
    BY <1>3, <2>1, <2>2, LoadWorkOK DEF LoadQuoteContext
  <2> QED
    BY <1>3, <2>3 DEF LoadQuoteContext, PayInv
<1>4. ASSUME NEW h \in Procs, CreateQuote(h) PROVE TypeInv'
  <2>1. group' \in GroupType /\ quote' \in [Quotes -> QuoteStatus] /\ PayInv' /\ WorkInv'
    BY <1>4, CreateQuoteTypes
  <2>2. reopened' \in BOOLEAN
    BY <1>4 DEF CreateQuote
  <2> QED
    BY <1>4, <2>1, <2>2 DEF CreateQuote
<1>5. ASSUME NEW h \in Procs, RequestRide(h) \/ RequestExpired(h) PROVE TypeInv'
  <2>1. group.quote \in Quotes
    BY <1>5 DEF RequestRide, RequestExpired, GroupType
  <2>2. WorkInv'
    BY <1>5, <2>1, QuoteWorkOK DEF RequestRide, RequestExpired
  <2>3. quote' \in [Quotes -> QuoteStatus]
    BY <1>5, <2>1 DEF RequestRide, RequestExpired, QuoteStatus
  <2> QED
    BY <1>5, <2>2, <2>3 DEF RequestRide, RequestExpired, PayInv
<1>6. ASSUME NEW h \in Procs, Book(h) PROVE TypeInv'
  <2>1. work[h].quote \in Quotes
    BY <1>0, <1>6 DEF Book, WorkOK
  <2>2. quote' \in [Quotes -> QuoteStatus] /\ ride' \in RideType
    BY <1>6, <2>1 DEF Book, QuoteStatus, RideType, Live
  <2>3. group' \in GroupType
    BY <1>6, StatusOK DEF Book, RideActive
  <2> QED
    BY <1>6, <2>2, <2>3, RestOK DEF Book, PayInv
<1>7. ASSUME NEW h \in Procs, CancelGroup(h) PROVE TypeInv'
  <2>1. group' \in GroupType /\ invited' \in [Users -> InvitedStatus]
    BY <1>7, StatusOK DEF CancelGroup, Final, InvitedStatus
  <2>2. \E at \in {"selectQuotes", "cancelRide"}: Goto(h, at)
    BY <1>7 DEF CancelGroup
  <2>3. WorkInv'
    BY <2>2, GotoOK DEF WorkAt, Free
  <2> QED
    BY <1>7, <2>1, <2>3 DEF CancelGroup, PayInv
<1>8. ASSUME NEW h \in Procs, AcceptTrip(h) \/ ReleaseByDriver(h) \/ CompleteTrip(h) PROVE TypeInv'
  <2>1. \E at \in {"assigned", "released", "completed"}: Goto(h, at)
    BY <1>8 DEF AcceptTrip, ReleaseByDriver, CompleteTrip
  <2>2. WorkInv'
    BY <2>1, GotoOK DEF WorkAt, Free
  <2>3. ride' \in RideType
    BY <1>8 DEF AcceptTrip, ReleaseByDriver, CompleteTrip, RideType, Live
  <2> QED
    BY <1>8, <2>2, <2>3 DEF AcceptTrip, ReleaseByDriver, CompleteTrip, PayInv
<1>9. ASSUME NEW h \in Procs, OnDriverAssigned(h) PROVE TypeInv'
  <2>1. group' \in GroupType
    <3>1. [group EXCEPT !.status = "DRIVER_ASSIGNED"] \in GroupType
      BY StatusOK DEF RideActive
    <3>2. group' \in {group, [group EXCEPT !.status = "DRIVER_ASSIGNED"]}
      BY <1>9 DEF OnDriverAssigned
    <3> QED
      BY <3>1, <3>2
  <2>2. member' \in [Users -> MemberStatus]
    BY <1>9 DEF OnDriverAssigned, MemberStatus
  <2>3. ride' \in RideType
    BY <1>9 DEF OnDriverAssigned, RideType
  <2>4. faults' \in 0..MaxFaults
    BY <1>9, PaymentsAssumption DEF OnDriverAssigned, Fault
  <2> QED
    BY <1>9, <2>1, <2>2, <2>3, <2>4, RestOK DEF OnDriverAssigned, PayInv
<1>10. ASSUME NEW h \in Procs, OnReleased(h) \/ OnStarted(h) PROVE TypeInv'
  <2>1. group' \in GroupType
    BY <1>10, StatusOK DEF OnReleased, OnStarted, RideActive
  <2>2. WorkInv'
    BY <1>10, RestOK DEF OnReleased, OnStarted
  <2>3. UNCHANGED <<member, rideRest, ride>>
    BY <1>10 DEF OnReleased, OnStarted
  <2> QED
    BY <2>1, <2>2, <2>3 DEF PayInv
<1>11. ASSUME NEW h \in Procs, StartTrip(h) PROVE TypeInv'
  <2>1. Rest(h) \/ \E at \in {"started", "restarted"}: Goto(h, at)
    BY <1>11 DEF StartTrip
  <2>2. WorkInv'
    BY <2>1, GotoOK, RestOK DEF WorkAt, Free
  <2>3. ride' \in RideType
    BY <1>11 DEF StartTrip, RideType, Live
  <2> QED
    BY <1>11, <2>2, <2>3 DEF StartTrip, PayInv
<1>12. ASSUME NEW h \in Procs, OnRideCompleted(h) PROVE TypeInv'
  <2>1. group' \in GroupType
    BY <1>12, StatusOK DEF OnRideCompleted, Final
  <2>2. member' \in [Users -> MemberStatus]
    BY <1>12 DEF OnRideCompleted, MemberStatus
  <2> QED
    BY <1>12, <2>1, <2>2, RestOK DEF OnRideCompleted, PayInv
<1>13. ASSUME NEW h \in Procs, CancelTrip(h) PROVE TypeInv'
  <2>1. Rest(h) \/ Goto(h, "cancelled")
    BY <1>13 DEF CancelTrip
  <2>2. WorkInv'
    BY <2>1, GotoOK, RestOK DEF WorkAt, Free
  <2>3. ride' \in RideType
    BY <1>13 DEF CancelTrip, RideType
  <2> QED
    BY <1>13, <2>2, <2>3 DEF CancelTrip, PayInv
<1>14. ASSUME NEW h \in Procs, OnRideCancelled(h) PROVE TypeInv'
  <2>1. group' \in GroupType
    BY <1>14, StatusOK DEF OnRideCancelled, Final
  <2>2. member' \in [Users -> MemberStatus]
    BY <1>14 DEF OnRideCancelled, MemberStatus
  <2>3. WorkInv'
    BY <1>14, GotoOK DEF OnRideCancelled, WorkAt, Free
  <2> QED
    BY <1>14, <2>1, <2>2, <2>3 DEF OnRideCancelled, PayInv
<1>15. ASSUME NEW h \in Procs, NEW u \in Users, AcceptInvitation(h, u) PROVE TypeInv'
  <2>1. Reconfigure(h, Joined(group)) /\ Joined(group) \in GroupType
    BY <1>15, BumpOK DEF AcceptInvitation
  <2>2. group' \in GroupType /\ quote' \in [Quotes -> QuoteStatus] /\ PayInv' /\ WorkInv'
    BY <2>1, ReconfigureOK
  <2>3. member' \in [Users -> MemberStatus] /\ invited' \in [Users -> InvitedStatus]
    BY <1>15 DEF AcceptInvitation, MemberStatus, InvitedStatus
  <2> QED
    BY <1>15, <2>1, <2>2, <2>3 DEF AcceptInvitation, Reconfigure
<1>16. ASSUME NEW h \in Procs, NEW u \in Users, RemoveMember(h, u) PROVE TypeInv'
  <2>1. Reconfigure(h, group)
    BY <1>16 DEF RemoveMember
  <2>2. group' \in GroupType /\ quote' \in [Quotes -> QuoteStatus] /\ PayInv' /\ WorkInv'
    BY <2>1, ReconfigureOK
  <2>3. member' \in [Users -> MemberStatus]
    BY <1>16 DEF RemoveMember, MemberStatus
  <2> QED
    BY <1>16, <2>1, <2>2, <2>3 DEF RemoveMember, Reconfigure
<1>17. ASSUME NEW h \in Procs, NEW u \in Users, LeaveGroup(h, u) PROVE TypeInv'
  <2>1. PICK g \in GroupType: Reconfigure(h, g)
    <3>1. [group EXCEPT !.status = "CANCELLED"] \in GroupType
      BY StatusOK DEF Final
    <3>2. \A v \in Users: [group EXCEPT !.host = v] \in GroupType
      BY DEF GroupType
    <3>3. Active \subseteq Users
      BY DEF Active
    <3> QED
      BY <1>17, <3>1, <3>2, <3>3 DEF LeaveGroup
  <2>2. group' \in GroupType /\ quote' \in [Quotes -> QuoteStatus] /\ PayInv' /\ WorkInv'
    BY <2>1, ReconfigureOK
  <2>3. member' \in [Users -> MemberStatus]
    BY <1>17 DEF LeaveGroup, MemberStatus
  <2>4. invited' \in [Users -> InvitedStatus]
    BY <1>17 DEF LeaveGroup, InvitedStatus
  <2> QED
    BY <1>17, <2>1, <2>2, <2>3, <2>4 DEF LeaveGroup, Reconfigure
<1>18. ASSUME NEW h \in Procs, NEW u \in Users, SetPickup(h, u) PROVE TypeInv'
  <2>1. Reconfigure(h, group)
    BY <1>18 DEF SetPickup
  <2>2. group' \in GroupType /\ quote' \in [Quotes -> QuoteStatus] /\ PayInv' /\ WorkInv'
    BY <2>1, ReconfigureOK
  <2> QED
    BY <1>18, <2>1, <2>2 DEF SetPickup, Reconfigure
<1>19. ASSUME NEW h \in Procs, NEW u \in Users, ResolvePickup(h, u) PROVE TypeInv'
  <2>1. UNCHANGED work \/ \E at \in {"start", "restart"}: Goto(h, at)
    BY <1>19 DEF ResolvePickup
  <2>2. WorkInv'
    <3>1. CASE UNCHANGED work
      BY <3>1 DEF WorkInv
    <3> QED
      BY <2>1, <3>1, GotoOK DEF WorkAt, Free
  <2>3. member' \in [Users -> MemberStatus]
    BY <1>19 DEF ResolvePickup, MemberStatus
  <2> QED
    BY <1>19, <2>2, <2>3 DEF ResolvePickup, PayInv
<1>20. ASSUME NEW u \in Users, InviteFriend(u) \/ CloseInvitation(u) PROVE TypeInv'
  BY <1>20 DEF InviteFriend, CloseInvitation, InvitedStatus, moneyVars, PayInv, WorkInv
<1>21. CASE NoDriver \/ PickUpRider
  BY <1>21 DEF NoDriver, PickUpRider, RideType, Live, moneyVars, PayInv, WorkInv
<1>22. CASE UNCHANGED vars
  BY <1>22 DEF vars, moneyVars, PayInv, WorkInv
<1> QED
  BY <1>1, <1>2, <1>3, <1>4, <1>5, <1>6, <1>7, <1>8, <1>9, <1>10, <1>11, <1>12, <1>13, <1>14, <1>15, <1>16,
     <1>17, <1>18, <1>19, <1>20, <1>21, <1>22 DEF Next

\* Every variable keeps its type, for any handlers, users, quotes and amounts.
THEOREM GroupsTypes == Spec => []TypeOK
<1>1. TypeInv => TypeOK
  BY DEF TypeInv, TypeOK, PayInv, WorkInv, GroupType, MemberStatus, QuoteStatus, InvitedStatus, RideType
<1> QED
  BY <1>1, InitType, StepType, PTL DEF Spec


-----------------------------------------------------------------------------
(* The payment rows: what a step does to them, and that a handler, an       *)
(* attempt or a snapshot only knows of rows that exist.                     *)

\* A handler between the start of an attempt and its record.
Charging == {"charge", "record", "recordFailure", "update", "decline"}

\* What work w knows of the rows p: they exist, its attempt was counted, and
\* credits it saw on a share are still the credits of that share.
Good(w, p) ==
  /\ w.at \in WithCharge \cup {"update"} => p[w.row].status # "none" /\ w.n <= p[w.row].attempts
  /\ \A s \in w.todo: p[s.row].status # "none" /\ (s.credit > 0 => s.credit = p[s.row].credit)

RowsInv ==
  /\ \A r \in Rows: pay[r].status = "none" => pay[r] = NoPayment
  /\ \A r \in Rows: quote[r[1]] = "none" => pay[r].status = "none"
  /\ \A r \in Rows, n \in Attempts: charge[<<r, n>>] # NoCharge => n <= pay[r].attempts
  /\ \A h \in Procs: Good(work[h], pay)

\* Why share r succeeds: a handler wrote down or was told that it is paid, or
\* the charge it names is known to have been.
Succeeds(r) ==
  \/ \E h \in Procs: work[h].at \in {"update", "succeeded"} /\ work[h].row = r
  \/ pay[r].status = "PROCESSING" /\ Outcome(r) = "SUCCEEDED"

\* One row gets another status, and may name another charge.
StatusStep ==
  \E r \in Rows, s \in {"SUCCEEDED", "FAILED", "REFUNDED"}, n \in 0..MaxAttempts:
    /\ pay[r].status # "none"
    /\ s = "SUCCEEDED" => Succeeds(r)
    /\ \/ pay' = [pay EXCEPT ![r].status = s]
       \/ pay' = [pay EXCEPT ![r].status = s, ![r].charge = n]

\* The steps that touch a payment row.
LEMMA PayCases ==
  ASSUME TypeInv, RowsInv, [Next]_vars
  PROVE  \/ UNCHANGED pay
         \/ StatusStep
         \/ pay' = Invalidated(pay)
         \/ \E h \in Procs: CreateQuote(h)
         \/ \E h \in Procs, u \in Users: ConfirmPayment(h, u)
<1> DEFINE Goal ==
         \/ UNCHANGED pay
         \/ StatusStep
         \/ pay' = Invalidated(pay)
         \/ \E h \in Procs: CreateQuote(h)
         \/ \E h \in Procs, u \in Users: ConfirmPayment(h, u)
<1> USE DEF On
<1>0. /\ pay \in [Rows -> PaymentType] /\ \A h \in Procs: WorkOK(work[h]) /\ work[h] \in WorkType
      /\ 0 \in 0..MaxAttempts
  BY PaymentsAssumption DEF TypeInv, PayInv, WorkInv
<1>1. ASSUME NEW h \in Procs, ConfirmUpdate(h) PROVE StatusStep
  <2> DEFINE r == work[h].row
             n == work[h].n
             m == IF n = 0 THEN pay[r].charge ELSE n
             k == IF charge[<<r, n>>] = NoCharge THEN 0 ELSE n
  <2>1. r \in Rows /\ n \in 0..MaxAttempts /\ pay[r].status # "none"
    BY <1>0, <1>1 DEF ConfirmUpdate, WorkOK, WithCharge, WorkType, RowsInv, Good
  <2>2. m \in 0..MaxAttempts /\ k \in 0..MaxAttempts
    BY <1>0, <2>1 DEF PaymentType
  <2>3. \/ On(h, "update") /\ pay' = [pay EXCEPT ![r].status = "SUCCEEDED", ![r].charge = m]
        \/ pay' = [pay EXCEPT ![r].status = "FAILED", ![r].charge = k]
    BY <1>1, <1>0, <2>1 DEF ConfirmUpdate
  <2>4. On(h, "update") => Succeeds(r)
    BY DEF Succeeds
  <2> HIDE DEF m, k, r
  <2> QED
    BY <2>1, <2>2, <2>3, <2>4 DEF StatusStep
<1>2. ASSUME NEW h \in Procs, ApplySuccess(h) \/ ApplyFailure(h) PROVE StatusStep \/ UNCHANGED pay
  <2> DEFINE r == work[h].row
             n == Named(r, work[h].n)
  <2>1. r \in Rows /\ n \in 0..MaxAttempts /\ pay[r].status # "none"
    BY <1>0, <1>2 DEF ApplySuccess, ApplyFailure, WorkOK, WithCharge, WorkType, Named, PaymentType, RowsInv, Good
  <2>2. CASE ApplySuccess(h)
    <3>1. UNCHANGED pay \/ pay' = [pay EXCEPT ![r].status = "SUCCEEDED", ![r].charge = n]
      BY <2>2 DEF ApplySuccess
    <3>2. Succeeds(r)
      BY <2>2 DEF ApplySuccess, Succeeds
    <3> HIDE DEF n, r
    <3> QED
      BY <2>1, <3>1, <3>2 DEF StatusStep
  <2>3. CASE ApplyFailure(h)
    <3>1. UNCHANGED pay \/ pay' = [pay EXCEPT ![r].status = "FAILED", ![r].charge = n]
      BY <2>3 DEF ApplyFailure
    <3> HIDE DEF n, r
    <3> QED
      BY <2>1, <3>1 DEF StatusStep
  <2> QED
    BY <1>2, <2>2, <2>3
<1>3. ASSUME NEW h \in Procs, RefundMark(h) PROVE StatusStep
  <2>1. PICK s \in work[h].todo: s.row = work[h].row
    BY <1>0, <1>3 DEF RefundMark, WorkOK
  <2>2. s.row \in Rows /\ pay[s.row].status # "none"
    BY <1>0, <2>1 DEF WorkType, SnapshotType, RowsInv, Good
  <2>3. pay' = [pay EXCEPT ![s.row].status = "REFUNDED"]
    BY <1>3, <2>1 DEF RefundMark
  <2> QED
    BY <1>0, <2>2, <2>3 DEF StatusStep
<1>4. ASSUME NEW u \in Users, ConfirmSettled(u) PROVE StatusStep \/ UNCHANGED pay
  <2> DEFINE r == <<group.quote, u>>
  <2>1. r \in Rows
    BY <1>4 DEF ConfirmSettled, MayConfirm, TypeInv, GroupType, Rows
  <2>2. UNCHANGED pay \/ (pay[r].status = "PROCESSING" /\ Succeeds(r) /\ pay' = [pay EXCEPT ![r].status = "SUCCEEDED"])
    BY <1>4 DEF ConfirmSettled, Succeeds
  <2> HIDE DEF r
  <2> QED
    BY <1>0, <2>1, <2>2 DEF StatusStep
<1>5. ASSUME MoneyNext PROVE Goal
  <2>1. ASSUME NEW h \in Procs,
               \/ ChargeStripe(h) \/ ChargeUpdate(h)
               \/ RefundQuotePayments(h) \/ RefundGroupPayments(h) \/ SelectQuotes(h) \/ RefundNextQuote(h)
               \/ RefundCredit(h) \/ RefundSkipped(h)
               \/ ExpireQuote(h) \/ Crash(h)
               \/ \E r \in Rows, n \in Attempts: ReceiveEvent(h, r, n)
               \/ \E q \in Quotes: Sweep(h, q) \/ ReadExpired(h, q)
               \/ \E s \in work[h].todo: RefundCharge(h, s)
        PROVE  UNCHANGED pay
    BY <2>1 DEF ChargeStripe, ChargeUpdate, RefundQuotePayments, RefundGroupPayments, SelectQuotes,
       RefundNextQuote, RefundCredit, RefundSkipped,
                ExpireQuote, Crash, ReceiveEvent, Sweep, ReadExpired, RefundCharge
  <2>2. ASSUME NEW q \in Quotes, Expires(q) PROVE UNCHANGED pay
    BY <2>2 DEF Expires
  <2> QED
    BY <1>1, <1>2, <1>3, <1>4, <1>5, <2>1, <2>2 DEF MoneyNext
<1>6. ASSUME NEW h \in Procs, NEW g, Reconfigure(h, g) PROVE UNCHANGED pay \/ pay' = Invalidated(pay)
  BY <1>6 DEF Reconfigure
<1>7. ASSUME NEW h \in Procs,
             \/ SetDestination(h) \/ LoadQuoteContext(h)
             \/ RequestRide(h) \/ RequestExpired(h) \/ Book(h) \/ CancelGroup(h)
             \/ AcceptTrip(h) \/ OnDriverAssigned(h) \/ ReleaseByDriver(h) \/ OnReleased(h)
             \/ StartTrip(h) \/ OnStarted(h) \/ CompleteTrip(h) \/ OnRideCompleted(h)
             \/ CancelTrip(h) \/ OnRideCancelled(h)
      PROVE  UNCHANGED pay \/ pay' = Invalidated(pay)
  BY <1>6, <1>7 DEF SetDestination, LoadQuoteContext, RequestRide, RequestExpired, Book, CancelGroup, AcceptTrip,
       OnDriverAssigned, ReleaseByDriver, OnReleased, StartTrip, OnStarted, CompleteTrip, OnRideCompleted,
       CancelTrip, OnRideCancelled, rideRest
<1>8. ASSUME NEW h \in Procs, NEW u \in Users,
             \/ AcceptInvitation(h, u) \/ RemoveMember(h, u) \/ LeaveGroup(h, u)
             \/ SetPickup(h, u) \/ ResolvePickup(h, u)
      PROVE  UNCHANGED pay \/ pay' = Invalidated(pay)
  BY <1>6, <1>8 DEF AcceptInvitation, RemoveMember, LeaveGroup, SetPickup, ResolvePickup, rideRest
<1>9. ASSUME (\E u \in Users: InviteFriend(u) \/ CloseInvitation(u)) \/ NoDriver \/ PickUpRider \/ UNCHANGED vars
      PROVE  UNCHANGED pay
  BY <1>9 DEF InviteFriend, CloseInvitation, NoDriver, PickUpRider, vars, moneyVars
<1> QED
  BY <1>5, <1>7, <1>8, <1>9 DEF Next

\* The steps that touch a quote.
LEMMA QuoteCases ==
  ASSUME TypeInv, [Next]_vars
  PROVE  \/ UNCHANGED quote
         \/ \E q \in Quotes: quote[q] = "ACTIVE" /\ Unlocked /\ quote' = [quote EXCEPT ![q] = "EXPIRED"]
         \/ \E h \in Procs: Book(h)
         \/ Unlocked /\ quote' = [q \in Quotes |-> IF q \in ActiveQuote THEN "SUPERSEDED" ELSE quote[q]]
         \/ \E h \in Procs: CreateQuote(h)
<1> DEFINE Marked == \E q \in Quotes: quote[q] = "ACTIVE" /\ Unlocked /\ quote' = [quote EXCEPT ![q] = "EXPIRED"]
           Superseded == Unlocked /\ quote' = [q \in Quotes |-> IF q \in ActiveQuote THEN "SUPERSEDED" ELSE quote[q]]
<1> USE DEF On
<1>0. \A h \in Procs: WorkOK(work[h]) /\ work[h] \in WorkType
  BY DEF TypeInv, WorkInv
<1>1. ASSUME NEW h \in Procs, ExpireQuote(h) PROVE Marked \/ UNCHANGED quote
  <2>1. work[h].quote \in Quotes
    BY <1>0, <1>1 DEF ExpireQuote, WorkOK
  <2> QED
    BY <1>1, <2>1 DEF ExpireQuote
<1>2. ASSUME NEW h \in Procs, RequestExpired(h) PROVE Marked
  <2>1. group.quote \in Quotes
    BY <1>2 DEF RequestExpired, TypeInv, GroupType
  <2> QED
    BY <1>2, <2>1 DEF RequestExpired
<1>3. ASSUME NEW h \in Procs, NEW g, Reconfigure(h, g) PROVE Superseded \/ UNCHANGED quote
  BY <1>3 DEF Reconfigure
<1>4. ASSUME MoneyNext PROVE Marked \/ UNCHANGED quote
  <2>1. ASSUME NEW h \in Procs,
               \/ ChargeStripe(h) \/ ChargeUpdate(h) \/ ConfirmUpdate(h)
               \/ ApplySuccess(h) \/ ApplyFailure(h)
               \/ RefundQuotePayments(h) \/ RefundGroupPayments(h) \/ SelectQuotes(h) \/ RefundNextQuote(h)
               \/ RefundCredit(h) \/ RefundMark(h) \/ RefundSkipped(h) \/ Crash(h)
               \/ \E u \in Users: ConfirmPayment(h, u)
               \/ \E r \in Rows, n \in Attempts: ReceiveEvent(h, r, n)
               \/ \E q \in Quotes: Sweep(h, q) \/ ReadExpired(h, q)
               \/ \E s \in work[h].todo: RefundCharge(h, s)
        PROVE  UNCHANGED quote
    BY <2>1 DEF ChargeStripe, ChargeUpdate, ConfirmUpdate, ApplySuccess, ApplyFailure, RefundQuotePayments,
         RefundGroupPayments, SelectQuotes, RefundNextQuote, RefundCredit, RefundMark, RefundSkipped, Crash,
         ConfirmPayment, ReceiveEvent, Sweep,
         ReadExpired, RefundCharge
  <2>2. ASSUME (\E u \in Users: ConfirmSettled(u)) \/ (\E q \in Quotes: Expires(q)) PROVE UNCHANGED quote
    BY <2>2 DEF Expires, ConfirmSettled
  <2> QED
    BY <1>1, <1>4, <2>1, <2>2 DEF MoneyNext
<1>5. ASSUME NEW h \in Procs,
             \/ SetDestination(h) \/ LoadQuoteContext(h)
             \/ RequestRide(h) \/ CancelGroup(h)
             \/ AcceptTrip(h) \/ OnDriverAssigned(h) \/ ReleaseByDriver(h) \/ OnReleased(h)
             \/ StartTrip(h) \/ OnStarted(h) \/ CompleteTrip(h) \/ OnRideCompleted(h)
             \/ CancelTrip(h) \/ OnRideCancelled(h)
      PROVE  Superseded \/ UNCHANGED quote
  BY <1>3, <1>5 DEF SetDestination, LoadQuoteContext, RequestRide, CancelGroup, AcceptTrip,
       OnDriverAssigned, ReleaseByDriver, OnReleased, StartTrip, OnStarted, CompleteTrip, OnRideCompleted,
       CancelTrip, OnRideCancelled, rideRest
<1>6. ASSUME NEW h \in Procs, NEW u \in Users,
             \/ AcceptInvitation(h, u) \/ RemoveMember(h, u) \/ LeaveGroup(h, u)
             \/ SetPickup(h, u) \/ ResolvePickup(h, u)
      PROVE  Superseded \/ UNCHANGED quote
  BY <1>3, <1>6 DEF AcceptInvitation, RemoveMember, LeaveGroup, SetPickup, ResolvePickup, rideRest
<1>7. ASSUME (\E u \in Users: InviteFriend(u) \/ CloseInvitation(u)) \/ NoDriver \/ PickUpRider \/ UNCHANGED vars
      PROVE  UNCHANGED quote
  BY <1>7 DEF InviteFriend, CloseInvitation, NoDriver, PickUpRider, vars, moneyVars
<1> QED
  BY <1>1, <1>2, <1>4, <1>5, <1>6, <1>7 DEF Next

\* What CreateQuote makes, when it does not give up.
Created(h, q, method, share) ==
  /\ On(h, "quote")
  /\ SameConfiguration(h)
  /\ quote[q] = "none"
  /\ share \in Shares(method, group.host, work[h].members)
  /\ pay' = [r \in Rows |->
       IF r[1] = q /\ r[2] \in work[h].members
         THEN [NoPayment EXCEPT !.amount = share[r[2]],
                 !.status = IF share[r[2]] > 0 THEN "PENDING" ELSE "NOT_REQUIRED"]
         ELSE Invalidated(pay)[r]]
  /\ group' = [Bump(group) EXCEPT !.quote = q,
       !.status = IF \A u \in work[h].members: share[u] = 0
                    THEN "READY_TO_REQUEST" ELSE "AWAITING_PAYMENT"]
  /\ quote' = [p \in Quotes |-> IF p = q THEN "ACTIVE"
                                ELSE IF p \in ActiveQuote THEN "SUPERSEDED" ELSE quote[p]]

\* The two outcomes of createQuote.
LEMMA CreateQuoteStep ==
  ASSUME NEW h \in Procs, CreateQuote(h)
  PROVE  \/ UNCHANGED <<group, quote, pay, reopened>> /\ Rest(h)
         \/ \E q \in Quotes, method \in Methods: \E share: Created(h, q, method, share)
<1>1. CASE UNCHANGED <<group, quote, pay, reopened>> /\ Rest(h)
  BY <1>1
<1>2. CASE ~ (UNCHANGED <<group, quote, pay, reopened>> /\ Rest(h))
  <2>1. On(h, "quote") /\ SameConfiguration(h)
    BY <1>2 DEF CreateQuote
  <2>2. PICK q \in Quotes, method \in Methods:
             /\ quote[q] = "none"
             /\ \E share \in Shares(method, group.host, work[h].members):
                  /\ pay' = [r \in Rows |->
                       IF r[1] = q /\ r[2] \in work[h].members
                         THEN [NoPayment EXCEPT !.amount = share[r[2]],
                                 !.status = IF share[r[2]] > 0 THEN "PENDING" ELSE "NOT_REQUIRED"]
                         ELSE Invalidated(pay)[r]]
                  /\ group' = [Bump(group) EXCEPT !.quote = q,
                       !.status = IF \A u \in work[h].members: share[u] = 0
                                    THEN "READY_TO_REQUEST" ELSE "AWAITING_PAYMENT"]
             /\ quote' = [p \in Quotes |-> IF p = q THEN "ACTIVE"
                                           ELSE IF p \in ActiveQuote THEN "SUPERSEDED" ELSE quote[p]]
    BY <1>2 DEF CreateQuote
  <2>3. PICK share \in Shares(method, group.host, work[h].members):
                  /\ pay' = [r \in Rows |->
                       IF r[1] = q /\ r[2] \in work[h].members
                         THEN [NoPayment EXCEPT !.amount = share[r[2]],
                                 !.status = IF share[r[2]] > 0 THEN "PENDING" ELSE "NOT_REQUIRED"]
                         ELSE Invalidated(pay)[r]]
                  /\ group' = [Bump(group) EXCEPT !.quote = q,
                       !.status = IF \A u \in work[h].members: share[u] = 0
                                    THEN "READY_TO_REQUEST" ELSE "AWAITING_PAYMENT"]
    BY <2>2
  <2>4. Created(h, q, method, share)
    BY <2>1, <2>2, <2>3, Zenon DEF Created
  <2> QED
    BY <2>4
<1> QED
  BY <1>1, <1>2

\* A share of the new quote.
NewShare(a) == [NoPayment EXCEPT !.amount = a, !.status = IF a > 0 THEN "PENDING" ELSE "NOT_REQUIRED"]

\* The fields of a share just made.
LEMMA NewShareIs ==
  ASSUME NEW a
  PROVE  /\ NewShare(a).amount = a /\ NewShare(a).status \in {"PENDING", "NOT_REQUIRED"}
         /\ NewShare(a).credit = 0 /\ NewShare(a).card = 0 /\ NewShare(a).charge = 0 /\ NewShare(a).attempts = 0
  BY DEF NewShare, NoPayment

\* What becomes of row r when its quote is made, or is not the one made.
LEMMA CreatedRows ==
  ASSUME TypeInv, RowsInv, NEW h \in Procs, NEW q \in Quotes, NEW method \in Methods, NEW share,
         Created(h, q, method, share), NEW r \in Rows
  PROVE  /\ r[1] = q => pay[r] = NoPayment
         /\ r[1] = q /\ r[2] \in work[h].members => pay'[r] = NewShare(share[r[2]])
         /\ r[1] = q /\ r[2] \notin work[h].members => pay'[r] = NoPayment
         /\ r[1] # q => pay'[r] = Invalidated(pay)[r]
<1>1. pay'[r] = IF r[1] = q /\ r[2] \in work[h].members
                  THEN NewShare(share[r[2]]) ELSE Invalidated(pay)[r]
  BY DEF Created, NewShare
<1>2. r[1] = q => pay[r] = NoPayment /\ pay[r].status = "none"
  BY DEF Created, RowsInv
<1>3. r[1] = q => Invalidated(pay)[r] = NoPayment
  BY <1>2 DEF Invalidated
<1> QED
  BY <1>1, <1>2, <1>3

\* Row r after a step that is no confirmation: the money on it stays.
Kept(r) ==
  /\ pay'[r].attempts = pay[r].attempts
  /\ pay'[r].credit = pay[r].credit
  /\ pay'[r].card = pay[r].card

\* Row r after any step: a share that exists stays and so does its amount,
\* credits on it stay, and a share is new only in a quote that is.
Moved(r) ==
  /\ pay[r].status # "none" => pay'[r].status # "none" /\ pay'[r].amount = pay[r].amount
  /\ pay'[r].status = "none" => pay'[r] = NoPayment
  /\ pay[r].status = "none" => pay'[r] = pay[r] \/ (quote[r[1]] = "none" /\ quote'[r[1]] = "ACTIVE")
  /\ pay[r].attempts <= pay'[r].attempts
  /\ pay[r].credit > 0 => pay'[r].credit = pay[r].credit

\* A row whose status alone is changed, or the charge it names.
LEMMA StatusMoves ==
  ASSUME TypeInv, RowsInv, NEW r \in Rows, NEW p,
         \/ p = pay[r]
         \/ /\ pay[r].status # "none" /\ p.status # "none"
            /\ p.attempts = pay[r].attempts /\ p.credit = pay[r].credit /\ p.card = pay[r].card
            /\ p.amount = pay[r].amount,
         pay'[r] = p
  PROVE  Kept(r) /\ Moved(r)
<1>1. pay[r].attempts \in Nat
  BY PaymentsAssumption DEF TypeInv, PayInv, PaymentType
<1> QED
  BY <1>1 DEF Kept, Moved, RowsInv

\* A share closed with its quote moves as the status machine allows.
LEMMA InvalidatedMoves ==
  ASSUME TypeInv, RowsInv, NEW r \in Rows, pay'[r] = Invalidated(pay)[r]
  PROVE  Kept(r) /\ Moved(r)
<1> DEFINE p == [pay[r] EXCEPT !.status = "CANCELLED"]
<1>1. pay[r] \in PaymentType
  BY DEF TypeInv, PayInv
<1>2. p.status = "CANCELLED" /\ p.attempts = pay[r].attempts /\ p.credit = pay[r].credit /\ p.card = pay[r].card
      /\ p.amount = pay[r].amount
  BY <1>1 DEF PaymentType
<1>3. pay'[r] = pay[r] \/ (pay[r].status \in {"PENDING", "PROCESSING", "FAILED"} /\ pay'[r] = p)
  BY DEF Invalidated
<1> HIDE DEF p
<1>4. CASE pay'[r] = pay[r]
  BY <1>4, StatusMoves
<1>5. CASE pay[r].status \in {"PENDING", "PROCESSING", "FAILED"} /\ pay'[r] = p
  BY <1>2, <1>5, StatusMoves
<1> QED
  BY <1>3, <1>4, <1>5

\* So does one whose status is written.
LEMMA StatusStepMoves ==
  ASSUME TypeInv, RowsInv, StatusStep, NEW r \in Rows
  PROVE  Kept(r) /\ Moved(r)
<1>1. PICK k \in Rows, s \in {"SUCCEEDED", "FAILED", "REFUNDED"}, n \in 0..MaxAttempts:
    /\ pay[k].status # "none"
    /\ \/ pay' = [pay EXCEPT ![k].status = s]
       \/ pay' = [pay EXCEPT ![k].status = s, ![k].charge = n]
  BY DEF StatusStep
<1> DEFINE p1 == [pay[k] EXCEPT !.status = s]
           p2 == [pay[k] EXCEPT !.status = s, !.charge = n]
<1>2. pay[k] \in PaymentType /\ pay \in [Rows -> PaymentType]
  BY DEF TypeInv, PayInv
<1>3. p1.status = s /\ p1.attempts = pay[k].attempts /\ p1.credit = pay[k].credit /\ p1.card = pay[k].card
      /\ p1.amount = pay[k].amount
  BY <1>2 DEF PaymentType
<1>4. p2.status = s /\ p2.attempts = pay[k].attempts /\ p2.credit = pay[k].credit /\ p2.card = pay[k].card
      /\ p2.amount = pay[k].amount
  BY <1>2 DEF PaymentType
<1>5. pay' = [pay EXCEPT ![k] = p1] \/ pay' = [pay EXCEPT ![k] = p2]
  BY <1>1, <1>2
<1>6. s # "none"
  OBVIOUS
<1> HIDE DEF p1, p2
<1>7. CASE r # k
  <2>1. pay'[r] = pay[r]
    BY <1>2, <1>5, <1>7
  <2> QED
    BY <2>1, StatusMoves
<1>8. CASE r = k
  <2>1. pay'[r] = p1 \/ pay'[r] = p2
    BY <1>2, <1>5, <1>8
  <2> QED
    BY <1>1, <1>3, <1>4, <1>6, <1>8, <2>1, StatusMoves
<1> QED
  BY <1>7, <1>8

\* So does every row when a quote is made.
LEMMA CreatedMoves ==
  ASSUME TypeInv, RowsInv, NEW h \in Procs, CreateQuote(h), NEW r \in Rows
  PROVE  Kept(r) /\ Moved(r)
<1>1. CASE UNCHANGED pay
  BY <1>1, StatusMoves
<1>2. ASSUME NEW q \in Quotes, NEW method \in Methods, NEW share, Created(h, q, method, share)
      PROVE  Kept(r) /\ Moved(r)
  <2>1. CASE r[1] # q
    BY <1>2, <2>1, CreatedRows, InvalidatedMoves
  <2>2. CASE r[1] = q
    <3>1. pay[r] = NoPayment
      BY <1>2, <2>2, CreatedRows
    <3>2. quote[r[1]] = "none" /\ quote'[r[1]] = "ACTIVE"
      BY <1>2, <2>2 DEF Created
    <3>3. /\ NoPayment.status = "none" /\ NoPayment.attempts = 0 /\ NoPayment.credit = 0 /\ NoPayment.card = 0
      BY DEF NoPayment
    <3>4. pay'[r] = NoPayment \/ pay'[r] = NewShare(share[r[2]])
      BY <1>2, <2>2, CreatedRows
    <3>5. CASE pay'[r] = NoPayment
      BY <3>1, <3>3, <3>5 DEF Kept, Moved
    <3>6. CASE pay'[r] = NewShare(share[r[2]])
      <4>1. pay'[r].status # "none" /\ pay'[r].attempts = 0 /\ pay'[r].credit = 0 /\ pay'[r].card = 0
        BY <3>6, NewShareIs
      <4> QED
        BY <3>1, <3>2, <3>3, <4>1 DEF Kept, Moved
    <3> QED
      BY <3>4, <3>5, <3>6
  <2> QED
    BY <2>1, <2>2
<1> QED
  BY <1>1, <1>2, CreateQuoteStep

\* A confirmation, on its own row: the share exists, the attempt is counted,
\* and credits are put on it only if there were none.
LEMMA ConfirmMoves ==
  ASSUME TypeInv, RowsInv, NEW h \in Procs, NEW u \in Users, ConfirmPayment(h, u), NEW r \in Rows
  PROVE  Moved(r) /\ (r # <<group.quote, u>> => pay'[r] = pay[r])
<1> DEFINE k == <<group.quote, u>>
<1>1. k \in Rows /\ ConfirmStep(h, u) /\ pay[k].status # "none"
  BY ConfirmPaymentStep DEF ConfirmPayment, Retryable
<1>2. PICK applied \in Nat, n \in Attempts:
    /\ n = pay[k].attempts + 1
    /\ applied > 0 => pay[k].credit = 0
    /\ LET credit == pay[k].credit + applied
           card == pay[k].amount - credit IN
       pay' = [pay EXCEPT ![k].status = IF card > 0 THEN "PROCESSING" ELSE "SUCCEEDED",
                          ![k].credit = credit, ![k].card = card, ![k].attempts = n]
  BY <1>1 DEF ConfirmStep
<1> DEFINE credit == pay[k].credit + applied
           card == pay[k].amount - credit
           p == [pay[k] EXCEPT !.status = IF card > 0 THEN "PROCESSING" ELSE "SUCCEEDED",
                               !.credit = credit, !.card = card, !.attempts = n]
<1>3. pay[k] \in PaymentType /\ pay[r] \in PaymentType /\ pay \in [Rows -> PaymentType]
  BY <1>1 DEF TypeInv, PayInv
<1>4. pay[k].attempts \in Nat /\ pay[k].credit \in Nat /\ pay[r].attempts \in Nat
  BY <1>3, PaymentsAssumption DEF PaymentType
<1> HIDE DEF k
<1>5. pay' = [pay EXCEPT ![k] = p]
  BY <1>1, <1>2, <1>3
<1>6. credit > 0 /\ pay[k].credit > 0 => credit = pay[k].credit
  BY <1>2, <1>4
<1> HIDE DEF credit
<1>7. p.status # "none" /\ p.amount = pay[k].amount /\ p.attempts = n /\ p.credit = credit
  BY <1>3 DEF PaymentType
<1>8. pay[k].credit > 0 => credit = pay[k].credit
  BY <1>2, <1>4 DEF credit
<1> HIDE DEF p
<1>9. CASE r # k
  <2>1. pay'[r] = pay[r]
    BY <1>3, <1>5, <1>9
  <2> QED
    BY <2>1, <1>9, StatusMoves DEF k
<1>10. CASE r = k
  <2>1. pay'[k] = p
    BY <1>1, <1>3, <1>5
  <2> QED
    BY <1>1, <1>2, <1>4, <1>7, <1>8, <1>10, <2>1 DEF Moved, k
<1> QED
  BY <1>9, <1>10

\* Every step moves every row so.
LEMMA PayMoves ==
  ASSUME TypeInv, RowsInv, [Next]_vars
  PROVE  /\ \A r \in Rows: Moved(r)
         /\ (\A r \in Rows: Kept(r)) \/ \E h \in Procs, u \in Users: ConfirmPayment(h, u)
<1>1. CASE UNCHANGED pay
  BY <1>1, StatusMoves
<1>2. CASE StatusStep
  BY <1>2, StatusStepMoves
<1>3. CASE pay' = Invalidated(pay)
  BY <1>3, InvalidatedMoves
<1>4. ASSUME NEW h \in Procs, CreateQuote(h) PROVE \A r \in Rows: Kept(r) /\ Moved(r)
  BY <1>4, CreatedMoves
<1>5. ASSUME NEW h \in Procs, NEW u \in Users, ConfirmPayment(h, u) PROVE \A r \in Rows: Moved(r)
  BY <1>5, ConfirmMoves
<1> QED
  BY <1>1, <1>2, <1>3, <1>4, <1>5, PayCases

\* A charge that was made is written about, and nothing happens at Stripe.
RecordStep ==
  \E r \in Rows, n \in Attempts, c \in ChargeType:
    /\ n <= pay[r].attempts
    /\ charge' = [charge EXCEPT ![<<r, n>>] = c]
    /\ c.stripe = charge[<<r, n>>].stripe
    /\ c.event \in {"none", charge[<<r, n>>].event}
    /\ c.local = "SUCCEEDED" => \/ charge[<<r, n>>].local = "SUCCEEDED" \/ charge[<<r, n>>].event = "succeeded"
                               \/ \E h \in Procs: On(h, "record") /\ work[h].row = r /\ work[h].n = n

\* The steps that touch a charge.
LEMMA ChargeCases ==
  ASSUME TypeInv, RowsInv, [Next]_vars
  PROVE  \/ UNCHANGED charge
         \/ RecordStep
         \/ \E h \in Procs: ChargeStripe(h)
         \/ \E h \in Procs: \E s \in work[h].todo: RefundCharge(h, s)
<1> USE DEF On
<1>0. /\ \A h \in Procs: WorkOK(work[h]) /\ work[h] \in WorkType
      /\ charge \in [Rows \X Attempts -> ChargeType]
  BY DEF TypeInv, WorkInv
<1>1. ASSUME NEW h \in Procs, ChargeUpdate(h) PROVE RecordStep
  <2>0. PICK r \in Rows, n \in Attempts: r = work[h].row /\ n = work[h].n /\ n <= pay[r].attempts
    BY <1>0, <1>1 DEF ChargeUpdate, WorkOK, WithCharge, RowsInv, Good
  <2> DEFINE d(s, i) == [charge[<<r, n>>] EXCEPT !.local = s, !.intent = i]
  <2>1. \E s \in {"SUCCEEDED", "FAILED"}, i \in BOOLEAN:
          charge' = [charge EXCEPT ![<<r, n>>] = d(s, i)] /\ (s = "SUCCEEDED" => On(h, "record"))
    <3>1. CASE On(h, "record")
      <4>1. charge' = [charge EXCEPT ![<<r, n>>] = d("SUCCEEDED", TRUE)]
        BY <1>1, <2>0, <3>1 DEF ChargeUpdate
      <4> QED
        BY <3>1, <4>1
    <3>2. CASE On(h, "recordFailure")
      <4>1. PICK named \in BOOLEAN: charge' = [charge EXCEPT ![<<r, n>>] = d("FAILED", named)]
        BY <1>1, <2>0, <3>2 DEF ChargeUpdate
      <4> QED
        BY <4>1
    <3> QED
      BY <1>1, <3>1, <3>2 DEF ChargeUpdate
  <2>2. PICK s \in {"SUCCEEDED", "FAILED"}:
          \E i \in BOOLEAN: charge' = [charge EXCEPT ![<<r, n>>] = d(s, i)] /\ (s = "SUCCEEDED" => On(h, "record"))
    BY <2>1
  <2>5. PICK i \in BOOLEAN: charge' = [charge EXCEPT ![<<r, n>>] = d(s, i)] /\ (s = "SUCCEEDED" => On(h, "record"))
    BY <2>2
  <2> DEFINE c == d(s, i)
  <2>3. /\ c \in ChargeType /\ c.stripe = charge[<<r, n>>].stripe
        /\ c.event = charge[<<r, n>>].event /\ c.local = s
    <3>1. charge[<<r, n>>] \in ChargeType
      BY <1>0
    <3> QED
      BY <3>1 DEF ChargeType
  <2>4. s = "SUCCEEDED" => \E k \in Procs: On(k, "record") /\ work[k].row = r /\ work[k].n = n
    BY <2>0, <2>5
  <2> HIDE DEF c, d
  <2> QED
    BY <2>0, <2>5, <2>3, <2>4 DEF RecordStep, c
<1>2. ASSUME NEW h \in Procs, NEW r \in Rows, NEW n \in Attempts, ReceiveEvent(h, r, n) PROVE RecordStep
  <2> DEFINE c(s) == [charge[<<r, n>>] EXCEPT !.event = "none", !.local = s]
  <2>0. charge[<<r, n>>] \in ChargeType
    BY <1>0
  <2>1. PICK s \in {"SUCCEEDED", "FAILED", charge[<<r, n>>].local}:
          /\ charge' = [charge EXCEPT ![<<r, n>>] = c(s)]
          /\ s = "SUCCEEDED" => charge[<<r, n>>].local = "SUCCEEDED" \/ charge[<<r, n>>].event = "succeeded"
    BY <1>2 DEF ReceiveEvent
  <2>2. /\ c(s) \in ChargeType /\ c(s).stripe = charge[<<r, n>>].stripe
        /\ c(s).event = "none" /\ c(s).local = s
    BY <2>0 DEF ChargeType
  <2>3. n <= pay[r].attempts
    <3>1. charge[<<r, n>>].event # "none" /\ NoCharge.event = "none"
      BY <1>2 DEF ReceiveEvent, NoCharge
    <3> QED
      BY <3>1 DEF RowsInv
  <2> HIDE DEF c
  <2> QED
    BY <2>1, <2>2, <2>3 DEF RecordStep
<1>3. ASSUME NEW h \in Procs,
             \/ ConfirmUpdate(h) \/ ApplySuccess(h) \/ ApplyFailure(h)
             \/ RefundQuotePayments(h) \/ RefundGroupPayments(h) \/ SelectQuotes(h) \/ RefundNextQuote(h)
             \/ RefundCredit(h) \/ RefundMark(h) \/ RefundSkipped(h) \/ ExpireQuote(h) \/ Crash(h)
             \/ \E u \in Users: ConfirmPayment(h, u)
             \/ \E q \in Quotes: Sweep(h, q) \/ ReadExpired(h, q)
      PROVE  UNCHANGED charge
  BY <1>3 DEF ConfirmUpdate, ApplySuccess, ApplyFailure, RefundQuotePayments,
       RefundGroupPayments, SelectQuotes, RefundNextQuote, RefundCredit, RefundMark, RefundSkipped, ExpireQuote,
       Crash, ConfirmPayment, Sweep,
       ReadExpired
<1>4. ASSUME (\E u \in Users: ConfirmSettled(u)) \/ (\E q \in Quotes: Expires(q)) PROVE UNCHANGED charge
  BY <1>4 DEF Expires, ConfirmSettled
<1>5. ASSUME NEW h \in Procs, NEW g, Reconfigure(h, g) PROVE UNCHANGED charge
  BY <1>5 DEF Reconfigure, groupRest
<1>6. ASSUME NEW h \in Procs,
             \/ SetDestination(h) \/ LoadQuoteContext(h) \/ CreateQuote(h)
             \/ RequestRide(h) \/ RequestExpired(h) \/ Book(h) \/ CancelGroup(h)
             \/ AcceptTrip(h) \/ OnDriverAssigned(h) \/ ReleaseByDriver(h) \/ OnReleased(h)
             \/ StartTrip(h) \/ OnStarted(h) \/ CompleteTrip(h) \/ OnRideCompleted(h)
             \/ CancelTrip(h) \/ OnRideCancelled(h)
      PROVE  UNCHANGED charge
  BY <1>5, <1>6 DEF SetDestination, LoadQuoteContext, CreateQuote, RequestRide, RequestExpired, Book, CancelGroup,
       AcceptTrip, OnDriverAssigned, ReleaseByDriver, OnReleased, StartTrip, OnStarted, CompleteTrip,
       OnRideCompleted, CancelTrip, OnRideCancelled, rideRest, groupRest
<1>7. ASSUME NEW h \in Procs, NEW u \in Users,
             \/ AcceptInvitation(h, u) \/ RemoveMember(h, u) \/ LeaveGroup(h, u)
             \/ SetPickup(h, u) \/ ResolvePickup(h, u)
      PROVE  UNCHANGED charge
  BY <1>5, <1>7 DEF AcceptInvitation, RemoveMember, LeaveGroup, SetPickup, ResolvePickup, rideRest, groupRest
<1>8. ASSUME (\E u \in Users: InviteFriend(u) \/ CloseInvitation(u)) \/ NoDriver \/ PickUpRider \/ UNCHANGED vars
      PROVE  UNCHANGED charge
  BY <1>8 DEF InviteFriend, CloseInvitation, NoDriver, PickUpRider, vars, moneyVars
<1>9. MoneyNext =>
         \/ UNCHANGED charge
         \/ RecordStep
         \/ \E h \in Procs: ChargeStripe(h)
         \/ \E h \in Procs: \E s \in work[h].todo: RefundCharge(h, s)
  BY <1>1, <1>2, <1>3, <1>4 DEF MoneyNext
<1> QED
  BY <1>6, <1>7, <1>8, <1>9 DEF Next

\* The charge that a handler takes up from its rows is one that was made.
LEMMA RefundChargeStep ==
  ASSUME TypeInv, RowsInv, NEW h \in Procs, NEW s \in work[h].todo, RefundCharge(h, s)
  PROVE  \/ UNCHANGED charge
         \/ /\ s.row \in Rows /\ s.charge \in Attempts /\ s.charge <= pay[s.row].attempts
            /\ charge[<<s.row, s.charge>>].local = "SUCCEEDED" /\ charge[<<s.row, s.charge>>].intent
            /\ ~ KeySpent(s)
            /\ \E c \in ChargeType: c.stripe = "refunded" /\ c.local = "REFUNDED"
                                   /\ charge' = [charge EXCEPT ![<<s.row, s.charge>>] = c]
<1> DEFINE a == <<s.row, s.charge>>
           c == [charge[a] EXCEPT !.local = "REFUNDED", !.stripe = "refunded"]
<1>1. s \in SnapshotType /\ charge \in [Rows \X Attempts -> ChargeType]
  BY DEF TypeInv, WorkInv, WorkType
<1>2. s.row \in Rows /\ s.charge \in 0..MaxAttempts
  BY <1>1 DEF SnapshotType
<1>3. \/ UNCHANGED charge
      \/ /\ s.charge # 0 /\ charge[a].local = "SUCCEEDED" /\ charge[a].intent
         /\ ~ KeySpent(s) /\ charge' = [charge EXCEPT ![a] = c]
  BY DEF RefundCharge
<1>4. CASE /\ s.charge # 0 /\ charge[a].local = "SUCCEEDED" /\ charge[a].intent
         /\ ~ KeySpent(s) /\ charge' = [charge EXCEPT ![a] = c]
  <2>1. s.charge \in Attempts
    BY <1>2, <1>4, PaymentsAssumption DEF Attempts
  <2>2. charge[a] \in ChargeType
    BY <1>1, <1>2, <2>1
  <2>3. c \in ChargeType /\ c.stripe = "refunded" /\ c.local = "REFUNDED"
    BY <2>2 DEF ChargeType
  <2>4. charge[a] # NoCharge
    BY <1>4 DEF NoCharge
  <2>5. s.charge <= pay[s.row].attempts
    BY <1>2, <2>1, <2>4 DEF RowsInv
  <2> HIDE DEF c
  <2> QED
    BY <1>2, <1>4, <2>1, <2>3, <2>5
<1> QED
  BY <1>3, <1>4

\* What a handler does for a ride.
RideSteps ==
  {"assigned", "released", "start", "restart", "started", "restarted", "completed", "cancelRide", "cancelled"}

\* Why handler h turns to the step `at`, with quote q: what has just been
\* done of the ride, of the group or of the quote.
Why(h, at, q) ==
  /\ at \in RideSteps => ride'.status # "none"
  /\ at \in {"completed", "cancelled"} => ride'.status \in {"COMPLETED", "CANCELLED"}
  /\ at \in {"selectAll", "selectQuotes"} => On(h, "cancelled") \/ (ride'.status = "none" /\ group'.status = "CANCELLED")
  /\ at = "expire" => quote[q] = "ACTIVE" /\ UNCHANGED quote
  /\ at = "select" => \/ quote'[q] \in {"SUPERSEDED", "EXPIRED"}
                      \/ On(h, "expire") /\ work[h].quote = q /\ (quote[q] = "none" \/ q \in lapsed')
  /\ at = "book" => RequestRide(h)

\* The steps of a refund and of one that is over.
Ends == {"idle", "selectEach", "refund", "skip", "credit", "creditOnly", "mark"}

\* Handler h turns to work that knows of no share but those it knew of.
Quiet(h) ==
  \E w: /\ work' = [work EXCEPT ![h] = w]
        /\ w.todo \subseteq work[h].todo
        /\ w.left # {} => work[h].left # {} \/ On(h, "selectQuotes")
        /\ w.at = "selectEach" => w.left # {}
        /\ w.at \notin WithCharge \cup {"update", "quote"}
        /\ Why(h, w.at, w.quote)

\* Handler h goes on with the attempt it made.
GoesOn(h) ==
  /\ work[h].at \in {"charge", "record", "recordFailure"}
  /\ \E at \in {"record", "recordFailure", "update", "decline"}:
       /\ Goto(h, at)
       /\ at = "record" => charge'[<<work[h].row, work[h].n>>].stripe = "paid"
       /\ at = "update" => On(h, "record")

\* Labels that need no reason.
LEMMA EndsAreWhy == ASSUME NEW h, NEW at \in Ends, NEW q PROVE Why(h, at, q)
  BY DEF Why, Ends, RideSteps

\* A handler at rest charges nothing.
LEMMA RestIsQuiet == ASSUME NEW h \in Procs, Rest(h) PROVE Quiet(h)
<1>1. Idle.at = "idle" /\ Idle.todo = {} /\ Idle.left = {}
  BY DEF Idle
<1>2. work' = [work EXCEPT ![h] = Idle]
  BY DEF Rest
<1>3. Why(h, Idle.at, Idle.quote)
  BY <1>1, EndsAreWhy DEF Ends
<1> QED
  BY <1>1, <1>2, <1>3 DEF Quiet, WithCharge

\* Nor does one that goes on to a step without a charge.
LEMMA GotoIsQuiet ==
  ASSUME WorkInv, NEW h \in Procs, NEW at, Goto(h, at), at \notin WithCharge \cup {"update", "quote", "selectEach"},
         Why(h, at, work[h].quote)
  PROVE  Quiet(h)
<1>1. work[h] \in WorkType /\ work \in [Procs -> WorkType]
  BY DEF WorkInv
<1> DEFINE w == [work[h] EXCEPT !.at = at]
<1>2. w.at = at /\ w.todo = work[h].todo /\ w.quote = work[h].quote /\ w.left = work[h].left
  BY <1>1 DEF WorkType
<1>3. work' = [work EXCEPT ![h] = w]
  BY <1>1 DEF Goto
<1> HIDE DEF w
<1>4. Why(h, w.at, w.quote)
  BY <1>2
<1> QED
  BY <1>2, <1>3, <1>4 DEF Quiet

\* Nor one that turns to the refunds of a quote.
LEMMA TurnIsQuiet ==
  ASSUME NEW h \in Procs, NEW q, NEW at \in {"select", "expire", "book"},
         work' = [work EXCEPT ![h] = [Idle EXCEPT !.at = at, !.quote = q]],
         Why(h, at, q)
  PROVE  Quiet(h)
<1> DEFINE w == [Idle EXCEPT !.at = at, !.quote = q]
<1>1. w.at = at /\ w.todo = {} /\ w.quote = q /\ w.left = {}
  BY DEF Idle
<1> HIDE DEF w
<1>2. work' = [work EXCEPT ![h] = w]
  BY DEF w
<1>3. Why(h, w.at, w.quote)
  BY <1>1
<1> QED
  BY <1>1, <1>2, <1>3 DEF Quiet, WithCharge

\* Nor one that takes the next row of its snapshot.
LEMMA TakeIsQuiet ==
  ASSUME WorkInv, NEW h \in Procs, NEW s \in work[h].todo, NEW at \in {"credit", "creditOnly", "skip"}, Take(h, at, s)
  PROVE  Quiet(h)
<1> DEFINE w == [work[h] EXCEPT !.at = at, !.row = s.row]
<1>1. work[h] \in WorkType /\ work \in [Procs -> WorkType]
  BY DEF WorkInv
<1>2. w.at = at /\ w.todo = work[h].todo /\ w.left = work[h].left
  BY <1>1 DEF WorkType
<1>3. work' = [work EXCEPT ![h] = w]
  BY <1>1 DEF Take
<1> HIDE DEF w
<1>4. Why(h, w.at, w.quote)
  BY <1>2, EndsAreWhy DEF Ends
<1> QED
  BY <1>2, <1>3, <1>4 DEF Quiet, WithCharge

\* Nor one that goes on to the quotes it has before it.
LEMMA OnwardIsQuiet ==
  ASSUME NEW h \in Procs, NEW quotes, work' = [work EXCEPT ![h] = Onward(quotes)],
         quotes # {} => On(h, "selectQuotes") \/ work[h].left # {}
  PROVE  Quiet(h)
<1> DEFINE w == [Idle EXCEPT !.at = "selectEach", !.left = quotes]
<1>1. CASE quotes = {}
  BY <1>1, RestIsQuiet DEF Onward, Rest
<1>2. CASE quotes # {}
  <2>1. work' = [work EXCEPT ![h] = w]
    BY <1>2 DEF Onward
  <2>2. w.at = "selectEach" /\ w.todo = {} /\ w.left = quotes
    BY DEF Idle
  <2> HIDE DEF w
  <2>3. Why(h, w.at, w.quote)
    BY <2>2, EndsAreWhy DEF Ends
  <2> QED
    BY <1>2, <2>1, <2>2, <2>3 DEF Quiet, WithCharge
<1> QED
  BY <1>1, <1>2

\* Nor one that is done with a row.
LEMMA DoneIsQuiet == ASSUME NEW h \in Procs, Done(h) PROVE Quiet(h)
<1> DEFINE rest == {s \in work[h].todo: s.row # work[h].row}
           w == [Idle EXCEPT !.at = "refund", !.todo = rest, !.left = work[h].left]
<1>1. CASE rest = {}
  <2>1. work' = [work EXCEPT ![h] = Onward(work[h].left)]
    BY <1>1 DEF Done
  <2>2. work[h].left # {} => On(h, "selectQuotes") \/ work[h].left # {}
    OBVIOUS
  <2> QED
    BY <2>1, <2>2, OnwardIsQuiet
<1>2. CASE rest # {}
  <2>1. work' = [work EXCEPT ![h] = w]
    BY <1>2 DEF Done
  <2>2. w.at = "refund" /\ w.todo = rest /\ rest \subseteq work[h].todo /\ w.left = work[h].left
    BY DEF Idle
  <2> HIDE DEF w, rest
  <2>3. Why(h, w.at, w.quote)
    BY <2>2, EndsAreWhy DEF Ends
  <2> QED
    BY <2>1, <2>2, <2>3 DEF Quiet, WithCharge
<1> QED
  BY <1>1, <1>2

\* The rows that handler h selects, and the quotes that come after them.
Selected(h, rows, rest) ==
  \/ On(h, "select") /\ rows = {work[h].quote} \X Users /\ rest = {}
  \/ On(h, "selectAll") /\ rest = {}
  \/ On(h, "selectEach") /\ work[h].left # {}

\* What a step makes of the handlers' work.
WorkStep(h) ==
  \/ Quiet(h)
  \/ GoesOn(h)
  \/ \E u \in Users: ConfirmPayment(h, u)
  \/ \E r \in Rows, n \in Attempts: ReceiveEvent(h, r, n)
  \/ \E rows \in SUBSET Rows, rest \in SUBSET Quotes: Select(h, rows, rest) /\ Selected(h, rows, rest)
  \/ LoadQuoteContext(h)

\* Every step of the groups is one handler's, or moves none.
LEMMA WorkCases ==
  ASSUME TypeInv, [Next]_vars
  PROVE  UNCHANGED work \/ \E h \in Procs: WorkStep(h)
<1> USE DEF On
<1>0. WorkInv /\ \A h \in Procs: WorkOK(work[h]) /\ work[h] \in WorkType
  BY DEF TypeInv, WorkInv
<1>1. ASSUME NEW h \in Procs,
             \/ ChargeStripe(h) \/ ChargeUpdate(h) \/ ConfirmUpdate(h)
             \/ ApplySuccess(h) \/ ApplyFailure(h)
             \/ RefundQuotePayments(h) \/ RefundGroupPayments(h) \/ SelectQuotes(h) \/ RefundNextQuote(h)
             \/ RefundCredit(h) \/ RefundMark(h) \/ RefundSkipped(h)
             \/ ExpireQuote(h) \/ Crash(h)
             \/ \E u \in Users: ConfirmPayment(h, u)
             \/ \E r \in Rows, n \in Attempts: ReceiveEvent(h, r, n)
             \/ \E q \in Quotes: Sweep(h, q) \/ ReadExpired(h, q)
             \/ \E s \in work[h].todo: RefundCharge(h, s)
      PROVE  WorkStep(h)
  <2>1. CASE ChargeStripe(h) \/ ChargeUpdate(h)
    <3>1. CASE ChargeUpdate(h)
      BY <3>1 DEF ChargeUpdate, GoesOn, WorkStep
    <3>2. CASE ChargeStripe(h)
      <4> DEFINE a == <<work[h].row, work[h].n>>
                 c == [local |-> "PENDING", intent |-> FALSE, stripe |-> "paid", event |-> "succeeded"]
      <4>1. a \in Rows \X Attempts /\ charge \in [Rows \X Attempts -> ChargeType]
        BY <1>0, <3>2 DEF ChargeStripe, WorkOK, WithCharge, TypeInv
      <4>2. \/ Goto(h, "record") /\ charge' = [charge EXCEPT ![a] = c]
            \/ Goto(h, "recordFailure")
            \/ Goto(h, "decline")
        BY <3>2 DEF ChargeStripe
      <4> HIDE DEF a
      <4>3. charge' = [charge EXCEPT ![a] = c] => charge'[a].stripe = "paid"
        BY <4>1
      <4>4. On(h, "charge")
        BY <3>2 DEF ChargeStripe
      <4> HIDE DEF c
      <4>5. GoesOn(h)
        BY <4>2, <4>3, <4>4 DEF GoesOn, a
      <4> QED
        BY <4>5 DEF WorkStep
    <3> QED
      BY <2>1, <3>1, <3>2
  <2>2. CASE ConfirmUpdate(h) \/ ApplySuccess(h) \/ ApplyFailure(h) \/ Crash(h)
    BY <2>2, RestIsQuiet DEF ConfirmUpdate, ApplySuccess, ApplyFailure, Crash, WorkStep
  <2>3. CASE RefundQuotePayments(h)
    <3>1. work[h].quote \in Quotes
      BY <1>0, <2>3 DEF RefundQuotePayments, WorkOK
    <3>2. {work[h].quote} \X Users \in SUBSET Rows
      BY <3>1 DEF Rows
    <3> QED
      BY <2>3, <3>2 DEF RefundQuotePayments, WorkStep, Selected
  <2>4. CASE RefundGroupPayments(h)
    BY <2>4 DEF RefundGroupPayments, WorkStep, Selected
  <2>10. CASE SelectQuotes(h)
    BY <2>10, OnwardIsQuiet DEF SelectQuotes, WorkStep
  <2>11. CASE RefundNextQuote(h)
    <3>1. PICK q \in work[h].left: Select(h, {q} \X Users, work[h].left \ {q})
      BY <2>11 DEF RefundNextQuote
    <3>2. work[h].left \subseteq Quotes
      BY <1>0 DEF WorkType
    <3>3. {q} \X Users \in SUBSET Rows /\ work[h].left \ {q} \in SUBSET Quotes
      BY <3>2 DEF Rows
    <3>4. Selected(h, {q} \X Users, work[h].left \ {q})
      BY <2>11 DEF RefundNextQuote, Selected
    <3> QED
      BY <3>1, <3>3, <3>4 DEF WorkStep
  <2>5. CASE RefundCredit(h)
    <3>1. PICK at \in {"mark", "skip"}: Goto(h, at) /\ Why(h, at, work[h].quote)
      BY <2>5, EndsAreWhy DEF RefundCredit, Ends
    <3> QED
      BY <1>0, <3>1, GotoIsQuiet DEF WithCharge, WorkStep
  <2>9. CASE ExpireQuote(h)
    <3> DEFINE q == work[h].quote
    <3>1. Goto(h, "select") /\ On(h, "expire") /\ q \in Quotes
      BY <1>0, <2>9 DEF ExpireQuote, WorkOK
    <3>2. quote[q] \in QuoteStatus
      BY <3>1 DEF TypeInv
    <3>3. quote'[q] \in {"SUPERSEDED", "EXPIRED"} \/ quote[q] = "none" \/ q \in lapsed'
      BY <2>9, <3>1, <3>2 DEF ExpireQuote, QuoteStatus, TypeInv
    <3>4. Why(h, "select", work[h].quote)
      BY <3>1, <3>3 DEF Why, RideSteps
    <3> QED
      BY <1>0, <3>1, <3>4, GotoIsQuiet DEF WithCharge, WorkStep
  <2>6. CASE RefundMark(h) \/ RefundSkipped(h)
    BY <2>6, DoneIsQuiet DEF RefundMark, RefundSkipped, WorkStep
  <2>7. CASE \E q \in Quotes: Sweep(h, q) \/ ReadExpired(h, q)
    <3>1. PICK q \in Quotes: Sweep(h, q) \/ ReadExpired(h, q)
      BY <2>7
    <3>2. CASE Sweep(h, q)
      <4>1. Why(h, "select", q)
        BY <3>2 DEF Sweep, Why, RideSteps
      <4> QED
        BY <3>2, <4>1, TurnIsQuiet DEF Sweep, WorkStep
    <3>3. CASE ReadExpired(h, q)
      <4>1. Why(h, "expire", q)
        BY <3>3 DEF ReadExpired, Why, RideSteps
      <4> QED
        BY <3>3, <4>1, TurnIsQuiet DEF ReadExpired, WorkStep
    <3> QED
      BY <3>1, <3>2, <3>3
  <2>8. CASE \E s \in work[h].todo: RefundCharge(h, s)
    BY <1>0, <2>8, TakeIsQuiet DEF RefundCharge, WorkStep
  <2> QED
    BY <1>1, <2>1, <2>2, <2>3, <2>4, <2>5, <2>6, <2>7, <2>8, <2>9, <2>10, <2>11 DEF WorkStep
<1>2. ASSUME (\E u \in Users: ConfirmSettled(u)) \/ (\E q \in Quotes: Expires(q)) PROVE UNCHANGED work
  BY <1>2 DEF Expires, ConfirmSettled
<1>3. ASSUME NEW h \in Procs, NEW g, Reconfigure(h, g) PROVE UNCHANGED work \/ Quiet(h)
  <2>1. CASE ActiveQuote = {}
    BY <1>3, <2>1 DEF Reconfigure
  <2>2. CASE ActiveQuote # {}
    <3>1. PICK q \in ActiveQuote: work' = [work EXCEPT ![h] = [Idle EXCEPT !.at = "select", !.quote = q]]
      BY <1>3, <2>2 DEF Reconfigure
    <3>2. quote'[q] = "SUPERSEDED"
      BY <1>3, <2>2 DEF Reconfigure, ActiveQuote
    <3>3. Why(h, "select", q)
      BY <3>2 DEF Why, RideSteps
    <3> QED
      BY <3>1, <3>3, TurnIsQuiet
  <2> QED
    BY <2>1, <2>2
<1>4. ASSUME NEW h \in Procs, NEW u \in Users,
             \/ AcceptInvitation(h, u) \/ RemoveMember(h, u) \/ LeaveGroup(h, u) \/ SetPickup(h, u)
      PROVE  UNCHANGED work \/ WorkStep(h)
  BY <1>3, <1>4 DEF AcceptInvitation, RemoveMember, LeaveGroup, SetPickup, WorkStep
<1>5. ASSUME NEW h \in Procs, Book(h) \/ OnDriverAssigned(h) \/ OnReleased(h) \/ OnStarted(h) \/ OnRideCompleted(h)
      PROVE  WorkStep(h)
  BY <1>5, RestIsQuiet DEF Book, OnDriverAssigned, OnReleased, OnStarted, OnRideCompleted, WorkStep
<1>6. ASSUME NEW h \in Procs, RequestRide(h) PROVE WorkStep(h)
  <2>1. Why(h, "book", group.quote)
    BY <1>6 DEF Why, RideSteps
  <2> QED
    BY <1>6, <2>1, TurnIsQuiet DEF RequestRide, WorkStep
<1>13. ASSUME NEW h \in Procs, RequestExpired(h) PROVE WorkStep(h)
  <2>1. group.quote \in Quotes /\ quote \in [Quotes -> QuoteStatus]
    BY <1>13 DEF RequestExpired, TypeInv, GroupType
  <2>2. quote'[group.quote] = "EXPIRED"
    BY <1>13, <2>1 DEF RequestExpired
  <2>3. Why(h, "select", group.quote)
    BY <2>2 DEF Why, RideSteps
  <2> QED
    BY <1>13, <2>3, TurnIsQuiet DEF RequestExpired, WorkStep
<1>14. ASSUME NEW h \in Procs, CreateQuote(h) PROVE WorkStep(h)
  <2>1. CASE Rest(h)
    BY <2>1, RestIsQuiet DEF WorkStep
  <2>2. CASE ~ Rest(h)
    <3>1. PICK p \in ActiveQuote: work' = [work EXCEPT ![h] = [Idle EXCEPT !.at = "select", !.quote = p]]
      BY <1>14, <2>2 DEF CreateQuote
    <3>2. PICK q \in Quotes, method \in Methods: \E share: Created(h, q, method, share)
      BY <1>14, <2>2, CreateQuoteStep
    <3>3. quote'[p] = "SUPERSEDED"
      BY <3>2 DEF Created, ActiveQuote
    <3>4. Why(h, "select", p)
      BY <3>3 DEF Why, RideSteps
    <3> QED
      BY <3>1, <3>4, TurnIsQuiet DEF WorkStep
  <2> QED
    BY <2>1, <2>2
<1>7. ASSUME NEW h \in Procs, \/ CancelGroup(h) \/ AcceptTrip(h) \/ ReleaseByDriver(h) \/ StartTrip(h)
                              \/ CompleteTrip(h) \/ CancelTrip(h) \/ OnRideCancelled(h)
      PROVE  WorkStep(h)
  <2>0. ride \in RideType
    BY DEF TypeInv
  <2>1. CASE CancelGroup(h)
    <3>1. PICK at \in {"selectQuotes", "cancelRide"}:
            /\ Goto(h, at)
            /\ at = "selectQuotes" => ride.status = "none"
            /\ at = "cancelRide" => ride.status # "none"
      BY <2>1 DEF CancelGroup
    <3>2. UNCHANGED ride /\ group'.status = "CANCELLED"
      BY <2>1 DEF CancelGroup, TypeInv, GroupType
    <3>3. Why(h, at, work[h].quote)
      BY <3>1, <3>2 DEF Why, RideSteps
    <3> QED
      BY <1>0, <3>1, <3>3, GotoIsQuiet DEF WithCharge, WorkStep
  <2>2. CASE AcceptTrip(h) \/ ReleaseByDriver(h)
    <3>1. PICK at \in {"assigned", "released"}: Goto(h, at)
      BY <2>2 DEF AcceptTrip, ReleaseByDriver
    <3>2. ride'.status \in {"ACCEPTED", "REQUESTED"}
      BY <2>0, <2>2 DEF AcceptTrip, ReleaseByDriver, RideType
    <3>3. Why(h, at, work[h].quote)
      BY <3>2 DEF Why, RideSteps
    <3> QED
      BY <1>0, <3>1, <3>3, GotoIsQuiet DEF WithCharge, WorkStep
  <2>3. CASE StartTrip(h) /\ ~ Rest(h)
    <3>1. PICK at \in {"started", "restarted"}: Goto(h, at)
      BY <2>3 DEF StartTrip
    <3>2. ride'.status = "IN_PROGRESS"
      BY <2>0, <2>3 DEF StartTrip, RideType
    <3>3. Why(h, at, work[h].quote)
      BY <3>2 DEF Why, RideSteps
    <3> QED
      BY <1>0, <3>1, <3>3, GotoIsQuiet DEF WithCharge, WorkStep
  <2>4. CASE CompleteTrip(h) \/ (CancelTrip(h) /\ ~ Rest(h))
    <3>1. PICK at \in {"completed", "cancelled"}: Goto(h, at)
      BY <2>4 DEF CompleteTrip, CancelTrip
    <3>2. ride'.status \in {"COMPLETED", "CANCELLED"}
      BY <2>0, <2>4 DEF CompleteTrip, CancelTrip, RideType
    <3>3. Why(h, at, work[h].quote)
      BY <3>2 DEF Why, RideSteps
    <3> QED
      BY <1>0, <3>1, <3>3, GotoIsQuiet DEF WithCharge, WorkStep
  <2>5. CASE OnRideCancelled(h)
    <3>1. Goto(h, "selectAll") /\ On(h, "cancelled")
      BY <2>5 DEF OnRideCancelled
    <3>2. Why(h, "selectAll", work[h].quote)
      BY <3>1 DEF Why, RideSteps
    <3> QED
      BY <1>0, <3>1, <3>2, GotoIsQuiet DEF WithCharge, WorkStep
  <2>6. CASE Rest(h)
    BY <2>6, RestIsQuiet DEF WorkStep
  <2> QED
    BY <1>7, <2>1, <2>2, <2>3, <2>4, <2>5, <2>6
<1>8. ASSUME NEW h \in Procs, NEW u \in Users, ResolvePickup(h, u) PROVE UNCHANGED work \/ WorkStep(h)
  <2>1. CASE ~ UNCHANGED work
    <3>1. PICK at \in {"start", "restart"}: Goto(h, at)
      BY <1>8, <2>1 DEF ResolvePickup
    <3>2. ride'.status = "ACCEPTED"
      BY <1>8 DEF ResolvePickup
    <3>3. Why(h, at, work[h].quote)
      BY <3>2 DEF Why, RideSteps
    <3> QED
      BY <1>0, <3>1, <3>3, GotoIsQuiet DEF WithCharge, WorkStep
  <2> QED
    BY <2>1
<1>9. ASSUME NEW h \in Procs, LoadQuoteContext(h) PROVE WorkStep(h)
  BY <1>9 DEF WorkStep
<1>10. ASSUME (\E u \in Users: InviteFriend(u) \/ CloseInvitation(u)) \/ NoDriver \/ PickUpRider \/ UNCHANGED vars
      PROVE  UNCHANGED work
  BY <1>10 DEF InviteFriend, CloseInvitation, NoDriver, PickUpRider, vars, moneyVars
<1>11. ASSUME NEW h \in Procs, SetDestination(h) PROVE UNCHANGED work \/ WorkStep(h)
  BY <1>3, <1>11 DEF SetDestination, WorkStep
<1>12. MoneyNext => UNCHANGED work \/ \E h \in Procs: WorkStep(h)
  BY <1>1, <1>2 DEF MoneyNext
<1> QED
  BY <1>4, <1>5, <1>6, <1>7, <1>8, <1>9, <1>10, <1>11, <1>12, <1>13, <1>14 DEF Next

\* What a handler knows stays so while the rows move.
LEMMA GoodKept ==
  ASSUME TypeInv, TypeInv', NEW w, WorkOK(w), Good(w, pay), \A r \in Rows: Moved(r)
  PROVE  Good(w, pay')
<1>1. ASSUME w.at \in WithCharge \cup {"update"} PROVE pay'[w.row].status # "none" /\ w.n <= pay'[w.row].attempts
  <2>1. w.row \in Rows /\ w.n \in Nat
    BY <1>1, PaymentsAssumption DEF WorkOK, WorkType
  <2>2. pay[w.row].status # "none" /\ w.n <= pay[w.row].attempts
    BY <1>1 DEF Good
  <2>3. Moved(w.row)
    BY <2>1
  <2>4. pay'[w.row].status # "none" /\ pay[w.row].attempts <= pay'[w.row].attempts
    BY <2>2, <2>3 DEF Moved
  <2>5. pay[w.row].attempts \in Nat /\ pay'[w.row].attempts \in Nat
    BY <2>1, PaymentsAssumption DEF TypeInv, PayInv, PaymentType
  <2> QED
    BY <2>1, <2>2, <2>4, <2>5
<1>2. ASSUME NEW s \in w.todo PROVE pay'[s.row].status # "none" /\ (s.credit > 0 => s.credit = pay'[s.row].credit)
  <2>1. s.row \in Rows
    BY DEF WorkOK, WorkType, SnapshotType
  <2>2. pay[s.row].status # "none" /\ (s.credit > 0 => s.credit = pay[s.row].credit)
    BY DEF Good
  <2>3. Moved(s.row)
    BY <2>1
  <2> QED
    BY <2>2, <2>3 DEF Moved
<1> QED
  BY <1>1, <1>2 DEF Good

\* The work that a step gives a handler knows no more than there is.
LEMMA WorkStepGood ==
  ASSUME TypeInv, TypeInv', RowsInv, NEW h \in Procs, WorkStep(h), \A r \in Rows: Moved(r), NEW k \in Procs
  PROVE  Good(work'[k], pay')
<1>0. /\ \A p \in Procs: WorkOK(work[p]) /\ Good(work[p], pay) /\ work[p] \in WorkType
      /\ work \in [Procs -> WorkType]
      /\ \A r \in Rows: pay'[r] \in PaymentType
  BY DEF TypeInv, WorkInv, RowsInv, PayInv
<1>1. ASSUME work'[k] = work[k] PROVE Good(work'[k], pay')
  BY <1>0, <1>1, GoodKept
<1>2. CASE Quiet(h)
  <2>1. PICK w: /\ work' = [work EXCEPT ![h] = w]
                /\ w.todo \subseteq work[h].todo
                /\ w.at \notin WithCharge \cup {"update", "quote"}
    BY <1>2 DEF Quiet
  <2>2. Good(w, pay)
    BY <1>0, <2>1 DEF Good
  <2>3. CASE k = h
    <3>1. work'[k] = w /\ WorkOK(w)'
      BY <1>0, <2>1, <2>3 DEF TypeInv, WorkInv
    <3>2. w.todo \subseteq work[h].todo /\ \A s \in work[h].todo: s.row \in Rows
      BY <1>0, <2>1 DEF WorkType, SnapshotType
    <3>3. ASSUME NEW s \in w.todo
          PROVE  pay'[s.row].status # "none" /\ (s.credit > 0 => s.credit = pay'[s.row].credit)
      <4>1. s.row \in Rows /\ pay[s.row].status # "none" /\ (s.credit > 0 => s.credit = pay[s.row].credit)
        BY <2>2, <3>2 DEF Good
      <4> QED
        BY <4>1 DEF Moved
    <3>4. Good(w, pay')
      BY <2>1, <3>3 DEF Good
    <3> QED
      BY <3>1, <3>4
  <2>4. CASE k # h
    BY <1>0, <1>1, <2>1, <2>4
  <2> QED
    BY <2>3, <2>4
<1>3. CASE GoesOn(h)
  <2>1. PICK at \in {"record", "recordFailure", "update", "decline"}: Goto(h, at)
    BY <1>3 DEF GoesOn
  <2>2. CASE k = h
    <3> DEFINE w == [work[h] EXCEPT !.at = at]
    <3>1. work'[k] = w
      BY <1>0, <2>1, <2>2 DEF Goto
    <3>2. w.row = work[h].row /\ w.n = work[h].n /\ w.todo = work[h].todo
      BY <1>0 DEF WorkType
    <3>3. work[h].at \in WithCharge
      BY <1>3 DEF GoesOn, WithCharge
    <3>4. Good(work[h], pay')
      BY <1>0, GoodKept
    <3> HIDE DEF w
    <3>5. Good(w, pay')
      BY <3>2, <3>3, <3>4 DEF Good
    <3> QED
      BY <3>1, <3>5
  <2>3. CASE k # h
    BY <1>0, <1>1, <2>1, <2>3 DEF Goto
  <2> QED
    BY <2>2, <2>3
<1>4. ASSUME NEW u \in Users, ConfirmPayment(h, u) PROVE Good(work'[k], pay')
  <2> DEFINE r == <<group.quote, u>>
  <2>1. r \in Rows /\ ConfirmStep(h, u) /\ pay[r].status # "none"
    BY <1>4, ConfirmPaymentStep DEF ConfirmPayment, Retryable
  <2>2. PICK at \in {"charge", "update"}, n \in Attempts:
          /\ n = pay[r].attempts + 1 /\ pay'[r].attempts = n
          /\ work' = [work EXCEPT ![h] = [Idle EXCEPT !.at = at, !.row = r, !.n = IF at = "charge" THEN n ELSE 0]]
    <3>1. PICK applied \in Nat, n \in Attempts:
            /\ n = pay[r].attempts + 1
            /\ LET credit == pay[r].credit + applied
                   card == pay[r].amount - credit IN
               /\ pay' = [pay EXCEPT ![r].status = IF card > 0 THEN "PROCESSING" ELSE "SUCCEEDED",
                                     ![r].credit = credit, ![r].card = card, ![r].attempts = n]
               /\ work' = [work EXCEPT ![h] = [Idle EXCEPT !.at = IF card > 0 THEN "charge" ELSE "update",
                                                          !.row = r, !.n = IF card > 0 THEN n ELSE 0]]
      BY <2>1 DEF ConfirmStep
    <3> DEFINE credit == pay[r].credit + applied
               card == pay[r].amount - credit
               p == [pay[r] EXCEPT !.status = IF card > 0 THEN "PROCESSING" ELSE "SUCCEEDED",
                                   !.credit = credit, !.card = card, !.attempts = n]
               at == IF card > 0 THEN "charge" ELSE "update"
    <3>2. pay \in [Rows -> PaymentType] /\ pay[r] \in PaymentType
      BY <2>1 DEF TypeInv, PayInv
    <3> HIDE DEF r
    <3>3. pay' = [pay EXCEPT ![r] = p] /\ p.attempts = n
      BY <2>1, <3>1, <3>2 DEF PaymentType
    <3>4. pay'[r].attempts = n
      BY <2>1, <3>2, <3>3
    <3>5. at \in {"charge", "update"} /\ (at = "charge" <=> card > 0)
      OBVIOUS
    <3>6. work' = [work EXCEPT ![h] = [Idle EXCEPT !.at = at, !.row = r, !.n = IF at = "charge" THEN n ELSE 0]]
      BY <3>1, <3>5
    <3> HIDE DEF at
    <3> QED
      BY <3>1, <3>4, <3>5, <3>6
  <2>3. CASE k = h
    <3> DEFINE m == IF at = "charge" THEN n ELSE 0
               w == [Idle EXCEPT !.at = at, !.row = r, !.n = m]
    <3>1. work'[k] = w
      BY <1>0, <2>2, <2>3
    <3>2. w.at = at /\ w.row = r /\ w.n = m /\ w.todo = {}
      BY DEF Idle
    <3>3. m <= pay'[r].attempts
      BY <2>2, PaymentsAssumption DEF Attempts
    <3>4. pay'[r].status # "none"
      BY <2>1 DEF Moved
    <3> HIDE DEF w, m, r
    <3>5. Good(w, pay')
      BY <3>2, <3>3, <3>4 DEF Good
    <3> QED
      BY <3>1, <3>5
  <2>4. CASE k # h
    BY <1>0, <1>1, <2>2, <2>4
  <2> QED
    BY <2>3, <2>4
<1>5. ASSUME NEW r \in Rows, NEW n \in Attempts, ReceiveEvent(h, r, n) PROVE Good(work'[k], pay')
  <2>1. charge[<<r, n>>].event # "none" /\ NoCharge.event = "none"
    BY <1>5 DEF ReceiveEvent, NoCharge
  <2>2. n <= pay[r].attempts /\ pay[r].attempts \in Nat /\ n \in Nat \ {0}
    BY <2>1, PaymentsAssumption DEF RowsInv, TypeInv, PayInv, PaymentType, Attempts
  <2>3. pay[r].status # "none"
    BY <2>2 DEF RowsInv, NoPayment
  <2>4. pay'[r].status # "none" /\ pay'[r] = pay[r]
    BY <1>5, <2>3 DEF ReceiveEvent
  <2>5. CASE k = h /\ work'[k] # work[k]
    <3> DEFINE w == [Idle EXCEPT !.at = charge[<<r, n>>].event, !.row = r, !.n = n]
    <3>1. work'[k] = w
      BY <1>0, <1>5, <2>5 DEF ReceiveEvent
    <3>2. w.row = r /\ w.n = n /\ w.todo = {}
      BY DEF Idle
    <3> HIDE DEF w
    <3>3. Good(w, pay')
      BY <2>2, <2>4, <3>2 DEF Good
    <3> QED
      BY <3>1, <3>3
  <2>6. CASE k # h
    BY <1>0, <1>1, <1>5, <2>6 DEF ReceiveEvent
  <2> QED
    BY <1>1, <2>5, <2>6
<1>6. ASSUME NEW rows \in SUBSET Rows, NEW rest \in SUBSET Quotes, Select(h, rows, rest) PROVE Good(work'[k], pay')
  <2> DEFINE todo == {r \in rows: Refundable(r)}
             snaps == {Snapshot(r): r \in todo}
             w == [Idle EXCEPT !.at = "refund", !.todo = snaps, !.left = rest]
  <2>1. work' = [work EXCEPT ![h] = IF todo = {} THEN Onward(rest) ELSE w]
    BY <1>6 DEF Select
  <2>2. ASSUME NEW s \in snaps
        PROVE  pay'[s.row].status # "none" /\ (s.credit > 0 => s.credit = pay'[s.row].credit)
    <3>1. PICK r \in todo: s = Snapshot(r)
      OBVIOUS
    <3>2. s.row = r /\ s.credit = pay[r].credit /\ pay[r].status # "none" /\ r \in Rows
      BY <3>1 DEF Snapshot, Refundable
    <3> QED
      BY <3>2 DEF Moved
  <2> HIDE DEF snaps
  <2>3. Good(Onward(rest), pay')
    <3>1. Onward(rest).todo = {} /\ Onward(rest).at \in {"idle", "selectEach"}
      BY DEF Onward, Idle
    <3> QED
      BY <3>1 DEF Good, WithCharge
  <2>4. w.at = "refund" /\ w.todo = snaps
    BY DEF Idle
  <2> HIDE DEF w, todo
  <2>5. Good(w, pay')
    BY <2>2, <2>4 DEF Good, WithCharge
  <2>6. CASE k = h
    BY <1>0, <2>1, <2>3, <2>5, <2>6
  <2>7. CASE k # h
    BY <1>0, <1>1, <2>1, <2>7
  <2> QED
    BY <2>6, <2>7
<1>7. CASE LoadQuoteContext(h)
  <2> DEFINE w == [Idle EXCEPT !.at = "quote", !.members = Active, !.version = group.version]
  <2>1. work' = [work EXCEPT ![h] = w] /\ w.at = "quote" /\ w.todo = {}
    BY <1>7 DEF LoadQuoteContext, Idle
  <2> HIDE DEF w
  <2>2. Good(w, pay')
    BY <2>1 DEF Good, WithCharge
  <2>3. CASE k = h
    BY <1>0, <2>1, <2>2, <2>3
  <2>4. CASE k # h
    BY <1>0, <1>1, <2>1, <2>4
  <2> QED
    BY <2>3, <2>4
<1> QED
  BY <1>2, <1>3, <1>4, <1>5, <1>6, <1>7 DEF WorkStep

\* RowsInv holds initially.
LEMMA RowsInit == Init => RowsInv
<1> SUFFICES ASSUME Init PROVE RowsInv
  OBVIOUS
<1>1. \A r \in Rows: pay[r] = NoPayment /\ NoPayment.status = "none"
  BY DEF Init, MoneyInit, NoPayment
<1>2. \A h \in Procs: Good(work[h], pay)
  BY DEF Init, MoneyInit, Good, Idle, WithCharge
<1>3. \A r \in Rows, n \in Attempts: charge[<<r, n>>] = NoCharge
  BY DEF Init, MoneyInit
<1> QED
  BY <1>1, <1>2, <1>3 DEF RowsInv

\* A quote that was made is never unmade.
LEMMA QuoteStays ==
  ASSUME TypeInv, [Next]_vars, NEW q \in Quotes, quote'[q] = "none"
  PROVE  quote[q] = "none"
<1>0. quote \in [Quotes -> QuoteStatus]
  BY DEF TypeInv
<1>1. CASE UNCHANGED quote
  BY <1>1
<1>2. ASSUME NEW p, NEW s \in {"EXPIRED", "CONSUMED"}, quote' = [quote EXCEPT ![p] = s] PROVE quote[q] = "none"
  BY <1>0, <1>2
<1>5. ASSUME NEW h \in Procs, Book(h) PROVE quote[q] = "none"
  BY <1>2, <1>5 DEF Book
<1>3. CASE quote' = [k \in Quotes |-> IF k \in ActiveQuote THEN "SUPERSEDED" ELSE quote[k]]
  BY <1>3
<1>4. ASSUME NEW h \in Procs, CreateQuote(h) PROVE quote[q] = "none"
  <2>1. ASSUME NEW k \in Quotes, NEW method \in Methods, NEW share, Created(h, k, method, share) PROVE quote[q] = "none"
    BY <2>1 DEF Created
  <2> QED
    BY <1>4, <2>1, CreateQuoteStep
<1> QED
  BY <1>1, <1>2, <1>3, <1>4, <1>5, QuoteCases

\* Every step preserves RowsInv.
LEMMA RowsStep == TypeInv /\ TypeInv' /\ RowsInv /\ [Next]_vars => RowsInv'
<1> SUFFICES ASSUME TypeInv, TypeInv', RowsInv, [Next]_vars PROVE RowsInv'
  OBVIOUS
<1>0. \A r \in Rows: Moved(r)
  BY PayMoves
<1>1. \A r \in Rows: pay'[r].status = "none" => pay'[r] = NoPayment
  BY <1>0 DEF Moved
<1>2. ASSUME NEW r \in Rows, quote'[r[1]] = "none" PROVE pay'[r].status = "none"
  <2>1. r[1] \in Quotes
    BY DEF Rows
  <2>2. quote[r[1]] = "none"
    BY <1>2, <2>1, QuoteStays
  <2>3. pay[r].status = "none"
    BY <2>2 DEF RowsInv
  <2>4. Moved(r)
    BY <1>0
  <2> QED
    BY <1>2, <2>3, <2>4 DEF Moved
<1>3. ASSUME NEW r \in Rows, NEW n \in Attempts, charge'[<<r, n>>] # NoCharge PROVE n <= pay'[r].attempts
  <2>0. /\ charge \in [Rows \X Attempts -> ChargeType] /\ n \in Nat
        /\ pay[r].attempts \in Nat /\ pay'[r].attempts \in Nat /\ pay[r].attempts <= pay'[r].attempts
    BY <1>0, PaymentsAssumption DEF TypeInv, PayInv, PaymentType, Attempts, Moved
  <2>1. ASSUME n <= pay[r].attempts PROVE n <= pay'[r].attempts
    BY <2>0, <2>1
  <2>2. CASE charge'[<<r, n>>] = charge[<<r, n>>]
    BY <1>3, <2>1, <2>2 DEF RowsInv
  <2>3. CASE RecordStep
    <3>1. PICK k \in Rows, m \in Attempts, c \in ChargeType:
            m <= pay[k].attempts /\ charge' = [charge EXCEPT ![<<k, m>>] = c]
      BY <2>3 DEF RecordStep
    <3>2. CASE k = r /\ m = n
      BY <2>1, <3>1, <3>2
    <3>3. CASE ~ (k = r /\ m = n)
      <4>1. <<k, m>> # <<r, n>>
        BY <3>3
      <4> QED
        BY <2>0, <2>2, <3>1, <4>1
    <3> QED
      BY <3>2, <3>3
  <2>4. ASSUME NEW h \in Procs, ChargeStripe(h) PROVE n <= pay'[r].attempts
    <3>1. On(h, "charge") /\ WorkOK(work[h]) /\ Good(work[h], pay)
      BY <2>4 DEF ChargeStripe, TypeInv, WorkInv, RowsInv
    <3>2. work[h].row \in Rows /\ work[h].n \in Attempts /\ work[h].n <= pay[work[h].row].attempts
      BY <3>1 DEF On, WorkOK, WithCharge, Good
    <3>3. UNCHANGED charge \/ \E c: charge' = [charge EXCEPT ![<<work[h].row, work[h].n>>] = c]
      BY <2>4 DEF ChargeStripe
    <3>4. CASE work[h].row = r /\ work[h].n = n
      BY <2>1, <3>2, <3>4
    <3>5. CASE ~ (work[h].row = r /\ work[h].n = n)
      <4>1. <<work[h].row, work[h].n>> # <<r, n>>
        BY <3>5
      <4> QED
        BY <2>0, <2>2, <3>3, <4>1
    <3> QED
      BY <3>4, <3>5
  <2>5. ASSUME NEW h \in Procs, NEW s \in work[h].todo, RefundCharge(h, s) PROVE n <= pay'[r].attempts
    <3>1. CASE UNCHANGED charge
      BY <2>2, <3>1
    <3>2. CASE /\ s.row \in Rows /\ s.charge \in Attempts /\ s.charge <= pay[s.row].attempts
               /\ \E c \in ChargeType: charge' = [charge EXCEPT ![<<s.row, s.charge>>] = c]
      <4>1. CASE s.row = r /\ s.charge = n
        BY <2>1, <3>2, <4>1
      <4>2. CASE ~ (s.row = r /\ s.charge = n)
        <5>1. <<s.row, s.charge>> # <<r, n>>
          BY <4>2
        <5> QED
          BY <2>0, <2>2, <3>2, <5>1
      <4> QED
        BY <4>1, <4>2
    <3> QED
      BY <2>5, <3>1, <3>2, RefundChargeStep
  <2> QED
    BY <2>2, <2>3, <2>4, <2>5, ChargeCases
<1>4. ASSUME NEW k \in Procs PROVE Good(work'[k], pay')
  <2>1. CASE UNCHANGED work
    <3>1. WorkOK(work[k]) /\ Good(work[k], pay)
      BY DEF TypeInv, WorkInv, RowsInv
    <3>2. Good(work[k], pay')
      BY <1>0, <3>1, GoodKept
    <3> QED
      BY <2>1, <3>2
  <2> QED
    BY <1>0, <2>1, WorkCases, WorkStepGood
<1> QED
  BY <1>1, <1>2, <1>3, <1>4 DEF RowsInv

-----------------------------------------------------------------------------
(* At most one card charge is kept for a share.                             *)

\* Of the confirmations of a share one at most is under way, it starts to
\* charge only when nothing is paid, and one attempt at most is paid.
OnceInv ==
  \A r \in Rows \ again:
    /\ \A h, k \in Procs: /\ work[h].at \in Charging /\ work[h].row = r
                          /\ work[k].at \in Charging /\ work[k].row = r
                          => h = k
    /\ \A h \in Procs: On(h, "charge") /\ work[h].row = r => Paid(r) = {}
    /\ \A m, n \in Paid(r): m = n

\* OnceInv holds initially.
LEMMA OnceInit == Init => OnceInv
<1> SUFFICES ASSUME Init PROVE OnceInv
  OBVIOUS
<1>1. \A h \in Procs: work[h].at = "idle"
  BY DEF Init, MoneyInit, Idle
<1>2. \A r \in Rows: Paid(r) = {}
  BY DEF Init, MoneyInit, Paid, NoCharge
<1> QED
  BY <1>1, <1>2 DEF OnceInv, On, Charging

\* The histories grow.
Grow ==
  /\ again \subseteq again' /\ raced \subseteq raced' /\ lapsed \subseteq lapsed'
  /\ \A q \in lapsed' \ lapsed: quote[q] = "CONSUMED"

\* What was confirmed again, raced or lapsed stays so, and a quote that lapses
\* was booked.
LEMMA Growth == ASSUME [Next]_vars PROVE Grow
<1>1. ASSUME NEW h \in Procs,
             \/ ChargeStripe(h) \/ ChargeUpdate(h) \/ ConfirmUpdate(h)
             \/ ApplySuccess(h) \/ ApplyFailure(h)
             \/ RefundCredit(h) \/ RefundMark(h) \/ RefundSkipped(h)
             \/ ExpireQuote(h) \/ Crash(h)
             \/ \E u \in Users: ConfirmPayment(h, u)
             \/ \E r \in Rows, n \in Attempts: ReceiveEvent(h, r, n)
             \/ \E q \in Quotes: Sweep(h, q) \/ ReadExpired(h, q)
             \/ \E s \in work[h].todo: RefundCharge(h, s)
      PROVE  Grow
  BY <1>1 DEF ChargeStripe, ChargeUpdate, ConfirmUpdate, ApplySuccess, ApplyFailure, RefundCredit, RefundMark,
       RefundSkipped, ExpireQuote, Crash, ConfirmPayment, ReceiveEvent, Sweep, ReadExpired, RefundCharge, Grow
<1>2. ASSUME NEW h \in Procs, \/ RefundQuotePayments(h) \/ RefundGroupPayments(h)
                              \/ SelectQuotes(h) \/ RefundNextQuote(h)
      PROVE  Grow
  BY <1>2 DEF RefundQuotePayments, RefundGroupPayments, SelectQuotes, RefundNextQuote, Select, Grow
<1>3. ASSUME (\E u \in Users: ConfirmSettled(u)) \/ (\E q \in Quotes: Expires(q)) PROVE UNCHANGED <<again, raced, lapsed>>
  BY <1>3 DEF Expires, ConfirmSettled
<1>4. ASSUME NEW h \in Procs, NEW g, Reconfigure(h, g) PROVE UNCHANGED <<again, raced, lapsed>>
  BY <1>4 DEF Reconfigure, groupRest
<1>5. ASSUME NEW h \in Procs,
             \/ SetDestination(h) \/ LoadQuoteContext(h) \/ CreateQuote(h)
             \/ RequestRide(h) \/ RequestExpired(h) \/ Book(h) \/ CancelGroup(h)
             \/ AcceptTrip(h) \/ OnDriverAssigned(h) \/ ReleaseByDriver(h) \/ OnReleased(h)
             \/ StartTrip(h) \/ OnStarted(h) \/ CompleteTrip(h) \/ OnRideCompleted(h)
             \/ CancelTrip(h) \/ OnRideCancelled(h)
      PROVE  UNCHANGED <<again, raced, lapsed>>
  BY <1>4, <1>5 DEF SetDestination, LoadQuoteContext, CreateQuote, RequestRide, RequestExpired, Book, CancelGroup,
       AcceptTrip, OnDriverAssigned, ReleaseByDriver, OnReleased, StartTrip, OnStarted, CompleteTrip,
       OnRideCompleted, CancelTrip, OnRideCancelled, rideRest, groupRest
<1>6. ASSUME NEW h \in Procs, NEW u \in Users,
             \/ AcceptInvitation(h, u) \/ RemoveMember(h, u) \/ LeaveGroup(h, u)
             \/ SetPickup(h, u) \/ ResolvePickup(h, u)
      PROVE  UNCHANGED <<again, raced, lapsed>>
  BY <1>4, <1>6 DEF AcceptInvitation, RemoveMember, LeaveGroup, SetPickup, ResolvePickup, rideRest, groupRest
<1>7. ASSUME (\E u \in Users: InviteFriend(u) \/ CloseInvitation(u)) \/ NoDriver \/ PickUpRider \/ UNCHANGED vars
      PROVE  UNCHANGED <<again, raced, lapsed>>
  BY <1>7 DEF InviteFriend, CloseInvitation, NoDriver, PickUpRider, vars, moneyVars
<1>8. MoneyNext => Grow
  BY <1>1, <1>2, <1>3 DEF MoneyNext, Grow
<1> QED
  BY <1>5, <1>6, <1>7, <1>8 DEF Next, Grow

\* The same without what a quote that lapses was.
LEMMA RacedGrows == ASSUME [Next]_vars PROVE again \subseteq again' /\ raced \subseteq raced' /\ lapsed \subseteq lapsed'
  BY Growth DEF Grow

\* A step of handler h is not one of another.
LEMMA OthersWait ==
  ASSUME TypeInv, NEW h \in Procs, WorkStep(h), NEW k \in Procs, k # h
  PROVE  work'[k] = work[k]
<1>0. work \in [Procs -> WorkType] /\ \A p \in Procs: work[p] \in WorkType
  BY DEF TypeInv, WorkInv
<1>1. ASSUME Quiet(h) PROVE \E w: work' = [work EXCEPT ![h] = w]
  BY <1>1 DEF Quiet
<1>2. ASSUME GoesOn(h) PROVE \E w: work' = [work EXCEPT ![h] = w]
  <2>1. PICK at: work' = [work EXCEPT ![h].at = at]
    BY <1>2 DEF GoesOn, Goto
  <2>2. work' = [work EXCEPT ![h] = [work[h] EXCEPT !.at = at]]
    BY <1>0, <2>1
  <2> QED
    BY <2>2
<1>3. ASSUME NEW u \in Users, ConfirmPayment(h, u) PROVE \E w: work' = [work EXCEPT ![h] = w]
  BY <1>3, ConfirmPaymentStep DEF ConfirmStep
<1>4. ASSUME NEW r \in Rows, NEW n \in Attempts, ReceiveEvent(h, r, n)
      PROVE  UNCHANGED work \/ \E w: work' = [work EXCEPT ![h] = w]
  BY <1>4 DEF ReceiveEvent
<1>5. ASSUME NEW rows \in SUBSET Rows, NEW rest \in SUBSET Quotes, Select(h, rows, rest)
      PROVE  \E w: work' = [work EXCEPT ![h] = w]
  BY <1>5 DEF Select
<1>6. ASSUME LoadQuoteContext(h) PROVE \E w: work' = [work EXCEPT ![h] = w]
  BY <1>6 DEF LoadQuoteContext
<1>7. \E w: work' = [work EXCEPT ![h] = w] \/ UNCHANGED work
  BY <1>1, <1>2, <1>3, <1>4, <1>5, <1>6 DEF WorkStep
<1> QED
  BY <1>0, <1>7

\* Who is charging after a step was, for the same attempt, or has confirmed.
LEMMA ChargingMoves ==
  ASSUME TypeInv, NEW h \in Procs, WorkStep(h), NEW k \in Procs, work'[k].at \in Charging
  PROVE  \/ /\ work[k].at \in Charging /\ work'[k].row = work[k].row /\ work'[k].n = work[k].n
            /\ work'[k].at = "charge" => work'[k] = work[k]
         \/ k = h /\ \E u \in Users: ConfirmPayment(h, u) /\ work'[k].row = <<group.quote, u>>
<1>0. work \in [Procs -> WorkType] /\ \A p \in Procs: work[p] \in WorkType
  BY DEF TypeInv, WorkInv
<1>1. CASE k # h
  BY <1>1, OthersWait
<1>2. CASE k = h
  <2>1. CASE Quiet(h)
    <3>1. work'[h].at \notin WithCharge \cup {"update", "quote"}
      BY <1>0, <2>1 DEF Quiet
    <3> QED
      BY <1>2, <3>1 DEF Charging, WithCharge
  <2>2. CASE GoesOn(h)
    <3>1. PICK at \in {"record", "recordFailure", "update", "decline"}: work' = [work EXCEPT ![h].at = at]
      BY <2>2 DEF GoesOn, Goto
    <3>2. work'[h] = [work[h] EXCEPT !.at = at]
      BY <1>0, <3>1
    <3>3. work'[h].at = at /\ work'[h].row = work[h].row /\ work'[h].n = work[h].n
      BY <1>0, <3>2 DEF WorkType
    <3> QED
      BY <1>2, <2>2, <3>3 DEF GoesOn, Charging
  <2>3. ASSUME NEW u \in Users, ConfirmPayment(h, u) PROVE work'[h].row = <<group.quote, u>>
    <3>0. ConfirmStep(h, u)
      BY <2>3, ConfirmPaymentStep
    <3>1. PICK at, n: work' = [work EXCEPT ![h] = [Idle EXCEPT !.at = at, !.row = <<group.quote, u>>, !.n = n]]
      BY <3>0, Zenon DEF ConfirmStep
    <3>2. work'[h] = [Idle EXCEPT !.at = at, !.row = <<group.quote, u>>, !.n = n]
      BY <1>0, <3>1
    <3> QED
      BY <3>2 DEF Idle
  <2>4. ASSUME NEW r \in Rows, NEW n \in Attempts, ReceiveEvent(h, r, n), work'[h] # work[h] PROVE FALSE
    <3>1. work'[h] = [Idle EXCEPT !.at = charge[<<r, n>>].event, !.row = r, !.n = n]
      BY <1>0, <2>4 DEF ReceiveEvent
    <3>2. work'[h].at = charge[<<r, n>>].event
      BY <3>1 DEF Idle
    <3>3. charge[<<r, n>>].event \in {"none", "succeeded", "failed"}
      BY DEF TypeInv, ChargeType
    <3> QED
      BY <1>2, <3>2, <3>3 DEF Charging
  <2>5. ASSUME NEW rows \in SUBSET Rows, NEW rest \in SUBSET Quotes, Select(h, rows, rest) PROVE FALSE
    <3>1. PICK todo: work'[h] = Onward(rest) \/ work'[h] = [Idle EXCEPT !.at = "refund", !.todo = todo, !.left = rest]
      BY <1>0, <2>5 DEF Select
    <3>2. /\ Onward(rest).at \in {"idle", "selectEach"}
          /\ [Idle EXCEPT !.at = "refund", !.todo = todo, !.left = rest].at = "refund"
      BY DEF Idle, Onward
    <3>3. work'[h].at \in {"idle", "selectEach", "refund"}
      BY <3>1, <3>2
    <3> QED
      BY <1>2, <3>3 DEF Charging
  <2>6. CASE LoadQuoteContext(h)
    <3>1. work'[h] = [Idle EXCEPT !.at = "quote", !.members = Active, !.version = group.version]
      BY <1>0, <2>6 DEF LoadQuoteContext
    <3>2. work'[h].at = "quote"
      BY <3>1 DEF Idle
    <3> QED
      BY <1>2, <3>2 DEF Charging
  <2>7. ASSUME NEW r \in Rows, NEW n \in Attempts, ReceiveEvent(h, r, n) PROVE work'[h] = work[h]
    BY <2>4, <2>7
  <2> QED
    BY <1>2, <2>1, <2>2, <2>3, <2>5, <2>6, <2>7 DEF WorkStep
<1> QED
  BY <1>1, <1>2

\* What is paid after a step was, or has just been charged.
LEMMA PaidMoves ==
  ASSUME TypeInv, RowsInv, [Next]_vars, NEW r \in Rows, NEW n \in Attempts,
         charge'[<<r, n>>].stripe = "paid", charge[<<r, n>>].stripe # "paid"
  PROVE  \E h \in Procs: ChargeStripe(h) /\ work[h].row = r /\ work[h].n = n /\ work'[h].at # "charge"
<1>0. charge \in [Rows \X Attempts -> ChargeType] /\ work \in [Procs -> WorkType]
      /\ \A p \in Procs: work[p] \in WorkType
  BY DEF TypeInv, WorkInv
<1>1. CASE UNCHANGED charge
  BY <1>1
<1>2. CASE RecordStep
  <2>1. PICK k \in Rows, m \in Attempts, c \in ChargeType:
          charge' = [charge EXCEPT ![<<k, m>>] = c] /\ c.stripe = charge[<<k, m>>].stripe
    BY <1>2 DEF RecordStep
  <2> QED
    BY <1>0, <2>1
<1>3. ASSUME NEW h \in Procs, NEW s \in work[h].todo, RefundCharge(h, s) PROVE FALSE
  <2>1. CASE UNCHANGED charge
    BY <2>1
  <2>2. ASSUME s.row \in Rows, s.charge \in Attempts, NEW c \in ChargeType, c.stripe = "refunded",
               charge' = [charge EXCEPT ![<<s.row, s.charge>>] = c]
        PROVE  FALSE
    BY <1>0, <2>2
  <2> QED
    BY <1>3, <2>1, <2>2, RefundChargeStep
<1>4. ASSUME NEW h \in Procs, ChargeStripe(h)
      PROVE  work[h].row = r /\ work[h].n = n /\ work'[h].at # "charge"
  <2>1. PICK at \in {"record", "recordFailure", "decline"}: work' = [work EXCEPT ![h].at = at]
    BY <1>4 DEF ChargeStripe, Goto
  <2>2. work'[h] = [work[h] EXCEPT !.at = at]
    BY <1>0, <2>1
  <2>3. work'[h].at # "charge"
    BY <1>0, <2>2 DEF WorkType
  <2>4. UNCHANGED charge \/ \E c: charge' = [charge EXCEPT ![<<work[h].row, work[h].n>>] = c]
    BY <1>4 DEF ChargeStripe
  <2>5. <<work[h].row, work[h].n>> = <<r, n>>
    BY <1>0, <2>4
  <2> QED
    BY <2>3, <2>5
<1> QED
  BY <1>1, <1>2, <1>3, <1>4, ChargeCases

\* Every step preserves OnceInv.
LEMMA OnceStep == TypeInv /\ RowsInv /\ OnceInv /\ [Next]_vars => OnceInv'
<1> SUFFICES ASSUME TypeInv, RowsInv, OnceInv, [Next]_vars, NEW r \in Rows \ again' PROVE
    /\ \A h, k \in Procs: /\ work'[h].at \in Charging /\ work'[h].row = r
                          /\ work'[k].at \in Charging /\ work'[k].row = r
                          => h = k
    /\ \A h \in Procs: On(h, "charge")' /\ work'[h].row = r => Paid(r)' = {}
    /\ \A m, n \in Paid(r)': m = n
  BY DEF OnceInv
<1>0. r \in Rows \ again
  BY RacedGrows
<1>1. /\ \A h, k \in Procs: /\ work[h].at \in Charging /\ work[h].row = r
                            /\ work[k].at \in Charging /\ work[k].row = r
                            => h = k
      /\ \A h \in Procs: On(h, "charge") /\ work[h].row = r => Paid(r) = {}
      /\ \A m, n \in Paid(r): m = n
  BY <1>0 DEF OnceInv
\* Who charges has been charging, or has confirmed a share that was settled.
<1>2. ASSUME NEW h \in Procs, NEW u \in Users, ConfirmPayment(h, u), r = <<group.quote, u>>
      PROVE  (\A k \in Procs: ~ (work[k].at \in Charging /\ work[k].row = r)) /\ Paid(r) = {} /\ UNCHANGED charge
  <2>1. ~ Unsettled(r)
    BY <1>2 DEF ConfirmPayment
  <2>2. \A k \in Procs: ~ (work[k].at \in Charging /\ work[k].row = r)
    BY <2>1 DEF Unsettled, Charging
  <2>3. pay[r].status # "SUCCEEDED"
    BY <1>2 DEF ConfirmPayment, Retryable
  <2>4. Paid(r) = {}
    BY <2>1, <2>3 DEF Unsettled, Paid
  <2> QED
    BY <1>2, <2>2, <2>4 DEF ConfirmPayment
<1>3. ASSUME NEW n \in Paid(r)', n \notin Paid(r)
      PROVE  \E h \in Procs: On(h, "charge") /\ work[h].row = r /\ work[h].n = n /\ work'[h].at # "charge"
  <2>1. n \in Attempts /\ charge'[<<r, n>>].stripe = "paid" /\ charge[<<r, n>>].stripe # "paid"
    BY <1>3 DEF Paid
  <2>2. PICK h \in Procs: ChargeStripe(h) /\ work[h].row = r /\ work[h].n = n /\ work'[h].at # "charge"
    BY <2>1, PaidMoves
  <2>3. On(h, "charge")
    BY <2>2 DEF ChargeStripe
  <2> QED
    BY <2>2, <2>3
<1>4. ASSUME NEW h \in Procs, NEW k \in Procs,
             work'[h].at \in Charging, work'[h].row = r, work'[k].at \in Charging, work'[k].row = r
      PROVE  h = k
  <2>1. CASE UNCHANGED work
    BY <1>1, <1>4, <2>1
  <2>2. ASSUME NEW p \in Procs, WorkStep(p) PROVE h = k
    <3>1. \/ work[h].at \in Charging /\ work[h].row = r
          \/ h = p /\ \E u \in Users: ConfirmPayment(p, u) /\ r = <<group.quote, u>>
      BY <1>4, <2>2, ChargingMoves
    <3>2. \/ work[k].at \in Charging /\ work[k].row = r
          \/ k = p /\ \E u \in Users: ConfirmPayment(p, u) /\ r = <<group.quote, u>>
      BY <1>4, <2>2, ChargingMoves
    <3> QED
      BY <1>1, <1>2, <3>1, <3>2
  <2> QED
    BY <2>1, <2>2, WorkCases
<1>5. ASSUME NEW h \in Procs, work'[h].at = "charge", work'[h].row = r PROVE Paid(r)' = {}
  <2>1. CASE work'[h] = work[h]
    <3>1. On(h, "charge") /\ work[h].row = r /\ Paid(r) = {}
      BY <1>1, <1>5, <2>1 DEF On
    <3>2. ASSUME NEW n \in Paid(r)' PROVE FALSE
      <4>1. PICK k \in Procs: On(k, "charge") /\ work[k].row = r /\ work'[k].at # "charge"
        BY <1>3, <3>1, <3>2
      <4>2. k = h
        BY <1>1, <3>1, <4>1 DEF On, Charging
      <4> QED
        BY <1>5, <4>1, <4>2
    <3> QED
      BY <3>2
  <2>2. CASE work'[h] # work[h]
    <3>1. PICK p \in Procs: WorkStep(p)
      BY <2>2, WorkCases
    <3>2. work'[h].at \in Charging
      BY <1>5 DEF Charging
    <3>3. \E u \in Users: ConfirmPayment(p, u) /\ r = <<group.quote, u>>
      BY <1>5, <2>2, <3>1, <3>2, ChargingMoves
    <3>4. Paid(r) = {} /\ UNCHANGED charge
      BY <1>2, <3>3
    <3> QED
      BY <3>4 DEF Paid
  <2> QED
    BY <2>1, <2>2
<1>6. ASSUME NEW m \in Paid(r)', NEW n \in Paid(r)' PROVE m = n
  <2>1. ASSUME NEW k \in Paid(r)', k \notin Paid(r) PROVE m = k /\ n = k
    <3>1. PICK h \in Procs: On(h, "charge") /\ work[h].row = r /\ work[h].n = k
      BY <1>3, <2>1
    <3>2. Paid(r) = {}
      BY <1>1, <3>1
    <3>3. ASSUME NEW j \in Paid(r)' PROVE j = k
      <4>1. PICK p \in Procs: On(p, "charge") /\ work[p].row = r /\ work[p].n = j
        BY <1>3, <3>2, <3>3
      <4>2. p = h
        BY <1>1, <3>1, <4>1 DEF On, Charging
      <4> QED
        BY <3>1, <4>1, <4>2
    <3> QED
      BY <3>3
  <2> QED
    BY <1>1, <2>1
<1> QED
  BY <1>4, <1>5, <1>6 DEF On

\* A handler about to charge is the only one with its attempt, and nothing is
\* paid for that attempt.
FreshInv ==
  \A h \in Procs: On(h, "charge") =>
    /\ charge[<<work[h].row, work[h].n>>].stripe # "paid"
    /\ \A k \in Procs: On(k, "charge") /\ work[k].row = work[h].row /\ work[k].n = work[h].n => k = h

\* FreshInv holds initially.
LEMMA FreshInit == Init => FreshInv
  BY DEF Init, MoneyInit, FreshInv, On, Idle

\* The attempt that a confirmation starts is a new one.
LEMMA NewAttempt ==
  ASSUME TypeInv, RowsInv, NEW h \in Procs, NEW u \in Users, ConfirmPayment(h, u), work'[h].at = "charge"
  PROVE  LET r == <<group.quote, u>> IN
         /\ work'[h].row = r /\ charge[<<r, work'[h].n>>].stripe # "paid"
         /\ \A k \in Procs: On(k, "charge") /\ work[k].row = r => work[k].n # work'[h].n
<1> DEFINE r == <<group.quote, u>>
<1>0. work \in [Procs -> WorkType] /\ \A k \in Procs: WorkOK(work[k])
  BY DEF TypeInv, WorkInv
<1>1. r \in Rows /\ ConfirmStep(h, u)
  BY ConfirmPaymentStep
<1>2. PICK n \in Attempts, card \in Int:
        /\ n = pay[r].attempts + 1
        /\ work' = [work EXCEPT ![h] = [Idle EXCEPT !.at = IF card > 0 THEN "charge" ELSE "update",
                                              !.row = r, !.n = IF card > 0 THEN n ELSE 0]]
  <2>1. PICK applied \in Nat, n \in Attempts:
          /\ n = pay[r].attempts + 1
          /\ LET credit == pay[r].credit + applied
                 card == pay[r].amount - credit IN
             work' = [work EXCEPT ![h] = [Idle EXCEPT !.at = IF card > 0 THEN "charge" ELSE "update",
                                                !.row = r, !.n = IF card > 0 THEN n ELSE 0]]
    BY <1>1 DEF ConfirmStep
  <2>2. pay[r].amount - (pay[r].credit + applied) \in Int
    BY <1>1, PaymentsAssumption DEF TypeInv, PayInv, PaymentType
  <2> HIDE DEF r
  <2> QED
    BY <2>1, <2>2
<1> HIDE DEF r
<1>8. work'[h] = [Idle EXCEPT !.at = IF card > 0 THEN "charge" ELSE "update",
                              !.row = r, !.n = IF card > 0 THEN n ELSE 0]
  BY <1>0, <1>2
<1>3. work'[h].row = r /\ work'[h].n = n
  BY <1>8 DEF Idle
<1>4. n = pay[r].attempts + 1 /\ n \in Attempts /\ pay[r].attempts \in Nat
  BY <1>1, <1>2, PaymentsAssumption DEF TypeInv, PayInv, PaymentType
<1>5. charge[<<r, n>>] = NoCharge
  BY <1>1, <1>4 DEF RowsInv
<1>6. charge[<<r, n>>].stripe # "paid"
  BY <1>5 DEF NoCharge
<1>7. ASSUME NEW k \in Procs, On(k, "charge"), work[k].row = r PROVE work[k].n # n
  <2>1. work[k].n <= pay[r].attempts /\ work[k].n \in Nat
    BY <1>0, <1>7, PaymentsAssumption DEF RowsInv, Good, WithCharge, On, WorkType
  <2> QED
    BY <1>4, <2>1
<1> QED
  BY <1>3, <1>6, <1>7 DEF r

\* Every step preserves FreshInv.
LEMMA FreshStep == TypeInv /\ RowsInv /\ FreshInv /\ [Next]_vars => FreshInv'
<1> SUFFICES ASSUME TypeInv, RowsInv, FreshInv, [Next]_vars, NEW h \in Procs, work'[h].at = "charge"
    PROVE  /\ charge'[<<work'[h].row, work'[h].n>>].stripe # "paid"
           /\ \A k \in Procs: work'[k].at = "charge" /\ work'[k].row = work'[h].row /\ work'[k].n = work'[h].n => k = h
  BY DEF FreshInv, On
\* A handler about to charge was, or has just confirmed.
<1>1. ASSUME NEW k \in Procs, work'[k].at = "charge"
      PROVE  \/ On(k, "charge") /\ work'[k] = work[k]
             \/ \E u \in Users: ConfirmPayment(k, u) /\ WorkStep(k)
  <2>1. CASE UNCHANGED work
    BY <1>1, <2>1 DEF On
  <2>2. ASSUME NEW p \in Procs, WorkStep(p)
        PROVE  \/ On(k, "charge") /\ work'[k] = work[k]
               \/ \E u \in Users: ConfirmPayment(k, u) /\ WorkStep(k)
    <3>1. work'[k].at \in Charging
      BY <1>1 DEF Charging
    <3> QED
      BY <1>1, <2>2, <3>1, ChargingMoves DEF On
  <2> QED
    BY <2>1, <2>2, WorkCases
<1>2. ASSUME NEW k \in Procs, work'[k].at = "charge", work'[k].row = work'[h].row, work'[k].n = work'[h].n PROVE k = h
  <2>1. CASE work'[k] = work[k] /\ On(k, "charge") /\ work'[h] = work[h] /\ On(h, "charge")
    BY <1>2, <2>1 DEF FreshInv
  <2>2. ASSUME NEW p \in Procs, NEW q \in Procs, NEW u \in Users, ConfirmPayment(p, u), work'[p].at = "charge",
               On(q, "charge"), work'[q] = work[q], work'[q].row = work'[p].row, work'[q].n = work'[p].n
        PROVE  FALSE
    BY <2>2, NewAttempt
  <2>3. ASSUME NEW u \in Users, NEW v \in Users, ConfirmPayment(k, u), WorkStep(k), ConfirmPayment(h, v), k # h
        PROVE  FALSE
    <3>1. work'[h] = work[h]
      BY <2>3, OthersWait
    <3> QED
      BY <2>3, <3>1 DEF ConfirmPayment, On
  <2> QED
    BY <1>1, <1>2, <2>1, <2>2, <2>3
<1>3. ASSUME charge'[<<work'[h].row, work'[h].n>>].stripe = "paid" PROVE FALSE
  <2> DEFINE r == work'[h].row
             n == work'[h].n
  <2>0. WorkOK(work'[h])
    <3>1. TypeInv'
      BY StepType
    <3> QED
      BY <3>1 DEF TypeInv, WorkInv, WorkOK
  <2>1. r \in Rows /\ n \in Attempts /\ charge'[<<r, n>>].stripe = "paid"
    BY <1>3, <2>0 DEF WorkOK, WithCharge
  <2>3. charge[<<r, n>>].stripe # "paid"
    BY <1>1, NewAttempt DEF FreshInv
  <2>4. PICK k \in Procs: ChargeStripe(k) /\ work[k].row = r /\ work[k].n = n /\ work'[k].at # "charge"
    <3> HIDE DEF r, n
    <3> QED
      BY <2>1, <2>3, PaidMoves
  <2>5. On(k, "charge") /\ UNCHANGED pay /\ k # h
    BY <2>4 DEF ChargeStripe
  <2>6. CASE On(h, "charge") /\ work'[h] = work[h]
    BY <2>4, <2>5, <2>6 DEF FreshInv
  <2>7. ASSUME NEW u \in Users, ConfirmPayment(h, u) PROVE FALSE
    BY <2>4, <2>5, <2>7, NewAttempt
  <2> QED
    BY <1>1, <2>6, <2>7
<1> QED
  BY <1>2, <1>3

-----------------------------------------------------------------------------
(* Credits move between the balances and the shares.                        *)

\* What the shares of u hold in credits, by quote.
Held(u) == [q \in Quotes |-> IF <<q, u>> \in returned THEN 0 ELSE pay[<<q, u>>].credit]

\* The balance of u and what their shares hold.
Books(u) == credits[u] + Sum(Held(u), Quotes)

CreditsInv ==
  /\ \A r \in returned: pay[r].credit > 0
  /\ \A u \in Users: Books(u) \in Openings

\* CreditsConserved as a sum over the quotes.
LEMMA ConservedIs == CreditsConserved <=> \A u \in Users: Books(u) \in Openings
<1>1. ASSUME NEW u \in Users PROVE Weight(Held(u)) = Sum(Held(u), Quotes)
  <2>1. DOMAIN Held(u) = Quotes
    BY DEF Held
  <2> QED
    BY <2>1, WeightIsSum
<1> QED
  BY <1>1 DEF CreditsConserved, Books, Held

\* What the rows hold of a user's credits are integers.
LEMMA HeldTypes == ASSUME TypeInv, NEW u \in Users PROVE \A q \in Quotes: Held(u)[q] \in Int
<1> SUFFICES ASSUME NEW q \in Quotes PROVE Held(u)[q] \in Int
  OBVIOUS
<1>1. <<q, u>> \in Rows
  BY DEF Rows
<1>2. pay[<<q, u>>].credit \in Int
  BY <1>1, PaymentsAssumption DEF TypeInv, PayInv, PaymentType
<1> QED
  BY <1>2 DEF Held

\* What is taken from the balance and put on one share, or the other way
\* round, leaves the books of u as they were.
LEMMA BooksMoved ==
  ASSUME TypeInv, TypeInv', NEW u \in Users, NEW p \in Quotes, NEW a \in Int,
         credits'[u] = credits[u] - a, Held(u)'[p] = Held(u)[p] + a,
         \A q \in Quotes \ {p}: Held(u)'[q] = Held(u)[q]
  PROVE  Books(u)' = Books(u)
<1>1. IsFiniteSet(Quotes)
  BY PaymentsAssumption
<1>2. \A q \in Quotes: Held(u)[q] \in Int /\ Held(u)'[q] \in Int
  <2>1. \A q \in Quotes: Held(u)[q] \in Int
    BY HeldTypes
  <2>2. (\A q \in Quotes: Held(u)[q] \in Int)'
    BY HeldTypes
  <2> QED
    BY <2>1, <2>2
<1>3. Sum(Held(u)', Quotes) = Sum(Held(u), Quotes) - Held(u)[p] + Held(u)'[p]
  BY <1>1, <1>2, SumUpdate
<1>4. Sum(Held(u), Quotes) \in Int
  BY <1>1, <1>2, SumType
<1>5. credits[u] \in Int
  BY DEF TypeInv
<1>6. Books(u)' = credits'[u] + Sum(Held(u)', Quotes)
  BY DEF Books
<1> QED
  BY <1>2, <1>3, <1>4, <1>5, <1>6 DEF Books

\* The books of a user none of whose rows or credits moves.
LEMMA BooksKept ==
  ASSUME NEW u \in Users, credits'[u] = credits[u], \A q \in Quotes: Held(u)'[q] = Held(u)[q]
  PROVE  Books(u)' = Books(u)
<1>1. Sum(Held(u)', Quotes) = Sum(Held(u), Quotes)
  BY PaymentsAssumption, SumSame
<1>2. Books(u)' = credits'[u] + Sum(Held(u)', Quotes)
  BY DEF Books
<1> QED
  BY <1>1, <1>2 DEF Books

\* CreditsInv holds initially.
LEMMA CreditsInit == Init => CreditsInv
<1> SUFFICES ASSUME Init PROVE CreditsInv
  OBVIOUS
<1>1. returned = {} /\ \A r \in Rows: pay[r].credit = 0
  BY DEF Init, MoneyInit, NoPayment
<1>2. ASSUME NEW u \in Users PROVE Books(u) \in Openings
  <2>0. credits \in [Users -> Openings]
    BY DEF Init, MoneyInit
  <2>1. credits[u] \in Openings /\ credits[u] \in Int
    <3>1. credits[u] \in Openings
      BY <2>0
    <3>2. \A x \in Openings: x \in Int
      BY PaymentsAssumption
    <3> QED
      BY <3>1, <3>2
  <2>2. \A q \in Quotes: Held(u)[q] = 0
    BY <1>1 DEF Held, Rows
  <2>3. Sum(Held(u), Quotes) = 0
    BY <2>2, PaymentsAssumption, SumZero
  <2> QED
    BY <2>1, <2>3 DEF Books
<1> QED
  BY <1>1, <1>2 DEF CreditsInv

\* The steps that touch a balance.
LEMMA CreditCases ==
  ASSUME [Next]_vars
  PROVE  \/ UNCHANGED <<credits, returned>>
         \/ \E h \in Procs, u \in Users: ConfirmPayment(h, u)
         \/ \E h \in Procs: RefundCredit(h)
<1>1. ASSUME NEW h \in Procs,
             \/ ChargeStripe(h) \/ ChargeUpdate(h) \/ ConfirmUpdate(h)
             \/ ApplySuccess(h) \/ ApplyFailure(h)
             \/ RefundQuotePayments(h) \/ RefundGroupPayments(h) \/ SelectQuotes(h) \/ RefundNextQuote(h)
             \/ RefundMark(h) \/ RefundSkipped(h)
             \/ ExpireQuote(h) \/ Crash(h)
             \/ \E r \in Rows, n \in Attempts: ReceiveEvent(h, r, n)
             \/ \E q \in Quotes: Sweep(h, q) \/ ReadExpired(h, q)
             \/ \E s \in work[h].todo: RefundCharge(h, s)
      PROVE  UNCHANGED <<credits, returned>>
  BY <1>1 DEF ChargeStripe, ChargeUpdate, ConfirmUpdate, ApplySuccess, ApplyFailure, RefundQuotePayments,
       RefundGroupPayments, SelectQuotes, RefundNextQuote, RefundMark, RefundSkipped, ExpireQuote, Crash,
       ReceiveEvent, Sweep, ReadExpired, RefundCharge
<1>3. ASSUME (\E u \in Users: ConfirmSettled(u)) \/ (\E q \in Quotes: Expires(q)) PROVE UNCHANGED <<credits, returned>>
  BY <1>3 DEF Expires, ConfirmSettled
<1>4. ASSUME NEW h \in Procs, NEW g, Reconfigure(h, g) PROVE UNCHANGED <<credits, returned>>
  BY <1>4 DEF Reconfigure, groupRest
<1>5. ASSUME NEW h \in Procs,
             \/ SetDestination(h) \/ LoadQuoteContext(h) \/ CreateQuote(h)
             \/ RequestRide(h) \/ RequestExpired(h) \/ Book(h) \/ CancelGroup(h)
             \/ AcceptTrip(h) \/ OnDriverAssigned(h) \/ ReleaseByDriver(h) \/ OnReleased(h)
             \/ StartTrip(h) \/ OnStarted(h) \/ CompleteTrip(h) \/ OnRideCompleted(h)
             \/ CancelTrip(h) \/ OnRideCancelled(h)
      PROVE  UNCHANGED <<credits, returned>>
  BY <1>4, <1>5 DEF SetDestination, LoadQuoteContext, CreateQuote, RequestRide, RequestExpired, Book, CancelGroup,
       AcceptTrip, OnDriverAssigned, ReleaseByDriver, OnReleased, StartTrip, OnStarted, CompleteTrip,
       OnRideCompleted, CancelTrip, OnRideCancelled, rideRest, groupRest
<1>6. ASSUME NEW h \in Procs, NEW u \in Users,
             \/ AcceptInvitation(h, u) \/ RemoveMember(h, u) \/ LeaveGroup(h, u)
             \/ SetPickup(h, u) \/ ResolvePickup(h, u)
      PROVE  UNCHANGED <<credits, returned>>
  BY <1>4, <1>6 DEF AcceptInvitation, RemoveMember, LeaveGroup, SetPickup, ResolvePickup, rideRest, groupRest
<1>7. ASSUME (\E u \in Users: InviteFriend(u) \/ CloseInvitation(u)) \/ NoDriver \/ PickUpRider \/ UNCHANGED vars
      PROVE  UNCHANGED <<credits, returned>>
  BY <1>7 DEF InviteFriend, CloseInvitation, NoDriver, PickUpRider, vars, moneyVars
<1>8. MoneyNext =>
         \/ UNCHANGED <<credits, returned>>
         \/ \E h \in Procs, u \in Users: ConfirmPayment(h, u)
         \/ \E h \in Procs: RefundCredit(h)
  BY <1>1, <1>3 DEF MoneyNext
<1> QED
  BY <1>5, <1>6, <1>7, <1>8 DEF Next

\* Every step preserves CreditsInv.
LEMMA CreditsStep == TypeInv /\ TypeInv' /\ RowsInv /\ CreditsInv /\ [Next]_vars => CreditsInv'
<1> SUFFICES ASSUME TypeInv, TypeInv', RowsInv, CreditsInv, [Next]_vars PROVE CreditsInv'
  OBVIOUS
<1>0. returned \subseteq Rows /\ \A r \in Rows: Moved(r) /\ pay[r].credit \in Nat
  BY PayMoves, PaymentsAssumption DEF TypeInv, PayInv, PaymentType
<1>1. ASSUME NEW r \in returned PROVE pay'[r].credit > 0
  BY <1>0 DEF CreditsInv, Moved
<1>2. CASE UNCHANGED <<credits, returned>> /\ \A r \in Rows: Kept(r)
  <2>1. ASSUME NEW u \in Users PROVE Books(u)' = Books(u)
    <3>1. \A q \in Quotes: Held(u)'[q] = Held(u)[q]
      BY <1>2 DEF Held, Kept, Rows
    <3> QED
      BY <1>2, <3>1, BooksKept
  <2> QED
    BY <1>1, <1>2, <2>1 DEF CreditsInv
<1>3. ASSUME NEW h \in Procs, NEW u \in Users, ConfirmPayment(h, u) PROVE CreditsInv'
  <2> DEFINE r == <<group.quote, u>>
  <2>1. r \in Rows /\ ConfirmStep(h, u) /\ group.quote \in Quotes /\ returned' = returned
    BY <1>3, ConfirmPaymentStep DEF Rows, ConfirmPayment
  <2>2. PICK applied \in Nat, n \in Attempts:
          /\ applied > 0 => pay[r].credit = 0
          /\ credits' = [credits EXCEPT ![u] = @ - applied]
          /\ LET credit == pay[r].credit + applied
                 card == pay[r].amount - credit IN
             pay' = [pay EXCEPT ![r].status = IF card > 0 THEN "PROCESSING" ELSE "SUCCEEDED",
                                ![r].credit = credit, ![r].card = card, ![r].attempts = n]
    BY <2>1 DEF ConfirmStep
  <2> DEFINE credit == pay[r].credit + applied
             card == pay[r].amount - credit
             p == [pay[r] EXCEPT !.status = IF card > 0 THEN "PROCESSING" ELSE "SUCCEEDED",
                                 !.credit = credit, !.card = card, !.attempts = n]
  <2>3. pay \in [Rows -> PaymentType] /\ pay[r] \in PaymentType /\ credits \in [Users -> Nat]
    BY <2>1 DEF TypeInv, PayInv
  <2> HIDE DEF r
  <2>4. pay' = [pay EXCEPT ![r] = p]
    BY <2>1, <2>2, <2>3
  <2>5. p.credit = pay[r].credit + applied
    BY <2>3 DEF PaymentType
  <2> HIDE DEF p
  <2>6. pay'[r].credit = pay[r].credit + applied /\ \A k \in Rows \ {r}: pay'[k] = pay[k]
    BY <2>1, <2>3, <2>4, <2>5
  <2>7. ASSUME NEW v \in Users \ {u} PROVE Books(v)' = Books(v)
    <3>1. ASSUME NEW q \in Quotes PROVE Held(v)'[q] = Held(v)[q]
      <4>1. <<q, v>> \in Rows \ {r}
        BY DEF Rows, r
      <4> QED
        BY <2>1, <2>6, <4>1 DEF Held
    <3>2. credits'[v] = credits[v]
      BY <2>2, <2>3
    <3> QED
      BY <3>1, <3>2, BooksKept
  <2>8. Books(u)' = Books(u)
    <3>1. r \in returned => applied = 0
      BY <2>2 DEF CreditsInv
    <3>2. Held(u)'[group.quote] = Held(u)[group.quote] + (IF r \in returned THEN 0 ELSE applied)
      BY <2>1, <2>6 DEF Held, r
    <3>3. ASSUME NEW q \in Quotes \ {group.quote} PROVE Held(u)'[q] = Held(u)[q]
      <4>1. <<q, u>> \in Rows \ {r}
        BY DEF Rows, r
      <4> QED
        BY <2>1, <2>6, <4>1 DEF Held
    <3>4. credits'[u] = credits[u] - applied
      BY <2>2, <2>3
    <3>5. Held(u)'[group.quote] = Held(u)[group.quote] + applied
      BY <3>1, <3>2
    <3> QED
      BY <2>1, <3>3, <3>4, <3>5, BooksMoved
  <2> QED
    BY <1>1, <2>1, <2>7, <2>8 DEF CreditsInv
<1>4. ASSUME NEW h \in Procs, RefundCredit(h) PROVE CreditsInv'
  <2> DEFINE s == Taken(h)
  <2>0. UNCHANGED pay
    BY <1>4 DEF RefundCredit
  <2>1. s \in work[h].todo
    <3>1. \E t \in work[h].todo: t.row = work[h].row
      BY <1>4 DEF RefundCredit, On, TypeInv, WorkInv, WorkOK
    <3> QED
      BY <3>1 DEF Taken
  <2>2. s.row \in Rows /\ s.credit \in Nat
    BY <2>1, PaymentsAssumption DEF TypeInv, WorkInv, WorkType, SnapshotType
  <2>3. s.credit > 0 => s.credit = pay[s.row].credit
    BY <2>1 DEF RowsInv, Good
  <2>4. CASE s.credit > 0 /\ s.row \notin returned
    <3>1. credits' = [credits EXCEPT ![s.row[2]] = @ + s.credit] /\ returned' = returned \cup {s.row}
      BY <1>4, <2>4 DEF RefundCredit
    <3> HIDE DEF s
    <3>2. PICK p \in Quotes, u \in Users: s.row = <<p, u>>
      BY <2>2 DEF Rows
    <3>3. ASSUME NEW v \in Users \ {u} PROVE Books(v)' = Books(v)
      <4>1. \A q \in Quotes: Held(v)'[q] = Held(v)[q]
        BY <2>0, <3>1, <3>2 DEF Held
      <4>2. credits'[v] = credits[v]
        BY <3>1, <3>2 DEF TypeInv
      <4> QED
        BY <4>1, <4>2, BooksKept
    <3>4. Books(u)' = Books(u)
      <4>1. credits'[u] = credits[u] - (0 - s.credit)
        BY <2>2, <3>1, <3>2 DEF TypeInv
      <4>2. Held(u)'[p] = 0 /\ Held(u)[p] = s.credit
        BY <2>3, <2>4, <3>1, <3>2 DEF Held
      <4>3. Held(u)'[p] = Held(u)[p] + (0 - s.credit)
        BY <2>2, <4>2
      <4>4. \A q \in Quotes \ {p}: Held(u)'[q] = Held(u)[q]
        BY <2>0, <3>1, <3>2 DEF Held
      <4>5. 0 - s.credit \in Int
        BY <2>2
      <4> QED
        BY <4>1, <4>3, <4>4, <4>5, BooksMoved
    <3>5. \A r \in returned': pay'[r].credit > 0
      BY <1>1, <2>0, <2>3, <2>4, <3>1
    <3> QED
      BY <3>3, <3>4, <3>5 DEF CreditsInv
  <2>5. CASE ~ (s.credit > 0 /\ s.row \notin returned)
    <3>1. UNCHANGED <<credits, returned>>
      BY <1>4, <2>5 DEF RefundCredit
    <3>2. \A r \in Rows: Kept(r)
      BY <2>0 DEF Kept
    <3> QED
      BY <1>2, <3>1, <3>2
  <2> QED
    BY <2>4, <2>5
<1>5. (\A r \in Rows: Kept(r)) \/ \E h \in Procs, u \in Users: ConfirmPayment(h, u)
  BY PayMoves
<1> QED
  BY <1>2, <1>3, <1>4, <1>5, CreditCases

-----------------------------------------------------------------------------
(* The ride and the handlers, for what follows.                             *)

\* What becomes of the ride: it is booked, or one that is live goes on or ends.
LEMMA RideMoves ==
  ASSUME TypeInv, [Next]_vars
  PROVE  \/ ride'.status = ride.status /\ ride'.quote = ride.quote
         \/ \E h \in Procs: Book(h)
         \/ ride.status \in Live /\ ride'.quote = ride.quote /\ ride'.status \in Live \cup {"COMPLETED", "CANCELLED"}
<1> DEFINE Goal ==
         \/ ride'.status = ride.status /\ ride'.quote = ride.quote
         \/ \E h \in Procs: Book(h)
         \/ ride.status \in Live /\ ride'.quote = ride.quote /\ ride'.status \in Live \cup {"COMPLETED", "CANCELLED"}
<1>0. ride \in RideType
  BY DEF TypeInv
<1>1. ASSUME UNCHANGED ride PROVE Goal
  BY <1>1
<1>2. ASSUME NEW h \in Procs,
             \/ AcceptTrip(h) \/ OnDriverAssigned(h) \/ ReleaseByDriver(h)
             \/ StartTrip(h) \/ CompleteTrip(h) \/ CancelTrip(h)
      PROVE  Goal
  BY <1>0, <1>2 DEF AcceptTrip, OnDriverAssigned, ReleaseByDriver, StartTrip, CompleteTrip, CancelTrip, RideType, Live
<1>3. ASSUME NoDriver \/ PickUpRider PROVE Goal
  BY <1>0, <1>3 DEF NoDriver, PickUpRider, RideType, Live
<1>4. ASSUME NEW h \in Procs, \/ SetDestination(h) \/ LoadQuoteContext(h) \/ CreateQuote(h) \/ RequestRide(h)
                              \/ RequestExpired(h) \/ CancelGroup(h) \/ OnReleased(h) \/ OnStarted(h)
                              \/ OnRideCompleted(h) \/ OnRideCancelled(h)
      PROVE  UNCHANGED ride
  BY <1>4 DEF SetDestination, LoadQuoteContext, CreateQuote, RequestRide, RequestExpired, CancelGroup, OnReleased,
       OnStarted, OnRideCompleted, OnRideCancelled
<1>5. ASSUME NEW h \in Procs, NEW u \in Users,
             \/ AcceptInvitation(h, u) \/ RemoveMember(h, u) \/ LeaveGroup(h, u)
             \/ SetPickup(h, u) \/ ResolvePickup(h, u)
      PROVE  UNCHANGED ride
  BY <1>5 DEF AcceptInvitation, RemoveMember, LeaveGroup, SetPickup, ResolvePickup
<1>6. ASSUME (\E u \in Users: InviteFriend(u) \/ CloseInvitation(u)) \/ UNCHANGED vars PROVE UNCHANGED ride
  BY <1>6 DEF InviteFriend, CloseInvitation, vars
<1> QED
  BY <1>1, <1>2, <1>3, <1>4, <1>5, <1>6 DEF Next

\* Once booked, a ride stays.
LEMMA RideStays == ASSUME TypeInv, [Next]_vars, ride'.status = "none" PROVE ride.status = "none"
<1>1. ASSUME NEW h \in Procs, Book(h) PROVE ride'.status = "REQUESTED"
  BY <1>1 DEF Book, TypeInv, RideType
<1> QED
  BY <1>1, RideMoves DEF Live

\* Where a handler that is not charging gets: to work that Quiet tells of, to
\* an event, to the snapshots of a refund, to a quote.
LEMMA TurnsTo ==
  ASSUME TypeInv, NEW h \in Procs, WorkStep(h)
  PROVE  \/ work'[h] = work[h]
         \/ /\ Why(h, work'[h].at, work'[h].quote)
            /\ work'[h].todo \subseteq work[h].todo
            /\ work'[h].at \notin WithCharge \cup {"update", "quote"}
         \/ /\ work'[h].at \in Charging /\ work'[h].todo \subseteq work[h].todo
            /\ work'[h].row = work[h].row /\ work'[h].n = work[h].n
            /\ work'[h].at = "record" => charge'[<<work[h].row, work[h].n>>].stripe = "paid"
            /\ work'[h].at = "update" => On(h, "record")
         \/ work'[h].at \in Charging /\ work'[h].todo = {} /\ \E u \in Users: ConfirmPayment(h, u)
         \/ \E r \in Rows, n \in Attempts:
              /\ ReceiveEvent(h, r, n) /\ work'[h].todo = {}
              /\ work'[h].at = charge[<<r, n>>].event /\ work'[h].row = r /\ work'[h].n = n
         \/ \E rows \in SUBSET Rows, rest \in SUBSET Quotes:
              /\ Select(h, rows, rest) /\ Selected(h, rows, rest)
              /\ work'[h].at \in {"idle", "selectEach", "refund"} /\ \A s \in work'[h].todo: s.row \in rows
         \/ /\ LoadQuoteContext(h) /\ work'[h].at = "quote" /\ work'[h].todo = {}
            /\ work'[h].members = Active /\ work'[h].version = group.version
<1>0. work \in [Procs -> WorkType] /\ \A p \in Procs: work[p] \in WorkType
  BY DEF TypeInv, WorkInv
<1>1. CASE Quiet(h)
  BY <1>0, <1>1 DEF Quiet
<1>2. CASE GoesOn(h)
  <2>1. PICK at \in {"record", "recordFailure", "update", "decline"}:
          /\ work' = [work EXCEPT ![h].at = at]
          /\ at = "record" => charge'[<<work[h].row, work[h].n>>].stripe = "paid"
          /\ at = "update" => On(h, "record")
    BY <1>2 DEF GoesOn, Goto
  <2>2. work'[h] = [work[h] EXCEPT !.at = at]
    BY <1>0, <2>1
  <2>3. work'[h].at = at /\ work'[h].todo = work[h].todo /\ work'[h].row = work[h].row /\ work'[h].n = work[h].n
    BY <1>0, <2>2 DEF WorkType
  <2> QED
    BY <2>1, <2>3 DEF Charging
<1>3. ASSUME NEW u \in Users, ConfirmPayment(h, u) PROVE work'[h].at \in Charging /\ work'[h].todo = {}
  <2>0. ConfirmStep(h, u)
    BY <1>3, ConfirmPaymentStep
  <2>1. PICK card, n: work' = [work EXCEPT ![h] = [Idle EXCEPT !.at = IF card > 0 THEN "charge" ELSE "update",
                                                               !.row = <<group.quote, u>>, !.n = n]]
    BY <2>0, Zenon DEF ConfirmStep
  <2> DEFINE at == IF card > 0 THEN "charge" ELSE "update"
  <2>2. at \in {"charge", "update"}
    OBVIOUS
  <2> HIDE DEF at
  <2>3. work'[h] = [Idle EXCEPT !.at = at, !.row = <<group.quote, u>>, !.n = n]
    BY <1>0, <2>1 DEF at
  <2> QED
    BY <2>2, <2>3 DEF Idle, Charging
<1>4. ASSUME NEW r \in Rows, NEW n \in Attempts, ReceiveEvent(h, r, n), work'[h] # work[h]
      PROVE  work'[h].todo = {} /\ work'[h].at = charge[<<r, n>>].event /\ work'[h].row = r /\ work'[h].n = n
  <2>1. work'[h] = [Idle EXCEPT !.at = charge[<<r, n>>].event, !.row = r, !.n = n]
    BY <1>0, <1>4 DEF ReceiveEvent
  <2> QED
    BY <2>1 DEF Idle
<1>5. ASSUME NEW rows \in SUBSET Rows, NEW rest \in SUBSET Quotes, Select(h, rows, rest)
      PROVE  work'[h].at \in {"idle", "selectEach", "refund"} /\ \A s \in work'[h].todo: s.row \in rows
  <2> DEFINE todo == {Snapshot(r): r \in {r \in rows: Refundable(r)}}
             w == [Idle EXCEPT !.at = "refund", !.todo = todo, !.left = rest]
  <2>1. work'[h] = Onward(rest) \/ work'[h] = w
    BY <1>0, <1>5 DEF Select
  <2>2. \A s \in todo: s.row \in rows
    BY DEF Snapshot
  <2>3. w.at = "refund" /\ w.todo = todo
    BY DEF Idle
  <2>4. Onward(rest).at \in {"idle", "selectEach"} /\ Onward(rest).todo = {}
    BY DEF Onward, Idle
  <2> HIDE DEF todo, w
  <2> QED
    BY <2>1, <2>2, <2>3, <2>4
<1>6. ASSUME LoadQuoteContext(h)
      PROVE  /\ work'[h].at = "quote" /\ work'[h].todo = {}
             /\ work'[h].members = Active /\ work'[h].version = group.version
  <2>1. work'[h] = [Idle EXCEPT !.at = "quote", !.members = Active, !.version = group.version]
    BY <1>0, <1>6 DEF LoadQuoteContext
  <2> QED
    BY <2>1 DEF Idle
<1> QED
  BY <1>1, <1>2, <1>3, <1>4, <1>5, <1>6 DEF WorkStep

\* What is left to refund is what was, or the quotes of a group just closed.
LEMMA LeftMoves ==
  ASSUME TypeInv, NEW h \in Procs, WorkStep(h), work'[h].left # {}
  PROVE  work[h].left # {} \/ On(h, "selectQuotes")
<1>0. work \in [Procs -> WorkType] /\ \A p \in Procs: work[p] \in WorkType
  BY DEF TypeInv, WorkInv
<1>1. CASE Quiet(h)
  BY <1>0, <1>1 DEF Quiet
<1>2. CASE GoesOn(h)
  <2>1. PICK at: work' = [work EXCEPT ![h].at = at]
    BY <1>2 DEF GoesOn, Goto
  <2>2. work'[h] = [work[h] EXCEPT !.at = at]
    BY <1>0, <2>1
  <2>3. work'[h].left = work[h].left
    BY <1>0, <2>2 DEF WorkType
  <2> QED
    BY <2>3
<1>3. ASSUME NEW u \in Users, ConfirmPayment(h, u) PROVE FALSE
  <2>0. ConfirmStep(h, u)
    BY <1>3, ConfirmPaymentStep
  <2>1. PICK at, n: work' = [work EXCEPT ![h] = [Idle EXCEPT !.at = at, !.row = <<group.quote, u>>, !.n = n]]
    BY <2>0, Zenon DEF ConfirmStep
  <2>2. work'[h] = [Idle EXCEPT !.at = at, !.row = <<group.quote, u>>, !.n = n]
    BY <1>0, <2>1
  <2> QED
    BY <2>2 DEF Idle
<1>4. ASSUME NEW r \in Rows, NEW n \in Attempts, ReceiveEvent(h, r, n) PROVE work'[h] = work[h]
  <2>1. work'[h] = work[h] \/ work'[h] = [Idle EXCEPT !.at = charge[<<r, n>>].event, !.row = r, !.n = n]
    BY <1>0, <1>4 DEF ReceiveEvent
  <2> QED
    BY <2>1 DEF Idle
<1>5. ASSUME NEW rows \in SUBSET Rows, NEW rest \in SUBSET Quotes, Select(h, rows, rest), Selected(h, rows, rest)
      PROVE  work[h].left # {}
  <2>1. ASSUME rest = {} PROVE work'[h].left = {}
    <3>1. PICK todo: work'[h] = Onward(rest) \/ work'[h] = [Idle EXCEPT !.at = "refund", !.todo = todo, !.left = rest]
      BY <1>0, <1>5 DEF Select
    <3>2. Onward(rest) = Idle /\ Idle.left = {} /\ [Idle EXCEPT !.at = "refund", !.todo = todo, !.left = rest].left = rest
      BY <2>1 DEF Onward, Idle
    <3> QED
      BY <2>1, <3>1, <3>2
  <2> QED
    BY <1>5, <2>1 DEF Selected
<1>6. ASSUME LoadQuoteContext(h) PROVE FALSE
  <2>1. work'[h] = [Idle EXCEPT !.at = "quote", !.members = Active, !.version = group.version]
    BY <1>0, <1>6 DEF LoadQuoteContext
  <2> QED
    BY <2>1 DEF Idle
<1> QED
  BY <1>1, <1>2, <1>3, <1>4, <1>5, <1>6 DEF WorkStep

-----------------------------------------------------------------------------
(* The quote of an open group covers its members.                           *)

\* What the shares of quote q ask for, by user.
Amounts(q) == [u \in Users |-> pay[<<q, u>>].amount]

\* A handler that makes a quote knows the members of the version it read; before
\* there is a ride nothing is done for one, and an active quote is of those who
\* are in the group.
SplitInv ==
  /\ \A h \in Procs: On(h, "quote") => work[h].version <= group.version
  /\ ride.status = "none" =>
       /\ \A h \in Procs: work[h].at \notin RideSteps
       /\ \A h \in Procs: On(h, "quote") /\ work[h].version = group.version =>
                            work[h].members = Active /\ group.host \in Active
       /\ \A q \in ActiveQuote: Participants(q) = Active /\ Sum(Amounts(q), Users) = Total

\* SplitInv holds initially.
LEMMA SplitInit == Init => SplitInv
<1> SUFFICES ASSUME Init PROVE SplitInv
  OBVIOUS
<1>1. \A h \in Procs: work[h].at = "idle"
  BY DEF Init, MoneyInit, Idle
<1>2. ActiveQuote = {}
  BY DEF Init, MoneyInit, ActiveQuote
<1> QED
  BY <1>1, <1>2 DEF SplitInv, On, RideSteps

\* A step that leaves the configuration alone.
Steady ==
  /\ group'.version = group.version /\ group'.host = group.host
  /\ ActiveQuote' \subseteq ActiveQuote
  /\ ride.status = "none" /\ (\A h \in Procs: work[h].at \notin RideSteps) => UNCHANGED member

\* What a step makes of the configuration.
LEMMA ConfigurationCases ==
  ASSUME TypeInv, [Next]_vars
  PROVE  \/ Steady
         \/ \E h \in Procs, g \in GroupType: Reconfigure(h, g) /\ g.version = group.version
         \/ \E h \in Procs, q \in Quotes, method \in Methods: \E share:
              Created(h, q, method, share) /\ UNCHANGED member
<1> DEFINE Reconfigured == \E h \in Procs, g \in GroupType: Reconfigure(h, g) /\ g.version = group.version
           New == \E h \in Procs, q \in Quotes, method \in Methods: \E share:
                    Created(h, q, method, share) /\ UNCHANGED member
<1> USE DEF On
<1>0. /\ group \in GroupType /\ quote \in [Quotes -> QuoteStatus] /\ ride \in RideType
      /\ \A h \in Procs: WorkOK(work[h]) /\ work[h] \in WorkType
  BY DEF TypeInv, WorkInv
<1>1. ASSUME NEW s, group' = [group EXCEPT !.status = s] \/ group' = [group EXCEPT !.status = s, !.quote = None]
      PROVE  group'.version = group.version /\ group'.host = group.host
  BY <1>0, <1>1 DEF GroupType
<1>2. ASSUME UNCHANGED <<quote, member>>, group'.version = group.version /\ group'.host = group.host PROVE Steady
  BY <1>2 DEF Steady, ActiveQuote
<1>3. ASSUME NEW p, NEW q, group' = Gate(p, q) PROVE group'.version = group.version /\ group'.host = group.host
  <2>1. UNCHANGED group \/ \E s: group' = [group EXCEPT !.status = s]
    BY <1>3 DEF Gate
  <2> QED
    BY <1>1, <2>1
<1>4. ASSUME MoneyNext PROVE Steady
  <2>1. ASSUME NEW h \in Procs,
               \/ ChargeStripe(h) \/ ChargeUpdate(h) \/ ApplyFailure(h)
               \/ RefundQuotePayments(h) \/ RefundGroupPayments(h) \/ SelectQuotes(h) \/ RefundNextQuote(h)
               \/ RefundCredit(h) \/ RefundMark(h) \/ RefundSkipped(h) \/ Crash(h)
               \/ \E r \in Rows, n \in Attempts: ReceiveEvent(h, r, n)
               \/ \E q \in Quotes: Sweep(h, q) \/ ReadExpired(h, q)
               \/ \E s \in work[h].todo: RefundCharge(h, s)
        PROVE  UNCHANGED <<quote, member, group>>
    BY <2>1 DEF ChargeStripe, ChargeUpdate, ApplyFailure, RefundQuotePayments,
         RefundGroupPayments, SelectQuotes, RefundNextQuote, RefundCredit, RefundMark, RefundSkipped, Crash,
         ReceiveEvent, Sweep,
         ReadExpired, RefundCharge
  <2>2. ASSUME NEW q \in Quotes, Expires(q) PROVE UNCHANGED <<quote, member, group>>
    BY <2>2 DEF Expires
  <2>3. ASSUME NEW h \in Procs, ConfirmUpdate(h) \/ ApplySuccess(h) \/ \E u \in Users: ConfirmPayment(h, u)
        PROVE  UNCHANGED <<quote, member>> /\ \E p, q: group' = Gate(p, q)
    BY <2>3 DEF ConfirmUpdate, ApplySuccess, ConfirmPayment
  <2>4. ASSUME NEW u \in Users, ConfirmSettled(u) PROVE UNCHANGED <<quote, member>> /\ \E p, q: group' = Gate(p, q)
    BY <2>4 DEF ConfirmSettled
  <2>5. ASSUME NEW h \in Procs, ExpireQuote(h) PROVE Steady
    <3>1. UNCHANGED group \/ group' = [group EXCEPT !.status = "CONFIGURING", !.quote = None]
      BY <2>5 DEF ExpireQuote
    <3>2. group'.version = group.version /\ group'.host = group.host
      BY <1>1, <3>1
    <3>3. UNCHANGED member /\ ActiveQuote' \subseteq ActiveQuote
      BY <1>0, <2>5 DEF ExpireQuote, ActiveQuote
    <3> QED
      BY <3>2, <3>3 DEF Steady
  <2> QED
    BY <1>2, <1>3, <1>4, <2>1, <2>2, <2>3, <2>4, <2>5 DEF MoneyNext
<1>5. ASSUME NEW h \in Procs,
             \/ LoadQuoteContext(h) \/ RequestRide(h) \/ AcceptTrip(h) \/ ReleaseByDriver(h)
             \/ StartTrip(h) \/ CompleteTrip(h) \/ CancelTrip(h)
      PROVE  UNCHANGED <<quote, member, group>>
  BY <1>5 DEF LoadQuoteContext, RequestRide, AcceptTrip, ReleaseByDriver, StartTrip, CompleteTrip, CancelTrip, rideRest
<1>6. ASSUME NEW h \in Procs, RequestExpired(h) \/ Book(h) \/ CancelGroup(h) \/ OnReleased(h) \/ OnStarted(h) PROVE Steady
  <2>1. UNCHANGED group \/ \E s: group' = [group EXCEPT !.status = s]
    BY <1>6 DEF RequestExpired, Book, CancelGroup, OnReleased, OnStarted
  <2>2. group'.version = group.version /\ group'.host = group.host
    BY <1>1, <2>1
  <2>3. UNCHANGED member /\ ActiveQuote' \subseteq ActiveQuote
    BY <1>0, <1>6 DEF RequestExpired, Book, CancelGroup, OnReleased, OnStarted, rideRest, ActiveQuote
  <2> QED
    BY <2>2, <2>3 DEF Steady
<1>7. ASSUME NEW h \in Procs, OnDriverAssigned(h) \/ OnRideCompleted(h) \/ OnRideCancelled(h) PROVE Steady
  <2>1. UNCHANGED group \/ \E s: group' = [group EXCEPT !.status = s]
    BY <1>7 DEF OnDriverAssigned, OnRideCompleted, OnRideCancelled
  <2>2. group'.version = group.version /\ group'.host = group.host
    BY <1>1, <2>1
  <2>3. work[h].at \in RideSteps
    BY <1>7 DEF OnDriverAssigned, OnRideCompleted, OnRideCancelled, RideSteps
  <2>4. UNCHANGED quote
    BY <1>7 DEF OnDriverAssigned, OnRideCompleted, OnRideCancelled, rideRest
  <2> QED
    BY <2>2, <2>3, <2>4 DEF Steady, ActiveQuote
<1>8. ASSUME NEW h \in Procs, NEW u \in Users, ResolvePickup(h, u) PROVE Steady
  <2>1. ride.status = "ACCEPTED" /\ UNCHANGED <<group, quote>>
    BY <1>8 DEF ResolvePickup, rideRest
  <2> QED
    BY <2>1 DEF Steady, ActiveQuote
<1>9. ASSUME NEW h \in Procs, SetDestination(h) PROVE Reconfigured
  <2>1. Reconfigure(h, Joined(group))
    BY <1>9 DEF SetDestination
  <2>2. Joined(group) \in GroupType /\ Joined(group).version = group.version
    BY <1>0 DEF Joined, GroupType, Configurable
  <2> QED
    BY <2>1, <2>2
<1>10. ASSUME NEW h \in Procs, NEW u \in Users,
              \/ AcceptInvitation(h, u) \/ RemoveMember(h, u) \/ LeaveGroup(h, u) \/ SetPickup(h, u)
       PROVE  Reconfigured
  <2>1. CASE AcceptInvitation(h, u)
    <3>1. Joined(group) \in GroupType /\ Joined(group).version = group.version
      BY <1>0 DEF Joined, GroupType, Configurable
    <3> QED
      BY <2>1, <3>1 DEF AcceptInvitation
  <2>2. CASE RemoveMember(h, u) \/ SetPickup(h, u)
    BY <1>0, <2>2 DEF RemoveMember, SetPickup
  <2>3. CASE LeaveGroup(h, u)
    <3>1. ASSUME NEW v \in Users, Reconfigure(h, [group EXCEPT !.host = v]) PROVE Reconfigured
      <4>1. [group EXCEPT !.host = v] \in GroupType /\ [group EXCEPT !.host = v].version = group.version
        BY <1>0 DEF GroupType
      <4> QED
        BY <3>1, <4>1
    <3>2. ASSUME Reconfigure(h, [group EXCEPT !.status = "CANCELLED"]) PROVE Reconfigured
      <4>1. /\ [group EXCEPT !.status = "CANCELLED"] \in GroupType
            /\ [group EXCEPT !.status = "CANCELLED"].version = group.version
        BY <1>0 DEF GroupType, Final
      <4> QED
        BY <3>2, <4>1
    <3>3. Active \subseteq Users
      BY DEF Active
    <3> QED
      BY <1>0, <2>3, <3>1, <3>2, <3>3 DEF LeaveGroup
  <2> QED
    BY <1>10, <2>1, <2>2, <2>3
<1>11. ASSUME NEW h \in Procs, CreateQuote(h) PROVE Steady \/ New
  <2>1. UNCHANGED member
    BY <1>11 DEF CreateQuote
  <2>2. CASE UNCHANGED <<group, quote>>
    BY <1>2, <2>1, <2>2
  <2>3. CASE \E q \in Quotes, method \in Methods: \E share: Created(h, q, method, share)
    BY <2>1, <2>3
  <2> QED
    BY <1>11, <2>2, <2>3, CreateQuoteStep
<1>12. ASSUME (\E u \in Users: InviteFriend(u) \/ CloseInvitation(u)) \/ NoDriver \/ PickUpRider \/ UNCHANGED vars
       PROVE  UNCHANGED <<quote, member, group>>
  BY <1>12 DEF InviteFriend, CloseInvitation, NoDriver, PickUpRider, vars, moneyVars
<1>13. UNCHANGED <<quote, member, group>> => Steady
  BY <1>2
<1> QED
  BY <1>4, <1>5, <1>6, <1>7, <1>8, <1>9, <1>10, <1>11, <1>12, <1>13 DEF Next

\* Who makes a quote after a step was making it, or has read the group.
LEMMA QuotingMoves ==
  ASSUME TypeInv, [Next]_vars, NEW k \in Procs, work'[k].at = "quote"
  PROVE  \/ work'[k] = work[k]
         \/ LoadQuoteContext(k) /\ work'[k].members = Active /\ work'[k].version = group.version
<1>1. CASE UNCHANGED work
  BY <1>1
<1>2. ASSUME NEW h \in Procs, WorkStep(h), k # h PROVE work'[k] = work[k]
  BY <1>2, OthersWait
<1>3. CASE WorkStep(k)
  <2>1. ASSUME NEW r \in Rows, NEW n \in Attempts, work'[k].at = charge[<<r, n>>].event PROVE FALSE
    <3>1. charge[<<r, n>>].event \in {"none", "succeeded", "failed"}
      BY DEF TypeInv, ChargeType
    <3> QED
      BY <2>1, <3>1
  <2>2. "quote" \notin Charging /\ "quote" \notin {"idle", "selectEach", "refund"}
    BY DEF Charging
  <2> QED
    BY <1>3, <2>1, <2>2, TurnsTo
<1> QED
  BY <1>1, <1>2, <1>3, WorkCases

\* Before there is a ride nothing turns to one.
LEMMA RideStepsWait ==
  ASSUME TypeInv, [Next]_vars, ride'.status = "none", \A h \in Procs: work[h].at \notin RideSteps, NEW k \in Procs
  PROVE  work'[k].at \notin RideSteps
<1>1. CASE UNCHANGED work
  BY <1>1
<1>2. ASSUME NEW h \in Procs, WorkStep(h), k # h PROVE work'[k] = work[k]
  BY <1>2, OthersWait
<1>3. CASE WorkStep(k)
  <2>1. ASSUME NEW r \in Rows, NEW n \in Attempts, work'[k].at = charge[<<r, n>>].event PROVE work'[k].at \notin RideSteps
    <3>1. charge[<<r, n>>].event \in {"none", "succeeded", "failed"}
      BY DEF TypeInv, ChargeType
    <3> QED
      BY <2>1, <3>1 DEF RideSteps
  <2>2. ASSUME Why(k, work'[k].at, work'[k].quote) PROVE work'[k].at \notin RideSteps
    BY <2>2 DEF Why
  <2>3. \A at \in Charging \cup {"idle", "selectEach", "refund", "quote"}: at \notin RideSteps
    BY DEF Charging, RideSteps
  <2> QED
    BY <1>3, <2>1, <2>2, <2>3, TurnsTo
<1> QED
  BY <1>1, <1>2, <1>3, WorkCases

\* The shares of a new quote.
LEMMA NewQuoteCovers ==
  ASSUME TypeInv, RowsInv, NEW h \in Procs, NEW q \in Quotes, NEW method \in Methods, NEW share,
         Created(h, q, method, share), group.host \in work[h].members
  PROVE  Participants(q)' = work[h].members /\ Sum(Amounts(q)', Users) = Total
<1> DEFINE P == work[h].members
<1>0. P \in SUBSET Users /\ P # {} /\ IsFiniteSet(P) /\ IsFiniteSet(Users)
  <2>1. work[h] \in WorkType
    BY DEF TypeInv, WorkInv
  <2>2. P \in SUBSET Users
    BY <2>1 DEF WorkType
  <2>3. P # {}
    OBVIOUS
  <2> HIDE DEF P
  <2>4. IsFiniteSet(P) /\ IsFiniteSet(Users)
    BY <2>2, FS_Subset, PaymentsAssumption
  <2> QED
    BY <2>2, <2>3, <2>4
<1>1. share \in [P -> 0..Total] /\ Sum(share, P) = Total
  <2>1. share \in Shares(method, group.host, P) /\ group.host \in P
    BY DEF Created
  <2> HIDE DEF P
  <2> QED
    BY <1>0, <2>1, SharesSplit
<1> HIDE DEF P
<1>2. ASSUME NEW u \in P PROVE pay'[<<q, u>>].status # "none" /\ pay'[<<q, u>>].amount = share[u]
  <2>1. <<q, u>> \in Rows /\ <<q, u>>[1] = q /\ <<q, u>>[2] = u
    BY <1>0 DEF Rows
  <2>2. pay'[<<q, u>>] = NewShare(share[u])
    BY <2>1, CreatedRows DEF P
  <2> QED
    BY <2>2, NewShareIs
<1>3. ASSUME NEW u \in Users \ P PROVE pay'[<<q, u>>].status = "none" /\ pay'[<<q, u>>].amount = 0
  <2>1. <<q, u>> \in Rows /\ <<q, u>>[1] = q /\ <<q, u>>[2] = u
    BY <1>0 DEF Rows
  <2>2. pay'[<<q, u>>] = NoPayment
    BY <2>1, CreatedRows DEF P
  <2> QED
    BY <2>2 DEF NoPayment
<1>4. Participants(q)' = P
  BY <1>0, <1>2, <1>3 DEF Participants
<1>5. Sum(Amounts(q)', Users) = Total
  <2> DEFINE a == Amounts(q)'
  <2>1. \A u \in P: a[u] = share[u] /\ share[u] \in Int
    BY <1>0, <1>1, <1>2, PaymentsAssumption DEF Amounts
  <2>2. \A u \in Users \ P: a[u] = 0
    BY <1>3 DEF Amounts
  <2>3. \A u \in Users: a[u] \in Int
    BY <2>1, <2>2
  <2> HIDE DEF a
  <2>4. Sum(a, P) = Total
    BY <1>0, <1>1, <2>1, SumSame
  <2>5. Sum(a, Users) = Sum(a, P)
    BY <1>0, <2>2, <2>3, SumSupport
  <2> QED
    BY <2>4, <2>5 DEF a
<1> QED
  BY <1>4, <1>5 DEF P

\* The shares of a quote that exists stay.
LEMMA SharesStay ==
  ASSUME TypeInv, RowsInv, [Next]_vars, NEW q \in Quotes, quote[q] # "none"
  PROVE  Participants(q)' = Participants(q) /\ Amounts(q)' = Amounts(q)
<1>1. ASSUME NEW u \in Users
      PROVE  /\ (pay'[<<q, u>>].status = "none") <=> (pay[<<q, u>>].status = "none")
             /\ pay'[<<q, u>>].amount = pay[<<q, u>>].amount
  <2>1. <<q, u>> \in Rows /\ <<q, u>>[1] = q
    BY DEF Rows
  <2>2. Moved(<<q, u>>)
    BY <2>1, PayMoves
  <2> QED
    BY <2>1, <2>2 DEF Moved
<1> QED
  BY <1>1 DEF Participants, Amounts

\* Every step preserves SplitInv.
LEMMA SplitStep == TypeInv /\ TypeInv' /\ RowsInv /\ SplitInv /\ [Next]_vars => SplitInv'
<1> SUFFICES ASSUME TypeInv, TypeInv', RowsInv, SplitInv, [Next]_vars PROVE SplitInv'
  OBVIOUS
<1> USE DEF On
<1>0. /\ group \in GroupType /\ group.version \in Nat /\ group'.version \in Nat
      /\ \A k \in Procs: work[k].version \in Nat
  BY DEF TypeInv, GroupType, WorkInv, WorkType
<1>1. \/ group'.version = group.version /\ Steady
      \/ group'.version = group.version + 1
  <2>1. ASSUME NEW h \in Procs, NEW g \in GroupType, Reconfigure(h, g), g.version = group.version
        PROVE  group'.version = group.version + 1
    <3>1. Bump(g).version = group.version + 1 /\ Reopened(Bump(g)).version = group.version + 1
      BY <2>1 DEF Bump, Reopened, GroupType
    <3> QED
      BY <2>1, <3>1 DEF Reconfigure
  <2>2. ASSUME NEW h \in Procs, NEW q \in Quotes, NEW method \in Methods, NEW share, Created(h, q, method, share)
        PROVE  group'.version = group.version + 1
    <3> DEFINE s == IF \A u \in work[h].members: share[u] = 0 THEN "READY_TO_REQUEST" ELSE "AWAITING_PAYMENT"
    <3>1. group' = [Bump(group) EXCEPT !.quote = q, !.status = s]
      BY <2>2 DEF Created
    <3> HIDE DEF s
    <3> QED
      BY <1>0, <3>1 DEF Bump, GroupType
  <2> QED
    BY <2>1, <2>2, ConfigurationCases DEF Steady
<1>2. ASSUME NEW k \in Procs, work'[k].at = "quote" PROVE work'[k].version <= group'.version
  <2>1. work'[k].version <= group.version
    BY <1>0, <1>2, QuotingMoves DEF SplitInv
  <2>2. work'[k].version \in Nat
    BY DEF TypeInv, WorkInv, WorkType
  <2> QED
    BY <1>0, <1>1, <2>1, <2>2
<1>3. ASSUME ride'.status = "none"
      PROVE  /\ \A h \in Procs: work'[h].at \notin RideSteps
             /\ \A h \in Procs: work'[h].at = "quote" /\ work'[h].version = group'.version =>
                                  work'[h].members = Active' /\ group'.host \in Active'
             /\ \A q \in ActiveQuote': Participants(q)' = Active' /\ Sum(Amounts(q)', Users) = Total
  <2>0. /\ ride.status = "none"
        /\ \A h \in Procs: work[h].at \notin RideSteps
        /\ \A h \in Procs: work[h].at = "quote" /\ work[h].version = group.version =>
                             work[h].members = Active /\ group.host \in Active
        /\ \A q \in ActiveQuote: Participants(q) = Active /\ Sum(Amounts(q), Users) = Total
    BY <1>3, RideStays DEF SplitInv
  <2>1. \A h \in Procs: work'[h].at \notin RideSteps
    BY <1>3, <2>0, RideStepsWait
  <2>2. ASSUME NEW k \in Procs, work'[k].at = "quote", work'[k].version = group'.version
        PROVE  work'[k].members = Active' /\ group'.host \in Active'
    <3>1. \/ work'[k] = work[k] /\ work[k].version <= group.version
          \/ work'[k].members = Active /\ work'[k].version = group.version /\ group.host \in Active
      BY <2>2, QuotingMoves DEF SplitInv, LoadQuoteContext
    <3>2. CASE Steady
      <4>1. UNCHANGED member /\ group'.host = group.host /\ group'.version = group.version
        BY <2>0, <3>2 DEF Steady
      <4> QED
        BY <2>0, <2>2, <3>1, <4>1 DEF Active
    <3>3. CASE group'.version = group.version + 1
      BY <1>0, <2>2, <3>1, <3>3
    <3> QED
      BY <1>1, <3>2, <3>3
  <2>3. ASSUME NEW q \in ActiveQuote' PROVE Participants(q)' = Active' /\ Sum(Amounts(q)', Users) = Total
    <3>0. q \in Quotes /\ quote'[q] = "ACTIVE"
      BY DEF ActiveQuote
    <3>1. CASE Steady
      <4>1. UNCHANGED member /\ q \in ActiveQuote
        BY <2>0, <3>1 DEF Steady
      <4>2. Participants(q) = Active /\ Sum(Amounts(q), Users) = Total /\ quote[q] # "none"
        BY <2>0, <4>1 DEF ActiveQuote
      <4>3. Participants(q)' = Participants(q) /\ Amounts(q)' = Amounts(q)
        BY <3>0, <4>2, SharesStay
      <4> QED
        BY <4>1, <4>2, <4>3 DEF Active
    <3>2. ASSUME NEW h \in Procs, NEW g \in GroupType, Reconfigure(h, g) PROVE FALSE
      BY <3>0, <3>2 DEF Reconfigure, ActiveQuote
    <3>3. ASSUME NEW h \in Procs, NEW p \in Quotes, NEW method \in Methods, NEW share, Created(h, p, method, share),
                 UNCHANGED member
          PROVE  Participants(q)' = Active' /\ Sum(Amounts(q)', Users) = Total
      <4>1. q = p
        BY <3>0, <3>3 DEF Created, ActiveQuote
      <4>2. work[h].members = Active /\ group.host \in Active
        BY <2>0, <3>3 DEF Created, SameConfiguration
      <4>3. Participants(q)' = work[h].members /\ Sum(Amounts(q)', Users) = Total
        BY <3>3, <4>1, <4>2, NewQuoteCovers
      <4> QED
        BY <3>3, <4>2, <4>3 DEF Active
    <3> QED
      BY <3>1, <3>2, <3>3, ConfigurationCases
  <2> QED
    BY <2>1, <2>2, <2>3
<1> QED
  BY <1>2, <1>3 DEF SplitInv

-----------------------------------------------------------------------------
(* A share that was confirmed is covered by the credits and the charge.     *)

AttemptsInv ==
  /\ \A r \in Rows: pay[r].attempts > 0 => pay[r].credit + pay[r].card = pay[r].amount
  /\ \A r \in Rows: pay[r].status \in {"PROCESSING", "SUCCEEDED"} => pay[r].attempts > 0
  /\ \A h \in Procs: On(h, "update") => pay[work[h].row].attempts > 0

\* AttemptsInv holds initially.
LEMMA AttemptsInit == Init => AttemptsInv
<1> SUFFICES ASSUME Init PROVE AttemptsInv
  OBVIOUS
<1>1. \A r \in Rows: pay[r].attempts = 0 /\ pay[r].status = "none"
  BY DEF Init, MoneyInit, NoPayment
<1>2. \A h \in Procs: work[h].at = "idle"
  BY DEF Init, MoneyInit, Idle
<1> QED
  BY <1>1, <1>2 DEF AttemptsInv, On

\* The share that is confirmed, and what its handler goes on with.
LEMMA ConfirmedRow ==
  ASSUME TypeInv, NEW h \in Procs, NEW u \in Users, ConfirmPayment(h, u)
  PROVE  LET r == <<group.quote, u>> IN
         /\ r \in Rows
         /\ pay'[r].attempts > 0
         /\ pay'[r].credit + pay'[r].card = pay'[r].amount
         /\ pay'[r].status = "SUCCEEDED" => pay'[r].card = 0
         /\ work'[h].row = r /\ work'[h].at \in {"charge", "update"}
         /\ work'[h].at = "update" => work'[h].n = 0 /\ pay'[r].card = 0
         /\ \A k \in Rows \ {r}: pay'[k] = pay[k]
<1> DEFINE r == <<group.quote, u>>
<1>0. r \in Rows /\ ConfirmStep(h, u)
  BY ConfirmPaymentStep
<1>1. pay \in [Rows -> PaymentType] /\ work \in [Procs -> WorkType]
  BY DEF TypeInv, PayInv, WorkInv
<1>2. PICK applied \in Nat, n \in Attempts:
        LET credit == pay[r].credit + applied
            card == pay[r].amount - credit IN
        /\ card \in Nat
        /\ pay' = [pay EXCEPT ![r].status = IF card > 0 THEN "PROCESSING" ELSE "SUCCEEDED",
                              ![r].credit = credit, ![r].card = card, ![r].attempts = n]
        /\ work' = [work EXCEPT ![h] = [Idle EXCEPT !.at = IF card > 0 THEN "charge" ELSE "update",
                                                   !.row = r, !.n = IF card > 0 THEN n ELSE 0]]
  BY <1>0 DEF ConfirmStep
<1> DEFINE credit == pay[r].credit + applied
           card == pay[r].amount - credit
           p == [pay[r] EXCEPT !.status = IF card > 0 THEN "PROCESSING" ELSE "SUCCEEDED",
                               !.credit = credit, !.card = card, !.attempts = n]
           at == IF card > 0 THEN "charge" ELSE "update"
           m == IF card > 0 THEN n ELSE 0
           w == [Idle EXCEPT !.at = at, !.row = r, !.n = m]
<1>3. pay[r] \in PaymentType
  BY <1>0, <1>1
<1>4. n > 0 /\ n \in Nat /\ pay[r].amount \in Nat /\ pay[r].credit \in Nat
  BY <1>3, PaymentsAssumption DEF Attempts, PaymentType
<1> HIDE DEF r
<1>5. pay' = [pay EXCEPT ![r] = p] /\ work' = [work EXCEPT ![h] = w]
  BY <1>0, <1>1, <1>2
<1>6. /\ p.attempts = n /\ p.credit = credit /\ p.card = card /\ p.amount = pay[r].amount
      /\ p.status = IF card > 0 THEN "PROCESSING" ELSE "SUCCEEDED"
  BY <1>3 DEF PaymentType
<1>7. w.at = at /\ w.row = r /\ w.n = m
  BY DEF Idle
<1>8. credit + card = pay[r].amount
  BY <1>4
<1>9. card \in Nat
  BY <1>2
<1> HIDE DEF p, w, credit, card
<1>10. pay'[r] = p /\ work'[h] = w /\ \A k \in Rows \ {r}: pay'[k] = pay[k]
  BY <1>0, <1>1, <1>5
<1> QED
  BY <1>0, <1>4, <1>6, <1>7, <1>8, <1>9, <1>10 DEF r

\* Every step preserves AttemptsInv.
LEMMA AttemptsStep == TypeInv /\ TypeInv' /\ RowsInv /\ AttemptsInv /\ [Next]_vars => AttemptsInv'
<1> SUFFICES ASSUME TypeInv, TypeInv', RowsInv, AttemptsInv, [Next]_vars PROVE AttemptsInv'
  OBVIOUS
<1> USE DEF On
<1>0. /\ \A r \in Rows: Moved(r)
      /\ \A r \in Rows: pay[r].attempts \in Nat /\ pay'[r].attempts \in Nat
      /\ \A h \in Procs: WorkOK(work[h]) /\ Good(work[h], pay)
      /\ pay \in [Rows -> PaymentType]
  BY PayMoves, PaymentsAssumption DEF TypeInv, PayInv, PaymentType, WorkInv, RowsInv
\* A handler with an attempt in hand has a share that was tried.
<1>1. ASSUME NEW h \in Procs, work[h].at \in Charging \cup {"succeeded"} PROVE work[h].row \in Rows /\ pay[work[h].row].attempts > 0
  <2>1. CASE work[h].at = "update"
    BY <1>0, <2>1 DEF AttemptsInv, WorkOK
  <2>2. CASE work[h].at \in WithCharge
    <3>1. work[h].row \in Rows /\ work[h].n \in Attempts /\ work[h].n <= pay[work[h].row].attempts
      BY <1>0, <2>2 DEF WorkOK, Good
    <3> QED
      BY <1>0, <3>1, PaymentsAssumption DEF Attempts
  <2> QED
    BY <1>1, <2>1, <2>2 DEF Charging, WithCharge
<1>2. ASSUME NEW r \in Rows, Succeeds(r) PROVE pay[r].attempts > 0
  BY <1>1, <1>2 DEF Succeeds, AttemptsInv, Charging
<1>3. ASSUME NEW r \in Rows, pay'[r].attempts > 0 PROVE pay'[r].credit + pay'[r].card = pay'[r].amount
  <2>1. CASE Kept(r)
    <3>1. pay[r].attempts > 0 /\ pay[r].credit + pay[r].card = pay[r].amount
      BY <1>3, <2>1 DEF Kept, AttemptsInv
    <3>2. pay[r].status # "none"
      BY <1>0, <3>1 DEF RowsInv, NoPayment
    <3> QED
      BY <1>0, <2>1, <3>1, <3>2 DEF Kept, Moved
  <2>2. ASSUME NEW h \in Procs, NEW u \in Users, ConfirmPayment(h, u) PROVE Kept(r) \/ pay'[r].credit + pay'[r].card = pay'[r].amount
    BY <2>2, ConfirmedRow DEF Kept
  <2> QED
    BY <2>1, <2>2, PayMoves
<1>4. ASSUME NEW r \in Rows, pay'[r].status \in {"PROCESSING", "SUCCEEDED"} PROVE pay'[r].attempts > 0
  <2>0. ASSUME pay[r].attempts > 0 PROVE pay'[r].attempts > 0
    BY <1>0, <2>0 DEF Moved
  <2>1. ASSUME pay'[r].status = pay[r].status PROVE pay'[r].attempts > 0
    BY <1>4, <2>0, <2>1 DEF AttemptsInv
  <2>2. CASE StatusStep
    <3>1. PICK k \in Rows, s \in {"SUCCEEDED", "FAILED", "REFUNDED"}, n \in 0..MaxAttempts:
            /\ s = "SUCCEEDED" => Succeeds(k)
            /\ \/ pay' = [pay EXCEPT ![k].status = s]
               \/ pay' = [pay EXCEPT ![k].status = s, ![k].charge = n]
      BY <2>2 DEF StatusStep
    <3>2. CASE r # k
      BY <1>0, <2>1, <3>1, <3>2
    <3>3. CASE r = k
      <4>1. pay[r] \in PaymentType
        BY <1>0
      <4>2. \/ pay'[r] = [pay[r] EXCEPT !.status = s]
            \/ pay'[r] = [pay[r] EXCEPT !.status = s, !.charge = n]
        BY <1>0, <3>1, <3>3
      <4>3. pay'[r].status = s
        BY <4>1, <4>2 DEF PaymentType
      <4> QED
        BY <1>2, <1>4, <2>0, <3>1, <3>3, <4>3
    <3> QED
      BY <3>2, <3>3
  <2>3. ASSUME pay'[r] = Invalidated(pay)[r] PROVE pay'[r].attempts > 0
    <3>1. pay'[r] = pay[r] \/ pay'[r] = [pay[r] EXCEPT !.status = "CANCELLED"]
      BY <2>3 DEF Invalidated
    <3>2. pay[r] \in PaymentType
      BY <1>0
    <3>3. [pay[r] EXCEPT !.status = "CANCELLED"].status = "CANCELLED"
      BY <3>2 DEF PaymentType
    <3> QED
      BY <1>4, <2>1, <3>1, <3>3
  <2>4. ASSUME NEW h \in Procs, CreateQuote(h) PROVE pay'[r].attempts > 0
    <3>1. CASE UNCHANGED pay
      BY <2>1, <3>1
    <3>2. ASSUME NEW q \in Quotes, NEW method \in Methods, NEW share, Created(h, q, method, share)
          PROVE  pay'[r].attempts > 0
      <4>1. \/ pay'[r] = NoPayment \/ pay'[r] = NewShare(share[r[2]]) \/ pay'[r] = Invalidated(pay)[r]
        BY <3>2, CreatedRows
      <4>2. NoPayment.status = "none"
        BY DEF NoPayment
      <4> QED
        BY <1>4, <2>3, <4>1, <4>2, NewShareIs
    <3> QED
      BY <2>4, <3>1, <3>2, CreateQuoteStep
  <2>5. ASSUME NEW h \in Procs, NEW u \in Users, ConfirmPayment(h, u) PROVE pay'[r].attempts > 0
    BY <2>1, <2>5, ConfirmedRow
  <2>6. UNCHANGED pay => pay'[r].status = pay[r].status
    OBVIOUS
  <2> QED
    BY <2>1, <2>2, <2>3, <2>4, <2>5, <2>6, PayCases
<1>5. ASSUME NEW k \in Procs, work'[k].at = "update" PROVE pay'[work'[k].row].attempts > 0
  <2>1. CASE work[k].at \in Charging /\ work'[k].row = work[k].row
    <3>1. work[k].row \in Rows /\ pay[work[k].row].attempts > 0
      BY <1>1, <2>1
    <3> QED
      BY <1>0, <2>1, <3>1 DEF Moved
  <2>2. ASSUME NEW u \in Users, ConfirmPayment(k, u) PROVE pay'[work'[k].row].attempts > 0
    BY <2>2, ConfirmedRow
  <2>3. CASE UNCHANGED work
    BY <1>5, <2>1, <2>3 DEF Charging
  <2>4. ASSUME NEW h \in Procs, WorkStep(h)
        PROVE  \/ work[k].at \in Charging /\ work'[k].row = work[k].row
               \/ \E u \in Users: ConfirmPayment(k, u)
    <3>1. work'[k].at \in Charging
      BY <1>5 DEF Charging
    <3> QED
      BY <2>4, <3>1, ChargingMoves
  <2> QED
    BY <2>1, <2>2, <2>3, <2>4, WorkCases
<1> QED
  BY <1>3, <1>4, <1>5 DEF AttemptsInv

-----------------------------------------------------------------------------
(* How the quotes, the group and the handlers of the ride move.             *)

\* A handler that turns to the ride, the booking, an expiry or a refund has
\* done what Why says.
LEMMA Arrives ==
  ASSUME TypeInv, [Next]_vars, NEW k \in Procs, work'[k] # work[k],
         work'[k].at \in RideSteps \cup {"select", "selectAll", "selectQuotes", "expire", "book"}
  PROVE  Why(k, work'[k].at, work'[k].quote)
<1>1. ASSUME NEW h \in Procs, WorkStep(h), k # h PROVE work'[k] = work[k]
  BY <1>1, OthersWait
<1>2. CASE WorkStep(k)
  <2>1. ASSUME NEW r \in Rows, NEW n \in Attempts, work'[k].at = charge[<<r, n>>].event PROVE FALSE
    <3>1. charge[<<r, n>>].event \in {"none", "succeeded", "failed"}
      BY DEF TypeInv, ChargeType
    <3> QED
      BY <2>1, <3>1 DEF RideSteps
  <2>2. work'[k].at \notin Charging \cup {"idle", "selectEach", "refund", "quote"}
    BY DEF Charging, RideSteps
  <2> QED
    BY <1>2, <2>1, <2>2, TurnsTo
<1> QED
  BY <1>1, <1>2, WorkCases

\* What becomes of a quote.
LEMMA QuoteMoves ==
  ASSUME TypeInv, [Next]_vars, NEW q \in Quotes
  PROVE  \/ quote'[q] = quote[q]
         \/ quote[q] = "ACTIVE" /\ quote'[q] \in {"SUPERSEDED", "EXPIRED"} /\ Unlocked
         \/ quote[q] = "none" /\ quote'[q] = "ACTIVE"
         \/ \E h \in Procs: Book(h) /\ work[h].quote = q /\ quote'[q] = "CONSUMED"
<1>0. quote \in [Quotes -> QuoteStatus]
  BY DEF TypeInv
<1>1. ASSUME NEW p \in Quotes, quote[p] = "ACTIVE", Unlocked, quote' = [quote EXCEPT ![p] = "EXPIRED"]
      PROVE  quote'[q] = quote[q] \/ (quote[q] = "ACTIVE" /\ quote'[q] = "EXPIRED" /\ Unlocked)
  BY <1>0, <1>1
<1>2. ASSUME NEW h \in Procs, Book(h) PROVE quote'[q] = quote[q] \/ (work[h].quote = q /\ quote'[q] = "CONSUMED")
  BY <1>0, <1>2 DEF Book
<1>3. CASE Unlocked /\ quote' = [k \in Quotes |-> IF k \in ActiveQuote THEN "SUPERSEDED" ELSE quote[k]]
  BY <1>3 DEF ActiveQuote
<1>4. ASSUME NEW h \in Procs, CreateQuote(h)
      PROVE  \/ quote'[q] = quote[q]
             \/ quote[q] = "ACTIVE" /\ quote'[q] = "SUPERSEDED" /\ Unlocked
             \/ quote[q] = "none" /\ quote'[q] = "ACTIVE"
  <2>0. Unlocked
    BY <1>4 DEF CreateQuote
  <2>1. ASSUME NEW p \in Quotes, NEW method \in Methods, NEW share, Created(h, p, method, share)
        PROVE  \/ quote'[q] = quote[q]
               \/ quote[q] = "ACTIVE" /\ quote'[q] = "SUPERSEDED"
               \/ quote[q] = "none" /\ quote'[q] = "ACTIVE"
    BY <2>1 DEF Created, ActiveQuote
  <2> QED
    BY <1>4, <2>0, <2>1, CreateQuoteStep
<1> QED
  BY <1>1, <1>2, <1>3, <1>4, QuoteCases

\* The group changes where nothing is being booked, and what is closed stays
\* closed, unless a quote reopens it.
Reshaped ==
  /\ Unlocked
  /\ group.status \notin RideActive
  /\ group.status \in Final => group'.status \in Final

\* A hook of the ride moves the group.
Follows(h) ==
  /\ Unlocked
  /\ work[h].at \in RideSteps
  /\ group'.status \in RideActive \cup Final
  /\ group'.status \in Final => work[h].at \in {"completed", "cancelled"}

\* What becomes of the group's status.
LEMMA GroupMoves ==
  ASSUME TypeInv, [Next]_vars
  PROVE  \/ group'.status = group.status
         \/ Reshaped
         \/ reopened'
         \/ \E h \in Procs: Book(h) \/ CancelGroup(h) \/ Follows(h)
<1> DEFINE Goal ==
         \/ group'.status = group.status
         \/ Reshaped
         \/ reopened'
         \/ \E h \in Procs: Book(h) \/ CancelGroup(h) \/ Follows(h)
<1> USE DEF On
<1>0. /\ group \in GroupType /\ Configurable \cap RideActive = {} /\ Configurable \cap Final = {}
      /\ Final \cap RideActive = {}
  BY DEF TypeInv, Configurable, RideActive, Final
<1>1. ASSUME NEW p, NEW q, Unlocked, group' = Gate(p, q) PROVE Goal
  BY <1>0, <1>1 DEF Gate, Stays, Reshaped
<1>2. ASSUME NEW h \in Procs, NEW g \in GroupType, Reconfigure(h, g),
             g.status = group.status \/ (group.status \notin RideActive /\ g.status \in Final) \/ group.status \in Configurable
      PROVE  Goal
  <2>0. Unlocked
    BY <1>2 DEF Reconfigure
  <2>1. Bump(g).status = g.status
    BY <1>2 DEF Bump, GroupType
  <2>2. Bump(g) \in GroupType
    BY <1>2 DEF Bump, GroupType
  <2>3. Reopened(Bump(g)).status = g.status \/ g.status \in Configurable
    BY <2>1 DEF Reopened
  <2>4. group'.status = g.status \/ g.status \in Configurable
    BY <1>2, <2>1, <2>3 DEF Reconfigure
  <2>5. CASE group.status \in Configurable
    BY <1>0, <2>0, <2>5 DEF Reshaped
  <2>6. CASE group.status \notin Configurable
    <3>1. g.status \notin Configurable
      BY <1>0, <1>2, <2>6
    <3>2. group'.status = g.status
      BY <2>4, <3>1
    <3> QED
      BY <1>2, <2>0, <2>6, <3>2 DEF Reshaped
  <2> QED
    BY <2>5, <2>6
<1>3. ASSUME MoneyNext PROVE Goal
  <2>1. ASSUME NEW h \in Procs,
               \/ ChargeStripe(h) \/ ChargeUpdate(h) \/ ApplyFailure(h)
               \/ RefundQuotePayments(h) \/ RefundGroupPayments(h) \/ SelectQuotes(h) \/ RefundNextQuote(h)
               \/ RefundCredit(h) \/ RefundMark(h) \/ RefundSkipped(h) \/ Crash(h)
               \/ \E r \in Rows, n \in Attempts: ReceiveEvent(h, r, n)
               \/ \E q \in Quotes: Sweep(h, q) \/ ReadExpired(h, q)
               \/ \E s \in work[h].todo: RefundCharge(h, s)
        PROVE  UNCHANGED group
    BY <2>1 DEF ChargeStripe, ChargeUpdate, ApplyFailure, RefundQuotePayments,
         RefundGroupPayments, SelectQuotes, RefundNextQuote, RefundCredit, RefundMark, RefundSkipped, Crash,
         ReceiveEvent, Sweep,
         ReadExpired, RefundCharge
  <2>2. ASSUME NEW q \in Quotes, Expires(q) PROVE UNCHANGED group
    BY <2>2 DEF Expires
  <2>3. ASSUME NEW h \in Procs, ConfirmUpdate(h) \/ ApplySuccess(h) \/ \E u \in Users: ConfirmPayment(h, u)
        PROVE  Unlocked /\ \E p, q: group' = Gate(p, q)
    <3>1. CASE ConfirmUpdate(h)
      BY <3>1 DEF ConfirmUpdate
    <3>2. CASE ApplySuccess(h)
      BY <3>2 DEF ApplySuccess
    <3>3. CASE \E u \in Users: ConfirmPayment(h, u)
      <4>1. PICK u \in Users: ConfirmPayment(h, u)
        BY <3>3
      <4>2. group' = Gate(pay', <<group.quote, u>>[1])
        BY <4>1 DEF ConfirmPayment
      <4>3. Unlocked
        BY <4>1 DEF ConfirmPayment, MayConfirm
      <4> QED
        BY <4>2, <4>3
    <3> QED
      BY <2>3, <3>1, <3>2, <3>3
  <2>4. ASSUME NEW u \in Users, ConfirmSettled(u) PROVE Unlocked /\ \E p, q: group' = Gate(p, q)
    BY <2>4 DEF ConfirmSettled, MayConfirm
  <2>5. ASSUME NEW h \in Procs, ExpireQuote(h) PROVE Goal
    BY <1>0, <2>5 DEF ExpireQuote, Reshaped
  <2> QED
    BY <1>1, <1>3, <2>1, <2>2, <2>3, <2>4, <2>5 DEF MoneyNext
<1>4. ASSUME NEW h \in Procs,
             \/ LoadQuoteContext(h) \/ RequestRide(h) \/ RequestExpired(h) \/ AcceptTrip(h) \/ ReleaseByDriver(h)
             \/ StartTrip(h) \/ CompleteTrip(h) \/ CancelTrip(h)
      PROVE  UNCHANGED group
  BY <1>4 DEF LoadQuoteContext, RequestRide, RequestExpired, AcceptTrip, ReleaseByDriver, StartTrip,
     CompleteTrip, CancelTrip
<1>5. ASSUME NEW h \in Procs, OnDriverAssigned(h) \/ OnReleased(h) \/ OnStarted(h) PROVE Goal
  <2>1. \/ UNCHANGED group
        \/ \E s \in RideActive: group' = [group EXCEPT !.status = s]
    BY <1>5 DEF OnDriverAssigned, OnReleased, OnStarted, RideActive
  <2>2. \A s \in RideActive: [group EXCEPT !.status = s].status = s
    BY <1>0 DEF GroupType
  <2>3. Unlocked /\ work[h].at \in RideSteps
    BY <1>5 DEF OnDriverAssigned, OnReleased, OnStarted, RideSteps
  <2> QED
    BY <1>0, <2>1, <2>2, <2>3 DEF Follows
<1>6. ASSUME NEW h \in Procs, OnRideCompleted(h) \/ OnRideCancelled(h) PROVE Goal
  <2>1. UNCHANGED group \/ \E s \in Final: group' = [group EXCEPT !.status = s]
    BY <1>6 DEF OnRideCompleted, OnRideCancelled, Final
  <2>2. \A s \in Final: [group EXCEPT !.status = s].status = s
    BY <1>0 DEF GroupType
  <2>3. Unlocked /\ work[h].at \in RideSteps /\ work[h].at \in {"completed", "cancelled"}
    BY <1>6 DEF OnRideCompleted, OnRideCancelled, RideSteps
  <2> QED
    BY <2>1, <2>2, <2>3 DEF Follows
<1>7. ASSUME NEW h \in Procs, NEW u \in Users, ResolvePickup(h, u) PROVE UNCHANGED group
  BY <1>7 DEF ResolvePickup
<1>8. ASSUME NEW h \in Procs, SetDestination(h) PROVE Goal
  <2>1. Joined(group) \in GroupType /\ group.status \in Configurable /\ Reconfigure(h, Joined(group))
    BY <1>0, <1>8 DEF SetDestination, Joined, GroupType, Configurable, Stays
  <2> QED
    BY <1>2, <2>1
<1>9. ASSUME NEW h \in Procs, NEW u \in Users,
             \/ AcceptInvitation(h, u) \/ RemoveMember(h, u) \/ LeaveGroup(h, u) \/ SetPickup(h, u)
      PROVE  Goal
  <2>1. CASE AcceptInvitation(h, u)
    <3>1. Joined(group) \in GroupType /\ group.status \in Configurable /\ Reconfigure(h, Joined(group))
      BY <1>0, <2>1 DEF AcceptInvitation, Joined, GroupType, Configurable, Stays
    <3> QED
      BY <1>2, <3>1
  <2>2. CASE RemoveMember(h, u) \/ SetPickup(h, u)
    BY <1>0, <1>2, <2>2 DEF RemoveMember, SetPickup
  <2>3. CASE LeaveGroup(h, u)
    <3>0. group.status \notin RideActive
      BY <2>3 DEF LeaveGroup
    <3>1. ASSUME NEW v \in Users, Reconfigure(h, [group EXCEPT !.host = v]) PROVE Goal
      <4>1. [group EXCEPT !.host = v] \in GroupType /\ [group EXCEPT !.host = v].status = group.status
        BY <1>0 DEF GroupType
      <4> QED
        BY <1>2, <3>1, <4>1
    <3>2. ASSUME Reconfigure(h, [group EXCEPT !.status = "CANCELLED"]) PROVE Goal
      <4>1. /\ [group EXCEPT !.status = "CANCELLED"] \in GroupType
            /\ [group EXCEPT !.status = "CANCELLED"].status \in Final
        BY <1>0 DEF GroupType, Final
      <4> QED
        BY <1>2, <3>0, <3>2, <4>1
    <3>3. Active \subseteq Users
      BY DEF Active
    <3> QED
      BY <1>0, <1>2, <2>3, <3>1, <3>2, <3>3 DEF LeaveGroup
  <2> QED
    BY <1>9, <2>1, <2>2, <2>3
<1>10. ASSUME NEW h \in Procs, CreateQuote(h) PROVE Goal
  <2>1. UNCHANGED group \/ (Unlocked /\ group.status \notin RideActive /\ (group.status \in Final => reopened'))
    BY <1>10 DEF CreateQuote
  <2> QED
    BY <2>1 DEF Reshaped
<1>11. ASSUME (\E u \in Users: InviteFriend(u) \/ CloseInvitation(u)) \/ NoDriver \/ PickUpRider \/ UNCHANGED vars
       PROVE  UNCHANGED group
  BY <1>11 DEF InviteFriend, CloseInvitation, NoDriver, PickUpRider, vars, moneyVars
<1>12. UNCHANGED group => Goal
  OBVIOUS
<1> QED
  BY <1>3, <1>4, <1>5, <1>6, <1>7, <1>8, <1>9, <1>10, <1>11, <1>12 DEF Next

-----------------------------------------------------------------------------
(* The booking, the ride and the end of the group.                          *)

\* The group is closed without a ride, or its ride is over.
Closed == (ride.status = "none" /\ group.status \in Final) \/ ride.status \in {"COMPLETED", "CANCELLED"}

\* One handler at most books, and what it checked still holds; a ride has a
\* consumed quote and a group on the road or closed; and a ride on the road of
\* a closed group is being cancelled.
BookingInv ==
  ~ reopened =>
  /\ \A h \in Procs: On(h, "book") =>
       ride.status = "none" /\ group.status \in Configurable /\ quote[work[h].quote] = "ACTIVE"
  /\ \A h, k \in Procs: On(h, "book") /\ On(k, "book") => h = k
  /\ ride.status # "none" =>
       group.status \in RideActive \cup Final /\ ride.quote \in Quotes /\ quote[ride.quote] = "CONSUMED"
  /\ \A h \in Procs: work[h].at \in {"completed", "cancelled"} => ride.status \in {"COMPLETED", "CANCELLED"}
  /\ \A h \in Procs: work[h].at \in {"selectAll", "selectQuotes"} \/ work[h].left # {} => Closed
  /\ ride.status \in Live /\ group.status \in Final => faults > 0 \/ \E h \in Procs: On(h, "cancelRide")

\* BookingInv holds initially.
LEMMA BookingInit == Init => BookingInv
<1> SUFFICES ASSUME Init PROVE BookingInv
  OBVIOUS
<1>1. \A h \in Procs: work[h].at = "idle" /\ work[h].left = {}
  BY DEF Init, MoneyInit, Idle
<1>2. ride.status = "none"
  BY DEF Init
<1> QED
  BY <1>1, <1>2 DEF BookingInv, On, Live

\* A group once reopened stays so, faults add up, and a handler that is to
\* cancel the ride of a closed group does or dies.
LEMMA Monotone ==
  ASSUME TypeInv, [Next]_vars
  PROVE  /\ reopened => reopened'
         /\ faults' >= faults
         /\ \A k \in Procs: On(k, "cancelRide") /\ work'[k].at # "cancelRide" => CancelTrip(k) \/ faults' > 0
<1> DEFINE Goal ==
         /\ reopened => reopened'
         /\ faults' >= faults
         /\ \A k \in Procs: On(k, "cancelRide") /\ work'[k].at # "cancelRide" => CancelTrip(k) \/ faults' > 0
<1> USE DEF On
<1>0. /\ faults \in Nat /\ work \in [Procs -> WorkType] /\ reopened \in BOOLEAN
      /\ \A h \in Procs: work[h] \in WorkType
  BY PaymentsAssumption DEF TypeInv, WorkInv
\* A step of a handler that is not at "cancelRide".
<1>1. ASSUME NEW h \in Procs, work[h].at # "cancelRide", NEW w, work' = [work EXCEPT ![h] = w],
             reopened => reopened', UNCHANGED faults \/ Fault
      PROVE  Goal
  BY <1>0, <1>1 DEF Fault
<1>2. ASSUME UNCHANGED <<work, reopened>>, UNCHANGED faults PROVE Goal
  BY <1>0, <1>2
<1>3. ASSUME NEW h \in Procs, UNCHANGED <<reopened>>, Fault PROVE Goal
  BY <1>0, <1>3 DEF Fault
<1>4. ASSUME MoneyNext, UNCHANGED reopened PROVE Goal
  <2>1. ASSUME NEW h \in Procs,
               \/ ChargeStripe(h) \/ ChargeUpdate(h) \/ ConfirmUpdate(h) \/ ApplySuccess(h) \/ ApplyFailure(h)
               \/ RefundQuotePayments(h) \/ RefundGroupPayments(h) \/ SelectQuotes(h) \/ RefundNextQuote(h)
               \/ RefundCredit(h) \/ RefundMark(h) \/ RefundSkipped(h) \/ ExpireQuote(h)
               \/ \E s \in work[h].todo: RefundCharge(h, s)
        PROVE  work[h].at # "cancelRide" /\ (UNCHANGED faults \/ Fault) /\ \E w: work' = [work EXCEPT ![h] = w]
    BY <2>1 DEF ChargeStripe, ChargeUpdate, ConfirmUpdate, ApplySuccess, ApplyFailure, RefundQuotePayments,
         RefundGroupPayments, SelectQuotes, RefundNextQuote, RefundCredit, RefundMark, RefundSkipped,
         ExpireQuote, RefundCharge,
         Goto, Rest, Select, Take, Done
  <2>2. ASSUME NEW h \in Procs, NEW u \in Users, ConfirmPayment(h, u)
        PROVE  work[h].at # "cancelRide" /\ UNCHANGED faults /\ \E w: work' = [work EXCEPT ![h] = w]
    BY <2>2 DEF ConfirmPayment
  <2>3. ASSUME NEW h \in Procs, NEW r \in Rows, NEW n \in Attempts, ReceiveEvent(h, r, n)
        PROVE  work[h].at # "cancelRide" /\ UNCHANGED faults /\ (UNCHANGED work \/ \E w: work' = [work EXCEPT ![h] = w])
    BY <2>3 DEF ReceiveEvent
  <2>4. ASSUME NEW h \in Procs, NEW q \in Quotes, Sweep(h, q) \/ ReadExpired(h, q)
        PROVE  work[h].at # "cancelRide" /\ UNCHANGED faults /\ \E w: work' = [work EXCEPT ![h] = w]
    BY <2>4 DEF Sweep, ReadExpired
  <2>5. ASSUME NEW h \in Procs, Crash(h) PROVE Fault
    BY <2>5 DEF Crash
  <2>6. ASSUME (\E u \in Users: ConfirmSettled(u)) \/ (\E q \in Quotes: Expires(q)) PROVE UNCHANGED <<work, faults>>
    BY <2>6 DEF ConfirmSettled, Expires
  <2> HIDE DEF Goal
  <2>7. ASSUME NEW h \in Procs, work[h].at # "cancelRide", UNCHANGED faults \/ Fault, \E w: work' = [work EXCEPT ![h] = w]
        PROVE  Goal
    BY <1>1, <1>4, <2>7
  <2>8. ASSUME NEW h \in Procs PROVE
               /\ ~ (\/ ChargeStripe(h) \/ ChargeUpdate(h) \/ ConfirmUpdate(h) \/ ApplySuccess(h) \/ ApplyFailure(h)
                     \/ RefundQuotePayments(h) \/ RefundGroupPayments(h) \/ SelectQuotes(h) \/ RefundNextQuote(h)
                     \/ RefundCredit(h) \/ RefundMark(h) \/ RefundSkipped(h) \/ ExpireQuote(h)
                     \/ \E s \in work[h].todo: RefundCharge(h, s)) \/ Goal
               /\ \A u \in Users: ConfirmPayment(h, u) => Goal
               /\ \A r \in Rows, n \in Attempts: ReceiveEvent(h, r, n) => Goal
               /\ \A q \in Quotes: Sweep(h, q) \/ ReadExpired(h, q) => Goal
               /\ Crash(h) => Goal
    <3>1. ASSUME NEW r \in Rows, NEW n \in Attempts, ReceiveEvent(h, r, n) PROVE Goal
      BY <1>2, <1>4, <2>3, <2>7, <3>1
    <3>2. ASSUME Crash(h) PROVE Goal
      BY <1>3, <1>4, <2>5, <3>2
    <3> QED
      BY <2>1, <2>2, <2>4, <2>7, <3>1, <3>2
  <2>9. ASSUME (\E u \in Users: ConfirmSettled(u)) \/ (\E q \in Quotes: Expires(q)) PROVE Goal
    BY <1>2, <1>4, <2>6, <2>9
  <2> QED
    BY <1>4, <2>8, <2>9 DEF MoneyNext
<1>5. ASSUME NEW h \in Procs, NEW g, Reconfigure(h, g)
      PROVE  /\ work[h].at # "cancelRide" /\ UNCHANGED <<faults, reopened>>
             /\ UNCHANGED work \/ \E w: work' = [work EXCEPT ![h] = w]
  BY <1>5 DEF Reconfigure, groupRest
<1>6. ASSUME NEW h \in Procs,
             \/ SetDestination(h) \/ LoadQuoteContext(h) \/ RequestRide(h) \/ RequestExpired(h) \/ Book(h) \/ CancelGroup(h)
             \/ AcceptTrip(h) \/ ReleaseByDriver(h) \/ OnReleased(h) \/ StartTrip(h) \/ OnStarted(h)
             \/ CompleteTrip(h) \/ OnRideCompleted(h) \/ OnRideCancelled(h)
             \/ \E u \in Users: AcceptInvitation(h, u) \/ RemoveMember(h, u) \/ LeaveGroup(h, u)
                                \/ SetPickup(h, u) \/ ResolvePickup(h, u)
      PROVE  /\ work[h].at # "cancelRide" /\ UNCHANGED <<faults, reopened>>
             /\ UNCHANGED work \/ \E w: work' = [work EXCEPT ![h] = w]
  BY <1>5, <1>6 DEF SetDestination, LoadQuoteContext, RequestRide, RequestExpired, Book, CancelGroup, AcceptTrip,
       ReleaseByDriver, OnReleased, StartTrip, OnStarted, CompleteTrip, OnRideCompleted, OnRideCancelled,
       AcceptInvitation, RemoveMember, LeaveGroup, SetPickup, ResolvePickup, rideRest, groupRest, Goto, Rest
<1>7. ASSUME NEW h \in Procs, CreateQuote(h) \/ OnDriverAssigned(h)
      PROVE  /\ work[h].at # "cancelRide" /\ (reopened => reopened') /\ (UNCHANGED faults \/ Fault)
             /\ \E w: work' = [work EXCEPT ![h] = w]
  <2>1. CASE CreateQuote(h)
    <3>1. UNCHANGED faults /\ work[h].at # "cancelRide"
      BY <2>1 DEF CreateQuote
    <3>2. reopened => reopened'
      BY <2>1 DEF CreateQuote
    <3>3. Rest(h) \/ \E p \in ActiveQuote: work' = [work EXCEPT ![h] = [Idle EXCEPT !.at = "select", !.quote = p]]
      BY <2>1 DEF CreateQuote
    <3> QED
      BY <3>1, <3>2, <3>3 DEF Rest
  <2>2. CASE OnDriverAssigned(h)
    BY <2>2 DEF OnDriverAssigned, Rest
  <2> QED
    BY <1>7, <2>1, <2>2
<1>8. ASSUME NEW h \in Procs, CancelTrip(h) PROVE Goal
  <2>1. UNCHANGED <<faults, reopened>> /\ \E w: work' = [work EXCEPT ![h] = w]
    BY <1>8 DEF CancelTrip, rideRest, groupRest, Goto, Rest
  <2> QED
    BY <1>0, <1>8, <2>1
<1>9. ASSUME (\E u \in Users: InviteFriend(u) \/ CloseInvitation(u)) \/ NoDriver \/ PickUpRider \/ UNCHANGED vars
      PROVE  UNCHANGED <<work, reopened, faults>>
  BY <1>9 DEF InviteFriend, CloseInvitation, NoDriver, PickUpRider, vars, moneyVars
<1> HIDE DEF Goal
<1>10. ASSUME NEW h \in Procs,
             \/ SetDestination(h) \/ LoadQuoteContext(h) \/ RequestRide(h) \/ RequestExpired(h) \/ Book(h) \/ CancelGroup(h)
             \/ AcceptTrip(h) \/ ReleaseByDriver(h) \/ OnReleased(h) \/ StartTrip(h) \/ OnStarted(h)
             \/ CompleteTrip(h) \/ OnRideCompleted(h) \/ OnRideCancelled(h)
             \/ \E u \in Users: AcceptInvitation(h, u) \/ RemoveMember(h, u) \/ LeaveGroup(h, u)
                                \/ SetPickup(h, u) \/ ResolvePickup(h, u)
      PROVE  Goal
  BY <1>1, <1>2, <1>6, <1>10
<1>11. ASSUME NEW h \in Procs, CreateQuote(h) \/ OnDriverAssigned(h) PROVE Goal
  BY <1>1, <1>7, <1>11
<1>12. ASSUME (\E u \in Users: InviteFriend(u) \/ CloseInvitation(u)) \/ NoDriver \/ PickUpRider \/ UNCHANGED vars
       PROVE  Goal
  BY <1>2, <1>9, <1>12
<1>13. Goal
  BY <1>4, <1>8, <1>10, <1>11, <1>12 DEF Next
<1> QED
  BY <1>13 DEF Goal

\* A booking is about the quote of the group, and of one handler.
LEMMA RequestRideWork ==
  ASSUME TypeInv, NEW h \in Procs, RequestRide(h)
  PROVE  work'[h].quote = group.quote /\ \A k \in Procs \ {h}: work'[k] = work[k]
<1>1. work \in [Procs -> WorkType]
  BY DEF TypeInv, WorkInv
<1>2. work' = [work EXCEPT ![h] = [Idle EXCEPT !.at = "book", !.quote = group.quote]]
  BY DEF RequestRide
<1>3. [Idle EXCEPT !.at = "book", !.quote = group.quote].quote = group.quote
  BY DEF Idle
<1> QED
  BY <1>1, <1>2, <1>3

\* What is closed stays closed.
LEMMA ClosedStays ==
  ASSUME TypeInv, SplitInv, BookingInv, [Next]_vars, ~ reopened', Closed
  PROVE  Closed'
<1>1. ~ reopened
  BY Monotone
<1>2. CASE ride.status \in {"COMPLETED", "CANCELLED"}
  BY <1>1, <1>2, RideMoves DEF Closed, Live, BookingInv, Book
<1>3. CASE ride.status = "none" /\ group.status \in Final
  <2>1. ASSUME NEW h \in Procs, Book(h) PROVE FALSE
    BY <1>1, <1>3, <2>1 DEF BookingInv, Book, Final, Configurable
  <2>2. ride'.status = "none"
    BY <1>3, <2>1, RideMoves DEF Live
  <2>3. group'.status \in Final
    <3>1. ASSUME NEW h \in Procs, CancelGroup(h) PROVE FALSE
      BY <1>3, <3>1 DEF CancelGroup
    <3>2. ASSUME NEW h \in Procs, Follows(h) PROVE FALSE
      BY <1>3, <3>2 DEF Follows, SplitInv
    <3> QED
      BY <1>3, <2>1, <3>1, <3>2, GroupMoves DEF Reshaped
  <2> QED
    BY <2>2, <2>3 DEF Closed
<1> QED
  BY <1>2, <1>3 DEF Closed

\* Every step preserves BookingInv.
LEMMA BookingStep == TypeInv /\ TypeInv' /\ SplitInv /\ BookingInv /\ [Next]_vars => BookingInv'
<1> SUFFICES ASSUME TypeInv, TypeInv', SplitInv, BookingInv, [Next]_vars, ~ reopened' PROVE BookingInv'
  BY DEF BookingInv
<1> USE DEF On
<1>0. /\ ~ reopened
      /\ Configurable \cap RideActive = {} /\ Configurable \cap Final = {} /\ Final \cap RideActive = {}
      /\ quote \in [Quotes -> QuoteStatus] /\ ride \in RideType /\ group \in GroupType
      /\ work \in [Procs -> WorkType] /\ \A h \in Procs: WorkOK(work[h])
  BY Monotone DEF TypeInv, WorkInv, Configurable, RideActive, Final
<1>1. ASSUME NEW h \in Procs, Book(h)
      PROVE  /\ On(h, "book") /\ ride.status = "none" /\ work'[h].at = "idle"
             /\ work[h].quote \in Quotes /\ ride'.quote = work[h].quote /\ ride'.status = "REQUESTED"
             /\ quote'[work[h].quote] = "CONSUMED" /\ group'.status = "DRIVER_MATCHING"
  <2>1. On(h, "book") /\ ride.status = "none" /\ work[h].quote \in Quotes
    BY <1>0, <1>1 DEF Book, BookingInv, WorkOK
  <2>2. ride' = [ride EXCEPT !.status = "REQUESTED", !.quote = work[h].quote]
    BY <1>1 DEF Book
  <2>3. ride'.quote = work[h].quote /\ ride'.status = "REQUESTED"
    BY <1>0, <2>2 DEF RideType
  <2>4. quote'[work[h].quote] = "CONSUMED"
    BY <1>0, <1>1, <2>1 DEF Book
  <2>5. group'.status = "DRIVER_MATCHING"
    BY <1>0, <1>1 DEF Book, GroupType
  <2>6. work'[h].at = "idle"
    BY <1>0, <1>1 DEF Book, Rest, Idle
  <2> QED
    BY <2>1, <2>3, <2>4, <2>5, <2>6
\* Once there is a ride, only the ride's hooks move the group, or it is closed.
<1>2. ASSUME ride.status # "none"
      PROVE  /\ ride'.quote = ride.quote /\ ride'.status # "none"
             /\ group.status \in RideActive \cup Final /\ group'.status \in RideActive \cup Final
             /\ ride.quote \in Quotes /\ quote[ride.quote] = "CONSUMED" /\ quote'[ride.quote] = "CONSUMED"
  <2>1. /\ group.status \in RideActive \cup Final
        /\ ride.quote \in Quotes /\ quote[ride.quote] = "CONSUMED"
    BY <1>0, <1>2 DEF BookingInv
  <2>2. ride'.quote = ride.quote /\ ride'.status # "none"
    BY <1>1, <1>2, RideMoves DEF Live
  <2>3. quote'[ride.quote] = "CONSUMED"
    BY <2>1, QuoteMoves
  <2>4. group'.status \in RideActive \cup Final
    <3>1. ASSUME NEW h \in Procs, CancelGroup(h) PROVE group'.status \in Final
      BY <1>0, <3>1 DEF CancelGroup, GroupType, Final
    <3>2. ASSUME NEW h \in Procs, Follows(h) PROVE group'.status \in RideActive \cup Final
      BY <3>2 DEF Follows
    <3>3. ASSUME Reshaped PROVE group'.status \in Final
      BY <2>1, <3>3 DEF Reshaped
    <3> QED
      BY <1>1, <1>2, <2>1, <3>1, <3>2, <3>3, GroupMoves
  <2> QED
    BY <2>1, <2>2, <2>3, <2>4
\* Who is booking was, with all the rest waiting, or has just started.
<1>3. ASSUME NEW k \in Procs, work'[k].at = "book"
      PROVE  work'[k] = work[k] \/ (RequestRide(k) /\ work'[k].quote = group.quote)
  BY <1>3, Arrives, RequestRideWork DEF Why
<1>4. ASSUME NEW k \in Procs, work'[k].at = "book"
      PROVE  ride'.status = "none" /\ group'.status \in Configurable /\ quote'[work'[k].quote] = "ACTIVE"
  <2>1. CASE RequestRide(k) /\ work'[k].quote = group.quote
    <3>1. /\ UNCHANGED <<ride, group, quote>> /\ quote[group.quote] = "ACTIVE"
          /\ group.status \in {"AWAITING_PAYMENT", "READY_TO_REQUEST", "CONFIGURING"}
      BY <2>1 DEF RequestRide
    <3>2. group.status \in Configurable
      BY <3>1 DEF Configurable
    <3> QED
      BY <1>0, <1>2, <2>1, <3>1, <3>2
  <2>2. CASE work'[k] = work[k]
    <3>1. On(k, "book") /\ ~ Unlocked /\ work[k].quote \in Quotes
      BY <1>0, <1>4, <2>2 DEF Unlocked, WorkOK
    <3>2. ride.status = "none" /\ group.status \in Configurable /\ quote[work[k].quote] = "ACTIVE"
      BY <1>0, <3>1 DEF BookingInv
    <3>3. ASSUME NEW h \in Procs, Book(h) PROVE FALSE
      <4>1. h = k
        BY <1>0, <1>1, <3>1, <3>3 DEF BookingInv
      <4> QED
        BY <1>1, <1>4, <3>3, <4>1
    <3>4. ride'.status = "none"
      BY <3>2, <3>3, RideMoves DEF Live
    <3>5. quote'[work[k].quote] = "ACTIVE"
      BY <3>1, <3>2, <3>3, QuoteMoves
    <3>6. ASSUME NEW h \in Procs, CancelGroup(h) PROVE FALSE
      BY <3>1, <3>6 DEF CancelGroup
    <3>7. group'.status = group.status
      BY <3>1, <3>3, <3>6, GroupMoves DEF Reshaped, Follows
    <3> QED
      BY <2>2, <3>2, <3>4, <3>5, <3>7
  <2> QED
    BY <1>3, <1>4, <2>1, <2>2
<1>5. ASSUME NEW h \in Procs, NEW k \in Procs, work'[h].at = "book", work'[k].at = "book" PROVE h = k
  <2>1. ASSUME NEW x \in Procs, NEW y \in Procs, RequestRide(x), x # y, work'[y].at = "book" PROVE FALSE
    <3>1. Unlocked /\ work'[y] = work[y]
      BY <2>1, RequestRideWork DEF RequestRide
    <3> QED
      BY <2>1, <3>1 DEF Unlocked
  <2>2. work'[h] = work[h] /\ work'[k] = work[k] => h = k
    BY <1>0, <1>5 DEF BookingInv
  <2> QED
    BY <1>3, <1>5, <2>1, <2>2
<1>6. ride'.status # "none" =>
       group'.status \in RideActive \cup Final /\ ride'.quote \in Quotes /\ quote'[ride'.quote] = "CONSUMED"
  <2>1. CASE ride.status # "none"
    BY <1>2, <2>1
  <2>2. CASE ride.status = "none"
    <3>1. ASSUME NEW h \in Procs, Book(h)
          PROVE  group'.status \in RideActive \cup Final /\ ride'.quote \in Quotes /\ quote'[ride'.quote] = "CONSUMED"
      BY <1>1, <3>1 DEF RideActive
    <3> QED
      BY <2>2, <3>1, RideMoves DEF Live
  <2> QED
    BY <2>1, <2>2
<1>7. ASSUME NEW k \in Procs, work'[k].at \in {"completed", "cancelled"} PROVE ride'.status \in {"COMPLETED", "CANCELLED"}
  <2>1. CASE work'[k] = work[k]
    <3>1. ride.status \in {"COMPLETED", "CANCELLED"}
      BY <1>0, <1>7, <2>1 DEF BookingInv
    <3> QED
      BY <1>1, <3>1, RideMoves DEF Live
  <2>2. CASE work'[k] # work[k]
    BY <1>7, <2>2, Arrives DEF Why, RideSteps
  <2> QED
    BY <2>1, <2>2
<1>8. ASSUME NEW k \in Procs, work'[k].at \in {"selectAll", "selectQuotes"} \/ work'[k].left # {} PROVE Closed'
  <2>1. CASE Closed
    BY <2>1, ClosedStays
  <2>2. CASE work'[k] = work[k]
    BY <1>0, <1>8, <2>1, <2>2 DEF BookingInv
  <2>3. CASE On(k, "cancelled")
    BY <1>0, <2>1, <2>3 DEF BookingInv, Closed
  <2>4. CASE ride'.status = "none" /\ group'.status = "CANCELLED"
    BY <2>4 DEF Closed, Final
  <2>5. CASE work'[k] # work[k] /\ work'[k].at \in {"selectAll", "selectQuotes"}
    <3>1. Why(k, work'[k].at, work'[k].quote)
      BY <2>5, Arrives
    <3> QED
      BY <2>3, <2>4, <2>5, <3>1 DEF Why
  <2>6. CASE work'[k] # work[k] /\ work'[k].left # {}
    <3>1. ASSUME NEW h \in Procs, WorkStep(h) PROVE h = k
      BY <2>6, <3>1, OthersWait
    <3>2. WorkStep(k)
      BY <2>6, <3>1, WorkCases
    <3>3. work[k].left # {} \/ work[k].at = "selectQuotes"
      BY <2>6, <3>2, LeftMoves
    <3> QED
      BY <1>0, <2>1, <3>3 DEF BookingInv
  <2> QED
    BY <1>8, <2>2, <2>5, <2>6
<1>9. ASSUME ride'.status \in Live, group'.status \in Final
      PROVE  faults' > 0 \/ \E h \in Procs: work'[h].at = "cancelRide"
  <2>1. ASSUME NEW h \in Procs, Book(h) PROVE FALSE
    BY <1>1, <1>9, <2>1 DEF Final
  <2>2. ride.status \in Live
    BY <1>9, <2>1, RideMoves DEF Live
  <2>3. CASE group.status \in Final
    <3>0. faults \in Nat /\ faults' \in Nat
      BY PaymentsAssumption DEF TypeInv
    <3>1. CASE faults > 0
      <4>1. faults' >= faults
        BY Monotone
      <4> HIDE DEF On
      <4> QED
        BY <3>0, <3>1, <4>1
    <3>2. ASSUME NEW h \in Procs, On(h, "cancelRide") PROVE faults' > 0 \/ work'[h].at = "cancelRide"
      <4>1. ASSUME CancelTrip(h) PROVE ride'.status = "CANCELLED"
        BY <1>0, <2>2, <4>1 DEF CancelTrip, RideType
      <4> QED
        BY <1>9, <3>2, <4>1, Monotone DEF Live
    <3> QED
      BY <1>0, <2>2, <2>3, <3>1, <3>2 DEF BookingInv
  <2>4. CASE group.status \notin Final
    <3>1. group.status \in RideActive
      BY <1>2, <2>2, <2>4 DEF Live
    <3>2. ASSUME NEW h \in Procs, CancelGroup(h) PROVE work'[h].at = "cancelRide"
      <4>1. Goto(h, "cancelRide")
        BY <2>2, <3>2 DEF CancelGroup, Live
      <4>2. work' = [work EXCEPT ![h] = [work[h] EXCEPT !.at = "cancelRide"]]
        BY <1>0, <4>1 DEF Goto
      <4>3. work[h] \in WorkType
        BY <1>0
      <4>4. work'[h] = [work[h] EXCEPT !.at = "cancelRide"]
        BY <1>0, <4>2
      <4> QED
        BY <4>3, <4>4 DEF WorkType
    <3>3. ASSUME NEW h \in Procs, Follows(h) PROVE FALSE
      <4>1. work[h].at \in {"completed", "cancelled"}
        BY <1>9, <3>3 DEF Follows
      <4>2. ride.status \in {"COMPLETED", "CANCELLED"}
        BY <1>0, <4>1 DEF BookingInv
      <4> QED
        BY <2>2, <4>2 DEF Live
    <3>4. ~ Reshaped
      BY <3>1 DEF Reshaped
    <3> QED
      BY <1>9, <2>1, <2>4, <3>2, <3>3, <3>4, GroupMoves
  <2> QED
    BY <2>3, <2>4
<1> QED
  BY <1>4, <1>5, <1>6, <1>7, <1>8, <1>9 DEF BookingInv

-----------------------------------------------------------------------------
(* What a booked share holds: nothing of it is returned or refunded while   *)
(* its quote stands.                                                        *)

\* A handler that refunds a quote has one that is over, or one that was booked
\* after it had been read as expired.
SelectInv ==
  ~ reopened =>
  /\ \A h \in Procs: On(h, "expire") => quote[work[h].quote] # "none"
  /\ \A h \in Procs: On(h, "select") =>
       quote[work[h].quote] \in {"SUPERSEDED", "EXPIRED"} \/ work[h].quote \in lapsed
  /\ \A q \in lapsed: quote[q] = "CONSUMED"

\* Share r is out of every refund's reach.
Safe(r) == r[1] \notin lapsed /\ ~ Closed /\ quote[r[1]] \notin {"SUPERSEDED", "EXPIRED"}

\* The handlers, the events and the rows tell the truth about a safe share: no
\* refund has it, and where a charge is said to have succeeded it has.
HoldInv ==
  ~ reopened => \A r \in Rows: Safe(r) =>
    /\ r \notin returned
    /\ \A h \in Procs: \A s \in work[h].todo: s.row # r
    /\ \A n \in Attempts: charge[<<r, n>>].local = "SUCCEEDED" \/ charge[<<r, n>>].event = "succeeded" => n \in Paid(r)
    /\ \A h \in Procs: work[h].at \in {"record", "succeeded"} /\ work[h].row = r => work[h].n \in Paid(r)
    /\ \A h \in Procs: On(h, "update") /\ work[h].row = r =>
                         IF work[h].n = 0 THEN pay[r].card = 0 ELSE work[h].n \in Paid(r)
    /\ pay[r].status = "SUCCEEDED" /\ pay[r].card > 0 => Paid(r) # {}

\* SelectInv and HoldInv hold initially.
LEMMA HoldInit == Init => SelectInv /\ HoldInv
<1> SUFFICES ASSUME Init PROVE SelectInv /\ HoldInv
  OBVIOUS
<1>1. \A h \in Procs: work[h].at = "idle" /\ work[h].todo = {}
  BY DEF Init, MoneyInit, Idle
<1>2. \A r \in Rows, n \in Attempts: charge[<<r, n>>].local = "none" /\ charge[<<r, n>>].event = "none"
  BY DEF Init, MoneyInit, NoCharge
<1>3. returned = {} /\ lapsed = {} /\ \A r \in Rows: pay[r].status = "none"
  BY DEF Init, MoneyInit, NoPayment
<1> QED
  BY <1>1, <1>2, <1>3 DEF SelectInv, HoldInv, On

\* A quote that is over stays so.
LEMMA OverStays ==
  ASSUME TypeInv, BookingInv, [Next]_vars, ~ reopened, NEW q \in Quotes, quote[q] \in {"SUPERSEDED", "EXPIRED"}
  PROVE  quote'[q] \in {"SUPERSEDED", "EXPIRED"}
<1>1. ASSUME NEW h \in Procs, Book(h), work[h].quote = q PROVE FALSE
  BY <1>1 DEF Book, BookingInv
<1> QED
  BY <1>1, QuoteMoves

\* A row that is safe after a step was safe before it.
LEMMA SafeStays ==
  ASSUME TypeInv, SplitInv, BookingInv, [Next]_vars, ~ reopened', NEW r \in Rows, Safe(r)'
  PROVE  Safe(r)
<1>1. ~ reopened /\ lapsed \subseteq lapsed'
  BY Monotone, RacedGrows
<1>2. r[1] \in Quotes
  BY DEF Rows
<1> QED
  BY <1>1, <1>2, ClosedStays, OverStays DEF Safe

\* Every step preserves SelectInv.
LEMMA SelectStep == TypeInv /\ TypeInv' /\ BookingInv /\ SelectInv /\ [Next]_vars => SelectInv'
<1> SUFFICES ASSUME TypeInv, TypeInv', BookingInv, SelectInv, [Next]_vars, ~ reopened' PROVE SelectInv'
  BY DEF SelectInv
<1> USE DEF On
<1>0. /\ ~ reopened /\ lapsed \subseteq lapsed'
      /\ \A h \in Procs: WorkOK(work[h]) /\ WorkOK(work'[h])
  BY Monotone, RacedGrows DEF TypeInv, WorkInv
<1>1. ASSUME NEW k \in Procs, work'[k].at = "expire" PROVE quote'[work'[k].quote] # "none"
  <2>1. work'[k].quote \in Quotes
    BY <1>0, <1>1 DEF WorkOK
  <2>2. CASE work'[k] = work[k]
    BY <1>0, <1>1, <2>1, <2>2, QuoteStays DEF SelectInv
  <2>3. CASE work'[k] # work[k]
    BY <1>1, <2>3, Arrives DEF Why
  <2> QED
    BY <2>2, <2>3
<1>2. ASSUME NEW k \in Procs, work'[k].at = "select"
      PROVE  quote'[work'[k].quote] \in {"SUPERSEDED", "EXPIRED"} \/ work'[k].quote \in lapsed'
  <2>1. work'[k].quote \in Quotes
    BY <1>0, <1>2 DEF WorkOK
  <2>2. CASE work'[k] = work[k]
    <3>1. quote[work[k].quote] \in {"SUPERSEDED", "EXPIRED"} \/ work[k].quote \in lapsed
      BY <1>0, <1>2, <2>2 DEF SelectInv
    <3> QED
      BY <1>0, <2>1, <2>2, <3>1, OverStays
  <2>3. CASE work'[k] # work[k]
    <3>1. Why(k, "select", work'[k].quote)
      BY <1>2, <2>3, Arrives
    <3> QED
      BY <1>0, <3>1 DEF Why, SelectInv
  <2> QED
    BY <2>2, <2>3
<1>3. ASSUME NEW q \in lapsed' PROVE quote'[q] = "CONSUMED"
  <2>1. q \in Quotes
    BY <1>3 DEF TypeInv
  <2>2. quote[q] = "CONSUMED"
    BY <1>0, <1>3, Growth DEF Grow, SelectInv
  <2> QED
    BY <2>1, <2>2, QuoteMoves
<1> QED
  BY <1>1, <1>2, <1>3 DEF SelectInv

\* What is paid of a safe share stays paid, and what is said of its charges true.
LEMMA PaidStays ==
  ASSUME TypeInv, RowsInv, FreshInv, HoldInv, [Next]_vars, ~ reopened, NEW r \in Rows, Safe(r), NEW n \in Attempts
  PROVE  /\ n \in Paid(r) => n \in Paid(r)'
         /\ charge'[<<r, n>>].local = "SUCCEEDED" \/ charge'[<<r, n>>].event = "succeeded" => n \in Paid(r)'
<1> DEFINE a == <<r, n>>
           Goal == /\ n \in Paid(r) => n \in Paid(r)'
                   /\ charge'[a].local = "SUCCEEDED" \/ charge'[a].event = "succeeded" => n \in Paid(r)'
<1> USE DEF On
<1>0. /\ charge \in [Rows \X Attempts -> ChargeType] /\ a \in Rows \X Attempts
      /\ \A h \in Procs: WorkOK(work[h])
  BY DEF TypeInv, WorkInv
<1>1. /\ n \in Paid(r) <=> charge[a].stripe = "paid"
      /\ n \in Paid(r)' <=> charge'[a].stripe = "paid"
      /\ charge[a].local = "SUCCEEDED" \/ charge[a].event = "succeeded" => n \in Paid(r)
      /\ \A h \in Procs: work[h].at = "record" /\ work[h].row = r => work[h].n \in Paid(r)
  BY DEF Paid, HoldInv
<1>2. CASE charge'[a] = charge[a]
  BY <1>1, <1>2
<1>3. CASE RecordStep
  <2>1. PICK k \in Rows, m \in Attempts, c \in ChargeType:
          /\ charge' = [charge EXCEPT ![<<k, m>>] = c]
          /\ c.stripe = charge[<<k, m>>].stripe
          /\ c.event \in {"none", charge[<<k, m>>].event}
          /\ c.local = "SUCCEEDED" => \/ charge[<<k, m>>].local = "SUCCEEDED" \/ charge[<<k, m>>].event = "succeeded"
                                     \/ \E h \in Procs: On(h, "record") /\ work[h].row = k /\ work[h].n = m
    BY <1>3 DEF RecordStep
  <2>2. CASE <<k, m>> # a
    BY <1>0, <1>2, <2>1, <2>2
  <2>3. CASE k = r /\ m = n
    <3>1. charge'[a] = c /\ c.stripe = charge[a].stripe
      BY <1>0, <2>1, <2>3
    <3> QED
      BY <1>1, <2>1, <2>3, <3>1
  <2> QED
    BY <2>2, <2>3
<1>4. ASSUME NEW h \in Procs, ChargeStripe(h) PROVE Goal
  <2>1. On(h, "charge") /\ work[h].row \in Rows /\ work[h].n \in Attempts
    BY <1>0, <1>4 DEF ChargeStripe, WorkOK, WithCharge
  <2>2. CASE <<work[h].row, work[h].n>> # a
    <3>1. \/ UNCHANGED charge
          \/ \E c: charge' = [charge EXCEPT ![<<work[h].row, work[h].n>>] = c]
      BY <1>4 DEF ChargeStripe
    <3> QED
      BY <1>0, <1>2, <2>2, <3>1
  <2>3. CASE work[h].row = r /\ work[h].n = n
    <3>1. charge[a].stripe # "paid"
      BY <2>1, <2>3 DEF FreshInv
    <3>2. \/ UNCHANGED charge
          \/ charge' = [charge EXCEPT ![a] = [local |-> "PENDING", intent |-> FALSE, stripe |-> "paid", event |-> "succeeded"]]
          \/ charge' = [charge EXCEPT ![a] = [local |-> "PENDING", intent |-> FALSE, stripe |-> "declined", event |-> "failed"]]
      BY <1>4, <2>3 DEF ChargeStripe
    <3>3. \/ UNCHANGED charge
          \/ charge'[a] = [local |-> "PENDING", intent |-> FALSE, stripe |-> "paid", event |-> "succeeded"]
          \/ charge'[a] = [local |-> "PENDING", intent |-> FALSE, stripe |-> "declined", event |-> "failed"]
      BY <1>0, <3>2
    <3>4. \/ UNCHANGED charge
          \/ charge'[a].local = "PENDING" /\ charge'[a].stripe = "paid"
          \/ charge'[a].local = "PENDING" /\ charge'[a].event = "failed"
      BY <3>3
    <3> QED
      BY <1>1, <1>2, <3>1, <3>4
  <2> QED
    BY <2>2, <2>3
<1>5. ASSUME NEW h \in Procs, NEW s \in work[h].todo, RefundCharge(h, s) PROVE Goal
  <2>1. s.row # r
    BY DEF HoldInv
  <2>2. UNCHANGED charge \/ \E c: charge' = [charge EXCEPT ![<<s.row, s.charge>>] = c]
    BY <1>5, RefundChargeStep
  <2> QED
    BY <1>0, <1>2, <2>1, <2>2
<1>6. Goal
  BY <1>2, <1>3, <1>4, <1>5, ChargeCases
<1> QED
  BY <1>6

\* A share that its credits cover stays so, however often it is confirmed.
LEMMA CoveredStays ==
  ASSUME TypeInv, TypeInv', RowsInv, AttemptsInv, [Next]_vars, NEW r \in Rows, pay[r].attempts > 0, pay[r].card = 0
  PROVE  pay'[r].card = 0
<1>1. /\ pay[r].credit \in Nat /\ pay[r].amount \in Nat
      /\ pay'[r].credit \in Nat /\ pay'[r].card \in Nat /\ pay'[r].amount \in Nat
  BY PaymentsAssumption DEF TypeInv, PayInv, PaymentType
<1>2. pay[r].credit = pay[r].amount
  BY <1>1 DEF AttemptsInv
<1>3. pay[r].status # "none"
  BY DEF RowsInv, NoPayment
<1>4. pay'[r].amount = pay[r].amount /\ (pay[r].credit > 0 => pay'[r].credit = pay[r].credit)
  BY <1>3, PayMoves DEF Moved
<1>5. ASSUME NEW h \in Procs, NEW u \in Users, ConfirmPayment(h, u) PROVE pay'[r].card = 0
  <2>1. CASE r = <<group.quote, u>>
    <3>1. pay'[r].credit + pay'[r].card = pay'[r].amount
      BY <1>5, <2>1, ConfirmedRow
    <3> QED
      BY <1>1, <1>2, <1>4, <3>1
  <2>2. CASE r # <<group.quote, u>>
    BY <1>5, <2>2, ConfirmMoves
  <2> QED
    BY <2>1, <2>2
<1> QED
  BY <1>5, PayMoves DEF Kept

\* Every step preserves HoldInv.
LEMMA HoldStep ==
  TypeInv /\ TypeInv' /\ RowsInv /\ FreshInv /\ AttemptsInv /\ SplitInv /\ BookingInv /\ SelectInv /\ HoldInv
    /\ [Next]_vars => HoldInv'
<1> SUFFICES ASSUME TypeInv, TypeInv', RowsInv, FreshInv, AttemptsInv, SplitInv, BookingInv, SelectInv, HoldInv, [Next]_vars,
                    ~ reopened', NEW r \in Rows, Safe(r)'
             PROVE  /\ r \notin returned'
                    /\ \A h \in Procs: \A s \in work'[h].todo: s.row # r
                    /\ \A n \in Attempts: charge'[<<r, n>>].local = "SUCCEEDED" \/ charge'[<<r, n>>].event = "succeeded"
                                          => n \in Paid(r)'
                    /\ \A h \in Procs: work'[h].at \in {"record", "succeeded"} /\ work'[h].row = r => work'[h].n \in Paid(r)'
                    /\ \A h \in Procs: work'[h].at = "update" /\ work'[h].row = r =>
                                         IF work'[h].n = 0 THEN pay'[r].card = 0 ELSE work'[h].n \in Paid(r)'
                    /\ pay'[r].status = "SUCCEEDED" /\ pay'[r].card > 0 => Paid(r)' # {}
  BY DEF HoldInv, On
<1> USE DEF On
<1>0. /\ ~ reopened /\ Safe(r)
      /\ work \in [Procs -> WorkType] /\ pay \in [Rows -> PaymentType]
      /\ charge \in [Rows \X Attempts -> ChargeType]
      /\ \A h \in Procs: work[h] \in WorkType /\ WorkOK(work[h])
  BY Monotone, SafeStays DEF TypeInv, WorkInv, PayInv, Safe
\* What is known of r before the step.
<1>1. /\ r \notin returned
      /\ \A h \in Procs: \A s \in work[h].todo: s.row # r
      /\ \A n \in Attempts: charge[<<r, n>>].local = "SUCCEEDED" \/ charge[<<r, n>>].event = "succeeded" => n \in Paid(r)
      /\ \A h \in Procs: work[h].at \in {"record", "succeeded"} /\ work[h].row = r => work[h].n \in Paid(r)
      /\ \A h \in Procs: work[h].at = "update" /\ work[h].row = r =>
                           IF work[h].n = 0 THEN pay[r].card = 0 ELSE work[h].n \in Paid(r)
      /\ pay[r].status = "SUCCEEDED" /\ pay[r].card > 0 => Paid(r) # {}
  BY <1>0 DEF HoldInv
<1>2. /\ Paid(r) \subseteq Paid(r)' /\ Paid(r) \subseteq Attempts
      /\ \A n \in Attempts: charge'[<<r, n>>].local = "SUCCEEDED" \/ charge'[<<r, n>>].event = "succeeded" => n \in Paid(r)'
  <2>1. Paid(r) \subseteq Attempts
    BY DEF Paid
  <2> QED
    BY <1>0, <2>1, PaidStays
<1>3. r \notin returned'
  <2>1. ASSUME NEW h \in Procs, RefundCredit(h) PROVE r \notin returned'
    <3>1. \E s \in work[h].todo: s.row = work[h].row
      BY <1>0, <2>1 DEF RefundCredit, WorkOK
    <3>2. Taken(h) \in work[h].todo
      BY <3>1, Zenon DEF Taken
    <3>3. returned' \subseteq returned \cup {Taken(h).row}
      BY <2>1 DEF RefundCredit
    <3> QED
      BY <1>1, <3>2, <3>3
  <2>2. ASSUME NEW h \in Procs, NEW u \in Users, ConfirmPayment(h, u) PROVE UNCHANGED returned
    BY <2>2 DEF ConfirmPayment
  <2> QED
    BY <1>1, <2>1, <2>2, CreditCases
\* What its credits cover stays covered while somebody settles it.
<1>4. ASSUME NEW k \in Procs, work[k].at = "update", work[k].row = r, pay[r].card = 0 PROVE pay'[r].card = 0
  <2>1. pay[r].attempts > 0
    BY <1>4 DEF AttemptsInv
  <2> QED
    BY <1>4, <2>1, CoveredStays
<1>5. ASSUME NEW k \in Procs
      PROVE  /\ \A s \in work'[k].todo: s.row # r
             /\ work'[k].at \in {"record", "succeeded"} /\ work'[k].row = r => work'[k].n \in Paid(r)'
             /\ work'[k].at = "update" /\ work'[k].row = r =>
                  IF work'[k].n = 0 THEN pay'[r].card = 0 ELSE work'[k].n \in Paid(r)'
  <2> DEFINE Goal == /\ \A s \in work'[k].todo: s.row # r
                     /\ work'[k].at \in {"record", "succeeded"} /\ work'[k].row = r => work'[k].n \in Paid(r)'
                     /\ work'[k].at = "update" /\ work'[k].row = r =>
                          IF work'[k].n = 0 THEN pay'[r].card = 0 ELSE work'[k].n \in Paid(r)'
  <2>1. CASE work'[k] = work[k]
    BY <1>1, <1>2, <1>4, <2>1
  <2>2. CASE WorkStep(k)
    <3>1. ASSUME work'[k].todo \subseteq work[k].todo, work'[k].at \notin WithCharge \cup {"update", "quote"} PROVE Goal
      BY <1>1, <3>1 DEF WithCharge
    <3>2. ASSUME work'[k].at \in Charging, work'[k].todo \subseteq work[k].todo,
                 work'[k].row = work[k].row, work'[k].n = work[k].n,
                 work'[k].at = "record" => charge'[<<work[k].row, work[k].n>>].stripe = "paid",
                 work'[k].at = "update" => work[k].at = "record",
                 work[k].at \in Charging
          PROVE  Goal
      <4>1. ASSUME work'[k].at = "record", work[k].row = r PROVE work[k].n \in Paid(r)'
        <5>1. work'[k].n \in Attempts
          BY <4>1 DEF TypeInv, WorkInv, WorkOK, WithCharge
        <5> QED
          BY <3>2, <4>1, <5>1 DEF Paid
      <4>2. ASSUME work'[k].at = "update", work[k].row = r PROVE work[k].n \in Paid(r)' /\ work[k].n # 0
        <5>1. work[k].n \in Paid(r)
          BY <1>1, <3>2, <4>2
        <5>2. 0 \notin Attempts
          BY DEF Attempts
        <5> QED
          BY <1>2, <5>1, <5>2
      <4> QED
        BY <1>1, <3>2, <4>1, <4>2 DEF Charging
    <3>3. ASSUME NEW u \in Users, ConfirmPayment(k, u), work'[k].todo = {} PROVE Goal
      <4>1. /\ work'[k].at \in {"charge", "update"} /\ work'[k].row = <<group.quote, u>>
            /\ work'[k].at = "update" => work'[k].n = 0 /\ pay'[<<group.quote, u>>].card = 0
        BY <3>3, ConfirmedRow
      <4> QED
        BY <3>3, <4>1
    <3>4. ASSUME NEW q \in Rows, NEW n \in Attempts, ReceiveEvent(k, q, n), work'[k].todo = {},
                 work'[k].at = charge[<<q, n>>].event, work'[k].row = q, work'[k].n = n
          PROVE  Goal
      <4>1. charge[<<q, n>>] \in ChargeType
        BY <1>0
      <4>2. charge[<<q, n>>].event \in {"none", "succeeded", "failed"}
        BY <4>1 DEF ChargeType
      <4> QED
        BY <1>1, <1>2, <3>4, <4>2
    <3>5. ASSUME NEW rows \in SUBSET Rows, NEW rest \in SUBSET Quotes, Selected(k, rows, rest),
                 work'[k].at \in {"idle", "selectEach", "refund"},
                 \A s \in work'[k].todo: s.row \in rows
          PROVE  Goal
      <4>1. ASSUME r \in rows PROVE FALSE
        <5>1. CASE work[k].at = "select" /\ rows = {work[k].quote} \X Users
          <6>1. r[1] = work[k].quote /\ r \in {work[k].quote} \X Users
            BY <4>1, <5>1
          <6>2. quote[work[k].quote] \in {"SUPERSEDED", "EXPIRED"} \/ work[k].quote \in lapsed
            BY <1>0, <5>1 DEF SelectInv
          <6> QED
            BY <1>0, <6>1, <6>2 DEF Safe
        <5>2. CASE work[k].at = "selectAll" \/ work[k].left # {}
          BY <1>0, <5>2 DEF BookingInv, Safe
        <5> QED
          BY <3>5, <5>1, <5>2 DEF Selected
      <4> QED
        BY <3>5, <4>1
    <3>6. ASSUME work'[k].at = "quote", work'[k].todo = {} PROVE Goal
      BY <3>6
    <3>7. ASSUME work'[k].at \in Charging PROVE work[k].at \in Charging \/ \E u \in Users: ConfirmPayment(k, u)
      BY <2>2, <3>7, ChargingMoves
    <3>8. ASSUME NEW u \in Users, ConfirmPayment(k, u) PROVE work'[k].todo = {}
      <4>1. ConfirmStep(k, u)
        BY <3>8, ConfirmPaymentStep
      <4>2. PICK at, n: work' = [work EXCEPT ![k] = [Idle EXCEPT !.at = at, !.row = <<group.quote, u>>, !.n = n]]
        BY <4>1, Zenon DEF ConfirmStep
      <4>3. work'[k] = [Idle EXCEPT !.at = at, !.row = <<group.quote, u>>, !.n = n]
        BY <1>0, <4>2
      <4> QED
        BY <4>3 DEF Idle
    <3> HIDE DEF Goal
    <3>9. Goal
      BY <2>1, <2>2, <3>1, <3>2, <3>3, <3>4, <3>5, <3>6, <3>7, <3>8, TurnsTo DEF Goal
    <3> QED
      BY <3>9 DEF Goal
  <2>3. ASSUME NEW h \in Procs, WorkStep(h), k # h PROVE work'[k] = work[k]
    BY <2>3, OthersWait
  <2> QED
    BY <2>1, <2>2, <2>3, WorkCases
<1>6. ASSUME pay'[r].status = "SUCCEEDED", pay'[r].card > 0 PROVE Paid(r)' # {}
  <2>1. ASSUME pay'[r] = pay[r] PROVE Paid(r)' # {}
    BY <1>1, <1>2, <1>6, <2>1
  <2>2. CASE StatusStep
    <3>1. PICK k \in Rows, s \in {"SUCCEEDED", "FAILED", "REFUNDED"}, n \in 0..MaxAttempts:
            /\ s = "SUCCEEDED" => Succeeds(k)
            /\ \/ pay' = [pay EXCEPT ![k].status = s]
               \/ pay' = [pay EXCEPT ![k].status = s, ![k].charge = n]
      BY <2>2 DEF StatusStep
    <3>2. CASE r # k
      BY <1>0, <2>1, <3>1, <3>2
    <3>3. CASE r = k
      <4>1. pay[r] \in PaymentType
        BY <1>0
      <4>2. \/ pay'[r] = [pay[r] EXCEPT !.status = s]
            \/ pay'[r] = [pay[r] EXCEPT !.status = s, !.charge = n]
        BY <1>0, <3>1, <3>3
      <4>3. pay'[r].status = s /\ pay'[r].card = pay[r].card
        BY <4>1, <4>2 DEF PaymentType
      <4>4. Succeeds(r)
        BY <1>6, <3>1, <3>3, <4>3
      <4>5. ASSUME NEW h \in Procs, work[h].at \in {"update", "succeeded"}, work[h].row = r PROVE Paid(r) # {}
        <5>1. pay[r].card # 0
          BY <1>6, <4>3
        <5> QED
          BY <1>1, <4>5, <5>1
      <4>6. ASSUME Outcome(r) = "SUCCEEDED" PROVE Paid(r) # {}
        <5>1. pay[r].charge # 0 /\ charge[<<r, pay[r].charge>>].local = "SUCCEEDED"
          BY <4>6 DEF Outcome
        <5>2. pay[r].charge \in Attempts
          BY <4>1, <5>1, PaymentsAssumption DEF PaymentType, Attempts
        <5> QED
          BY <1>1, <5>1, <5>2
      <4> QED
        BY <1>2, <4>4, <4>5, <4>6 DEF Succeeds
    <3> QED
      BY <3>2, <3>3
  <2>3. ASSUME pay'[r] = Invalidated(pay)[r] PROVE Paid(r)' # {}
    <3>1. pay'[r] = pay[r] \/ pay'[r] = [pay[r] EXCEPT !.status = "CANCELLED"]
      BY <2>3 DEF Invalidated
    <3>2. pay[r] \in PaymentType
      BY <1>0
    <3>3. [pay[r] EXCEPT !.status = "CANCELLED"].status = "CANCELLED"
      BY <3>2 DEF PaymentType
    <3> QED
      BY <1>6, <2>1, <3>1, <3>3
  <2>4. ASSUME NEW h \in Procs, CreateQuote(h) PROVE Paid(r)' # {}
    <3>1. CASE UNCHANGED pay
      BY <2>1, <3>1
    <3>2. ASSUME NEW q \in Quotes, NEW method \in Methods, NEW share, Created(h, q, method, share)
          PROVE  Paid(r)' # {}
      <4>1. \/ pay'[r] = NoPayment \/ pay'[r] = NewShare(share[r[2]]) \/ pay'[r] = Invalidated(pay)[r]
        BY <3>2, CreatedRows
      <4>2. NoPayment.status = "none"
        BY DEF NoPayment
      <4> QED
        BY <1>6, <2>3, <4>1, <4>2, NewShareIs
    <3> QED
      BY <2>4, <3>1, <3>2, CreateQuoteStep
  <2>5. ASSUME NEW h \in Procs, NEW u \in Users, ConfirmPayment(h, u) PROVE Paid(r)' # {}
    <3>1. CASE r = <<group.quote, u>>
      <4>1. pay'[r].card = 0
        BY <1>6, <2>5, <3>1, ConfirmedRow
      <4> QED
        BY <1>6, <4>1
    <3>2. CASE r # <<group.quote, u>>
      BY <2>1, <2>5, <3>2, ConfirmedRow
    <3> QED
      BY <3>1, <3>2
  <2>6. UNCHANGED pay => pay'[r] = pay[r]
    OBVIOUS
  <2> QED
    BY <2>1, <2>2, <2>3, <2>4, <2>5, <2>6, PayCases
<1> QED
  BY <1>2, <1>3, <1>5, <1>6

-----------------------------------------------------------------------------
(* A quote that is being booked, or whose ride is on the road, is paid.     *)

\* Every share of q is covered, and where a card had to pay it has.
Secured(q) ==
  \A u \in Required(q):
    /\ pay[<<q, u>>].attempts > 0
    /\ pay[<<q, u>>].card > 0 => Paid(<<q, u>>) # {}

SecuredInv ==
  ~ reopened =>
  /\ \A h \in Procs: On(h, "book") /\ work[h].quote \notin lapsed => Secured(work[h].quote)
  /\ ride.status \in Live /\ ride.quote \notin lapsed => Secured(ride.quote)

\* SecuredInv holds initially.
LEMMA SecuredInit == Init => SecuredInv
<1> SUFFICES ASSUME Init PROVE SecuredInv
  OBVIOUS
<1>1. \A h \in Procs: work[h].at = "idle"
  BY DEF Init, MoneyInit, Idle
<1>2. ride.status = "none"
  BY DEF Init
<1> QED
  BY <1>1, <1>2 DEF SecuredInv, On, Live

\* While no share is confirmed a secured quote stays so.
LEMMA SecuredStays ==
  ASSUME TypeInv, TypeInv', RowsInv, FreshInv, HoldInv, [Next]_vars, ~ reopened,
         NEW q \in Quotes \ lapsed, Secured(q), quote[q] \notin {"none", "SUPERSEDED", "EXPIRED"}, ~ Closed,
         \A h \in Procs, u \in Users: ~ ConfirmPayment(h, u)
  PROVE  Secured(q)'
<1>1. Required(q)' = Required(q)
  <2>1. Amounts(q)' = Amounts(q)
    BY SharesStay
  <2>2. \A u \in Users: Amounts(q)[u] = pay[<<q, u>>].amount /\ Amounts(q)'[u] = pay'[<<q, u>>].amount
    BY DEF Amounts
  <2> QED
    BY <2>1, <2>2 DEF Required
<1>2. ASSUME NEW u \in Required(q)
      PROVE  pay'[<<q, u>>].attempts > 0 /\ (pay'[<<q, u>>].card > 0 => Paid(<<q, u>>)' # {})
  <2>1. <<q, u>> \in Rows /\ <<q, u>>[1] = q
    BY DEF Required, Rows
  <2>3. Safe(<<q, u>>)
    BY <2>1 DEF Safe
  <2>4. pay[<<q, u>>].attempts > 0 /\ (pay[<<q, u>>].card > 0 => Paid(<<q, u>>) # {})
    BY DEF Secured
  <2>5. Kept(<<q, u>>)
    BY <2>1, PayMoves
  <2>6. Paid(<<q, u>>) \subseteq Paid(<<q, u>>)'
    <3>1. Paid(<<q, u>>) \subseteq Attempts
      BY DEF Paid
    <3> QED
      BY <2>1, <2>3, <3>1, PaidStays
  <2> QED
    BY <2>4, <2>5, <2>6 DEF Kept
<1> QED
  BY <1>1, <1>2 DEF Secured

\* What is checked before a booking secures the quote.
LEMMA PayableSecures ==
  ASSUME TypeInv, AttemptsInv, BookingInv, HoldInv, ~ reopened, NEW h \in Procs, RequestRide(h), group.quote \notin lapsed
  PROVE  Secured(group.quote)
<1> DEFINE q == group.quote
<1>1. q \in Quotes /\ quote[q] = "ACTIVE" /\ q \notin lapsed /\ group.status \in Configurable
  BY DEF RequestRide, TypeInv, GroupType, Configurable
<1>2. ~ Closed
  <2>1. group.status \notin RideActive \cup Final
    BY <1>1 DEF Configurable, RideActive, Final
  <2>2. ride.status = "none"
    BY <2>1 DEF BookingInv
  <2> QED
    BY <2>1, <2>2 DEF Closed
<1>3. Payable(q)
  BY DEF RequestRide
<1>4. ASSUME NEW u \in Required(q)
      PROVE  pay[<<q, u>>].attempts > 0 /\ (pay[<<q, u>>].card > 0 => Paid(<<q, u>>) # {})
  <2> HIDE DEF q
  <2>1. <<q, u>> \in Rows /\ <<q, u>>[1] = q
    BY <1>1 DEF Required, Rows
  <2>2. pay[<<q, u>>].status = "SUCCEEDED"
    BY <1>3 DEF Payable
  <2>3. Safe(<<q, u>>)
    BY <1>1, <1>2, <1>4, <2>1 DEF Safe
  <2>4. pay[<<q, u>>].attempts > 0
    BY <2>1, <2>2 DEF AttemptsInv
  <2>5. pay[<<q, u>>].card > 0 => Paid(<<q, u>>) # {}
    BY <2>1, <2>2, <2>3 DEF HoldInv
  <2> QED
    BY <2>4, <2>5
<1> QED
  BY <1>4 DEF Secured

\* Every step preserves SecuredInv.
LEMMA SecuredStep ==
  /\ TypeInv /\ TypeInv' /\ RowsInv /\ FreshInv /\ SplitInv /\ AttemptsInv
  /\ BookingInv /\ HoldInv /\ SecuredInv /\ [Next]_vars
  => SecuredInv'
<1> SUFFICES ASSUME TypeInv, TypeInv', RowsInv, FreshInv, SplitInv, AttemptsInv, BookingInv, HoldInv, SecuredInv,
                    [Next]_vars, ~ reopened'
             PROVE  SecuredInv'
  BY DEF SecuredInv
<1> USE DEF On
<1>0. /\ ~ reopened /\ lapsed \subseteq lapsed' /\ work \in [Procs -> WorkType] /\ ride \in RideType
      /\ \A h \in Procs: WorkOK(work[h])
      /\ Configurable \cap RideActive = {} /\ Configurable \cap Final = {}
  BY Monotone, RacedGrows DEF TypeInv, WorkInv, Configurable, RideActive, Final
\* A step that moves none of the money.
<1>1. ASSUME NEW q, Secured(q), UNCHANGED <<pay, charge>> PROVE Secured(q)'
  BY <1>1 DEF Secured, Required, Paid
<1>2. ASSUME NEW k \in Procs, work'[k].at = "book", work'[k].quote \notin lapsed' PROVE Secured(work[k].quote)'
  <2>1. CASE work'[k] = work[k]
    <3>1. /\ ride.status = "none" /\ group.status \in Configurable /\ quote[work[k].quote] = "ACTIVE"
          /\ work[k].quote \in Quotes /\ Secured(work[k].quote) /\ ~ Unlocked
      BY <1>0, <1>2, <2>1 DEF BookingInv, SecuredInv, WorkOK, Unlocked
    <3>2. \A h \in Procs, u \in Users: ~ ConfirmPayment(h, u)
      BY <3>1 DEF ConfirmPayment, MayConfirm
    <3>3. ~ Closed
      BY <1>0, <3>1 DEF Closed
    <3>4. PICK q \in Quotes \ lapsed: q = work[k].quote
      BY <1>0, <1>2, <2>1, <3>1
    <3>5. Secured(q)'
      BY <1>0, <3>1, <3>2, <3>3, <3>4, SecuredStays
    <3>6. q = work'[k].quote
      BY <2>1, <3>4
    <3> QED
      BY <3>5, <3>6 DEF Secured, Required, Paid
  <2>2. CASE RequestRide(k)
    <3>1. PICK q: q = group.quote
      OBVIOUS
    <3>2. Secured(q)
      <4>1. q = work'[k].quote
        BY <2>2, <3>1, RequestRideWork
      <4> QED
        BY <1>0, <1>2, <2>2, <3>1, <4>1, PayableSecures
    <3>3. UNCHANGED <<pay, charge>>
      BY <2>2 DEF RequestRide, groupRest
    <3>4. Secured(q)'
      BY <1>1, <3>2, <3>3
    <3>5. q = work'[k].quote
      BY <2>2, <3>1, RequestRideWork
    <3> QED
      BY <3>4, <3>5 DEF Secured, Required, Paid
  <2> QED
    BY <1>2, <2>1, <2>2, Arrives DEF Why
<1>3. ASSUME ride'.status \in Live, ride'.quote \notin lapsed' PROVE Secured(ride.quote)'
  <2>1. ASSUME NEW h \in Procs, Book(h) PROVE Secured(ride.quote)'
    <3>1. PICK q: q = work[h].quote
      OBVIOUS
    <3>4. ride' = [ride EXCEPT !.status = "REQUESTED", !.quote = work[h].quote]
      BY <2>1 DEF Book
    <3>5. ride'.quote = q
      BY <1>0, <3>1, <3>4 DEF RideType
    <3>2. Secured(q) /\ UNCHANGED <<pay, charge>>
      BY <1>0, <1>3, <2>1, <3>1, <3>5 DEF Book, SecuredInv, groupRest
    <3>3. Secured(q)'
      BY <1>1, <3>2
    <3> QED
      BY <3>3, <3>5 DEF Secured, Required, Paid
  <2>2. ASSUME ride.status \in Live, ride'.quote = ride.quote PROVE Secured(ride.quote)'
    <3>1. /\ Secured(ride.quote) /\ ride.quote \in Quotes /\ quote[ride.quote] = "CONSUMED"
          /\ group.status \in RideActive \cup Final
      BY <1>0, <1>3, <2>2 DEF SecuredInv, BookingInv, Live
    <3>2. \A h \in Procs, u \in Users: ~ ConfirmPayment(h, u)
      BY <1>0, <3>1 DEF ConfirmPayment, MayConfirm, Stays
    <3>3. ~ Closed
      BY <2>2 DEF Closed, Live
    <3>4. PICK q \in Quotes \ lapsed: q = ride.quote
      BY <1>0, <1>3, <2>2, <3>1
    <3>5. Secured(q)'
      BY <1>0, <3>1, <3>2, <3>3, <3>4, SecuredStays
    <3>6. q = ride'.quote
      BY <2>2, <3>4
    <3> QED
      BY <3>5, <3>6 DEF Secured, Required, Paid
  <2> QED
    BY <1>3, <2>1, <2>2, RideMoves
<1> QED
  BY <1>2, <1>3 DEF SecuredInv

-----------------------------------------------------------------------------
(* The quote that the group names, and the shares that are confirmed. *)

\* Share r is being refunded, or was.
Refunding(r) ==
  \/ \E h \in Procs: \E s \in work[h].todo: s.row = r
  \/ pay[r].status = "REFUNDED"
  \/ \E n \in Attempts: charge[<<r, n>>].stripe = "refunded"

\* The shares of q may be confirmed.
Confirmable(q) == Stays /\ group.quote = q /\ q # None /\ quote[q] = "ACTIVE"

\* What becomes of the quote that the group names.
LEMMA NamedQuote ==
  ASSUME TypeInv, [Next]_vars
  PROVE  \/ group'.quote \in {group.quote, None}
         \/ \E h \in Procs, q \in Quotes, method \in Methods: \E share: Created(h, q, method, share)
<1> DEFINE Goal ==
         \/ group'.quote \in {group.quote, None}
         \/ \E h \in Procs, q \in Quotes, method \in Methods: \E share: Created(h, q, method, share)
<1>0. group \in GroupType
  BY DEF TypeInv
<1>1. ASSUME NEW s, \/ group' = [group EXCEPT !.status = s] \/ group' = [group EXCEPT !.status = s, !.quote = None]
                    \/ UNCHANGED group
      PROVE Goal
  BY <1>0, <1>1 DEF GroupType
<1>2. ASSUME NEW p, NEW q, group' = Gate(p, q) PROVE Goal
  BY <1>1, <1>2 DEF Gate
<1>3. ASSUME MoneyNext PROVE Goal
  <2>1. ASSUME NEW h \in Procs,
               \/ ChargeStripe(h) \/ ChargeUpdate(h) \/ ApplyFailure(h)
               \/ RefundQuotePayments(h) \/ RefundGroupPayments(h) \/ SelectQuotes(h) \/ RefundNextQuote(h)
               \/ RefundCredit(h) \/ RefundMark(h) \/ RefundSkipped(h) \/ Crash(h)
               \/ \E r \in Rows, n \in Attempts: ReceiveEvent(h, r, n)
               \/ \E q \in Quotes: Sweep(h, q) \/ ReadExpired(h, q)
               \/ \E s \in work[h].todo: RefundCharge(h, s)
        PROVE  UNCHANGED group
    BY <2>1 DEF ChargeStripe, ChargeUpdate, ApplyFailure, RefundQuotePayments,
         RefundGroupPayments, SelectQuotes, RefundNextQuote, RefundCredit, RefundMark, RefundSkipped, Crash,
         ReceiveEvent, Sweep,
         ReadExpired, RefundCharge
  <2>2. ASSUME NEW q \in Quotes, Expires(q) PROVE UNCHANGED group
    BY <2>2 DEF Expires
  <2>3. ASSUME NEW h \in Procs, ConfirmUpdate(h) \/ ApplySuccess(h) \/ \E u \in Users: ConfirmPayment(h, u)
        PROVE  \E p, q: group' = Gate(p, q)
    <3>1. CASE ConfirmUpdate(h)
      BY <3>1 DEF ConfirmUpdate
    <3>2. CASE ApplySuccess(h)
      BY <3>2 DEF ApplySuccess
    <3>3. CASE \E u \in Users: ConfirmPayment(h, u)
      BY <3>3 DEF ConfirmPayment
    <3> QED
      BY <2>3, <3>1, <3>2, <3>3
  <2>4. ASSUME NEW u \in Users, ConfirmSettled(u) PROVE \E p, q: group' = Gate(p, q)
    BY <2>4 DEF ConfirmSettled, MayConfirm
  <2>5. ASSUME NEW h \in Procs, ExpireQuote(h) PROVE Goal
    BY <1>1, <2>5 DEF ExpireQuote
  <2> QED
    BY <1>1, <1>2, <1>3, <2>1, <2>2, <2>3, <2>4, <2>5 DEF MoneyNext
<1>4. ASSUME NEW h \in Procs, NEW g, g.quote = group.quote, g \in GroupType, Reconfigure(h, g) PROVE Goal
  <2>1. Bump(g).quote = g.quote /\ Reopened(Bump(g)).quote \in {g.quote, None}
    BY <1>4 DEF Bump, Reopened, GroupType
  <2> QED
    BY <1>4, <2>1 DEF Reconfigure
<1>5. Joined(group) \in GroupType /\ Joined(group).quote = group.quote
  BY <1>0 DEF Joined, GroupType, Configurable
<1>6. ASSUME NEW h \in Procs,
             \/ LoadQuoteContext(h) \/ RequestRide(h) \/ RequestExpired(h) \/ AcceptTrip(h) \/ ReleaseByDriver(h)
             \/ StartTrip(h) \/ CompleteTrip(h) \/ CancelTrip(h)
      PROVE  UNCHANGED group
  BY <1>6 DEF LoadQuoteContext, RequestRide, RequestExpired, AcceptTrip, ReleaseByDriver, StartTrip,
     CompleteTrip, CancelTrip
<1>7. ASSUME NEW h \in Procs,
             \/ OnDriverAssigned(h) \/ OnReleased(h) \/ OnStarted(h) \/ OnRideCompleted(h) \/ OnRideCancelled(h)
             \/ Book(h) \/ CancelGroup(h)
      PROVE  UNCHANGED group \/ \E s: group' = [group EXCEPT !.status = s]
  BY <1>7 DEF OnDriverAssigned, OnReleased, OnStarted, OnRideCompleted, OnRideCancelled, Book, CancelGroup
<1>8. ASSUME NEW h \in Procs, SetDestination(h) PROVE Goal
  BY <1>4, <1>5, <1>8 DEF SetDestination
<1>9. ASSUME NEW h \in Procs, NEW u \in Users,
             \/ AcceptInvitation(h, u) \/ RemoveMember(h, u) \/ LeaveGroup(h, u) \/ SetPickup(h, u) \/ ResolvePickup(h, u)
      PROVE  Goal
  <2>1. CASE AcceptInvitation(h, u)
    BY <1>4, <1>5, <2>1 DEF AcceptInvitation
  <2>2. CASE RemoveMember(h, u) \/ SetPickup(h, u)
    BY <1>0, <1>4, <2>2 DEF RemoveMember, SetPickup
  <2>3. CASE ResolvePickup(h, u)
    BY <2>3 DEF ResolvePickup
  <2>4. CASE LeaveGroup(h, u)
    <3>1. ASSUME NEW v \in Users, Reconfigure(h, [group EXCEPT !.host = v]) PROVE Goal
      <4>1. [group EXCEPT !.host = v] \in GroupType /\ [group EXCEPT !.host = v].quote = group.quote
        BY <1>0 DEF GroupType
      <4> QED
        BY <1>4, <3>1, <4>1
    <3>2. ASSUME Reconfigure(h, [group EXCEPT !.status = "CANCELLED"]) PROVE Goal
      <4>1. /\ [group EXCEPT !.status = "CANCELLED"] \in GroupType
            /\ [group EXCEPT !.status = "CANCELLED"].quote = group.quote
        BY <1>0 DEF GroupType, Final
      <4> QED
        BY <1>4, <3>2, <4>1
    <3>3. Active \subseteq Users
      BY DEF Active
    <3> QED
      BY <1>0, <1>4, <2>4, <3>1, <3>2, <3>3 DEF LeaveGroup
  <2> QED
    BY <1>9, <2>1, <2>2, <2>3, <2>4
<1>10. ASSUME NEW h \in Procs, CreateQuote(h) PROVE Goal
  BY <1>10, CreateQuoteStep
<1>11. ASSUME (\E u \in Users: InviteFriend(u) \/ CloseInvitation(u)) \/ NoDriver \/ PickUpRider \/ UNCHANGED vars
       PROVE  UNCHANGED group
  BY <1>11 DEF InviteFriend, CloseInvitation, NoDriver, PickUpRider, vars, moneyVars
<1>12. UNCHANGED group => Goal
  OBVIOUS
<1> QED
  BY <1>1, <1>3, <1>6, <1>7, <1>8, <1>9, <1>10, <1>11, <1>12 DEF Next

\* A quote that was made and whose shares may be confirmed is one whose shares
\* could be: what is closed or replaced is not confirmed again.
LEMMA ConfirmableStays ==
  ASSUME TypeInv, [Next]_vars, ~ reopened', NEW q \in Quotes, quote[q] # "none", Confirmable(q)'
  PROVE  Confirmable(q)
<1>0. Configurable \cap RideActive = {} /\ Configurable \cap Final = {} /\ group \in GroupType
  BY DEF Configurable, RideActive, Final, TypeInv
<1>1. group.quote = q /\ q # None
  <2>1. group'.quote = q /\ q # None
    BY DEF Confirmable
  <2>2. ASSUME NEW h \in Procs, NEW p \in Quotes, NEW method \in Methods, NEW share, Created(h, p, method, share)
        PROVE  FALSE
    <3>1. group' = [Bump(group) EXCEPT !.quote = p,
                     !.status = IF \A u \in work[h].members: share[u] = 0
                                  THEN "READY_TO_REQUEST" ELSE "AWAITING_PAYMENT"]
      BY <2>2 DEF Created
    <3>2. group'.quote = p
      BY <1>0, <3>1 DEF Bump, GroupType
    <3> QED
      BY <2>1, <2>2, <3>2 DEF Created
  <2> QED
    BY <2>1, <2>2, NamedQuote
<1>2. quote[q] = "ACTIVE"
  <2>1. quote'[q] = "ACTIVE"
    BY DEF Confirmable
  <2> QED
    BY <2>1, QuoteMoves
<1>3. Stays
  <2>1. group'.status \in Configurable
    BY DEF Confirmable, Stays
  <2>2. ASSUME NEW h \in Procs, Book(h) PROVE group'.status \notin Configurable
    BY <1>0, <2>2 DEF Book, GroupType, Configurable
  <2>3. ASSUME NEW h \in Procs, CancelGroup(h) PROVE group'.status \notin Configurable
    BY <1>0, <2>3 DEF CancelGroup, GroupType, Configurable
  <2>4. ASSUME NEW h \in Procs, Follows(h) PROVE group'.status \notin Configurable
    BY <1>0, <2>4 DEF Follows
  <2>5. ASSUME Reshaped PROVE group.status \in Configurable
    BY <1>0, <2>1, <2>5 DEF Reshaped, GroupType
  <2> QED
    BY <2>1, <2>2, <2>3, <2>4, <2>5, GroupMoves DEF Stays
<1> QED
  BY <1>1, <1>2, <1>3 DEF Confirmable

-----------------------------------------------------------------------------
(* What the steps of the payments leave alone, seen from one share. *)

\* Labels of a handler that settles or refunds a share.
AtShare == Charging \cup {"succeeded", "credit", "mark"}

\* Handler k is no nearer to share r after the step, and applies no event to it.
Apart(k, r) ==
  \/ work'[k] = work[k]
  \/ /\ ~ (On(k, "succeeded") /\ work[k].row = r)
     /\ ~ (work'[k].row = r /\ work'[k].at \in AtShare)
     /\ \A s \in work'[k].todo: s.row = r => s \in work[k].todo

\* Row r stays, is closed with its quote or is made.
Rests(r) ==
  \/ pay'[r] = pay[r]
  \/ pay[r].status \in {"PENDING", "PROCESSING", "FAILED"} /\ pay'[r] = [pay[r] EXCEPT !.status = "CANCELLED"]
  \/ pay[r] = NoPayment /\ \E a: pay'[r] = NewShare(a)

\* The step is about something else than the money of r.
Aside(r) ==
  /\ \A n \in Attempts: charge'[<<r, n>>] = charge[<<r, n>>]
  /\ Rests(r)
  /\ \A k \in Procs: Apart(k, r)

\* The steps that settle or refund r.
Touches(h, r) ==
  \/ work[h].row = r /\ \/ ChargeStripe(h) \/ ChargeUpdate(h) \/ ConfirmUpdate(h)
                        \/ ApplySuccess(h) \/ ApplyFailure(h)
                        \/ RefundCredit(h) \/ RefundMark(h)
  \/ \E n \in Attempts: ReceiveEvent(h, r, n)
  \/ \E rows \in SUBSET Rows, rest \in SUBSET Quotes:
       r \in rows /\ Select(h, rows, rest) /\ Selected(h, rows, rest) /\ UNCHANGED <<pay, charge, returned>>
  \/ \E s \in work[h].todo: s.row = r /\ RefundCharge(h, s)
  \/ \E u \in Users: r = <<group.quote, u>> /\ ConfirmPayment(h, u)

\* One handler that goes on with something else.
LEMMA ApartIf ==
  ASSUME TypeInv, NEW r, NEW h \in Procs, NEW w, work' = [work EXCEPT ![h] = w],
         ~ (On(h, "succeeded") /\ work[h].row = r), ~ (w.row = r /\ w.at \in AtShare),
         \A s \in w.todo: s.row = r => s \in work[h].todo
  PROVE  \A k \in Procs: Apart(k, r)
<1>1. work \in [Procs -> WorkType]
  BY DEF TypeInv, WorkInv
<1>2. work'[h] = w /\ \A k \in Procs \ {h}: work'[k] = work[k]
  BY <1>1
<1> QED
  BY <1>2 DEF Apart

\* Such handlers: one that comes to rest,
LEMMA RestApart ==
  ASSUME TypeInv, NEW r, NEW h \in Procs, Rest(h), ~ (On(h, "succeeded") /\ work[h].row = r)
  PROVE  \A k \in Procs: Apart(k, r)
<1>1. Idle.at = "idle" /\ Idle.todo = {}
  BY DEF Idle
<1>2. work' = [work EXCEPT ![h] = Idle] /\ Idle.at \notin AtShare
  BY <1>1 DEF Rest, AtShare, Charging
<1> QED
  BY <1>1, <1>2, ApartIf

\* one that goes on to another step or with another share,
LEMMA GotoApart ==
  ASSUME TypeInv, NEW r, NEW h \in Procs, NEW at, Goto(h, at), ~ (On(h, "succeeded") /\ work[h].row = r),
         work[h].row # r \/ at \notin AtShare
  PROVE  \A k \in Procs: Apart(k, r)
<1> DEFINE w == [work[h] EXCEPT !.at = at]
<1>1. work[h] \in WorkType /\ work \in [Procs -> WorkType]
  BY DEF TypeInv, WorkInv
<1>2. w.at = at /\ w.todo = work[h].todo /\ w.row = work[h].row
  BY <1>1 DEF WorkType
<1>3. work' = [work EXCEPT ![h] = w]
  BY <1>1 DEF Goto
<1> HIDE DEF w
<1> QED
  BY <1>2, <1>3, ApartIf

\* one that turns to a quote,
LEMMA TurnApart ==
  ASSUME TypeInv, NEW r, NEW h \in Procs, NEW at, at \notin AtShare, NEW q,
         work' = [work EXCEPT ![h] = [Idle EXCEPT !.at = at, !.quote = q]],
         ~ (On(h, "succeeded") /\ work[h].row = r)
  PROVE  \A k \in Procs: Apart(k, r)
<1> DEFINE w == [Idle EXCEPT !.at = at, !.quote = q]
<1>1. w.at = at /\ w.todo = {}
  BY DEF Idle
<1>2. work' = [work EXCEPT ![h] = w]
  OBVIOUS
<1> HIDE DEF w
<1> QED
  BY <1>1, <1>2, ApartIf

\* one that goes on with the other quotes,
LEMMA OnwardApart ==
  ASSUME TypeInv, NEW r, NEW h \in Procs, NEW quotes, work' = [work EXCEPT ![h] = Onward(quotes)], ~ On(h, "succeeded")
  PROVE  \A k \in Procs: Apart(k, r)
<1> DEFINE w == Onward(quotes)
<1>1. w.at \in {"idle", "selectEach"} /\ w.todo = {}
  BY DEF Onward, Idle
<1>2. work' = [work EXCEPT ![h] = w]
  OBVIOUS
<1> HIDE DEF w
<1> QED
  BY <1>1, <1>2, ApartIf DEF AtShare, Charging

\* one that is done with a share, or takes the next one.
LEMMA DoneApart ==
  ASSUME TypeInv, NEW r, NEW h \in Procs, Done(h), ~ On(h, "succeeded")
  PROVE  \A k \in Procs: Apart(k, r)
<1> DEFINE rest == {s \in work[h].todo: s.row # work[h].row}
           w == [Idle EXCEPT !.at = "refund", !.todo = rest, !.left = work[h].left]
<1>1. CASE rest = {}
  BY <1>1, OnwardApart DEF Done
<1>2. CASE rest # {}
  <2>1. work' = [work EXCEPT ![h] = w]
    BY <1>2 DEF Done
  <2>2. w.at = "refund" /\ w.todo = rest /\ rest \subseteq work[h].todo
    BY DEF Idle
  <2> HIDE DEF w, rest
  <2>3. w.at \notin AtShare
    BY <2>2 DEF AtShare, Charging
  <2> QED
    BY <2>1, <2>2, <2>3, ApartIf
<1> QED
  BY <1>1, <1>2

\* The same when the refund takes up a share.
LEMMA TakeApart ==
  ASSUME TypeInv, NEW r, NEW h \in Procs, NEW at, NEW s, s.row # r, Take(h, at, s), ~ On(h, "succeeded")
  PROVE  \A k \in Procs: Apart(k, r)
<1> DEFINE w == [work[h] EXCEPT !.at = at, !.row = s.row]
<1>1. work[h] \in WorkType /\ work \in [Procs -> WorkType]
  BY DEF TypeInv, WorkInv
<1>2. w.row = s.row /\ w.todo = work[h].todo
  BY <1>1 DEF WorkType
<1>3. work' = [work EXCEPT ![h] = w]
  BY <1>1 DEF Take
<1> HIDE DEF w
<1> QED
  BY <1>2, <1>3, ApartIf

\* Or one that starts on another share.
LEMMA StartApart ==
  ASSUME TypeInv, NEW r, NEW h \in Procs, NEW at, NEW k, k # r, NEW n, ~ On(h, "succeeded"),
         work' = [work EXCEPT ![h] = [Idle EXCEPT !.at = at, !.row = k, !.n = n]]
  PROVE  \A p \in Procs: Apart(p, r)
<1> DEFINE w == [Idle EXCEPT !.at = at, !.row = k, !.n = n]
<1>1. w.row = k /\ w.todo = {}
  BY DEF Idle
<1>2. work' = [work EXCEPT ![h] = w]
  OBVIOUS
<1> HIDE DEF w
<1> QED
  BY <1>1, <1>2, ApartIf

\* A charge of another share.
LEMMA OtherCharge ==
  ASSUME TypeInv, NEW r, NEW k, k # r, NEW m, NEW c, charge' = [charge EXCEPT ![<<k, m>>] = c], r \in Rows
  PROVE  \A n \in Attempts: charge'[<<r, n>>] = charge[<<r, n>>]
<1>1. charge \in [Rows \X Attempts -> ChargeType]
  BY DEF TypeInv
<1>2. \A n \in Attempts: <<k, m>> # <<r, n>> /\ <<r, n>> \in Rows \X Attempts
  OBVIOUS
<1> QED
  BY <1>1, <1>2

\* The steps that write a charge.
LEMMA ChargeWrites ==
  ASSUME TypeInv, RowsInv, [Next]_vars
  PROVE  \/ UNCHANGED charge
         \/ \E h \in Procs: ChargeStripe(h) \/ ChargeUpdate(h)
         \/ \E h \in Procs, k \in Rows, n \in Attempts: ReceiveEvent(h, k, n)
         \/ \E h \in Procs: \E s \in work[h].todo: RefundCharge(h, s)
<1>3. ASSUME NEW h \in Procs,
             \/ ConfirmUpdate(h) \/ ApplySuccess(h) \/ ApplyFailure(h)
             \/ RefundQuotePayments(h) \/ RefundGroupPayments(h) \/ SelectQuotes(h) \/ RefundNextQuote(h)
             \/ RefundCredit(h) \/ RefundMark(h) \/ RefundSkipped(h) \/ ExpireQuote(h) \/ Crash(h)
             \/ \E u \in Users: ConfirmPayment(h, u)
             \/ \E q \in Quotes: Sweep(h, q) \/ ReadExpired(h, q)
      PROVE  UNCHANGED charge
  BY <1>3 DEF ConfirmUpdate, ApplySuccess, ApplyFailure, RefundQuotePayments,
       RefundGroupPayments, SelectQuotes, RefundNextQuote, RefundCredit, RefundMark, RefundSkipped, ExpireQuote,
       Crash, ConfirmPayment, Sweep,
       ReadExpired
<1>4. ASSUME (\E u \in Users: ConfirmSettled(u)) \/ (\E q \in Quotes: Expires(q)) PROVE UNCHANGED charge
  BY <1>4 DEF Expires, ConfirmSettled
<1>5. ASSUME NEW h \in Procs, NEW g, Reconfigure(h, g) PROVE UNCHANGED charge
  BY <1>5 DEF Reconfigure, groupRest
<1>6. ASSUME NEW h \in Procs,
             \/ SetDestination(h) \/ LoadQuoteContext(h) \/ CreateQuote(h)
             \/ RequestRide(h) \/ RequestExpired(h) \/ Book(h) \/ CancelGroup(h)
             \/ AcceptTrip(h) \/ OnDriverAssigned(h) \/ ReleaseByDriver(h) \/ OnReleased(h)
             \/ StartTrip(h) \/ OnStarted(h) \/ CompleteTrip(h) \/ OnRideCompleted(h)
             \/ CancelTrip(h) \/ OnRideCancelled(h)
      PROVE  UNCHANGED charge
  BY <1>5, <1>6 DEF SetDestination, LoadQuoteContext, CreateQuote, RequestRide, RequestExpired, Book, CancelGroup,
       AcceptTrip, OnDriverAssigned, ReleaseByDriver, OnReleased, StartTrip, OnStarted, CompleteTrip,
       OnRideCompleted, CancelTrip, OnRideCancelled, rideRest, groupRest
<1>7. ASSUME NEW h \in Procs, NEW u \in Users,
             \/ AcceptInvitation(h, u) \/ RemoveMember(h, u) \/ LeaveGroup(h, u)
             \/ SetPickup(h, u) \/ ResolvePickup(h, u)
      PROVE  UNCHANGED charge
  BY <1>5, <1>7 DEF AcceptInvitation, RemoveMember, LeaveGroup, SetPickup, ResolvePickup, rideRest, groupRest
<1>8. ASSUME (\E u \in Users: InviteFriend(u) \/ CloseInvitation(u)) \/ NoDriver \/ PickUpRider \/ UNCHANGED vars
      PROVE  UNCHANGED charge
  BY <1>8 DEF InviteFriend, CloseInvitation, NoDriver, PickUpRider, vars, moneyVars
<1>9. ASSUME MoneyNext
      PROVE  \/ UNCHANGED charge
             \/ \E h \in Procs: ChargeStripe(h) \/ ChargeUpdate(h)
             \/ \E h \in Procs, k \in Rows, n \in Attempts: ReceiveEvent(h, k, n)
             \/ \E h \in Procs: \E s \in work[h].todo: RefundCharge(h, s)
  BY <1>3, <1>4, <1>9 DEF MoneyNext
<1> QED
  BY <1>6, <1>7, <1>8, <1>9 DEF Next

\* What a step makes of the charges of r.
LEMMA ChargeAside ==
  ASSUME TypeInv, RowsInv, [Next]_vars, NEW r \in Rows
  PROVE  (\A n \in Attempts: charge'[<<r, n>>] = charge[<<r, n>>]) \/ \E h \in Procs: Touches(h, r)
<1> DEFINE Goal == (\A n \in Attempts: charge'[<<r, n>>] = charge[<<r, n>>]) \/ \E h \in Procs: Touches(h, r)
<1>1. charge \in [Rows \X Attempts -> ChargeType]
  BY DEF TypeInv
<1>2. ASSUME NEW h \in Procs, ChargeStripe(h) \/ ChargeUpdate(h) PROVE Goal
  <2>1. UNCHANGED charge \/ \E c: charge' = [charge EXCEPT ![<<work[h].row, work[h].n>>] = c]
    <3>1. CASE ChargeUpdate(h)
      <4>1. WorkOK(work[h]) /\ work[h].at \in WithCharge
        BY <3>1 DEF TypeInv, WorkInv, ChargeUpdate, On, WithCharge
      <4>2. <<work[h].row, work[h].n>> \in Rows \X Attempts
        BY <4>1 DEF WorkOK
      <4>4. PICK s, i: charge' = [charge EXCEPT ![<<work[h].row, work[h].n>>] = [@ EXCEPT !.local = s, !.intent = i]]
        BY <3>1 DEF ChargeUpdate
      <4> QED
        BY <1>1, <4>2, <4>4
    <3> QED
      BY <1>2, <3>1 DEF ChargeStripe
  <2>2. CASE work[h].row # r
    BY <1>1, <2>1, <2>2, OtherCharge
  <2> QED
    BY <1>2, <2>2 DEF Touches
<1>3. ASSUME NEW h \in Procs, NEW k \in Rows, NEW n \in Attempts, ReceiveEvent(h, k, n) PROVE Goal
  <2>1. CASE k = r
    BY <1>3, <2>1 DEF Touches
  <2>2. CASE k # r
    <3>1. PICK s: charge' = [charge EXCEPT ![<<k, n>>].event = "none", ![<<k, n>>].local = s]
      BY <1>3 DEF ReceiveEvent
    <3>2. charge' = [charge EXCEPT ![<<k, n>>] = [@ EXCEPT !.event = "none", !.local = s]]
      BY <1>1, <3>1
    <3> QED
      BY <2>2, <3>2, OtherCharge
  <2> QED
    BY <2>1, <2>2
<1>4. ASSUME NEW h \in Procs, NEW s \in work[h].todo, RefundCharge(h, s) PROVE Goal
  <2>1. CASE s.row = r
    BY <1>4, <2>1 DEF Touches
  <2>2. CASE s.row # r
    <3>1. UNCHANGED charge \/ \E c: charge' = [charge EXCEPT ![<<s.row, s.charge>>] = c]
      BY <1>4, RefundChargeStep
    <3> QED
      BY <2>2, <3>1, OtherCharge
  <2> QED
    BY <2>1, <2>2
<1> QED
  BY <1>2, <1>3, <1>4, ChargeWrites

\* The steps that write a payment row.
LEMMA PayWrites ==
  ASSUME [Next]_vars
  PROVE  \/ UNCHANGED pay
         \/ \E h \in Procs: ConfirmUpdate(h) \/ ApplySuccess(h) \/ ApplyFailure(h) \/ RefundMark(h)
         \/ pay' = Invalidated(pay)
         \/ \E h \in Procs: CreateQuote(h)
         \/ \E h \in Procs, u \in Users: ConfirmPayment(h, u)
         \/ \E u \in Users: ConfirmSettled(u)
<1>1. ASSUME NEW h \in Procs,
             \/ ChargeStripe(h) \/ ChargeUpdate(h)
             \/ RefundQuotePayments(h) \/ RefundGroupPayments(h) \/ SelectQuotes(h) \/ RefundNextQuote(h)
             \/ RefundCredit(h) \/ RefundSkipped(h)
             \/ ExpireQuote(h) \/ Crash(h)
             \/ \E r \in Rows, n \in Attempts: ReceiveEvent(h, r, n)
             \/ \E q \in Quotes: Sweep(h, q) \/ ReadExpired(h, q)
             \/ \E s \in work[h].todo: RefundCharge(h, s)
      PROVE  UNCHANGED pay
  BY <1>1 DEF ChargeStripe, ChargeUpdate, RefundQuotePayments, RefundGroupPayments, SelectQuotes,
     RefundNextQuote, RefundCredit, RefundSkipped,
              ExpireQuote, Crash, ReceiveEvent, Sweep, ReadExpired, RefundCharge
<1>2. ASSUME NEW q \in Quotes, Expires(q) PROVE UNCHANGED pay
  BY <1>2 DEF Expires
<1>3. MoneyNext =>
         \/ UNCHANGED pay
         \/ \E h \in Procs: ConfirmUpdate(h) \/ ApplySuccess(h) \/ ApplyFailure(h) \/ RefundMark(h)
         \/ \E h \in Procs, u \in Users: ConfirmPayment(h, u)
         \/ \E u \in Users: ConfirmSettled(u)
  BY <1>1, <1>2 DEF MoneyNext
<1>6. ASSUME NEW h \in Procs, NEW g, Reconfigure(h, g) PROVE UNCHANGED pay \/ pay' = Invalidated(pay)
  BY <1>6 DEF Reconfigure
<1>7. ASSUME NEW h \in Procs,
             \/ SetDestination(h) \/ LoadQuoteContext(h)
             \/ RequestRide(h) \/ RequestExpired(h) \/ Book(h) \/ CancelGroup(h)
             \/ AcceptTrip(h) \/ OnDriverAssigned(h) \/ ReleaseByDriver(h) \/ OnReleased(h)
             \/ StartTrip(h) \/ OnStarted(h) \/ CompleteTrip(h) \/ OnRideCompleted(h)
             \/ CancelTrip(h) \/ OnRideCancelled(h)
      PROVE  UNCHANGED pay \/ pay' = Invalidated(pay)
  BY <1>6, <1>7 DEF SetDestination, LoadQuoteContext, RequestRide, RequestExpired, Book, CancelGroup, AcceptTrip,
       OnDriverAssigned, ReleaseByDriver, OnReleased, StartTrip, OnStarted, CompleteTrip, OnRideCompleted,
       CancelTrip, OnRideCancelled, rideRest
<1>8. ASSUME NEW h \in Procs, NEW u \in Users,
             \/ AcceptInvitation(h, u) \/ RemoveMember(h, u) \/ LeaveGroup(h, u)
             \/ SetPickup(h, u) \/ ResolvePickup(h, u)
      PROVE  UNCHANGED pay \/ pay' = Invalidated(pay)
  BY <1>6, <1>8 DEF AcceptInvitation, RemoveMember, LeaveGroup, SetPickup, ResolvePickup, rideRest
<1>9. ASSUME (\E u \in Users: InviteFriend(u) \/ CloseInvitation(u)) \/ NoDriver \/ PickUpRider \/ UNCHANGED vars
      PROVE  UNCHANGED pay
  BY <1>9 DEF InviteFriend, CloseInvitation, NoDriver, PickUpRider, vars, moneyVars
<1> QED
  BY <1>3, <1>7, <1>8, <1>9 DEF Next

\* What a step makes of row r.
LEMMA PayAside ==
  ASSUME TypeInv, RowsInv, [Next]_vars, NEW r \in Rows
  PROVE  \/ Rests(r)
         \/ \E h \in Procs: Touches(h, r)
         \/ \E u \in Users: r = <<group.quote, u>> /\ ConfirmSettled(u)
<1> DEFINE Goal == \/ Rests(r)
                   \/ \E h \in Procs: Touches(h, r)
                   \/ \E u \in Users: r = <<group.quote, u>> /\ ConfirmSettled(u)
<1>1. pay \in [Rows -> PaymentType]
  BY DEF TypeInv, PayInv
<1>2. ASSUME pay'[r] = Invalidated(pay)[r] PROVE Rests(r)
  BY <1>1, <1>2 DEF Invalidated, Rests
<1>3. ASSUME NEW h \in Procs, ConfirmUpdate(h) \/ ApplySuccess(h) \/ ApplyFailure(h) \/ RefundMark(h) PROVE Goal
  <2>1. CASE work[h].row # r
    <3>1. pay'[r] = pay[r]
      BY <1>1, <1>3, <2>1 DEF ConfirmUpdate, ApplySuccess, ApplyFailure, RefundMark
    <3> QED
      BY <3>1 DEF Rests
  <2> QED
    BY <1>3, <2>1 DEF Touches
<1>4. ASSUME NEW h \in Procs, CreateQuote(h) PROVE Goal
  <2>1. CASE UNCHANGED pay
    BY <2>1 DEF Rests
  <2>2. CASE ~ UNCHANGED pay
    <3>1. PICK q \in Quotes, method \in Methods: \E share: Created(h, q, method, share)
      BY <1>4, <2>2, CreateQuoteStep
    <3>2. PICK share: Created(h, q, method, share)
      BY <3>1
    <3>3. /\ r[1] = q => pay[r] = NoPayment
          /\ r[1] = q /\ r[2] \in work[h].members => pay'[r] = NewShare(share[r[2]])
          /\ r[1] = q /\ r[2] \notin work[h].members => pay'[r] = NoPayment
          /\ r[1] # q => pay'[r] = Invalidated(pay)[r]
      BY <3>2, CreatedRows
    <3> QED
      BY <1>2, <3>3 DEF Rests
  <2> QED
    BY <2>1, <2>2
<1>5. ASSUME NEW h \in Procs, NEW u \in Users, ConfirmPayment(h, u) PROVE Goal
  <2>1. CASE r # <<group.quote, u>>
    <3>1. pay'[r] = pay[r]
      BY <1>5, <2>1, ConfirmMoves
    <3> QED
      BY <3>1 DEF Rests
  <2>2. CASE r = <<group.quote, u>>
    BY <1>5, <2>2 DEF Touches
  <2> QED
    BY <2>1, <2>2
<1>6. ASSUME NEW u \in Users, ConfirmSettled(u) PROVE Goal
  <2>1. CASE r # <<group.quote, u>>
    <3>1. pay'[r] = pay[r]
      BY <1>1, <1>6, <2>1 DEF ConfirmSettled
    <3> QED
      BY <3>1 DEF Rests
  <2> QED
    BY <1>6, <2>1
<1>7. CASE UNCHANGED pay
  BY <1>7 DEF Rests
<1>8. CASE pay' = Invalidated(pay)
  BY <1>2, <1>8
<1> QED
  BY <1>3, <1>4, <1>5, <1>6, <1>7, <1>8, PayWrites

-----------------------------------------------------------------------------
(* What the group's handlers leave alone. *)

\* Handler h, which applies no event, comes to rest or goes on to a step that is
\* about no share.
Away(h) ==
  /\ ~ On(h, "succeeded")
  /\ \/ Rest(h)
     \/ \E at: at \notin AtShare /\ Goto(h, at)
     \/ \E at, q: at \notin AtShare /\ work' = [work EXCEPT ![h] = [Idle EXCEPT !.at = at, !.quote = q]]

\* A handler that goes to work away from the shares touches none of them.
LEMMA AwayApart ==
  ASSUME TypeInv, NEW r, NEW h \in Procs, Away(h)
  PROVE  \A k \in Procs: Apart(k, r)
<1>1. ASSUME NEW at, at \notin AtShare, Goto(h, at) PROVE \A k \in Procs: Apart(k, r)
  BY <1>1, GotoApart DEF Away
<1>2. ASSUME NEW at, NEW q, at \notin AtShare, work' = [work EXCEPT ![h] = [Idle EXCEPT !.at = at, !.quote = q]]
      PROVE  \A k \in Procs: Apart(k, r)
  BY <1>2, TurnApart DEF Away
<1> QED
  BY <1>1, <1>2, RestApart DEF Away

\* Who changes the configuration or the ride is away from the shares.
LEMMA GroupAway ==
  ASSUME TypeInv, [Next]_vars, ~ MoneyNext
  PROVE  UNCHANGED work \/ \E h \in Procs: Away(h) \/ LoadQuoteContext(h)
<1> DEFINE Goal == UNCHANGED work \/ \E h \in Procs: Away(h) \/ LoadQuoteContext(h)
<1> USE DEF On, AtShare, Charging
<1>1. ASSUME NEW h \in Procs, NEW g, Reconfigure(h, g) PROVE Goal
  <2>1. CASE ActiveQuote = {}
    BY <1>1, <2>1 DEF Reconfigure
  <2>2. CASE ActiveQuote # {}
    <3>1. PICK q \in ActiveQuote: work' = [work EXCEPT ![h] = [Idle EXCEPT !.at = "select", !.quote = q]]
      BY <1>1, <2>2 DEF Reconfigure
    <3> QED
      BY <1>1, <3>1 DEF Reconfigure, Away
  <2> QED
    BY <2>1, <2>2
<1>2. ASSUME NEW h \in Procs, NEW u \in Users,
             \/ AcceptInvitation(h, u) \/ RemoveMember(h, u) \/ LeaveGroup(h, u) \/ SetPickup(h, u)
      PROVE  Goal
  BY <1>1, <1>2 DEF AcceptInvitation, RemoveMember, LeaveGroup, SetPickup
<1>12. ASSUME NEW h \in Procs, SetDestination(h) PROVE Goal
  BY <1>1, <1>12 DEF SetDestination
<1>3. ASSUME NEW h \in Procs, Book(h) \/ OnDriverAssigned(h) \/ OnReleased(h) \/ OnStarted(h) \/ OnRideCompleted(h)
      PROVE  Away(h)
  BY <1>3 DEF Book, OnDriverAssigned, OnReleased, OnStarted, OnRideCompleted, Away
<1>4. ASSUME NEW h \in Procs, RequestRide(h) \/ RequestExpired(h) PROVE Away(h)
  <2>1. CASE RequestRide(h)
    <3>1. ~ On(h, "succeeded") /\ work' = [work EXCEPT ![h] = [Idle EXCEPT !.at = "book", !.quote = group.quote]]
      BY <2>1 DEF RequestRide
    <3> QED
      BY <3>1 DEF Away
  <2>2. CASE RequestExpired(h)
    <3>1. ~ On(h, "succeeded") /\ work' = [work EXCEPT ![h] = [Idle EXCEPT !.at = "select", !.quote = group.quote]]
      BY <2>2 DEF RequestExpired
    <3> QED
      BY <3>1 DEF Away
  <2> QED
    BY <1>4, <2>1, <2>2
<1>5. ASSUME NEW h \in Procs, CreateQuote(h) PROVE Away(h)
  <2>1. CASE Rest(h)
    BY <1>5, <2>1 DEF CreateQuote, Away
  <2>2. CASE ~ Rest(h)
    <3>1. PICK p \in ActiveQuote: work' = [work EXCEPT ![h] = [Idle EXCEPT !.at = "select", !.quote = p]]
      BY <1>5, <2>2 DEF CreateQuote
    <3> QED
      BY <1>5, <3>1 DEF CreateQuote, Away
  <2> QED
    BY <2>1, <2>2
<1>6. ASSUME NEW h \in Procs, \/ CancelGroup(h) \/ AcceptTrip(h) \/ ReleaseByDriver(h) \/ StartTrip(h)
                              \/ CompleteTrip(h) \/ CancelTrip(h) \/ OnRideCancelled(h)
      PROVE  Away(h)
  <2>1. ~ On(h, "succeeded")
    BY <1>6 DEF CancelGroup, AcceptTrip, ReleaseByDriver, StartTrip, CompleteTrip, CancelTrip, OnRideCancelled
  <2>2. Rest(h) \/ \E at \in RideSteps \cup {"selectAll", "selectQuotes"}: Goto(h, at)
    BY <1>6 DEF CancelGroup, AcceptTrip, ReleaseByDriver, StartTrip, CompleteTrip, CancelTrip, OnRideCancelled,
       RideSteps
  <2>3. \A at \in RideSteps \cup {"selectAll", "selectQuotes"}: at \notin AtShare
    BY DEF RideSteps
  <2> QED
    BY <2>1, <2>2, <2>3 DEF Away
<1>7. ASSUME NEW h \in Procs, NEW u \in Users, ResolvePickup(h, u) PROVE Goal
  <2>1. ~ On(h, "succeeded") /\ (UNCHANGED work \/ Goto(h, "start") \/ Goto(h, "restart"))
    BY <1>7 DEF ResolvePickup
  <2> QED
    BY <2>1 DEF Away
<1>8. ASSUME (\E u \in Users: InviteFriend(u) \/ CloseInvitation(u)) \/ NoDriver \/ PickUpRider \/ UNCHANGED vars
      PROVE  UNCHANGED work
  BY <1>8 DEF InviteFriend, CloseInvitation, NoDriver, PickUpRider, vars, moneyVars
<1> QED
  BY <1>2, <1>3, <1>4, <1>5, <1>6, <1>7, <1>8, <1>12 DEF Next

\* The same when a handler starts to price the group.
LEMMA LoadApart ==
  ASSUME TypeInv, NEW r, NEW h \in Procs, LoadQuoteContext(h)
  PROVE  \A k \in Procs: Apart(k, r)
<1> DEFINE w == [Idle EXCEPT !.at = "quote", !.members = Active, !.version = group.version]
<1>1. w.at = "quote" /\ w.todo = {}
  BY DEF Idle
<1>2. work' = [work EXCEPT ![h] = w] /\ ~ On(h, "succeeded")
  BY DEF LoadQuoteContext, On
<1> HIDE DEF w
<1> QED
  BY <1>1, <1>2, ApartIf DEF AtShare, Charging

\* What a step makes of the handlers that are at r.
LEMMA WorkAside ==
  ASSUME TypeInv, RowsInv, [Next]_vars, NEW r \in Rows, r \notin raced'
  PROVE  (\A k \in Procs: Apart(k, r)) \/ \E h \in Procs: Touches(h, r)
<1> DEFINE Goal == (\A k \in Procs: Apart(k, r)) \/ \E h \in Procs: Touches(h, r)
<1>0. UNCHANGED work => Goal
  BY DEF Apart
<1>1. ASSUME ~ MoneyNext PROVE Goal
  BY <1>0, <1>1, AwayApart, GroupAway, LoadApart
<1>2. ASSUME NEW h \in Procs, ChargeStripe(h) \/ ChargeUpdate(h) \/ RefundCredit(h) PROVE Goal
  <2>1. CASE work[h].row = r
    BY <1>2, <2>1 DEF Touches
  <2>2. CASE work[h].row # r
    <3>1. ~ On(h, "succeeded") /\ \E at: Goto(h, at)
      BY <1>2 DEF ChargeStripe, ChargeUpdate, RefundCredit, On
    <3> QED
      BY <2>2, <3>1, GotoApart
  <2> QED
    BY <2>1, <2>2
<1>3. ASSUME NEW h \in Procs, ConfirmUpdate(h) \/ ApplySuccess(h) \/ ApplyFailure(h) PROVE Goal
  <2>1. CASE work[h].row = r
    BY <1>3, <2>1 DEF Touches
  <2>2. CASE work[h].row # r
    <3>1. Rest(h)
      BY <1>3 DEF ConfirmUpdate, ApplySuccess, ApplyFailure
    <3> QED
      BY <2>2, <3>1, RestApart
  <2> QED
    BY <2>1, <2>2
<1>4. ASSUME NEW h \in Procs, RefundMark(h) \/ RefundSkipped(h) PROVE Goal
  <2>1. Done(h) /\ ~ On(h, "succeeded")
    BY <1>4 DEF RefundMark, RefundSkipped, On
  <2> QED
    BY <2>1, DoneApart
<1>5. ASSUME NEW h \in Procs, Crash(h) PROVE Goal
  <2>1. Rest(h) /\ ~ (On(h, "succeeded") /\ work[h].row = r)
    BY <1>5 DEF Crash
  <2> QED
    BY <2>1, RestApart
<1>6. ASSUME NEW h \in Procs, ExpireQuote(h) \/ \E q \in Quotes: Sweep(h, q) \/ ReadExpired(h, q) PROVE Away(h)
  <2>1. ~ On(h, "succeeded")
    BY <1>6 DEF ExpireQuote, Sweep, ReadExpired, On
  <2>2. "select" \notin AtShare /\ "expire" \notin AtShare
    BY DEF AtShare, Charging
  <2>3. CASE ExpireQuote(h)
    <3>1. Goto(h, "select")
      BY <2>3 DEF ExpireQuote
    <3> QED
      BY <2>1, <2>2, <3>1 DEF Away
  <2>4. ASSUME NEW q \in Quotes, Sweep(h, q) PROVE Away(h)
    <3>1. work' = [work EXCEPT ![h] = [Idle EXCEPT !.at = "select", !.quote = q]]
      BY <2>4 DEF Sweep
    <3> QED
      BY <2>1, <2>2, <3>1 DEF Away
  <2>5. ASSUME NEW q \in Quotes, ReadExpired(h, q) PROVE Away(h)
    <3>1. work' = [work EXCEPT ![h] = [Idle EXCEPT !.at = "expire", !.quote = q]]
      BY <2>5 DEF ReadExpired
    <3> QED
      BY <2>1, <2>2, <3>1 DEF Away
  <2> QED
    BY <1>6, <2>3, <2>4, <2>5
<1>7. ASSUME NEW h \in Procs, RefundQuotePayments(h) \/ RefundGroupPayments(h) \/ RefundNextQuote(h) PROVE Goal
  <2>1. PICK rows \in SUBSET Rows, rest \in SUBSET Quotes:
          Select(h, rows, rest) /\ Selected(h, rows, rest) /\ UNCHANGED <<pay, charge, returned>>
    <3>0. WorkOK(work[h])
      BY DEF TypeInv, WorkInv
    <3>1. CASE RefundGroupPayments(h)
      BY <3>1 DEF RefundGroupPayments, Selected
    <3>2. CASE RefundQuotePayments(h)
      <4>2. {work[h].quote} \X Users \in SUBSET Rows
        BY <3>0, <3>2 DEF RefundQuotePayments, On, WorkOK, Rows
      <4>3. Selected(h, {work[h].quote} \X Users, {})
        BY <3>2 DEF RefundQuotePayments, Selected
      <4> QED
        BY <3>2, <4>2, <4>3 DEF RefundQuotePayments
    <3>3. CASE RefundNextQuote(h)
      <4>1. PICK q \in work[h].left: Select(h, {q} \X Users, work[h].left \ {q})
        BY <3>3 DEF RefundNextQuote
      <4>2. work[h].left \in SUBSET Quotes
        BY <3>0 DEF WorkOK, WorkType
      <4>3. {q} \X Users \in SUBSET Rows /\ work[h].left \ {q} \in SUBSET Quotes
        BY <4>2 DEF Rows
      <4>4. Selected(h, {q} \X Users, work[h].left \ {q})
        BY <3>3, <4>3 DEF RefundNextQuote, Selected
      <4> QED
        BY <3>3, <4>1, <4>3, <4>4 DEF RefundNextQuote
    <3> QED
      BY <1>7, <3>1, <3>2, <3>3
  <2>2. CASE r \in rows
    BY <2>1, <2>2 DEF Touches
  <2>3. CASE r \notin rows
    <3> DEFINE todo == {k \in rows: Refundable(k)}
               w == [Idle EXCEPT !.at = "refund", !.todo = {Snapshot(k): k \in todo}, !.left = rest]
    <3>1. ~ On(h, "succeeded")
      BY <2>1 DEF Selected, On
    <3>2. CASE todo = {}
      BY <2>1, <3>1, <3>2, OnwardApart DEF Select
    <3>3. CASE todo # {}
      <4>1. work' = [work EXCEPT ![h] = w]
        BY <2>1, <3>3 DEF Select
      <4>2. \A k: Snapshot(k).row = k
        BY DEF Snapshot
      <4>3. w.at = "refund" /\ w.todo = {Snapshot(k): k \in todo}
        BY DEF Idle
      <4>4. \A s \in w.todo: s.row # r
        BY <2>3, <4>2, <4>3
      <4> HIDE DEF w
      <4> QED
        BY <3>1, <4>1, <4>3, <4>4, ApartIf DEF AtShare, Charging
    <3> QED
      BY <3>2, <3>3
  <2> QED
    BY <2>2, <2>3
<1>14. ASSUME NEW h \in Procs, SelectQuotes(h) PROVE Goal
  <2>1. ~ On(h, "succeeded") /\ \E quotes: work' = [work EXCEPT ![h] = Onward(quotes)]
    BY <1>14 DEF SelectQuotes, On
  <2> QED
    BY <2>1, OnwardApart
<1>8. ASSUME NEW h \in Procs, NEW s \in work[h].todo, RefundCharge(h, s) PROVE Goal
  <2>1. CASE s.row = r
    BY <1>8, <2>1 DEF Touches
  <2>2. CASE s.row # r
    <3>1. ~ On(h, "succeeded") /\ \E at: Take(h, at, s)
      BY <1>8 DEF RefundCharge, On
    <3> QED
      BY <2>2, <3>1, TakeApart
  <2> QED
    BY <2>1, <2>2
<1>9. ASSUME NEW h \in Procs, NEW k \in Rows, NEW n \in Attempts, ReceiveEvent(h, k, n) PROVE Goal
  <2>1. CASE k = r
    BY <1>9, <2>1 DEF Touches
  <2>2. CASE k # r
    <3>1. /\ ~ On(h, "succeeded")
          /\ UNCHANGED work \/ work' = [work EXCEPT ![h] = [Idle EXCEPT !.at = charge[<<k, n>>].event, !.row = k, !.n = n]]
      BY <1>9 DEF ReceiveEvent, On
    <3> QED
      BY <1>0, <2>2, <3>1, StartApart
  <2> QED
    BY <2>1, <2>2
<1>10. ASSUME NEW h \in Procs, NEW u \in Users, ConfirmPayment(h, u) PROVE Goal
  <2>1. CASE r = <<group.quote, u>>
    BY <1>10, <2>1 DEF Touches
  <2>2. CASE r # <<group.quote, u>>
    <3>1. ~ On(h, "succeeded")
      BY <1>10 DEF ConfirmPayment, On
    <3>2. \E at, n: work' = [work EXCEPT ![h] = [Idle EXCEPT !.at = at, !.row = <<group.quote, u>>, !.n = n]]
      BY <1>10 DEF ConfirmPayment
    <3> QED
      BY <2>2, <3>1, <3>2, StartApart
  <2> QED
    BY <2>1, <2>2
<1>11. ASSUME (\E u \in Users: ConfirmSettled(u)) \/ (\E q \in Quotes: Expires(q)) PROVE UNCHANGED work
  BY <1>11 DEF Expires, ConfirmSettled
<1>12. ASSUME NEW h \in Procs, Away(h) PROVE Goal
  BY <1>12, AwayApart
<1>13. CASE MoneyNext
  BY <1>0, <1>2, <1>3, <1>4, <1>5, <1>6, <1>7, <1>8, <1>9, <1>10, <1>11, <1>12, <1>13, <1>14 DEF MoneyNext
<1> QED
  BY <1>1, <1>13

\* Every step settles or refunds r, or is about something else.
LEMMA Touched ==
  ASSUME TypeInv, RowsInv, [Next]_vars, NEW r \in Rows, r \notin raced'
  PROVE  \/ Aside(r)
         \/ \E h \in Procs: Touches(h, r)
         \/ \E u \in Users: r = <<group.quote, u>> /\ ConfirmSettled(u)
BY ChargeAside, PayAside, WorkAside DEF Aside

-----------------------------------------------------------------------------
(* The money of a share that was paid is not forgotten. *)

\* A share that was never confirmed holds nothing, and until it is confirmed
\* its status says so.
UntriedInv ==
  \A r \in Rows:
    /\ pay[r].attempts = 0 => pay[r].credit = 0
    /\ pay[r].status \in {"none", "NOT_REQUIRED", "PENDING"} => pay[r].attempts = 0

\* What Stripe says and what the charges of r say of each other.
Bills(r) ==
  \A n \in Attempts:
    /\ charge[<<r, n>>].event = "failed" => charge[<<r, n>>].stripe # "paid"
    /\ charge[<<r, n>>].event = "succeeded" => charge[<<r, n>>].stripe \in {"paid", "refunded"}
    /\ charge[<<r, n>>].local = "SUCCEEDED" => charge[<<r, n>>].stripe = "paid"
    /\ charge[<<r, n>>].stripe = "paid" /\ charge[<<r, n>>].intent => charge[<<r, n>>].local = "SUCCEEDED"
    /\ charge[<<r, n>>].stripe = "refunded" <=> charge[<<r, n>>].local = "REFUNDED"
    /\ charge[<<r, n>>].stripe = "refunded" => Paid(r) = {}

\* A handler that applies an event was told what is so.
Told(r) ==
  \A h \in Procs: On(h, "succeeded") /\ work[h].row = r =>
    charge[<<r, work[h].n>>].stripe \in {"paid", "refunded"}

\* A handler that charges r knows of every charge that is kept, and while it
\* does r is not refunded.
Tries(r) ==
  \A h \in Procs: work[h].at \in Charging /\ work[h].row = r =>
    /\ \A n \in Paid(r): n = work[h].n
    /\ ~ Refunding(r)
    /\ On(h, "charge") => pay[r].status # "SUCCEEDED"
    /\ On(h, "record") => work[h].n \in Paid(r)

\* What is refunded is not confirmed again.
Shut(r) == Refunding(r) => ~ Confirmable(r[1])

\* A refund knows what is kept of r, and its steps do away with it.
Noted(r) ==
  \A h \in Procs: \A s \in work[h].todo: s.row = r =>
    /\ \A n \in Paid(r): s.charge = n
    /\ pay[r].credit > 0 => s.credit > 0

\* A handler that returns the credits of r, or marks it, left no charge on it.
Returning(r) ==
  \A h \in Procs: work[h].at \in {"credit", "mark"} /\ work[h].row = r =>
    /\ Paid(r) = {}
    /\ On(h, "mark") /\ pay[r].credit > 0 => r \in returned

\* A share that succeeded names the charge that was kept for it; one that was
\* refunded holds nothing; and money on one that names no charge is announced.
Settled(r) ==
  /\ pay[r].status = "SUCCEEDED" => \A n \in Paid(r): pay[r].charge = n
  /\ pay[r].status = "REFUNDED" => Paid(r) = {} /\ (pay[r].credit > 0 => r \in returned)
  /\ Paid(r) # {} /\ pay[r].status # "SUCCEEDED" /\ pay[r].charge = 0 => Announced(r)

\* What the books say of share r is so.
Truth(r) == Bills(r) /\ Told(r) /\ Tries(r) /\ Shut(r) /\ Noted(r) /\ Returning(r) /\ Settled(r)

\* The inductive invariant: the books are right on every share that no two
\* handlers charged at a time, unless a quote reopened the group.
SettledInv == ~ reopened => \A r \in Rows \ raced: Truth(r)

\* At first nothing was paid.
LEMMA SettledInit == Init => UntriedInv /\ SettledInv
<1> SUFFICES ASSUME Init PROVE UntriedInv /\ SettledInv
  OBVIOUS
<1>1. /\ \A r \in Rows: pay[r] = NoPayment
      /\ \A r \in Rows, n \in Attempts: charge[<<r, n>>] = NoCharge
      /\ \A h \in Procs: work[h] = Idle
  BY DEF Init, MoneyInit
<1>2. /\ NoPayment.attempts = 0 /\ NoPayment.credit = 0 /\ NoPayment.status = "none"
      /\ NoCharge.event = "none" /\ NoCharge.local = "none" /\ NoCharge.stripe = "none"
      /\ Idle.at = "idle" /\ Idle.todo = {}
  BY DEF NoPayment, NoCharge, Idle
<1>3. UntriedInv
  BY <1>1, <1>2 DEF UntriedInv
<1>4. ASSUME NEW r \in Rows PROVE Truth(r)
  <2>1. Paid(r) = {} /\ ~ Refunding(r)
    BY <1>1, <1>2 DEF Paid, Refunding
  <2> QED
    BY <1>1, <1>2, <2>1 DEF Truth, Bills, Told, Tries, Shut, Noted, Returning, Settled, On, Charging
<1> QED
  BY <1>3, <1>4 DEF SettledInv

\* What a confirmation makes of its share and of its handler.
LEMMA ConfirmedShare ==
  ASSUME TypeInv, NEW h \in Procs, NEW u \in Users, ConfirmPayment(h, u)
  PROVE  LET r == <<group.quote, u>> IN
         /\ pay'[r].status = IF work'[h].at = "charge" THEN "PROCESSING" ELSE "SUCCEEDED"
         /\ pay'[r].charge = pay[r].charge
         /\ work'[h].at \in {"charge", "update"} /\ work'[h].row = r /\ work'[h].todo = {}
         /\ work'[h].n = IF work'[h].at = "charge" THEN pay[r].attempts + 1 ELSE 0
         /\ work'[h].at = "charge" => work'[h].n \in Attempts
         /\ \A k \in Procs \ {h}: work'[k] = work[k]
<1> DEFINE r == <<group.quote, u>>
<1>0. r \in Rows /\ ConfirmStep(h, u)
  BY ConfirmPaymentStep
<1>1. pay \in [Rows -> PaymentType] /\ work \in [Procs -> WorkType]
  BY DEF TypeInv, PayInv, WorkInv
<1>2. PICK applied \in Nat, n \in Attempts:
        LET credit == pay[r].credit + applied
            card == pay[r].amount - credit IN
        /\ n = pay[r].attempts + 1
        /\ pay' = [pay EXCEPT ![r].status = IF card > 0 THEN "PROCESSING" ELSE "SUCCEEDED",
                              ![r].credit = credit, ![r].card = card, ![r].attempts = n]
        /\ work' = [work EXCEPT ![h] = [Idle EXCEPT !.at = IF card > 0 THEN "charge" ELSE "update",
                                                   !.row = r, !.n = IF card > 0 THEN n ELSE 0]]
  BY <1>0 DEF ConfirmStep
<1> DEFINE credit == pay[r].credit + applied
           card == pay[r].amount - credit
           p == [pay[r] EXCEPT !.status = IF card > 0 THEN "PROCESSING" ELSE "SUCCEEDED",
                               !.credit = credit, !.card = card, !.attempts = n]
           at == IF card > 0 THEN "charge" ELSE "update"
           m == IF card > 0 THEN n ELSE 0
           w == [Idle EXCEPT !.at = at, !.row = r, !.n = m]
<1>3. pay[r] \in PaymentType
  BY <1>0, <1>1
<1> HIDE DEF r
<1>5. pay' = [pay EXCEPT ![r] = p] /\ work' = [work EXCEPT ![h] = w]
  BY <1>0, <1>1, <1>2
<1>6. p.charge = pay[r].charge /\ p.status = IF card > 0 THEN "PROCESSING" ELSE "SUCCEEDED"
  BY <1>3 DEF PaymentType
<1>7. w.at = at /\ w.row = r /\ w.n = m /\ w.todo = {}
  BY DEF Idle
<1>8. n = pay[r].attempts + 1
  BY <1>2
<1> DEFINE paid == card > 0
<1>9. /\ p.status = IF paid THEN "PROCESSING" ELSE "SUCCEEDED"
      /\ at = IF paid THEN "charge" ELSE "update"
      /\ m = IF paid THEN n ELSE 0
  BY <1>6
<1> HIDE DEF p, w, credit, card, paid, at, m
<1>10. pay'[r] = p /\ work'[h] = w /\ \A k \in Procs \ {h}: work'[k] = work[k]
  BY <1>0, <1>1, <1>5
<1>11. /\ pay'[r].status = IF work'[h].at = "charge" THEN "PROCESSING" ELSE "SUCCEEDED"
       /\ pay'[r].charge = pay[r].charge
       /\ work'[h].at \in {"charge", "update"} /\ work'[h].row = r /\ work'[h].todo = {}
       /\ work'[h].n = IF work'[h].at = "charge" THEN pay[r].attempts + 1 ELSE 0
       /\ work'[h].at = "charge" => work'[h].n \in Attempts
  BY <1>6, <1>7, <1>8, <1>9, <1>10
<1> QED
  BY <1>10, <1>11 DEF r

\* Every step preserves UntriedInv.
LEMMA UntriedStep == TypeInv /\ RowsInv /\ UntriedInv /\ [Next]_vars => UntriedInv'
<1> SUFFICES ASSUME TypeInv, RowsInv, UntriedInv, [Next]_vars, NEW r \in Rows
             PROVE  /\ pay'[r].attempts = 0 => pay'[r].credit = 0
                    /\ pay'[r].status \in {"none", "NOT_REQUIRED", "PENDING"} => pay'[r].attempts = 0
  BY DEF UntriedInv
<1> DEFINE Goal == /\ pay'[r].attempts = 0 => pay'[r].credit = 0
                   /\ pay'[r].status \in {"none", "NOT_REQUIRED", "PENDING"} => pay'[r].attempts = 0
<1>0. pay \in [Rows -> PaymentType] /\ pay[r] \in PaymentType
  BY DEF TypeInv, PayInv
<1>1. CASE pay'[r] = pay[r]
  BY <1>1 DEF UntriedInv
<1>2. CASE StatusStep
  <2>1. PICK k \in Rows, s \in {"SUCCEEDED", "FAILED", "REFUNDED"}, n \in 0..MaxAttempts:
          \/ pay' = [pay EXCEPT ![k].status = s]
          \/ pay' = [pay EXCEPT ![k].status = s, ![k].charge = n]
    BY <1>2 DEF StatusStep
  <2>2. CASE k = r
    <3>1. pay'[r].status = s /\ pay'[r].attempts = pay[r].attempts /\ pay'[r].credit = pay[r].credit
      BY <1>0, <2>1, <2>2 DEF PaymentType
    <3> QED
      BY <3>1 DEF UntriedInv
  <2>3. CASE k # r
    BY <1>0, <1>1, <2>1, <2>3
  <2> QED
    BY <2>2, <2>3
<1>3. CASE pay'[r] = Invalidated(pay)[r]
  <2>1. pay'[r] = pay[r] \/ pay'[r] = [pay[r] EXCEPT !.status = "CANCELLED"]
    BY <1>0, <1>3 DEF Invalidated
  <2> QED
    BY <1>0, <1>1, <2>1 DEF PaymentType, UntriedInv
<1>4. ASSUME NEW h \in Procs, CreateQuote(h) PROVE Goal
  <2>1. CASE UNCHANGED pay
    BY <1>1, <2>1
  <2>2. CASE ~ UNCHANGED pay
    <3>1. PICK q \in Quotes, method \in Methods: \E share: Created(h, q, method, share)
      BY <1>4, <2>2, CreateQuoteStep
    <3>2. PICK share: Created(h, q, method, share)
      BY <3>1
    <3>3. /\ r[1] = q => pay[r] = NoPayment
          /\ r[1] = q /\ r[2] \in work[h].members => pay'[r] = NewShare(share[r[2]])
          /\ r[1] = q /\ r[2] \notin work[h].members => pay'[r] = NoPayment
          /\ r[1] # q => pay'[r] = Invalidated(pay)[r]
      BY <3>2, CreatedRows
    <3> QED
      BY <1>1, <1>3, <3>3, NewShareIs
  <2> QED
    BY <2>1, <2>2
<1>5. ASSUME NEW h \in Procs, NEW u \in Users, ConfirmPayment(h, u) PROVE Goal
  <2>1. CASE r # <<group.quote, u>>
    <3>1. pay'[r] = pay[r]
      BY <1>5, <2>1, ConfirmMoves
    <3> QED
      BY <1>1, <3>1
  <2>2. CASE r = <<group.quote, u>>
    <3>1. pay'[r].status \in {"PROCESSING", "SUCCEEDED"}
      BY <1>5, <2>2, ConfirmedShare
    <3>2. pay'[r].attempts > 0
      BY <1>5, <2>2, ConfirmedRow
    <3> QED
      BY <3>1, <3>2
  <2> QED
    BY <2>1, <2>2
<1> QED
  BY <1>1, <1>2, <1>3, <1>4, <1>5, PayCases

\* Who is refunded has a share.
LEMMA RefundingMade ==
  ASSUME TypeInv, RowsInv, NEW r \in Rows, Refunding(r)
  PROVE  pay[r].status # "none" /\ quote[r[1]] # "none" /\ r[1] \in Quotes
<1>1. ASSUME NEW n \in Attempts, charge[<<r, n>>].stripe = "refunded" PROVE pay[r].status # "none"
  <2>1. charge[<<r, n>>] # NoCharge /\ NoPayment.attempts = 0
    BY <1>1 DEF NoCharge, NoPayment
  <2>2. n <= pay[r].attempts /\ n \in 1..MaxAttempts
    BY <2>1 DEF RowsInv, Attempts
  <2>3. pay[r] # NoPayment
    BY <2>1, <2>2, PaymentsAssumption
  <2> QED
    BY <2>3 DEF RowsInv
<1>2. pay[r].status # "none"
  BY <1>1 DEF Refunding, RowsInv, Good
<1> QED
  BY <1>2 DEF RowsInv, Rows

\* A refund that goes on, and no other, keeps r shut.
LEMMA ShutStays ==
  ASSUME TypeInv, RowsInv, [Next]_vars, ~ reopened', NEW r \in Rows, Truth(r), Refunding(r)
  PROVE  ~ Confirmable(r[1])'
<1>1. quote[r[1]] # "none" /\ r[1] \in Quotes
  BY RefundingMade
<1>2. ~ Confirmable(r[1])
  BY DEF Truth, Shut
<1>3. ASSUME NEW q \in Quotes, quote[q] # "none", ~ Confirmable(q) PROVE ~ Confirmable(q)'
  BY <1>3, ConfirmableStays
<1> QED
  BY <1>1, <1>2, <1>3

\* Credits that were returned stay so.
LEMMA ReturnedGrows == ASSUME [Next]_vars PROVE returned \subseteq returned'
<1>1. ASSUME NEW h \in Procs, RefundCredit(h) PROVE returned \subseteq returned'
  BY <1>1 DEF RefundCredit
<1>2. ASSUME NEW h \in Procs, NEW u \in Users, ConfirmPayment(h, u) PROVE returned \subseteq returned'
  BY <1>2 DEF ConfirmPayment
<1> QED
  BY <1>1, <1>2, CreditCases

\* The row of a share that is settled otherwise or not at all.
LEMMA RestsMoves ==
  ASSUME TypeInv, NEW r \in Rows, Rests(r)
  PROVE  /\ pay'[r].charge = pay[r].charge /\ pay'[r].credit = pay[r].credit
         /\ pay'[r].status \in {"SUCCEEDED", "REFUNDED"} => pay'[r].status = pay[r].status
         /\ pay[r].status = "SUCCEEDED" => pay'[r].status = "SUCCEEDED"
<1>1. pay[r] \in PaymentType
  BY DEF TypeInv, PayInv
<1>2. CASE pay'[r] = pay[r]
  BY <1>2
<1>3. CASE pay[r].status \in {"PENDING", "PROCESSING", "FAILED"} /\ pay'[r] = [pay[r] EXCEPT !.status = "CANCELLED"]
  BY <1>1, <1>3 DEF PaymentType
<1>4. CASE pay[r] = NoPayment /\ \E a: pay'[r] = NewShare(a)
  <2>1. pay[r].status = "none" /\ pay[r].charge = 0 /\ pay[r].credit = 0
    BY <1>4 DEF NoPayment
  <2> QED
    BY <1>4, <2>1, NewShareIs
<1> QED
  BY <1>2, <1>3, <1>4 DEF Rests

\* A step about something else keeps the truth about r.
LEMMA AsideStep ==
  ASSUME TypeInv, RowsInv, [Next]_vars, ~ reopened', NEW r \in Rows, Truth(r), Aside(r)
  PROVE  Truth(r)'
<1> USE DEF On
<1>1. /\ \A n \in Attempts: charge'[<<r, n>>] = charge[<<r, n>>]
      /\ Paid(r)' = Paid(r)
      /\ pay'[r].charge = pay[r].charge /\ pay'[r].credit = pay[r].credit
      /\ pay'[r].status \in {"SUCCEEDED", "REFUNDED"} => pay'[r].status = pay[r].status
      /\ pay[r].status = "SUCCEEDED" => pay'[r].status = "SUCCEEDED"
      /\ returned \subseteq returned'
  BY RestsMoves, ReturnedGrows DEF Aside, Paid
<1>2. /\ \A k \in Procs: work'[k].row = r /\ work'[k].at \in AtShare => work'[k] = work[k]
      /\ \A k \in Procs: On(k, "succeeded") /\ work[k].row = r => work'[k] = work[k]
      /\ \A k \in Procs: \A s \in work'[k].todo: s.row = r => s \in work[k].todo
  BY DEF Aside, Apart
<1>3. Refunding(r)' => Refunding(r)
  BY <1>1, <1>2 DEF Refunding
<1>4. \A k \in Procs: work'[k].at \in WithCharge /\ work'[k].row = r /\ work'[k].at \in AtShare => work[k].n \in Attempts
  BY <1>2 DEF TypeInv, WorkInv, WorkOK
<1>5. Bills(r)'
  BY <1>1 DEF Truth, Bills
<1>6. Told(r)'
  <2> SUFFICES ASSUME NEW h \in Procs, work'[h].at = "succeeded", work'[h].row = r
               PROVE  charge'[<<r, work'[h].n>>].stripe \in {"paid", "refunded"}
    BY DEF Told
  <2>1. work'[h] = work[h]
    BY <1>2 DEF AtShare
  <2>2. work[h].n \in Attempts
    BY <1>4, <2>1 DEF AtShare, WithCharge
  <2> QED
    BY <1>1, <2>1, <2>2 DEF Truth, Told
<1>7. Tries(r)'
  <2> SUFFICES ASSUME NEW h \in Procs, work'[h].at \in Charging, work'[h].row = r
               PROVE  /\ \A n \in Paid(r)': n = work'[h].n
                      /\ ~ Refunding(r)'
                      /\ work'[h].at = "charge" => pay'[r].status # "SUCCEEDED"
                      /\ work'[h].at = "record" => work'[h].n \in Paid(r)'
    BY DEF Tries
  <2>1. work'[h] = work[h]
    BY <1>2 DEF AtShare
  <2> QED
    BY <1>1, <1>3, <2>1 DEF Truth, Tries
<1>8. Shut(r)'
  BY <1>3, ShutStays DEF Shut
<1>9. Noted(r)'
  <2>1. \A n \in Paid(r): n \in Attempts
    BY DEF Paid
  <2> QED
    BY <1>1, <1>2, <2>1 DEF Truth, Noted
<1>10. Returning(r)'
  BY <1>1, <1>2 DEF Truth, Returning, AtShare
<1>11. Settled(r)'
  <2>1. \A n \in Paid(r): n \in Attempts
    BY DEF Paid
  <2>2. Announced(r) => Announced(r)'
    BY <1>1, <1>2 DEF Announced
  <2> QED
    BY <1>1, <2>1, <2>2 DEF Truth, Settled
<1> QED
  BY <1>5, <1>6, <1>7, <1>8, <1>9, <1>10, <1>11 DEF Truth

\* Nobody refunds a share that is not refunded, and who applies an event to it
\* applies that of a charge that is kept.
LEMMA NotRefunded ==
  ASSUME TypeInv, NEW r \in Rows, Truth(r), ~ Refunding(r)
  PROVE  /\ \A k \in Procs: \A s \in work[k].todo: s.row # r
         /\ \A k \in Procs: ~ (work[k].at \in {"credit", "mark"} /\ work[k].row = r)
         /\ pay[r].status # "REFUNDED"
         /\ \A n \in Attempts: charge[<<r, n>>].stripe # "refunded"
         /\ \A k \in Procs: On(k, "succeeded") /\ work[k].row = r => work[k].n \in Paid(r)
<1>1. \A k \in Procs: \A s \in work[k].todo: s.row # r
  BY DEF Refunding
<1>2. \A k \in Procs: WorkOK(work[k])
  BY DEF TypeInv, WorkInv
<1>3. ASSUME NEW k \in Procs, work[k].at \in {"credit", "mark"}, work[k].row = r PROVE FALSE
  BY <1>1, <1>2, <1>3 DEF WorkOK
<1>4. pay[r].status # "REFUNDED" /\ \A n \in Attempts: charge[<<r, n>>].stripe # "refunded"
  BY DEF Refunding
<1>5. ASSUME NEW k \in Procs, On(k, "succeeded"), work[k].row = r PROVE work[k].n \in Paid(r)
  <2>1. work[k].n \in Attempts
    BY <1>2, <1>5 DEF WorkOK, On, WithCharge
  <2>2. charge[<<r, work[k].n>>].stripe \in {"paid", "refunded"}
    BY <1>5 DEF Truth, Told
  <2> QED
    BY <1>4, <2>1, <2>2 DEF Paid
<1> QED
  BY <1>1, <1>3, <1>4, <1>5

\* What was not raced was not confirmed again.
LEMMA OnceOfRaced ==
  ASSUME TypeInv, OnceInv, NEW r \in Rows, r \notin raced
  PROVE  /\ \A h, k \in Procs: /\ work[h].at \in Charging /\ work[h].row = r
                               /\ work[k].at \in Charging /\ work[k].row = r
                               => h = k
         /\ \A h \in Procs: On(h, "charge") /\ work[h].row = r => Paid(r) = {}
         /\ \A m, n \in Paid(r): m = n
BY DEF OnceInv, TypeInv

\* A handler that charges r is alone with it.
LEMMA Alone ==
  ASSUME TypeInv, OnceInv, NEW r \in Rows, r \notin raced, Truth(r),
         NEW h \in Procs, work[h].at \in Charging, work[h].row = r
  PROVE  /\ ~ Refunding(r)
         /\ \A n \in Paid(r): n = work[h].n
         /\ \A k \in Procs: work[k].at \in Charging /\ work[k].row = r => k = h
         /\ On(h, "charge") => Paid(r) = {}
BY OnceOfRaced DEF Truth, Tries

\* The charge at Stripe.
LEMMA ChargeStripeTruth ==
  ASSUME TypeInv, OnceInv, NEW r \in Rows, r \notin raced, Truth(r),
         NEW h \in Procs, ChargeStripe(h), work[h].row = r
  PROVE  Truth(r)'
<1> USE DEF On
<1> DEFINE n == work[h].n
           Made(stripe, event) == [local |-> "PENDING", intent |-> FALSE, stripe |-> stripe, event |-> event]
<1>0. /\ work[h].at = "charge" /\ work[h].at \in Charging /\ WorkOK(work[h]) /\ UNCHANGED <<pay, returned>>
      /\ work \in [Procs -> WorkType] /\ work[h] \in WorkType
      /\ charge \in [Rows \X Attempts -> ChargeType]
  BY DEF ChargeStripe, Charging, TypeInv, WorkInv
<1>1. n \in Attempts /\ <<r, n>> \in Rows \X Attempts
  BY <1>0 DEF WorkOK, WithCharge
<1>2. /\ ~ Refunding(r) /\ Paid(r) = {}
      /\ \A k \in Procs: work[k].at \in Charging /\ work[k].row = r => k = h
  BY <1>0, Alone
<1>3. /\ \A k \in Procs: \A s \in work[k].todo: s.row # r
      /\ \A k \in Procs: ~ (work[k].at \in {"credit", "mark"} /\ work[k].row = r)
      /\ pay[r].status # "REFUNDED"
      /\ \A m \in Attempts: charge[<<r, m>>].stripe # "refunded"
      /\ \A k \in Procs: ~ (work[k].at = "succeeded" /\ work[k].row = r)
  BY <1>2, NotRefunded
<1>4. pay[r].status # "SUCCEEDED"
  BY <1>0 DEF Truth, Tries
<1>5. PICK at \in {"record", "recordFailure", "decline"}:
        /\ Goto(h, at)
        /\ \/ UNCHANGED charge /\ at = "decline"
           \/ at # "decline" /\ charge' = [charge EXCEPT ![<<r, n>>] = Made("paid", "succeeded")]
           \/ at = "recordFailure" /\ charge' = [charge EXCEPT ![<<r, n>>] = Made("declined", "failed")]
  BY DEF ChargeStripe
<1>6. /\ work'[h].at = at /\ work'[h].row = r /\ work'[h].n = n /\ work'[h].todo = work[h].todo
      /\ \A k \in Procs \ {h}: work'[k] = work[k]
  BY <1>0, <1>5 DEF Goto, WorkType
<1>7. /\ \A m \in Attempts \ {n}: charge'[<<r, m>>] = charge[<<r, m>>]
      /\ \/ charge'[<<r, n>>] = charge[<<r, n>>] /\ at = "decline"
         \/ at # "decline" /\ charge'[<<r, n>>] = Made("paid", "succeeded")
         \/ at = "recordFailure" /\ charge'[<<r, n>>] = Made("declined", "failed")
  BY <1>0, <1>1, <1>5
<1>8. \/ charge'[<<r, n>>] = charge[<<r, n>>] /\ at = "decline"
      \/ /\ at # "decline" /\ charge'[<<r, n>>].local = "PENDING" /\ charge'[<<r, n>>].intent = FALSE
         /\ charge'[<<r, n>>].stripe = "paid" /\ charge'[<<r, n>>].event = "succeeded"
      \/ /\ at = "recordFailure" /\ charge'[<<r, n>>].local = "PENDING" /\ charge'[<<r, n>>].intent = FALSE
         /\ charge'[<<r, n>>].stripe = "declined" /\ charge'[<<r, n>>].event = "failed"
  BY <1>7
<1>9. /\ \A m \in Paid(r)': m = n
      /\ \A m \in Attempts: m \in Paid(r)' <=> charge'[<<r, m>>].stripe = "paid"
      /\ \A m \in Attempts: charge'[<<r, m>>].stripe # "refunded"
      /\ charge[<<r, n>>].stripe # "paid"
  BY <1>1, <1>2, <1>3, <1>7, <1>8 DEF Paid
<1>10. /\ \A k \in Procs: \A s \in work'[k].todo: s.row # r
       /\ \A k \in Procs: ~ (work'[k].at \in {"credit", "mark", "succeeded"} /\ work'[k].row = r)
       /\ \A k \in Procs: work'[k].at \in Charging /\ work'[k].row = r => k = h
  BY <1>2, <1>3, <1>6
<1>11. ~ Refunding(r)'
  BY <1>0, <1>3, <1>9, <1>10 DEF Refunding
<1>12. Bills(r)'
  <2>1. \A m \in Attempts: charge[<<r, m>>].local # "REFUNDED"
    BY <1>3 DEF Truth, Bills
  <2> QED
    BY <1>7, <1>8, <1>9, <2>1 DEF Truth, Bills, Paid
<1>13. Tries(r)'
  <2> SUFFICES /\ \A m \in Paid(r)': m = n
               /\ at = "record" => n \in Paid(r)'
    BY <1>0, <1>4, <1>5, <1>6, <1>10, <1>11 DEF Tries
  <2> QED
    BY <1>1, <1>8, <1>9
<1>14. Settled(r)'
  <2>1. ASSUME NEW m \in Paid(r)' PROVE Announced(r)'
    <3>1. m \in Attempts /\ m = n /\ charge'[<<r, m>>].stripe = "paid"
      BY <1>9, <2>1 DEF Paid
    <3>2. charge'[<<r, n>>].event = "succeeded"
      BY <1>8, <1>9, <3>1
    <3> QED
      BY <1>1, <3>2 DEF Announced
  <2> QED
    BY <1>0, <1>3, <1>4, <2>1 DEF Settled
<1> QED
  BY <1>10, <1>11, <1>12, <1>13, <1>14 DEF Truth, Told, Shut, Noted, Returning

\* What is known of r while handler h charges it.
LEMMA ChargingTruth ==
  ASSUME TypeInv, OnceInv, NEW r \in Rows, r \notin raced, Truth(r),
         NEW h \in Procs, work[h].at \in Charging, work[h].row = r
  PROVE  /\ ~ Refunding(r)
         /\ \A n \in Paid(r): n = work[h].n
         /\ \A k \in Procs: work[k].at \in Charging /\ work[k].row = r => k = h
         /\ \A k \in Procs: \A s \in work[k].todo: s.row # r
         /\ \A k \in Procs: ~ (work[k].at \in {"credit", "mark"} /\ work[k].row = r)
         /\ pay[r].status # "REFUNDED"
         /\ \A n \in Attempts: charge[<<r, n>>].stripe # "refunded"
         /\ \A k \in Procs: work[k].at = "succeeded" /\ work[k].row = r => work[k].n \in Paid(r)
BY Alone, NotRefunded DEF On

\* A step of handler h with share r that gives no share to refund.
LEMMA ChargingKept ==
  ASSUME TypeInv, NEW r \in Rows, NEW h \in Procs, NEW w, work' = [work EXCEPT ![h] = w],
         w.at \notin {"credit", "mark"}, w.todo = work[h].todo \/ w.todo = {},
         \A k \in Procs: \A s \in work[k].todo: s.row # r,
         \A k \in Procs: ~ (work[k].at \in {"credit", "mark"} /\ work[k].row = r)
  PROVE  Noted(r)' /\ Returning(r)' /\ \A k \in Procs: \A s \in work'[k].todo: s.row # r
<1>1. work'[h] = w /\ \A k \in Procs \ {h}: work'[k] = work[k]
  BY DEF TypeInv, WorkInv
<1>2. /\ \A k \in Procs: \A s \in work'[k].todo: s.row # r
      /\ \A k \in Procs: ~ (work'[k].at \in {"credit", "mark"} /\ work'[k].row = r)
  BY <1>1
<1> QED
  BY <1>2 DEF Noted, Returning

\* The answer that is written down.
LEMMA ChargeUpdateTruth ==
  ASSUME TypeInv, OnceInv, NEW r \in Rows, r \notin raced', r \notin raced, Truth(r),
         NEW h \in Procs, ChargeUpdate(h), work[h].row = r
  PROVE  Truth(r)'
<1> USE DEF On
<1> DEFINE n == work[h].n
<1>0. /\ work[h].at \in {"record", "recordFailure"} /\ work[h].at \in Charging /\ UNCHANGED <<pay, returned>>
      /\ work \in [Procs -> WorkType] /\ work[h] \in WorkType /\ WorkOK(work[h])
      /\ charge \in [Rows \X Attempts -> ChargeType]
  BY DEF ChargeUpdate, Charging, TypeInv, WorkInv
<1>1. n \in Attempts /\ <<r, n>> \in Rows \X Attempts /\ charge[<<r, n>>] \in ChargeType
  BY <1>0 DEF WorkOK, WithCharge
<1>2. /\ ~ Refunding(r)
      /\ \A m \in Paid(r): m = n
      /\ \A k \in Procs: work[k].at \in Charging /\ work[k].row = r => k = h
      /\ \A k \in Procs: \A s \in work[k].todo: s.row # r
      /\ \A k \in Procs: ~ (work[k].at \in {"credit", "mark"} /\ work[k].row = r)
      /\ pay[r].status # "REFUNDED"
      /\ \A m \in Attempts: charge[<<r, m>>].stripe # "refunded"
      /\ \A k \in Procs: work[k].at = "succeeded" /\ work[k].row = r => work[k].n \in Paid(r)
  BY <1>0, ChargingTruth
<1>3. PICK at \in {"update", "decline"}, s \in {"SUCCEEDED", "FAILED"}, i \in BOOLEAN:
        /\ Goto(h, at)
        /\ charge' = [charge EXCEPT ![<<r, n>>] = [@ EXCEPT !.local = s, !.intent = i]]
        /\ s = "SUCCEEDED" => work[h].at = "record"
        /\ s = "FAILED" => at = "decline" /\ (i => charge[<<r, n>>].stripe = "declined")
  BY DEF ChargeUpdate
<1> DEFINE w == [work[h] EXCEPT !.at = at]
           c == [charge[<<r, n>>] EXCEPT !.local = s, !.intent = i]
<1>4. /\ w.at = at /\ w.row = r /\ w.n = n /\ w.todo = work[h].todo
      /\ work' = [work EXCEPT ![h] = w]
      /\ c.local = s /\ c.intent = i /\ c.event = charge[<<r, n>>].event /\ c.stripe = charge[<<r, n>>].stripe
      /\ charge' = [charge EXCEPT ![<<r, n>>] = c]
  BY <1>0, <1>1, <1>3 DEF Goto, WorkType, ChargeType
<1> HIDE DEF w, c
<1>5. /\ work'[h] = w /\ \A k \in Procs \ {h}: work'[k] = work[k]
      /\ charge'[<<r, n>>] = c /\ \A m \in Attempts \ {n}: charge'[<<r, m>>] = charge[<<r, m>>]
  BY <1>0, <1>1, <1>4
<1>6. Paid(r)' = Paid(r)
  BY <1>4, <1>5 DEF Paid
<1>7. Noted(r)' /\ Returning(r)' /\ \A k \in Procs: \A t \in work'[k].todo: t.row # r
  BY <1>2, <1>4, ChargingKept
<1>14. \A m \in Attempts: charge'[<<r, m>>].stripe = charge[<<r, m>>].stripe
  BY <1>4, <1>5
<1>8. ~ Refunding(r)'
  BY <1>0, <1>2, <1>7, <1>14 DEF Refunding
<1>9. s = "SUCCEEDED" => charge[<<r, n>>].stripe = "paid"
  BY <1>0, <1>3 DEF Truth, Tries, Paid
<1>10. Bills(r)'
  <2>1. \A m \in Attempts: charge'[<<r, m>>].event = charge[<<r, m>>].event
    BY <1>4, <1>5
  <2>2. \A m \in Attempts: charge[<<r, m>>].local # "REFUNDED"
    BY <1>2 DEF Truth, Bills
  <2>3. ASSUME NEW m \in Attempts
        PROVE  /\ charge'[<<r, m>>].local # "REFUNDED"
               /\ charge'[<<r, m>>].local = "SUCCEEDED" => charge[<<r, m>>].stripe = "paid"
               /\ charge[<<r, m>>].stripe = "paid" /\ charge'[<<r, m>>].intent => charge'[<<r, m>>].local = "SUCCEEDED"
    <3>1. CASE m = n
      BY <1>3, <1>4, <1>5, <1>9, <3>1
    <3>2. CASE m # n
      BY <1>5, <2>2, <3>2 DEF Truth, Bills
    <3> QED
      BY <3>1, <3>2
  <2> QED
    BY <1>2, <1>14, <2>1, <2>3 DEF Truth, Bills
<1>11. Told(r)'
  <2> SUFFICES ASSUME NEW k \in Procs, work'[k].at = "succeeded", work'[k].row = r
               PROVE  charge'[<<r, work'[k].n>>].stripe \in {"paid", "refunded"}
    BY DEF Told
  <2>1. k # h /\ work'[k] = work[k]
    BY <1>3, <1>4, <1>5
  <2>2. work[k].n \in Paid(r)
    BY <1>2, <2>1
  <2> QED
    BY <1>14, <2>1, <2>2 DEF Paid
<1>12. Tries(r)'
  <2>1. \A k \in Procs: work'[k].at \in Charging /\ work'[k].row = r => k = h
    BY <1>2, <1>5
  <2> QED
    BY <1>2, <1>3, <1>4, <1>5, <1>6, <1>8, <2>1 DEF Tries
<1>13. Settled(r)'
  <2>2. Announced(r) => Announced(r)'
    <3>1. \A m \in Attempts: charge'[<<r, m>>].event = charge[<<r, m>>].event
      BY <1>4, <1>5
    <3>2. \A k \in Procs: work[k].at = "succeeded" => work'[k] = work[k]
      BY <1>0, <1>5
    <3> QED
      BY <3>1, <3>2 DEF Announced
  <2> QED
    BY <1>0, <1>6, <2>2 DEF Truth, Settled
<1> QED
  BY <1>7, <1>8, <1>10, <1>11, <1>12, <1>13 DEF Truth, Shut

\* The answer that is applied to the row.
LEMMA ConfirmUpdateTruth ==
  ASSUME TypeInv, OnceInv, NEW r \in Rows, r \notin raced, Truth(r),
         NEW h \in Procs, ConfirmUpdate(h), work[h].row = r
  PROVE  Truth(r)'
<1> USE DEF On
<1> DEFINE n == work[h].n
<1>0. /\ work[h].at \in {"update", "decline"} /\ work[h].at \in Charging /\ UNCHANGED <<charge, returned>>
      /\ work[h] \in WorkType /\ WorkOK(work[h]) /\ pay \in [Rows -> PaymentType]
      /\ work' = [work EXCEPT ![h] = Idle] /\ work \in [Procs -> WorkType]
  BY DEF ConfirmUpdate, Charging, TypeInv, WorkInv, PayInv, Rest
<1>1. n \in 0..MaxAttempts /\ (work[h].at = "decline" => n \in Attempts)
  BY <1>0 DEF WorkOK, WithCharge, WorkType
<1>2. /\ ~ Refunding(r)
      /\ \A m \in Paid(r): m = n
      /\ \A k \in Procs: work[k].at \in Charging /\ work[k].row = r => k = h
      /\ \A k \in Procs: \A s \in work[k].todo: s.row # r
      /\ \A k \in Procs: ~ (work[k].at \in {"credit", "mark"} /\ work[k].row = r)
      /\ \A m \in Attempts: charge[<<r, m>>].stripe # "refunded"
  BY <1>0, ChargingTruth
<1>3. Idle.at = "idle" /\ Idle.todo = {} /\ NoCharge.stripe = "none"
  BY DEF Idle, NoCharge
<1>4. work'[h] = Idle /\ \A k \in Procs \ {h}: work'[k] = work[k]
  BY <1>0
<1>5. Noted(r)' /\ Returning(r)' /\ \A k \in Procs: \A t \in work'[k].todo: t.row # r
  BY <1>0, <1>2, <1>3, ChargingKept
<1>6. Paid(r)' = Paid(r) /\ \A m \in Paid(r): m \in Attempts /\ m # 0 /\ charge[<<r, m>>].stripe = "paid"
  BY <1>0, PaymentsAssumption DEF Paid, Attempts
<1>7. \/ /\ pay'[r].status = "SUCCEEDED" /\ \A m \in Paid(r): pay'[r].charge = m
      \/ /\ pay'[r].status = "FAILED"
         /\ Paid(r) # {} => pay'[r].charge # 0
  <2>1. CASE work[h].at = "update"
    <3>1. pay' = [pay EXCEPT ![r].status = "SUCCEEDED", ![r].charge = IF n = 0 THEN @ ELSE n]
      BY <2>1 DEF ConfirmUpdate
    <3>2. pay'[r].status = "SUCCEEDED" /\ (n # 0 => pay'[r].charge = n)
      BY <1>0, <3>1 DEF PaymentType
    <3> QED
      BY <1>2, <1>6, <3>2
  <2>2. CASE work[h].at = "decline"
    <3>1. pay' = [pay EXCEPT ![r].status = "FAILED", ![r].charge = IF charge[<<r, n>>] = NoCharge THEN 0 ELSE n]
      BY <2>2 DEF ConfirmUpdate
    <3>2. pay'[r].status = "FAILED" /\ (charge[<<r, n>>] # NoCharge => pay'[r].charge = n)
      BY <1>0, <3>1 DEF PaymentType
    <3>3. Paid(r) # {} => charge[<<r, n>>] # NoCharge /\ n # 0
      BY <1>2, <1>3, <1>6
    <3> QED
      BY <3>2, <3>3
  <2> QED
    BY <1>0, <2>1, <2>2
<1>8. ~ Refunding(r)'
  BY <1>0, <1>2, <1>5, <1>7 DEF Refunding
<1>9. Bills(r)'
  BY <1>0, <1>6 DEF Truth, Bills
<1>10. Told(r)'
  BY <1>0, <1>3, <1>4 DEF Truth, Told
<1>11. Tries(r)'
  BY <1>2, <1>3, <1>4 DEF Tries, Charging
<1>12. Settled(r)'
  BY <1>0, <1>6, <1>7 DEF Settled
<1> QED
  BY <1>5, <1>8, <1>9, <1>10, <1>11, <1>12 DEF Truth, Shut

\* Who charges r while an event is applied to it was answered.
LEMMA ToldTries ==
  ASSUME TypeInv, OnceInv, NEW r \in Rows, r \notin raced, Truth(r),
         NEW h \in Procs, work[h].at = "succeeded", work[h].row = r,
         NEW k \in Procs, work[k].at \in Charging, work[k].row = r
  PROVE  work[k].at # "charge"
<1>1. work[h].n \in Paid(r)
  BY ChargingTruth
<1> QED
  BY <1>1, Alone DEF On

\* A step that gives r a status, and of which a handler may come to rest.
LEMMA RowTruth ==
  ASSUME TypeInv, RowsInv, [Next]_vars, ~ reopened', NEW r \in Rows, Truth(r),
         UNCHANGED <<charge, returned>>,
         \A k \in Procs: work'[k] = work[k] \/ work'[k] = Idle,
         pay'[r].credit = pay[r].credit,
         pay'[r].status = "REFUNDED" => pay[r].status = "REFUNDED",
         \A k \in Procs: work[k].row = r /\ pay'[r].status = "SUCCEEDED" => work[k].at # "charge",
         Settled(r)'
  PROVE  Truth(r)'
<1> USE DEF On
<1>1. Idle.at = "idle" /\ Idle.todo = {}
  BY DEF Idle
<1>2. Paid(r)' = Paid(r) /\ charge' = charge /\ returned' = returned
  BY DEF Paid
<1>3. /\ \A k \in Procs: work'[k].at \in AtShare => work'[k] = work[k]
      /\ \A k \in Procs: \A s \in work'[k].todo: work'[k] = work[k]
  BY <1>1 DEF AtShare, Charging
<1>4. Refunding(r)' => Refunding(r)
  BY <1>2, <1>3 DEF Refunding
<1>5. Bills(r)' /\ Told(r)'
  BY <1>2, <1>3 DEF Truth, Bills, Told, AtShare
<1>6. Shut(r)'
  BY <1>4, ShutStays DEF Shut
<1>7. Noted(r)' /\ Returning(r)'
  BY <1>2, <1>3 DEF Truth, Noted, Returning, AtShare
<1>8. Tries(r)'
  <2> SUFFICES ASSUME NEW h \in Procs, work'[h].at \in Charging, work'[h].row = r
               PROVE  /\ \A n \in Paid(r): n = work[h].n
                      /\ ~ Refunding(r)'
                      /\ work[h].at = "charge" => pay'[r].status # "SUCCEEDED"
                      /\ work[h].at = "record" => work[h].n \in Paid(r)
    BY <1>2, <1>3 DEF Tries, AtShare
  <2>1. work'[h] = work[h]
    BY <1>3 DEF AtShare
  <2> QED
    BY <1>4, <2>1 DEF Truth, Tries
<1> QED
  BY <1>5, <1>6, <1>7, <1>8 DEF Truth

\* The event that is applied.
LEMMA ApplySuccessTruth ==
  ASSUME TypeInv, RowsInv, OnceInv, [Next]_vars, ~ reopened', NEW r \in Rows, r \notin raced', r \notin raced, Truth(r),
         NEW h \in Procs, ApplySuccess(h), work[h].row = r
  PROVE  Truth(r)'
<1> USE DEF On
<1> DEFINE n == work[h].n
<1>0. /\ work[h].at = "succeeded" /\ UNCHANGED <<charge, returned>>
      /\ WorkOK(work[h]) /\ pay \in [Rows -> PaymentType]
      /\ work' = [work EXCEPT ![h] = Idle] /\ work \in [Procs -> WorkType]
  BY DEF ApplySuccess, TypeInv, WorkInv, PayInv, Rest
<1>1. n \in Attempts /\ Named(r, n) = n
  BY <1>0 DEF WorkOK, WithCharge, ApplySuccess
<1>3. charge[<<r, n>>].stripe \in {"paid", "refunded"}
  BY <1>0 DEF Truth, Told
<1>4. \A k \in Procs: work'[k] = work[k] \/ work'[k] = Idle
  BY <1>0
<1>5. Paid(r)' = Paid(r) /\ \A m \in Paid(r): m = n
  <2>1. ASSUME NEW m \in Paid(r) PROVE m = n
    <3>1. charge[<<r, n>>].stripe = "paid"
      BY <1>1, <1>3, <2>1 DEF Truth, Bills
    <3>2. n \in Paid(r)
      BY <1>1, <3>1 DEF Paid
    <3> QED
      BY <2>1, <3>2, OnceOfRaced
  <2> QED
    BY <1>0, <2>1 DEF Paid
<1>6. /\ pay'[r].credit = pay[r].credit
      /\ \/ pay'[r].status = "SUCCEEDED" /\ pay'[r].charge = n /\ pay[r].status # "REFUNDED"
         \/ pay'[r].status = "REFUNDED" /\ pay[r].status = "REFUNDED"
  <2>1. CASE pay[r].status = "REFUNDED"
    BY <2>1 DEF ApplySuccess
  <2>2. CASE pay[r].status # "REFUNDED"
    <3>1. pay' = [pay EXCEPT ![r].status = "SUCCEEDED", ![r].charge = n]
      BY <1>1, <2>2 DEF ApplySuccess
    <3> QED
      BY <1>0, <2>2, <3>1 DEF PaymentType
  <2> QED
    BY <2>1, <2>2
<1>7. \A k \in Procs: work[k].row = r => work[k].at # "charge"
  BY <1>0, ToldTries DEF Charging
<1>8. Settled(r)'
  BY <1>0, <1>5, <1>6 DEF Truth, Settled
<1> QED
  BY <1>0, <1>4, <1>6, <1>7, <1>8, RowTruth

\* The event of a failed attempt keeps the books of its share right.
LEMMA ApplyFailureTruth ==
  ASSUME TypeInv, RowsInv, OnceInv, [Next]_vars, ~ reopened', NEW r \in Rows, Truth(r),
         NEW h \in Procs, ApplyFailure(h), work[h].row = r
  PROVE  Truth(r)'
<1> USE DEF On
<1> DEFINE n == Named(r, work[h].n)
<1>0. /\ work[h].at = "failed" /\ UNCHANGED <<charge, returned>>
      /\ WorkOK(work[h]) /\ pay \in [Rows -> PaymentType]
      /\ work' = [work EXCEPT ![h] = Idle] /\ work \in [Procs -> WorkType]
  BY DEF ApplyFailure, TypeInv, WorkInv, PayInv, Rest
<1>1. n # 0
  BY <1>0, PaymentsAssumption DEF WorkOK, WithCharge, Named, Attempts
<1>2. Paid(r)' = Paid(r)
  BY <1>0 DEF Paid
<1>3. \A k \in Procs: work'[k] = work[k] \/ work'[k] = Idle
  BY <1>0
<1>4. /\ pay'[r].credit = pay[r].credit
      /\ \/ pay'[r].status = "FAILED" /\ pay'[r].charge = n
         \/ pay'[r].status = "REFUNDED" /\ pay[r].status = "REFUNDED"
  <2>1. CASE pay[r].status = "REFUNDED"
    BY <2>1 DEF ApplyFailure
  <2>2. CASE pay[r].status # "REFUNDED"
    <3>1. pay' = [pay EXCEPT ![r].status = "FAILED", ![r].charge = n]
      BY <2>2 DEF ApplyFailure
    <3> HIDE DEF n
    <3> QED
      BY <1>0, <3>1 DEF PaymentType
  <2> QED
    BY <2>1, <2>2
<1> HIDE DEF n
<1>5. Settled(r)'
  BY <1>0, <1>1, <1>2, <1>4 DEF Truth, Settled
<1> QED
  BY <1>0, <1>3, <1>4, <1>5, RowTruth

\* A share that is found paid by the charge it names.
LEMMA ConfirmSettledTruth ==
  ASSUME TypeInv, RowsInv, OnceInv, [Next]_vars, ~ reopened', NEW r \in Rows, r \notin raced, Truth(r),
         NEW u \in Users, ConfirmSettled(u), r = <<group.quote, u>>
  PROVE  Truth(r)'
<1>0. UNCHANGED <<charge, returned, work>> /\ pay \in [Rows -> PaymentType] /\ pay[r] \in PaymentType
  BY DEF ConfirmSettled, TypeInv, PayInv
<1>1. CASE UNCHANGED pay
  <2>1. Settled(r)'
    BY <1>0, <1>1 DEF Truth, Settled, Paid, Announced, On
  <2>2. \A k \in Procs: work[k].row = r /\ pay'[r].status = "SUCCEEDED" => work[k].at # "charge"
    BY <1>1 DEF Truth, Tries, Charging, On
  <2> QED
    BY <1>0, <1>1, <2>1, <2>2, RowTruth
<1>2. CASE /\ Outcome(r) = "SUCCEEDED"
           /\ pay' = [pay EXCEPT ![r].status = "SUCCEEDED"]
  <2> DEFINE n == pay[r].charge
  <2>1. n \in Attempts /\ charge[<<r, n>>].local = "SUCCEEDED"
    BY <1>0, <1>2, PaymentsAssumption DEF Outcome, PaymentType, Attempts
  <2>2. n \in Paid(r)
    BY <2>1 DEF Truth, Bills, Paid
  <2>3. pay'[r].status = "SUCCEEDED" /\ pay'[r].charge = n /\ pay'[r].credit = pay[r].credit
    BY <1>0, <1>2 DEF PaymentType
  <2> HIDE DEF n
  <2>4. Paid(r)' = Paid(r) /\ \A m \in Paid(r): m = n
    BY <1>0, <2>2, OnceOfRaced DEF Paid
  <2>5. Settled(r)'
    BY <1>0, <2>3, <2>4 DEF Settled
  <2>6. \A k \in Procs: work[k].row = r => work[k].at # "charge"
    BY <2>2, Alone DEF On, Charging
  <2> QED
    BY <1>0, <2>3, <2>5, <2>6, RowTruth
<1> QED
  BY <1>1, <1>2 DEF ConfirmSettled

\* The event that arrives.
LEMMA ReceiveEventTruth ==
  ASSUME TypeInv, RowsInv, OnceInv, [Next]_vars, ~ reopened', NEW r \in Rows, r \notin raced, Truth(r),
         NEW h \in Procs, NEW n \in Attempts, ReceiveEvent(h, r, n)
  PROVE  Truth(r)'
<1> USE DEF On
<1> DEFINE c == charge[<<r, n>>]
           known == c.local \in {"SUCCEEDED", "REFUNDED"}
           l == IF known THEN c.local ELSE IF c.event = "succeeded" THEN "SUCCEEDED" ELSE "FAILED"
           d == [c EXCEPT !.event = "none", !.local = l]
           w == [Idle EXCEPT !.at = c.event, !.row = r, !.n = n]
<1>0. /\ work[h].at = "idle" /\ UNCHANGED <<pay, returned>> /\ c.event # "none"
      /\ work \in [Procs -> WorkType] /\ charge \in [Rows \X Attempts -> ChargeType] /\ c \in ChargeType
  BY DEF ReceiveEvent, TypeInv, WorkInv
<1>1. d.event = "none" /\ d.local = l /\ d.stripe = c.stripe /\ d.intent = c.intent
  BY <1>0 DEF ChargeType
<1>2. charge' = [charge EXCEPT ![<<r, n>>] = d]
  BY <1>0 DEF ReceiveEvent
<1>3. w.at = c.event /\ w.row = r /\ w.n = n /\ w.todo = {}
  BY DEF Idle
<1>4. \/ UNCHANGED work /\ (pay[r].status = "SUCCEEDED" \/ c.event = "failed")
      \/ work' = [work EXCEPT ![h] = w]
  BY DEF ReceiveEvent
<1> HIDE DEF d, w
<1>5. charge'[<<r, n>>] = d /\ \A m \in Attempts \ {n}: charge'[<<r, m>>] = charge[<<r, m>>]
  BY <1>0, <1>2
<1>6. /\ \A k \in Procs \ {h}: work'[k] = work[k]
      /\ \/ work'[h] = work[h] /\ (pay[r].status = "SUCCEEDED" \/ c.event = "failed")
         \/ work'[h] = w
  BY <1>0, <1>4
<1>7. /\ c.event \in {"succeeded", "failed"}
      /\ c.event = "failed" => c.stripe # "paid"
      /\ c.event = "succeeded" => c.stripe \in {"paid", "refunded"}
      /\ c.stripe = "refunded" <=> c.local = "REFUNDED"
      /\ c.local = "SUCCEEDED" => c.stripe = "paid"
      /\ c.stripe = "paid" /\ c.intent => c.local = "SUCCEEDED"
  BY <1>0 DEF ChargeType, Truth, Bills
\* What is written follows what Stripe holds.
<1>8. /\ c.local = "SUCCEEDED" => l = "SUCCEEDED"
      /\ l = "SUCCEEDED" => c.stripe = "paid"
      /\ c.stripe = "refunded" <=> l = "REFUNDED"
      /\ c.stripe = "paid" /\ c.intent => l = "SUCCEEDED"
  BY <1>7
<1> HIDE DEF l, known, c
<1>9. /\ \A m \in Attempts: charge'[<<r, m>>].stripe = charge[<<r, m>>].stripe
      /\ \A m \in Attempts: charge'[<<r, m>>].event \in {"none", charge[<<r, m>>].event}
  BY <1>1, <1>5, <1>8 DEF c
<1>10. Paid(r)' = Paid(r) /\ \A m \in Paid(r): m \in Attempts
  BY <1>9 DEF Paid
<1>11. \A k \in Procs: work'[k] = work[k] \/ (k = h /\ work'[k] = w)
  BY <1>6
<1>12. \A k \in Procs: \A s \in work'[k].todo: s \in work[k].todo
  BY <1>3, <1>11
<1>13. Refunding(r)' => Refunding(r)
  BY <1>0, <1>9, <1>12 DEF Refunding
<1>14. Bills(r)'
  BY <1>1, <1>5, <1>8, <1>9, <1>10 DEF Truth, Bills, c
<1>15. Told(r)'
  <2> SUFFICES ASSUME NEW k \in Procs, work'[k].at = "succeeded", work'[k].row = r
               PROVE  charge'[<<r, work'[k].n>>].stripe \in {"paid", "refunded"}
    BY DEF Told
  <2>1. CASE work'[k] = work[k]
    <3>1. work[k].n \in Attempts
      BY <2>1 DEF TypeInv, WorkInv, WorkOK, WithCharge
    <3>2. charge[<<r, work[k].n>>].stripe \in {"paid", "refunded"}
      BY <2>1 DEF Truth, Told
    <3> QED
      BY <1>9, <2>1, <3>1, <3>2
  <2>2. CASE k = h /\ work'[k] = w
    BY <1>1, <1>3, <1>5, <1>7, <1>8, <2>2
  <2> QED
    BY <1>11, <2>1, <2>2
<1>16. Tries(r)'
  <2> SUFFICES ASSUME NEW k \in Procs, work'[k].at \in Charging, work'[k].row = r
               PROVE  /\ \A m \in Paid(r): m = work'[k].n
                      /\ ~ Refunding(r)'
                      /\ work'[k].at = "charge" => pay[r].status # "SUCCEEDED"
                      /\ work'[k].at = "record" => work'[k].n \in Paid(r)
    BY <1>0, <1>10 DEF Tries
  <2>1. work'[k] = work[k]
    BY <1>3, <1>7, <1>11 DEF Charging
  <2> QED
    BY <1>13, <2>1 DEF Truth, Tries
<1>17. Shut(r)'
  BY <1>13, ShutStays DEF Shut
<1>18. Noted(r)'
  BY <1>0, <1>9, <1>10, <1>12 DEF Truth, Noted
<1>19. Returning(r)'
  <2>1. \A k \in Procs: work'[k].at \in {"credit", "mark"} => work'[k] = work[k]
    BY <1>3, <1>7, <1>11
  <2> QED
    BY <1>0, <1>10, <2>1 DEF Truth, Returning
<1>20. Settled(r)'
  <2>1. Announced(r) /\ pay[r].status # "SUCCEEDED" => Announced(r)'
    <3>1. ASSUME NEW m \in Attempts, charge[<<r, m>>].event = "succeeded", pay[r].status # "SUCCEEDED" PROVE Announced(r)'
      <4>1. CASE m # n
        BY <1>5, <3>1, <4>1 DEF Announced
      <4>2. CASE m = n
        <5>1. c.event = "succeeded"
          BY <3>1, <4>2 DEF c
        <5>2. work'[h].at = "succeeded" /\ work'[h].row = r
          BY <1>3, <1>6, <3>1, <5>1
        <5> QED
          BY <5>2 DEF Announced
      <4> QED
        BY <4>1, <4>2
    <3>2. ASSUME NEW k \in Procs, work[k].at = "succeeded", work[k].row = r PROVE Announced(r)'
      BY <1>0, <1>6, <3>2 DEF Announced
    <3> QED
      BY <3>1, <3>2 DEF Announced
  <2> QED
    BY <1>0, <1>9, <1>10, <2>1 DEF Truth, Settled
<1> QED
  BY <1>14, <1>15, <1>16, <1>17, <1>18, <1>19, <1>20 DEF Truth

\* Nobody charges a share that is being refunded.
LEMMA RefundingAlone ==
  ASSUME NEW r \in Rows, Truth(r), Refunding(r), NEW k \in Procs, work[k].row = r
  PROVE  work[k].at \notin Charging
BY DEF Truth, Tries

\* A share is refunded only when it cannot be confirmed any more.
LEMMA SelectedShut ==
  ASSUME TypeInv, RowsInv, BookingInv, SelectInv, ~ reopened, NEW r \in Rows,
         NEW h \in Procs, NEW rows, NEW rest, r \in rows, Selected(h, rows, rest)
  PROVE  ~ Confirmable(r[1])
<1>1. CASE On(h, "select") /\ rows = {work[h].quote} \X Users
  <2>1. r[1] = work[h].quote
    BY <1>1 DEF Rows
  <2>2. quote[r[1]] \in {"SUPERSEDED", "EXPIRED", "CONSUMED"}
    BY <1>1, <2>1 DEF SelectInv
  <2> QED
    BY <2>2 DEF Confirmable
<1>2. CASE On(h, "selectAll") \/ work[h].left # {}
  <2>1. Closed
    BY <1>2 DEF BookingInv, On
  <2>2. group.status \in RideActive \cup Final
    BY <2>1 DEF Closed, BookingInv
  <2>3. ~ Stays
    BY <2>2 DEF Stays, Configurable, RideActive, Final
  <2> QED
    BY <2>3 DEF Confirmable
<1> QED
  BY <1>1, <1>2 DEF Selected

\* The rows that are read for a refund.
LEMMA SelectTruth ==
  ASSUME TypeInv, RowsInv, BookingInv, SelectInv, [Next]_vars, ~ reopened, ~ reopened',
         NEW r \in Rows, r \notin raced', r \notin raced, Truth(r),
         NEW h \in Procs, NEW rows, NEW rest, r \in rows, Select(h, rows, rest), Selected(h, rows, rest),
         UNCHANGED <<pay, charge, returned>>
  PROVE  Truth(r)'
<1> USE DEF On
<1> DEFINE todo == {k \in rows: Refundable(k)}
           w == IF todo = {} THEN Onward(rest)
                ELSE [Idle EXCEPT !.at = "refund", !.todo = {Snapshot(k): k \in todo}, !.left = rest]
<1>0. /\ work[h].at \in {"select", "selectAll", "selectEach"}
      /\ work' = [work EXCEPT ![h] = w] /\ work \in [Procs -> WorkType]
  BY DEF Selected, Select, TypeInv, WorkInv
<1>1. \A k: Snapshot(k).row = k /\ Snapshot(k).charge = pay[k].charge /\ Snapshot(k).credit = pay[k].credit
  BY DEF Snapshot
<1>2. w.at \in {"idle", "selectEach", "refund"} /\ \A s \in w.todo: s = Snapshot(s.row) /\ s.row \in todo
  <2>1. Onward(rest).at \in {"idle", "selectEach"} /\ Onward(rest).todo = {}
    BY DEF Onward, Idle
  <2>2. CASE todo = {}
    BY <2>1, <2>2
  <2>3. CASE todo # {}
    <3>1. w.at = "refund" /\ w.todo = {Snapshot(k): k \in todo}
      BY <2>3 DEF Idle
    <3> HIDE DEF w, todo
    <3> QED
      BY <1>1, <3>1
  <2> QED
    BY <2>2, <2>3
<1>3. r \in todo => Refundable(r) /\ ~ Unsettled(r)
  BY DEF Select
<1>4. \A s \in w.todo: s.row = r => Refundable(r)
  BY <1>2
<1> HIDE DEF w, todo
<1>5. work'[h] = w /\ \A k \in Procs \ {h}: work'[k] = work[k]
  BY <1>0
<1>6. CASE ~ Refundable(r)
  <2>1. \A k \in Procs: Apart(k, r)
    BY <1>0, <1>2, <1>4, <1>6, ApartIf DEF AtShare, Charging
  <2>2. Aside(r)
    BY <2>1 DEF Aside, Rests
  <2> QED
    BY <2>2, AsideStep
<1>7. CASE Refundable(r)
  <2>1. ~ Unsettled(r)
    BY <1>3, <1>7 DEF todo
  <2>2. /\ \A k \in Procs: work[k].row = r => work[k].at \notin Charging
        /\ \A n \in Paid(r): n \in Attempts /\ pay[r].status = "SUCCEEDED"
    BY <2>1 DEF Unsettled, Charging, Paid
  <2>3. Paid(r)' = Paid(r)
    BY DEF Paid
  <2>4. ~ Confirmable(r[1]) /\ quote[r[1]] # "none" /\ r[1] \in Quotes
    <3>1. pay[r].status # "none"
      BY <1>7 DEF Refundable
    <3> QED
      BY <3>1, SelectedShut DEF RowsInv, Rows
  <2>5. Shut(r)'
    <3>1. ASSUME NEW q \in Quotes, quote[q] # "none", ~ Confirmable(q) PROVE ~ Confirmable(q)'
      BY <3>1, ConfirmableStays
    <3> QED
      BY <2>4, <3>1 DEF Shut
  <2>6. Bills(r)'
    BY <2>3 DEF Truth, Bills
  <2>7. \A k \in Procs: work'[k].at \in AtShare => work'[k] = work[k]
    BY <1>2, <1>5 DEF AtShare, Charging
  <2>8. Told(r)' /\ Tries(r)' /\ Returning(r)'
    <3>1. \A k \in Procs: work'[k].row = r => work'[k].at \notin Charging
      BY <2>2, <2>7 DEF AtShare
    <3>2. Told(r)'
      BY <2>7 DEF Truth, Told, AtShare
    <3>3. Tries(r)'
      BY <3>1 DEF Tries
    <3>4. Returning(r)'
      BY <2>3, <2>7 DEF Truth, Returning, AtShare
    <3> QED
      BY <3>2, <3>3, <3>4
  <2>9. Noted(r)'
    <3> SUFFICES ASSUME NEW k \in Procs, NEW s \in work'[k].todo, s.row = r
                 PROVE  /\ \A n \in Paid(r): s.charge = n
                        /\ pay[r].credit > 0 => s.credit > 0
      BY <2>3 DEF Noted
    <3>1. CASE work'[k] = work[k]
      BY <3>1 DEF Truth, Noted
    <3>2. CASE k = h
      <4>1. s.charge = pay[r].charge /\ s.credit = pay[r].credit
        BY <1>1, <1>2, <1>5, <3>2
      <4> QED
        BY <2>2, <4>1 DEF Truth, Settled
    <3> QED
      BY <1>5, <3>1, <3>2
  <2>10. Settled(r)'
    <3>1. Announced(r)' <=> Announced(r)
      <4>1. \A k \in Procs: work'[k].at = "succeeded" \/ work[k].at = "succeeded" => work'[k] = work[k]
        BY <1>0, <1>5, <2>7 DEF AtShare
      <4> QED
        BY <4>1 DEF Announced
    <3> QED
      BY <2>3, <3>1 DEF Truth, Settled
  <2> QED
    BY <2>5, <2>6, <2>8, <2>9, <2>10 DEF Truth
<1> QED
  BY <1>6, <1>7

\* The charge that is refunded.
LEMMA RefundChargeTruth ==
  ASSUME TypeInv, RowsInv, OnceInv, [Next]_vars, ~ reopened', NEW r \in Rows, r \notin raced, Truth(r),
         NEW h \in Procs, NEW s \in work[h].todo, s.row = r, RefundCharge(h, s)
  PROVE  Truth(r)'
<1> USE DEF On
<1> DEFINE n == s.charge
           collected == n # 0 /\ charge[<<r, n>>].local = "SUCCEEDED"
           nothing == n = 0 \/ (charge[<<r, n>>].intent /\ charge[<<r, n>>].local # "SUCCEEDED")
<1>0. /\ work[h].at = "refund" /\ UNCHANGED <<pay, returned>>
      /\ work \in [Procs -> WorkType] /\ work[h] \in WorkType /\ charge \in [Rows \X Attempts -> ChargeType]
      /\ s \in SnapshotType
  BY DEF RefundCharge, TypeInv, WorkInv, WorkType
<1>1. /\ Refunding(r)
      /\ \A k \in Procs: work[k].row = r => work[k].at \notin Charging
  <2>1. Refunding(r)
    BY DEF Refunding
  <2> QED
    BY <2>1, RefundingAlone
<1>2. \A m \in Paid(r): n = m /\ m \in Attempts /\ m # 0
  BY PaymentsAssumption DEF Truth, Noted, Paid, Attempts
<1>3. PICK at \in {"credit", "creditOnly", "skip"}:
        /\ Take(h, at, s)
        /\ \/ UNCHANGED charge /\ at # "credit"
           \/ UNCHANGED charge /\ at = "credit" /\ nothing
           \/ /\ collected
              /\ charge' = [charge EXCEPT ![<<r, n>>].local = "REFUNDED", ![<<r, n>>].stripe = "refunded"]
  BY DEF RefundCharge
<1> DEFINE w == [work[h] EXCEPT !.at = at, !.row = r]
<1>4. /\ w.at = at /\ w.row = r /\ w.todo = work[h].todo
      /\ work' = [work EXCEPT ![h] = w]
  BY <1>0, <1>3 DEF Take, WorkType
<1> HIDE DEF w
<1>5. work'[h] = w /\ \A k \in Procs \ {h}: work'[k] = work[k]
  BY <1>0, <1>4
<1>6. \/ (\A m \in Attempts: charge'[<<r, m>>] = charge[<<r, m>>]) /\ (at = "credit" => nothing)
      \/ /\ n \in Attempts /\ charge[<<r, n>>].stripe = "paid"
         /\ charge'[<<r, n>>].local = "REFUNDED" /\ charge'[<<r, n>>].stripe = "refunded"
         /\ charge'[<<r, n>>].event = charge[<<r, n>>].event
         /\ \A m \in Attempts \ {n}: charge'[<<r, m>>] = charge[<<r, m>>]
  <2>1. CASE UNCHANGED charge /\ (at # "credit" \/ nothing)
    BY <2>1
  <2>2. CASE /\ collected
             /\ charge' = [charge EXCEPT ![<<r, n>>].local = "REFUNDED", ![<<r, n>>].stripe = "refunded"]
    <3>1. n \in Attempts /\ <<r, n>> \in Rows \X Attempts
      BY <1>0, <2>2, PaymentsAssumption DEF SnapshotType, Attempts
    <3>2. charge[<<r, n>>].stripe = "paid" /\ charge[<<r, n>>] \in ChargeType
      BY <1>0, <2>2, <3>1 DEF Truth, Bills
    <3> DEFINE c == [charge[<<r, n>>] EXCEPT !.local = "REFUNDED", !.stripe = "refunded"]
    <3>3. c.local = "REFUNDED" /\ c.stripe = "refunded" /\ c.event = charge[<<r, n>>].event
      BY <3>2 DEF ChargeType
    <3>4. charge' = [charge EXCEPT ![<<r, n>>] = c]
      BY <1>0, <2>2, <3>1
    <3> HIDE DEF c
    <3> QED
      BY <1>0, <3>1, <3>2, <3>3, <3>4
  <2> QED
    BY <1>3, <2>1, <2>2
<1>7. /\ \A m \in Paid(r)': m \in Paid(r)
      /\ work'[h].at = "credit" => Paid(r)' = {}
      /\ \A m \in Attempts: charge'[<<r, m>>].stripe = "refunded" => Paid(r)' = {}
  <2>1. CASE (\A m \in Attempts: charge'[<<r, m>>] = charge[<<r, m>>]) /\ (at = "credit" => nothing)
    <3>1. Paid(r)' = Paid(r)
      BY <2>1 DEF Paid
    <3>2. at = "credit" => Paid(r) = {}
      <4>1. ASSUME NEW m \in Paid(r), nothing PROVE FALSE
        <5>1. n = m /\ n \in Attempts /\ n # 0 /\ charge[<<r, n>>].stripe = "paid"
          BY <1>2, <4>1 DEF Paid
        <5> QED
          BY <4>1, <5>1 DEF Truth, Bills
      <4> QED
        BY <2>1, <4>1
    <3> QED
      BY <1>4, <1>5, <2>1, <3>1, <3>2 DEF Truth, Bills
  <2>2. CASE /\ n \in Attempts /\ charge[<<r, n>>].stripe = "paid"
             /\ charge'[<<r, n>>].stripe = "refunded"
             /\ \A m \in Attempts \ {n}: charge'[<<r, m>>] = charge[<<r, m>>]
    <3>1. ASSUME NEW m \in Attempts, charge'[<<r, m>>].stripe = "paid" PROVE FALSE
      <4>1. m # n
        BY <2>2, <3>1
      <4>2. charge[<<r, m>>].stripe = "paid"
        BY <2>2, <3>1, <4>1
      <4>3. m \in Paid(r)
        BY <4>2 DEF Paid
      <4> QED
        BY <1>2, <4>1, <4>3
    <3> QED
      BY <3>1 DEF Paid
  <2> QED
    BY <1>6, <2>1, <2>2
<1>8. Bills(r)'
  <2> SUFFICES ASSUME NEW m \in Attempts
               PROVE  /\ charge'[<<r, m>>].event = "failed" => charge'[<<r, m>>].stripe # "paid"
                      /\ charge'[<<r, m>>].event = "succeeded" => charge'[<<r, m>>].stripe \in {"paid", "refunded"}
                      /\ charge'[<<r, m>>].local = "SUCCEEDED" => charge'[<<r, m>>].stripe = "paid"
                      /\ charge'[<<r, m>>].stripe = "paid" /\ charge'[<<r, m>>].intent => charge'[<<r, m>>].local = "SUCCEEDED"
                      /\ charge'[<<r, m>>].stripe = "refunded" <=> charge'[<<r, m>>].local = "REFUNDED"
    BY <1>7 DEF Bills
  <2>1. CASE charge'[<<r, m>>] = charge[<<r, m>>]
    BY <2>1 DEF Truth, Bills
  <2>2. CASE charge'[<<r, m>>] # charge[<<r, m>>]
    BY <1>6, <2>2
  <2> QED
    BY <2>1, <2>2
<1>9. Told(r)'
  <2> SUFFICES ASSUME NEW k \in Procs, work'[k].at = "succeeded", work'[k].row = r
               PROVE  charge'[<<r, work'[k].n>>].stripe \in {"paid", "refunded"}
    BY DEF Told
  <2>1. work'[k] = work[k]
    BY <1>3, <1>4, <1>5
  <2>2. work[k].n \in Attempts
    BY <2>1 DEF TypeInv, WorkInv, WorkOK, WithCharge
  <2>3. charge[<<r, work[k].n>>].stripe \in {"paid", "refunded"}
    BY <2>1 DEF Truth, Told
  <2>4. CASE charge'[<<r, work[k].n>>] = charge[<<r, work[k].n>>]
    BY <2>1, <2>3, <2>4
  <2>5. CASE charge'[<<r, work[k].n>>] # charge[<<r, work[k].n>>]
    BY <1>6, <2>1, <2>2, <2>3, <2>5
  <2> QED
    BY <2>4, <2>5
<1>10. Tries(r)'
  <2>1. \A k \in Procs: work'[k].row = r => work'[k].at \notin Charging
    BY <1>1, <1>3, <1>4, <1>5 DEF Charging
  <2> QED
    BY <2>1 DEF Tries
<1>11. Shut(r)'
  BY <1>1, ShutStays DEF Shut
<1>12. Noted(r)'
  <2>1. \A k \in Procs: work'[k].todo = work[k].todo
    BY <1>4, <1>5
  <2>2. ASSUME NEW m \in Paid(r)' PROVE m \in Paid(r) /\ charge'[<<r, m>>] = charge[<<r, m>>]
    <3>1. m \in Paid(r) /\ m \in Attempts
      BY <1>7, <2>2 DEF Paid
    <3> QED
      BY <1>6, <1>7, <2>2, <3>1
  <2> QED
    BY <1>0, <2>1, <2>2 DEF Truth, Noted
<1>13. Returning(r)'
  <2> SUFFICES ASSUME NEW k \in Procs, work'[k].at \in {"credit", "mark"}, work'[k].row = r
               PROVE  Paid(r)' = {} /\ (work'[k].at = "mark" /\ pay[r].credit > 0 => r \in returned)
    BY <1>0 DEF Returning
  <2>1. CASE k = h
    BY <1>3, <1>4, <1>5, <1>7, <2>1
  <2>2. CASE k # h
    BY <1>5, <1>7, <2>2 DEF Truth, Returning
  <2> QED
    BY <2>1, <2>2
<1>14. Settled(r)'
  <2>1. \A m \in Attempts: charge'[<<r, m>>].event = charge[<<r, m>>].event
    BY <1>6
  <2>2. \A k \in Procs: work[k].at = "succeeded" => work'[k] = work[k]
    BY <1>0, <1>5
  <2>3. Announced(r) => Announced(r)'
    BY <2>1, <2>2 DEF Announced
  <2>4. ASSUME NEW m \in Paid(r)' PROVE m \in Paid(r) /\ charge'[<<r, m>>] = charge[<<r, m>>]
    <3>1. m \in Paid(r) /\ m \in Attempts
      BY <1>7, <2>4 DEF Paid
    <3> QED
      BY <1>6, <1>7, <2>4, <3>1
  <2>5. Paid(r) = {} => Paid(r)' = {}
    BY <2>4
  <2> QED
    BY <1>0, <2>3, <2>4, <2>5 DEF Truth, Settled
<1> QED
  BY <1>8, <1>9, <1>10, <1>11, <1>12, <1>13, <1>14 DEF Truth

\* The credits that are returned.
LEMMA RefundCreditTruth ==
  ASSUME TypeInv, RowsInv, OnceInv, [Next]_vars, ~ reopened', NEW r \in Rows, r \notin raced, Truth(r),
         NEW h \in Procs, work[h].row = r, RefundCredit(h)
  PROVE  Truth(r)'
<1> USE DEF On
<1> DEFINE to == IF work[h].at = "credit" THEN "mark" ELSE "skip"
<1>0. /\ work[h].at \in {"credit", "creditOnly"} /\ UNCHANGED <<pay, charge>> /\ Goto(h, to)
      /\ work \in [Procs -> WorkType] /\ work[h] \in WorkType /\ WorkOK(work[h])
  BY DEF RefundCredit, TypeInv, WorkInv
<1> DEFINE w == [work[h] EXCEPT !.at = to]
<1>1. /\ w.at = to /\ w.row = r /\ w.todo = work[h].todo
      /\ work' = [work EXCEPT ![h] = w]
  BY <1>0 DEF Goto, WorkType
<1> HIDE DEF w
<1>2. work'[h] = w /\ \A k \in Procs \ {h}: work'[k] = work[k]
  BY <1>0, <1>1
<1>3. Taken(h) \in work[h].todo /\ Taken(h).row = r
  <2>1. \E s \in work[h].todo: s.row = work[h].row
    BY <1>0 DEF WorkOK
  <2> QED
    BY <2>1 DEF Taken
<1>4. /\ Refunding(r)
      /\ \A k \in Procs: work[k].row = r => work[k].at \notin Charging
  <2>1. Refunding(r)
    BY <1>3 DEF Refunding
  <2> QED
    BY <2>1, RefundingAlone
<1>5. pay[r].credit > 0 => r \in returned'
  <2>1. pay[r].credit > 0 => Taken(h).credit > 0
    BY <1>3 DEF Truth, Noted
  <2> QED
    BY <1>3, <2>1 DEF RefundCredit
<1>6. Paid(r)' = Paid(r) /\ charge' = charge /\ pay' = pay /\ returned \subseteq returned'
  BY <1>0 DEF RefundCredit, Paid
<1>7. /\ \A k \in Procs: work'[k].todo = work[k].todo
      /\ \A k \in Procs: work'[k] = work[k] \/ (k = h /\ work'[k].at \in {"mark", "skip"})
      /\ work'[h].at = "mark" => work[h].at = "credit"
      /\ \A k \in Procs: work'[k].row = work[k].row
  BY <1>1, <1>2
<1>8. Bills(r)'
  BY <1>6 DEF Truth, Bills
<1>9. Told(r)'
  BY <1>6, <1>7 DEF Truth, Told
<1>10. Tries(r)'
  <2>1. \A k \in Procs: work'[k].row = r => work'[k].at \notin Charging
    BY <1>4, <1>7 DEF Charging
  <2> QED
    BY <2>1 DEF Tries
<1>11. Shut(r)'
  BY <1>4, ShutStays DEF Shut
<1>12. Noted(r)'
  BY <1>6, <1>7 DEF Truth, Noted
<1>13. Returning(r)'
  <2> SUFFICES ASSUME NEW k \in Procs, work'[k].at \in {"credit", "mark"}, work'[k].row = r
               PROVE  Paid(r) = {} /\ (work'[k].at = "mark" /\ pay[r].credit > 0 => r \in returned')
    BY <1>6 DEF Returning
  <2>1. CASE work'[k] = work[k]
    BY <1>6, <2>1 DEF Truth, Returning
  <2>2. CASE k = h
    BY <1>5, <1>7, <2>2 DEF Truth, Returning
  <2> QED
    BY <1>7, <2>1, <2>2
<1>14. Settled(r)'
  <2>1. Announced(r) => Announced(r)'
    BY <1>0, <1>6, <1>7 DEF Announced
  <2> QED
    BY <1>6, <2>1 DEF Truth, Settled
<1> QED
  BY <1>8, <1>9, <1>10, <1>11, <1>12, <1>13, <1>14 DEF Truth

\* What becomes of a handler that is done with a row.
LEMMA DoneWork ==
  ASSUME TypeInv, NEW h \in Procs, Done(h)
  PROVE  /\ \A k \in Procs \ {h}: work'[k] = work[k]
         /\ work'[h].at \in {"idle", "selectEach", "refund"} /\ work'[h].todo \subseteq work[h].todo
<1> DEFINE rest == {s \in work[h].todo: s.row # work[h].row}
           w == IF rest = {} THEN Onward(work[h].left) ELSE [Idle EXCEPT !.at = "refund", !.todo = rest, !.left = work[h].left]
<1>1. work' = [work EXCEPT ![h] = w] /\ work \in [Procs -> WorkType]
  BY DEF Done, TypeInv, WorkInv
<1>2. w.at \in {"idle", "selectEach", "refund"} /\ w.todo \subseteq rest /\ rest \subseteq work[h].todo
  BY DEF Idle, Onward
<1> HIDE DEF w, rest
<1> QED
  BY <1>1, <1>2

\* The row that is marked.
LEMMA RefundMarkTruth ==
  ASSUME TypeInv, RowsInv, OnceInv, [Next]_vars, ~ reopened', NEW r \in Rows, r \notin raced, Truth(r),
         NEW h \in Procs, work[h].row = r, RefundMark(h)
  PROVE  Truth(r)'
<1> USE DEF On
<1>0. /\ work[h].at = "mark" /\ UNCHANGED <<charge, returned>> /\ Done(h)
      /\ WorkOK(work[h]) /\ pay \in [Rows -> PaymentType]
  BY DEF RefundMark, TypeInv, WorkInv, PayInv
<1>1. /\ \A k \in Procs \ {h}: work'[k] = work[k]
      /\ work'[h].at \in {"idle", "selectEach", "refund"} /\ work'[h].todo \subseteq work[h].todo
  BY <1>0, DoneWork
<1>2. /\ Refunding(r)
      /\ \A k \in Procs: work[k].row = r => work[k].at \notin Charging
  <2>1. \E s \in work[h].todo: s.row = r
    BY <1>0 DEF WorkOK
  <2>2. Refunding(r)
    BY <2>1 DEF Refunding
  <2> QED
    BY <2>2, RefundingAlone
<1>3. pay'[r].status = "REFUNDED" /\ pay'[r].credit = pay[r].credit
  <2>1. pay' = [pay EXCEPT ![r].status = "REFUNDED"]
    BY DEF RefundMark
  <2> QED
    BY <1>0, <2>1 DEF PaymentType
<1>4. Paid(r)' = Paid(r) /\ Paid(r) = {} /\ (pay[r].credit > 0 => r \in returned)
  BY <1>0 DEF Truth, Returning, Paid
<1>5. \A k \in Procs: work'[k].at \in AtShare => work'[k] = work[k]
  BY <1>1 DEF AtShare, Charging
<1>6. Bills(r)'
  BY <1>0, <1>4 DEF Truth, Bills
<1>7. Told(r)'
  BY <1>0, <1>5 DEF Truth, Told, AtShare
<1>8. Tries(r)'
  BY <1>2, <1>5 DEF Tries, AtShare
<1>9. Shut(r)'
  BY <1>2, ShutStays DEF Shut
<1>10. Noted(r)'
  <2>1. \A k \in Procs: work'[k].todo \subseteq work[k].todo
    BY <1>1
  <2> QED
    BY <1>0, <1>3, <1>4, <2>1 DEF Truth, Noted
<1>11. Returning(r)'
  BY <1>0, <1>3, <1>4, <1>5 DEF Returning
<1>12. Settled(r)'
  BY <1>0, <1>3, <1>4 DEF Settled
<1> QED
  BY <1>6, <1>7, <1>8, <1>9, <1>10, <1>11, <1>12 DEF Truth

\* The share that is confirmed.
LEMMA ConfirmPaymentTruth ==
  ASSUME TypeInv, RowsInv, OnceInv, [Next]_vars, ~ reopened', NEW r \in Rows, r \notin raced', r \notin raced, Truth(r),
         NEW h \in Procs, NEW u \in Users, r = <<group.quote, u>>, ConfirmPayment(h, u)
  PROVE  Truth(r)'
<1> USE DEF On
<1>0. UNCHANGED <<charge, returned>> /\ work[h].at = "idle"
  BY DEF ConfirmPayment
<1>1. ~ Unsettled(r) /\ Retryable(r) /\ Confirmable(r[1])
  BY DEF ConfirmPayment, MayConfirm, Confirmable
<1>2. ~ Refunding(r)
  BY <1>1 DEF Truth, Shut
<1>3. /\ \A k \in Procs: \A s \in work[k].todo: s.row # r
      /\ \A k \in Procs: ~ (work[k].at \in {"credit", "mark"} /\ work[k].row = r)
      /\ \A m \in Attempts: charge[<<r, m>>].stripe # "refunded"
  BY <1>2, NotRefunded
<1>4. Paid(r) = {} /\ Paid(r)' = Paid(r)
  <2>1. pay[r].status # "SUCCEEDED"
    BY <1>1 DEF Retryable
  <2> QED
    BY <1>0, <1>1, <2>1 DEF Unsettled, Paid
<1>5. \A k \in Procs: work[k].row = r => work[k].at \notin Charging
  BY <1>1 DEF Unsettled, Charging
<1>6. /\ pay'[r].status = IF work'[h].at = "charge" THEN "PROCESSING" ELSE "SUCCEEDED"
      /\ work'[h].at \in {"charge", "update"} /\ work'[h].row = r /\ work'[h].todo = {}
      /\ work'[h].at = "update" => work'[h].n = 0
      /\ \A k \in Procs \ {h}: work'[k] = work[k]
  BY ConfirmedShare
<1>7. /\ \A k \in Procs: \A s \in work'[k].todo: s.row # r
      /\ \A k \in Procs: ~ (work'[k].at \in {"credit", "mark"} /\ work'[k].row = r)
      /\ \A k \in Procs: work'[k].row = r /\ work'[k].at \in Charging => k = h
      /\ \A k \in Procs: work'[k].at = "succeeded" => work'[k] = work[k]
  BY <1>3, <1>5, <1>6
<1>8. ~ Refunding(r)'
  BY <1>0, <1>3, <1>6, <1>7 DEF Refunding
<1>9. Bills(r)'
  BY <1>0, <1>4 DEF Truth, Bills
<1>10. Told(r)'
  BY <1>0, <1>7 DEF Truth, Told
<1>11. Tries(r)'
  BY <1>4, <1>6, <1>7, <1>8 DEF Tries
<1>12. Settled(r)'
  BY <1>4, <1>6 DEF Settled
<1> QED
  BY <1>7, <1>8, <1>9, <1>10, <1>11, <1>12 DEF Truth, Shut, Noted, Returning

\* Every step preserves SettledInv.
LEMMA SettledStep ==
  /\ TypeInv /\ RowsInv /\ OnceInv /\ BookingInv /\ SelectInv /\ SettledInv /\ [Next]_vars
  => SettledInv'
<1> SUFFICES ASSUME TypeInv, RowsInv, OnceInv, BookingInv, SelectInv, SettledInv, [Next]_vars,
                    ~ reopened', NEW r \in Rows, r \notin raced'
             PROVE  Truth(r)'
  BY DEF SettledInv
<1>0. ~ reopened /\ r \notin raced
  BY Monotone, RacedGrows
<1>1. Truth(r)
  BY <1>0 DEF SettledInv
<1>2. CASE Aside(r)
  BY <1>1, <1>2, AsideStep
<1>3. ASSUME NEW h \in Procs, work[h].row = r, ChargeStripe(h) \/ ChargeUpdate(h) \/ ConfirmUpdate(h)
      PROVE  Truth(r)'
  BY <1>0, <1>1, <1>3, ChargeStripeTruth, ChargeUpdateTruth, ConfirmUpdateTruth
<1>4. ASSUME NEW h \in Procs, work[h].row = r, ApplySuccess(h) \/ ApplyFailure(h)
      PROVE  Truth(r)'
  BY <1>0, <1>1, <1>4, ApplySuccessTruth, ApplyFailureTruth
<1>5. ASSUME NEW h \in Procs, work[h].row = r, RefundCredit(h) \/ RefundMark(h)
      PROVE  Truth(r)'
  BY <1>0, <1>1, <1>5, RefundCreditTruth, RefundMarkTruth
<1>6. ASSUME NEW h \in Procs, NEW n \in Attempts, ReceiveEvent(h, r, n) PROVE Truth(r)'
  BY <1>0, <1>1, <1>6, ReceiveEventTruth
<1>7. ASSUME NEW h \in Procs, NEW rows, NEW rest, r \in rows, Select(h, rows, rest), Selected(h, rows, rest),
             UNCHANGED <<pay, charge, returned>>
      PROVE  Truth(r)'
  BY <1>0, <1>1, <1>7, SelectTruth
<1>8. ASSUME NEW h \in Procs, NEW s \in work[h].todo, s.row = r, RefundCharge(h, s) PROVE Truth(r)'
  BY <1>0, <1>1, <1>8, RefundChargeTruth
<1>9. ASSUME NEW h \in Procs, NEW u \in Users, r = <<group.quote, u>>, ConfirmPayment(h, u) PROVE Truth(r)'
  BY <1>0, <1>1, <1>9, ConfirmPaymentTruth
<1>10. ASSUME NEW u \in Users, r = <<group.quote, u>>, ConfirmSettled(u) PROVE Truth(r)'
  BY <1>0, <1>1, <1>10, ConfirmSettledTruth
<1>11. ASSUME NEW h \in Procs, Touches(h, r) PROVE Truth(r)'
  BY <1>3, <1>4, <1>5, <1>6, <1>7, <1>8, <1>9, <1>11 DEF Touches
<1> QED
  BY <1>2, <1>10, <1>11, Touched

\* Money on a share that no refund would find is announced.
LEMMA NothingForgotten == TypeInv /\ UntriedInv /\ RowsInv /\ SettledInv => NoMoneyForgotten
<1> SUFFICES ASSUME TypeInv, UntriedInv, RowsInv, SettledInv, ~ reopened, NEW r \in Rows, r \notin raced,
                    Paid(r) # {} \/ (pay[r].credit > 0 /\ r \notin returned),
                    ~ Refundable(r)
             PROVE  Announced(r)
  BY DEF NoMoneyForgotten
<1>1. Truth(r) /\ pay[r] \in PaymentType
  BY DEF SettledInv, TypeInv, PayInv
<1>2. CASE pay[r].status \in {"none", "NOT_REQUIRED", "PENDING"}
  <2>1. pay[r].attempts = 0 /\ pay[r].credit = 0
    BY <1>2 DEF UntriedInv
  <2>2. PICK n \in Attempts: charge[<<r, n>>].stripe = "paid"
    BY <2>1 DEF Paid
  <2>3. charge[<<r, n>>] # NoCharge
    BY <2>2 DEF NoCharge
  <2>4. n <= pay[r].attempts
    BY <2>3 DEF RowsInv
  <2> QED
    BY <2>1, <2>4, PaymentsAssumption DEF Attempts
<1>3. CASE pay[r].status = "REFUNDED"
  BY <1>1, <1>3 DEF Truth, Settled
<1>4. CASE pay[r].status \in {"FAILED", "CANCELLED"}
  <2>1. pay[r].credit = 0 /\ pay[r].charge = 0
    BY <1>1, <1>4, PaymentsAssumption DEF Refundable, PaymentType
  <2> QED
    BY <1>1, <1>4, <2>1 DEF Truth, Settled
<1> QED
  BY <1>1, <1>2, <1>3, <1>4 DEF Refundable, PaymentType

-----------------------------------------------------------------------------
(* The theorems on the quotes, the charges and the credits.                 *)

GroupsInv ==
  /\ TypeInv /\ RowsInv /\ OnceInv /\ FreshInv /\ CreditsInv /\ SplitInv
  /\ AttemptsInv /\ BookingInv /\ SelectInv /\ HoldInv /\ SecuredInv
  /\ UntriedInv /\ SettledInv

\* The invariant of the groups holds for ever.
LEMMA GroupsInvariant == Spec => []GroupsInv
<1>1. Init => GroupsInv
  BY InitType, RowsInit, OnceInit, FreshInit, CreditsInit, SplitInit, AttemptsInit, BookingInit, HoldInit, SecuredInit,
     SettledInit DEF GroupsInv
<1>2. GroupsInv /\ [Next]_vars => GroupsInv'
  BY StepType, RowsStep, OnceStep, FreshStep, CreditsStep, SplitStep, AttemptsStep, BookingStep, SelectStep, HoldStep,
     SecuredStep, UntriedStep, SettledStep DEF GroupsInv
<1> QED
  BY <1>1, <1>2, PTL DEF Spec

\* A share that was not confirmed again while a charge of it was open (in flight,
\* or paid with the row not saying so) has one card charge at most, whatever
\* refunds, events and sweeps do to it and in whatever order. A share that was
\* confirmed again then may be charged twice.
THEOREM ChargedOnce == Spec => []NeverChargedTwice
<1>1. GroupsInv => NeverChargedTwice
  <2> SUFFICES ASSUME GroupsInv, NEW r \in Rows \ again PROVE Cardinality(Paid(r)) <= 1
    BY DEF NeverChargedTwice
  <2>1. \A m, n \in Paid(r): m = n
    BY DEF GroupsInv, OnceInv
  <2>2. CASE Paid(r) = {}
    <3>1. Cardinality({}) = 0
      BY FS_EmptySet
    <3> QED
      BY <2>2, <3>1
  <2>3. CASE Paid(r) # {}
    <3>1. PICK n \in Paid(r): TRUE
      BY <2>3
    <3>2. Paid(r) = {n}
      BY <2>1, <3>1
    <3>3. Cardinality({n}) = 1
      BY FS_Singleton
    <3> QED
      BY <3>2, <3>3
  <2> QED
    BY <2>2, <2>3
<1> QED
  BY <1>1, GroupsInvariant, PTL

\* What a participant has in credits and what their shares hold stays what they
\* had at first: no refund, repeated or concurrent, makes or loses any.
THEOREM CreditsAreConserved == Spec => []CreditsConserved
<1>1. GroupsInv => CreditsConserved
  BY ConservedIs DEF GroupsInv, CreditsInv
<1> QED
  BY <1>1, GroupsInvariant, PTL

\* Until a ride is booked, whatever is changed during the routing call or the
\* payments, the quote in force is of those who are in the group and its shares
\* add up to the fare.
THEOREM QuotesCover == Spec => []QuoteCoversMembers
<1>1. GroupsInv => QuoteCoversMembers
  <2> SUFFICES ASSUME GroupsInv, group.quote \in ActiveQuote, ride.status = "none"
               PROVE  /\ Active \subseteq Participants(group.quote)
                      /\ \A u \in Participants(group.quote): member[u] \notin {"none", "LEFT", "REMOVED"}
                      /\ Weight([u \in Users |-> pay[<<group.quote, u>>].amount]) = Total
    BY DEF QuoteCoversMembers, ActiveQuote
  <2>1. Participants(group.quote) = Active /\ Sum(Amounts(group.quote), Users) = Total
    BY DEF GroupsInv, SplitInv
  <2>2. Weight(Amounts(group.quote)) = Sum(Amounts(group.quote), Users)
    <3>1. DOMAIN Amounts(group.quote) = Users
      BY DEF Amounts
    <3> QED
      BY <3>1, WeightIsSum
  <2> QED
    BY <2>1, <2>2 DEF Active, Amounts
<1> QED
  BY <1>1, GroupsInvariant, PTL

\* Unless a quote reopened the group, or the ride's quote was booked after getGroup
\* had read it as expired, which refunds it: a ride on the road is that of a group
\* that is not closed, or is about to be cancelled, and every share of its quote is
\* held, in credits that were not returned and a charge that was not refunded,
\* raced or not, whatever the other refunds, the late events and the retries did.
THEOREM BookedRidesArePaid == Spec => []BookedIsPaid
<1>1. GroupsInv => BookedIsPaid
  <2> SUFFICES ASSUME GroupsInv, ride.status \in Live, ~ reopened, ride.quote \notin lapsed PROVE
        /\ group.status \in Final => faults > 0 \/ \E h \in Procs: On(h, "cancelRide")
        /\ \A u \in Required(ride.quote):
             /\ pay[<<ride.quote, u>>].credit + pay[<<ride.quote, u>>].card = pay[<<ride.quote, u>>].amount
             /\ pay[<<ride.quote, u>>].credit > 0 => <<ride.quote, u>> \notin returned
             /\ pay[<<ride.quote, u>>].card > 0 => Paid(<<ride.quote, u>>) # {}
    BY DEF BookedIsPaid
  <2>1. group.status \in Final => faults > 0 \/ \E h \in Procs: On(h, "cancelRide")
    BY DEF GroupsInv, BookingInv
  <2>2. ride.quote \in Quotes /\ quote[ride.quote] = "CONSUMED" /\ ~ Closed /\ Secured(ride.quote)
    BY DEF GroupsInv, BookingInv, SecuredInv, Closed, Live
  <2>3. ASSUME NEW u \in Required(ride.quote), NEW r, r = <<ride.quote, u>>
        PROVE  /\ pay[r].credit + pay[r].card = pay[r].amount
               /\ r \notin returned
               /\ pay[r].card > 0 => Paid(r) # {}
    <3>1. r \in Rows /\ r[1] = ride.quote
      BY <2>2, <2>3 DEF Required, Rows
    <3>2. pay[r].attempts > 0 /\ (pay[r].card > 0 => Paid(r) # {})
      BY <2>2, <2>3 DEF Secured
    <3>3. Safe(r)
      BY <2>2, <3>1 DEF Safe
    <3> QED
      BY <3>1, <3>2, <3>3 DEF GroupsInv, AttemptsInv, HoldInv
  <2> QED
    BY <2>1, <2>3
<1> QED
  BY <1>1, GroupsInvariant, PTL

\* Unless a quote reopened the group, and but for the shares in `raced` (confirmed
\* again or refunded while a charge of theirs was open, or with the event of their
\* payment lost or read as another charge's): a share of a replaced or expired
\* quote that still holds a card charge, or credits that were not returned, is one
\* the sweep finds, or Stripe's word that it is paid is to come or being applied.
THEOREM MoneyIsNotForgotten == Spec => []NoMoneyForgotten
<1>1. GroupsInv => NoMoneyForgotten
  BY NothingForgotten DEF GroupsInv
<1> QED
  BY <1>1, GroupsInvariant, PTL

\* Unless a quote reopened the group, and but for the shares in `raced`, among them
\* those whose refund was selected while their charge was in flight, which the code
\* marks REFUNDED with the charge kept: a share marked REFUNDED keeps no charge and
\* no credits that were not returned, so that no refund that was cut short, that
\* overlapped another or that Stripe refused is taken for done.
THEOREM RefundedMeansReturned ==
  Spec => [](~ reopened => \A r \in Rows \ raced: pay[r].status = "REFUNDED" =>
                Paid(r) = {} /\ (pay[r].credit > 0 => r \in returned))
<1>1. GroupsInv => (~ reopened => \A r \in Rows \ raced: pay[r].status = "REFUNDED" =>
                      Paid(r) = {} /\ (pay[r].credit > 0 => r \in returned))
  BY DEF GroupsInv, SettledInv, Truth, Settled
<1> QED
  BY <1>1, GroupsInvariant, PTL

\* Unless a quote reopened the group: a quote whose shares can no longer be
\* confirmed (replaced, expired, booked, or its group closed) is never confirmed
\* again, whatever order the steps of the handlers come in.
THEOREM ClosedQuotesStayClosed ==
  Spec => [][\A q \in Quotes: quote[q] # "none" /\ ~ reopened' /\ Confirmable(q)' => Confirmable(q)]_vars
<1>1. TypeInv /\ [Next]_vars =>
        [\A q \in Quotes: quote[q] # "none" /\ ~ reopened' /\ Confirmable(q)' => Confirmable(q)]_vars
  BY ConfirmableStays
<1>2. GroupsInv => TypeInv
  BY DEF GroupsInv
<1> QED
  BY <1>1, <1>2, GroupsInvariant, PTL DEF Spec
=============================================================================
