----------------------------- MODULE MCSponsors -----------------------------
(* One sponsor and one driver.  The two share no variable, so that one of  *)
(* them is at rest.  Redemptions and withdrawals are bounded together:     *)
(* with funding in play one redemption holds a reservation and no admin    *)
(* acts.                                                                   *)
EXTENDS Withdrawals, Payouts, TLC

CONSTANTS h1, h2, r1, r2, c1, c2, w1, w2, p1, p2

MCInit == Init /\ PayoutsInit

MCSpec ==
  /\ MCInit
  /\ [][\/ Next /\ UNCHANGED payoutVars
        \/ PayoutsNext /\ UNCHANGED vars]_<<vars, payoutVars>>

Symmetry ==
  Permutations(Procs) \cup Permutations(Redemptions) \cup Permutations(Withdrawals)
    \cup Permutations(Charges) \cup Permutations(Requests)

Deltas == {-2, 1}

Funding == \E c \in Charges: payment[c].status # "none"

Combined ==
  Funding =>
    /\ adjusts = 0
    /\ \A r \in Redemptions: Status(r) \in {"none", "CREATED", "RIDE_PENDING"} /\ Discount(r) # 1
    /\ Cardinality({r \in Redemptions: Status(r) # "none"}) <= 1
    /\ \A h \in Procs: call[h] = NoCall
    /\ (\E r \in Redemptions: Status(r) = "CREATED") => \A h \in Procs: run[h] = Idle
    /\ (\E r \in Redemptions: Status(r) = "RIDE_PENDING") => Cardinality({h \in Procs: run[h] # Idle}) <= 1

Untouched == ~ Funding /\ adjusts = 0 /\ \A r \in Redemptions: Status(r) = "none"

\* One refund may fail, and then nothing else goes wrong.
OneFailure ==
  (\E w \in Withdrawals: declined[w] # {}) =>
    faults = 0 /\ Cardinality(UNION {declined[w]: w \in Withdrawals}) = 1

Bounded == Combined /\ OneFailure /\ (Untouched \/ (rides = 0 /\ ~ enabled))

=============================================================================
