------------------------------ MODULE MCGroups ------------------------------
(* A host and a friend, two handlers, two quotes.  What changes or goes    *)
(* wrong is combined two at a time, and only where it meets; with an       *)
(* expired or booked quote only a host alone tries again, and by card.     *)
EXTENDS Groups, TLC

CONSTANTS h1, h2, q1, q2

Symmetry == Permutations(Procs) \cup Permutations(Quotes)

Paying == \E r \in Rows: pay[r].attempts > 0

Happened ==
  {"invited": u \in {v \in Users: invited[v] # "none"}}
  \cup {"requoted": b \in {TRUE} \cap {\A q \in Quotes: quote[q] # "none"}}
  \cup {"reconfigured": b \in {TRUE} \cap {group.version > 1}}
  \cup {"late": q \in late}
  \cup {"closed": b \in {TRUE} \cap {group.status = "CANCELLED" /\ ride.status = "none"}}
  \cup {"booked": b \in {TRUE} \cap {ride.status # "none"}}
  \cup {"both": b \in {TRUE} \cap {\A u \in Users: \E q \in Quotes: pay[<<q, u>>].attempts > 0}}
  \cup {"fault": n \in 1..faults}
  \cup {"raced": r \in raced}
  \cup {"lapsed": q \in lapsed}
  \cup {"reopened": b \in {TRUE} \cap {reopened}}
  \cup {"retried": r \in {s \in Rows: pay[s].attempts > 1}}

Combinations ==
  {{"invited", "reconfigured"}, {"requoted", "reconfigured"},
   {"late", "booked", "lapsed"}, {"booked", "both"}, {"booked", "raced", "retried"}, {"late", "fault"},
   {"booked", "fault"}, {"retried", "fault", "raced", "late"}}

Combined ==
  LET happened == Happened IN
  /\ Cardinality(happened) < 2 \/ \E c \in Combinations: happened \subseteq c
  /\ "invited" \in happened => ~ Paying
  /\ "retried" \in happened /\ happened \cap {"late", "booked"} # {} =>
       (\A r \in Rows: pay[r].credit = 0) /\ (\A u \in Users \ {Host}: member[u] = "none")
  \* One handler makes a quote, next to no other payment.
  /\ \A h \in Procs: On(h, "quote") =>
       \A k \in Procs \ {h}: work[k].at \in {"idle", "selectAll", "selectQuotes", "selectEach"}

=============================================================================
