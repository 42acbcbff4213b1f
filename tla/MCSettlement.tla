---------------------------- MODULE MCSettlement ----------------------------
(* One ride, two handlers.  What is combined is bounded: a ride with a     *)
(* Special sees a top-up or a disturbance, not both, and a second retry    *)
(* comes with nothing but a late failure.                                  *)
EXTENDS Settlement, TLC

CONSTANTS h1, h2

Symmetry == Permutations(Procs)

Combined ==
  LET topup == pay[Topup].status # "none" IN
  /\ special # "none" /\ topup => faults = {}
  /\ passes = 2 => ~ topup /\ faults \subseteq {"late failure"}

=============================================================================
