----------------------------- MODULE MCDispatch -----------------------------
(* Instances of Dispatch: one ride, or two rides of two riders, with few     *)
(* drivers, handlers and matchers, interchangeable within each set.          *)
EXTENDS Dispatch, TLC

CONSTANTS r1, r2, d1, d2, alice, bob, h1, h2, m1, m2, w

OneRideOf == r1 :> alice
TwoRidesOf == r1 :> alice @@ r2 :> bob

Symmetry == Permutations(Handlers) \cup Permutations(Matchers) \cup Permutations(Drivers)
=============================================================================
