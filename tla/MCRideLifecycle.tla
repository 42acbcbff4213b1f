-------------------------- MODULE MCRideLifecycle --------------------------
(* Three rides of two riders and two drivers: the first two rides compete    *)
(* for one rider's single active slot.                                       *)
EXTENDS RideLifecycle, TLC

CONSTANTS r1, r2, r3, d1, d2, alice, bob

MCRides == {r1, r2, r3}
MCDrivers == {d1, d2}
MCRiders == {alice, bob}
MCRiderOf == r1 :> alice @@ r2 :> alice @@ r3 :> bob

Symmetry == Permutations(MCDrivers)
=============================================================================
