----------------------------- MODULE MCRewards -----------------------------
(* One referred rider with two rides, one referrer, and one grant key. *)
EXTENDS Rewards, TLC

CONSTANTS alice, bob, r1, r2, k1

MCRiderOf == [r \in Rides |-> bob]
MCAccounts == {<<bob, "wallet">>, <<bob, "credits">>, <<alice, "credits">>}
MCKeys ==
  ({"ride-applied", "ride-refund", "wallet-charge", "ride-completion-reward"} \X Rides)
    \cup ({"referral", "referred-signup"} \X Riders)
    \cup ({"wallet", "credits"} \X AdminKeys)
MCGrants == {<<<<bob, "wallet">>, -1>>, <<<<bob, "credits">>, -1>>, <<<<bob, "credits">>, 1>>}
MCAmounts == -3..3 \ {0}
Symmetry == Permutations(Procs) \cup Permutations(Rides)

=============================================================================
