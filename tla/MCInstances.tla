----------------------------- MODULE MCInstances ----------------------------
(* Instances of the host-side model for TLC: keycards that come and go and *)
(* the rooms they open; rooms and keycards are interchangeable.            *)
EXTENDS Instances, TLC

CONSTANTS k1, k2, k3, r1, r2

TwoKeycards == {k1, k2}
ThreeKeycards == {k1, k2, k3}
TwoRooms == {r1, r2}
Interchangeable == Permutations(ThreeKeycards) \cup Permutations(TwoRooms)
=============================================================================
