----------------------------- MODULE MCShutdown -----------------------------
(* The instance of Shutdown for TLC: one docker login and one firecracker  *)
(* login, so that the drain and the sweep meet rooms of both kinds.        *)
EXTENDS Shutdown

CONSTANTS s1, s2, docker, micro

Names == {docker, micro}
DockerOnly == {docker}

Mixed == {s1, s2}
UserMixed == [s \in Mixed |-> IF s = s2 THEN micro ELSE docker]
=============================================================================
