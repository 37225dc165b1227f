----------------------------- MODULE MCSessions -----------------------------
(* The instance of Sessions for TLC: two logins under one docker username, *)
(* so that they race for the registry's entry and the second can resume    *)
(* and keep again what the first kept, while the first timer still runs.   *)
EXTENDS Sessions

CONSTANTS s1, s2, docker, micro

Names == {docker, micro}
DockerOnly == {docker}

TwoDocker == {s1, s2}
UserTwoDocker == [s \in TwoDocker |-> docker]
=============================================================================
