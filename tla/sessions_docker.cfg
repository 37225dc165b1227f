CONSTANTS
    s1 = s1
    s2 = s2
    docker = docker
    micro = micro
    None = None
    Usernames <- Names
    DockerNames <- DockerOnly
    Sessions <- TwoDocker
    User <- UserTwoDocker
    Env = {"hangup_opening", "hangup_ending", "shared_name", "attach_fails", "mute", "slow_destroy"}
    KeepEnabled = TRUE
    IdleEnabled = TRUE
SPECIFICATION Spec
INVARIANTS
    TypeOK
    SingleOwner
    HoldersSeeTheirRoom
    KeptOnlyAfterHangup
    StatusAfterCheckout
    EmptyMeansReleased
PROPERTIES
    LeavesByItsOwnDoor
