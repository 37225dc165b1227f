CONSTANTS
    s1 = s1
    s2 = s2
    docker = docker
    micro = micro
    None = None
    Usernames <- Names
    DockerNames <- DockerOnly
    Sessions <- TwoDocker
    User <- UserTwoDocker
    Env = {"hangup_opening"}
    KeepEnabled = TRUE
    IdleEnabled = FALSE
SPECIFICATION Spec
INVARIANTS
    NoOrphan
