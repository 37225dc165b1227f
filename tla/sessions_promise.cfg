CONSTANTS
    s1 = s1
    s2 = s2
    docker = docker
    micro = micro
    None = None
    Usernames <- Names
    DockerNames <- DockerOnly
    Sessions <- TwoDocker
    User <- UserTwoDocker
    Env = {}
    KeepEnabled = TRUE
    IdleEnabled = TRUE
SPECIFICATION FairSpec
INVARIANTS
    NoOrphan
PROPERTIES
    KeepsPromise
    LostIsReleased
