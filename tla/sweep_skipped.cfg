CONSTANTS
    s1 = s1
    s2 = s2
    docker = docker
    micro = micro
    None = None
    Usernames <- Names
    DockerNames <- DockerOnly
    Sessions <- Mixed
    User <- UserMixed
    Env = {"hangup_ending"}
    KeepEnabled = TRUE
    IdleEnabled = FALSE
    Grace = TRUE
    Late = {}
SPECIFICATION ShutdownSpec
INVARIANTS
    KeptRoomsSwept
