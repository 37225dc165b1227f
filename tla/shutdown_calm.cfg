CONSTANTS
    s1 = s1
    s2 = s2
    docker = docker
    micro = micro
    None = None
    Usernames <- Names
    DockerNames <- DockerOnly
    Sessions <- Mixed
    User <- UserMixed
    Env = {}
    KeepEnabled = TRUE
    IdleEnabled = TRUE
    Grace = TRUE
    Late = {}
SPECIFICATION ShutdownSpec
INVARIANTS
    NothingOutlives
    SweepSeesEveryRoom
    DrainLeavesNoneActive
