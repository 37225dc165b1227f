CONSTANTS
    s1 = s1
    s2 = s2
    docker = docker
    micro = micro
    None = None
    Usernames <- Names
    DockerNames <- DockerOnly
    Sessions <- Mixed
    User <- UserMixed
    Env = {"hangup_opening", "hangup_ending", "shared_name", "attach_fails", "mute", "slow_destroy"}
    KeepEnabled = TRUE
    IdleEnabled = FALSE
    Grace = TRUE
    Late = {"late_session", "slow_open"}
SPECIFICATION FairShutdownSpec
INVARIANTS
    
    RoomStaysWithItsName
PROPERTIES
    ShutdownCompletes
