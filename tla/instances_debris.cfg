CONSTANTS
    k1 = k1
    k2 = k2
    k3 = k3
    r1 = r1
    r2 = r2
    None = None
    Keycards <- TwoKeycards
    Rooms <- TwoRooms
    Env = {"cancel_create", "cancel_ready", "cancel_ending", "create_race", "kill_spawning"}
SPECIFICATION FairInstancesSpec
INVARIANTS
    DebrisReaped
PROPERTIES
    RoomSettles
