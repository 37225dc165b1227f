CONSTANTS
    k1 = k1
    k2 = k2
    k3 = k3
    r1 = r1
    r2 = r2
    None = None
    Keycards <- ThreeKeycards
    Rooms <- TwoRooms
    Env = {"pid_reuse"}
SPECIFICATION InstancesSpec
SYMMETRY Interchangeable
INVARIANTS
    InstancesTypeOK
    NothingLeftBehind
PROPERTIES
    LiveNeverReaped
