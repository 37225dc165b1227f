CONSTANTS
    MaxDials = 3
SPECIFICATION BackendsSpec
INVARIANTS
    BackendsTypeOK
    ReleasedIsGone
    StatusIsTheShells
    OpensConnected
PROPERTIES
    KeepsContract
