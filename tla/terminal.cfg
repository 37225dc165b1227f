CONSTANTS
    Backlog = 2
    MaxChunks = 4
    MaxResizes = 3
    Sizes = {80, 120}
    Default = 80
SPECIFICATION FairTerminalSpec
INVARIANTS
    TerminalTypeOK
    InputInOrder
    SizeSettles
PROPERTIES
    TypedIsDelivered
