CONSTANTS
    c1 = c1
    c2 = c2
    x1 = x1
    x2 = x2
    None = None
    Conns <- TwoConns
    Shells <- TwoShells
SPECIFICATION FairAgentSpec
INVARIANTS
    AgentTypeOK
    OneConnection
    StatusBeforeEnd
PROPERTIES
    EndIsSeen
    AttachCompletes
