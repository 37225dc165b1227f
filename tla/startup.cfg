CONSTANTS
    Absent = Absent
    Files <- SomeFiles
    Hosts <- SomeHosts
    Usernames <- SomeUsernames
SPECIFICATION StartupSpec
INVARIANTS
    StartupTypeOK
    ConfinedAsPromised
    OpensOnceAccepted
    FallbacksAreLogged
PROPERTIES
    BuiltUpFront
