----------------------------- MODULE MCStartup ------------------------------
(* Files and machines for TLC: an ordinary one of each, and those that     *)
(* differ from it in one way, or in the two that matter together.          *)
EXTENDS Startup

Vm(name) ==
    [name |-> name, table |-> TRUE, image |-> TRUE, backend |-> "firecracker", cpus |-> 200,
     number |-> TRUE, memory |-> [ok |-> TRUE, n |-> 512, unit |-> "m"], pids |-> FALSE, network |-> FALSE]
Box(name) == [Vm(name) EXCEPT !.backend = Absent]

Ordinary ==
    [listen |-> Absent, idle_timeout |-> Absent, shutdown_grace |-> Absent, keep_window |-> Absent,
     boot_timeout |-> Absent, default_room |-> "box", backend |-> Absent, kernel |-> TRUE,
     confinement |-> Absent, rooms |-> <<Box("box"), Vm("vm")>>]

With(r) == [Ordinary EXCEPT !.rooms = <<Box("box"), r>>]
Memory(ok, n, unit) == [ok |-> ok, n |-> n, unit |-> unit]

SomeRooms ==
    {With([Vm("vm") EXCEPT !.memory = m]) :
        m \in {Absent, Memory(FALSE, 0, "b"), Memory(TRUE, 0, "m"), Memory(TRUE, 8192, "k"),
               Memory(TRUE, 8, "g"), Memory(TRUE, 536870912, "b")}}
    \cup {With([Vm("vm") EXCEPT !.cpus = c]) : c \in {0, 50, 100, 6400}}
    \cup {With([Vm("vm") EXCEPT !.backend = b, !.pids = p]) :
             b \in {Absent, "", "docker", "firecracker", "podman"}, p \in BOOLEAN}
    \cup {With([Vm("vm") EXCEPT !.image = FALSE, !.pids = TRUE]),
          With([Vm("vm") EXCEPT !.number = FALSE]), With([Vm("vm") EXCEPT !.network = TRUE]),
          With([Vm("vm") EXCEPT !.table = FALSE]),
          [Ordinary EXCEPT !.rooms = <<[Vm(DEFAULT_ROOM) EXCEPT !.table = FALSE, !.pids = TRUE]>>],
          [Ordinary EXCEPT !.backend = "firecracker", !.rooms[1].backend = "", !.rooms[2].backend = ""],
          [Ordinary EXCEPT !.rooms = <<[Vm(DEFAULT_ROOM) EXCEPT !.image = FALSE]>>],
          With([Box("vm") EXCEPT !.memory = Memory(FALSE, 0, "b")])}

SomeFiles ==
    {Absent, Ordinary, [Ordinary EXCEPT !.kernel = FALSE], [Ordinary EXCEPT !.rooms = <<>>],
     [Ordinary EXCEPT !.listen = "malformed"], [Ordinary EXCEPT !.idle_timeout = "malformed"],
     [Ordinary EXCEPT !.shutdown_grace = "malformed"], [Ordinary EXCEPT !.keep_window = "malformed"]}
    \cup {[Ordinary EXCEPT !.backend = b, !.rooms[1].pids = TRUE] : b \in {"", "docker", "firecracker", "podman"}}
    \cup {[Ordinary EXCEPT !.confinement = c] : c \in CONFINEMENT_MODES \cup {"requried"}}
    \cup {[Ordinary EXCEPT !.default_room = d] : d \in {Absent, "vm", "nowhere"}}
    \cup {[Ordinary EXCEPT !.boot_timeout = d] : d \in {"zero", "malformed"}}
    \cup SomeRooms

Complete ==
    [docker |-> TRUE, binary |-> TRUE, kernel |-> TRUE, rootfs_dir |-> TRUE, kvm |-> TRUE,
     abi |-> 3, image |-> 4096, keys |-> TRUE, host_key |-> FALSE, port |-> TRUE]

SomeHosts ==
    {[Complete EXCEPT ![f] = FALSE] :
        f \in {"docker", "binary", "kernel", "rootfs_dir", "kvm", "keys", "port"}}
    \cup {[Complete EXCEPT !.abi = a, !.image = i] : a \in 0..4, i \in {0, 64, 4096}}

SomeUsernames == {"box", "vm", "nobody"}
=============================================================================
