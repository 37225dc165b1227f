------------------------------ MODULE Startup -------------------------------
(***************************************************************************)
(* `keycard up` (cli.py, serve and create_server of server.py) from the    *)
(* file to the open port, and what a login then finds: its room is         *)
(* resolved, routed to a backend, and opened, for a microVM through the    *)
(* child that confines itself before it becomes the VMM.  What is wrong    *)
(* with a file or a host is to be found before the port is open.           *)
(*                                                                         *)
(* The connections are followed one at a time: they share nothing here     *)
(* that a connection writes.                                               *)
(***************************************************************************)
EXTENDS Config, Confine

CONSTANTS
    Files,      \* the configuration files
    Hosts,      \* the machines
    Usernames   \* the names that log in

(* What a file may hold of each key, and a host.  TOML has no key twice.   *)
Optional(S) == {Absent} \cup S
Durations == {"zero", "some", "malformed"}
Memories == [ok : BOOLEAN, n : Nat, unit : {"b", "k", "m", "g"}]
Entries ==
    [name : STRING, table : BOOLEAN, image : BOOLEAN, backend : Optional(STRING), cpus : Int,
     number : BOOLEAN, memory : Optional(Memories), pids : BOOLEAN, network : BOOLEAN]
AnyFile ==
    [listen : Optional(Durations), idle_timeout : Optional(Durations),
     shutdown_grace : Optional(Durations), keep_window : Optional(Durations),
     boot_timeout : Optional(Durations), default_room : Optional(STRING),
     backend : Optional(STRING), kernel : BOOLEAN, confinement : Optional(STRING),
     rooms : Seq(Entries)]
AnyHost ==
    [docker : BOOLEAN, binary : BOOLEAN, kernel : BOOLEAN, rootfs_dir : BOOLEAN, kvm : BOOLEAN,
     abi : Nat, image : Nat, keys : BOOLEAN, host_key : BOOLEAN, port : BOOLEAN]

(* What a configuration has of a room, and open of a VMM.                  *)
AnyRoom ==
    [name : STRING \cup {BUILTIN_ROOMS[i] : i \in DOMAIN BUILTIN_ROOMS}, backend : Optional(KNOWN_BACKENDS), cpus : Int,
     memory : Optional(Memories)]
AnyVmm == [rootfs : Nat, fsize : Int, ruleset : BOOLEAN, restricted : BOOLEAN]

(* Why a room does not open.                                               *)
Reasons == {"backend", "memory", "image", "rootfs", "ruleset", "child", "machine", "denied",
            "fsize", "boot_timeout", "no_boot"}

ASSUME StartupAssumption ==
    /\ Files \subseteq Optional(AnyFile)
    /\ \A f \in Files \ {Absent} :
          \A i, j \in DOMAIN f.rooms : f.rooms[i].name = f.rooms[j].name => i = j
    /\ Hosts \subseteq AnyHost
    /\ Absent \notin KNOWN_BACKENDS \cup CONFINEMENT_MODES \cup Reasons
    /\ Absent \notin AnyRoom /\ Absent \notin AnyVmm

VARIABLES
    file,       \* keycard.toml
    flags,      \* --keep, --host and --port of the command line
    host,       \* what is installed on the machine
    stage,      \* where startup is
    cfg,        \* the configuration, once loaded
    built,      \* the backends that were constructed
    said,       \* what was logged of the file's keys
    conn,       \* where the connection is
    room,       \* its room
    vmm,        \* the process that runs its microVM
    why,        \* why its room did not open
    changed     \* history: a file that startup looked at has vanished

given == <<file, flags>>
connVars == <<conn, room, vmm, why>>
startVars == <<given, host, stage, cfg, built, said, connVars, changed>>

Stages == {"loading", "building", "keeping", "keys", "durations", "binding", "listening", "refused"}
Phases == {"none", "routed", "opening", "spawning", "child", "configuring", "booting", "open", "failed"}

StartupInit ==
    /\ file \in Files
    /\ flags \in [keep : {Absent, "zero", "some", "malformed"}, host : BOOLEAN, port : BOOLEAN]
    /\ host \in Hosts
    /\ stage = "loading"
    /\ cfg = builtin_config
    /\ built = {}
    /\ said = {}
    /\ conn = "none"
    /\ room = Absent
    /\ vmm = Absent
    /\ why = Absent
    /\ changed = FALSE

-----------------------------------------------------------------------------
(* Startup.                                                                *)

Step(from, to, allowed) == stage = from /\ stage' = IF allowed THEN to ELSE "refused"

(* The file is read; the command line has the last word.  --host alone     *)
(* needs the port of the file's listen, which may not have one.            *)
Accepted == Loads(file) /\ (flags.host => load(file).listen = "some")

Load ==
    /\ Step("loading", "building", Accepted)
    /\ IF Accepted
       THEN /\ cfg' = [load(file) EXCEPT !.keep_window = Given(flags.keep, @),
                                         !.listen = IF flags.port THEN "some" ELSE @]
            /\ said' = LoadWarnings(file)
       ELSE UNCHANGED <<cfg, said>>
    /\ UNCHANGED <<given, host, built, connVars, changed>>

RequiredIgnored == TRUE

(* A kernel without Landlock is refused where confinement is required.     *)
check_confinement == cfg.firecracker.confinement # "required" \/ host.abi > 0

preflight ==
    /\ host.binary
    /\ cfg.firecracker.kernel /\ host.kernel
    /\ host.rootfs_dir
    /\ host.kvm
    /\ check_confinement

(* A factory of the registry: its constructor raises or not.               *)
Constructs(b) == IF b = "docker" THEN host.docker ELSE preflight

(* RoutingBackend, in the order of the names.                              *)
Construct(b) ==
    /\ b \in names_in_use(cfg) \ built
    /\ b = "firecracker" => "docker" \notin names_in_use(cfg) \ built
    /\ Step("building", "building", Constructs(b))
    /\ built' = IF Constructs(b) THEN built \cup {b} ELSE built
    /\ UNCHANGED <<given, host, cfg, said, connVars, changed>>

Constructed ==
    /\ names_in_use(cfg) \subseteq built
    /\ Step("building", "keeping", TRUE)
    /\ UNCHANGED <<given, host, cfg, built, said, connVars, changed>>

(* KeptRooms takes the window in seconds.                                  *)
KeepWindow ==
    /\ Step("keeping", "keys", Parses(cfg.keep_window))
    /\ UNCHANGED <<given, host, cfg, built, said, connVars, changed>>

(* check_authorized_keys, ensure_host_key.                                 *)
CheckKeys ==
    /\ Step("keys", "durations", host.keys)
    /\ host' = IF host.keys THEN [host EXCEPT !.host_key = TRUE] ELSE host
    /\ UNCHANGED <<given, cfg, built, said, connVars, changed>>

CheckDurations ==
    /\ Step("durations", "binding", \A d \in {cfg.idle_timeout, cfg.shutdown_grace, cfg.keep_window} : Parses(d))
    /\ UNCHANGED <<given, host, cfg, built, said, connVars, changed>>

(* serve says where --keep does not apply.                                 *)
KeepWarnings ==
    {<<r, "keep">> : r \in IF cfg.keep_window = "some" THEN rooms_without_keep(cfg) ELSE {}}

(* The port is bound, and the rooms are listed.                            *)
Bind ==
    /\ Step("binding", "listening", cfg.listen = "some" /\ host.port)
    /\ said' = IF stage' = "listening" THEN said \cup KeepWarnings ELSE said
    /\ UNCHANGED <<given, host, cfg, built, connVars, changed>>

-----------------------------------------------------------------------------
(* A connection.                                                           *)

Proceeds(from, to) == stage = "listening" /\ conn = from /\ conn' = to

(* The room fails to open for this reason, unless it is all right.         *)
OpensIf(allowed, reason, from, to) ==
    /\ Proceeds(from, IF allowed THEN to ELSE "failed")
    /\ why' = IF allowed THEN why ELSE reason

(* session_requested.                                                      *)
Login(u) ==
    /\ Proceeds("none", "routed")
    /\ room' = resolve(cfg, u)
    /\ UNCHANGED <<given, host, cfg, built, said, stage, vmm, why, changed>>

(* RoutingBackend._get, which constructs what is not there yet.            *)
Get ==
    LET b == name_for(cfg, room)
    IN  /\ conn = "routed"
        /\ OpensIf(b \in built \/ Constructs(b), "backend", "routed", "opening")
        /\ built' = IF conn' = "opening" THEN built \cup {b} ELSE built
        /\ UNCHANGED <<given, host, cfg, said, stage, room, vmm, changed>>

(* DockerBackend.open: the client refuses a memory size it cannot parse.   *)
OpenDocker ==
    /\ conn = "opening" /\ name_for(cfg, room) = "docker"
    /\ OpensIf(room.memory = Absent \/ room.memory.ok, "memory", "opening", "open")
    /\ UNCHANGED <<given, host, cfg, built, said, stage, room, vmm, changed>>

ImageUnavailable ==
    /\ Proceeds("opening", "failed")
    /\ name_for(cfg, room) = "docker"
    /\ why' = "image"
    /\ UNCHANGED <<given, host, cfg, built, said, stage, room, vmm, changed>>

(* FirecrackerBackend.open: a room has a built image, of some size.        *)
OpenFirecracker ==
    /\ conn = "opening" /\ name_for(cfg, room) = "firecracker"
    /\ OpensIf(host.image > 0, "rootfs", "opening", "spawning")
    /\ UNCHANGED <<given, host, cfg, built, said, stage, room, vmm, changed>>

Confines == cfg.firecracker.confinement # "off" /\ host.abi > 0

(* The copy of the image, and _spawn up to the fork: _ruleset_for, with a  *)
(* path that is not there an error, and _fsize_for.                        *)
Spawn ==
    /\ OpensIf(host.image > 0 /\ (Confines => KernelTakes(host.abi) /\ host.kernel),
               IF host.image = 0 THEN "rootfs" ELSE "ruleset", "spawning", "child")
    /\ vmm' = IF conn' = "failed" THEN vmm
              ELSE [rootfs |-> host.image,
                    fsize |-> fsize_limit(host.image, parse_memory_mib(room.memory)),
                    ruleset |-> Confines, restricted |-> FALSE]
    /\ UNCHANGED <<given, host, cfg, built, said, stage, room, changed>>

(* child_setup, then exec.                                                 *)
ChildSetup ==
    /\ Proceeds("child", "configuring")
    /\ vmm' = [vmm EXCEPT !.restricted = vmm.ruleset]
    /\ UNCHANGED <<given, host, cfg, built, said, stage, room, why, changed>>

(* A step of it is refused: the child ends, and the error reaches open.    *)
ChildFails ==
    /\ Proceeds("child", "failed")
    /\ why' = "child"
    /\ UNCHANGED <<given, host, cfg, built, said, stage, room, vmm, changed>>

(* What the VMM takes for a machine.                                       *)
Takes(machine) == machine.vcpu_count \in 1..32 /\ machine.mem_size_mib >= 16

(* The VMM gets at all that it opens.                                      *)
Reaches == host.kernel /\ (vmm.restricted => Serves(host.abi))

(* _configure and the start.                                               *)
Configure ==
    /\ OpensIf(Takes(machine_config(room)) /\ Reaches,
               IF Reaches THEN "machine" ELSE "denied", "configuring", "booting")
    /\ UNCHANGED <<given, host, cfg, built, said, stage, room, vmm, changed>>

(* _attach: boot_timeout is parsed here.  A write beyond the limit kills   *)
(* the VMM.                                                                *)
Boot ==
    /\ OpensIf(Parses(cfg.firecracker.boot_timeout) /\ vmm.rootfs <= vmm.fsize,
               IF Parses(cfg.firecracker.boot_timeout) THEN "fsize" ELSE "boot_timeout", "booting", "open")
    /\ UNCHANGED <<given, host, cfg, built, said, stage, room, vmm, changed>>

(* The agent does not answer within boot_timeout: at once, if that is 0.   *)
BootOverdue ==
    /\ Proceeds("booting", "failed")
    /\ Parses(cfg.firecracker.boot_timeout)
    /\ why' = "no_boot"
    /\ UNCHANGED <<given, host, cfg, built, said, stage, room, vmm, changed>>

Leave ==
    /\ stage = "listening" /\ conn \in {"open", "failed"}
    /\ conn' = "none"
    /\ room' = Absent /\ vmm' = Absent /\ why' = Absent
    /\ UNCHANGED <<given, host, cfg, built, said, stage, changed>>

(* Someone replaces the guest kernel or the built images while it runs.    *)
HostChanges ==
    /\ stage = "listening" /\ ~changed
    /\ \/ host' = [host EXCEPT !.kernel = FALSE]
       \/ host' = [host EXCEPT !.image = 0]
    /\ changed' = TRUE
    /\ UNCHANGED <<given, stage, cfg, built, said, connVars>>

Refused == stage = "refused" /\ UNCHANGED startVars

-----------------------------------------------------------------------------
Starting ==
    \/ Load \/ Constructed \/ KeepWindow \/ CheckKeys \/ CheckDurations \/ Bind
    \/ \E b \in KNOWN_BACKENDS : Construct(b)

Connection ==
    \/ \E u \in Usernames : Login(u)
    \/ Get \/ OpenDocker \/ ImageUnavailable
    \/ OpenFirecracker \/ Spawn \/ ChildSetup \/ ChildFails \/ Configure \/ Boot \/ BootOverdue
    \/ Leave

StartupNext == Starting \/ Connection \/ HostChanges \/ Refused
StartupSpec == StartupInit /\ [][StartupNext]_startVars

-----------------------------------------------------------------------------
(* Properties.                                                             *)

(* The variables have their types; what load returns is one of the rooms   *)
(* for every username, on a backend that exists.                           *)
StartupTypeOK ==
    /\ stage \in Stages
    /\ cfg.default_room \in Names(cfg.rooms)
    /\ names_in_use(cfg) \cup built \subseteq KNOWN_BACKENDS
    /\ cfg.firecracker.confinement \in CONFINEMENT_MODES
    /\ conn \in Phases
    /\ (room = Absent) = (conn = "none")
    /\ why \in Reasons \cup {Absent}
    /\ (why = Absent) = (conn # "failed")
    /\ changed \in BOOLEAN

(* No login constructs a backend: the daemon, the guest kernel and the     *)
(* sweep of the debris are seen to before the port is open, for every room *)
(* that any username may get.                                              *)
BuiltUpFront == [][stage = "listening" => built' = built]_startVars

(* A VMM runs restricted, unless the file turned that off or the kernel    *)
(* cannot and the file does not insist: not after a path vanished, nor for *)
(* a mode that was misspelt.                                               *)
ConfinedAsPromised ==
    conn \in {"configuring", "booting", "open"} /\ vmm # Absent =>
        \/ vmm.restricted
        \/ file.confinement = "off"
        \/ host.abi = 0 /\ file.confinement # "required"

(* A host and a file that startup accepted open every room, as long as no  *)
(* file vanishes: on no kernel is a rule refused or the VMM kept from what *)
(* it needs, no machine is out of the VMM's range, no image outgrows the   *)
(* limit.  What startup does not look at is the room's image, a docker     *)
(* room's memory and boot_timeout; the child and the guest may fail.       *)
OpensOnceAccepted ==
    conn = "failed" /\ ~changed =>
        why \in {"image", "rootfs", "memory", "boot_timeout", "child", "no_boot"}

(* The keys of an entry that its room does not have as they are written.   *)
Unhonoured(e) ==
    LET r == RoomNamed(cfg, e.name)
        b == name_for(cfg, r)
        cores == IF b = "firecracker" THEN machine_config(r).vcpu_count ELSE r.cpus
    IN  IF ~e.table THEN {"table"}
        ELSE IF ~e.image THEN {"image"}
        ELSE {k \in {"backend", "pids_limit", "keep", "network", "cpus"} :
                 \/ k = "backend" /\ e.backend \notin {Absent, b}
                 \/ k = "pids_limit" /\ e.pids /\ b = "firecracker"
                 \/ k = "keep" /\ cfg.keep_window = "some" /\ b = "firecracker"
                 \/ k = "network" /\ e.network /\ b = "firecracker"
                 \/ k = "cpus" /\ e.cpus \notin {0, 100 * cores}}

(* Those that nothing is said of: an entry that is no table, network on a  *)
(* microVM and cpus that are cut to whole ones (against config.py:214-222, *)
(* by which pids_limit is the only key that is ignored, and doing it in    *)
(* silence is not right), and a backend that is the empty string.          *)
InSilence(e) ==
    {"table", "network", "cpus"} \cup {k \in {"backend"} : e.backend = ""}

(* With the exceptions just named, what the file asks for of these keys and*)
(* does not get was logged by the time the port is open: an unknown backend*)
(* or mode, a default_room that is no room, an entry without an image, a   *)
(* file without a room, pids_limit on a microVM, --keep for one.  memory is*)
(* not among the keys: it is looked at when a room opens.                  *)
FallbacksAreLogged ==
    stage = "listening" /\ file # Absent =>
        /\ file.backend \in {Absent, "", cfg.backend} \/ <<"file", "backend">> \in said
        /\ file.confinement \in {Absent, cfg.firecracker.confinement} \/ <<"file", "confinement">> \in said
        /\ file.default_room \in {Absent, cfg.default_room} \/ <<"file", "default_room">> \in said
        /\ (\A i \in DOMAIN file.rooms : ~IsRead(file.rooms[i])) => <<"file", "rooms">> \in said
        /\ \A i \in DOMAIN file.rooms :
              LET e == file.rooms[i] IN \A k \in Unhonoured(e) \ InSilence(e) : <<e.name, k>> \in said
=============================================================================
