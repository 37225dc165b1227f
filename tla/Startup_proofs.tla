--------------------------- MODULE Startup_proofs ---------------------------
(***************************************************************************)
(* Proofs about Startup, for any configuration file, any host and any      *)
(* usernames, and about the operators of Config and Confine it is built    *)
(* from.                                                                   *)
(***************************************************************************)
EXTENDS Startup, WellFoundedInduction, TLAPS

-----------------------------------------------------------------------------
(* confine.py.                                                             *)

(* Every kernel with Landlock takes the ruleset that _ruleset_for builds:  *)
(* no right it does not know, no empty rule, none for a directory on a     *)
(* file (build_ruleset, _add_rule).                                        *)
LEMMA KernelTakesPlan == ASSUME NEW abi \in Nat, abi > 0 PROVE KernelTakes(abi)
<1>1. Handled(abi) = KnownToKernel(abi)
  BY DEF Handled, KnownToKernel, NEWEST_ABI
<1>2. "READ_FILE" \in Handled(abi)
  <2>1. ACCESS_FS[3] = "READ_FILE" /\ 3 \in 1..(12 + IF abi > NEWEST_ABI THEN NEWEST_ABI ELSE abi)
    BY DEF ACCESS_FS, NEWEST_ABI
  <2> QED BY <2>1 DEF Handled, FirstRights
<1>3. \A p \in PlanPaths : "READ_FILE" \in plan_for[p]
  BY DEF PlanPaths, plan_for, READ, EXECUTE, WRITE
<1>4. ASSUME NEW p \in PlanPaths
      PROVE  /\ add_rule(p, abi) # {}
             /\ add_rule(p, abi) \subseteq Handled(abi)
             /\ IsDir(p) \/ add_rule(p, abi) \subseteq FILE_ACCESS
  BY <1>2, <1>3 DEF add_rule, FILE_ACCESS
<1> QED BY <1>1, <1>4 DEF KernelTakes

(* On every kernel the plan leaves the VMM what it opens to boot a guest.  *)
LEMMA PlanServes == ASSUME NEW abi PROVE Serves(abi)
<1> SUFFICES ASSUME NEW p \in PlanPaths PROVE Needs[p] \cap Handled(abi) \subseteq add_rule(p, abi)
  BY DEF Serves
<1>1. Needs[p] \subseteq plan_for[p]
  BY DEF PlanPaths, Needs, plan_for, READ, EXECUTE, WRITE
<1>2. IsDir(p) \/ Needs[p] \subseteq FILE_ACCESS
  BY DEF PlanPaths, Needs, IsDir, FILE_ACCESS
<1> QED BY <1>1, <1>2 DEF add_rule

(* The file-size limit leaves room for the disk image (fsize_limit).       *)
LEMMA FsizeHoldsTheImage ==
    ASSUME NEW rootfs \in Nat, NEW memory \in Int
    PROVE  fsize_limit(rootfs, memory) \in Int /\ rootfs <= fsize_limit(rootfs, memory)
BY DEF fsize_limit, FSIZE_HEADROOM

-----------------------------------------------------------------------------
(* config.py.                                                              *)

(* parse_memory_mib returns a number, and never one below the minimum.     *)
LEMMA MemoryHasMinimum ==
    ASSUME NEW memory \in Optional(Memories)
    PROVE  parse_memory_mib(memory) \in Int /\ parse_memory_mib(memory) >= 16
<1>1. MemoryUnclamped(memory) \in Int
  <2>1. CASE memory = Absent \/ ~memory.ok
    BY <2>1 DEF MemoryUnclamped, DEFAULT_MEM_MIB
  <2>2. CASE ~(memory = Absent \/ ~memory.ok)
    <3>1. memory.n \in Int /\ memory.unit \in {"b", "k", "m", "g"}
      BY <2>2 DEF Optional, Memories
    <3>2. memory.n * 1024 \in Int /\ memory.n \div 1024 \in Int /\ memory.n \div 1048576 \in Int
      BY <3>1
    <3> QED BY <2>2, <3>1, <3>2 DEF MemoryUnclamped
  <2> QED BY <2>1, <2>2
<1> QED BY <1>1 DEF parse_memory_mib, MIN_MEM_MIB

(* Whatever a room asks for, the machine is one that the VMM takes.        *)
LEMMA MachineIsTaken == ASSUME NEW r \in AnyRoom PROVE Takes(machine_config(r))
<1>1. r.cpus \in Int /\ r.memory \in Optional(Memories)
  BY DEF AnyRoom
<1> QED BY <1>1, MemoryHasMinimum DEF Takes, machine_config, MAX_VCPUS

(* The rooms of a configuration have at least one entry, and the fields    *)
(* that routing and opening rely on.                                       *)
RoomsOK(rooms) ==
    /\ DOMAIN rooms \subseteq Nat /\ DOMAIN rooms # {}
    /\ \A i \in DOMAIN rooms : rooms[i] \in AnyRoom

ConfigOK(c) ==
    /\ RoomsOK(c.rooms)
    /\ c.default_room \in Names(c.rooms)
    /\ c.backend \in KNOWN_BACKENDS
    /\ c.firecracker.confinement \in CONFINEMENT_MODES

(* next(iter(cfg.rooms)) is one of them.                                   *)
LEMMA FirstIsOne == ASSUME NEW rooms, RoomsOK(rooms) PROVE FirstOf(rooms) \in DOMAIN rooms
<1> DEFINE Less == {p \in Nat \X Nat : p[1] < p[2]}
<1>1. IsWellFoundedOn(Less, Nat)
  BY NatLessThanWellFounded DEF OpToRel
<1>2. PICK i \in DOMAIN rooms : \A j \in DOMAIN rooms : ~(<<j, i>> \in Less)
  <2>1. DOMAIN rooms \subseteq Nat /\ DOMAIN rooms # {}
    BY DEF RoomsOK
  <2> HIDE DEF Less
  <2> QED BY <1>1, <2>1, WFMin
<1>3. ASSUME NEW j \in DOMAIN rooms PROVE i <= j
  <2>1. <<j, i>> \in Nat \X Nat /\ <<j, i>>[1] = j /\ <<j, i>>[2] = i
    BY DEF RoomsOK
  <2>2. ~(<<j, i>>[1] < <<j, i>>[2])
    BY <1>2, <2>1
  <2> QED BY <2>1, <2>2
<1> QED BY <1>3 DEF FirstOf

(* The rooms that keycard has when the file names none.                    *)
LEMMA BuiltinRooms ==
    /\ RoomsOK(builtin_rooms) /\ DEFAULT_ROOM \in Names(builtin_rooms)
    /\ \A i \in DOMAIN builtin_rooms : builtin_rooms[i].backend = Absent
<1>1. DOMAIN BUILTIN_ROOMS = 1..3 /\ BUILTIN_ROOMS[1] = "ubuntu"
  BY DEF BUILTIN_ROOMS
<1>3. DOMAIN builtin_rooms = 1..3
  BY <1>1 DEF builtin_rooms
<1>4. \A i \in 1..3 : builtin_rooms[i] = [name |-> BUILTIN_ROOMS[i], backend |-> Absent, cpus |-> 0, memory |-> Absent]
  BY <1>1 DEF builtin_rooms
<1>5. \A i \in 1..3 : builtin_rooms[i] \in AnyRoom
  BY <1>1, <1>4 DEF AnyRoom, Optional
<1>6. builtin_rooms[1].name = "ubuntu" /\ 1 \in 1..3
  BY <1>1, <1>4
<1> QED BY <1>3, <1>4, <1>5, <1>6 DEF RoomsOK, Names, DEFAULT_ROOM

(* The entries of a file are numbered, and no two have the same name.      *)
LEMMA RoomsOfFile ==
    ASSUME NEW f \in Files, f # Absent
    PROVE  /\ \A i \in DOMAIN f.rooms : f.rooms[i] \in Entries
           /\ DOMAIN f.rooms \subseteq Nat
           /\ \A i, j \in DOMAIN f.rooms : f.rooms[i].name = f.rooms[j].name => i = j
<1>1. f \in AnyFile
  BY StartupAssumption DEF Optional
<1>2. f.rooms \in Seq(Entries)
  BY <1>1 DEF AnyFile
<1> QED BY <1>2, StartupAssumption

(* An entry that is read becomes a room of one of the known backends.      *)
LEMMA EntryIsRoom == ASSUME NEW e \in Entries PROVE RoomConfig(e) \in AnyRoom
<1>1. valid_backend(e.backend) \in Optional(KNOWN_BACKENDS)
  BY DEF valid_backend, Optional, KNOWN_BACKENDS, DEFAULT_BACKEND
<1>2. e.cpus \div 100 \in Int
  BY DEF Entries
<1>3. e.name \in STRING /\ e.memory \in Optional(Memories)
  BY DEF Entries
<1> QED BY <1>1, <1>2, <1>3 DEF RoomConfig, AnyRoom

(* What load leaves of a file: the rooms and the keys of routing.          *)
LEMMA RoomsLoaded ==
    ASSUME NEW f \in Files, f # Absent
    PROVE  /\ RoomsOK(load(f).rooms)
           /\ load(f).rooms = IF DOMAIN parse_rooms(f) = {} THEN builtin_rooms ELSE parse_rooms(f)
           /\ load(f).default_room = SettledDefault(Given(f.default_room, DEFAULT_ROOM), load(f).rooms)
           /\ load(f).backend = Given(valid_backend(f.backend), DEFAULT_BACKEND)
           /\ load(f).firecracker = parse_firecracker(f)
<1>1. load(f).rooms = IF DOMAIN parse_rooms(f) = {} THEN builtin_rooms ELSE parse_rooms(f)
  BY DEF load
<1>2. DOMAIN parse_rooms(f) \subseteq DOMAIN f.rooms
  BY DEF parse_rooms
<1>3. \A i \in DOMAIN parse_rooms(f) : parse_rooms(f)[i] \in AnyRoom
  BY EntryIsRoom, RoomsOfFile DEF parse_rooms
<1>4. RoomsOK(load(f).rooms)
  BY <1>1, <1>2, <1>3, BuiltinRooms, RoomsOfFile DEF RoomsOK
<1>5. /\ load(f).default_room = SettledDefault(Given(f.default_room, DEFAULT_ROOM), load(f).rooms)
      /\ load(f).backend = Given(valid_backend(f.backend), DEFAULT_BACKEND)
      /\ load(f).firecracker = parse_firecracker(f)
  BY DEF load
<1> QED BY <1>1, <1>4, <1>5

(* The default room is one of the rooms.                                   *)
LEMMA DefaultIsRoom ==
    ASSUME NEW name, NEW rooms, RoomsOK(rooms)
    PROVE  SettledDefault(name, rooms) \in Names(rooms)
BY FirstIsOne DEF SettledDefault, Names

(* The built-in configuration and every file that load accepts give every  *)
(* username a room, on a backend that exists, and a mode that exists.      *)
LEMMA LoadOK == ASSUME NEW f \in Files PROVE ConfigOK(load(f))
<1>1. CASE f = Absent
  <2>1. /\ load(f).rooms = builtin_rooms /\ load(f).default_room = DEFAULT_ROOM
        /\ load(f).backend = "docker" /\ load(f).firecracker.confinement = "best-effort"
    BY <1>1 DEF load, builtin_config, FirecrackerConfig, DEFAULT_CONFINEMENT, DEFAULT_BACKEND
  <2> QED BY <2>1, BuiltinRooms DEF ConfigOK, KNOWN_BACKENDS, CONFINEMENT_MODES
<1>2. CASE f # Absent
  <2>1. load(f).backend \in KNOWN_BACKENDS
    BY <1>2, RoomsLoaded DEF Given, valid_backend, KNOWN_BACKENDS, DEFAULT_BACKEND
  <2>2. load(f).firecracker.confinement \in CONFINEMENT_MODES
    <3>1. \A mode : confinement_mode(mode) \in CONFINEMENT_MODES
      BY DEF confinement_mode, CONFINEMENT_MODES, DEFAULT_CONFINEMENT
    <3>2. load(f).firecracker.confinement = confinement_mode(Given(f.confinement, DEFAULT_CONFINEMENT))
      <4>1. load(f).firecracker = parse_firecracker(f)
        BY <1>2, RoomsLoaded
      <4> QED BY <4>1 DEF parse_firecracker
    <3> QED BY <3>1, <3>2
  <2> QED BY <1>2, <2>1, <2>2, RoomsLoaded, DefaultIsRoom DEF ConfigOK
<1> QED BY <1>1, <1>2

(* The configuration that the server has before it has read the file.      *)
LEMMA BuiltinOK == ConfigOK(builtin_config)
<1>1. /\ builtin_config.rooms = builtin_rooms /\ builtin_config.default_room = DEFAULT_ROOM
      /\ builtin_config.backend = "docker" /\ builtin_config.firecracker.confinement = "best-effort"
  BY DEF builtin_config, FirecrackerConfig, DEFAULT_CONFINEMENT, DEFAULT_BACKEND
<1> QED BY <1>1, BuiltinRooms DEF ConfigOK, KNOWN_BACKENDS, CONFINEMENT_MODES

(* Without a file every room is on docker.                                 *)
LEMMA NoFileIsDocker ==
    /\ load(Absent).backend = "docker"
    /\ \A i \in DOMAIN load(Absent).rooms : load(Absent).rooms[i].backend = Absent
<1>1. load(Absent).rooms = builtin_rooms /\ load(Absent).backend = "docker"
  BY DEF load, builtin_config, DEFAULT_BACKEND
<1> QED BY <1>1, BuiltinRooms

(* A room that is found by its name is one of the rooms.                   *)
LEMMA NamedIsRoom ==
    ASSUME NEW c, NEW name \in Names(c.rooms)
    PROVE  /\ \E i \in DOMAIN c.rooms : RoomNamed(c, name) = c.rooms[i]
           /\ RoomNamed(c, name).name = name
<1>1. \E i \in DOMAIN c.rooms : c.rooms[i].name = name
  BY DEF Names
<1> QED BY <1>1 DEF RoomNamed

(* Whoever logs in gets one of the rooms (Config.resolve).                 *)
LEMMA ResolvedIsRoom ==
    ASSUME NEW c, ConfigOK(c), NEW u
    PROVE  \E i \in DOMAIN c.rooms : resolve(c, u) = c.rooms[i]
BY NamedIsRoom DEF resolve, ConfigOK

(* Its backend is one that RoutingBackend builds up front.                 *)
LEMMA RoutedInUse ==
    ASSUME NEW c, ConfigOK(c), NEW i \in DOMAIN c.rooms
    PROVE  name_for(c, c.rooms[i]) \in names_in_use(c)
BY DEF name_for, names_in_use, Given

(* Those are known ones.                                                   *)
LEMMA InUseAreKnown == ASSUME NEW c, ConfigOK(c) PROVE names_in_use(c) \subseteq KNOWN_BACKENDS
<1>1. \A i \in DOMAIN c.rooms : c.rooms[i].backend \in Optional(KNOWN_BACKENDS)
  BY DEF ConfigOK, RoomsOK, AnyRoom
<1> QED BY <1>1 DEF names_in_use, ConfigOK, Optional

-----------------------------------------------------------------------------
(***************************************************************************)
(* From the file to the open port.  Past the loading, the configuration    *)
(* routes as the file says and what load logs is logged; past the building *)
(* every backend that a room may name is there, and a firecracker one has  *)
(* seen its kernel and the host's Landlock.                                *)
(***************************************************************************)
Routing(c) == <<c.rooms, c.default_room, c.backend, c.firecracker>>

FileInv ==
    /\ file \in Files /\ host \in AnyHost /\ stage \in Stages /\ changed \in BOOLEAN
    /\ ConfigOK(cfg)
    /\ stage \notin {"loading", "refused"} =>
          Routing(cfg) = Routing(load(file)) /\ LoadWarnings(file) \subseteq said
    /\ stage = "listening" => KeepWarnings \subseteq said

BuiltInv ==
    /\ built \subseteq KNOWN_BACKENDS
    /\ stage = "loading" => built = {}
    /\ stage \notin {"loading", "building", "refused"} => names_in_use(cfg) \subseteq built
    /\ "firecracker" \in built => check_confinement /\ (host.kernel \/ changed)

(***************************************************************************)
(* A connection has a room of the configuration, and a VMM only if that is *)
(* a microVM; the VMM runs with the ruleset that the configuration and the *)
(* host ask for from the moment it is the VMM.                             *)
(***************************************************************************)
ConnInv ==
    /\ conn \in Phases
    /\ stage # "listening" => conn = "none"
    /\ conn = "none" => room = Absent
    /\ conn # "none" => \E i \in DOMAIN cfg.rooms : room = cfg.rooms[i]
    /\ why \in Optional(Reasons)
    /\ conn = "failed" <=> why # Absent

VmmInv ==
    /\ conn \in {"spawning", "child", "configuring", "booting"} \/ vmm # Absent =>
          name_for(cfg, room) = "firecracker" /\ conn # "none"
    /\ conn \in {"child", "configuring", "booting"} => vmm # Absent
    /\ vmm # Absent => vmm \in AnyVmm /\ vmm.rootfs <= vmm.fsize /\ (vmm.ruleset <=> Confines)
    /\ conn \in {"configuring", "booting", "open"} /\ vmm # Absent => (vmm.restricted <=> vmm.ruleset)

StartInv == FileInv /\ BuiltInv /\ ConnInv /\ VmmInv /\ OpensOnceAccepted

(* A starting keycard has read nothing and built nothing.                  *)
LEMMA InitStart == ASSUME StartupInit PROVE StartInv
<1>1. FileInv
  BY BuiltinOK, StartupAssumption DEF StartupInit, FileInv, Stages
<1>2. BuiltInv
  BY DEF StartupInit, BuiltInv
<1>3. ConnInv /\ VmmInv /\ OpensOnceAccepted
  BY DEF StartupInit, ConnInv, VmmInv, OpensOnceAccepted, Phases, Optional
<1> QED BY <1>1, <1>2, <1>3 DEF StartInv

(* A step that leaves the file and the configuration keeps what was loaded.*)
LEMMA KeepsFileInv ==
    ASSUME FileInv, UNCHANGED <<file, cfg>>, host' \in AnyHost, stage' \in Stages, changed' \in BOOLEAN,
           said \subseteq said', stage # "loading", stage # "refused",
           stage' = "listening" => stage = "listening" \/ KeepWarnings \subseteq said'
    PROVE  FileInv'
<1>1. KeepWarnings' = KeepWarnings
  BY DEF KeepWarnings
<1> QED BY <1>1 DEF FileInv

(* Before the port is open there is no connection to disturb.              *)
LEMMA KeepsNoConnection ==
    ASSUME ConnInv, VmmInv, stage # "listening", UNCHANGED connVars
    PROVE  ConnInv' /\ VmmInv' /\ OpensOnceAccepted'
<1>1. conn = "none" /\ vmm = Absent /\ room = Absent /\ why = Absent
  BY DEF ConnInv, VmmInv
<1>2. conn' = "none" /\ vmm' = Absent /\ room' = Absent /\ why' = Absent
  BY <1>1 DEF connVars
<1> QED BY <1>2 DEF ConnInv, VmmInv, OpensOnceAccepted, Phases, Optional

(* Every step of startup, up to the open port.                             *)
LEMMA StartingKeeps == ASSUME StartInv, Starting PROVE StartInv'
<1> USE DEF StartInv
<1>0. stage # "listening" /\ UNCHANGED connVars
  BY DEF Starting, Load, Construct, Constructed, KeepWindow, CheckKeys, CheckDurations, Bind, Step
<1>1. ConnInv' /\ VmmInv' /\ OpensOnceAccepted'
  BY <1>0, KeepsNoConnection
<1>2. ASSUME Load PROVE FileInv' /\ BuiltInv'
  <2>1. stage = "loading" /\ UNCHANGED <<file, host, built, changed>> /\ built = {}
    BY <1>2 DEF Load, Step, given, BuiltInv
  <2>2. CASE ~Accepted
    <3>1. stage' = "refused" /\ UNCHANGED <<cfg, said>>
      BY <1>2, <2>2 DEF Load, Step
    <3> QED BY <2>1, <3>1 DEF FileInv, BuiltInv, Stages
  <2>3. CASE Accepted
    <3>1. /\ stage' = "building" /\ said' = LoadWarnings(file)
          /\ cfg' = [load(file) EXCEPT !.keep_window = Given(flags.keep, @),
                                       !.listen = IF flags.port THEN "some" ELSE @]
      BY <1>2, <2>3 DEF Load, Step
    <3>2. /\ cfg'.rooms = load(file).rooms /\ cfg'.default_room = load(file).default_room
          /\ cfg'.backend = load(file).backend /\ cfg'.firecracker = load(file).firecracker
      BY <3>1 DEF load, builtin_config
    <3>3. ConfigOK(cfg') /\ Routing(cfg') = Routing(load(file))
      <4>1. ConfigOK(load(file))
        BY LoadOK DEF FileInv
      <4> QED BY <3>2, <4>1 DEF ConfigOK, Routing
    <3> QED BY <2>1, <3>1, <3>3 DEF FileInv, BuiltInv, Stages
  <2> QED BY <2>2, <2>3
<1>3. ASSUME NEW b \in KNOWN_BACKENDS, Construct(b) PROVE FileInv' /\ BuiltInv'
  <2>1. /\ stage = "building" /\ stage' = (IF Constructs(b) THEN "building" ELSE "refused")
        /\ built' = (IF Constructs(b) THEN built \cup {b} ELSE built)
        /\ UNCHANGED <<file, host, cfg, said, changed>>
    BY <1>3 DEF Construct, Step, given
  <2>2. FileInv'
    BY <2>1, KeepsFileInv DEF FileInv, Stages
  <2>3. b = "firecracker" /\ Constructs(b) => check_confinement /\ host.kernel
    BY DEF Constructs, preflight
  <2>4. BuiltInv'
    BY <2>1, <2>3 DEF BuiltInv, check_confinement
  <2> QED BY <2>2, <2>4
<1>4. ASSUME Constructed \/ KeepWindow \/ CheckDurations PROVE FileInv' /\ BuiltInv'
  <2>1. /\ stage \in {"building", "keeping", "durations"} /\ stage' \in {"keeping", "keys", "binding", "refused"}
        /\ stage = "building" => names_in_use(cfg) \subseteq built
        /\ UNCHANGED <<file, host, cfg, built, said, changed>>
    BY <1>4 DEF Constructed, KeepWindow, CheckDurations, Step, given
  <2>2. FileInv'
    BY <2>1, KeepsFileInv DEF FileInv, Stages
  <2>3. BuiltInv'
    BY <2>1 DEF BuiltInv, check_confinement
  <2> QED BY <2>2, <2>3
<1>5. ASSUME CheckKeys PROVE FileInv' /\ BuiltInv'
  <2>1. /\ stage = "keys" /\ stage' \in {"durations", "refused"}
        /\ UNCHANGED <<file, cfg, built, said, changed>>
        /\ host' = IF host.keys THEN [host EXCEPT !.host_key = TRUE] ELSE host
    BY <1>5 DEF CheckKeys, Step, given
  <2>2. host' \in AnyHost /\ host'.abi = host.abi /\ host'.kernel = host.kernel
    BY <2>1 DEF FileInv, AnyHost
  <2>3. FileInv'
    BY <2>1, <2>2, KeepsFileInv DEF FileInv, Stages
  <2>4. BuiltInv'
    BY <2>1, <2>2 DEF BuiltInv, check_confinement
  <2> QED BY <2>3, <2>4
<1>6. ASSUME Bind PROVE FileInv' /\ BuiltInv'
  <2>1. /\ stage = "binding" /\ stage' \in {"listening", "refused"}
        /\ said' = (IF stage' = "listening" THEN said \cup KeepWarnings ELSE said)
        /\ UNCHANGED <<file, host, cfg, built, changed>>
    BY <1>6 DEF Bind, Step, given
  <2>2. FileInv'
    BY <2>1, KeepsFileInv DEF FileInv, Stages
  <2>3. BuiltInv'
    BY <2>1 DEF BuiltInv, check_confinement
  <2> QED BY <2>2, <2>3
<1> QED BY <1>1, <1>2, <1>3, <1>4, <1>5, <1>6 DEF Starting

(* The backend of a connection's room is there before the login.           *)
LEMMA BackendIsThere ==
    ASSUME FileInv, BuiltInv, ConnInv, stage = "listening", conn # "none"
    PROVE  /\ name_for(cfg, room) \in built
           /\ room \in AnyRoom
           /\ name_for(cfg, room) = "firecracker" => check_confinement /\ (host.kernel \/ changed)
<1>1. PICK i \in DOMAIN cfg.rooms : room = cfg.rooms[i]
  BY DEF ConnInv
<1>2. name_for(cfg, room) \in names_in_use(cfg)
  BY <1>1, RoutedInUse DEF FileInv
<1>3. names_in_use(cfg) \subseteq built
  BY DEF BuiltInv
<1>4. room \in AnyRoom
  BY <1>1 DEF FileInv, ConfigOK, RoomsOK
<1> QED BY <1>2, <1>3, <1>4 DEF BuiltInv

(* What every step of a connection leaves alone.                           *)
LEMMA ConnectionLeaves ==
    ASSUME StartInv, Connection
    PROVE  /\ UNCHANGED <<file, host, cfg, built, said, stage, changed>>
           /\ stage = "listening"
<1> USE DEF given, Proceeds, OpensIf
<1>1. CASE Get
  <2>1. stage = "listening" /\ conn = "routed" /\ UNCHANGED <<file, host, cfg, said, stage, changed>>
    BY <1>1 DEF Get
  <2>2. name_for(cfg, room) \in built
    BY <2>1, BackendIsThere DEF StartInv
  <2>3. built' = built
    BY <1>1, <2>2 DEF Get
  <2> QED BY <2>1, <2>3
<1>2. ASSUME NEW u \in Usernames, Login(u)
      PROVE  UNCHANGED <<file, host, cfg, built, said, stage, changed>> /\ stage = "listening"
  BY <1>2 DEF Login
<1>3. CASE OpenDocker \/ ImageUnavailable \/ OpenFirecracker
  BY <1>3 DEF OpenDocker, ImageUnavailable, OpenFirecracker
<1>4. CASE Spawn \/ ChildSetup \/ ChildFails
  BY <1>4 DEF Spawn, ChildSetup, ChildFails
<1>5. CASE Configure \/ Boot \/ BootOverdue \/ Leave
  BY <1>5 DEF Configure, Boot, BootOverdue, Leave
<1> QED BY <1>1, <1>2, <1>3, <1>4, <1>5 DEF Connection

(* A connection's steps keep its room, its VMM and the reasons in order.   *)
LEMMA ConnectionKeeps == ASSUME StartInv, Connection PROVE ConnInv' /\ VmmInv' /\ OpensOnceAccepted'
<1> USE DEF StartInv
<1>0. UNCHANGED <<file, host, cfg, built, said, stage, changed>> /\ stage = "listening"
  BY ConnectionLeaves
<1>1. Absent \notin Reasons
  BY StartupAssumption
<1>2. conn # "none" => /\ name_for(cfg, room) \in built /\ room \in AnyRoom
                       /\ name_for(cfg, room) = "firecracker" => check_confinement /\ (host.kernel \/ changed)
  BY <1>0, BackendIsThere
<1>3. Confines' <=> Confines
  BY <1>0 DEF Confines
<1>4. host.abi \in Nat /\ host.image \in Nat
  BY DEF FileInv, AnyHost
<1> USE <1>0 DEF Proceeds, OpensIf
(* A step that only moves the connection on, or fails it for a reason that *)
(* startup could not have known.                                           *)
<1>5. ASSUME conn \notin {"none", "failed"}, UNCHANGED <<room, vmm>>,
             \/ /\ conn' = "failed"
                /\ why' \in Reasons /\ (why' \in {"image", "rootfs", "memory", "boot_timeout", "child", "no_boot"} \/ changed)
             \/ /\ conn' \in Phases \ {"none", "failed", "child", "configuring"} /\ why' = why
                /\ conn' \in {"spawning", "booting"} => name_for(cfg, room) = "firecracker"
                /\ conn' = "booting" => conn = "configuring"
                /\ conn' = "open" => conn = "booting" \/ vmm = Absent
      PROVE  ConnInv' /\ VmmInv' /\ OpensOnceAccepted'
  <2>1. ConnInv'
    BY <1>1, <1>5 DEF ConnInv, Optional, Phases
  <2>2. VmmInv'
    BY <1>3, <1>5 DEF VmmInv
  <2>3. OpensOnceAccepted'
    BY <1>5 DEF OpensOnceAccepted
  <2> QED BY <2>1, <2>2, <2>3
<1>6. ASSUME NEW u \in Usernames, Login(u) PROVE ConnInv' /\ VmmInv' /\ OpensOnceAccepted'
  <2>1. conn = "none" /\ conn' = "routed" /\ UNCHANGED <<vmm, why>> /\ room' = resolve(cfg, u)
    BY <1>6 DEF Login
  <2>2. \E i \in DOMAIN cfg.rooms : room' = cfg.rooms[i]
    BY <2>1, ResolvedIsRoom DEF FileInv
  <2>3. vmm' = Absent
    BY <2>1 DEF VmmInv
  <2> QED BY <2>1, <2>2, <2>3 DEF ConnInv, VmmInv, OpensOnceAccepted, Phases
<1>7. CASE Get
  <2>1. conn = "routed" /\ conn' = "opening" /\ why' = why /\ UNCHANGED <<room, vmm>>
    BY <1>2, <1>7 DEF Get
  <2> QED BY <1>5, <2>1 DEF Phases
<1>8. CASE OpenDocker
  <2>1. /\ conn = "opening" /\ UNCHANGED <<room, vmm>> /\ vmm = Absent
        /\ (conn' = "open" /\ why' = why) \/ (conn' = "failed" /\ why' = "memory")
    BY <1>8 DEF OpenDocker, VmmInv
  <2> QED BY <1>5, <2>1 DEF Phases, Reasons
<1>9. CASE ImageUnavailable
  BY <1>5, <1>9 DEF ImageUnavailable, Reasons
<1>10. CASE OpenFirecracker
  <2>1. /\ conn = "opening" /\ UNCHANGED <<room, vmm>> /\ name_for(cfg, room) = "firecracker"
        /\ (conn' = "spawning" /\ why' = why) \/ (conn' = "failed" /\ why' = "rootfs")
    BY <1>10 DEF OpenFirecracker
  <2> QED BY <1>5, <2>1 DEF Phases, Reasons
<1>11. CASE Spawn
  <2>0. conn = "spawning" /\ name_for(cfg, room) = "firecracker" /\ UNCHANGED room
    BY <1>11 DEF Spawn, VmmInv
  <2>1. CASE ~(host.image > 0 /\ (Confines => KernelTakes(host.abi) /\ host.kernel))
    <3>1. conn' = "failed" /\ vmm' = vmm /\ why' = IF host.image = 0 THEN "rootfs" ELSE "ruleset"
      BY <1>11, <2>1 DEF Spawn
    <3>2. host.image # 0 => changed
      <4>1. host.image # 0 => Confines /\ ~(KernelTakes(host.abi) /\ host.kernel)
        BY <1>4, <2>1
      <4>2. Confines => KernelTakes(host.abi)
        BY <1>4, KernelTakesPlan DEF Confines
      <4> QED BY <1>2, <2>0, <4>1, <4>2
    <3> QED BY <1>5, <2>0, <3>1, <3>2 DEF Reasons
  <2>2. CASE host.image > 0 /\ (Confines => KernelTakes(host.abi) /\ host.kernel)
    <3>1. /\ conn' = "child" /\ why' = why
          /\ vmm' = [rootfs |-> host.image,
                     fsize |-> fsize_limit(host.image, parse_memory_mib(room.memory)),
                     ruleset |-> Confines, restricted |-> FALSE]
      BY <1>11, <2>2 DEF Spawn
    <3>2. /\ fsize_limit(host.image, parse_memory_mib(room.memory)) \in Int
          /\ host.image <= fsize_limit(host.image, parse_memory_mib(room.memory))
      <4>1. room.memory \in Optional(Memories)
        BY <1>2, <2>0 DEF AnyRoom
      <4> QED BY <1>4, <4>1, MemoryHasMinimum, FsizeHoldsTheImage
    <3>3. Confines \in BOOLEAN
      BY DEF Confines
    <3>4. /\ vmm' \in AnyVmm /\ vmm'.rootfs <= vmm'.fsize /\ (vmm'.ruleset <=> Confines)
      BY <1>4, <3>1, <3>2, <3>3 DEF AnyVmm
    <3>5. vmm' # Absent
      BY <3>4, StartupAssumption
    <3>6. ConnInv'
      BY <2>0, <3>1 DEF ConnInv, Phases
    <3>7. VmmInv'
      BY <1>3, <2>0, <3>1, <3>4, <3>5 DEF VmmInv
    <3>8. OpensOnceAccepted'
      BY <3>1 DEF OpensOnceAccepted
    <3> QED BY <3>6, <3>7, <3>8
  <2> QED BY <2>1, <2>2
<1>12. CASE ChildSetup
  <2>1. /\ conn = "child" /\ conn' = "configuring" /\ UNCHANGED <<room, why>>
        /\ vmm' = [vmm EXCEPT !.restricted = vmm.ruleset]
    BY <1>12 DEF ChildSetup
  <2>2. vmm \in AnyVmm /\ vmm.rootfs <= vmm.fsize /\ (vmm.ruleset <=> Confines) /\ name_for(cfg, room) = "firecracker"
    BY <2>1 DEF VmmInv
  <2>3. /\ vmm' \in AnyVmm /\ vmm'.rootfs = vmm.rootfs /\ vmm'.fsize = vmm.fsize
        /\ vmm'.ruleset = vmm.ruleset /\ vmm'.restricted = vmm.ruleset
    BY <2>1, <2>2 DEF AnyVmm
  <2>4. vmm' # Absent
    BY <2>3, StartupAssumption
  <2>5. ConnInv'
    BY <2>1 DEF ConnInv, Phases
  <2>6. VmmInv'
    BY <1>3, <2>1, <2>2, <2>3, <2>4 DEF VmmInv
  <2>7. OpensOnceAccepted'
    BY <2>1 DEF OpensOnceAccepted
  <2> QED BY <2>5, <2>6, <2>7
<1>13. CASE ChildFails
  BY <1>5, <1>13 DEF ChildFails, Reasons
<1>14. CASE Configure
  <2>1. /\ conn = "configuring" /\ UNCHANGED <<room, vmm>>
        /\ \/ conn' = "booting" /\ why' = why
           \/ /\ conn' = "failed" /\ why' = (IF Reaches THEN "machine" ELSE "denied")
              /\ ~(Takes(machine_config(room)) /\ Reaches)
    BY <1>14 DEF Configure
  <2>2. name_for(cfg, room) = "firecracker"
    BY <2>1 DEF VmmInv
  <2>3. Takes(machine_config(room))
    BY <1>2, <2>1, MachineIsTaken
  <2>4. ~Reaches => changed
    BY <1>2, <2>1, <2>2, PlanServes DEF Reaches
  <2> QED BY <1>5, <2>1, <2>2, <2>3, <2>4 DEF Phases, Reasons
<1>15. CASE Boot
  <2>1. conn = "booting" /\ UNCHANGED <<room, vmm>>
    BY <1>15 DEF Boot
  <2>2. vmm.rootfs <= vmm.fsize
    BY <2>1 DEF VmmInv
  <2>3. (conn' = "open" /\ why' = why) \/ (conn' = "failed" /\ why' = "boot_timeout")
    BY <1>15, <2>2 DEF Boot
  <2> QED BY <1>5, <2>1, <2>3 DEF Phases, Reasons
<1>16. CASE BootOverdue
  BY <1>5, <1>16 DEF BootOverdue, Reasons
<1>17. CASE Leave
  BY <1>17 DEF Leave, ConnInv, VmmInv, OpensOnceAccepted, Phases, Optional
<1> HIDE DEF StartInv
<1> QED BY <1>6, <1>7, <1>8, <1>9, <1>10, <1>11, <1>12, <1>13, <1>14, <1>15, <1>16, <1>17 DEF Connection

(* A file of the host that vanishes takes nothing back of what was built.  *)
LEMMA HostChangeKeeps == ASSUME StartInv, HostChanges PROVE StartInv'
<1> USE DEF StartInv
<1>1. /\ stage = "listening" /\ changed' /\ changed' \in BOOLEAN
      /\ UNCHANGED <<file, stage, cfg, built, said, conn, room, vmm, why>>
  BY DEF HostChanges, given, connVars
<1>2. host' \in AnyHost /\ host'.abi = host.abi
  <2>1. host \in AnyHost
    BY DEF FileInv
  <2>2. host' = [host EXCEPT !.kernel = FALSE] \/ host' = [host EXCEPT !.image = 0]
    BY DEF HostChanges
  <2>3. CASE host' = [host EXCEPT !.kernel = FALSE]
    BY <2>1, <2>3 DEF AnyHost
  <2>4. CASE host' = [host EXCEPT !.image = 0]
    BY <2>1, <2>4 DEF AnyHost
  <2> QED BY <2>2, <2>3, <2>4
<1>3. FileInv'
  BY <1>1, <1>2, KeepsFileInv DEF FileInv
<1>4. BuiltInv'
  BY <1>1, <1>2 DEF BuiltInv, check_confinement
<1>5. ConnInv' /\ VmmInv'
  BY <1>1, <1>2 DEF ConnInv, VmmInv, Confines
<1>6. OpensOnceAccepted'
  BY <1>1 DEF OpensOnceAccepted
<1> QED BY <1>3, <1>4, <1>5, <1>6

(* Every step of keycard up and of a connection.                           *)
LEMMA NextStart == ASSUME StartInv, [StartupNext]_startVars PROVE StartInv'
<1>1. CASE Starting
  BY <1>1, StartingKeeps
<1>2. CASE Connection
  <2>1. UNCHANGED <<file, host, cfg, built, said, stage, changed>> /\ stage = "listening"
    BY <1>2, ConnectionLeaves
  <2>2. FileInv'
    BY <2>1, KeepsFileInv DEF StartInv, FileInv
  <2>3. BuiltInv'
    BY <2>1 DEF StartInv, BuiltInv, check_confinement
  <2> QED BY <1>2, <2>2, <2>3, ConnectionKeeps DEF StartInv
<1>3. CASE HostChanges
  BY <1>3, HostChangeKeeps
<1>4. CASE UNCHANGED startVars
  <2>1. UNCHANGED <<file, host, cfg, built, said, stage, changed, conn, room, vmm, why>>
    BY <1>4 DEF startVars, given, connVars
  <2>2. KeepWarnings' = KeepWarnings
    BY <2>1 DEF KeepWarnings
  <2>3. FileInv'
    BY <2>1, <2>2 DEF StartInv, FileInv
  <2>4. BuiltInv'
    BY <2>1 DEF StartInv, BuiltInv, check_confinement
  <2>5. ConnInv' /\ VmmInv' /\ OpensOnceAccepted'
    BY <2>1 DEF StartInv, ConnInv, VmmInv, OpensOnceAccepted, Confines
  <2> QED BY <2>3, <2>4, <2>5 DEF StartInv
<1> QED BY <1>1, <1>2, <1>3, <1>4 DEF StartupNext, Refused

(* The invariant of keycard up.                                            *)
THEOREM StartInvariance == StartupSpec => []StartInv
<1>1. StartupInit => StartInv
  BY InitStart
<1>2. StartInv /\ [StartupNext]_startVars => StartInv'
  BY NextStart
<1> QED BY <1>1, <1>2, PTL DEF StartupSpec

(* Whatever the file says, every username has a room on a backend that     *)
(* exists, and a connection has one room and at most one reason to fail    *)
(* (load, Config.resolve).                                                 *)
THEOREM StartupTypeCorrect == StartupSpec => []StartupTypeOK
<1>1. ASSUME StartInv PROVE StartupTypeOK
  <2> USE <1>1 DEF StartInv
  <2>1. stage \in Stages /\ changed \in BOOLEAN
    BY DEF FileInv
  <2>2. /\ cfg.default_room \in Names(cfg.rooms) /\ names_in_use(cfg) \cup built \subseteq KNOWN_BACKENDS
        /\ cfg.firecracker.confinement \in CONFINEMENT_MODES
    BY InUseAreKnown DEF FileInv, BuiltInv, ConfigOK
  <2>3. conn \in Phases /\ why \in Reasons \cup {Absent}
    BY DEF ConnInv, Optional
  <2>4. room = Absent <=> conn = "none"
    BY StartupAssumption DEF ConnInv, FileInv, ConfigOK, RoomsOK
  <2>5. why = Absent <=> conn # "failed"
    BY DEF ConnInv
  <2>6. (room = Absent) = (conn = "none") /\ (why = Absent) = (conn # "failed")
    BY <2>4, <2>5
  <2> QED BY <2>1, <2>2, <2>3, <2>6 DEF StartupTypeOK
<1> QED BY <1>1, StartInvariance, PTL

(* No login constructs a backend, for any file and any username: whatever  *)
(* name a room may have, RoutingBackend built its backend before the port  *)
(* was open (RoutingBackend.__init__, _get).                               *)
THEOREM BackendsUpFront == StartupSpec => BuiltUpFront
<1>1. ASSUME StartInv, [StartupNext]_startVars
      PROVE  [stage = "listening" => built' = built]_startVars
  <2> SUFFICES ASSUME StartupNext, stage = "listening" PROVE built' = built
    BY <1>1
  <2>1. CASE Starting
    BY <2>1 DEF Starting, Load, Construct, Constructed, KeepWindow, CheckKeys, CheckDurations, Bind, Step
  <2>2. CASE Connection
    BY <1>1, <2>2, ConnectionLeaves
  <2>3. CASE HostChanges \/ Refused
    BY <2>3 DEF HostChanges, Refused, startVars
  <2> QED BY <2>1, <2>2, <2>3 DEF StartupNext
<1> QED BY <1>1, StartInvariance, PTL DEF StartupSpec, BuiltUpFront

(* On any host and for any file, no microVM runs unrestricted unless the   *)
(* file says "off", or the kernel has no Landlock and the file does not    *)
(* say "required" (_check_confinement, _ruleset_for, child_setup).         *)
THEOREM ConfinementKept == StartupSpec => []ConfinedAsPromised
<1>1. ASSUME StartInv PROVE ConfinedAsPromised
  <2> SUFFICES ASSUME conn \in {"configuring", "booting", "open"}, vmm # Absent, ~vmm.restricted
               PROVE  file.confinement = "off" \/ (host.abi = 0 /\ file.confinement # "required")
    BY DEF ConfinedAsPromised
  <2>1. name_for(cfg, room) = "firecracker" /\ ~Confines
    BY <1>1 DEF StartInv, VmmInv
  <2>2. stage = "listening" /\ check_confinement
    BY <1>1, <2>1, BackendIsThere DEF StartInv, ConnInv
  <2>3. Routing(cfg) = Routing(load(file))
    BY <1>1, <2>2 DEF StartInv, FileInv
  <2>4. file # Absent
    <3>1. PICK i \in DOMAIN cfg.rooms : room = cfg.rooms[i]
      BY <1>1 DEF StartInv, ConnInv
    <3>2. cfg.rooms = load(file).rooms /\ cfg.backend = load(file).backend
      BY <2>3 DEF Routing
    <3> QED BY <2>1, <3>1, <3>2, NoFileIsDocker DEF name_for, Given
  <2>5. cfg.firecracker.confinement = confinement_mode(Given(file.confinement, DEFAULT_CONFINEMENT))
    <3>1. cfg.firecracker = load(file).firecracker
      BY <2>3 DEF Routing
    <3>2. file \in Files
      BY <1>1 DEF StartInv, FileInv
    <3>3. load(file).firecracker = parse_firecracker(file)
      BY <2>4, <3>2, RoomsLoaded
    <3> QED BY <3>1, <3>3 DEF parse_firecracker
  <2>6. host.abi \in Nat
    BY <1>1 DEF StartInv, FileInv, AnyHost
  <2>7. CASE cfg.firecracker.confinement = "off"
    BY <2>5, <2>7 DEF confinement_mode, Given, DEFAULT_CONFINEMENT, CONFINEMENT_MODES
  <2>8. CASE cfg.firecracker.confinement # "off"
    <3>1. host.abi = 0 /\ cfg.firecracker.confinement # "required"
      BY <2>1, <2>2, <2>6, <2>8 DEF Confines, check_confinement
    <3>2. file.confinement # "required"
      BY <2>5, <3>1, StartupAssumption DEF confinement_mode, Given, CONFINEMENT_MODES
    <3> QED BY <3>1, <3>2
  <2> QED BY <2>7, <2>8
<1> QED BY <1>1, StartInvariance, PTL

(* Once startup accepted a host and a file, no kernel refuses a rule or    *)
(* keeps the VMM from what it needs, no machine is out of its range and no *)
(* disk image outgrows its limit, whatever the memory and the cpus of the  *)
(* room (build_ruleset, machine_config, fsize_limit).                      *)
THEOREM AcceptedOpens == StartupSpec => []OpensOnceAccepted
<1>1. StartInv => OpensOnceAccepted
  BY DEF StartInv
<1> QED BY <1>1, StartInvariance, PTL

-----------------------------------------------------------------------------
(* What load logs.                                                         *)
LEMMA LoadLogs ==
    ASSUME NEW f, f # Absent
    PROVE  /\ f.backend \notin KNOWN_BACKENDS \cup {Absent, ""} => <<"file", "backend">> \in LoadWarnings(f)
           /\ f.confinement \notin CONFINEMENT_MODES \cup {Absent} => <<"file", "confinement">> \in LoadWarnings(f)
           /\ Given(f.default_room, DEFAULT_ROOM) \notin Names(load(f).rooms) =>
                <<"file", "default_room">> \in LoadWarnings(f)
           /\ (\A i \in DOMAIN f.rooms : ~IsRead(f.rooms[i])) => <<"file", "rooms">> \in LoadWarnings(f)
           /\ \A i \in DOMAIN f.rooms :
                /\ f.rooms[i].table /\ ~f.rooms[i].image => <<f.rooms[i].name, "image">> \in LoadWarnings(f)
                /\ IsRead(f.rooms[i]) /\ f.rooms[i].backend \notin KNOWN_BACKENDS \cup {Absent, ""} =>
                     <<f.rooms[i].name, "backend">> \in LoadWarnings(f)
                /\ f.rooms[i].table /\ f.rooms[i].pids /\ f.rooms[i].name \in MicroVMRooms(load(f)) =>
                     <<f.rooms[i].name, "pids_limit">> \in LoadWarnings(f)
<1>1. LoadWarnings(f) =
        {<<f.rooms[i].name, "pids_limit">> :
            i \in {j \in DOMAIN f.rooms :
                     f.rooms[j].table /\ f.rooms[j].pids /\ f.rooms[j].name \in MicroVMRooms(load(f))}}
        \cup {<<f.rooms[i].name, "image">> :
                 i \in {j \in DOMAIN f.rooms : f.rooms[j].table /\ ~f.rooms[j].image}}
        \cup {<<f.rooms[i].name, "backend">> :
                 i \in {j \in DOMAIN f.rooms :
                          IsRead(f.rooms[j]) /\ f.rooms[j].backend \notin KNOWN_BACKENDS \cup {Absent, ""}}}
        \cup {<<"file", "backend">> : x \in {f.backend} \ (KNOWN_BACKENDS \cup {Absent, ""})}
        \cup {<<"file", "confinement">> : x \in {f.confinement} \ (CONFINEMENT_MODES \cup {Absent})}
        \cup {<<"file", "default_room">> : x \in {Given(f.default_room, DEFAULT_ROOM)} \ Names(load(f).rooms)}
        \cup {<<"file", "rooms">> : x \in {parse_rooms(f)} \cap {<<>>}}
  BY DEF LoadWarnings, warn_ignored_room_keys, OfEntries
<1>2. ASSUME \A i \in DOMAIN f.rooms : ~IsRead(f.rooms[i]) PROVE parse_rooms(f) = <<>>
  <2>1. {j \in DOMAIN f.rooms : IsRead(f.rooms[j])} = {}
    BY <1>2
  <2> QED BY <2>1 DEF parse_rooms
<1> QED BY <1>1, <1>2

(* An entry that is read is the room of its name.                          *)
LEMMA EntryIsItsRoom ==
    ASSUME NEW f \in Files, f # Absent, NEW i \in DOMAIN f.rooms, IsRead(f.rooms[i])
    PROVE  /\ f.rooms[i].name \in Names(load(f).rooms)
           /\ RoomNamed(load(f), f.rooms[i].name).backend = valid_backend(f.rooms[i].backend)
<1> DEFINE p == parse_rooms(f)
<1>1. /\ DOMAIN p = {j \in DOMAIN f.rooms : IsRead(f.rooms[j])}
      /\ \A j \in DOMAIN p : p[j] = RoomConfig(f.rooms[j])
  BY DEF parse_rooms
<1>2. \A j \in DOMAIN p : p[j].name = f.rooms[j].name /\ p[j].backend = valid_backend(f.rooms[j].backend)
  <2>1. \A e : RoomConfig(e).name = e.name /\ RoomConfig(e).backend = valid_backend(e.backend)
    BY DEF RoomConfig
  <2> HIDE DEF p
  <2> QED BY <1>1, <2>1
<1>3. i \in DOMAIN p
  BY <1>1
<1>4. load(f).rooms = p
  BY <1>3, RoomsLoaded
<1>5. f.rooms[i].name \in Names(load(f).rooms)
  BY <1>2, <1>3, <1>4 DEF Names
<1>6. PICK k \in DOMAIN p : RoomNamed(load(f), f.rooms[i].name) = p[k] /\ p[k].name = f.rooms[i].name
  BY <1>4, <1>5, NamedIsRoom
<1>7. k = i
  <2>1. k \in DOMAIN f.rooms /\ f.rooms[k].name = f.rooms[i].name
    BY <1>1, <1>2, <1>6
  <2> QED BY <2>1, RoomsOfFile
<1> QED BY <1>2, <1>5, <1>6, <1>7

(* A backend, a mode, a default_room, an image, pids_limit or keep that a  *)
(* file asks for and does not get is in the log when the port is open, for *)
(* any file; so is a file without a room.  Nothing is said of the cases in *)
(* InSilence: an entry that is no table, network on a microVM, cpus that   *)
(* are cut, and a backend that is the empty string (load, _warn_ignored_room_keys, the  *)
(* warning of serve about --keep).                                         *)
THEOREM FallbacksLogged == StartupSpec => []FallbacksAreLogged
<1>1. ASSUME StartInv PROVE FallbacksAreLogged
  <2> SUFFICES ASSUME stage = "listening", file # Absent
               PROVE  /\ file.backend \in {Absent, "", cfg.backend} \/ <<"file", "backend">> \in said
                      /\ file.confinement \in {Absent, cfg.firecracker.confinement} \/ <<"file", "confinement">> \in said
                      /\ file.default_room \in {Absent, cfg.default_room} \/ <<"file", "default_room">> \in said
                      /\ (\A i \in DOMAIN file.rooms : ~IsRead(file.rooms[i])) => <<"file", "rooms">> \in said
                      /\ \A i \in DOMAIN file.rooms :
                            \A k \in Unhonoured(file.rooms[i]) \ InSilence(file.rooms[i]) :
                               <<file.rooms[i].name, k>> \in said
    BY DEF FallbacksAreLogged
  <2>1. file \in Files /\ LoadWarnings(file) \subseteq said /\ KeepWarnings \subseteq said
    BY <1>1 DEF StartInv, FileInv
  <2>2. /\ cfg.rooms = load(file).rooms /\ cfg.default_room = load(file).default_room
        /\ cfg.backend = load(file).backend /\ cfg.firecracker = load(file).firecracker
    BY <1>1 DEF StartInv, FileInv, Routing
  <2>3. /\ cfg.default_room = SettledDefault(Given(file.default_room, DEFAULT_ROOM), cfg.rooms)
        /\ cfg.backend = Given(valid_backend(file.backend), DEFAULT_BACKEND)
        /\ cfg.firecracker = parse_firecracker(file)
    BY <2>1, <2>2, RoomsLoaded
  <2>4. file.backend \in {Absent, "", cfg.backend} \/ <<"file", "backend">> \in said
    <3>1. file.backend \in KNOWN_BACKENDS => cfg.backend = file.backend
      BY <2>3, StartupAssumption DEF Given, valid_backend
    <3> QED BY <2>1, <3>1, LoadLogs
  <2>5. file.confinement \in {Absent, cfg.firecracker.confinement} \/ <<"file", "confinement">> \in said
    <3>1. cfg.firecracker.confinement = confinement_mode(Given(file.confinement, DEFAULT_CONFINEMENT))
      BY <2>3 DEF parse_firecracker
    <3>2. file.confinement \in CONFINEMENT_MODES => cfg.firecracker.confinement = file.confinement
      BY <3>1, StartupAssumption DEF Given, confinement_mode
    <3> QED BY <2>1, <3>2, LoadLogs
  <2>6. file.default_room \in {Absent, cfg.default_room} \/ <<"file", "default_room">> \in said
    <3>1. Given(file.default_room, DEFAULT_ROOM) \in Names(cfg.rooms) =>
            cfg.default_room = Given(file.default_room, DEFAULT_ROOM)
      BY <2>3 DEF SettledDefault
    <3>2. Given(file.default_room, DEFAULT_ROOM) \notin Names(cfg.rooms) => <<"file", "default_room">> \in said
      BY <2>1, <2>2, LoadLogs
    <3> QED BY <3>1, <3>2 DEF Given
  <2>7. (\A i \in DOMAIN file.rooms : ~IsRead(file.rooms[i])) => <<"file", "rooms">> \in said
    BY <2>1, LoadLogs
  <2>8. ASSUME NEW i \in DOMAIN file.rooms,
               NEW k \in Unhonoured(file.rooms[i]) \ InSilence(file.rooms[i])
        PROVE  <<file.rooms[i].name, k>> \in said
    <3> DEFINE e == file.rooms[i]
               b == name_for(cfg, RoomNamed(cfg, e.name))
    <3>1. CASE e.table /\ ~e.image
      <4>1. k = "image"
        BY <3>1, <2>8 DEF Unhonoured
      <4> QED BY <2>1, <3>1, <4>1, LoadLogs
    <3>2. CASE IsRead(e)
      <4>1. /\ e.name \in Names(cfg.rooms)
            /\ RoomNamed(cfg, e.name).backend = valid_backend(e.backend)
        <5>1. RoomNamed(cfg, e.name) = RoomNamed(load(file), e.name)
          BY <2>2 DEF RoomNamed
        <5> QED BY <2>1, <2>2, <3>2, <5>1, EntryIsItsRoom
      <4>2. b = "firecracker" => e.name \in MicroVMRooms(cfg)
        BY <4>1 DEF MicroVMRooms
      <4>3. MicroVMRooms(cfg) = MicroVMRooms(load(file))
        BY <2>2 DEF MicroVMRooms, name_for, RoomNamed
      <4>4. \/ k = "backend" /\ e.backend \notin {Absent, b}
            \/ k = "pids_limit" /\ e.pids /\ b = "firecracker"
            \/ k = "keep" /\ cfg.keep_window = "some" /\ b = "firecracker"
        BY <3>2 DEF Unhonoured, InSilence, IsRead
      <4>5. CASE k = "backend" /\ e.backend \notin {Absent, b}
        <5>1. e.backend # ""
          BY <4>5 DEF InSilence
        <5>2. e.backend \in KNOWN_BACKENDS => b = e.backend
          BY <4>1, StartupAssumption DEF name_for, Given, valid_backend
        <5> QED BY <2>1, <3>2, <4>5, <5>1, <5>2, LoadLogs
      <4>6. CASE k = "pids_limit" /\ e.pids /\ b = "firecracker"
        BY <2>1, <3>2, <4>2, <4>3, <4>6, LoadLogs DEF IsRead
      <4>7. CASE k = "keep" /\ cfg.keep_window = "some" /\ b = "firecracker"
        <5>1. <<e.name, "keep">> \in KeepWarnings
          BY <4>2, <4>7 DEF KeepWarnings, rooms_without_keep
        <5> QED BY <2>1, <4>7, <5>1
      <4> QED BY <4>4, <4>5, <4>6, <4>7
    <3>3. CASE ~e.table
      BY <3>3 DEF Unhonoured, InSilence
    <3> QED BY <3>1, <3>2, <3>3 DEF IsRead
  <2> QED BY <2>4, <2>5, <2>6, <2>7, <2>8
<1> QED BY <1>1, StartInvariance, PTL
=============================================================================
