------------------------------- MODULE Config -------------------------------
(***************************************************************************)
(* keycard.toml as config.py reads it, and what routing.py and the         *)
(* firecracker backend make of a room's entry.  Pure operators: where the  *)
(* code raises, a predicate tells.                                         *)
(*                                                                         *)
(* A file is a record of the keys that startup and a room's opening tell   *)
(* apart; Absent is a key that is not in it, and an Absent file one that   *)
(* does not exist.  Its [rooms.*] are a sequence, in the file's order; it  *)
(* is empty if `rooms` is no table, and an entry may be no table either.  A*)
(* [firecracker] that is no table is one without keys.  A duration is      *)
(* "zero", "some" or "malformed".  cpus are in hundredths, since the file  *)
(* may hold a fraction; memory is [ok, n, unit].                           *)
(***************************************************************************)
EXTENDS Integers, Sequences

CONSTANT Absent

KNOWN_BACKENDS == {"docker", "firecracker"}
DEFAULT_BACKEND == "docker"
CONFINEMENT_MODES == {"required", "best-effort", "off"}
DEFAULT_CONFINEMENT == "best-effort"
BUILTIN_ROOMS == <<"ubuntu", "python", "node">>
DEFAULT_ROOM == "ubuntu"

Given(value, default) == IF value = Absent THEN default ELSE value

(* parse_duration raises.                                                  *)
Parses(duration) == duration # "malformed"

-----------------------------------------------------------------------------
(* What a microVM gets of a room's memory and cpus.                        *)
DEFAULT_MEM_MIB == 1024
MIN_MEM_MIB == 16
MAX_VCPUS == 32

MemoryUnclamped(memory) ==
    IF memory = Absent \/ ~memory.ok THEN DEFAULT_MEM_MIB
    ELSE CASE memory.unit = "g" -> memory.n * 1024
           [] memory.unit = "m" -> memory.n
           [] memory.unit = "k" -> memory.n \div 1024
           [] OTHER -> memory.n \div 1048576

(* A bare number is in bytes; what does not parse is the default.          *)
parse_memory_mib(memory) ==
    IF MemoryUnclamped(memory) < MIN_MEM_MIB THEN MIN_MEM_MIB ELSE MemoryUnclamped(memory)

machine_config(room) ==
    [vcpu_count   |-> IF room.cpus < 1 THEN 1
                      ELSE IF room.cpus > MAX_VCPUS THEN MAX_VCPUS ELSE room.cpus,
     mem_size_mib |-> parse_memory_mib(room.memory)]

-----------------------------------------------------------------------------
(* load.                                                                   *)

(* An unknown backend is the default one; an empty name is as good as none.*)
valid_backend(name) ==
    IF name \in KNOWN_BACKENDS THEN name
    ELSE IF name \in {Absent, ""} THEN Absent ELSE DEFAULT_BACKEND

(* An unknown mode too.                                                    *)
confinement_mode(mode) == IF mode \in CONFINEMENT_MODES THEN mode ELSE DEFAULT_CONFINEMENT

(* An entry that is no table is skipped, and so is one without an image.   *)
IsRead(entry) == entry.table /\ entry.image

(* int() of cpus and of pids_limit, for the entries that are read.         *)
Loads(file) ==
    file = Absent \/ \A i \in DOMAIN file.rooms : IsRead(file.rooms[i]) => file.rooms[i].number

RoomConfig(entry) ==
    [name |-> entry.name, backend |-> valid_backend(entry.backend),
     cpus |-> entry.cpus \div 100, memory |-> entry.memory]

(* What is read keeps its order.                                           *)
parse_rooms(file) ==
    [i \in {j \in DOMAIN file.rooms : IsRead(file.rooms[j])} |-> RoomConfig(file.rooms[i])]

builtin_rooms ==
    [i \in DOMAIN BUILTIN_ROOMS |->
        [name |-> BUILTIN_ROOMS[i], backend |-> Absent, cpus |-> 0, memory |-> Absent]]

Names(rooms) == {rooms[i].name : i \in DOMAIN rooms}

DefaultAsGiven(name, rooms) == name

FirstOf(rooms) == CHOOSE i \in DOMAIN rooms : \A j \in DOMAIN rooms : i <= j

(* A default_room that is not one of the rooms becomes the first of them.  *)
SettledDefault(name, rooms) == IF name \in Names(rooms) THEN name ELSE rooms[FirstOf(rooms)].name

FirecrackerConfig ==
    [kernel |-> FALSE, boot_timeout |-> "some", confinement |-> DEFAULT_CONFINEMENT]

parse_firecracker(file) ==
    [kernel |-> file.kernel, boot_timeout |-> Given(file.boot_timeout, "some"),
     confinement |-> confinement_mode(Given(file.confinement, DEFAULT_CONFINEMENT))]

builtin_config ==
    [listen |-> "some", idle_timeout |-> "some", shutdown_grace |-> "some",
     keep_window |-> "zero", rooms |-> builtin_rooms, default_room |-> DEFAULT_ROOM,
     backend |-> DEFAULT_BACKEND, firecracker |-> FirecrackerConfig]

load(file) ==
    IF file = Absent THEN builtin_config
    ELSE LET parsed == parse_rooms(file)
             rooms == IF DOMAIN parsed = {} THEN builtin_rooms ELSE parsed
         IN  [listen |-> Given(file.listen, "some"),
              idle_timeout |-> Given(file.idle_timeout, "some"),
              shutdown_grace |-> Given(file.shutdown_grace, "some"),
              keep_window |-> Given(file.keep_window, "zero"),
              rooms |-> rooms,
              default_room |-> SettledDefault(Given(file.default_room, DEFAULT_ROOM), rooms),
              backend |-> Given(valid_backend(file.backend), DEFAULT_BACKEND),
              firecracker |-> parse_firecracker(file)]

-----------------------------------------------------------------------------
(* The room that a name has, and the backend it lands on.                  *)
RoomNamed(cfg, name) == cfg.rooms[CHOOSE i \in DOMAIN cfg.rooms : cfg.rooms[i].name = name]

(* The username's own room, or the default one.                            *)
resolve(cfg, username) ==
    RoomNamed(cfg, IF username \in Names(cfg.rooms) THEN username ELSE cfg.default_room)

name_for(cfg, room) == Given(room.backend, cfg.backend)

DefaultInUse(cfg) == {cfg.backend}

names_in_use(cfg) ==
    {cfg.backend} \cup ({cfg.rooms[i].backend : i \in DOMAIN cfg.rooms} \ {Absent})

MicroVMRooms(cfg) ==
    {r \in Names(cfg.rooms) : name_for(cfg, RoomNamed(cfg, r)) = "firecracker"}

(* Those whose backend has no can_pause.                                   *)
rooms_without_keep(cfg) == MicroVMRooms(cfg)

-----------------------------------------------------------------------------
(* What load logs, as pairs of a room, or "file", and one of its keys.     *)

OfEntries(file, key, Is(_)) ==
    {<<file.rooms[i].name, key>> : i \in {j \in DOMAIN file.rooms : Is(file.rooms[j])}}

IgnoredByDefaultOnly(cfg, file) ==
    LET Ignored(e) == e.table /\ e.pids /\ e.name \in Names(cfg.rooms) /\ cfg.backend = "firecracker"
    IN  OfEntries(file, "pids_limit", Ignored)

(* pids_limit on a room that runs as a microVM.                            *)
warn_ignored_room_keys(cfg, file) ==
    LET Ignored(e) == e.table /\ e.pids /\ e.name \in MicroVMRooms(cfg)
    IN  OfEntries(file, "pids_limit", Ignored)

(* Nothing is said of an entry that is no table, nor of an empty backend.  *)
(* That the built-in rooms are used, and which room is the default instead,*)
(* is said at the level of info, which `up` shows.                         *)
LoadWarnings(file) ==
    LET NoImage(e) == e.table /\ ~e.image
        Unknown(e) == IsRead(e) /\ e.backend \notin KNOWN_BACKENDS \cup {Absent, ""}
        cfg == load(file)
    IN  IF file = Absent THEN {}
        ELSE warn_ignored_room_keys(cfg, file)
             \cup OfEntries(file, "image", NoImage)
             \cup OfEntries(file, "backend", Unknown)
             \cup {<<"file", "backend">> : x \in {file.backend} \ (KNOWN_BACKENDS \cup {Absent, ""})}
             \cup {<<"file", "confinement">> : x \in {file.confinement} \ (CONFINEMENT_MODES \cup {Absent})}
             \cup {<<"file", "default_room">> : x \in {Given(file.default_room, DEFAULT_ROOM)} \ Names(cfg.rooms)}
             \cup {<<"file", "rooms">> : x \in {parse_rooms(file)} \cap {<<>>}}
=============================================================================
