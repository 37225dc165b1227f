# keycard in TLA+

keycard is an SSH server that gives every login a throw-away room: a docker
container or a firecracker microVM that exists for as long as the connection
does, or a little longer if the operator asked for `--keep`. Its whole promise
is about lifetimes: a room goes when its guest goes, it belongs to one guest at
a time, and nothing is left on the host. This directory models the parts of
the code that keep that promise, checks them with TLC on small instances and
proves the central invariants with TLAPS for instances of any size.

Paths below are relative to the repository (`src/keycard/...` is the Python
package, `guest-agent/` the Rust agent inside a microVM).

## The system

| Part | State it keeps | Operations | Hard because |
|---|---|---|---|
| `RoomSession` (`session.py`) | channel, `_room`, tasks `_pump`, `_watchdog`, `_teardown`, `_feeder`, input queue, window size | asyncssh callbacks, `_run`, `_run_teardown`, `_idle_watchdog`, `force_close` | four triggers end a room, any two may race; every await is an interleaving point; cancellation goes through awaits |
| `ActiveSessions` | the sessions the drain waits for, the "empty" event | `add`, `discard`, `wait_empty` | releasing too early lets the process end over a destroy |
| `KeptRooms` | paused rooms by username, one timer each | `keep`, `take`, `_expire`, `destroy_all` | a timer may wake for a stay that is over; two stays may share a name |
| `serve`, `_drain` (`server.py`) | where shutdown is | listen, warn, grace, force, wait, sweep, close | order of the steps, exceptions and time limits between them |
| `KeycardServer`, `create_server` (`server.py`), `cli.py`, `config.py` | the loaded `Config`, the host key file | `load` and its fallbacks, key and duration checks, room resolution | what is wrong with a file or a machine should be found before the port is open |
| `RoutingBackend` | the backends in use | construction of all of them, `open`, `resume`, `destroy_kept`, `close` | a kept room must go back to the backend it came from; no login may construct a backend |
| `DockerBackend`, `DockerRoom` | container handle, attach socket, `_destroyed` | `open`, `resume`, `pause`, `destroy`, `destroy_kept` | calls run in executor threads that survive the task awaiting them; the container ends or is removed between any two of them; errors are swallowed |
| `FirecrackerBackend`, `FirecrackerRoom`, `Instance` | a directory per room, `owner.pid`, `vmm.pid`, the VMM process | `open`, `destroy`, `reap_debris` | kill -9, several keycards on one runtime directory, cancellation at each await |
| `vsock.py`, `fcapi.py` | none across calls | dial with retries, API request with a time limit | the VMM acknowledges a dial before the agent has accepted it; a dropped dial may have been accepted |
| `confine.py` | none across calls | rights by Landlock ABI, ruleset, file-size limit, the child's setup | decided at start and applied at each spawn, on kernels no test runs on |
| guest agent (`main.rs`, `session.rs`) | the live session, two writer slots behind locks, reader tasks, the running flag | accept, `attach`, `detach`, pump, exit task | real parallelism; a lock held across a write |
| `banner.py` | none | formatting | - |
| `rootfs/` | none | image build, guest init | - |

A connection becomes a `RoomSession`, which calls `RoutingBackend`, which calls
a backend. The two registries are shared by all sessions and by `serve`. Docker
calls cross into executor threads; a firecracker room is driven by the awaiting
task itself and talks to the guest agent over two vsock channels, data and
control. The runtime directory is the only state shared with other keycard
processes, and the only one that survives a crash.

What makes each part correct:

* sessions: one owner per room; a holder's record of its room is true; no
  sandbox without a collector; a room stays with its username; a room is kept
  only after a hang-up; the client is told of the end only after it; every lost
  connection ends in a released session;
* shutdown: it ends; the drain leaves nothing active and no teardown running; the
  sweep sees every kept room; nothing outlives the process;
* firecracker host side: a sweep removes debris and nothing in use; an open
  that fails or is cancelled leaves nothing; opens and destroys come to an end;
* a room below `base.py`: what was released is gone; a status that is reported
  is the shell's; the host's two channels are the ones the agent serves; only a
  room that stayed frozen is handed back;
* startup: every backend is constructed before the port is open; what was
  accepted opens; a VMM runs confined as the file promises; what a file asks for
  and does not get is logged;
* terminal: input arrives in order and once; what was typed first is kept; what a
  room that reads is sent is not lost; the room has the last reported size;
* guest agent: one connection per session; the status is sent before the end;
  the host sees the end; an attach does not block.

## Modules

| Module | Models | Depends on |
|---|---|---|
| `Sessions` | `session.py` above the two backends | `RoomPromise` as its abstraction |
| `RoomPromise` | what a room's life may look like, without the tasks | |
| `Shutdown` | `serve`, `_drain`, the end of `asyncio.run` | extends `Sessions` |
| `Instances` | the host side of firecracker rooms | |
| `Room` | one room below the seam of `base.py`: sandbox, shell, sockets, the call under way | |
| `Docker` | `DockerBackend`, `DockerRoom` | extends `Room` |
| `MicroVM` | API calls, boot, vsock dials, exit watch of a firecracker room | extends `Room` |
| `Backends` | a room of `RoutingBackend`, on either backend | extends `Docker` and `MicroVM`; `RoomContract` as its abstraction |
| `RoomContract` | what `base.py` asks of a backend | |
| `Config` | `config.py`, and what `routing.py` and the microVM make of it: pure operators | |
| `Confine` | `confine.py`: pure operators | |
| `Startup` | `keycard up` to the open port, and a login's way to its room | extends `Config` and `Confine` |
| `Terminal` | input queue, feeder, window size of one session | |
| `GuestAgent` | accept loop and session tasks of the guest agent | |
| `Sessions_proofs`, `Shutdown_proofs`, `Instances_proofs`, `Backends_proofs`, `GuestAgent_proofs`, `Terminal_proofs`, `Startup_proofs` | theorems and proofs | the module named; `Shutdown_proofs` also extends `Sessions_proofs` |
| `Promise_proofs` | that `Sessions` implements `RoomPromise` | extends `Sessions_proofs` |
| `MCSessions`, `MCShutdown`, `MCInstances`, `MCGuestAgent`, `MCStartup` | the finite instances | the module named |

`PROJECT.json` maps each definition to the lines it stands for.

Conventions. A definition that directly follows a variant of itself
(`TakeWithoutPop` before `Take`) is the code's; the variant is a plausible
fault, used to confirm that the property concerned notices it.

What may go wrong in the environment is named in one of two ways. `Sessions`,
`Shutdown` and `Instances` have a constant `Env` (and `Late` in `Shutdown`)
with the awkward events that may happen: a run that allows all of them shows
what holds unconditionally, a run that rules some out shows what a guarantee
depends on, a run that expects a violation allows exactly the event that breaks
it, and a calm run allows none. In `Backends`, `GuestAgent`, `Startup` and
`Terminal` everything may happen in every run; a history variable (`hurt`,
`overtaken`, `changed`, `fate` and `lost`) records what did, and a property names
the mishaps it does not survive.

### Sessions

One element of `Sessions` is one `RoomSession`, the sandbox it would open and
the `Kept` object its teardown may produce. The variables are the fields of the
object and the place of each of its tasks: `pump` for `_run`, `td` for the
teardown task with its outcome, `watchdog`, `force` for the drain's
`force_close`, `expiry` for the timer of a kept room; `room` is `_room`, `mine`
the room a pump has in its local variables, `tdRoom` the one the teardown took;
`byName` is `KeptRooms._by_username`, `active` and `empty` are
`ActiveSessions`. `box` is the sandbox itself and the thread working on it.

An action is what one task does between two awaits. The pump's states follow
`_run`: `created`, `opening` or `resuming`, `reading`, then `await_ours` or
`await_other` (the code's local `ours`), and the three ways of ending early:
`failing` (open or resume raised), `late` (a room for a session that has
ended), `unwinding` (a cancelled firecracker open). Cancellation is modelled as
asyncio does it: `Task.cancel` on a task that awaits another task cancels that
one; a task that has not run yet never runs (`unrun`, which skips even its
`finally`); `except Exception` does not catch it; `room.read` swallows it. An
executor call of docker goes on after its task is gone. A firecracker destroy
that is cancelled may swallow the cancellation (its wait for the exit status
does), be past the point where it matters, or leave the VMM or directory
(`stranded`).

`mute` is a channel that refuses data without reporting `is_closing()`, which
the comment at `session.py:335` describes; on it `chan.write` raises, which
ends a pump after its open, a watchdog, `notify_shutdown` and `force_close`.

`RoomPromise` is the abstract specification: a room is with one guest, kept for
the username it was opened for, leaving, or gone; kept and leaving rooms do not
stay so. `Sessions` maps to it by `Place` and `Guests`; a room nobody holds maps
to `nowhere`, which the promise does not allow.

### Shutdown

`phase` follows `serve` from the signal on: `grace`, `forcing`, `timed_out`
(after `FORCE_CLOSE_TIMEOUT`, while `wait_for` waits for what it cancelled),
`closing` (`server.wait_closed`), `sweeping`, `stopped`, or `aborted` when an
exception leaves `_drain`, which skips the sweep. Every step is a step of
`Sessions` or leaves its variables alone. `RunEnds` is the cancellation of all
remaining tasks by `asyncio.run`, `LoopStops` the end of the loop once they and
the executor threads are done.

### Instances

A room is its directory (named with a uuid, so never used twice) and the VMM
that runs in it. `op` follows `FirecrackerBackend.open` and
`FirecrackerRoom.destroy`; each await has a cancellation. Keycards start
(sweeping in the backend's constructor), serve, exit, or are killed at any
moment; their VMMs survive. The sweep's three steps per entry (look at the
owner, look at the VMM, remove) interleave with everything else. `due` is a
history variable: what was abandoned when a keycard started.

### Room, Docker, MicroVM, Backends

`call` is the place of the backend's call on the room, and `open` or `kept`
between calls. The session layer makes the calls in the order that `Sessions`
establishes: open, then destroy or pause; on a paused room resume or
destroy_kept. `Docker` has a step for each blocking call of docker-py and for its
failure, `MicroVM` for each API request and dial. `containers.run` is a create and
then a start: one that fails leaves no container, the other leaves one that
never ran (`box` is `created`). Against them run the container or the guest: the
shell ends, an operator removes the container, the VMM dies, the agent binds
its data port, then its control port, and accepts in that order. Dials wait in
the listener's backlog and are numbered, so that the one the host holds (`data`)
can be told from the one the agent serves (`paired`). `hurt` is the history of
mishaps.

`Backends` is their composition as `RoutingBackend` makes it: `kind` is fixed
when the room is opened and every later call goes to that backend.
`RoomContract` is `base.py`'s protocol: a room that is opened is handed over or
given up, closed once or frozen, handed back only if it stayed frozen, and no
call stays under way. `SeenRoom` and `SeenShell` map to it what the session
layer sees.

`Sessions` takes a backend's calls as single steps with the outcomes found
here, `Instances` has the same firecracker room as directories and processes,
`GuestAgent` the agent's tasks once a pair of connections is accepted.

### Config, Confine, Startup

`load(file)` is the configuration with all its fallbacks, `LoadWarnings(file)`
what is logged on the way. `plan_for`, `Handled` and `add_rule` are the rights
that `confine.py` asks for on each path and ABI; `KernelTakes` is what the
kernel requires of them and `Serves` what the VMM needs to boot (both external).

`stage` follows `up`, `serve` and `create_server`: load, construct the backends
in the order of their names, the keep window, keys, durations, the port. A step
that raises refuses the start. Then connections come one at a time: `conn`
follows a login through `resolve`, `RoutingBackend._get` and the backend's open,
for a microVM through the ruleset, the fork, the child's setup, the machine's
configuration and the boot; `why` is what failed. The guest kernel or the images
may vanish meanwhile (`changed`). An entry of `[rooms]` that is no table
(`table`), one without an image and one with the backend `""` are all files that
`load` takes; `IsRead` and `valid_backend` say what it makes of them.

### Terminal

One session's path for input and window size: the bounded queue, the single
feeder, `pty_requested`, `terminal_size_changed` and the resize tasks, which
reach the room in order on firecracker and in any order on docker's threads
(`threaded`, chosen in `Init`: a run has both backends). The room may stop reading
for good (`tty` is `wedged`), which blocks the write for ever, or break, after
which a write fails and its error is swallowed (`lost`). A resize that fails is
swallowed too, of an open as of a resize task; `fate` says what became of the last
size sent to the room.

### GuestAgent

The accept loop of `main.rs` and, per session, the output pump, the readers and
the exit task. `detach` and `attach` are cut at every lock: the two slots are
cleared and set one after the other, and the data slot is locked for as long as
the pump writes. A host may go silent, which blocks that write (`PumpStuck`),
and an attach may take longer than `DRAIN_GRACE`, so that the exit task detaches
before it registers (`overtaken`).

## What the runs show

Every property below has a mutant of the code in `PROJECT.json` that violates it
under the same configuration.

| Run | Instance | Shows |
|---|---|---|
| `sessions_docker` | 2 logins under one docker username, all events | `TypeOK`, `SingleOwner`, `HoldersSeeTheirRoom`, `KeptOnlyAfterHangup`, `StatusAfterCheckout`, `EmptyMeansReleased`, `LeavesByItsOwnDoor` |
| `sessions_promise` | the same logins, calm, fair | `Sessions` implements `RoomPromise` (`KeepsPromise`), `NoOrphan`, `LostIsReleased` |
| `shutdown_calm` | a docker and a firecracker login, calm | `NothingOutlives`, `SweepSeesEveryRoom`, `DrainLeavesNoneActive` |
| `shutdown_rough` | the same, all events, slow opens, late sessions, fair | `DrainOutwaitsTeardowns`, `RoomStaysWithItsName`, `ShutdownCompletes` |
| `instances_sweep` | 3 keycards, 2 rooms, kills, pid reuse | `InstancesTypeOK`, `LiveNeverReaped`, `NothingLeftBehind` |
| `instances_debris` | 2 keycards, 2 rooms, all events but pid reuse, fair | `DebrisReaped`, `RoomSettles` |
| `agent` | 2 connections, 2 shells, silent hosts, slow attaches, fair | `AgentTypeOK`, `OneConnection`, `StatusBeforeEnd`, `EndIsSeen`, `AttachCompletes` |
| `backends` | a room on either backend, 3 dials, every mishap, fair | `BackendsTypeOK`, `ReleasedIsGone`, `StatusIsTheShells`, `OpensConnected`, and `Backends` implements `RoomContract` (`KeepsContract`) |
| `startup` | 48 files, 22 machines, `--keep`, `--host` and `--port` | `StartupTypeOK`, `BuiltUpFront`, `ConfinedAsPromised`, `OpensOnceAccepted`, `FallbacksAreLogged` |
| `terminal` | either backend, queue of 2, 4 chunks, 3 resizes, a room that wedges or breaks, fair | `TerminalTypeOK`, `InputInOrder` (with the first typed kept in a flood), `SizeSettles`, `TypedIsDelivered` |

Two runs expect a violation. Each states what a comment or document says and
shows the code doing otherwise; `PROJECT.json` quotes the line.

| Run | What happens |
|---|---|
| `orphan_hangup_opening` | hang-up during docker's open: the thread's container comes up with no owner |
| `sweep_skipped` | a `CancelledError` from one `force_close` leaves `_drain`; the kept rooms are not swept |

### What the guarantees depend on

The events are there to be switched: adding one to `Env` (or `Late`) of the
configuration named shows which guarantee rests on its absence.

| Add | to | and this fails | because |
|---|---|---|---|
| `hangup_opening` | `sessions_promise` | `NoOrphan` | see `orphan_hangup_opening` |
| `shared_name` | `sessions_promise` | `NoOrphan` | the second `keep` under a name replaces the first, whose timer then does not match (`session.py:99`, `104`), against `session.py:96` |
| `attach_fails` | `sessions_promise` | `NoOrphan` | docker starts the container, then the attach raises (`docker.py:193`) |
| `hangup_ending` | `shutdown_calm` | `NothingOutlives` | the pump is cancelled while it awaits the teardown, and the teardown with it (`session.py:333`), against `session.py:142` |
| `slow_destroy` | `shutdown_calm` | `NothingOutlives` | `FORCE_CLOSE_TIMEOUT` cancels a pause, which lands unregistered (`server.py:181`), against `ARCHITECTURE.md:178` |
| `mute` | `shutdown_calm` | `NothingOutlives` | a warning or notice that cannot be written raises out of `_drain` (`server.py:167`, `session.py:392`), which skips the sweep |
| `slow_open` (`Late`) | `shutdown_calm` | `NothingOutlives` | a docker open outlasts the drain (`server.py:251`), against `session.py:384` |
| `late_session` (`Late`) | `shutdown_calm` | `SweepSeesEveryRoom` | a session that starts during the drain is in no snapshot |
| `create_race` | `instances_sweep` | `LiveNeverReaped` | a sweep between `mkdir` and `owner.pid` (`firecracker.py:213`), against `firecracker.py:497` |
| `kill_spawning` | `instances_sweep` | `LiveNeverReaped` | kill -9 between the fork and `vmm.pid` (`firecracker.py:712`), against `SECURITY.md:57` |
| `cancel_ready` | `instances_sweep` | `NothingLeftBehind` | a cancellation in `wait_ready` removes the directory and leaves the VMM, against `firecracker.py:747` |
| `cancel_create`, `cancel_ending` | `instances_sweep` | `NothingLeftBehind` | a cancellation where the code has no handle on what it made |

In the other modules the exceptions are in the properties:

* `GuestAgent`: the pump holds the data slot while it writes to a host that does
  not read (`session.rs:90`), and until that host goes an attach of another
  waits (`PumpStuck` in `AttachCompletes`), against `main.rs:194`. An attach
  overtaken by the exit task (`session.rs:295`) sees neither the status nor,
  by itself, the end.
* `OpensConnected`: `firecracker.py:731` takes the agent to be "already past its
  accept" once the data dial is acknowledged. It is the guest's kernel that
  acknowledges, and the control port is bound after the data port and dialled
  once: a control dial between the two binds fails the open (`bind_race`). A
  data dial that was accepted and dropped by the VMM (`late_answer`,
  `vsock.py:120`) is first in the backlog, and the agent pairs it with the
  control connection of the dial that followed.
* `ReleasedIsGone`: docker refuses the removal, or open fails once the container
  is made (`docker.py:193`): it cannot be started, for want of a `/bin/bash` in
  the image for example, or not be attached to. `run` removes nothing on a
  failure and neither does `open`, so the container stays.
* `LeavesByItsOwnDoor`: `session.py:96` says that `keep` holds a room and destroys
  it "if nothing calls `take()` first". With two sessions under one name the
  second `keep` overwrites the first entry (`session.py:99`); that room leaves the
  registry by no door of its own and is nobody's. The property names this case
  and no other; the run has it.
* `StatusIsTheShells`: the status is lost if the container was removed by hand
  or could not be looked at, or if the exit line takes longer than `EXIT_GRACE`.
* `OpensOnceAccepted`: `server.py:132` says that a malformed duration fails at
  startup; `boot_timeout` is parsed at each boot, and a malformed one fails
  every microVM login (a `0` lets the first refused dial end the boot). A
  docker room's malformed memory is found at the login too.
* `FallbacksAreLogged`: four things are taken in silence (`InSilence`).
  `config.py:214` takes `pids_limit` for the only key that is ignored, and says
  that ignoring one in silence is not right; but `network` on a microVM is ignored
  without a word, `cpus` are cut to whole cores on both backends (and to 1 to 32
  of them on a microVM), an entry of `[rooms]` that is no table is skipped
  (`config.py:192`), and a backend `""` counts as none (`config.py:174`), so that
  its room runs on the file's backend, whichever that is. That the built-in rooms are used
  and which room is the default instead is logged at info, which `up` shows.
* `InputInOrder`: a chunk is lost if it found the queue full or if the room's
  socket refused it (`docker.py:94`, `firecracker.py:330`). The second kind comes
  after all that the room got, since a broken socket stays broken.
* `SizeSettles`: three cases, each until the next report. A size that comes while
  open or resume is awaited is recorded too late (`session.py:280`; against
  `session.py:180-182` and `CHANGELOG.md:252`, which says it "now sets the size
  the room opens at", as is so only before the call); the room refuses the size
  (`docker.py:111`, `:176`, `firecracker.py:336`); or, on docker only, a thread
  with an older size is later. A last report of 0 is left out.
* `TypedIsDelivered`: a room that stops reading, which `session.py:192` calls
  wedged, holds the feeder for as long as the session lasts.

### Bounds, and why they are enough

* Two sessions race for every shared thing (registry entry, drain, sweep). With
  two under one name, the second can resume and keep again what the first kept
  while the first timer still runs. All safety properties are proved for
  any number.
* Three keycards: one dead owner, one live owner, one sweeping. Two rooms: the
  one judged and one to interleave with. The safety properties are proved for
  any number of both.
* Two connections: a displaced one and the one displacing it. Two shells: one
  replaced and its successor. With a third connection the temporal properties
  take TLC too long.
* One room: rooms share nothing below `base.py`. `MaxDials` = 3: a dial that is
  dropped after the guest took it, a second one, and the one that holds.
* The files and machines of `MCStartup` are an ordinary one of each and those
  that differ from it in one respect, every fallback of `load` and every check
  of startup among them, combined freely with each other; Landlock ABIs 0 to 4,
  one more than the code knows. A file is read once and a login writes nothing
  another reads, so one login at a time is enough.
* With a queue of 2, 4 chunks overflow it before the open and after, and one may
  be in the feeder's hands; 3 resizes are one before, one during and one after the
  open, or three that overtake each other.
* `MaxChunks` and `MaxResizes` bound the client, `MaxDials` the dials; nothing
  else is counted.
* Symmetry is used only in `instances_sweep`, which has no liveness property.

### Fairness

* asyncio runs each task that can run and executor threads finish: weak
  fairness of the pump's, the teardown's and the closers' steps and of `box`.
  Timers fire: weak fairness of `Expire`. Nothing is assumed of clients,
  shells, idle time or signals (`ReadEnds`, `IdleFires`, `ConnectionLost` and
  `Signal` have none).
* `serve` and the `force_close` tasks are tasks like others.
* A firecracker coroutine goes on as its timeouts make it: `OpenStep` and
  `EndStep` fair per room, and the sweep per keycard.
* In the agent, `Attach` is strongly fair: tokio's mutex is first come first
  served, so a task waiting for the data slot gets it when the pump keeps
  letting go, although it is not continuously free. A pump blocked by a silent
  host has no fairness.
* In `Backends` a call under way goes on: executor threads and the daemon
  answer, a request to the VMM is answered or times out, a dial is accepted or
  `boot_timeout` ends it, and `KeptRooms` drops in the end what nobody resumes.
  Nothing is assumed of the shell, the guest or the session layer's calls.
* In `Terminal` the pump starts, open returns or fails, and the feeder goes on: a
  write to a room that reads ends, and one to a broken socket fails. Nothing is
  assumed of a wedged room (a chunk the feeder holds for it stays there), nor of
  resizes.
* `Startup` has safety properties only and no fairness.

## What is proved

Every invariant and every action property that a run checks is also a theorem,
for every value of the constants; the safety halves of the two refinements are
too. Each proof starts from an inductive invariant, since hardly any of the
properties is inductive itself, and has a step per action. The assumptions on
the constants (`SessionsAssumption`, `ShutdownAssumption`,
`InstancesAssumption`, `MicroVMAssumption`, `AgentAssumption`,
`TerminalAssumption`, `StartupAssumption`) are types, bounds that are not zero,
and a `None` or `Absent` that is nothing else; `StartupAssumption` says besides
that no table of a file has two entries of one name, as TOML does.

Some theorems have a hypothesis that rules events out. It is as weak as it can
be: TLC finds the property violated with any one of the events allowed.

| Hypothesis | Rules out | Needed by |
|---|---|---|
| `Sheltered` | hang-ups while a room opens, resumes or ends, two live sessions of one username, a failing attach, a destroy slower than the drain | `EveryRoomCollected`, `PromiseKept` |
| `Calm` | every event of `Env` and `Late` | `NoneOutlives` |
| no `late_session` | a session that comes during the drain | `SweepMissesNone` |
| no `create_race`, no `kill_spawning` | a sweep or a kill in one of the two windows without a record | `SweepIsSafe` |
| `Uncancelled` | a cancelled open or destroy, a sweep between `mkdir` and `owner.pid` | `NoneLeftBehind` |

### Sessions_proofs

For any sessions, usernames, assignment of usernames and backends, and any
events.

* `TypeCorrect`: `TypeOK`.
* `Invariance`: the inductive invariant `IInv`, of five parts. `Exclusive` says
  that two holders of one room are the same holder, for each pair of kinds
  (session, pump, teardown, registry). It is not inductive alone: that
  `RunTeardown` may take `_room` needs to know that a session that has a room
  in `_room` has no pump still opening it (`PumpInv`) and that its box is live
  (`SessionInv`); that `RunPump` may claim a kept room needs the registered
  room to be paused and its teardown over (`RegistryInv`, `TeardownInv`); that
  a fresh open collides with nobody needs an absent box to be in no hands
  (`AbsentUnheld`). The two actions that cancel tasks, `ConnectionLost` and
  `CancelAll`, share the lemma `CancelStep`: a cancellation takes rooms out of
  hands, puts none into any, and touches only boxes whose holder it cancels.
* `OneOwner` (`SingleOwner`), `NoStaleRoom` (`HoldersSeeTheirRoom`),
  `NoStranger` (`RoomStaysWithItsName`) follow from it.
* `EventIsTrue` (`EmptyMeansReleased`), from `ActiveInv`: the sessions in
  `ActiveSessions` are those that connected and whose teardown has not released
  them.
* `HangupAloneKeeps` (`KeptOnlyAfterHangup`) and `GoneBeforeStatus`
  (`StatusAfterCheckout`), from `OutcomeInv`: a teardown that may keep was begun
  by a hang-up, and a session that still has a room has told its client nothing.
* `OwnDoorOnly`: the action property `LeavesByItsOwnDoor`, from `IInv` and
  `SoleInv`: an active session that has had a room has no entry of its username
  in the registry, unless two sessions may share a name. So only under a shared
  name can a `keep` overwrite an entry (`KeepOverwrites`).
* `EveryRoomCollected` (`NoOrphan`), if `Sheltered`, from `CollectInv`: an
  active session that has had a room has no entry of its username in the
  registry, so that no entry is overwritten, and every entry has a timer.

### Promise_proofs

`PromiseKept`: if `Sheltered`, `Sessions` implements `RoomPromise` without its
fairness. `IInv` makes the guest of a room unique and `NoOrphan` makes the
places of the mapping exhaustive (`Whereabouts`), so that a room stays where it
is when whoever has it still has it (`SameRoom`); then each action moves at
most one room, by a step of `RoomPromise`. The thread of an open that nobody
awaits (`BoxOpened`) does not exist here.

### Shutdown_proofs

* `ShutdownKeepsSessions`: `Shutdown` implements `Sessions`; so the theorems
  above hold to the end of the process, `NoStrangerAtTheEnd` among them.
* `ShutdownTypeCorrect` (the types of the shutdown's own variables, which the
  other proofs use; no run checks them apart); `DrainReleases`
  (`DrainLeavesNoneActive`), from `DrainInv`: a `force_close` that returned has
  a teardown behind it that ran.
* `NoneRunsOn` (`DrainOutwaitsTeardowns`), from `OutwaitInv`: what the drain's
  time limit cancels it also waits for, and a teardown that has ended does not
  begin again.
* `SweepMissesNone` (`SweepSeesEveryRoom`), unless a session comes late, but
  with every other event. `LastInv`: when the drain is over all teardowns have
  ended, whether they were awaited or cancelled; only one that pauses a room
  registers one; so what is registered when the sweep starts is in its list.
* `NoneOutlives` (`NothingOutlives`), if `Calm`. `CalmInv` follows the shutdown
  phase by phase: nothing raises, every session is in the drain's list, after
  the drain no task is left but those that wait for a destruction.

### Instances_proofs

For any keycards and rooms.

* `InstancesTypeCorrect` (`InstancesTypeOK`): types, and no file without its
  directory.
* `SweepIsSafe` (`LiveNeverReaped`), if `create_race` and `kill_spawning` do not
  happen. The invariant `SweepInv` says that a room at work has a live owner
  and, past `made`, an `owner.pid` (`Owned`); that a running VMM in a directory
  has a `vmm.pid` or an opener about to write it (`Recorded`); and that the
  verdicts a sweep carries from one step to the next stay true (`Verdicts`): a
  dead keycard never comes back, so a room found ownerless stays so, and a VMM
  found gone is not started again without an owner. The two hypotheses are
  exactly the two windows in which the directory does not yet name the process
  that uses it.
* `NoDebrisStays` (`DebrisReaped`), whatever happens but the reuse of pids,
  which the property itself excludes. `DebrisInv`: what was abandoned is never worked on again, its VMM does not come back, and a sweep
  has it on its list or under the verdict that removes it.
* `NoneLeftBehind` (`NothingLeftBehind`), if `Uncancelled`, with keycards killed
  at any moment and pids used again. `TidyInv`: a room whose coroutine is under
  way has its directory, a VMM that runs has a coroutine that will stop it, and
  a sweep's verdict falls only on rooms nobody works on.

### Backends_proofs

For any `MaxDials`. `RoomInvariance` has the invariant `RoomInv`: a container
that stopped was not killed before `destroy` asks for its status, one that is
gone was removed by a call or by hand (`ContainerInv`); a line on the control
channel is the work of a shell that ended (`GuestInv`); how far the sandbox is
when a call is where it is (`CallInv`, `EndInv`); only a late answer makes the
host dial twice (`DialInv`). From it `NoSocketLeft` (`BackendsTypeOK`),
`NothingIsLeft` (`ReleasedIsGone`), `StatusIsTrue` (`StatusIsTheShells`),
`Connected` (`OpensConnected`), and `BackendsKeepContract`: both backends take
only steps of `RoomContract` (`ContractSteps`, its part without fairness).

### GuestAgent_proofs

For any connections and shells. `AgentInvariance` has `AgentInv`: the order of a
session's tasks (`TasksInv`), what each place in `attach` says of the two slots,
given that the exit task may clear one at any moment (`HalvesInv`), and what
the newest connection has been told (`StatusInv`). From it `SlotStaysPut`
(`AgentTypeOK`), `Displaced` (`OneConnection`), `StatusComesFirst`
(`StatusBeforeEnd`).

### Terminal_proofs

For any `Backlog`, chunks, resizes and sizes. `TypedWithinBounds`
(`TerminalTypeOK`); `InputKeepsOrder` (`InputInOrder`), from `InputInv`: what
was received, what is being fed and what is queued are in this order one
increasing sequence, and a chunk in none of them found the queue full or was
refused by a broken room; `SizeSettled` (`SizeSettles`), on both backends, from
`SizeInv`: while `fate` is pending the last resize under way has the last size,
and when it has landed the room has it.

### Startup_proofs

For any files, machines, flags and usernames. `StartInvariance` has `StartInv`:
past the loading the configuration routes as `load` says (`FileInv`), past the
building every backend that a room may name is there and a firecracker one has
seen its kernel and the host's Landlock (`BuiltInv`), a connection's room is one
of the configuration's (`ConnInv`), and its VMM has the ruleset that
configuration and host ask for (`VmmInv`). The lemmas below it are about the
operators of `Config` and `Confine`: `load` yields rooms on known backends and a
default among them (`LoadOK`), a plan narrowed to an ABI is one that its kernel
takes (`KernelTakesPlan`) and serves what a VMM opens (`PlanServes`), memory and
cpus end within firecracker's limits (`MemoryHasMinimum`, `MachineIsTaken`), the
file-size limit holds the image (`FsizeHoldsTheImage`). From it
`StartupTypeCorrect` (`StartupTypeOK`), `BackendsUpFront` (the action property
`BuiltUpFront`), `ConfinementKept` (`ConfinedAsPromised`), `AcceptedOpens`
(`OpensOnceAccepted`), `FallbacksLogged` (`FallbacksAreLogged`).

### Only model-checked

Fairness and `ENABLED` are out of the prover's reach: the liveness properties
(`LostIsReleased`, `ShutdownCompletes`, `RoomSettles`, `EndIsSeen`,
`AttachCompletes`, `TypedIsDelivered`) and the fairness halves of `KeepsPromise` and `KeepsContract`.

## Abstractions and limits

* In `Sessions` a docker destroy removes the container, `paused` means that the
  pause call is over, and a firecracker destroy that is not cancelled removes
  VMM and directory; what the swallowed errors of docker lead to is in
  `Docker`. `rmtree(ignore_errors)` succeeds, except under a copy that still
  writes.
* In `Sessions` a cancelled open of a microVM always ends with the room gone
  (`Unwound`). `Instances` has the open's awaits one by one, and there a
  cancellation in `wait_ready` (`firecracker.py:715-722`) leaves the VMM running
  (`cancel_ready` above).
* `Shutdown`'s `closing` ends when the pumps have (`Settled`); the code waits for the
  connections, for `CLOSE_TIMEOUT` at most (`server.py:251-255`), which a pump and a
  client may each hold up or leave early.
* A chunk that was written in part when the socket broke counts as lost.
* `destroy` is called once on a room in `Backends`, as `Sessions` shows; that a second call
  is harmless (`base.py:60`) is not exercised.
* The executor's queue is not modelled: a call submitted runs.
* Time has no numbers: a grace period ends at any moment, `FORCE_CLOSE_TIMEOUT`
  at any moment if `slow_destroy` is allowed, `wait_closed`'s limit before an
  open is through if `slow_open` is.
* Once the loop is cancelling, no new session starts. `LoopStops` joins tasks
  and threads in one step.
* `sorted` order of the sweep and of `destroy_all` is any order. A `cp` child
  that survives a killed keycard is ignored.
* In `GuestAgent`, the data and control connections of a host are accepted as
  one step (`MicroVM` has them apart), the two reader tasks of a connection
  start and end together, and `detach` takes the readers, aborts them and waits
  for their end in one step (`session.rs:86-89`).
* In `MicroVM` a cancellation of open is left out: `Instances` has it at every
  await. An API request that times out is a failed one. The VMM's own limits on
  a machine are those of firecracker's API (external).
* In `Config` a duration is zero, some or malformed, memory a number and a unit,
  cpus hundredths; a path is set or not. The rooms are a function on the positions of
  the file's entries that have an image, which is the order of the `dict`.

## Not modelled

* `pause`, snapshot, `resume` and `destroy_kept` of firecracker: `can_pause` is
  False, so no session calls them for a microVM.
* Byte formats: HTTP over the API socket, the vsock `OK` line, the agent's resize
  and exit lines. No property tells their contents apart.
* The agent's input pump and its TCP transport for development.
* TOML syntax, the listing of `keycard rooms`, `banner.py`, `rootfs/`: formatting
  or I/O without state.
* The authentication posture (public keys only) is a constant answer to asyncssh.
* `RLIMIT_NOFILE`; errors of making the runtime directory; a host key file torn
  by a crash while it is written.

## Plan

1. Done: all modules above; the safety properties of all runs proved for every
   value of the constants, the safety halves of the two refinements too.
2. Next to prove: that `Shutdown` keeps `RoomPromise` up to its `Down`; that
   `Terminal` refines a lossy queue.
3. Worth modelling still: a composition in which the boxes of `Sessions` are
   rooms of `Backends` and `Instances`; the agent's input queue.
