------------------------------ MODULE Instances -----------------------------
(***************************************************************************)
(* The host side of a firecracker room (src/keycard/backends/              *)
(* firecracker.py): the instance directory with its owner.pid and vmm.pid, *)
(* the VMM process, the coroutine that opens, unwinds or destroys the      *)
(* room, and the sweep by which a starting keycard removes what a crashed  *)
(* one left.  Several keycards share the runtime directory and any of them *)
(* may be killed at any moment, which its VMMs survive.                    *)
(*                                                                         *)
(* A directory is used by one room only (its name holds a uuid), so a room *)
(* stands for its directory and for the VMM that runs in it.  As in        *)
(* Sessions, a definition that follows a variant of itself is the code's.  *)
(***************************************************************************)
CONSTANTS
    Keycards,   \* keycard processes, a restart is another one
    Rooms,      \* the rooms that any of them opens
    Env,        \* the awkward events that may happen, from InstanceEvents
    None

(***************************************************************************)
(*   create_race    a sweep looks at a directory that has no owner.pid yet *)
(*   kill_spawning  a keycard is killed after the fork of a VMM and before *)
(*                  vmm.pid is written                                     *)
(*   cancel_create  the open is cancelled in Instance.create or the copy   *)
(*   cancel_ready   the open is cancelled while the VMM comes up           *)
(*   cancel_ending  what stops the VMM or removes the directory is         *)
(*                  cancelled                                              *)
(*   pid_reuse      another process gets the pid of a dead keycard, or     *)
(*                  another firecracker that of a dead VMM                 *)
(***************************************************************************)
InstanceEvents == {"create_race", "kill_spawning", "cancel_create",
                   "cancel_ready", "cancel_ending", "pid_reuse"}

ASSUME InstancesAssumption ==
    /\ Env \subseteq InstanceEvents
    /\ None \notin Keycards
    /\ None \notin Rooms

VARIABLES
    kc,         \* the keycard processes
    owner,      \* the keycard that opens a room
    op,         \* where the coroutine of a room is
    waited,     \* someone awaits the executor call of that coroutine
    copier,     \* the rootfs of a room is being copied by a thread nobody awaits
    dir,        \* the instance directories that exist
    files,      \* what each holds, of owner.pid, rootfs.ext4, vmm.pid
    vmm,        \* the VMM processes
    reused,     \* dead processes whose pid another process has
    todo,       \* the entries a starting keycard has still to look at
    ownerless,  \* the entry it looks at, once its owner is found gone
    doomed,     \* the entry it looks at, once its VMM is found gone too
    due         \* history: the debris there was when it started

roomVars == <<owner, op, waited, copier, dir, files, vmm>>
sweepVars == <<todo, ownerless, doomed, due>>
instanceVars == <<kc, reused, roomVars, sweepVars>>

Creating == {"mkdir", "made"}
Building == Creating \cup {"copying", "spawned", "readying", "booting"}
Ending == {"unready", "exit_wait", "stopping", "removing"}
OpState == {"none", "live", "ended", "killed"} \cup Building \cup Ending

InstancesTypeOK ==
    /\ kc \in [Keycards -> {"off", "sweeping", "up", "dead"}]
    /\ owner \in [Rooms -> Keycards \cup {None}]
    /\ op \in [Rooms -> OpState]
    /\ waited \in [Rooms -> BOOLEAN]
    /\ copier \in [Rooms -> BOOLEAN]
    /\ dir \subseteq Rooms
    /\ files \in [Rooms -> SUBSET {"owner", "rootfs", "vmm"}]
    /\ \A r \in Rooms \ dir : files[r] = {}
    /\ vmm \in [Rooms -> {"none", "running", "exited"}]
    /\ reused \subseteq Keycards \cup Rooms
    /\ todo \in [Keycards -> SUBSET Rooms]
    /\ ownerless \in [Keycards -> SUBSET Rooms]
    /\ doomed \in [Keycards -> SUBSET Rooms]
    /\ due \in [Keycards -> SUBSET Rooms]

InstancesInit ==
    /\ kc = [k \in Keycards |-> "off"]
    /\ owner = [r \in Rooms |-> None]
    /\ op = [r \in Rooms |-> "none"]
    /\ waited = [r \in Rooms |-> TRUE]
    /\ copier = [r \in Rooms |-> FALSE]
    /\ dir = {}
    /\ files = [r \in Rooms |-> {}]
    /\ vmm = [r \in Rooms |-> "none"]
    /\ reused = {}
    /\ todo = [k \in Keycards |-> {}]
    /\ ownerless = [k \in Keycards |-> {}]
    /\ doomed = [k \in Keycards |-> {}]
    /\ due = [k \in Keycards |-> {}]

Goto(r, o) == op' = [op EXCEPT ![r] = o]
Write(r, f) == files' = [files EXCEPT ![r] = @ \cup {f}]

-----------------------------------------------------------------------------
(* FirecrackerBackend.open.                                                *)

(* A session asks for a room; Instance.create goes to the executor.        *)
Open(k, r) ==
    /\ kc[k] = "up"
    /\ op[r] = "none"
    /\ owner' = [owner EXCEPT ![r] = k]
    /\ Goto(r, "mkdir")
    /\ UNCHANGED <<kc, reused, waited, copier, dir, files, vmm, sweepVars>>

MakeDir(r) ==
    /\ op[r] = "mkdir"
    /\ dir' = dir \cup {r}
    /\ Goto(r, "made")
    /\ UNCHANGED <<kc, reused, owner, waited, copier, files, vmm, sweepVars>>

(* owner.pid is written, and fails if the directory is gone again.         *)
WriteOwner(r) ==
    /\ op[r] = "made"
    /\ IF r \in dir THEN Write(r, "owner") ELSE UNCHANGED files
    /\ Goto(r, IF r \in dir /\ waited[r] THEN "copying" ELSE "ended")
    /\ UNCHANGED <<kc, reused, owner, waited, copier, dir, vmm, sweepVars>>

(* The rootfs is copied and, with no await between, the VMM is forked.     *)
CopyAndSpawn(r) ==
    /\ op[r] = "copying"
    /\ IF r \in dir
       THEN /\ Write(r, "rootfs")
            /\ vmm' = [vmm EXCEPT ![r] = "running"]
            /\ Goto(r, "spawned")
       ELSE /\ Goto(r, "removing")
            /\ UNCHANGED <<files, vmm>>
    /\ UNCHANGED <<kc, reused, owner, waited, copier, dir, sweepVars>>

(* No space, no rootfs, no ruleset: the open raises before the fork.       *)
CopyFails(r) ==
    /\ op[r] = "copying"
    /\ Goto(r, "removing")
    /\ UNCHANGED <<kc, reused, owner, waited, copier, dir, files, vmm, sweepVars>>

(* vmm.pid.  A failure here is not one that _spawn stops the VMM for.      *)
RecordVmm(r) ==
    /\ op[r] = "spawned"
    /\ IF r \in dir
       THEN Write(r, "vmm") /\ Goto(r, "readying")
       ELSE Goto(r, "removing") /\ UNCHANGED files
    /\ UNCHANGED <<kc, reused, owner, waited, copier, dir, vmm, sweepVars>>

(* The API answers; _configure, InstanceStart and _attach follow.          *)
Ready(r) ==
    /\ op[r] = "readying"
    /\ vmm[r] = "running"
    /\ Goto(r, "booting")
    /\ UNCHANGED <<kc, reused, owner, waited, copier, dir, files, vmm, sweepVars>>

(* It does not answer in time: _spawn stops it, then open unwinds.         *)
NotReady(r) ==
    /\ op[r] = "readying"
    /\ Goto(r, "unready")
    /\ UNCHANGED <<kc, reused, owner, waited, copier, dir, files, vmm, sweepVars>>

Booted(r) ==
    /\ op[r] = "booting"
    /\ vmm[r] = "running"
    /\ Goto(r, "live")
    /\ UNCHANGED <<kc, reused, owner, waited, copier, dir, files, vmm, sweepVars>>

BootFails(r) ==
    /\ op[r] = "booting"
    /\ Goto(r, "stopping")
    /\ UNCHANGED <<kc, reused, owner, waited, copier, dir, files, vmm, sweepVars>>

-----------------------------------------------------------------------------
(* FirecrackerRoom.destroy, and the unwinding it shares with open.         *)

(* The first call: the lock and _destroyed turn later ones away.           *)
Destroy(r) ==
    /\ op[r] = "live"
    /\ Goto(r, "exit_wait")
    /\ UNCHANGED <<kc, reused, owner, waited, copier, dir, files, vmm, sweepVars>>

(* The exit status came, or EXIT_GRACE passed.                             *)
ExitKnown(r) ==
    /\ op[r] = "exit_wait"
    /\ Goto(r, "stopping")
    /\ UNCHANGED <<kc, reused, owner, waited, copier, dir, files, vmm, sweepVars>>

StopVmmWithoutKill(r) ==
    /\ op[r] \in {"unready", "stopping"}
    /\ vmm[r] # "running"
    /\ Goto(r, "removing")
    /\ UNCHANGED <<kc, reused, owner, waited, copier, dir, files, vmm, sweepVars>>

(* _stop: SIGTERM, then SIGKILL; it returns when the VMM has exited.       *)
StopVmm(r) ==
    /\ op[r] \in {"unready", "stopping"}
    /\ vmm' = [vmm EXCEPT ![r] = "exited"]
    /\ Goto(r, "removing")
    /\ UNCHANGED <<kc, reused, owner, waited, copier, dir, files, sweepVars>>

(* _remove_dir ignores errors: with a copy still running, the directory    *)
(* may get its rootfs back and stay.                                       *)
RemoveDir(r) ==
    /\ op[r] = "removing"
    /\ Goto(r, "ended")
    /\ copier' = [copier EXCEPT ![r] = FALSE]
    /\ \/ /\ dir' = dir \ {r}
          /\ files' = [files EXCEPT ![r] = {}]
       \/ /\ copier[r] /\ r \in dir
          /\ files' = [files EXCEPT ![r] = {"rootfs"}]
          /\ UNCHANGED dir
    /\ UNCHANGED <<kc, reused, owner, waited, vmm, sweepVars>>

-----------------------------------------------------------------------------
(* The coroutine is cancelled: by a lost connection, or when the loop ends.*)

(* The thread in Instance.create runs on, unless it had not started.       *)
CancelCreate(r) ==
    /\ "cancel_create" \in Env
    /\ op[r] \in Creating /\ waited[r]
    /\ \/ waited' = [waited EXCEPT ![r] = FALSE] /\ UNCHANGED op
       \/ op[r] = "mkdir" /\ Goto(r, "ended") /\ UNCHANGED waited
    /\ UNCHANGED <<kc, reused, owner, copier, dir, files, vmm, sweepVars>>

CancelCopy(r) ==
    /\ "cancel_create" \in Env
    /\ op[r] = "copying"
    /\ Goto(r, "removing")
    /\ copier' = [copier EXCEPT ![r] = TRUE]
    /\ UNCHANGED <<kc, reused, owner, waited, dir, files, vmm, sweepVars>>

(* In create_subprocess_exec asyncio kills the child it just made.         *)
CancelSpawn(r) ==
    /\ op[r] = "spawned"
    /\ vmm' = [vmm EXCEPT ![r] = "exited"]
    /\ Goto(r, "removing")
    /\ UNCHANGED <<kc, reused, owner, waited, copier, dir, files, sweepVars>>

(* While the VMM comes up, open has no vm to stop yet.                     *)
CancelReady(r) ==
    /\ "cancel_ready" \in Env
    /\ op[r] = "readying"
    /\ Goto(r, "removing")
    /\ UNCHANGED <<kc, reused, owner, waited, copier, dir, files, vmm, sweepVars>>

CancelBootUncaught(r) ==
    /\ op[r] = "booting"
    /\ Goto(r, "ended")
    /\ UNCHANGED <<kc, reused, owner, waited, copier, dir, files, vmm, sweepVars>>

(* `except BaseException` unwinds; destroy's first wait swallows it.       *)
CancelBoot(r) ==
    /\ op[r] = "booting"
    /\ Goto(r, "stopping")
    /\ UNCHANGED <<kc, reused, owner, waited, copier, dir, files, vmm, sweepVars>>

CancelExitWait(r) ==
    /\ op[r] = "exit_wait"
    /\ Goto(r, "stopping")
    /\ UNCHANGED <<kc, reused, owner, waited, copier, dir, files, vmm, sweepVars>>

(* In _stop the VMM has its SIGTERM, which it may or may not obey, and the *)
(* directory stays, except that open still unwinds what _spawn gave up.    *)
(* In _remove_dir the thread runs on, unless it had not started.           *)
CancelEnding(r) ==
    /\ "cancel_ending" \in Env
    /\ \/ op[r] = "unready" /\ Goto(r, "removing")
       \/ op[r] \in {"stopping", "removing"} /\ Goto(r, "ended")
    /\ \E v \in {vmm[r], "exited"} :
         vmm' = [vmm EXCEPT ![r] = IF op[r] = "removing" THEN @ ELSE v]
    /\ UNCHANGED <<kc, reused, owner, waited, copier, dir, files, sweepVars>>

-----------------------------------------------------------------------------
(* Processes.                                                              *)

Up(k) == k # None /\ kc[k] \in {"sweeping", "up"}

(* The VMM exits by itself, or is killed from outside.                     *)
VmmDies(r) ==
    /\ vmm[r] = "running"
    /\ vmm' = [vmm EXCEPT ![r] = "exited"]
    /\ UNCHANGED <<kc, reused, owner, op, waited, copier, dir, files, sweepVars>>

(* SIGKILL, or the power: every coroutine and thread of the keycard ends.  *)
Kill(k) ==
    /\ Up(k)
    /\ "kill_spawning" \in Env \/ \A r \in Rooms : ~(owner[r] = k /\ op[r] = "spawned")
    /\ kc' = [kc EXCEPT ![k] = "dead"]
    /\ op' = [r \in Rooms |-> IF owner[r] = k /\ op[r] \notin {"none", "ended"}
                              THEN "killed" ELSE op[r]]
    /\ copier' = [r \in Rooms |-> copier[r] /\ owner[r] # k]
    /\ todo' = [todo EXCEPT ![k] = {}]
    /\ ownerless' = [ownerless EXCEPT ![k] = {}]
    /\ doomed' = [doomed EXCEPT ![k] = {}]
    /\ UNCHANGED <<reused, owner, waited, dir, files, vmm, due>>

(* Pids come into use again and go out of it.                              *)
Dead == {k \in Keycards : kc[k] = "dead"} \cup {r \in Rooms : vmm[r] = "exited"}

Reuse(p) ==
    /\ "pid_reuse" \in Env
    /\ p \in Dead
    /\ reused' = IF p \in reused THEN reused \ {p} ELSE reused \cup {p}
    /\ UNCHANGED <<kc, roomVars, sweepVars>>

-----------------------------------------------------------------------------
(* reap_debris, in the constructor of a starting keycard's backend.        *)

(* _pid_is_alive(owner.pid), _process_is(vmm.pid, "firecracker").          *)
UnownedIsAlive(r) == "owner" \in files[r] => Up(owner[r]) \/ owner[r] \in reused

OwnerAlive(r) == "owner" \in files[r] /\ (Up(owner[r]) \/ owner[r] \in reused)

VmmUnchecked(r) == FALSE

VmmAlive(r) == "vmm" \in files[r] /\ (vmm[r] = "running" \/ r \in reused)

Abandoned(r) == /\ r \in dir
                /\ ~Up(owner[r]) /\ vmm[r] # "running"

Start(k) ==
    /\ kc[k] = "off"
    /\ kc' = [kc EXCEPT ![k] = "sweeping"]
    /\ todo' = [todo EXCEPT ![k] = dir]
    /\ due' = [due EXCEPT ![k] = {r \in Rooms : Abandoned(r)}]
    /\ UNCHANGED <<reused, roomVars, ownerless, doomed>>

(* instance_is_debris asks for the directory and its owner first ...       *)
LookAtOwner(k, r) ==
    /\ kc[k] = "sweeping"
    /\ ownerless[k] = {} /\ doomed[k] = {}
    /\ r \in todo[k]
    /\ "create_race" \in Env \/ op[r] # "made"
    /\ todo' = [todo EXCEPT ![k] = @ \ {r}]
    /\ ownerless' = [ownerless EXCEPT ![k] = {x \in {r} : x \in dir /\ ~OwnerAlive(x)}]
    /\ UNCHANGED <<kc, reused, roomVars, doomed, due>>

(* ... then for the VMM ...                                                *)
LookAtVmm(k, r) ==
    /\ r \in ownerless[k]
    /\ ownerless' = [ownerless EXCEPT ![k] = {}]
    /\ doomed' = [doomed EXCEPT ![k] = {x \in {r} : ~VmmAlive(x)}]
    /\ UNCHANGED <<kc, reused, roomVars, todo, due>>

ReapDirOnly(k, r) ==
    /\ r \in doomed[k]
    /\ dir' = dir \ {r}
    /\ doomed' = [doomed EXCEPT ![k] = {}]
    /\ UNCHANGED <<kc, reused, owner, op, waited, copier, files, vmm, todo, ownerless, due>>

(* ... and the directory goes.                                             *)
Reap(k, r) ==
    /\ r \in doomed[k]
    /\ dir' = dir \ {r}
    /\ files' = [files EXCEPT ![r] = {}]
    /\ doomed' = [doomed EXCEPT ![k] = {}]
    /\ UNCHANGED <<kc, reused, owner, op, waited, copier, vmm, todo, ownerless, due>>

Serving(k) ==
    /\ kc[k] = "sweeping"
    /\ todo[k] = {} /\ ownerless[k] = {} /\ doomed[k] = {}
    /\ kc' = [kc EXCEPT ![k] = "up"]
    /\ UNCHANGED <<reused, roomVars, sweepVars>>

(* The process ends by itself, with nothing of its own still at work.      *)
Exit(k) ==
    /\ kc[k] = "up"
    /\ \A r \in Rooms : owner[r] = k => op[r] = "ended"
    /\ kc' = [kc EXCEPT ![k] = "dead"]
    /\ UNCHANGED <<reused, roomVars, sweepVars>>

AllOver ==
    /\ \A k \in Keycards : kc[k] = "dead"
    /\ UNCHANGED instanceVars

-----------------------------------------------------------------------------
OpenStep(r) ==
    \/ MakeDir(r) \/ WriteOwner(r) \/ CopyAndSpawn(r) \/ CopyFails(r) \/ RecordVmm(r)
    \/ Ready(r) \/ NotReady(r) \/ Booted(r) \/ BootFails(r)

EndStep(r) == ExitKnown(r) \/ StopVmm(r) \/ RemoveDir(r)

Cancel(r) ==
    \/ CancelCreate(r) \/ CancelCopy(r) \/ CancelSpawn(r) \/ CancelReady(r)
    \/ CancelBoot(r) \/ CancelExitWait(r) \/ CancelEnding(r)

SweepStep(k) ==
    \/ \E r \in Rooms : LookAtOwner(k, r) \/ LookAtVmm(k, r) \/ Reap(k, r)
    \/ Serving(k)

InstancesNext ==
    \/ \E r \in Rooms : OpenStep(r) \/ EndStep(r) \/ Cancel(r) \/ Destroy(r) \/ VmmDies(r)
    \/ \E k \in Keycards : Start(k) \/ SweepStep(k) \/ Kill(k) \/ Exit(k)
    \/ \E k \in Keycards, r \in Rooms : Open(k, r)
    \/ \E p \in Keycards \cup Rooms : Reuse(p)
    \/ AllOver

(* A coroutine under way goes on, and so does a starting keycard.          *)
InstancesFairness ==
    /\ \A r \in Rooms : WF_instanceVars(OpenStep(r)) /\ WF_instanceVars(EndStep(r))
    /\ \A k \in Keycards : WF_instanceVars(SweepStep(k))

InstancesSpec == InstancesInit /\ [][InstancesNext]_instanceVars
FairInstancesSpec == InstancesSpec /\ InstancesFairness

-----------------------------------------------------------------------------
(* Properties.                                                             *)

InUse(r) == op[r] \notin {"none", "ended", "killed"} \/ vmm[r] = "running"

(* A sweep removes no directory that a live process uses: not a room being *)
(* built, open or ending in another keycard, not one whose keycard was     *)
(* killed and whose VMM goes on.                                           *)
LiveNeverReaped ==
    [][\A r \in Rooms : r \in dir /\ r \notin dir' => ~InUse(r) \/ op[r] = "removing"]_instanceVars

(* When open has failed or been cancelled, or destroy is over, nothing is  *)
(* left of the room: no directory with a disk image, no VMM.               *)
NothingLeftBehind ==
    \A r \in Rooms : op[r] = "ended" => r \notin dir /\ vmm[r] # "running"

(* A keycard that serves has removed all that was abandoned before it      *)
(* started, however its owner died: a pid in use again only postpones it.  *)
DebrisReaped ==
    "pid_reuse" \notin Env =>
        \A k \in Keycards : kc[k] = "up" => due[k] \cap dir = {}

(* A room that is being opened or ended gets there, unless its keycard is  *)
(* killed.                                                                 *)
RoomSettles ==
    \A r \in Rooms :
        op[r] \in Building \cup Ending ~> op[r] \in {"live", "ended", "killed"}
=============================================================================
