-------------------------- MODULE Instances_proofs --------------------------
(***************************************************************************)
(* Proofs about Instances, for any number of keycards and rooms.           *)
(***************************************************************************)
EXTENDS Instances, TLAPS

USE DEF roomVars, sweepVars, Goto, Write

(* The steps of a room's coroutine that only move it on.                   *)
Moves(r) ==
    /\ \E from, to \in OpState :
          /\ op[r] = from /\ op' = [op EXCEPT ![r] = to]
          /\ from \notin {"none", "ended", "killed", "mkdir", "made", "copying", "spawned"}
          /\ to \notin {"none", "killed", "mkdir", "made", "copying", "spawned"}
          /\ from = "removing" => to = "ended"
    /\ vmm' \in [Rooms -> {"none", "running", "exited"}]
    /\ \A x \in Rooms : vmm'[x] = vmm[x] \/ (x = r /\ vmm'[x] = "exited" /\ op[r] # "removing")
    /\ UNCHANGED <<kc, reused, owner, waited, copier, dir, files, sweepVars>>

(* A step of a room's coroutine goes to a state that the type allows.      *)
LEMMA MovesOn ==
    ASSUME InstancesTypeOK, NEW r \in Rooms,
           \/ Ready(r) \/ NotReady(r) \/ Booted(r) \/ BootFails(r) \/ Destroy(r)
           \/ ExitKnown(r) \/ StopVmm(r) \/ CancelReady(r) \/ CancelBoot(r)
           \/ CancelExitWait(r) \/ CancelEnding(r)
    PROVE  Moves(r)
<1> USE DEF InstancesTypeOK, OpState, Building, Creating, Ending, Moves
<1>1. CASE Ready(r)
  BY <1>1 DEF Ready
<1>2. CASE NotReady(r)
  BY <1>2 DEF NotReady
<1>3. CASE Booted(r)
  BY <1>3 DEF Booted
<1>4. CASE BootFails(r)
  BY <1>4 DEF BootFails
<1>5. CASE Destroy(r)
  BY <1>5 DEF Destroy
<1>6. CASE ExitKnown(r)
  BY <1>6 DEF ExitKnown
<1>7. CASE StopVmm(r)
  BY <1>7 DEF StopVmm
<1>8. CASE CancelReady(r)
  BY <1>8 DEF CancelReady
<1>9. CASE CancelBoot(r)
  BY <1>9 DEF CancelBoot
<1>10. CASE CancelExitWait(r)
  BY <1>10 DEF CancelExitWait
<1>11. CASE CancelEnding(r)
  <2>1. \/ op[r] = "unready" /\ op' = [op EXCEPT ![r] = "removing"]
        \/ op[r] \in {"stopping", "removing"} /\ op' = [op EXCEPT ![r] = "ended"]
    BY <1>11 DEF CancelEnding
  <2>2. /\ vmm' \in [Rooms -> {"none", "running", "exited"}]
        /\ \A x \in Rooms : vmm'[x] = vmm[x] \/ (x = r /\ vmm'[x] = "exited" /\ op[r] # "removing")
    BY <1>11 DEF CancelEnding
  <2>3. UNCHANGED <<kc, reused, owner, waited, copier, dir, files, sweepVars>>
    BY <1>11 DEF CancelEnding
  <2>4. \E from, to \in OpState :
          /\ op[r] = from /\ op' = [op EXCEPT ![r] = to]
          /\ from \notin {"none", "ended", "killed", "mkdir", "made", "copying", "spawned"}
          /\ to \notin {"none", "killed", "mkdir", "made", "copying", "spawned"}
          /\ from = "removing" => to = "ended"
    BY <2>1
  <2> QED BY ONLY <2>2, <2>3, <2>4 DEF Moves
<1> QED BY <1>1, <1>2, <1>3, <1>4, <1>5, <1>6, <1>7, <1>8, <1>9, <1>10, <1>11

-----------------------------------------------------------------------------
(* Types.                                                                  *)
LEMMA InstancesInitType == ASSUME InstancesInit PROVE InstancesTypeOK
BY DEF InstancesInit, InstancesTypeOK, OpState

(* Every step of a coroutine, of a sweep or of a process keeps the types.  *)
LEMMA InstancesNextType ==
    ASSUME InstancesTypeOK, [InstancesNext]_instanceVars
    PROVE  InstancesTypeOK'
<1> USE DEF InstancesTypeOK, OpState, Building, Creating, Ending
<1>1. ASSUME NEW r \in Rooms, Moves(r) PROVE InstancesTypeOK'
  <2>1. op' \in [Rooms -> OpState]
    BY <1>1 DEF Moves
  <2>2. /\ vmm' \in [Rooms -> {"none", "running", "exited"}]
        /\ UNCHANGED <<kc, reused, owner, waited, copier, dir, files, todo, ownerless, doomed, due>>
    BY <1>1 DEF Moves
  <2> HIDE DEF OpState
  <2> QED BY <2>1, <2>2
<1>2. ASSUME NEW k \in Keycards, NEW r \in Rooms, Open(k, r) PROVE InstancesTypeOK'
  BY <1>2 DEF Open
<1>3. ASSUME NEW r \in Rooms, MakeDir(r) \/ WriteOwner(r) PROVE InstancesTypeOK'
  <2>1. CASE MakeDir(r)
    BY <2>1 DEF MakeDir
  <2>2. CASE WriteOwner(r)
    BY <2>2 DEF WriteOwner
  <2> QED BY <1>3, <2>1, <2>2
<1>4. ASSUME NEW r \in Rooms, CopyAndSpawn(r) \/ CopyFails(r) \/ RecordVmm(r) PROVE InstancesTypeOK'
  <2>1. CASE CopyAndSpawn(r)
    BY <2>1 DEF CopyAndSpawn
  <2>2. CASE CopyFails(r)
    BY <2>2 DEF CopyFails
  <2>3. CASE RecordVmm(r)
    BY <2>3 DEF RecordVmm
  <2> QED BY <1>4, <2>1, <2>2, <2>3
<1>5. ASSUME NEW r \in Rooms, RemoveDir(r) PROVE InstancesTypeOK'
  BY <1>5 DEF RemoveDir
<1>6. ASSUME NEW r \in Rooms, CancelCreate(r) \/ CancelCopy(r) \/ CancelSpawn(r) \/ VmmDies(r)
      PROVE  InstancesTypeOK'
  <2>1. CASE CancelCreate(r)
    <3>1. op' \in [Rooms -> OpState]
      BY <2>1 DEF CancelCreate
    <3>2. waited' \in [Rooms -> BOOLEAN]
      BY <2>1 DEF CancelCreate
    <3> QED BY <2>1, <3>1, <3>2 DEF CancelCreate
  <2>2. CASE CancelCopy(r)
    BY <2>2 DEF CancelCopy
  <2>3. CASE CancelSpawn(r)
    BY <2>3 DEF CancelSpawn
  <2>4. CASE VmmDies(r)
    BY <2>4 DEF VmmDies
  <2> QED BY <1>6, <2>1, <2>2, <2>3, <2>4
<1>7. ASSUME NEW k \in Keycards, Kill(k) PROVE InstancesTypeOK'
  BY <1>7 DEF Kill
<1>8. ASSUME NEW p \in Keycards \cup Rooms, Reuse(p) PROVE InstancesTypeOK'
  BY <1>8 DEF Reuse
<1>9. ASSUME NEW k \in Keycards, Start(k) \/ Serving(k) \/ Exit(k) PROVE InstancesTypeOK'
  <2>1. CASE Start(k)
    BY <2>1 DEF Start, Abandoned
  <2>2. CASE Serving(k) \/ Exit(k)
    BY <2>2 DEF Serving, Exit
  <2> QED BY <1>9, <2>1, <2>2
<1>10. ASSUME NEW k \in Keycards, NEW r \in Rooms, LookAtOwner(k, r) \/ LookAtVmm(k, r) \/ Reap(k, r)
       PROVE  InstancesTypeOK'
  <2>1. CASE LookAtOwner(k, r)
    BY <2>1 DEF LookAtOwner
  <2>2. CASE LookAtVmm(k, r)
    BY <2>2 DEF LookAtVmm
  <2>3. CASE Reap(k, r)
    BY <2>3 DEF Reap
  <2> QED BY <1>10, <2>1, <2>2, <2>3
<1>11. CASE UNCHANGED instanceVars
  BY <1>11 DEF instanceVars
<1> QED
  BY <1>1, <1>2, <1>3, <1>4, <1>5, <1>6, <1>7, <1>8, <1>9, <1>10, <1>11, MovesOn
  DEF InstancesNext, OpenStep, EndStep, Cancel, SweepStep, AllOver

(* Every variable keeps its type, and no file is without its directory.    *)
THEOREM InstancesTypeCorrect == InstancesSpec => []InstancesTypeOK
<1>1. InstancesInit => InstancesTypeOK
  BY InstancesInitType
<1>2. InstancesTypeOK /\ [InstancesNext]_instanceVars => InstancesTypeOK'
  BY InstancesNextType
<1> QED BY <1>1, <1>2, PTL DEF InstancesSpec

-----------------------------------------------------------------------------
(***************************************************************************)
(* What makes the sweep safe.  Whatever works on a room works for a        *)
(* keycard that is up and, from owner.pid on, is named in the directory; a *)
(* VMM that runs is named there as soon as its open moved on; and a verdict*)
(* of the sweep stays right, because nobody works in a dead directory      *)
(* again.                                                                  *)
(***************************************************************************)
Idle == {"none", "ended", "killed"}

Owned ==
    \A r \in Rooms : op[r] \notin Idle =>
        /\ owner[r] \in Keycards /\ kc[owner[r]] = "up"
        /\ r \in dir /\ op[r] # "made" => "owner" \in files[r]

Recorded ==
    \A r \in Rooms :
        /\ r \in dir => op[r] \notin {"none", "mkdir"}
        /\ op[r] \in {"none", "mkdir", "made", "copying"} => vmm[r] = "none"
        /\ copier[r] => vmm[r] = "none" /\ op[r] \in {"removing", "ended"}
        /\ r \in dir /\ vmm[r] = "running" /\ op[r] # "spawned" => "vmm" \in files[r]

Verdicts ==
    \A k \in Keycards, r \in Rooms :
        /\ r \in ownerless[k] \cup doomed[k] => op[r] \in {"ended", "killed"}
        /\ r \in doomed[k] /\ r \in dir => vmm[r] # "running"

SweepInv == Owned /\ Recorded /\ Verdicts

(* Before any keycard runs there is nothing to own or to judge.            *)
LEMMA SweepInvInit == ASSUME InstancesInit PROVE SweepInv
BY InstancesAssumption DEF InstancesInit, SweepInv, Owned, Recorded, Verdicts, Idle

(* Outside the two windows, every step keeps verdicts of the sweep true.   *)
LEMMA SweepInvNext ==
    ASSUME "create_race" \notin Env, "kill_spawning" \notin Env,
           InstancesTypeOK, InstancesTypeOK', SweepInv, [InstancesNext]_instanceVars
    PROVE  SweepInv'
<1> USE InstancesAssumption
<1> USE DEF InstancesTypeOK, SweepInv, Owned, Recorded, Verdicts, Idle, Creating
<1>1. ASSUME NEW r \in Rooms, Moves(r) PROVE SweepInv'
  <2>1. PICK to : /\ op' = [op EXCEPT ![r] = to]
                  /\ op[r] \notin {"none", "ended", "killed", "mkdir", "made", "copying", "spawned"}
                  /\ to \notin {"none", "killed", "mkdir", "made", "copying", "spawned"}
                  /\ op[r] = "removing" => to = "ended"
    BY <1>1 DEF Moves
  <2>2. \A x \in Rooms : vmm'[x] = vmm[x] \/ (x = r /\ vmm'[x] = "exited" /\ op[r] # "removing")
    BY <1>1 DEF Moves
  <2>3. UNCHANGED <<kc, owner, copier, dir, files, ownerless, doomed>>
    BY <1>1 DEF Moves
  <2>4. Owned'
    BY <2>1, <2>3
  <2>5. Recorded'
    BY <2>1, <2>2, <2>3
  <2>6. Verdicts'
    BY <2>1, <2>2, <2>3
  <2> QED BY <2>4, <2>5, <2>6
<1>2. ASSUME NEW k \in Keycards, NEW r \in Rooms, Open(k, r) PROVE SweepInv'
  BY <1>2 DEF Open
<1>3. ASSUME NEW r \in Rooms, MakeDir(r) PROVE SweepInv'
  BY <1>3 DEF MakeDir
<1>4. ASSUME NEW r \in Rooms, WriteOwner(r) PROVE SweepInv'
  BY <1>4 DEF WriteOwner
<1>5. ASSUME NEW r \in Rooms, CopyAndSpawn(r) PROVE SweepInv'
  BY <1>5 DEF CopyAndSpawn
<1>6. ASSUME NEW r \in Rooms, CopyFails(r) PROVE SweepInv'
  BY <1>6 DEF CopyFails
<1>7. ASSUME NEW r \in Rooms, RecordVmm(r) PROVE SweepInv'
  BY <1>7 DEF RecordVmm
<1>8. ASSUME NEW r \in Rooms, RemoveDir(r) PROVE SweepInv'
  BY <1>8 DEF RemoveDir
<1>9. ASSUME NEW r \in Rooms, CancelCreate(r) PROVE SweepInv'
  BY <1>9 DEF CancelCreate
<1>10. ASSUME NEW r \in Rooms, CancelCopy(r) \/ CancelSpawn(r) \/ VmmDies(r) PROVE SweepInv'
  <2>1. CASE CancelCopy(r)
    BY <2>1 DEF CancelCopy
  <2>2. CASE CancelSpawn(r)
    BY <2>2 DEF CancelSpawn
  <2>3. CASE VmmDies(r)
    BY <2>3 DEF VmmDies
  <2> QED BY <1>10, <2>1, <2>2, <2>3
<1>11. ASSUME NEW k \in Keycards, Kill(k) PROVE SweepInv'
  <2>1. Owned'
    BY <1>11 DEF Kill
  <2>2. Recorded'
    BY <1>11 DEF Kill
  <2>3. Verdicts'
    BY <1>11 DEF Kill
  <2> QED BY <2>1, <2>2, <2>3
<1>12. ASSUME NEW p \in Keycards \cup Rooms, Reuse(p) PROVE SweepInv'
  BY <1>12 DEF Reuse
<1>13. ASSUME NEW k \in Keycards, Start(k) \/ Serving(k) \/ Exit(k) PROVE SweepInv'
  <2>1. CASE Start(k)
    BY <2>1 DEF Start
  <2>2. CASE Serving(k)
    BY <2>2 DEF Serving
  <2>3. CASE Exit(k)
    BY <2>3 DEF Exit
  <2> QED BY <1>13, <2>1, <2>2, <2>3
<1>14. ASSUME NEW k \in Keycards, NEW r \in Rooms, LookAtOwner(k, r) PROVE SweepInv'
  BY <1>14 DEF LookAtOwner, OwnerAlive, Up
<1>15. ASSUME NEW k \in Keycards, NEW r \in Rooms, LookAtVmm(k, r) PROVE SweepInv'
  BY <1>15 DEF LookAtVmm, VmmAlive
<1>16. ASSUME NEW k \in Keycards, NEW r \in Rooms, Reap(k, r) PROVE SweepInv'
  BY <1>16 DEF Reap
<1>17. CASE UNCHANGED instanceVars
  BY <1>17 DEF instanceVars
<1> QED
  BY <1>1, <1>2, <1>3, <1>4, <1>5, <1>6, <1>7, <1>8, <1>9, <1>10, <1>11, <1>12, <1>13, <1>14,
     <1>15, <1>16, <1>17, MovesOn
  DEF InstancesNext, OpenStep, EndStep, Cancel, SweepStep, AllOver

(* Provided no sweep looks at a directory between its mkdir and its        *)
(* owner.pid, and no keycard is killed between the fork of a VMM and its   *)
(* vmm.pid, a sweep never removes a directory in use: for any number of    *)
(* keycards sharing the runtime directory, killed at any other moment, and *)
(* however their coroutines are cancelled and their pids used again.       *)
THEOREM SweepIsSafe ==
    ASSUME "create_race" \notin Env, "kill_spawning" \notin Env
    PROVE  InstancesSpec => LiveNeverReaped
<1>1. InstancesInit => SweepInv
  BY SweepInvInit
<1>2. InstancesTypeOK /\ InstancesTypeOK' /\ SweepInv /\ [InstancesNext]_instanceVars => SweepInv'
  BY SweepInvNext
<1>3. InstancesTypeOK /\ SweepInv /\ [InstancesNext]_instanceVars =>
        [\A r \in Rooms : r \in dir /\ r \notin dir' => ~InUse(r) \/ op[r] = "removing"]_instanceVars
  <2> SUFFICES ASSUME InstancesTypeOK, SweepInv, InstancesNext,
                      NEW r \in Rooms, r \in dir, r \notin dir'
               PROVE  ~InUse(r) \/ op[r] = "removing"
    OBVIOUS
  <2>1. \/ \E x \in Rooms : op[x] = "removing" /\ dir' = dir \ {x}
        \/ \E k \in Keycards, x \in Rooms : x \in doomed[k] /\ dir' = dir \ {x}
    <3>1. ASSUME NEW x \in Rooms, Moves(x) PROVE dir' = dir
      BY <3>1 DEF Moves
    <3>2. ASSUME NEW x \in Rooms, RemoveDir(x)
          PROVE  op[x] = "removing" /\ (dir' = dir \/ dir' = dir \ {x})
      BY <3>2 DEF RemoveDir
    <3>3. ASSUME NEW k \in Keycards, NEW x \in Rooms, Reap(k, x)
          PROVE  x \in doomed[k] /\ dir' = dir \ {x}
      BY <3>3 DEF Reap
    <3>4. ASSUME NEW x \in Rooms, OpenStep(x) \/ Cancel(x) \/ Destroy(x) \/ VmmDies(x)
                                 \/ ExitKnown(x) \/ StopVmm(x)
          PROVE  dir \subseteq dir'
      BY <3>4, <3>1, MovesOn
      DEF OpenStep, Cancel, MakeDir, WriteOwner, CopyAndSpawn, CopyFails, RecordVmm, VmmDies,
          CancelCreate, CancelCopy, CancelSpawn
    <3>5. ASSUME NEW k \in Keycards, NEW x \in Rooms, LookAtOwner(k, x) \/ LookAtVmm(k, x) \/ Open(k, x)
          PROVE  dir' = dir
      BY <3>5 DEF LookAtOwner, LookAtVmm, Open
    <3>6. ASSUME NEW k \in Keycards, Start(k) \/ Serving(k) \/ Kill(k) \/ Exit(k) PROVE dir' = dir
      BY <3>6 DEF Start, Serving, Kill, Exit
    <3>7. ASSUME NEW p \in Keycards \cup Rooms, Reuse(p) PROVE dir' = dir
      BY <3>7 DEF Reuse
    <3>8. ASSUME AllOver PROVE dir' = dir
      BY <3>8 DEF AllOver, instanceVars
    <3> QED BY <3>2, <3>3, <3>4, <3>5, <3>6, <3>7, <3>8 DEF InstancesNext, EndStep, SweepStep
  <2>2. CASE op[r] = "removing"
    BY <2>2
  <2>3. CASE \E k \in Keycards : r \in doomed[k]
    BY <2>3 DEF SweepInv, Verdicts, InUse
  <2> QED BY <2>1, <2>2, <2>3
<1> QED BY <1>1, <1>2, <1>3, InstancesTypeCorrect, PTL DEF InstancesSpec, LiveNeverReaped

-----------------------------------------------------------------------------
(***************************************************************************)
(* What the sweep of a starting keycard owes, whatever the other events    *)
(* are: a room whose keycard is gone is never worked on again, its VMM     *)
(* does not come back, and what is owed is still to be looked at or under  *)
(* the verdict that removes it.                                            *)
(***************************************************************************)
OwnersKnown ==
    \A r \in Rooms :
        /\ op[r] = "none" => owner[r] = None
        /\ op[r] # "none" => owner[r] \in Keycards /\ kc[owner[r]] \in {"up", "dead"}
        /\ op[r] \notin Idle => kc[owner[r]] = "up"
        /\ r \in dir => op[r] \notin {"none", "mkdir"}

OneAtATime ==
    \A k \in Keycards :
        \A x, y \in ownerless[k] \cup doomed[k] : x = y

Owed ==
    \A k \in Keycards : \A r \in due[k] :
        /\ kc[owner[r]] = "dead" /\ owner[r] \in Keycards
        /\ op[r] \in {"ended", "killed"} /\ vmm[r] # "running"
        /\ kc[k] = "sweeping" /\ r \in dir => r \in todo[k] \cup ownerless[k] \cup doomed[k]
        /\ kc[k] = "up" => r \notin dir

DebrisInv == OwnersKnown /\ OneAtATime /\ Owed /\ reused = {}

(***************************************************************************)
(* What open and destroy leave when nothing cancels them: a room whose     *)
(* coroutine is under way has its directory, and a VMM that runs has a     *)
(* coroutine that will stop it.                                            *)
(***************************************************************************)
Uncancelled == Env \cap {"cancel_create", "cancel_ready", "cancel_ending", "create_race"} = {}

TidyInv ==
    \A r \in Rooms :
        /\ waited[r] /\ ~copier[r]
        /\ op[r] \notin Idle =>
             /\ owner[r] \in Keycards /\ kc[owner[r]] = "up"
             /\ op[r] # "made" /\ r \in dir => "owner" \in files[r]
        /\ op[r] \in {"none", "mkdir"} => r \notin dir
        /\ op[r] \in {"none", "mkdir", "made", "copying"} => vmm[r] = "none"
        /\ op[r] \notin Idle \cup {"mkdir", "removing"} => r \in dir
        /\ op[r] \in {"removing", "ended"} => vmm[r] # "running"
        /\ op[r] = "ended" => r \notin dir
        /\ \A k \in Keycards : r \in ownerless[k] \cup doomed[k] => op[r] \in {"ended", "killed"}

(* Before any keycard runs nothing is owed and nothing is left.            *)
LEMMA DebrisInvInit == ASSUME InstancesInit PROVE DebrisInv /\ TidyInv
BY InstancesAssumption DEF InstancesInit, DebrisInv, OwnersKnown, OneAtATime, Owed, TidyInv, Idle

(* A room's coroutine and its VMM give the sweep nothing more to do.       *)
LEMMA RoomKeepsDebrisInv ==
    ASSUME InstancesTypeOK, DebrisInv, NEW r \in Rooms,
           OpenStep(r) \/ EndStep(r) \/ Cancel(r) \/ Destroy(r) \/ VmmDies(r)
    PROVE  DebrisInv'
<1> USE InstancesAssumption
<1> USE DEF InstancesTypeOK, DebrisInv, OwnersKnown, OneAtATime, Owed, Idle, Creating
<1>1. ASSUME Moves(r) PROVE DebrisInv'
  <2>1. PICK to : /\ op' = [op EXCEPT ![r] = to]
                  /\ op[r] \notin {"none", "ended", "killed", "mkdir", "made", "copying", "spawned"}
                  /\ to \notin {"none", "killed", "mkdir", "made", "copying", "spawned"}
    BY <1>1 DEF Moves
  <2>2. \A x \in Rooms : vmm'[x] = vmm[x] \/ vmm'[x] = "exited"
    BY <1>1 DEF Moves
  <2>3. UNCHANGED <<kc, reused, owner, dir, todo, ownerless, doomed, due>>
    BY <1>1 DEF Moves
  <2> QED BY <2>1, <2>2, <2>3
<1>2. CASE MakeDir(r)
  BY <1>2 DEF MakeDir
<1>3. CASE WriteOwner(r)
  BY <1>3 DEF WriteOwner
<1>4. CASE CopyAndSpawn(r)
  BY <1>4 DEF CopyAndSpawn
<1>5. CASE CopyFails(r)
  BY <1>5 DEF CopyFails
<1>6. CASE RecordVmm(r)
  BY <1>6 DEF RecordVmm
<1>7. CASE RemoveDir(r)
  BY <1>7 DEF RemoveDir
<1>8. CASE CancelCreate(r)
  BY <1>8 DEF CancelCreate
<1>9. CASE CancelCopy(r)
  BY <1>9 DEF CancelCopy
<1>10. CASE CancelSpawn(r)
  BY <1>10 DEF CancelSpawn
<1>11. CASE VmmDies(r)
  BY <1>11 DEF VmmDies
<1> QED
  BY <1>1, <1>2, <1>3, <1>4, <1>5, <1>6, <1>7, <1>8, <1>9, <1>10, <1>11, MovesOn
  DEF OpenStep, EndStep, Cancel

(* With no pid in use again, every turn of a sweep deals with what it owes.*)
LEMMA DebrisInvNext ==
    ASSUME "pid_reuse" \notin Env, InstancesTypeOK, InstancesTypeOK', DebrisInv, [InstancesNext]_instanceVars
    PROVE  DebrisInv'
<1> USE InstancesAssumption
<1> USE DEF InstancesTypeOK, DebrisInv, OwnersKnown, OneAtATime, Owed, Idle
<1>1. ASSUME NEW k \in Keycards, NEW r \in Rooms, Open(k, r) PROVE DebrisInv'
  BY <1>1 DEF Open
<1>2. ASSUME NEW k \in Keycards, Start(k) PROVE DebrisInv'
  <2>1. \A r \in Rooms : Abandoned(r) => owner[r] \in Keycards /\ kc[owner[r]] = "dead" /\ op[r] \in {"ended", "killed"}
                                         /\ r \in dir /\ vmm[r] # "running"
    BY DEF Abandoned, Up
  <2>2. /\ kc[k] = "off" /\ kc' = [kc EXCEPT ![k] = "sweeping"] /\ todo' = [todo EXCEPT ![k] = dir]
        /\ due' = [due EXCEPT ![k] = {r \in Rooms : Abandoned(r)}]
        /\ UNCHANGED <<reused, owner, op, dir, vmm, ownerless, doomed>>
    BY <1>2 DEF Start
  <2>3. OwnersKnown' /\ OneAtATime'
    BY <2>2
  <2>4. Owed'
    BY <2>1, <2>2
  <2> QED BY <2>2, <2>3, <2>4
<1>3. ASSUME NEW k \in Keycards, Kill(k) PROVE DebrisInv'
  <2>1. OwnersKnown'
    BY <1>3 DEF Kill
  <2>2. OneAtATime'
    BY <1>3 DEF Kill
  <2>3. Owed'
    BY <1>3 DEF Kill
  <2> QED BY <1>3, <2>1, <2>2, <2>3 DEF Kill
<1>4. ASSUME NEW k \in Keycards, Serving(k) PROVE DebrisInv'
  BY <1>4 DEF Serving
<1>5. ASSUME NEW k \in Keycards, Exit(k) PROVE DebrisInv'
  BY <1>5 DEF Exit
<1>6. ASSUME NEW k \in Keycards, NEW r \in Rooms, LookAtOwner(k, r) PROVE DebrisInv'
  BY <1>6 DEF LookAtOwner, OwnerAlive, Up
<1>7. ASSUME NEW k \in Keycards, NEW r \in Rooms, LookAtVmm(k, r) PROVE DebrisInv'
  BY <1>7 DEF LookAtVmm, VmmAlive
<1>8. ASSUME NEW k \in Keycards, NEW r \in Rooms, Reap(k, r) PROVE DebrisInv'
  BY <1>8 DEF Reap
<1>9. ASSUME NEW p \in Keycards \cup Rooms, Reuse(p) PROVE DebrisInv'
  BY <1>9 DEF Reuse
<1>10. CASE UNCHANGED instanceVars
  BY <1>10 DEF instanceVars
<1> HIDE DEF InstancesTypeOK, DebrisInv
<1> QED
  BY <1>1, <1>2, <1>3, <1>4, <1>5, <1>6, <1>7, <1>8, <1>9, <1>10, RoomKeepsDebrisInv
  DEF InstancesNext, SweepStep, AllOver

(* A keycard that serves has removed whatever was abandoned before it      *)
(* started, for any number of keycards and rooms and whatever is cancelled,*)
(* raced or killed: only a pid in use again can put it off (reap_debris).  *)
THEOREM NoDebrisStays == InstancesSpec => []DebrisReaped
<1>1. CASE "pid_reuse" \in Env
  <2>1. DebrisReaped
    BY <1>1 DEF DebrisReaped
  <2> QED BY <2>1, PTL
<1>2. CASE "pid_reuse" \notin Env
  <2>1. InstancesInit => DebrisInv
    BY DebrisInvInit
  <2>2. InstancesTypeOK /\ InstancesTypeOK' /\ DebrisInv /\ [InstancesNext]_instanceVars => DebrisInv'
    BY <1>2, DebrisInvNext
  <2>3. InstancesTypeOK /\ DebrisInv => DebrisReaped
    BY DEF InstancesTypeOK, DebrisInv, Owed, DebrisReaped
  <2> QED BY <2>1, <2>2, <2>3, InstancesTypeCorrect, PTL DEF InstancesSpec
<1> QED BY <1>1, <1>2

(* A room that nothing cancels keeps its directory to the end, and its VMM *)
(* is stopped before that.                                                 *)
LEMMA TidyInvNext ==
    ASSUME Uncancelled, InstancesTypeOK, InstancesTypeOK', TidyInv, [InstancesNext]_instanceVars
    PROVE  TidyInv'
<1> USE InstancesAssumption
<1> USE DEF Uncancelled, InstancesTypeOK, TidyInv, Idle
<1>1. ASSUME NEW r \in Rooms, MakeDir(r) PROVE TidyInv'
  BY <1>1 DEF MakeDir
<1>2. ASSUME NEW r \in Rooms, WriteOwner(r) PROVE TidyInv'
  BY <1>2 DEF WriteOwner
<1>3. ASSUME NEW r \in Rooms, CopyAndSpawn(r) PROVE TidyInv'
  BY <1>3 DEF CopyAndSpawn
<1>4. ASSUME NEW r \in Rooms, CopyFails(r) PROVE TidyInv'
  BY <1>4 DEF CopyFails
<1>5. ASSUME NEW r \in Rooms, RecordVmm(r) PROVE TidyInv'
  BY <1>5 DEF RecordVmm
<1>6. ASSUME NEW r \in Rooms,
             \/ Ready(r) \/ NotReady(r) \/ Booted(r) \/ BootFails(r) \/ Destroy(r)
             \/ ExitKnown(r) \/ CancelBoot(r) \/ CancelExitWait(r)
      PROVE  TidyInv'
  <2>1. PICK to \in {"booting", "unready", "live", "stopping", "exit_wait"} : op' = [op EXCEPT ![r] = to]
    BY <1>6 DEF Ready, NotReady, Booted, BootFails, Destroy, ExitKnown, CancelBoot, CancelExitWait
  <2>2. op[r] \notin Idle \cup {"mkdir", "made", "copying", "removing"}
    BY <1>6 DEF Ready, NotReady, Booted, BootFails, Destroy, ExitKnown, CancelBoot, CancelExitWait
  <2>3. UNCHANGED <<kc, owner, waited, copier, dir, files, vmm, ownerless, doomed>>
    BY <1>6 DEF Ready, NotReady, Booted, BootFails, Destroy, ExitKnown, CancelBoot, CancelExitWait
  <2> QED BY <2>1, <2>2, <2>3
<1>7. ASSUME NEW r \in Rooms, StopVmm(r) PROVE TidyInv'
  BY <1>7 DEF StopVmm
<1>8. ASSUME NEW r \in Rooms, RemoveDir(r) PROVE TidyInv'
  BY <1>8 DEF RemoveDir
<1>9. ASSUME NEW r \in Rooms, CancelSpawn(r) PROVE TidyInv'
  BY <1>9 DEF CancelSpawn
<1>10. ASSUME NEW r \in Rooms, CancelCreate(r) \/ CancelCopy(r) \/ CancelReady(r) \/ CancelEnding(r) PROVE TidyInv'
  BY <1>10 DEF CancelCreate, CancelCopy, CancelReady, CancelEnding
<1>11. ASSUME NEW r \in Rooms, VmmDies(r) PROVE TidyInv'
  BY <1>11 DEF VmmDies
<1>12. ASSUME NEW k \in Keycards, NEW r \in Rooms, Open(k, r) PROVE TidyInv'
  BY <1>12 DEF Open
<1>13. ASSUME NEW k \in Keycards, Start(k) \/ Serving(k) PROVE TidyInv'
  BY <1>13 DEF Start, Serving
<1>14. ASSUME NEW k \in Keycards, Kill(k) PROVE TidyInv'
  BY <1>14 DEF Kill
<1>15. ASSUME NEW k \in Keycards, Exit(k) PROVE TidyInv'
  BY <1>15 DEF Exit
<1>16. ASSUME NEW k \in Keycards, NEW r \in Rooms, LookAtOwner(k, r) PROVE TidyInv'
  BY <1>16 DEF LookAtOwner, OwnerAlive, Up
<1>17. ASSUME NEW k \in Keycards, NEW r \in Rooms, LookAtVmm(k, r) PROVE TidyInv'
  BY <1>17 DEF LookAtVmm
<1>18. ASSUME NEW k \in Keycards, NEW r \in Rooms, Reap(k, r) PROVE TidyInv'
  BY <1>18 DEF Reap
<1>19. ASSUME NEW p \in Keycards \cup Rooms, Reuse(p) PROVE TidyInv'
  BY <1>19 DEF Reuse
<1>20. CASE UNCHANGED instanceVars
  BY <1>20 DEF instanceVars
<1> HIDE DEF InstancesTypeOK, TidyInv, Uncancelled
<1> QED
  BY <1>1, <1>2, <1>3, <1>4, <1>5, <1>6, <1>7, <1>8, <1>9, <1>10, <1>11, <1>12, <1>13, <1>14,
     <1>15, <1>16, <1>17, <1>18, <1>19, <1>20
  DEF InstancesNext, OpenStep, EndStep, Cancel, SweepStep, AllOver

(* An open that failed, at whatever point, and a destroy that is over have *)
(* left neither a directory nor a VMM, for any number of keycards that     *)
(* share the runtime directory and are killed at any moment, unless an     *)
(* await of the open or of the ending is cancelled or a sweep looks at a   *)
(* directory without an owner.pid.  Each of the four events alone leaves   *)
(* something (TLC finds it).                                               *)
THEOREM NoneLeftBehind ==
    ASSUME Uncancelled
    PROVE  InstancesSpec => []NothingLeftBehind
<1>1. InstancesInit => TidyInv
  BY DebrisInvInit
<1>2. InstancesTypeOK /\ InstancesTypeOK' /\ TidyInv /\ [InstancesNext]_instanceVars => TidyInv'
  BY TidyInvNext
<1>3. TidyInv => NothingLeftBehind
  BY DEF TidyInv, NothingLeftBehind
<1> QED BY <1>1, <1>2, <1>3, InstancesTypeCorrect, PTL DEF InstancesSpec
=============================================================================
