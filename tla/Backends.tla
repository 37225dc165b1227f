------------------------------ MODULE Backends ------------------------------
(***************************************************************************)
(* A room of RoutingBackend (backends/routing.py): it is opened by the     *)
(* backend that its configuration names and wrapped with that name, and    *)
(* every later call goes to the same backend.  Both implement the contract *)
(* of base.py.                                                             *)
(***************************************************************************)
EXTENDS Docker, MicroVM

vars == <<roomVars, guestVars>>

BackendsInit == RoomInit /\ MicroVMInit

(* The room has come to its end, or is nobody's business until a call.     *)
Rests == /\ call \in {"failed", "over", "open"}
         /\ UNCHANGED vars

BackendsNext ==
    \/ DockerNext /\ UNCHANGED guestVars
    \/ VmNext
    \/ Rests

(* A call under way goes on: the executor's threads and the daemon answer, *)
(* the VMM answers or drops a dial, and KeptRooms drops what it keeps.     *)
BackendsFairness ==
    /\ WF_vars(DockerStep /\ UNCHANGED guestVars)
    /\ WF_vars(VmStep)

BackendsSpec == BackendsInit /\ [][BackendsNext]_vars /\ BackendsFairness

-----------------------------------------------------------------------------
(* Properties.                                                             *)

(* The variables have their types, and the host has a room's sockets       *)
(* exactly while the room is handed out: no call ends and leaves one open. *)
BackendsTypeOK ==
    /\ RoomTypeOK /\ MicroVMTypeOK
    /\ socks # {} => call \in {"open", "dialing_ctrl", "exit_wait"}
    /\ call = "open" => socks = IF kind = "docker" THEN {"tty"} ELSE {"data", "ctrl"}

(* When destroy or destroy_kept has returned or open has failed, nothing   *)
(* of the sandbox is left, unless docker refused to remove the container   *)
(* or open failed after the container was made: because it could not be    *)
(* started, or not be attached to, and docker.py removes it in neither     *)
(* case.                                                                   *)
ReleasedIsGone ==
    call \in {"over", "failed"} => box \in {"none", "gone"} \/ hurt \cap {"start", "attach", "remove"} # {}

(* A status that destroy returns is the shell's own, and it is not lost    *)
(* when the shell's end was there to be seen before the call: neither the  *)
(* grace nor the two sockets' different pace costs it.                     *)
StatusIsTheShells ==
    /\ status = "code" => shell = "ended"
    /\ call = "over" /\ sooner => status = "code" \/ hurt \cap {"reload", "by_hand", "died", "slow_line"} # {}

(* An open fails only for a mishap: something outside keycard has failed,  *)
(* or control was dialled between the agent's two binds.  The room it      *)
(* hands out is the one that the agent serves: its data connection is the  *)
(* one paired with its control connection, unless a dial was answered late.*)
OpensConnected ==
    /\ call = "failed" => hurt # {}
    /\ paired # 0 /\ data # 0 => paired = data \/ "late_answer" \in hurt

(* What the session layer sees of the room.                                *)
SeenRoom ==
    CASE call \in Opening -> "opening"
      [] call \in Closing -> "closing"
      [] call = "pausing" -> "open"
      [] call = "unpausing" -> "kept"
      [] call = "reattaching" -> "resuming"
      [] call \in {"failed", "over"} -> "gone"
      [] OTHER -> call

SeenShell == IF box = "paused" THEN "frozen" ELSE IF shell = "killed" THEN "ended" ELSE shell

Seam == INSTANCE RoomContract WITH room <- SeenRoom, life <- SeenShell

(* Both backends implement base.py's contract: a room is closed once, only *)
(* a room that stayed frozen is handed back, and every call ends.          *)
KeepsContract == Seam!Contract
=============================================================================
