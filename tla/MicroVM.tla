------------------------------ MODULE MicroVM -------------------------------
(***************************************************************************)
(* A firecracker room from the VMM's API socket to the shell: the calls    *)
(* that configure and start the microVM (fcapi.py, _configure), the boot   *)
(* of the guest and the agent's two listeners (guest-agent main.rs), the   *)
(* vsock dials by which the host reaches them (vsock.py, _attach), and the *)
(* exit line that destroy waits for (_watch_exit).  The processes and the  *)
(* directory are module Instances', the agent's tasks module GuestAgent's. *)
(*                                                                         *)
(* A listener takes connections into its backlog from its bind on, and the *)
(* VMM acknowledges a dial when the guest's kernel does: before the agent  *)
(* has accepted it.                                                        *)
(***************************************************************************)
EXTENDS Room, Naturals, Sequences

CONSTANT MaxDials       \* bound on the dials that reach the guest

ASSUME MicroVMAssumption == MaxDials \in Nat \ {0}

VARIABLES
    api,        \* the API calls the VMM has accepted
    guest,      \* how far the guest is
    dials,      \* the dials to the data port that reached the guest
    backlog,    \* those in the backlog of its listener
    data,       \* the dial that gave the host its data socket, 0 before
    paired,     \* the dial whose connection the agent serves as data
    line        \* the exit line on the control channel

guestVars == <<api, guest, dials, backlog, data, paired, line>>

MicroVMTypeOK ==
    /\ api \in SUBSET {"boot-source", "drives", "machine-config", "vsock", "InstanceStart"}
    /\ guest \in {"off", "booting", "data_bound", "bound", "half", "serving", "closed", "dead"}
    /\ dials \in 0..MaxDials
    /\ backlog \in Seq(1..dials)
    /\ data \in 0..dials
    /\ paired \in 0..dials
    /\ line \in {"none", "sent", "heard"}

MicroVMInit ==
    /\ api = {}
    /\ guest = "off"
    /\ dials = 0
    /\ backlog = <<>>
    /\ data = 0
    /\ paired = 0
    /\ line = "none"

VmCall(from, to) == kind = "firecracker" /\ Goto(from, to)

-----------------------------------------------------------------------------
(* open: the VMM is spawned, configured and started.                       *)

VmOpen ==
    /\ VmCall("none", "configuring")
    /\ box' = "running"
    /\ UNCHANGED <<kind, shell, socks, exitVars, hurt, guestVars>>

(* _configure's order, then the start.                                     *)
NextCall ==
    CASE "boot-source" \notin api -> "boot-source"
      [] "drives" \notin api -> "drives"
      [] "machine-config" \notin api -> "machine-config"
      [] "vsock" \notin api -> "vsock"
      [] OTHER -> "InstanceStart"

(* The VMM starts with a kernel and a root device only, and takes no       *)
(* configuration afterwards.                                               *)
Accepted(c) == IF c = "InstanceStart" THEN {"boot-source", "drives"} \subseteq api
                                      ELSE "InstanceStart" \notin api

(* One request: 2xx, or ApiError, a timeout being one too.                 *)
ApiCall ==
    /\ kind = "firecracker" /\ call = "configuring" /\ box = "running"
    /\ IF Accepted(NextCall)
       THEN /\ api' = api \cup {NextCall}
            /\ guest' = IF NextCall = "InstanceStart" THEN "booting" ELSE guest
            /\ call' = IF NextCall = "InstanceStart" THEN "dialing" ELSE call
       ELSE /\ call' = "unwinding"
            /\ UNCHANGED <<api, guest>>
    /\ UNCHANGED <<kind, boxVars, socks, exitVars, hurt, dials, backlog, data, paired, line>>

ApiFails ==
    /\ VmCall("configuring", "unwinding")
    /\ Suffers(IF box = "running" THEN "api" ELSE "died")
    /\ UNCHANGED <<kind, boxVars, socks, exitVars, guestVars>>

-----------------------------------------------------------------------------
(* _attach: data with the boot's whole retry budget, control without.      *)

Reachable == {"data_bound", "bound", "half", "serving"}

Dial ==
    /\ guest \in Reachable /\ "vsock" \in api
    /\ dials' = dials + 1
    /\ backlog' = Append(backlog, dials')

(* Until the guest listens every dial is refused and tried again.          *)
DialData ==
    /\ VmCall("dialing", "dialing_ctrl")
    /\ dials < MaxDials
    /\ Dial
    /\ data' = dials'
    /\ socks' = {"data"}
    /\ UNCHANGED <<kind, boxVars, exitVars, hurt, api, guest, paired, line>>

(* The guest takes the dial, too late for the VMM, which drops it: the     *)
(* host dials again.                                                       *)
DialDropped ==
    /\ kind = "firecracker" /\ call = "dialing"
    /\ dials + 1 < MaxDials
    /\ Dial
    /\ Suffers("late_answer")
    /\ UNCHANGED <<kind, call, boxVars, socks, exitVars, api, guest, data, paired, line>>

(* boot_timeout is over, which is looked at after a refusal.               *)
GiveUp ==
    /\ VmCall("dialing", "unwinding")
    /\ guest \notin Reachable \/ "vsock" \notin api
    /\ IF "vsock" \in api THEN Suffers(IF guest = "dead" THEN "died" ELSE "no_boot")
                          ELSE UNCHANGED hurt
    /\ UNCHANGED <<kind, boxVars, socks, exitVars, guestVars>>

(* The room object starts its watch; the size goes first on the channel.   *)
DialCtrl ==
    /\ VmCall("dialing_ctrl", "open")
    /\ guest \in Reachable \ {"data_bound"}
    /\ socks' = {"data", "ctrl"}
    /\ UNCHANGED <<kind, boxVars, exitVars, hurt, guestVars>>

CtrlRefusedRedials ==
    /\ VmCall("dialing_ctrl", "dialing")
    /\ guest \in {"data_bound", "dead"}
    /\ socks' = {}
    /\ data' = 0
    /\ UNCHANGED <<kind, boxVars, exitVars, hurt, api, guest, dials, backlog, paired, line>>

(* Refused: data is closed and the error unwinds the open.                 *)
CtrlRefused ==
    /\ VmCall("dialing_ctrl", "unwinding")
    /\ guest \in {"data_bound", "dead"}
    /\ socks' = {}
    /\ Suffers(IF guest = "dead" THEN "died" ELSE "bind_race")
    /\ UNCHANGED <<kind, boxVars, exitVars, guestVars>>

-----------------------------------------------------------------------------
(* The guest: the agent binds data, then control, and accepts them in the  *)
(* same order; with both it has a session.                                 *)

Guest(from, to) == guest = from /\ guest' = to

BindData ==
    /\ Guest("booting", "data_bound")
    /\ UNCHANGED <<roomVars, api, dials, backlog, data, paired, line>>

BindCtrl ==
    /\ Guest("data_bound", "bound")
    /\ UNCHANGED <<roomVars, api, dials, backlog, data, paired, line>>

AcceptData ==
    /\ Guest("bound", "half")
    /\ backlog # <<>>
    /\ paired' = Head(backlog)
    /\ backlog' = Tail(backlog)
    /\ UNCHANGED <<roomVars, api, dials, data, line>>

AcceptCtrl ==
    /\ Guest("half", "serving")
    /\ "ctrl" \in socks
    /\ shell' = "running"
    /\ UNCHANGED <<kind, call, box, socks, exitVars, hurt, api, dials, backlog, data, paired, line>>

GuestShellEnds ==
    /\ guest = "serving" /\ shell = "running"
    /\ shell' = "ended"
    /\ UNCHANGED <<kind, call, box, socks, exitVars, hurt, guestVars>>

(* The agent reports the exit, then closes both channels.                  *)
AgentReports ==
    /\ guest = "serving" /\ shell = "ended"
    /\ line = "none"
    /\ line' = "sent"
    /\ UNCHANGED <<roomVars, api, guest, dials, backlog, data, paired>>

AgentCloses ==
    /\ Guest("serving", "closed")
    /\ line # "none"
    /\ UNCHANGED <<roomVars, api, dials, backlog, data, paired, line>>

(* The VMM or the guest's kernel dies.                                     *)
VmmDies ==
    /\ kind = "firecracker" /\ box = "running"
    /\ box' = "stopped"
    /\ guest' = "dead"
    /\ Cut
    /\ Suffers("died")
    /\ UNCHANGED <<kind, call, socks, exitVars, api, dials, backlog, data, paired, line>>

-----------------------------------------------------------------------------
(* destroy: it waits for the watch, at most EXIT_GRACE.                    *)

VmDestroy ==
    /\ VmCall("open", "exit_wait")
    /\ sooner' = (guest = "closed")
    /\ UNCHANGED <<kind, boxVars, socks, late, status, hurt, guestVars>>

(* _watch_exit reads the line.                                             *)
Hears ==
    /\ kind = "firecracker" /\ call \in {"open", "exit_wait"}
    /\ line = "sent" /\ "ctrl" \in socks
    /\ line' = "heard"
    /\ UNCHANGED <<roomVars, api, guest, dials, backlog, data, paired>>

VmCloses ==
    /\ socks' = {}
    /\ status' = IF line = "heard" THEN "code" ELSE "zero"
    /\ UNCHANGED <<kind, boxVars, sooner, guestVars>>

WatchNotAwaited ==
    /\ VmCall("exit_wait", "stopping")
    /\ VmCloses
    /\ UNCHANGED <<late, hurt>>

(* The watch has ended: with the line, or with its channel.                *)
WatchEnds ==
    /\ VmCall("exit_wait", "stopping")
    /\ line = "heard" \/ guest = "dead"
    /\ VmCloses
    /\ UNCHANGED <<late, hurt>>

WatchOverdue ==
    /\ VmCall("exit_wait", "stopping")
    /\ line # "heard"
    /\ late' = TRUE
    /\ IF line = "sent" THEN Suffers("slow_line") ELSE UNCHANGED hurt
    /\ VmCloses

(* _stop, _remove_dir, of destroy and of the unwinding of open.            *)
Stop ==
    /\ VmCall("stopping", "removing") \/ VmCall("unwinding", "cleaning")
    /\ box' = "stopped"
    /\ guest' = "dead"
    /\ Cut
    /\ UNCHANGED <<kind, socks, exitVars, hurt, api, dials, backlog, data, paired, line>>

RemoveDir ==
    /\ VmCall("removing", "over") \/ VmCall("cleaning", "failed")
    /\ box' = "gone"
    /\ UNCHANGED <<kind, shell, socks, exitVars, hurt, guestVars>>

-----------------------------------------------------------------------------
GuestStep == BindData \/ BindCtrl \/ AcceptData \/ AcceptCtrl \/ AgentReports \/ AgentCloses

VmStep ==
    \/ ApiCall \/ ApiFails \/ DialData \/ GiveUp \/ DialCtrl \/ CtrlRefused
    \/ WatchEnds \/ WatchOverdue \/ Stop \/ RemoveDir

VmNext == VmOpen \/ VmDestroy \/ VmStep \/ DialDropped \/ Hears \/ GuestStep
              \/ GuestShellEnds \/ VmmDies
=============================================================================
