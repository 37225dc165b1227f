------------------------------- MODULE Docker -------------------------------
(***************************************************************************)
(* DockerBackend and DockerRoom (backends/docker.py): each blocking call   *)
(* of docker-py in the executor is a step, and between two of them the     *)
(* container may end, or be removed by someone else.  The daemon refuses   *)
(* to pause, unpause or kill a container that is not in the state for it.  *)
(* As in Sessions, a definition that follows a variant of itself is the    *)
(* code's.                                                                 *)
(***************************************************************************)
EXTENDS Room

DockerCall(from, to) == kind = "docker" /\ Goto(from, to)

-----------------------------------------------------------------------------
(* open.                                                                   *)

DockerOpen ==
    /\ DockerCall("none", "creating")
    /\ UNCHANGED <<kind, boxVars, socks, exitVars, hurt>>

(* containers.run: create, then start.                                     *)
Create ==
    /\ DockerCall("creating", "attaching")
    /\ box' = "running"
    /\ shell' = "running"
    /\ UNCHANGED <<kind, socks, exitVars, hurt>>

CreateFails ==
    /\ DockerCall("creating", "failed")
    /\ Suffers("create")
    /\ UNCHANGED <<kind, boxVars, socks, exitVars>>

(* The container is made and cannot be started, for want of a shell in the *)
(* image for example: nobody removes it.                                   *)
StartFails ==
    /\ DockerCall("creating", "failed")
    /\ box' = "created"
    /\ Suffers("start")
    /\ UNCHANGED <<kind, shell, socks, exitVars>>

(* _attach, of open and of resume.                                         *)
Attach ==
    /\ DockerCall("attaching", "open") \/ DockerCall("reattaching", "open")
    /\ socks' = {"tty"}
    /\ UNCHANGED <<kind, boxVars, exitVars, hurt>>

AttachFails ==
    /\ DockerCall("attaching", "failed") \/ DockerCall("reattaching", "unresumed")
    /\ Suffers(IF call = "attaching" THEN "attach" ELSE "reattach")
    /\ UNCHANGED <<kind, boxVars, socks, exitVars>>

-----------------------------------------------------------------------------
(* destroy: the attachment is closed, then a thread polls the container.   *)

CloseAttachment == socks' = {}

DockerDestroy ==
    /\ DockerCall("open", "polling")
    /\ CloseAttachment
    /\ sooner' = (shell = "ended")
    /\ UNCHANGED <<kind, boxVars, late, status, hurt>>

Overdue ==
    /\ kind = "docker" /\ call = "polling" /\ ~late
    /\ late' = TRUE
    /\ UNCHANGED <<kind, call, boxVars, socks, status, sooner, hurt>>

(* reload finds the container stopped, with its exit code, or not at all.  *)
StatusRead ==
    /\ DockerCall("polling", "removing")
    /\ box \in {"stopped", "gone"}
    /\ status' = IF box = "stopped" THEN "code" ELSE "zero"
    /\ UNCHANGED <<kind, boxVars, socks, late, sooner, hurt>>

ReloadFails ==
    /\ DockerCall("polling", "removing")
    /\ status' = "zero"
    /\ Suffers("reload")
    /\ UNCHANGED <<kind, boxVars, socks, late, sooner>>

(* It still runs, and the grace is over.                                   *)
StillRunning ==
    /\ DockerCall("polling", "killing")
    /\ box = "running" /\ late
    /\ UNCHANGED <<kind, boxVars, socks, exitVars, hurt>>

Kill ==
    /\ DockerCall("killing", "removing")
    /\ status' = "zero"
    /\ IF box = "running" THEN box' = "stopped" /\ Cut ELSE UNCHANGED boxVars
    /\ UNCHANGED <<kind, socks, late, sooner, hurt>>

RemoveStopped ==
    /\ DockerCall("removing", "over") \/ DockerCall("dropping", "over")
    /\ box' = IF box = "stopped" THEN "gone" ELSE box
    /\ UNCHANGED <<kind, shell, socks, exitVars, hurt>>

(* remove(force=True), of destroy and of destroy_kept.                     *)
Remove ==
    /\ DockerCall("removing", "over") \/ DockerCall("dropping", "over")
    /\ box' = "gone"
    /\ Cut
    /\ UNCHANGED <<kind, socks, exitVars, hurt>>

RemoveFails ==
    /\ DockerCall("removing", "over") \/ DockerCall("dropping", "over")
    /\ Suffers("remove")
    /\ UNCHANGED <<kind, boxVars, socks, exitVars>>

-----------------------------------------------------------------------------
(* pause, resume, destroy_kept.                                            *)

DockerPauseAttached ==
    /\ DockerCall("open", "pausing")
    /\ UNCHANGED <<kind, boxVars, socks, exitVars, hurt>>

DockerPause ==
    /\ DockerCall("open", "pausing")
    /\ CloseAttachment
    /\ UNCHANGED <<kind, boxVars, exitVars, hurt>>

(* A container that has ended cannot be paused; the error is swallowed.    *)
Pause ==
    /\ DockerCall("pausing", "kept")
    /\ box' = IF box = "running" THEN "paused" ELSE box
    /\ UNCHANGED <<kind, shell, socks, exitVars, hurt>>

PauseFails ==
    /\ DockerCall("pausing", "kept")
    /\ Suffers("pause")
    /\ UNCHANGED <<kind, boxVars, socks, exitVars>>

DockerResume ==
    /\ DockerCall("kept", "unpausing")
    /\ UNCHANGED <<kind, boxVars, socks, exitVars, hurt>>

UnpauseAnyway ==
    /\ DockerCall("unpausing", IF box = "gone" THEN "unresumed" ELSE "reattaching")
    /\ box' = IF box = "paused" THEN "running" ELSE box
    /\ UNCHANGED <<kind, shell, socks, exitVars, hurt>>

(* A container that is gone or not paused makes resume raise.              *)
Unpause ==
    /\ DockerCall("unpausing", IF box = "paused" THEN "reattaching" ELSE "unresumed")
    /\ box' = IF box = "paused" THEN "running" ELSE box
    /\ UNCHANGED <<kind, shell, socks, exitVars, hurt>>

(* The daemon refuses, and the container stays paused.                     *)
UnpauseFails ==
    /\ DockerCall("unpausing", "unresumed")
    /\ Suffers("unpause")
    /\ UNCHANGED <<kind, boxVars, socks, exitVars>>

DockerDestroyKept ==
    /\ DockerCall("kept", "dropping") \/ DockerCall("unresumed", "dropping")
    /\ UNCHANGED <<kind, boxVars, socks, exitVars, hurt>>

-----------------------------------------------------------------------------
(* The container ends with its shell; an operator may remove it.           *)
ContainerEnds ==
    /\ kind = "docker" /\ box = "running"
    /\ shell = "running"
    /\ box' = "stopped"
    /\ shell' = "ended"
    /\ UNCHANGED <<kind, call, socks, exitVars, hurt>>

RemovedByHand ==
    /\ kind = "docker" /\ box \in {"created", "running", "paused", "stopped"}
    /\ box' = "gone"
    /\ Cut
    /\ Suffers("by_hand")
    /\ UNCHANGED <<kind, call, socks, exitVars>>

DockerCalls == DockerDestroy \/ DockerPause \/ DockerResume

(* The threads go on, and what was kept is dropped in the end.             *)
DockerStep ==
    \/ Create \/ CreateFails \/ StartFails \/ Attach \/ AttachFails
    \/ Overdue \/ StatusRead \/ ReloadFails \/ StillRunning \/ Kill
    \/ Remove \/ RemoveFails \/ Pause \/ PauseFails \/ Unpause \/ UnpauseFails
    \/ DockerDestroyKept

DockerNext == DockerOpen \/ DockerCalls \/ DockerStep \/ ContainerEnds \/ RemovedByHand
=============================================================================
