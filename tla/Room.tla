-------------------------------- MODULE Room --------------------------------
(***************************************************************************)
(* One room below the seam of base.py: the sandbox (a container, or a VMM  *)
(* with its directory), the shell in it, the sockets the host has to it,   *)
(* and the one call of the backend that is under way.  The calls are those *)
(* of the session layer: open first, then destroy or pause, and for a      *)
(* paused room resume or destroy_kept, which also follows a resume that    *)
(* failed.                                                                 *)
(***************************************************************************)
VARIABLES
    kind,       \* the backend the room is routed to
    call,       \* where the backend's call is; "open" and "kept" between calls
    box,        \* the sandbox
    shell,      \* the shell in it
    socks,      \* the sockets of the room that are open on the host
    late,       \* EXIT_GRACE is over
    status,     \* what destroy returns: the shell's code, or the 0 of not knowing
    sooner,     \* history: the shell's end was there to be seen when destroy was called
    hurt        \* history: what went wrong outside keycard

boxVars == <<box, shell>>
exitVars == <<late, status, sooner>>
roomVars == <<kind, call, boxVars, socks, exitVars, hurt>>

Kinds == {"docker", "firecracker"}

Opening == {"creating", "attaching", "configuring", "dialing", "dialing_ctrl",
            "unwinding", "cleaning"}
Closing == {"polling", "killing", "removing", "exit_wait", "stopping", "unresumed", "dropping"}
Calls == {"none", "open", "pausing", "kept", "unpausing", "reattaching", "failed", "over"}
             \cup Opening \cup Closing

(* What is known to go wrong: a call of the daemon or of the VMM's API,    *)
(* the sandbox dying or being removed by someone else, a message that      *)
(* takes longer than the code allows for.                                  *)
Mishaps == {"create", "start", "attach", "unpause", "reattach", "reload", "remove", "pause", "by_hand",
            "api", "died", "no_boot", "bind_race", "late_answer", "slow_line"}

RoomTypeOK ==
    /\ kind \in Kinds
    /\ call \in Calls
    /\ box \in {"none", "created", "running", "paused", "stopped", "gone"}
    /\ shell \in {"none", "running", "ended", "killed"}
    /\ socks \subseteq {"tty", "data", "ctrl"}
    /\ late \in BOOLEAN
    /\ status \in {"none", "zero", "code"}
    /\ sooner \in BOOLEAN
    /\ hurt \subseteq Mishaps

RoomInit ==
    /\ kind \in Kinds
    /\ call = "none"
    /\ box = "none"
    /\ shell = "none"
    /\ socks = {}
    /\ late = FALSE
    /\ status = "none"
    /\ sooner = FALSE
    /\ hurt = {}

(* The call goes on and nothing but what the caller of this says changes.  *)
Goto(from, to) == call = from /\ call' = to

Suffers(mishap) == hurt' = hurt \cup {mishap}

(* The shell is cut off with the sandbox it runs in.                       *)
Cut == shell' = IF shell = "running" THEN "killed" ELSE shell
=============================================================================
