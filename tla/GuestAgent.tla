----------------------------- MODULE GuestAgent -----------------------------
(***************************************************************************)
(* The guest agent (guest-agent/src/main.rs and session.rs): the accept    *)
(* loop that attaches each connection of the host to the running session,  *)
(* or to a new one, and the tasks of a session, which run in parallel:     *)
(* the pump from the pty to the attached connection, the readers of that   *)
(* connection, and the task that waits for the shell, reports its exit     *)
(* status on the control channel and closes both channels.                 *)
(*                                                                         *)
(* A connection is the pair of channels the host opens; a session owns the *)
(* write halves in two slots behind locks and the read halves in its       *)
(* reader tasks.  The host sees the end of a channel only when both halves *)
(* are dropped.  As in Sessions, a definition that follows a variant of    *)
(* itself is the code's.                                                   *)
(***************************************************************************)
CONSTANTS
    Shells,     \* the sessions the agent can start, one shell each
    Conns,      \* the connections of the host
    None

ASSUME AgentAssumption == None \notin Shells \cup Conns

VARIABLES
    host,       \* the host's end of each connection
    told,       \* the connections on which the exit status was sent
    overtaken,  \* history: the connections whose attach took longer than DRAIN_GRACE
    serving,    \* where the accept loop is
    latest,     \* the connection it accepted last
    live,       \* its session
    shell,      \* the shell process of each session
    running,    \* the sessions whose flag says that the shell runs
    exiter,     \* where the task that waits for the shell is
    pump,       \* where the task that pumps the pty's output is
    dataOut,    \* the connection whose data channel gets the output
    ctrlOut,    \* the connection whose control channel gets the status
    readers     \* the connections that have reader tasks, per session

hostVars == <<host, told, overtaken>>
loopVars == <<serving, latest, live>>
shellVars == <<shell, running>>
slotVars == <<dataOut, ctrlOut, readers>>
agentVars == <<hostVars, loopVars, shellVars, exiter, pump, slotVars>>

AttachState == {"aborting", "clear_data", "clear_ctrl", "set_data", "set_ctrl", "register"}

(* The variables have their types, and the writer the pump is writing to   *)
(* stays in its slot for as long as the write takes.                       *)
AgentTypeOK ==
    /\ host \in [Conns -> {"new", "connected", "accepted", "silent", "closed"}]
    /\ told \subseteq Conns
    /\ overtaken \subseteq Conns
    /\ serving \in {"accepting", "failed"} \cup AttachState
    /\ latest \in Conns \cup {None}
    /\ live \in Shells \cup {None}
    /\ shell \in [Shells -> {"none", "running", "exited"}]
    /\ running \subseteq Shells
    /\ exiter \in [Shells -> {"none", "waiting", "draining", "reporting", "aborting",
                              "clear_data", "clear_ctrl", "done"}]
    /\ pump \in [Shells -> {"none", "reading", "writing", "ended"}]
    /\ dataOut \in [Shells -> Conns \cup {None}]
    /\ ctrlOut \in [Shells -> Conns \cup {None}]
    /\ readers \in [Shells -> SUBSET Conns]
    /\ \A x \in Shells : pump[x] = "writing" => dataOut[x] # None

AgentInit ==
    /\ host = [c \in Conns |-> "new"]
    /\ told = {}
    /\ overtaken = {}
    /\ serving = "accepting"
    /\ latest = None
    /\ live = None
    /\ shell = [x \in Shells |-> "none"]
    /\ running = {}
    /\ exiter = [x \in Shells |-> "none"]
    /\ pump = [x \in Shells |-> "none"]
    /\ dataOut = [x \in Shells |-> None]
    /\ ctrlOut = [x \in Shells |-> None]
    /\ readers = [x \in Shells |-> {}]

(* A task other than the pump gets the lock of the data slot.              *)
DataLockFree(x) == pump[x] # "writing"

(* The write in progress does not end before the host reads or closes.     *)
PumpStuck(x) == pump[x] = "writing" /\ host[dataOut[x]] = "silent"

-----------------------------------------------------------------------------
(* The host: FirecrackerBackend._attach and FirecrackerRoom.               *)

Connect(c) ==
    /\ host[c] = "new"
    /\ host' = [host EXCEPT ![c] = "connected"]
    /\ UNCHANGED <<told, overtaken, loopVars, shellVars, exiter, pump, slotVars>>

(* _close_attachment, or the process behind the connection goes.           *)
HostCloses(c) ==
    /\ host[c] \in {"accepted", "silent"}
    /\ host' = [host EXCEPT ![c] = "closed"]
    /\ UNCHANGED <<told, overtaken, loopVars, shellVars, exiter, pump, slotVars>>

(* It stops reading without closing: a write to it blocks.                 *)
GoesSilent(c) ==
    /\ host[c] = "accepted"
    /\ host' = [host EXCEPT ![c] = "silent"]
    /\ UNCHANGED <<told, overtaken, loopVars, shellVars, exiter, pump, slotVars>>

-----------------------------------------------------------------------------
(* The accept loop: serve.                                                 *)

Reattach(c) ==
    /\ serving = "accepting"
    /\ host[c] = "connected"
    /\ live # None /\ live \in running
    /\ host' = [host EXCEPT ![c] = "accepted"]
    /\ serving' = "aborting"
    /\ latest' = c
    /\ UNCHANGED <<told, overtaken, live, shellVars, exiter, pump, slotVars>>

(* Session::start: the shell runs and nothing is attached yet.             *)
StartSession(c, x) ==
    /\ serving = "accepting"
    /\ host[c] = "connected"
    /\ live \notin running
    /\ shell[x] = "none"
    /\ host' = [host EXCEPT ![c] = "accepted"]
    /\ serving' = "aborting"
    /\ latest' = c
    /\ live' = x
    /\ shell' = [shell EXCEPT ![x] = "running"]
    /\ running' = running \cup {x}
    /\ exiter' = [exiter EXCEPT ![x] = "waiting"]
    /\ pump' = [pump EXCEPT ![x] = "reading"]
    /\ UNCHANGED <<told, overtaken, slotVars>>

(* No pty or no shell: the error ends the agent, and with it the guest.    *)
StartFails(c) ==
    /\ serving = "accepting"
    /\ host[c] = "connected"
    /\ live \notin running
    /\ serving' = "failed"
    /\ host' = [h \in Conns |-> "closed"]
    /\ dataOut' = [x \in Shells |-> None]
    /\ ctrlOut' = [x \in Shells |-> None]
    /\ readers' = [x \in Shells |-> {}]
    /\ exiter' = [x \in Shells |-> "done"]
    /\ pump' = [x \in Shells |-> "ended"]
    /\ UNCHANGED <<told, overtaken, latest, live, shellVars>>

-----------------------------------------------------------------------------
(* Session::attach: the previous connection is detached, then the new one  *)
(* takes its place.                                                        *)

AttachAbortsNone ==
    /\ serving = "aborting"
    /\ serving' = "clear_data"
    /\ UNCHANGED <<hostVars, latest, live, shellVars, exiter, pump, slotVars>>

AttachAborts ==
    /\ serving = "aborting"
    /\ serving' = "clear_data"
    /\ readers' = [readers EXCEPT ![live] = {}]
    /\ UNCHANGED <<hostVars, latest, live, shellVars, exiter, pump, dataOut, ctrlOut>>

AttachClearsUnlocked ==
    /\ serving = "clear_data"
    /\ serving' = "clear_ctrl"
    /\ dataOut' = [dataOut EXCEPT ![live] = None]
    /\ UNCHANGED <<hostVars, latest, live, shellVars, exiter, pump, ctrlOut, readers>>

AttachClearsData ==
    /\ serving = "clear_data"
    /\ DataLockFree(live)
    /\ serving' = "clear_ctrl"
    /\ dataOut' = [dataOut EXCEPT ![live] = None]
    /\ UNCHANGED <<hostVars, latest, live, shellVars, exiter, pump, ctrlOut, readers>>

AttachClearsCtrl ==
    /\ serving = "clear_ctrl"
    /\ serving' = "set_data"
    /\ ctrlOut' = [ctrlOut EXCEPT ![live] = None]
    /\ UNCHANGED <<hostVars, latest, live, shellVars, exiter, pump, dataOut, readers>>

AttachSetsData ==
    /\ serving = "set_data"
    /\ DataLockFree(live)
    /\ serving' = "set_ctrl"
    /\ dataOut' = [dataOut EXCEPT ![live] = latest]
    /\ UNCHANGED <<hostVars, latest, live, shellVars, exiter, pump, ctrlOut, readers>>

AttachSetsCtrl ==
    /\ serving = "set_ctrl"
    /\ serving' = "register"
    /\ ctrlOut' = [ctrlOut EXCEPT ![live] = latest]
    /\ UNCHANGED <<hostVars, latest, live, shellVars, exiter, pump, dataOut, readers>>

(* A slot goes with the last that holds it: the session was replaced and   *)
(* its exit task is over.                                                  *)
Freed(slots) == [x \in Shells |-> IF x # live /\ exiter[x] = "done" THEN None ELSE slots[x]]

(* The reader tasks are spawned and registered, and the session that the   *)
(* live one replaced is dropped, with its reader tasks.                    *)
AttachRegisters ==
    /\ serving = "register"
    /\ serving' = "accepting"
    /\ readers' = [x \in Shells |-> IF x = live THEN readers[x] \cup {latest} ELSE {}]
    /\ dataOut' = Freed(dataOut)
    /\ ctrlOut' = Freed(ctrlOut)
    /\ UNCHANGED <<hostVars, latest, live, shellVars, exiter, pump>>

-----------------------------------------------------------------------------
(* The tasks of a session.                                                 *)

(* The reader tasks of a connection end by themselves when the host closes.*)
ReadersEnd(x, c) ==
    /\ c \in readers[x]
    /\ host[c] = "closed"
    /\ readers' = [readers EXCEPT ![x] = @ \ {c}]
    /\ UNCHANGED <<hostVars, loopVars, shellVars, exiter, pump, dataOut, ctrlOut>>

(* Output of the shell: written to the attached connection, if any, with   *)
(* the lock held for as long as the write takes.                           *)
PumpReads(x) ==
    /\ pump[x] = "reading"
    /\ dataOut[x] # None
    /\ pump' = [pump EXCEPT ![x] = "writing"]
    /\ UNCHANGED <<hostVars, loopVars, shellVars, exiter, slotVars>>

PumpRetries(x) ==
    /\ pump[x] = "writing"
    /\ host[dataOut[x]] = "accepted"
    /\ pump' = [pump EXCEPT ![x] = "reading"]
    /\ UNCHANGED <<hostVars, loopVars, shellVars, exiter, slotVars>>

PumpWrites(x) ==
    /\ pump[x] = "writing"
    /\ ~PumpStuck(x)
    /\ pump' = [pump EXCEPT ![x] = "reading"]
    /\ dataOut' = [dataOut EXCEPT ![x] = IF host[@] = "closed" THEN None ELSE @]
    /\ UNCHANGED <<hostVars, loopVars, shellVars, exiter, ctrlOut, readers>>

(* The pty is at its end.                                                  *)
PumpEnds(x) ==
    /\ pump[x] = "reading"
    /\ shell[x] = "exited"
    /\ pump' = [pump EXCEPT ![x] = "ended"]
    /\ UNCHANGED <<hostVars, loopVars, shellVars, exiter, slotVars>>

ShellExits(x) ==
    /\ shell[x] = "running"
    /\ shell' = [shell EXCEPT ![x] = "exited"]
    /\ UNCHANGED <<hostVars, loopVars, running, exiter, pump, slotVars>>

(* child.wait() returned: the flag is cleared, then DRAIN_GRACE.           *)
ExitNoticed(x) ==
    /\ exiter[x] = "waiting"
    /\ shell[x] = "exited"
    /\ exiter' = [exiter EXCEPT ![x] = "draining"]
    /\ running' = running \ {x}
    /\ UNCHANGED <<hostVars, loopVars, shell, pump, slotVars>>

(* The grace is over; the pump is aborted and lets go of its lock.         *)
Drained(x) ==
    /\ exiter[x] = "draining"
    /\ exiter' = [exiter EXCEPT ![x] = "reporting"]
    /\ pump' = [pump EXCEPT ![x] = "ended"]
    /\ UNCHANGED <<hostVars, loopVars, shellVars, slotVars>>

ReportSkipped(x) ==
    /\ exiter[x] = "reporting"
    /\ exiter' = [exiter EXCEPT ![x] = "aborting"]
    /\ UNCHANGED <<hostVars, loopVars, shellVars, pump, slotVars>>

(* "exit <code>" goes to whichever connection is attached.                 *)
Reports(x) ==
    /\ exiter[x] = "reporting"
    /\ exiter' = [exiter EXCEPT ![x] = "aborting"]
    /\ told' = told \cup ({ctrlOut[x]} \ {None})
    /\ overtaken' = IF serving \in AttachState /\ live = x THEN overtaken \cup {latest} ELSE overtaken
    /\ UNCHANGED <<host, loopVars, shellVars, pump, slotVars>>

(* detach, once more: the readers, then the slots.                         *)
HalfClosed(x) ==
    /\ exiter[x] = "aborting"
    /\ exiter' = [exiter EXCEPT ![x] = "clear_data"]
    /\ UNCHANGED <<hostVars, loopVars, shellVars, pump, slotVars>>

ExitAborts(x) ==
    /\ exiter[x] = "aborting"
    /\ exiter' = [exiter EXCEPT ![x] = "clear_data"]
    /\ readers' = [readers EXCEPT ![x] = {}]
    /\ UNCHANGED <<hostVars, loopVars, shellVars, pump, dataOut, ctrlOut>>

ExitClearsData(x) ==
    /\ exiter[x] = "clear_data"
    /\ exiter' = [exiter EXCEPT ![x] = "clear_ctrl"]
    /\ dataOut' = [dataOut EXCEPT ![x] = None]
    /\ UNCHANGED <<hostVars, loopVars, shellVars, pump, ctrlOut, readers>>

ExitClearsCtrl(x) ==
    /\ exiter[x] = "clear_ctrl"
    /\ exiter' = [exiter EXCEPT ![x] = "done"]
    /\ ctrlOut' = [ctrlOut EXCEPT ![x] = None]
    /\ UNCHANGED <<hostVars, loopVars, shellVars, pump, dataOut, readers>>

-----------------------------------------------------------------------------
Attach ==
    \/ AttachAborts \/ AttachClearsData \/ AttachClearsCtrl
    \/ AttachSetsData \/ AttachSetsCtrl \/ AttachRegisters

Serve ==
    \/ \E c \in Conns : Reattach(c) \/ StartFails(c) \/ \E x \in Shells : StartSession(c, x)
    \/ Attach

ExitTask(x) ==
    \/ ExitNoticed(x) \/ Drained(x) \/ Reports(x)
    \/ ExitAborts(x) \/ ExitClearsData(x) \/ ExitClearsCtrl(x)

(* The agent has failed, or has nothing to do until the host connects.     *)
Waits ==
    /\ \/ serving = "failed"
       \/ serving = "accepting" /\ \A x \in Shells : exiter[x] \in {"none", "done"}
    /\ UNCHANGED agentVars

AgentNext ==
    \/ /\ serving # "failed"
       /\ \/ Serve
          \/ \E c \in Conns : Connect(c) \/ HostCloses(c) \/ GoesSilent(c)
          \/ \E x \in Shells : \/ PumpReads(x) \/ PumpWrites(x) \/ PumpEnds(x)
                               \/ ShellExits(x) \/ ExitTask(x)
          \/ \E x \in Shells, c \in Conns : ReadersEnd(x, c)
    \/ Waits

(* The tasks run, and a task that waits for a lock gets it when the one    *)
(* that holds it keeps letting go (tokio's mutex serves first come first); *)
(* nothing is assumed of the host or of the shell.                         *)
AgentFairness ==
    /\ SF_agentVars(serving # "failed" /\ Attach)
    /\ \A x \in Shells : /\ WF_agentVars(serving # "failed" /\ ExitTask(x))
                         /\ WF_agentVars(serving # "failed" /\ PumpWrites(x))

AgentSpec == AgentInit /\ [][AgentNext]_agentVars
FairAgentSpec == AgentSpec /\ AgentFairness

-----------------------------------------------------------------------------
(* Properties.                                                             *)

Attached(x) == ({dataOut[x], ctrlOut[x]} \cup readers[x]) \ {None}

(* A session has one connection at a time: once a new one is attached,     *)
(* every half of the one it displaced has been dropped, so no output goes  *)
(* to it and no input comes from it.                                       *)
OneConnection ==
    serving = "accepting" => \A x \in Shells : \A a, b \in Attached(x) : a = b

(* The connection in use is not dropped before the shell's status was sent *)
(* on it: the host never takes the end of the output for an exit it knows  *)
(* nothing about.  Only an attach that took longer than DRAIN_GRACE is cut *)
(* short by the exit task.                                                 *)
StatusBeforeEnd ==
    serving = "accepting" /\ latest # None /\ host[latest] = "accepted"
        => latest \in told \cup overtaken \/ dataOut[live] = latest

(* Once the shell has exited, the host sees the end of the connection: all *)
(* halves are dropped, unless the host left or connected anew, or its      *)
(* attach took longer than DRAIN_GRACE.                                    *)
EndIsSeen ==
    \A x \in Shells, c \in Conns :
        shell[x] = "exited" /\ live = x /\ latest = c
            ~> \/ serving = "accepting" /\ c \notin Attached(x)
               \/ serving = "failed" \/ latest # c \/ host[c] # "accepted" \/ c \in overtaken

(* An attach comes to its end, so that the loop accepts the next           *)
(* connection, unless a host that does not read holds the lock it needs.   *)
AttachCompletes == serving \in AttachState ~> serving = "accepting" \/ \E x \in Shells : live = x /\ PumpStuck(x)
=============================================================================
