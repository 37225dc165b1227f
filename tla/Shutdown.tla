------------------------------ MODULE Shutdown ------------------------------
(***************************************************************************)
(* serve() from the signal to the end of the process, and _drain           *)
(* (src/keycard/server.py), over the sessions of module Sessions: close    *)
(* the listener, warn, wait out the grace period, force what is left,      *)
(* wait for the connections, sweep the kept rooms, close the backend,      *)
(* return to asyncio.run.  An exception that _drain does not catch skips   *)
(* the sweep.  Every step is a step of Sessions or leaves it alone.        *)
(* GraceWithoutLimit, GatheredAtOnce, TimedOutAtOnce and StartSweepUnfilled*)
(* are faulty variants of the definition that follows them (see Sessions). *)
(***************************************************************************)
EXTENDS Sessions

CONSTANTS
    Grace,      \* shutdown_grace > 0
    Late        \* what may come late, from LateEvents

(***************************************************************************)
(*   late_session  a session on an open connection once the drain began    *)
(*   slow_open     an open outlasts the drain and wait_closed's 5s         *)
(***************************************************************************)
LateEvents == {"late_session", "slow_open"}

ASSUME ShutdownAssumption ==
    /\ Grace \in BOOLEAN
    /\ Late \subseteq LateEvents

VARIABLES
    phase,      \* where serve() is
    snapshot,   \* the sessions _drain force-closes: list(active)
    sweep,      \* what destroy_all has still to visit: list(items())
    sweeping    \* the room whose destroy_kept destroy_all awaits

serveVars == <<phase, snapshot, sweep, sweeping>>
allVars == <<vars, serveVars>>

Phases == {"serving", "grace", "forcing", "timed_out", "closing", "sweeping",
           "stopped", "aborted"}

ShutdownTypeOK ==
    /\ TypeOK
    /\ phase \in Phases
    /\ snapshot \subseteq Sessions
    /\ sweep \subseteq Usernames \X Sessions
    /\ sweeping \in Sessions \cup {None}

ShutdownInit ==
    /\ Init
    /\ phase = "serving"
    /\ snapshot = {}
    /\ sweep = {}
    /\ sweeping = None

-----------------------------------------------------------------------------
(* SIGTERM or SIGINT: the listener closes and _drain looks at the active   *)
(* sessions, then warns each.  A warning that cannot be written raises.    *)
Signal ==
    /\ phase = "serving"
    /\ phase' = IF active = {} THEN "closing"
                ELSE IF ~Grace THEN "forcing"
                ELSE IF \E s \in active : chan[s] = "mute" THEN "aborted"
                ELSE "grace"
    /\ snapshot' = IF phase' = "forcing" THEN active ELSE {}
    /\ UNCHANGED <<vars, sweep, sweeping>>

(* The sessions are gone, or the grace period is over.                     *)
GraceWithoutLimit ==
    /\ phase = "grace"
    /\ active = {}
    /\ phase' = "closing"
    /\ snapshot' = active
    /\ UNCHANGED <<vars, sweep, sweeping>>

GraceEnds ==
    /\ phase = "grace"
    /\ phase' = IF active = {} THEN "closing" ELSE "forcing"
    /\ snapshot' = active
    /\ UNCHANGED <<vars, sweep, sweeping>>

(* One of the tasks gather() made.                                         *)
DrainForces(s) ==
    /\ phase \in {"forcing", "aborted"}
    /\ loop = "running"
    /\ s \in snapshot
    /\ ForceClose(s)
    /\ UNCHANGED serveVars

(* gather() returns when every force_close did, and raises when one did:   *)
(* neither a write error nor a cancellation is the TimeoutError that       *)
(* _drain catches.                                                         *)
GatheredAtOnce == \A s \in snapshot : force[s] # "none"

Gathered == \A s \in snapshot : force[s] = "done"
GatherRaises == \E s \in snapshot : force[s] \in {"failed", "cancelled"}

ForcingEnds ==
    /\ phase = "forcing"
    /\ Gathered \/ GatherRaises
    /\ phase' = IF Gathered THEN "closing" ELSE "aborted"
    /\ UNCHANGED <<vars, snapshot, sweep, sweeping>>

(* FORCE_CLOSE_TIMEOUT: the calls still waiting are cancelled, and waited  *)
(* for.                                                                    *)
ForcingTimesOut ==
    /\ "slow_destroy" \in Env
    /\ phase = "forcing"
    /\ ~Gathered /\ ~GatherRaises
    /\ \A s \in snapshot : force[s] # "none" /\ td[s] \notin {"begun", "begun_keep"}
    /\ phase' = "timed_out"
    /\ UNCHANGED <<vars, snapshot, sweep, sweeping>>

DrainCancels(s) ==
    /\ phase = "timed_out"
    /\ s \in snapshot
    /\ CancelForce(s)
    /\ UNCHANGED serveVars

TimedOutAtOnce ==
    /\ phase = "timed_out"
    /\ phase' = "closing"
    /\ UNCHANGED <<vars, snapshot, sweep, sweeping>>

TimedOutEnds ==
    /\ phase = "timed_out"
    /\ \A s \in snapshot : force[s] # "awaiting"
    /\ phase' = "closing"
    /\ UNCHANGED <<vars, snapshot, sweep, sweeping>>

(* server.wait_closed() returned or its 5s are over; destroy_all starts.   *)
Settled(s) == pump[s] \notin {"created", "opening", "resuming", "failing", "late", "unwinding"}

StartSweepUnfilled ==
    /\ phase = "closing"
    /\ "slow_open" \in Late \/ \A s \in Sessions : Settled(s)
    /\ phase' = "sweeping"
    /\ UNCHANGED <<vars, snapshot, sweep, sweeping>>

StartSweep ==
    /\ phase = "closing"
    /\ "slow_open" \in Late \/ \A s \in Sessions : Settled(s)
    /\ phase' = "sweeping"
    /\ sweep' = {e \in Usernames \X Sessions : byName[e[1]] = e[2]}
    /\ UNCHANGED <<vars, snapshot, sweeping>>

SweepNext(u, k) ==
    /\ phase = "sweeping"
    /\ sweeping = None
    /\ <<u, k>> \in sweep
    /\ sweep' = sweep \ {<<u, k>>}
    /\ IF byName[u] = k
       THEN Sweep(u) /\ sweeping' = tdRoom[k]
       ELSE UNCHANGED <<vars, sweeping>>
    /\ UNCHANGED <<phase, snapshot>>

SweptOne ==
    /\ sweeping # None
    /\ box[sweeping] = "gone"
    /\ sweeping' = None
    /\ UNCHANGED <<vars, phase, snapshot, sweep>>

(* backend.close(), and serve() returns.                                   *)
ServeReturns ==
    /\ phase = "sweeping"
    /\ sweep = {} /\ sweeping = None
    /\ phase' = "stopped"
    /\ UNCHANGED <<vars, snapshot, sweep, sweeping>>

(* serve() returned or raised: asyncio.run cancels what is left.           *)
RunEnds ==
    /\ phase \in {"stopped", "aborted"}
    /\ CancelAll
    /\ UNCHANGED serveVars

-----------------------------------------------------------------------------
(* The sessions go on all the while; new ones come only while serving, or  *)
(* on a connection that is already there.                                  *)
SessionGoesOn(s) ==
    /\ SessionNext(s)
    /\ phase = "serving" \/ "late_session" \in Late \/ chan'[s] # "open" \/ chan[s] = "open"
    /\ UNCHANGED serveVars

ServeStep ==
    \/ GraceEnds \/ ForcingEnds \/ TimedOutEnds \/ StartSweep
    \/ \E u \in Usernames, k \in Sessions : SweepNext(u, k)
    \/ SweptOne \/ ServeReturns \/ RunEnds

ShutdownNext ==
    \/ \E s \in Sessions : SessionGoesOn(s) \/ DrainForces(s) \/ DrainCancels(s)
    \/ Signal
    \/ ForcingTimesOut
    \/ ServeStep
    \/ LoopStops /\ UNCHANGED serveVars
    \/ Stopped /\ UNCHANGED serveVars

(***************************************************************************)
(* As in Sessions; serve() and the force_close tasks run too, and the loop *)
(* stops when its tasks have.  Nothing makes the signal come.              *)
(***************************************************************************)
ShutdownFairness ==
    /\ WF_allVars(ServeStep)
    /\ WF_allVars(LoopStops /\ UNCHANGED serveVars)
    /\ \A s \in Sessions :
         /\ WF_allVars(DrainForces(s))
         /\ WF_allVars(PumpStep(s) /\ UNCHANGED serveVars)
         /\ WF_allVars(TeardownStep(s) /\ UNCHANGED serveVars)
         /\ WF_allVars(CloserStep(s) /\ UNCHANGED serveVars)
         /\ WF_allVars(BoxEnds(s) /\ UNCHANGED serveVars)
         /\ WF_allVars(Expire(s) /\ UNCHANGED serveVars)

ShutdownSpec == ShutdownInit /\ [][ShutdownNext]_allVars
FairShutdownSpec == ShutdownSpec /\ ShutdownFairness

-----------------------------------------------------------------------------
(* Properties.                                                             *)

(* When the process has ended there is no room left: no container, no      *)
(* microVM, no kept room with nobody to reap it.                           *)
NothingOutlives == loop = "stopped" => \A r \in Sessions : box[r] \in {"absent", "gone"}

(* Every kept room is swept: none outlives the process.                    *)
KeptRoomsSwept == loop = "stopped" => \A r \in Sessions : box[r] # "paused"

(* The order of serve(): when the sweep is over no room is registered and  *)
(* no pause is still on its way to the registry.                           *)
SweepSeesEveryRoom ==
    phase = "stopped" /\ loop = "running" =>
        /\ \A u \in Usernames : byName[u] = None
        /\ \A s \in Sessions : td[s] # "pausing"

(* A drain that neither raised nor ran out of time has every session it    *)
(* set out to close released.                                              *)
DrainLeavesNoneActive ==
    phase \in {"closing", "sweeping", "stopped"} /\ "slow_destroy" \notin Env
        => snapshot \cap active = {}

(* FORCE_CLOSE_TIMEOUT leaves no teardown running: when _drain goes on to  *)
(* the sweep, no teardown of a session it set out to close can still touch *)
(* the registry or a room.  Those in the way of the limit are cancelled,   *)
(* and one that swallows its cancellation is waited for all the same.      *)
DrainOutwaitsTeardowns ==
    phase \in {"closing", "sweeping", "stopped"} => \A s \in snapshot : td[s] \in Ended

(* Once the signal came the process ends, whatever the clients do.         *)
ShutdownCompletes == (phase # "serving") ~> (loop = "stopped")
=============================================================================
