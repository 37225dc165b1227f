------------------------------ MODULE Sessions ------------------------------
(***************************************************************************)
(* The life of a room in keycard: RoomSession, ActiveSessions and          *)
(* KeptRooms (src/keycard/session.py) as asyncio tasks that interleave at  *)
(* every await, above the two backends (docker.py, firecracker.py), whose  *)
(* calls are reduced to the state of the sandbox they act on.              *)
(*                                                                         *)
(* One element of Sessions is one RoomSession object and also names the    *)
(* sandbox ("box") that this session opens, if it opens one, and the Kept  *)
(* object its teardown produces, if it keeps the room.  All three are made *)
(* at most once per session.  An action is what one task runs between two  *)
(* awaits.  Cancellation follows asyncio: cancelling a task cancels what   *)
(* it awaits, a task that has not run yet never runs, and `except          *)
(* Exception` does not catch the cancellation.                             *)
(*                                                                         *)
(* A definition that follows a variant of itself (DiscardSetsAlways before *)
(* Discard, TakeWithoutPop before Take) is the code's; the variant is a    *)
(* plausible fault, there to check that some property notices it.          *)
(***************************************************************************)
EXTENDS FiniteSets

CONSTANTS
    Sessions,       \* RoomSession objects, one per SSH session channel
    Usernames,      \* SSH usernames
    User,           \* the username each session logs in under
    DockerNames,    \* usernames whose room runs on docker, the rest on firecracker
    KeepEnabled,    \* keep_window > 0
    IdleEnabled,    \* idle_timeout > 0
    Env,            \* the awkward events that may happen, from EnvEvents
    None

(***************************************************************************)
(* Events of the environment that a run may rule out, to tell which of     *)
(* them the guarantees depend on:                                          *)
(*   hangup_opening  the channel goes while the pump awaits open or resume *)
(*   hangup_ending   the channel goes while the pump or the watchdog       *)
(*                   awaits the end of the room                            *)
(*   shared_name     two live sessions under one username                  *)
(*   attach_fails    docker makes the container, then fails to start it or *)
(*                   to attach to it                                       *)
(*   mute            a channel past sending that does not report closing   *)
(*   slow_destroy    the drain's 5s pass before the teardowns end          *)
(***************************************************************************)
EnvEvents == {"hangup_opening", "hangup_ending", "shared_name",
              "attach_fails", "mute", "slow_destroy"}

ExitStatus == {"shell", "no_room", "idle", "shutdown"}

ASSUME SessionsAssumption ==
    /\ User \in [Sessions -> Usernames]
    /\ DockerNames \subseteq Usernames
    /\ KeepEnabled \in BOOLEAN
    /\ IdleEnabled \in BOOLEAN
    /\ Env \subseteq EnvEvents
    /\ None \notin Sessions \cup ExitStatus

VARIABLES
    chan,       \* the SSH channel of each session
    exit,       \* the exit status sent on it
    active,     \* ActiveSessions._sessions
    empty,      \* ActiveSessions._empty is set
    pump,       \* where RoomSession._run is
    mine,       \* the room in _run's hands
    room,       \* RoomSession._room
    td,         \* where the teardown task is, with its outcome
    tdRoom,     \* the room the teardown took; of a Kept object, its room
    watchdog,   \* where _idle_watchdog is
    force,      \* where force_close is
    byName,     \* KeptRooms._by_username
    expiry,     \* the _expire task of each Kept object
    box,        \* the sandboxes
    loop        \* the event loop: running, cancelling what is left, stopped

chanVars == <<chan, exit>>
keptVars == <<byName, expiry>>
activeVars == <<active, empty>>
vars == <<chan, exit, active, empty, pump, mine, room, td, tdRoom, watchdog,
          force, byName, expiry, box, loop>>

Docker(s) == User[s] \in DockerNames

Alive == loop # "stopped"

ChanState == {"none", "open", "mute", "closing", "lost"}
Awaiting == {"await_ours", "await_other"}
PumpEnding == {"failing", "late", "unwinding"}
PumpState == {"none", "created", "opening", "resuming", "reading", "done"}
             \cup PumpEnding \cup Awaiting
Released == {"empty", "kept", "destroyed", "cancelled"}
Ended == Released \cup {"unrun"}
TeardownState == {"none", "begun", "begun_keep", "pausing", "destroying"} \cup Ended
Threads == {"opening", "pausing", "resuming", "destroying"}
BoxState == {"absent", "live", "paused", "gone", "stranded"} \cup Threads

TypeOK ==
    /\ chan \in [Sessions -> ChanState]
    /\ exit \in [Sessions -> ExitStatus \cup {None}]
    /\ active \subseteq Sessions
    /\ empty \in BOOLEAN
    /\ pump \in [Sessions -> PumpState]
    /\ mine \in [Sessions -> Sessions \cup {None}]
    /\ room \in [Sessions -> Sessions \cup {None}]
    /\ td \in [Sessions -> TeardownState]
    /\ tdRoom \in [Sessions -> Sessions \cup {None}]
    /\ watchdog \in [Sessions -> {"none", "sleeping", "awaiting", "done"}]
    /\ force \in [Sessions -> {"none", "awaiting", "done", "failed", "cancelled"}]
    /\ byName \in [Usernames -> Sessions \cup {None}]
    /\ expiry \in [Sessions -> {"none", "sleeping", "done", "cancelled"}]
    /\ box \in [Sessions -> BoxState]
    /\ loop \in {"running", "cancelling", "stopped"}

Init ==
    /\ chan = [s \in Sessions |-> "none"]
    /\ exit = [s \in Sessions |-> None]
    /\ active = {}
    /\ empty = TRUE
    /\ pump = [s \in Sessions |-> "none"]
    /\ mine = [s \in Sessions |-> None]
    /\ room = [s \in Sessions |-> None]
    /\ td = [s \in Sessions |-> "none"]
    /\ tdRoom = [s \in Sessions |-> None]
    /\ watchdog = [s \in Sessions |-> "none"]
    /\ force = [s \in Sessions |-> "none"]
    /\ byName = [u \in Usernames |-> None]
    /\ expiry = [s \in Sessions |-> "none"]
    /\ box = [s \in Sessions |-> "absent"]
    /\ loop = "running"

-----------------------------------------------------------------------------
(* ActiveSessions, and the channel as asyncssh presents it.                *)

Add(s) ==
    /\ active' = active \cup {s}
    /\ empty' = FALSE

DiscardSetsAlways(S) ==
    /\ active' = active \ S
    /\ empty' = (empty \/ S # {})

Discard(S) ==
    /\ active' = active \ S
    /\ empty' = (empty \/ (S # {} /\ active \ S = {}))

ReleaseSkippedOnKeep(s) == IF td[s] = "pausing" THEN UNCHANGED activeVars ELSE Discard({s})

Release(s) == Discard({s})

(* chan.exit(status): sent and followed by close on an open channel only.  *)
Exit(s, status) ==
    /\ exit' = [exit EXCEPT ![s] = IF chan[s] = "open" THEN status ELSE @]
    /\ chan' = [chan EXCEPT ![s] = IF @ \in {"open", "mute"} THEN "closing" ELSE @]

(* The channel stops taking data before it reports that it is closing.     *)
Mute(s) ==
    /\ Alive
    /\ "mute" \in Env
    /\ chan[s] = "open"
    /\ chan' = [chan EXCEPT ![s] = "mute"]
    /\ UNCHANGED <<exit, activeVars, pump, mine, room, td, tdRoom, watchdog,
                   force, keptVars, box, loop>>

-----------------------------------------------------------------------------
(* What cancelling a task of session s leaves behind.  A docker call runs  *)
(* on in its executor thread; a firecracker destroy is the task's own code *)
(* and may swallow the cancellation, be past the point where it matters,   *)
(* or be cut short with the VMM or its directory left.                     *)

CancelOutcomes(s) ==
    IF Docker(s) THEN {"finishes"} ELSE {"swallowed", "finishes", "stranded"}

CancelledTeardown(s, o) ==
    CASE td[s] \in {"begun", "begun_keep"} -> "unrun"
      [] td[s] = "pausing" -> "cancelled"
      [] td[s] = "destroying" /\ o # "swallowed" -> "cancelled"
      [] OTHER -> td[s]

(* A task awaiting the teardown is cancelled through it.                   *)
SurvivesCancel(s, o) == td[s] = "destroying" /\ o = "swallowed"

CancelledPump(s, o) ==
    CASE pump[s] \in {"none", "done"} -> pump[s]
      [] pump[s] = "reading" -> "await_other"
      [] pump[s] = "opening" /\ ~Docker(s) -> "unwinding"
      [] pump[s] = "late" /\ o = "swallowed" -> "late"
      [] pump[s] \in Awaiting /\ SurvivesCancel(s, o) -> pump[s]
      [] OTHER -> "done"

CancelledWaiterLeft(w, s, o) == IF w = "none" THEN "none" ELSE "cancelling"

CancelledWaiter(w, s, o) ==
    CASE w = "none" -> "none"
      [] w = "awaiting" /\ SurvivesCancel(s, o) -> "awaiting"
      [] OTHER -> "done"

(* The boxes a cancelled open starts to unwind, and those that a cancelled *)
(* destroy, of the teardown or of the pump, leaves behind.                 *)
Unwound(s) == {r \in {mine[s]} : pump[s] = "opening" /\ ~Docker(s)}

TeardownStrands(s, o) ==
    {r \in {tdRoom[s]} : o = "stranded" /\ td[s] = "destroying" /\ box[r] = "destroying"}

PumpStrands(s, o) ==
    {r \in {mine[s]} : /\ o = "stranded"
                       /\ pump[s] \in PumpEnding
                       /\ box[r] = "destroying"}

-----------------------------------------------------------------------------
(* KeptRooms.                                                              *)

(* take: pop the entry of a username.                                      *)
KeptUnderAnyName(u) ==
    LET held == {byName[v] : v \in Usernames} \ {None}
    IN IF held = {} THEN None ELSE CHOOSE k \in held : TRUE

KeptFor(u) == byName[u]

TakeWithoutPop(u) == byName' = byName

Take(u) == byName' = [byName EXCEPT ![u] = None]

(* _expire after its sleep: destroy the room if this very Kept object is   *)
(* still the one registered.                                               *)
StillKeptAnyhow(k) == TRUE
StillKeptByName(k) == byName[User[k]] # None
StillKeptNever(k) == FALSE

StillKept(k) == byName[User[k]] = k

Expire(k) ==
    /\ Alive
    /\ expiry[k] = "sleeping"
    /\ expiry' = [expiry EXCEPT ![k] = "done"]
    /\ IF StillKept(k)
       THEN /\ byName' = [byName EXCEPT ![User[k]] = None]
            /\ box' = [box EXCEPT ![tdRoom[k]] = "destroying"]
       ELSE UNCHANGED <<byName, box>>
    /\ UNCHANGED <<chanVars, activeVars, pump, mine, room, td, tdRoom,
                   watchdog, force, loop>>

(* One turn of destroy_all's loop.                                         *)
Sweep(u) ==
    /\ Alive
    /\ byName[u] # None
    /\ byName' = [byName EXCEPT ![u] = None]
    /\ box' = [box EXCEPT ![tdRoom[byName[u]]] = "destroying"]
    /\ UNCHANGED <<chanVars, activeVars, pump, mine, room, td, tdRoom,
                   watchdog, force, expiry, loop>>

-----------------------------------------------------------------------------
(* The channel's callbacks.                                                *)

NameFree(s) == \A t \in active : User[t] # User[s]

ConnectionMade(s) ==
    /\ loop = "running"
    /\ chan[s] = "none"
    /\ "shared_name" \in Env \/ NameFree(s)
    /\ chan' = [chan EXCEPT ![s] = "open"]
    /\ Add(s)
    /\ UNCHANGED <<exit, pump, mine, room, td, tdRoom, watchdog, force,
                   keptVars, box, loop>>

SessionStarted(s) ==
    /\ loop = "running"
    /\ chan[s] = "open"
    /\ pump[s] = "none"
    /\ pump' = [pump EXCEPT ![s] = "created"]
    /\ watchdog' = [watchdog EXCEPT ![s] = IF IdleEnabled THEN "sleeping" ELSE "done"]
    /\ UNCHANGED <<chanVars, activeVars, mine, room, td, tdRoom, force,
                   keptVars, box, loop>>

(* _begin_teardown: the teardown there is, or a new one.                   *)
BeginTeardownKeeping(t, keep) == IF t = "none" THEN "begun_keep" ELSE t

BeginTeardown(t, keep) ==
    IF t = "none" THEN (IF keep THEN "begun_keep" ELSE "begun") ELSE t

(* The environment events that let the channel go at this moment.          *)
HangupAllowed(s) ==
    /\ pump[s] \in {"opening", "resuming"} => "hangup_opening" \in Env
    /\ pump[s] \in PumpEnding \cup Awaiting \/ watchdog[s] = "awaiting" => "hangup_ending" \in Env

ConnectionLost(s) ==
    /\ Alive
    /\ chan[s] \in {"open", "mute", "closing"}
    /\ HangupAllowed(s)
    /\ chan' = [chan EXCEPT ![s] = "lost"]
    /\ \E o \in CancelOutcomes(s) :
         LET cut == pump[s] \in Awaiting \/ watchdog[s] = "awaiting"
             t == IF cut THEN CancelledTeardown(s, o) ELSE td[s]
         IN /\ pump' = [pump EXCEPT ![s] = CancelledPump(s, o)]
            /\ watchdog' = [watchdog EXCEPT ![s] = CancelledWaiter(@, s, o)]
            /\ td' = [td EXCEPT ![s] = BeginTeardown(t, TRUE)]
            /\ Discard({x \in {s} : t = "cancelled" /\ td[s] # "cancelled"})
            /\ box' = [r \in Sessions |->
                         IF \/ cut /\ r \in TeardownStrands(s, o)
                            \/ r \in PumpStrands(s, o)
                         THEN "stranded"
                         ELSE IF r \in Unwound(s) THEN "destroying"
                         ELSE box[r]]
    /\ UNCHANGED <<exit, mine, room, tdRoom, force, keptVars, loop>>

-----------------------------------------------------------------------------
(* The teardown task.                                                      *)

CanPause(r) == Docker(r)

(* The first step takes the room and starts to pause or to destroy it.     *)
RunTeardown(s) ==
    /\ Alive
    /\ td[s] \in {"begun", "begun_keep"}
    /\ room' = [room EXCEPT ![s] = None]
    /\ tdRoom' = [tdRoom EXCEPT ![s] = room[s]]
    /\ LET r == room[s]
           keep == td[s] = "begun_keep" /\ KeepEnabled
       IN \/ /\ r = None
             /\ td' = [td EXCEPT ![s] = "empty"]
             /\ Release(s)
             /\ UNCHANGED box
          \/ /\ r # None /\ keep /\ CanPause(r)
             /\ td' = [td EXCEPT ![s] = "pausing"]
             /\ box' = [box EXCEPT ![r] = "pausing"]
             /\ UNCHANGED activeVars
          \/ /\ r # None /\ ~(keep /\ CanPause(r))
             /\ td' = [td EXCEPT ![s] = "destroying"]
             /\ box' = [box EXCEPT ![r] = "destroying"]
             /\ UNCHANGED activeVars
    /\ UNCHANGED <<chanVars, pump, mine, watchdog, force, keptVars, loop>>

(* KeptRooms.keep once pause has returned: register, start the timer.      *)
Keep(s) ==
    /\ Alive
    /\ td[s] = "pausing"
    /\ box[tdRoom[s]] = "paused"
    /\ byName' = [byName EXCEPT ![User[s]] = s]
    /\ expiry' = [expiry EXCEPT ![s] = "sleeping"]
    /\ td' = [td EXCEPT ![s] = "kept"]
    /\ Release(s)
    /\ UNCHANGED <<chanVars, pump, mine, room, tdRoom, watchdog, force, box, loop>>

(* pause raised: the room is checked out instead.                          *)
PauseFails(s) ==
    /\ Alive
    /\ td[s] = "pausing"
    /\ box[tdRoom[s]] = "pausing"
    /\ td' = [td EXCEPT ![s] = "destroying"]
    /\ box' = [box EXCEPT ![tdRoom[s]] = "destroying"]
    /\ UNCHANGED <<chanVars, activeVars, pump, mine, room, tdRoom, watchdog,
                   force, keptVars, loop>>

(* _checkout has returned: the status is known, the session is released.   *)
CheckedOut(s) ==
    /\ Alive
    /\ td[s] = "destroying"
    /\ box[tdRoom[s]] = "gone"
    /\ td' = [td EXCEPT ![s] = "destroyed"]
    /\ Release(s)
    /\ UNCHANGED <<chanVars, pump, mine, room, tdRoom, watchdog, force,
                   keptVars, box, loop>>

-----------------------------------------------------------------------------
(* The pump: RoomSession._run.                                             *)

(* Its first step claims the kept room of the username or opens a new one. *)
RunPump(s) ==
    /\ Alive
    /\ pump[s] = "created"
    /\ LET k == KeptFor(User[s])
           r == IF k = None THEN s ELSE tdRoom[k]
       IN /\ Take(User[s])
          /\ mine' = [mine EXCEPT ![s] = r]
          /\ pump' = [pump EXCEPT ![s] = IF k = None THEN "opening" ELSE "resuming"]
          /\ box' = [box EXCEPT ![r] = IF k = None THEN "opening" ELSE "resuming"]
    /\ UNCHANGED <<chanVars, activeVars, room, td, tdRoom, watchdog, force,
                   expiry, loop>>

SessionNeverEnded(s) == FALSE

SessionEnded(s) == td[s] # "none"

(* open or resume returned.  A session that ended meanwhile destroys the   *)
(* room at once; a banner that cannot be written ends the pump.            *)
Opened(s) ==
    /\ Alive
    /\ pump[s] \in {"opening", "resuming"}
    /\ IF SessionEnded(s)
       THEN /\ pump' = [pump EXCEPT ![s] = "late"]
            /\ box' = [box EXCEPT ![mine[s]] = "destroying"]
            /\ UNCHANGED room
       ELSE /\ pump' = [pump EXCEPT ![s] = IF chan[s] = "open" THEN "reading" ELSE "done"]
            /\ box' = [box EXCEPT ![mine[s]] = "live"]
            /\ room' = [room EXCEPT ![s] = mine[s]]
    /\ UNCHANGED <<chanVars, activeVars, mine, td, tdRoom, watchdog, force,
                   keptVars, loop>>

(* open raised: firecracker cleans up before it does, docker does not.     *)
OpenFails(s) ==
    /\ Alive
    /\ pump[s] = "opening"
    /\ pump' = [pump EXCEPT ![s] = "failing"]
    /\ \/ /\ ~Docker(s)
          /\ box' = [box EXCEPT ![mine[s]] = "destroying"]
       \/ /\ Docker(s)
          /\ box' = [box EXCEPT ![mine[s]] = "gone"]
       \/ /\ Docker(s)
          /\ "attach_fails" \in Env
          /\ box' = [box EXCEPT ![mine[s]] = "live"]
    /\ UNCHANGED <<chanVars, activeVars, mine, room, td, tdRoom, watchdog,
                   force, keptVars, loop>>

(* resume raised: the room was claimed, so destroy_kept is called here.    *)
ResumeFails(s) ==
    /\ Alive
    /\ pump[s] = "resuming"
    /\ pump' = [pump EXCEPT ![s] = "failing"]
    /\ box' = [box EXCEPT ![mine[s]] = "destroying"]
    /\ UNCHANGED <<chanVars, activeVars, mine, room, td, tdRoom, watchdog,
                   force, keptVars, loop>>

(* "no room available", exit 1, and no teardown.                           *)
Refuse(s) ==
    /\ Alive
    /\ pump[s] = "failing"
    /\ box[mine[s]] # "destroying"
    /\ pump' = [pump EXCEPT ![s] = "done"]
    /\ IF chan[s] = "open" THEN Exit(s, "no_room") ELSE UNCHANGED chanVars
    /\ UNCHANGED <<activeVars, mine, room, td, tdRoom, watchdog, force,
                   keptVars, box, loop>>

(* The pump has destroyed a late room, or unwound a cancelled open.        *)
LateDone(s) ==
    /\ Alive
    /\ pump[s] \in {"late", "unwinding"}
    /\ box[mine[s]] = "gone"
    /\ pump' = [pump EXCEPT ![s] = "done"]
    /\ UNCHANGED <<chanVars, activeVars, mine, room, td, tdRoom, watchdog,
                   force, keptVars, box, loop>>

(* The read loop ends: the shell exited, or the stream or channel failed.  *)
ReadEnds(s) ==
    /\ Alive
    /\ pump[s] = "reading"
    /\ pump' = [pump EXCEPT ![s] = IF td[s] = "none" THEN "await_ours" ELSE "await_other"]
    /\ td' = [td EXCEPT ![s] = BeginTeardown(@, FALSE)]
    /\ UNCHANGED <<chanVars, activeVars, mine, room, tdRoom, watchdog, force,
                   keptVars, box, loop>>

(* `await self._begin_teardown(...)` returns.                              *)
NotAwaited(s) == TRUE

TeardownOver(s) == td[s] \in Ended

(* The teardown the pump awaits has ended: report the shell's status.      *)
Goodbye(s) ==
    /\ Alive
    /\ pump[s] \in Awaiting
    /\ TeardownOver(s)
    /\ pump' = [pump EXCEPT ![s] = "done"]
    /\ IF pump[s] = "await_ours" /\ td[s] = "destroyed" /\ chan[s] = "open"
       THEN Exit(s, "shell")
       ELSE UNCHANGED chanVars
    /\ UNCHANGED <<activeVars, mine, room, td, tdRoom, watchdog, force,
                   keptVars, box, loop>>

-----------------------------------------------------------------------------
(* The idle watchdog and the drain's force_close: each writes a notice,    *)
(* starts or joins the teardown, then closes the channel.                  *)

IdleFires(s) ==
    /\ Alive
    /\ watchdog[s] = "sleeping"
    /\ IF chan[s] = "mute"
       THEN /\ watchdog' = [watchdog EXCEPT ![s] = "done"]
            /\ UNCHANGED td
       ELSE /\ watchdog' = [watchdog EXCEPT ![s] = "awaiting"]
            /\ td' = [td EXCEPT ![s] = BeginTeardown(@, FALSE)]
    /\ UNCHANGED <<chanVars, activeVars, pump, mine, room, tdRoom, force,
                   keptVars, box, loop>>

IdleCloses(s) ==
    /\ Alive
    /\ watchdog[s] = "awaiting"
    /\ TeardownOver(s)
    /\ watchdog' = [watchdog EXCEPT ![s] = "done"]
    /\ IF td[s] \in {"cancelled", "unrun"} THEN UNCHANGED chanVars ELSE Exit(s, "idle")
    /\ UNCHANGED <<activeVars, pump, mine, room, td, tdRoom, force, keptVars,
                   box, loop>>

ForceClose(s) ==
    /\ Alive
    /\ force[s] = "none"
    /\ chan[s] # "none"
    /\ IF chan[s] = "mute"
       THEN /\ force' = [force EXCEPT ![s] = "failed"]
            /\ UNCHANGED td
       ELSE /\ force' = [force EXCEPT ![s] = "awaiting"]
            /\ td' = [td EXCEPT ![s] = BeginTeardown(@, FALSE)]
    /\ UNCHANGED <<chanVars, activeVars, pump, mine, room, tdRoom, watchdog,
                   keptVars, box, loop>>

ForceCloses(s) ==
    /\ Alive
    /\ force[s] = "awaiting"
    /\ TeardownOver(s)
    /\ IF td[s] \in {"cancelled", "unrun"}
       THEN /\ force' = [force EXCEPT ![s] = "cancelled"]
            /\ UNCHANGED chanVars
       ELSE /\ force' = [force EXCEPT ![s] = "done"]
            /\ Exit(s, "shutdown")
    /\ UNCHANGED <<activeVars, pump, mine, room, td, tdRoom, watchdog,
                   keptVars, box, loop>>

(* The drain's time limit cancels force_close, and through it the teardown.*)
CancelForce(s) ==
    /\ Alive
    /\ "slow_destroy" \in Env
    /\ force[s] = "awaiting"
    /\ td[s] \in {"pausing", "destroying"}
    /\ \E o \in CancelOutcomes(s) :
         /\ force' = [force EXCEPT ![s] = IF SurvivesCancel(s, o) THEN @ ELSE "cancelled"]
         /\ td' = [td EXCEPT ![s] = CancelledTeardown(s, o)]
         /\ Discard({x \in {s} : CancelledTeardown(s, o) = "cancelled"})
         /\ box' = [r \in Sessions |->
                      IF r \in TeardownStrands(s, o) THEN "stranded" ELSE box[r]]
    /\ UNCHANGED <<chanVars, pump, mine, room, tdRoom, watchdog, keptVars, loop>>

-----------------------------------------------------------------------------
(* The sandboxes: a call that runs in a thread, or in the task awaiting    *)
(* it, comes to its end.                                                   *)

Awaited(r) == \E s \in Sessions : mine[s] = r /\ pump[s] \in {"opening", "resuming"}

BoxStep(r, from, to) ==
    /\ Alive
    /\ box[r] = from
    /\ box' = [box EXCEPT ![r] = to]
    /\ UNCHANGED <<chanVars, activeVars, pump, mine, room, td, tdRoom,
                   watchdog, force, keptVars, loop>>

(* docker's pause swallows docker's errors: "paused" says that the call is *)
(* over and the room is detached, not that the container is frozen.        *)
BoxPaused(r) == BoxStep(r, "pausing", "paused")
BoxDestroyed(r) == BoxStep(r, "destroying", "gone")

(* The thread of a cancelled open or resume: the room it made has no taker.*)
BoxOpened(r) ==
    /\ ~Awaited(r)
    /\ BoxStep(r, "opening", "live") \/ BoxStep(r, "resuming", "live")

-----------------------------------------------------------------------------
(* The end of asyncio.run: every task left is cancelled at once, the loop  *)
(* runs until those tasks have ended, then the executor is joined.         *)

CancelAll ==
    /\ loop = "running"
    /\ loop' = "cancelling"
    /\ \E o \in [Sessions -> {"swallowed", "finishes", "stranded"}] :
         /\ \A s \in Sessions : o[s] \in CancelOutcomes(s)
         /\ pump' = [s \in Sessions |->
                       IF pump[s] = "reading" /\ td[s] = "none" THEN "await_ours"
                       ELSE CancelledPump(s, o[s])]
         /\ watchdog' = [s \in Sessions |-> CancelledWaiter(watchdog[s], s, o[s])]
         /\ force' = [s \in Sessions |->
                        IF force[s] = "awaiting" /\ ~SurvivesCancel(s, o[s])
                        THEN "cancelled" ELSE force[s]]
         /\ td' = [s \in Sessions |->
                     IF td[s] = "none" /\ pump[s] = "reading" THEN "begun"
                     ELSE CancelledTeardown(s, o[s])]
         /\ Discard({s \in Sessions : td[s] # "cancelled"
                                      /\ CancelledTeardown(s, o[s]) = "cancelled"})
         /\ box' = [r \in Sessions |->
                      IF \E s \in Sessions : r \in TeardownStrands(s, o[s]) \cup PumpStrands(s, o[s])
                      THEN "stranded"
                      ELSE IF \E s \in Sessions : r \in Unwound(s) THEN "destroying"
                      ELSE box[r]]
    /\ expiry' = [k \in Sessions |-> IF expiry[k] = "sleeping" THEN "cancelled" ELSE expiry[k]]
    /\ UNCHANGED <<chanVars, mine, room, tdRoom, byName>>

LoopStops ==
    /\ loop = "cancelling"
    /\ \A s \in Sessions : /\ pump[s] \in {"none", "done"}
                           /\ td[s] \notin {"pausing", "destroying"}
                           /\ box[s] \notin Threads
    /\ loop' = "stopped"
    /\ UNCHANGED <<chanVars, activeVars, pump, mine, room, td, tdRoom,
                   watchdog, force, keptVars, box>>

Stopped ==
    /\ loop = "stopped"
    /\ UNCHANGED vars

-----------------------------------------------------------------------------
PumpStep(s) ==
    \/ RunPump(s) \/ Opened(s) \/ OpenFails(s) \/ ResumeFails(s) \/ Refuse(s)
    \/ LateDone(s) \/ Goodbye(s)

TeardownStep(s) == RunTeardown(s) \/ Keep(s) \/ PauseFails(s) \/ CheckedOut(s)

CloserStep(s) == IdleCloses(s) \/ ForceCloses(s)

BoxEnds(r) == BoxPaused(r) \/ BoxDestroyed(r) \/ BoxOpened(r)

Channel(s) == ConnectionMade(s) \/ SessionStarted(s) \/ Mute(s) \/ ConnectionLost(s)

SessionNext(s) ==
    \/ Channel(s) \/ PumpStep(s) \/ TeardownStep(s) \/ CloserStep(s) \/ BoxEnds(s)
    \/ ReadEnds(s) \/ IdleFires(s) \/ Expire(s)

Next ==
    \/ \E s \in Sessions : SessionNext(s) \/ ForceClose(s) \/ CancelForce(s)
    \/ \E u \in Usernames : Sweep(u)
    \/ CancelAll
    \/ LoopStops
    \/ Stopped

(***************************************************************************)
(* asyncio runs every task that can run, executor threads finish, timers   *)
(* fire.  Nothing is assumed of clients, shells, signals or idle time.     *)
(***************************************************************************)
Fairness ==
    \A s \in Sessions :
        /\ WF_vars(PumpStep(s))
        /\ WF_vars(TeardownStep(s))
        /\ WF_vars(CloserStep(s))
        /\ WF_vars(BoxEnds(s))
        /\ WF_vars(Expire(s))

Spec == Init /\ [][Next]_vars
FairSpec == Spec /\ Fairness

-----------------------------------------------------------------------------
(* Properties.                                                             *)

(* Who has room r in hand: a session's _room, a pump that is opening,      *)
(* resuming or ending it, a teardown, the registry of kept rooms.          *)
SessionHas(s, r) == room[s] = r
PumpHas(s, r) == mine[s] = r /\ pump[s] \in {"opening", "resuming"} \cup PumpEnding
TeardownHas(s, r) == tdRoom[s] = r /\ td[s] \in {"pausing", "destroying"}
RegistryHas(s, r) == tdRoom[s] = r /\ byName[User[s]] = s

Holders(r) ==
    {h \in {"session", "pump", "teardown", "kept"} \X Sessions :
        \/ h[1] = "session" /\ SessionHas(h[2], r)
        \/ h[1] = "pump" /\ PumpHas(h[2], r)
        \/ h[1] = "teardown" /\ TeardownHas(h[2], r)
        \/ h[1] = "kept" /\ RegistryHas(h[2], r)}

(* No two tasks or registries ever hold the same room, so no room is       *)
(* destroyed twice, resumed by two sessions or destroyed while in use,     *)
(* whichever of the six triggers of ARCHITECTURE.md race.                  *)
SingleOwner == \A r \in Sessions : \A a, b \in Holders(r) : a = b

(* What a holder believes of its room is so: the _room of a session is     *)
(* live, a registered room is parked by a pause that has returned, a room  *)
(* awaited by open, resume, pause or destroy is in that state.             *)
HoldersSeeTheirRoom ==
    /\ \A s \in Sessions :
         /\ room[s] # None => box[room[s]] = "live"
         /\ pump[s] \in {"opening", "resuming"} => box[mine[s]] = pump[s]
         /\ td[s] = "pausing" => box[tdRoom[s]] \in {"pausing", "paused"}
         /\ td[s] = "destroying" => box[tdRoom[s]] \in {"destroying", "gone"}
    /\ \A u \in Usernames : byName[u] # None => box[tdRoom[byName[u]]] = "paused"

(* While the server runs, whatever sandbox exists has someone who will     *)
(* collect it, or its destruction is under way.                            *)
Collector(r, s) ==
    \/ room[s] = r /\ td[s] \in {"none", "begun", "begun_keep"}
    \/ mine[s] = r /\ pump[s] \in {"opening", "resuming"}
    \/ tdRoom[s] = r /\ td[s] \in {"pausing", "destroying"}
    \/ tdRoom[s] = r /\ byName[User[s]] = s /\ expiry[s] = "sleeping"

NoOrphan ==
    loop = "running" =>
        \A r \in Sessions : box[r] \notin {"absent", "destroying", "gone"} =>
            \E s \in Sessions : Collector(r, s)

(* A room is only ever in the hands of sessions of the username it was     *)
(* opened for, through any chain of keeping and resuming.                  *)
RoomStaysWithItsName ==
    /\ \A r \in Sessions : \A h \in Holders(r) : User[h[2]] = User[r]
    /\ \A u \in Usernames : byName[u] # None => User[byName[u]] = u

(* A room is paused only when the hang-up of its client was what ended the *)
(* session: never after exit, idle timeout or shutdown told the client     *)
(* that the room is gone, and never on firecracker.                        *)
KeptOnlyAfterHangup ==
    \A s \in Sessions : td[s] \in {"pausing", "kept"} =>
        chan[s] = "lost" /\ exit[s] = None /\ CanPause(tdRoom[s]) /\ KeepEnabled

(* A status that announces the end of the room reaches the client only     *)
(* when the teardown has come to its end and its room is gone.             *)
StatusAfterCheckout ==
    \A s \in Sessions : exit[s] \in {"shell", "idle", "shutdown"} =>
        /\ td[s] \in {"destroyed", "empty"}
        /\ tdRoom[s] # None => box[tdRoom[s]] = "gone"

(* The drain's event says what it is taken to say: every session that      *)
(* connected has come to the end of its teardown.                          *)
EmptyMeansReleased ==
    empty <=> \A s \in Sessions : chan[s] # "none" => td[s] \in Released

(* A registered room leaves the registry only to a session that resumes    *)
(* it, destroyed by its own timer, destroyed by the shutdown sweep, or     *)
(* because the keep of a second session of the same username overwrites    *)
(* its entry (against session.py:96: that room is held no longer and never *)
(* destroyed).  The timer of an earlier stay never takes a later one.      *)
LeavesByItsOwnDoor ==
    [][\A u \in Usernames : LET k == byName[u] IN
         k # None /\ byName'[u] # k =>
            \/ \E s \in Sessions : User[s] = u /\ pump'[s] = "resuming" /\ mine'[s] = tdRoom[k]
            \/ /\ byName'[u] = None /\ box'[tdRoom[k]] = "destroying"
               /\ \/ expiry[k] = "sleeping" /\ expiry'[k] = "done"
                  \/ UNCHANGED <<expiry, pump>>
            \/ "shared_name" \in Env /\ \E s \in Sessions : td[s] = "pausing" /\ byName'[u] = s]_vars

(***************************************************************************)
(* The promise of module RoomPromise, kept by the tasks above: a room is   *)
(* with the session whose _room it is, or whose pump or teardown awaits    *)
(* it; it is kept when it is registered with a timer running.  A room that *)
(* nobody has in hand is nowhere, which the promise does not allow.        *)
(***************************************************************************)
GuestOf(r, s) ==
    \/ room[s] = r /\ td[s] \in {"none", "begun", "begun_keep"}
    \/ mine[s] = r /\ pump[s] \in {"opening", "resuming"}
    \/ tdRoom[s] = r /\ td[s] = "pausing"

Guests(r) == {s \in Sessions : loop = "running" /\ GuestOf(r, s)}

Guest(r) == IF Guests(r) = {} THEN None ELSE CHOOSE s \in Guests(r) : TRUE

KeptBy(r, s) == tdRoom[s] = r /\ byName[User[s]] = s /\ expiry[s] = "sleeping"

Place(r) ==
    IF loop # "running" THEN "down"
    ELSE CASE box[r] = "absent" -> "none"
           [] box[r] = "destroying" -> "leaving"
           [] box[r] = "gone" -> "gone"
           [] Guests(r) # {} -> "guest"
           [] \E s \in Sessions : KeptBy(r, s) -> "kept"
           [] OTHER -> "nowhere"

Promised == INSTANCE RoomPromise WITH
    place <- [r \in Sessions |-> Place(r)],
    guest <- [r \in Sessions |-> Guest(r)]

(* Sessions implements RoomPromise, with its liveness.                     *)
KeepsPromise == Promised!FairPromise

(* While the server runs, a lost connection ends in a released session.    *)
LostIsReleased ==
    \A s \in Sessions : chan[s] = "lost" ~> s \notin active \/ loop # "running"

=============================================================================
