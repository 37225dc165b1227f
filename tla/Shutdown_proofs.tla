--------------------------- MODULE Shutdown_proofs --------------------------
(***************************************************************************)
(* Proofs about Shutdown, on top of those about Sessions, for any number   *)
(* of sessions and usernames.                                              *)
(***************************************************************************)
EXTENDS Shutdown, Sessions_proofs

-----------------------------------------------------------------------------
(* serve() and the sessions.                                               *)

(***************************************************************************)
(* What the drain knows of the sessions it set out to close: a force_close *)
(* that returned without raising returned after a teardown that ran.       *)
(***************************************************************************)
DrainInv ==
    /\ \A s \in Sessions : force[s] = "done" => td[s] \in {"empty", "kept", "destroyed"}
    /\ phase = "timed_out" => "slow_destroy" \in Env
    /\ phase \in {"closing", "sweeping", "stopped"} /\ "slow_destroy" \notin Env
         => \A s \in snapshot : force[s] = "done"

(***************************************************************************)
(* A shutdown that nothing disturbs: none of Sessions' awkward events, and *)
(* nothing that comes late.                                                *)
(***************************************************************************)
Calm == Env = {} /\ Late = {}

Drained == {"closing", "sweeping", "stopped"}

(* Nothing raises, and no task is cancelled before serve() has returned.   *)
UndisturbedInv ==
    /\ \A s \in Sessions : chan[s] # "mute" /\ (watchdog[s] # "none" => pump[s] # "none")
    /\ phase \notin {"aborted", "timed_out"}
    /\ loop # "running" => phase = "stopped"
    /\ loop = "running" =>
         \A s \in Sessions : td[s] \notin {"cancelled", "unrun"} /\ force[s] \notin {"failed", "cancelled"}

(* The drain closes every session there is, none comes after it, and one   *)
(* that was closed before it started never starts.                         *)
ClosedInv ==
    /\ phase \in {"serving", "grace"} => \A s \in Sessions : force[s] = "none"
    /\ \A s \in Sessions : force[s] # "none" => s \in snapshot
    /\ phase = "forcing" => active \subseteq snapshot
    /\ \A s \in Sessions : chan[s] = "open" /\ pump[s] = "none" /\ td[s] # "none" => force[s] = "awaiting"
    /\ phase \in Drained => active = {} /\ \A s \in Sessions : force[s] \in {"none", "done"}

(* The sweep starts when the registry can only shrink, and visits what is  *)
(* in it; what it leaves has nobody to collect it but is on its way out.   *)
SweptInv ==
    /\ phase \in {"sweeping", "stopped"} => \A s \in Sessions : Settled(s)
    /\ phase = "sweeping" => \A u \in Usernames : byName[u] # None => <<u, byName[u]>> \in sweep
    /\ phase = "stopped" =>
         /\ \A u \in Usernames : byName[u] = None
         /\ \A r \in Sessions : box[r] \in {"absent", "destroying", "gone"}
    /\ loop = "stopped" => \A r \in Sessions : box[r] # "destroying"

(* Without the awkward events, the server is sheltered.                    *)
LEMMA CalmSheltered == Calm => Sheltered
BY DEF Calm, Sheltered

(* serve() does to the sessions only what Sessions allows: every step of a *)
(* shutdown is a step of Sessions, or leaves the sessions alone.           *)
LEMMA ServeStepIsStep == [ShutdownNext]_allVars => [Next]_vars
<1> SUFFICES ASSUME [ShutdownNext]_allVars PROVE [Next]_vars
  OBVIOUS
<1>1. CASE UNCHANGED allVars
  BY <1>1 DEF allVars, vars
<1>2. ASSUME NEW s \in Sessions, SessionGoesOn(s) \/ DrainForces(s) \/ DrainCancels(s) PROVE Next
  BY <1>2 DEF SessionGoesOn, DrainForces, DrainCancels, Next
<1>3. ASSUME NEW u \in Usernames, NEW k \in Sessions, SweepNext(u, k) PROVE [Next]_vars
  BY <1>3 DEF SweepNext, Next
<1>4. CASE RunEnds \/ LoopStops \/ Stopped
  BY <1>4 DEF RunEnds, Next
<1>5. CASE Signal \/ ForcingTimesOut \/ GraceEnds \/ ForcingEnds \/ TimedOutEnds \/ StartSweep \/ SweptOne \/ ServeReturns
  BY <1>5 DEF Signal, ForcingTimesOut, GraceEnds, ForcingEnds, TimedOutEnds, StartSweep, SweptOne, ServeReturns
<1> QED BY <1>1, <1>2, <1>3, <1>4, <1>5 DEF ShutdownNext, ServeStep

(* Shutdown implements Sessions, so whatever is proved of Sessions holds   *)
(* from the signal to the end of the process (serve, _drain).              *)
THEOREM ShutdownKeepsSessions == ShutdownSpec => Spec
<1>1. ShutdownInit => Init
  BY DEF ShutdownInit
<1> QED BY <1>1, ServeStepIsStep, PTL DEF ShutdownSpec, Spec

(* serve() is always in one of its phases, force-closes only sessions, and *)
(* sweeps only entries of the registry's snapshot.                         *)
THEOREM ShutdownTypeCorrect == ShutdownSpec => []ShutdownTypeOK
<1>1. ShutdownInit => ShutdownTypeOK
  BY InitType, SessionsAssumption DEF ShutdownInit, ShutdownTypeOK, Phases
<1>2. ASSUME ShutdownTypeOK, [ShutdownNext]_allVars PROVE ShutdownTypeOK'
  <2>1. TypeOK /\ TypeOK'
    BY <1>2, NextType, ServeStepIsStep DEF ShutdownTypeOK
  <2> USE <1>2, <2>1 DEF ShutdownTypeOK, serveVars, Phases
  <2>2. ASSUME UNCHANGED serveVars PROVE ShutdownTypeOK'
    BY <2>2
  <2>3. ASSUME NEW s \in Sessions, SessionGoesOn(s) \/ DrainForces(s) \/ DrainCancels(s) PROVE UNCHANGED serveVars
    BY <2>3 DEF SessionGoesOn, DrainForces, DrainCancels
  <2>4. CASE Signal \/ GraceEnds \/ ForcingEnds \/ ForcingTimesOut \/ TimedOutEnds
    <3>1. active \subseteq Sessions
      BY DEF TypeOK
    <3> QED BY <2>4, <3>1 DEF Signal, GraceEnds, ForcingEnds, ForcingTimesOut, TimedOutEnds
  <2>5. CASE StartSweep
    BY <2>5 DEF StartSweep
  <2>6. ASSUME NEW u \in Usernames, NEW k \in Sessions, SweepNext(u, k) PROVE ShutdownTypeOK'
    <3>1. tdRoom[k] \in Sessions \cup {None}
      BY DEF TypeOK
    <3>2. sweeping' = tdRoom[k] \/ sweeping' = sweeping
      BY <2>6 DEF SweepNext
    <3> QED BY <2>6, <3>1, <3>2 DEF SweepNext
  <2>7. CASE SweptOne \/ ServeReturns
    BY <2>7 DEF SweptOne, ServeReturns
  <2>8. CASE RunEnds \/ (LoopStops /\ UNCHANGED serveVars) \/ (Stopped /\ UNCHANGED serveVars) \/ UNCHANGED allVars
    BY <2>2, <2>8 DEF RunEnds, allVars
  <2> QED BY <2>2, <2>3, <2>4, <2>5, <2>6, <2>7, <2>8 DEF ShutdownNext, ServeStep
<1> QED BY <1>1, <1>2, PTL DEF ShutdownSpec

(* No room changes hands between usernames during a shutdown either.       *)
THEOREM NoStrangerAtTheEnd == ShutdownSpec => []RoomStaysWithItsName
BY ShutdownKeepsSessions, NoStranger, PTL

-----------------------------------------------------------------------------
(* The drain.                                                              *)

(* A force_close that has returned stays so, and so does its teardown.     *)
LEMMA DoneStays ==
    ASSUME TypeOK, \A s \in Sessions : force[s] = "done" => td[s] \in {"empty", "kept", "destroyed"},
           [Next]_vars
    PROVE  /\ (\A s \in Sessions : force[s] = "done" => td[s] \in {"empty", "kept", "destroyed"})'
           /\ \A s \in Sessions : force[s] = "done" => force'[s] = "done"
<1> DEFINE Goal == \A s \in Sessions : /\ force'[s] = "done" => td'[s] \in {"empty", "kept", "destroyed"}
                                       /\ force[s] = "done" => force'[s] = "done"
<1> USE DEF TypeOK, chanVars, activeVars, keptVars
<1>1. ASSUME NEW s \in Sessions, ConnectionMade(s) PROVE Goal
  BY <1>1 DEF ConnectionMade, Add
<1>2. ASSUME NEW s \in Sessions, SessionStarted(s) PROVE Goal
  BY <1>2 DEF SessionStarted
<1>3. ASSUME NEW s \in Sessions, Mute(s) PROVE Goal
  BY <1>3 DEF Mute
<1>4. ASSUME NEW s \in Sessions, ConnectionLost(s) PROVE Goal
  <2>1. PICK o \in CancelOutcomes(s) :
          td' = [td EXCEPT ![s] = BeginTeardown(IF pump[s] \in Awaiting \/ watchdog[s] = "awaiting"
                                                THEN CancelledTeardown(s, o) ELSE td[s], TRUE)]
    BY <1>4 DEF ConnectionLost
  <2>2. td[s] \in {"empty", "kept", "destroyed"} => td'[s] = td[s]
    BY <2>1 DEF CancelledTeardown, BeginTeardown
  <2>3. UNCHANGED force
    BY <1>4 DEF ConnectionLost
  <2> QED BY <2>1, <2>2, <2>3
<1>5. ASSUME NEW s \in Sessions, RunPump(s) PROVE Goal
  BY <1>5 DEF RunPump, Take, KeptFor
<1>6. ASSUME NEW s \in Sessions, Opened(s) PROVE Goal
  BY <1>6 DEF Opened, SessionEnded
<1>7. ASSUME NEW s \in Sessions, OpenFails(s) PROVE Goal
  BY <1>7 DEF OpenFails
<1>8. ASSUME NEW s \in Sessions, ResumeFails(s) PROVE Goal
  BY <1>8 DEF ResumeFails
<1>9. ASSUME NEW s \in Sessions, Refuse(s) PROVE Goal
  BY <1>9 DEF Refuse, Exit
<1>10. ASSUME NEW s \in Sessions, LateDone(s) PROVE Goal
  BY <1>10 DEF LateDone
<1>11. ASSUME NEW s \in Sessions, Goodbye(s) PROVE Goal
  BY <1>11 DEF Goodbye, Exit
<1>12. ASSUME NEW s \in Sessions, RunTeardown(s) PROVE Goal
  BY <1>12 DEF RunTeardown, Release, Discard
<1>13. ASSUME NEW s \in Sessions, Keep(s) PROVE Goal
  BY <1>13 DEF Keep, Release, Discard
<1>14. ASSUME NEW s \in Sessions, PauseFails(s) PROVE Goal
  BY <1>14 DEF PauseFails
<1>15. ASSUME NEW s \in Sessions, CheckedOut(s) PROVE Goal
  BY <1>15 DEF CheckedOut, Release, Discard
<1>16. ASSUME NEW s \in Sessions, IdleCloses(s) PROVE Goal
  BY <1>16 DEF IdleCloses, Exit
<1>17. ASSUME NEW s \in Sessions, ForceCloses(s) PROVE Goal
  BY <1>17 DEF ForceCloses, TeardownOver, Ended, Released
<1>18. ASSUME NEW s \in Sessions, BoxPaused(s) PROVE Goal
  BY <1>18 DEF BoxPaused, BoxStep
<1>19. ASSUME NEW s \in Sessions, BoxDestroyed(s) PROVE Goal
  BY <1>19 DEF BoxDestroyed, BoxStep
<1>20. ASSUME NEW s \in Sessions, BoxOpened(s) PROVE Goal
  BY <1>20 DEF BoxOpened, BoxStep
<1>21. ASSUME NEW s \in Sessions, ReadEnds(s) PROVE Goal
  BY <1>21 DEF ReadEnds, BeginTeardown
<1>22. ASSUME NEW s \in Sessions, IdleFires(s) PROVE Goal
  BY <1>22 DEF IdleFires, BeginTeardown
<1>23. ASSUME NEW s \in Sessions, Expire(s) PROVE Goal
  BY <1>23 DEF Expire, StillKept
<1>24. ASSUME NEW s \in Sessions, ForceClose(s) PROVE Goal
  BY <1>24 DEF ForceClose, BeginTeardown
<1>25. ASSUME NEW s \in Sessions, CancelForce(s) PROVE Goal
  BY <1>25 DEF CancelForce, CancelledTeardown
<1>26. ASSUME NEW u \in Usernames, Sweep(u) PROVE Goal
  BY <1>26 DEF Sweep
<1>27. CASE CancelAll
  <2>1. PICK o \in [Sessions -> {"swallowed", "finishes", "stranded"}] :
          /\ force' = [s \in Sessions |->
                         IF force[s] = "awaiting" /\ ~SurvivesCancel(s, o[s]) THEN "cancelled" ELSE force[s]]
          /\ td' = [s \in Sessions |->
                      IF td[s] = "none" /\ pump[s] = "reading" THEN "begun" ELSE CancelledTeardown(s, o[s])]
    BY <1>27 DEF CancelAll
  <2>2. \A s \in Sessions : td[s] \in {"empty", "kept", "destroyed"} => td'[s] = td[s]
    BY <2>1 DEF CancelledTeardown
  <2> QED BY <2>1, <2>2
<1>28. CASE LoopStops
  BY <1>28 DEF LoopStops
<1>29. CASE UNCHANGED vars
  BY <1>29 DEF vars
<1> QED
  BY <1>1, <1>2, <1>3, <1>4, <1>5, <1>6, <1>7, <1>8, <1>9, <1>10, <1>11, <1>12, <1>13, <1>14,
     <1>15, <1>16, <1>17, <1>18, <1>19, <1>20, <1>21, <1>22, <1>23, <1>24, <1>25, <1>26, <1>27,
     <1>28, <1>29
  DEF Next, SessionNext, Channel, PumpStep, TeardownStep, CloserStep, BoxEnds, Stopped

(* What the drain knows of its sessions, at every step.                    *)
THEOREM DrainInvariance == ShutdownSpec => []DrainInv
<1>1. ShutdownInit => DrainInv
  BY DEF ShutdownInit, Init, DrainInv
<1>2. ASSUME ShutdownTypeOK, DrainInv, [ShutdownNext]_allVars PROVE DrainInv'
  <2>1. /\ (\A s \in Sessions : force[s] = "done" => td[s] \in {"empty", "kept", "destroyed"})'
        /\ \A s \in Sessions : force[s] = "done" => force'[s] = "done"
    <3> HIDE DEF TypeOK
    <3>1. TypeOK /\ [Next]_vars
      BY <1>2, ServeStepIsStep DEF ShutdownTypeOK
    <3> QED BY <1>2, <3>1, DoneStays DEF DrainInv
  <2>2. snapshot \subseteq Sessions /\ active \subseteq Sessions
    BY <1>2 DEF ShutdownTypeOK, TypeOK
  <2> USE <1>2, <2>1, <2>2 DEF DrainInv
  <2>3. ASSUME UNCHANGED serveVars PROVE DrainInv'
    BY <2>3 DEF serveVars
  <2>4. CASE Signal \/ GraceEnds
    BY <2>4 DEF Signal, GraceEnds
  <2>5. CASE ForcingEnds
    BY <2>5 DEF ForcingEnds, Gathered
  <2>6. CASE ForcingTimesOut \/ TimedOutEnds
    BY <2>6 DEF ForcingTimesOut, TimedOutEnds
  <2>7. ASSUME NEW u \in Usernames, NEW k \in Sessions, SweepNext(u, k) PROVE DrainInv'
    BY <2>7 DEF SweepNext
  <2>8. CASE StartSweep \/ SweptOne \/ ServeReturns
    BY <2>8 DEF StartSweep, SweptOne, ServeReturns
  <2>9. ASSUME NEW s \in Sessions, SessionGoesOn(s) \/ DrainForces(s) \/ DrainCancels(s) PROVE DrainInv'
    BY <2>3, <2>9 DEF SessionGoesOn, DrainForces, DrainCancels
  <2>10. CASE RunEnds \/ (LoopStops /\ UNCHANGED serveVars) \/ (Stopped /\ UNCHANGED serveVars) \/ UNCHANGED allVars
    BY <2>3, <2>10 DEF RunEnds, allVars
  <2> HIDE DEF DrainInv
  <2> QED BY <2>4, <2>5, <2>6, <2>7, <2>8, <2>9, <2>10 DEF ShutdownNext, ServeStep
<1> QED BY <1>1, <1>2, ShutdownTypeCorrect, PTL DEF ShutdownSpec

(* However a drain that was not cut short ends, it has released every      *)
(* session it set out to close; those that _drain gathered and that raised *)
(* ended it in an exception instead (_drain, force_close).                 *)
THEOREM DrainReleases == ShutdownSpec => []DrainLeavesNoneActive
<1>1. ASSUME ShutdownTypeOK, ActiveInv, DrainInv PROVE DrainLeavesNoneActive
  BY <1>1 DEF ShutdownTypeOK, ActiveInv, DrainInv, Released, DrainLeavesNoneActive
<1> QED BY <1>1, DrainInvariance, ShutdownTypeCorrect, ShutdownKeepsSessions, Outcomes, PTL

-----------------------------------------------------------------------------
(* A calm shutdown.                                                        *)

CalmInv == UndisturbedInv /\ ClosedInv /\ SweptInv

(* A server that starts has nothing to close.                              *)
LEMMA InitCalm == ASSUME ShutdownInit PROVE CalmInv
BY DEF ShutdownInit, Init, CalmInv, UndisturbedInv, ClosedInv, SweptInv, Drained

(* No session's step raises or cancels another's task.                     *)
LEMMA UndisturbedSession ==
    ASSUME Calm, TypeOK, ActiveInv, UndisturbedInv, NEW s \in Sessions, SessionNext(s), UNCHANGED serveVars
    PROVE  UndisturbedInv'
<1> USE DEF TypeOK, ActiveInv, UndisturbedInv, Calm, chanVars, activeVars, keptVars, serveVars
<1>1. ASSUME ConnectionMade(s) PROVE UndisturbedInv'
  BY <1>1 DEF ConnectionMade, Add
<1>2. ASSUME SessionStarted(s) PROVE UndisturbedInv'
  BY <1>2 DEF SessionStarted
<1>3. ASSUME Mute(s) PROVE UndisturbedInv'
  BY <1>3 DEF Mute
<1>4. ASSUME ConnectionLost(s) PROVE UndisturbedInv'
  <2>1. /\ td' = [td EXCEPT ![s] = BeginTeardown(td[s], TRUE)]
        /\ UNCHANGED <<active, mine, room, tdRoom, byName, expiry, loop, box>>
    BY <1>4, CalmSheltered, ShelteredHangup
  <2>2. chan' = [chan EXCEPT ![s] = "lost"] /\ UNCHANGED force /\ HangupAllowed(s)
    BY <1>4 DEF ConnectionLost
  <2>3. PICK o : /\ pump' = [pump EXCEPT ![s] = CancelledPump(s, o)]
                 /\ watchdog' = [watchdog EXCEPT ![s] = CancelledWaiter(watchdog[s], s, o)]
    <3> HIDE DEF TypeOK, ActiveInv, UndisturbedInv, ClosedInv, SweptInv
    <3> QED BY <1>4 DEF ConnectionLost
  <2>4. \A x \in Sessions : td'[x] = td[x] \/ (td[x] = "none" /\ td'[x] = "begun_keep")
    BY <2>1 DEF BeginTeardown

  <2>5. \A x \in Sessions : (pump'[x] = "none" <=> pump[x] = "none") /\ (watchdog'[x] = "none" <=> watchdog[x] = "none")
    BY <2>3 DEF CancelledPump, CancelledWaiter
  <2>6. \A x \in Sessions : chan'[x] # "mute"
    BY <2>2
  <2> HIDE DEF Calm, ActiveInv, TypeOK
  <2> QED BY <2>6, <2>1, <2>2, <2>4, <2>5
<1>5. ASSUME RunPump(s) PROVE UndisturbedInv'
  BY <1>5 DEF RunPump, Take, KeptFor
<1>6. ASSUME Opened(s) PROVE UndisturbedInv'
  BY <1>6 DEF Opened, SessionEnded
<1>7. ASSUME OpenFails(s) PROVE UndisturbedInv'
  BY <1>7 DEF OpenFails
<1>8. ASSUME ResumeFails(s) PROVE UndisturbedInv'
  BY <1>8 DEF ResumeFails
<1>9. ASSUME Refuse(s) PROVE UndisturbedInv'
  BY <1>9 DEF Refuse, Exit
<1>10. ASSUME LateDone(s) PROVE UndisturbedInv'
  BY <1>10 DEF LateDone
<1>11. ASSUME Goodbye(s) PROVE UndisturbedInv'
  BY <1>11 DEF Goodbye, Exit
<1>12. ASSUME RunTeardown(s) PROVE UndisturbedInv'
  BY <1>12 DEF RunTeardown, Release, Discard
<1>13. ASSUME Keep(s) PROVE UndisturbedInv'
  BY <1>13 DEF Keep, Release, Discard
<1>14. ASSUME PauseFails(s) PROVE UndisturbedInv'
  BY <1>14 DEF PauseFails
<1>15. ASSUME CheckedOut(s) PROVE UndisturbedInv'
  BY <1>15 DEF CheckedOut, Release, Discard
<1>16. ASSUME IdleCloses(s) PROVE UndisturbedInv'
  BY <1>16 DEF IdleCloses, Exit
<1>17. ASSUME ForceCloses(s) PROVE UndisturbedInv'
  BY <1>17 DEF ForceCloses, Exit
<1>18. ASSUME BoxPaused(s) PROVE UndisturbedInv'
  BY <1>18 DEF BoxPaused, BoxStep
<1>19. ASSUME BoxDestroyed(s) PROVE UndisturbedInv'
  BY <1>19 DEF BoxDestroyed, BoxStep
<1>20. ASSUME BoxOpened(s) PROVE UndisturbedInv'
  BY <1>20 DEF BoxOpened, BoxStep
<1>21. ASSUME ReadEnds(s) PROVE UndisturbedInv'
  BY <1>21 DEF ReadEnds, BeginTeardown
<1>22. ASSUME IdleFires(s) PROVE UndisturbedInv'
  BY <1>22 DEF IdleFires, BeginTeardown
<1>23. ASSUME Expire(s) PROVE UndisturbedInv'
  BY <1>23 DEF Expire, StillKept
<1> QED
  BY <1>1, <1>2, <1>3, <1>4, <1>5, <1>6, <1>7, <1>8, <1>9, <1>10, <1>11, <1>12, <1>13, <1>14,
     <1>15, <1>16, <1>17, <1>18, <1>19, <1>20, <1>21, <1>22, <1>23
  DEF SessionNext, Channel, PumpStep, TeardownStep, CloserStep, BoxEnds

(* No session's step opens a session once the drain has begun.             *)
LEMMA ClosedSession ==
    ASSUME Calm, TypeOK, ActiveInv, ActiveInv', UndisturbedInv, ClosedInv, NEW s \in Sessions, SessionGoesOn(s)
    PROVE  ClosedInv'
<1> USE DEF TypeOK, ActiveInv, UndisturbedInv, ClosedInv, Drained, Released, Calm, chanVars, activeVars, keptVars, serveVars
<1> UNCHANGED serveVars /\ SessionNext(s) /\ (phase = "serving" \/ chan'[s] # "open" \/ chan[s] = "open")
  BY DEF SessionGoesOn
<1>1. ASSUME ConnectionMade(s) PROVE ClosedInv'
  BY <1>1 DEF ConnectionMade, Add
<1>2. ASSUME SessionStarted(s) PROVE ClosedInv'
  BY <1>2 DEF SessionStarted
<1>3. ASSUME Mute(s) PROVE ClosedInv'
  BY <1>3 DEF Mute
<1>4. ASSUME ConnectionLost(s) PROVE ClosedInv'
  <2>1. /\ td' = [td EXCEPT ![s] = BeginTeardown(td[s], TRUE)]
        /\ UNCHANGED <<active, mine, room, tdRoom, byName, expiry, loop, box>>
    BY <1>4, CalmSheltered, ShelteredHangup
  <2>2. chan' = [chan EXCEPT ![s] = "lost"] /\ UNCHANGED force /\ HangupAllowed(s)
    BY <1>4 DEF ConnectionLost
  <2>3. PICK o : /\ pump' = [pump EXCEPT ![s] = CancelledPump(s, o)]
                 /\ watchdog' = [watchdog EXCEPT ![s] = CancelledWaiter(watchdog[s], s, o)]
    <3> HIDE DEF TypeOK, ActiveInv, UndisturbedInv, ClosedInv, SweptInv
    <3> QED BY <1>4 DEF ConnectionLost
  <2>4. \A x \in Sessions : td'[x] = td[x] \/ (td[x] = "none" /\ td'[x] = "begun_keep")
    BY <2>1 DEF BeginTeardown

  <2>5. \A x \in Sessions : pump'[x] = "none" <=> pump[x] = "none"
    BY <2>3 DEF CancelledPump
  <2> HIDE DEF Calm, ActiveInv, UndisturbedInv
  <2>6. \A x \in Sessions : x # s => chan'[x] = chan[x] /\ td'[x] = td[x]
    <3> HIDE DEF ClosedInv
    <3> QED BY <2>1, <2>2
  <2>7. chan'[s] = "lost"
    BY <2>2
  <2> HIDE DEF TypeOK
  <2> QED BY <2>1, <2>2, <2>5, <2>6, <2>7
<1>5. ASSUME RunPump(s) PROVE ClosedInv'
  BY <1>5 DEF RunPump, Take, KeptFor
<1>6. ASSUME Opened(s) PROVE ClosedInv'
  BY <1>6 DEF Opened, SessionEnded
<1>7. ASSUME OpenFails(s) PROVE ClosedInv'
  BY <1>7 DEF OpenFails
<1>8. ASSUME ResumeFails(s) PROVE ClosedInv'
  BY <1>8 DEF ResumeFails
<1>9. ASSUME Refuse(s) PROVE ClosedInv'
  BY <1>9 DEF Refuse, Exit
<1>10. ASSUME LateDone(s) PROVE ClosedInv'
  BY <1>10 DEF LateDone
<1>11. ASSUME Goodbye(s) PROVE ClosedInv'
  BY <1>11 DEF Goodbye, Exit
<1>12. ASSUME RunTeardown(s) PROVE ClosedInv'
  BY <1>12 DEF RunTeardown, Release, Discard
<1>13. ASSUME Keep(s) PROVE ClosedInv'
  BY <1>13 DEF Keep, Release, Discard
<1>14. ASSUME PauseFails(s) PROVE ClosedInv'
  BY <1>14 DEF PauseFails
<1>15. ASSUME CheckedOut(s) PROVE ClosedInv'
  BY <1>15 DEF CheckedOut, Release, Discard
<1>16. ASSUME IdleCloses(s) PROVE ClosedInv'
  BY <1>16 DEF IdleCloses, Exit
<1>17. ASSUME ForceCloses(s) PROVE ClosedInv'
  BY <1>17 DEF ForceCloses, Exit
<1>18. ASSUME BoxPaused(s) PROVE ClosedInv'
  BY <1>18 DEF BoxPaused, BoxStep
<1>19. ASSUME BoxDestroyed(s) PROVE ClosedInv'
  BY <1>19 DEF BoxDestroyed, BoxStep
<1>20. ASSUME BoxOpened(s) PROVE ClosedInv'
  BY <1>20 DEF BoxOpened, BoxStep
<1>21. ASSUME ReadEnds(s) PROVE ClosedInv'
  BY <1>21 DEF ReadEnds, BeginTeardown
<1>22. ASSUME IdleFires(s) PROVE ClosedInv'
  BY <1>22 DEF IdleFires, BeginTeardown
<1>23. ASSUME Expire(s) PROVE ClosedInv'
  BY <1>23 DEF Expire, StillKept
<1> QED
  BY <1>1, <1>2, <1>3, <1>4, <1>5, <1>6, <1>7, <1>8, <1>9, <1>10, <1>11, <1>12, <1>13, <1>14,
     <1>15, <1>16, <1>17, <1>18, <1>19, <1>20, <1>21, <1>22, <1>23
  DEF SessionNext, Channel, PumpStep, TeardownStep, CloserStep, BoxEnds

(* No session's step adds to the registry or to the rooms once the sweep   *)
(* has started.                                                            *)
LEMMA SweptSession ==
    ASSUME Calm, TypeOK, IInv, ActiveInv, UndisturbedInv, ClosedInv, SweptInv, NEW s \in Sessions, SessionGoesOn(s)
    PROVE  SweptInv'
<1> USE DEF TypeOK, ActiveInv, UndisturbedInv, ClosedInv, SweptInv, Settled, Drained, Released, Calm, chanVars, activeVars, keptVars, serveVars
<1> UNCHANGED serveVars /\ SessionNext(s)
  BY DEF SessionGoesOn
<1>1. ASSUME ConnectionMade(s) PROVE SweptInv'
  BY <1>1 DEF ConnectionMade, Add
<1>2. ASSUME SessionStarted(s) PROVE SweptInv'
  BY <1>2 DEF SessionStarted
<1>3. ASSUME Mute(s) PROVE SweptInv'
  BY <1>3 DEF Mute
<1>4. ASSUME ConnectionLost(s) PROVE SweptInv'
  <2>1. /\ td' = [td EXCEPT ![s] = BeginTeardown(td[s], TRUE)]
        /\ UNCHANGED <<active, mine, room, tdRoom, byName, expiry, loop, box>>
    BY <1>4, CalmSheltered, ShelteredHangup
  <2>2. chan' = [chan EXCEPT ![s] = "lost"] /\ UNCHANGED force /\ HangupAllowed(s)
    BY <1>4 DEF ConnectionLost
  <2>3. PICK o : /\ pump' = [pump EXCEPT ![s] = CancelledPump(s, o)]
                 /\ watchdog' = [watchdog EXCEPT ![s] = CancelledWaiter(watchdog[s], s, o)]
    <3> HIDE DEF TypeOK, ActiveInv, UndisturbedInv, ClosedInv, SweptInv
    <3> QED BY <1>4 DEF ConnectionLost
  <2>4. \A x \in Sessions : td'[x] = td[x] \/ (td[x] = "none" /\ td'[x] = "begun_keep")
    BY <2>1 DEF BeginTeardown

  <2>5. \A x \in Sessions : Settled(x) => Settled(x)'
    BY <2>3 DEF CancelledPump, Settled, Awaiting
  <2> QED BY <2>1, <2>5
<1>5. ASSUME RunPump(s) PROVE SweptInv'
  BY <1>5 DEF RunPump, Take, KeptFor
<1>6. ASSUME Opened(s) PROVE SweptInv'
  BY <1>6 DEF Opened, SessionEnded
<1>7. ASSUME OpenFails(s) PROVE SweptInv'
  BY <1>7 DEF OpenFails
<1>8. ASSUME ResumeFails(s) PROVE SweptInv'
  BY <1>8 DEF ResumeFails
<1>9. ASSUME Refuse(s) PROVE SweptInv'
  BY <1>9 DEF Refuse, Exit
<1>10. ASSUME LateDone(s) PROVE SweptInv'
  BY <1>10 DEF LateDone
<1>11. ASSUME Goodbye(s) PROVE SweptInv'
  BY <1>11 DEF Goodbye, Exit
<1>12. ASSUME RunTeardown(s) PROVE SweptInv'
  BY <1>12 DEF RunTeardown, Release, Discard
<1>13. ASSUME Keep(s) PROVE SweptInv'
  BY <1>13 DEF Keep, Release, Discard
<1>14. ASSUME PauseFails(s) PROVE SweptInv'
  BY <1>14 DEF PauseFails
<1>15. ASSUME CheckedOut(s) PROVE SweptInv'
  BY <1>15 DEF CheckedOut, Release, Discard
<1>16. ASSUME IdleCloses(s) PROVE SweptInv'
  BY <1>16 DEF IdleCloses, Exit
<1>17. ASSUME ForceCloses(s) PROVE SweptInv'
  BY <1>17 DEF ForceCloses, Exit
<1>18. ASSUME BoxPaused(s) PROVE SweptInv'
  BY <1>18 DEF BoxPaused, BoxStep
<1>19. ASSUME BoxDestroyed(s) PROVE SweptInv'
  BY <1>19 DEF BoxDestroyed, BoxStep
<1>20. ASSUME BoxOpened(s) PROVE SweptInv'
  BY <1>20 DEF BoxOpened, BoxStep
<1>21. ASSUME ReadEnds(s) PROVE SweptInv'
  BY <1>21 DEF ReadEnds, BeginTeardown
<1>22. ASSUME IdleFires(s) PROVE SweptInv'
  BY <1>22 DEF IdleFires, BeginTeardown
<1>23. ASSUME Expire(s) PROVE SweptInv'
  <2>1. byName' = byName \/ (byName[User[s]] = s /\ byName' = [byName EXCEPT ![User[s]] = None])
    BY <1>23 DEF Expire, StillKept
  <2>2. byName' = byName => box' = box
    <3>1. byName[User[s]] = s => byName'[User[s]] = None
      <4>1. byName[User[s]] = s => byName' = [byName EXCEPT ![User[s]] = None]
        <5> HIDE DEF TypeOK, ActiveInv, ClosedInv, Calm, UndisturbedInv, SweptInv
        <5> QED BY <1>23 DEF Expire, StillKept
      <4>2. byName \in [Usernames -> Sessions \cup {None}] /\ User[s] \in Usernames
        BY SessionsAssumption
      <4> HIDE DEF TypeOK, ActiveInv, ClosedInv, Calm, UndisturbedInv, SweptInv
      <4> QED BY <4>1, <4>2
    <3>2. byName' = byName => byName[User[s]] # s
      BY <3>1, SessionsAssumption
    <3> QED BY <1>23, <3>2 DEF Expire, StillKept
  <2>3. box' = box \/ box' = [box EXCEPT ![tdRoom[s]] = "destroying"]
    BY <1>23 DEF Expire
  <2>4. UNCHANGED <<loop, pump>> /\ loop # "stopped"
    BY <1>23 DEF Expire, Alive
  <2>5. s # None /\ User[s] \in Usernames
    BY SessionsAssumption
  <2> HIDE DEF ActiveInv, ClosedInv, Calm, UndisturbedInv
  <2> QED BY <2>1, <2>2, <2>3, <2>4, <2>5
<1> QED
  BY <1>1, <1>2, <1>3, <1>4, <1>5, <1>6, <1>7, <1>8, <1>9, <1>10, <1>11, <1>12, <1>13, <1>14,
     <1>15, <1>16, <1>17, <1>18, <1>19, <1>20, <1>21, <1>22, <1>23
  DEF SessionNext, Channel, PumpStep, TeardownStep, CloserStep, BoxEnds

(* Once the sweep is over nobody has a room to collect.                    *)
LEMMA NobodyCollects ==
    ASSUME TypeOK, ActiveInv, OutcomeInv, CollectInv, loop = "running", active = {},
           \A s \in Sessions : Settled(s), \A u \in Usernames : byName[u] = None,
           NEW r \in Sessions, NEW s \in Sessions
    PROVE  ~Collector(r, s)
<1> USE DEF TypeOK, ActiveInv, OutcomeInv, CollectInv, Released, Settled
<1>1. chan[s] = "none" \/ td[s] \in Released
  OBVIOUS
<1>2. td[s] \notin {"pausing", "destroying"}
  BY <1>1
<1>3. room[s] = None
  BY <1>1
<1>4. pump[s] \notin {"opening", "resuming"}
  OBVIOUS
<1>5. byName[User[s]] # s
  BY SessionsAssumption
<1> QED BY <1>2, <1>3, <1>4, <1>5, SessionsAssumption DEF Collector

(* The end of asyncio.run, after a calm shutdown, finds nothing to cancel. *)
LEMMA NothingToCancel ==
    ASSUME TypeOK, ActiveInv, OutcomeInv, CalmInv, phase = "stopped", CancelAll
    PROVE  /\ UNCHANGED <<chan, byName, box, td, force>>
           /\ \A s \in Sessions : (pump'[s] = "none") = (pump[s] = "none") /\ Settled(s)'
           /\ \A s \in Sessions : watchdog'[s] = "none" <=> watchdog[s] = "none"
<1>1. PICK o \in [Sessions -> {"swallowed", "finishes", "stranded"}] :
        /\ pump' = [s \in Sessions |->
                      IF pump[s] = "reading" /\ td[s] = "none" THEN "await_ours"
                      ELSE CancelledPump(s, o[s])]
        /\ watchdog' = [s \in Sessions |-> CancelledWaiter(watchdog[s], s, o[s])]
        /\ force' = [s \in Sessions |->
                       IF force[s] = "awaiting" /\ ~SurvivesCancel(s, o[s])
                       THEN "cancelled" ELSE force[s]]
        /\ td' = [s \in Sessions |->
                    IF td[s] = "none" /\ pump[s] = "reading" THEN "begun"
                    ELSE CancelledTeardown(s, o[s])]
        /\ box' = [r \in Sessions |->
                     IF \E s \in Sessions : r \in TeardownStrands(s, o[s]) \cup PumpStrands(s, o[s])
                     THEN "stranded"
                     ELSE IF \E s \in Sessions : r \in Unwound(s) THEN "destroying"
                     ELSE box[r]]
  BY DEF CancelAll
<1>2. \A s \in Sessions : /\ (chan[s] = "none" /\ td[s] = "none" /\ pump[s] = "none") \/ td[s] \in Released
                          /\ Settled(s) /\ force[s] \in {"none", "done"}
  BY DEF TypeOK, ActiveInv, CalmInv, ClosedInv, SweptInv, Drained
<1>3. force' = force
  BY <1>1, <1>2 DEF TypeOK
<1>4. td' = td
  BY <1>1, <1>2 DEF TypeOK, CancelledTeardown, Released
<1>5. \A s \in Sessions : TeardownStrands(s, o[s]) = {} /\ PumpStrands(s, o[s]) = {} /\ Unwound(s) = {}
  BY <1>2 DEF TeardownStrands, PumpStrands, Unwound, Settled, Released, PumpEnding
<1>6. box' = box
  BY <1>1, <1>5 DEF TypeOK
<1>7. \A s \in Sessions : (pump'[s] = "none") = (pump[s] = "none") /\ Settled(s)'
  BY <1>1, <1>2 DEF CancelledPump, Settled, Awaiting
<1>8. \A s \in Sessions : watchdog'[s] = "none" <=> watchdog[s] = "none"
  BY <1>1 DEF CancelledWaiter
<1>9. UNCHANGED <<chan, byName>>
  BY DEF CancelAll, chanVars
<1> QED BY <1>3, <1>4, <1>6, <1>7, <1>8, <1>9

(* Every step of a calm shutdown keeps the order of serve().               *)
LEMMA NextCalm ==
    ASSUME Calm, ShutdownTypeOK, TypeOK', IInv, ActiveInv, ActiveInv', OutcomeInv, CollectInv, NoOrphan,
           DrainInv, CalmInv, [ShutdownNext]_allVars
    PROVE  CalmInv'
<1> USE DEF CalmInv
<1>0. TypeOK /\ snapshot \subseteq Sessions
  BY DEF ShutdownTypeOK
<1>1. ASSUME NEW s \in Sessions, SessionGoesOn(s) PROVE CalmInv'
  BY <1>0, <1>1, UndisturbedSession, ClosedSession, SweptSession DEF SessionGoesOn
<1>2. ASSUME NEW s \in Sessions, DrainForces(s) PROVE CalmInv'
  <2>1. /\ phase = "forcing" /\ loop = "running" /\ s \in snapshot /\ chan[s] # "mute"
        /\ UNCHANGED <<phase, snapshot, sweep, sweeping, chan, active, pump, watchdog, byName, box, loop>>
        /\ force' = [force EXCEPT ![s] = "awaiting"]
        /\ td' = [td EXCEPT ![s] = BeginTeardown(td[s], FALSE)]
    BY <1>2 DEF DrainForces, ForceClose, serveVars, chanVars, activeVars, keptVars, UndisturbedInv
  <2>2. \A x \in Sessions : x # s => td'[x] = td[x] /\ force'[x] = force[x]
    BY <1>0, <2>1 DEF TypeOK
  <2>3. force'[s] = "awaiting" /\ td'[s] \in {td[s], "begun"}
    BY <1>0, <2>1 DEF TypeOK, BeginTeardown
  <2>4. UndisturbedInv'
    BY <2>1, <2>2, <2>3 DEF UndisturbedInv
  <2>5. ClosedInv'
    BY <2>1, <2>2, <2>3 DEF ClosedInv, Drained
  <2>6. SweptInv'
    BY <2>1 DEF SweptInv
  <2> QED BY <2>4, <2>5, <2>6
<1>3. ASSUME NEW s \in Sessions, DrainCancels(s) PROVE CalmInv'
  BY <1>3 DEF DrainCancels, UndisturbedInv
<1>4. ASSUME UNCHANGED vars, phase # "stopped", loop = "running", sweep' = sweep
      PROVE  /\ UNCHANGED <<chan, watchdog, pump, td, force, active, byName, box, loop>>
             /\ phase' \notin {"aborted", "timed_out"} => UndisturbedInv'
  BY <1>4 DEF vars, UndisturbedInv
<1>5. phase # "stopped" => loop = "running"
  BY DEF UndisturbedInv
<1>6. CASE Signal
  <2>1. /\ phase = "serving" /\ UNCHANGED <<vars, sweep>>
        /\ phase' \in {"closing", "forcing", "grace"}
        /\ phase' = "closing" => active = {}
        /\ phase' = "forcing" => snapshot' = active
    BY <1>0, <1>6 DEF Signal, UndisturbedInv, TypeOK
  <2> QED BY <1>4, <1>5, <2>1 DEF ClosedInv, SweptInv, Drained
<1>7. CASE GraceEnds
  <2>1. /\ phase = "grace" /\ UNCHANGED <<vars, sweep>>
        /\ phase' \in {"closing", "forcing"}
        /\ phase' = "closing" => active = {}
        /\ snapshot' = active
    BY <1>7 DEF GraceEnds
  <2> QED BY <1>4, <1>5, <2>1 DEF ClosedInv, SweptInv, Drained
<1>8. CASE ForcingEnds
  <2>1. phase = "forcing" /\ UNCHANGED <<vars, snapshot, sweep>> /\ (Gathered \/ GatherRaises)
    BY <1>8 DEF ForcingEnds
  <2>2. Gathered /\ phase' = "closing"
    BY <1>0, <1>5, <1>8, <2>1 DEF ForcingEnds, GatherRaises, UndisturbedInv
  <2>3. \A s \in snapshot : s \notin active
    BY <1>0, <2>2 DEF Gathered, DrainInv, ActiveInv, Released
  <2>4. active = {}
    BY <2>1, <2>3 DEF ClosedInv
  <2>5. \A s \in Sessions : force[s] \in {"none", "done"}
    BY <2>2 DEF ClosedInv, Gathered
  <2> QED BY <1>4, <1>5, <2>1, <2>2, <2>4, <2>5 DEF ClosedInv, SweptInv, Drained
<1>9. CASE ForcingTimesOut \/ TimedOutEnds
  BY <1>9 DEF ForcingTimesOut, TimedOutEnds, Calm, UndisturbedInv
<1>10. CASE StartSweep
  <2>1. /\ phase = "closing" /\ phase' = "sweeping" /\ UNCHANGED <<vars, snapshot>>
        /\ \A s \in Sessions : Settled(s)
        /\ sweep' = {e \in Usernames \X Sessions : byName[e[1]] = e[2]}
    BY <1>10 DEF StartSweep, Calm
  <2>2. \A u \in Usernames : byName[u] # None => <<u, byName[u]>> \in sweep'
    BY <1>0, <2>1 DEF TypeOK
  <2>3. UNCHANGED <<chan, watchdog, pump, td, force, active, byName, box, loop>>
    BY <2>1 DEF vars
  <2>4. UndisturbedInv'
    BY <2>1, <2>3 DEF UndisturbedInv
  <2>5. ClosedInv'
    BY <2>1, <2>3 DEF ClosedInv, Drained
  <2>6. SweptInv'
    BY <1>5, <2>1, <2>2, <2>3 DEF SweptInv, Settled
  <2> QED BY <2>4, <2>5, <2>6
<1>11. ASSUME NEW u \in Usernames, NEW k \in Sessions, SweepNext(u, k) PROVE CalmInv'
  <2>1. /\ phase = "sweeping" /\ UNCHANGED <<phase, snapshot>> /\ sweep' = sweep \ {<<u, k>>}
        /\ UNCHANGED <<chan, watchdog, pump, td, force, active, loop>>
    BY <1>11 DEF SweepNext, Sweep, vars, chanVars, activeVars
  <2>2. \A v \in Usernames : byName'[v] # None => byName'[v] = byName[v] /\ <<v, byName[v]>> # <<u, k>>
    <3>1. CASE byName[u] = k
      <4>1. byName' = [byName EXCEPT ![u] = None]
        BY <1>11, <3>1 DEF SweepNext, Sweep
      <4> QED BY <1>0, <4>1 DEF TypeOK
    <3>2. CASE byName[u] # k
      <4>1. byName' = byName
        BY <1>11, <3>2 DEF SweepNext, vars
      <4> QED BY <3>2, <4>1
    <3> QED BY <3>1, <3>2
  <2>3. UndisturbedInv' /\ ClosedInv'
    BY <2>1 DEF UndisturbedInv, ClosedInv
  <2>4. SweptInv'
    BY <1>5, <2>1, <2>2 DEF SweptInv, Settled
  <2> QED BY <2>3, <2>4
<1>12. CASE SweptOne
  BY <1>12 DEF SweptOne, vars, UndisturbedInv, ClosedInv, SweptInv, Settled
<1>13. CASE ServeReturns
  <2>1. phase = "sweeping" /\ phase' = "stopped" /\ sweep = {} /\ UNCHANGED <<vars, snapshot>>
    BY <1>13 DEF ServeReturns
  <2>2. UNCHANGED <<chan, watchdog, pump, td, force, active, byName, box, loop>>
    BY <2>1 DEF vars
  <2>3. \A u \in Usernames : byName[u] = None
    BY <2>1 DEF SweptInv
  <2>4. active = {} /\ \A s \in Sessions : Settled(s)
    BY <2>1 DEF SweptInv, ClosedInv, Drained
  <2>5. loop = "running"
    BY <1>5, <2>1
  <2>6. \A r, s \in Sessions : ~Collector(r, s)
    BY <1>0, <2>3, <2>4, <2>5, NobodyCollects
  <2>7. \A r \in Sessions : box[r] \in {"absent", "destroying", "gone"}
    BY <2>5, <2>6 DEF NoOrphan
  <2>8. UndisturbedInv' /\ ClosedInv'
    BY <2>1, <2>2 DEF UndisturbedInv, ClosedInv, Drained
  <2>9. SweptInv'
    BY <2>1, <2>2, <2>3, <2>4, <2>5, <2>7 DEF SweptInv, Settled
  <2> QED BY <2>8, <2>9
<1>14. CASE RunEnds
  <2>1. phase = "stopped" /\ CancelAll /\ UNCHANGED <<phase, snapshot, sweep>> /\ loop' = "cancelling"
    BY <1>14 DEF RunEnds, CancelAll, serveVars, UndisturbedInv
  <2>2. /\ UNCHANGED <<chan, byName, box, td, force>>
        /\ \A s \in Sessions : (pump'[s] = "none") = (pump[s] = "none") /\ Settled(s)'
        /\ \A s \in Sessions : watchdog'[s] = "none" <=> watchdog[s] = "none"
    BY <1>0, <2>1, NothingToCancel
  <2>3. UndisturbedInv'
    BY <2>1, <2>2 DEF UndisturbedInv
  <2>4. active' = {}
    <3>1. \A s \in Sessions : s \in active' <=> s \in active
      BY <2>2 DEF ActiveInv
    <3> QED BY <1>0, <2>1, <3>1 DEF TypeOK, ClosedInv, Drained
  <2>5. ClosedInv'
    BY <2>1, <2>2, <2>4 DEF ClosedInv, Drained
  <2>6. SweptInv'
    BY <2>1, <2>2 DEF SweptInv
  <2> QED BY <2>3, <2>5, <2>6
<1>15. CASE LoopStops /\ UNCHANGED serveVars
  BY <1>15 DEF LoopStops, serveVars, chanVars, activeVars, keptVars, UndisturbedInv, ClosedInv, SweptInv, Settled, Threads
<1>16. CASE UNCHANGED allVars
  BY <1>16 DEF allVars, vars, serveVars, UndisturbedInv, ClosedInv, SweptInv, Settled
<1>17. CASE Stopped /\ UNCHANGED serveVars
  BY <1>16, <1>17 DEF Stopped, allVars
<1> QED
  BY <1>1, <1>2, <1>3, <1>6, <1>7, <1>8, <1>9, <1>10, <1>11, <1>12, <1>13, <1>14, <1>15, <1>16, <1>17
  DEF ShutdownNext, ServeStep

(* Throughout a calm shutdown, whatever the number of sessions.            *)
THEOREM CalmInvariance == Calm => (ShutdownSpec => []CalmInv)
<1> SUFFICES ASSUME Calm PROVE ShutdownSpec => []CalmInv
  OBVIOUS
<1>1. ShutdownInit => CalmInv
  BY InitCalm
<1>2. ASSUME ShutdownTypeOK, ShutdownTypeOK', IInv, ActiveInv, ActiveInv', OutcomeInv,
             CollectInv, NoOrphan, DrainInv, CalmInv, [ShutdownNext]_allVars
      PROVE  CalmInv'
  <2>1. TypeOK'
    BY <1>2 DEF ShutdownTypeOK
  <2> QED BY <1>2, <2>1, NextCalm
<1>3. Spec => [](CollectInv /\ NoOrphan)
  BY CalmSheltered, Collectors
<1> QED BY <1>1, <1>2, <1>3, ShutdownTypeCorrect, ShutdownKeepsSessions, Invariance, Outcomes,
           DrainInvariance, PTL
        DEF ShutdownSpec

(* A shutdown that nothing disturbs leaves no container, no microVM and no *)
(* kept room when the process has ended (serve, _drain, destroy_all).      *)
THEOREM NoneOutlives == Calm => (ShutdownSpec => []NothingOutlives)
<1> SUFFICES ASSUME Calm PROVE ShutdownSpec => []NothingOutlives
  OBVIOUS
<1>1. CalmInv => NothingOutlives
  BY DEF CalmInv, UndisturbedInv, SweptInv, NothingOutlives
<1>2. ShutdownSpec => []CalmInv
  BY CalmInvariance
<1> QED BY <1>1, <1>2, PTL

-----------------------------------------------------------------------------
(***************************************************************************)
(* Why destroy_all comes last.  Whatever becomes of the clients and of the *)
(* force_close calls, each of those that returned or was cancelled has an  *)
(* ended teardown behind it; if no session comes after the drain has       *)
(* looked, all teardowns have ended when it is over, and only a teardown   *)
(* that pauses a room registers one.                                       *)
(***************************************************************************)
ForcedInv ==
    \A s \in Sessions :
        /\ force[s] = "awaiting" => td[s] # "none"
        /\ force[s] \in {"done", "cancelled"} => td[s] \in Ended

LastInv ==
    /\ phase \in {"forcing", "timed_out"} => active \subseteq snapshot
    /\ phase = "timed_out" => \A s \in snapshot : force[s] \in {"awaiting", "done", "cancelled"}
    /\ phase \in Drained => \A s \in Sessions : chan[s] # "none" => td[s] \in Ended
    /\ phase = "sweeping" => \A u \in Usernames : byName[u] # None => <<u, byName[u]>> \in sweep
    /\ phase = "stopped" => \A u \in Usernames : byName[u] = None

(* A teardown that has ended stays so, a session comes only by connecting, *)
(* and a room comes into the registry only from a pause.                   *)
LEMMA EndsStay ==
    ASSUME TypeOK, ForcedInv, [Next]_vars
    PROVE  /\ ForcedInv'
           /\ \A s \in Sessions :
                /\ td[s] \in Ended => td'[s] = td[s]
                /\ force[s] \in {"awaiting", "done", "cancelled"} => force'[s] \in {"awaiting", "done", "cancelled"}
                /\ force[s] = "done" => force'[s] = "done"
                /\ s \in active' => s \in active \/ (chan[s] = "none" /\ chan'[s] # "none")
           /\ \A u \in Usernames : byName'[u] \in {byName[u], None} \/ \E s \in Sessions : td[s] = "pausing"
<1> USE DEF TypeOK, ForcedInv, chanVars, activeVars, keptVars, Ended, Released
<1> DEFINE Goal ==
      /\ ForcedInv'
      /\ \A s \in Sessions :
           /\ td[s] \in Ended => td'[s] = td[s]
           /\ force[s] \in {"awaiting", "done", "cancelled"} => force'[s] \in {"awaiting", "done", "cancelled"}
           /\ force[s] = "done" => force'[s] = "done"
           /\ s \in active' => s \in active \/ (chan[s] = "none" /\ chan'[s] # "none")
      /\ \A u \in Usernames : byName'[u] \in {byName[u], None} \/ \E s \in Sessions : td[s] = "pausing"
<1>1. ASSUME NEW s \in Sessions, ConnectionMade(s) PROVE Goal
  BY <1>1 DEF ConnectionMade, Add
<1>2. ASSUME NEW s \in Sessions, SessionStarted(s) PROVE Goal
  BY <1>2 DEF SessionStarted
<1>3. ASSUME NEW s \in Sessions, Mute(s) PROVE Goal
  BY <1>3 DEF Mute
<1>4. ASSUME NEW s \in Sessions, ConnectionLost(s) PROVE Goal
  <2>1. PICK o \in CancelOutcomes(s) :
          /\ td' = [td EXCEPT ![s] = BeginTeardown(IF pump[s] \in Awaiting \/ watchdog[s] = "awaiting"
                                                   THEN CancelledTeardown(s, o) ELSE td[s], TRUE)]
          /\ active' \subseteq active
    BY <1>4 DEF ConnectionLost, Discard
  <2>2. (td[s] \in Ended => td'[s] = td[s]) /\ (td[s] # "none" => td'[s] # "none")
    BY <2>1 DEF CancelledTeardown, BeginTeardown
  <2>3. UNCHANGED <<force, byName>> /\ chan[s] # "none" /\ chan' = [chan EXCEPT ![s] = "lost"]
    BY <1>4 DEF ConnectionLost
  <2> QED BY <2>1, <2>2, <2>3
<1>5. ASSUME NEW s \in Sessions, RunPump(s) PROVE Goal
  BY <1>5 DEF RunPump, Take, KeptFor
<1>6. ASSUME NEW s \in Sessions, Opened(s) PROVE Goal
  BY <1>6 DEF Opened
<1>7. ASSUME NEW s \in Sessions, OpenFails(s) PROVE Goal
  BY <1>7 DEF OpenFails
<1>8. ASSUME NEW s \in Sessions, ResumeFails(s) PROVE Goal
  BY <1>8 DEF ResumeFails
<1>9. ASSUME NEW s \in Sessions, Refuse(s) PROVE Goal
  BY <1>9 DEF Refuse, Exit
<1>10. ASSUME NEW s \in Sessions, LateDone(s) PROVE Goal
  BY <1>10 DEF LateDone
<1>11. ASSUME NEW s \in Sessions, Goodbye(s) PROVE Goal
  BY <1>11 DEF Goodbye, Exit
<1>12. ASSUME NEW s \in Sessions, RunTeardown(s) PROVE Goal
  BY <1>12 DEF RunTeardown, Release, Discard
<1>13. ASSUME NEW s \in Sessions, Keep(s) PROVE Goal
  BY <1>13 DEF Keep, Release, Discard
<1>14. ASSUME NEW s \in Sessions, PauseFails(s) PROVE Goal
  BY <1>14 DEF PauseFails
<1>15. ASSUME NEW s \in Sessions, CheckedOut(s) PROVE Goal
  BY <1>15 DEF CheckedOut, Release, Discard
<1>16. ASSUME NEW s \in Sessions, IdleCloses(s) PROVE Goal
  BY <1>16 DEF IdleCloses, Exit
<1>17. ASSUME NEW s \in Sessions, ForceCloses(s) PROVE Goal
  BY <1>17 DEF ForceCloses, Exit, TeardownOver
<1>18. ASSUME NEW s \in Sessions, BoxPaused(s) PROVE Goal
  BY <1>18 DEF BoxPaused, BoxStep
<1>19. ASSUME NEW s \in Sessions, BoxDestroyed(s) PROVE Goal
  BY <1>19 DEF BoxDestroyed, BoxStep
<1>20. ASSUME NEW s \in Sessions, BoxOpened(s) PROVE Goal
  BY <1>20 DEF BoxOpened, BoxStep
<1>21. ASSUME NEW s \in Sessions, ReadEnds(s) PROVE Goal
  BY <1>21 DEF ReadEnds, BeginTeardown
<1>22. ASSUME NEW s \in Sessions, IdleFires(s) PROVE Goal
  BY <1>22 DEF IdleFires, BeginTeardown
<1>23. ASSUME NEW s \in Sessions, Expire(s) PROVE Goal
  BY <1>23 DEF Expire
<1>24. ASSUME NEW s \in Sessions, ForceClose(s) PROVE Goal
  BY <1>24 DEF ForceClose, BeginTeardown
<1>25. ASSUME NEW s \in Sessions, CancelForce(s) PROVE Goal
  <2>1. PICK o \in CancelOutcomes(s) :
          /\ force' = [force EXCEPT ![s] = IF SurvivesCancel(s, o) THEN force[s] ELSE "cancelled"]
          /\ td' = [td EXCEPT ![s] = CancelledTeardown(s, o)]
          /\ active' \subseteq active
    BY <1>25 DEF CancelForce, Discard
  <2>2. force[s] = "awaiting" /\ td[s] \in {"pausing", "destroying"} /\ UNCHANGED <<chan, byName>>
    BY <1>25 DEF CancelForce
  <2>3. CancelledTeardown(s, o) # "none" /\ (~SurvivesCancel(s, o) => CancelledTeardown(s, o) \in Ended)
    BY <2>2 DEF CancelledTeardown, SurvivesCancel
  <2> QED BY <2>1, <2>2, <2>3
<1>26. ASSUME NEW u \in Usernames, Sweep(u) PROVE Goal
  BY <1>26 DEF Sweep
<1>27. CASE CancelAll
  <2>1. PICK o \in [Sessions -> {"swallowed", "finishes", "stranded"}] :
          /\ force' = [s \in Sessions |->
                         IF force[s] = "awaiting" /\ ~SurvivesCancel(s, o[s]) THEN "cancelled" ELSE force[s]]
          /\ td' = [s \in Sessions |->
                      IF td[s] = "none" /\ pump[s] = "reading" THEN "begun" ELSE CancelledTeardown(s, o[s])]
          /\ active' \subseteq active
    BY <1>27 DEF CancelAll, Discard
  <2>2. \A s \in Sessions :
          /\ td[s] \in Ended => td'[s] = td[s]
          /\ td[s] # "none" /\ ~SurvivesCancel(s, o[s]) => td'[s] \in Ended
          /\ td[s] # "none" => td'[s] # "none"
    BY <2>1 DEF CancelledTeardown, SurvivesCancel, TeardownState
  <2>3. UNCHANGED <<chan, byName>>
    BY <1>27 DEF CancelAll
  <2> QED BY <2>1, <2>2, <2>3
<1>28. CASE LoopStops
  BY <1>28 DEF LoopStops
<1>29. CASE UNCHANGED vars
  BY <1>29 DEF vars
<1> QED
  BY <1>1, <1>2, <1>3, <1>4, <1>5, <1>6, <1>7, <1>8, <1>9, <1>10, <1>11, <1>12, <1>13, <1>14,
     <1>15, <1>16, <1>17, <1>18, <1>19, <1>20, <1>21, <1>22, <1>23, <1>24, <1>25, <1>26, <1>27,
     <1>28, <1>29
  DEF Next, SessionNext, Channel, PumpStep, TeardownStep, CloserStep, BoxEnds, Stopped

(* What a force_close that is over has behind it.                          *)
LEMMA Forced == Spec => []ForcedInv
<1>1. Init => ForcedInv
  BY DEF Init, ForcedInv
<1>2. TypeOK /\ ForcedInv /\ [Next]_vars => ForcedInv'
  BY EndsStay
<1> QED BY <1>1, <1>2, TypeCorrect, PTL DEF Spec

(* The force_close calls that the time limit cancels had been made, and a  *)
(* drain that goes on does so past ended teardowns.                        *)
OutwaitInv ==
    /\ phase = "timed_out" => \A s \in snapshot : force[s] \in {"awaiting", "done", "cancelled"}
    /\ DrainOutwaitsTeardowns

(* Every step of a shutdown keeps it so.                                   *)
LEMMA NextOutwait ==
    ASSUME ShutdownTypeOK, ForcedInv, OutwaitInv, [ShutdownNext]_allVars PROVE OutwaitInv'
<1>1. \A s \in Sessions :
        /\ td[s] \in Ended => td'[s] = td[s]
        /\ force[s] \in {"awaiting", "done", "cancelled"} => force'[s] \in {"awaiting", "done", "cancelled"}
        /\ force[s] \in {"done", "cancelled"} => td[s] \in Ended
  BY EndsStay, ServeStepIsStep DEF ShutdownTypeOK, ForcedInv
<1>2. snapshot \subseteq Sessions
  BY DEF ShutdownTypeOK
<1> USE <1>1, <1>2 DEF OutwaitInv, DrainOutwaitsTeardowns
<1>3. ASSUME UNCHANGED <<phase, snapshot>> PROVE OutwaitInv'
  BY <1>3
<1>4. ASSUME UNCHANGED td, phase' = "closing", \A s \in snapshot' : force[s] \in {"done", "cancelled"}, snapshot' \subseteq Sessions
      PROVE  OutwaitInv'
  BY <1>4
<1>5. CASE Signal \/ GraceEnds
  <2>1. /\ phase' \in {"closing", "grace", "forcing", "aborted"}
        /\ phase' = "closing" => snapshot' = {}
    BY <1>5 DEF Signal, GraceEnds
  <2> QED BY <2>1
<1>6. CASE ForcingEnds
  <2>1. phase' = "aborted" \/ (phase' = "closing" /\ Gathered)
    BY <1>6 DEF ForcingEnds
  <2>2. UNCHANGED <<td, snapshot>>
    BY <1>6 DEF ForcingEnds, vars
  <2>3. CASE phase' = "aborted"
    BY <2>3
  <2>4. CASE phase' = "closing" /\ Gathered
    BY <1>4, <2>2, <2>4 DEF Gathered
  <2> QED BY <2>1, <2>3, <2>4
<1>7. CASE ForcingTimesOut
  <2>1. /\ phase' = "timed_out" /\ UNCHANGED <<snapshot, force>>
        /\ \A s \in snapshot : force[s] \notin {"none", "failed"}
    BY <1>7 DEF ForcingTimesOut, GatherRaises, vars
  <2>2. \A s \in snapshot : force[s] \in {"awaiting", "done", "cancelled"}
    BY <2>1 DEF ShutdownTypeOK, TypeOK
  <2> QED BY <2>1, <2>2
<1>8. CASE TimedOutEnds
  <2>1. /\ phase = "timed_out" /\ phase' = "closing" /\ UNCHANGED <<td, snapshot>>
        /\ \A s \in snapshot : force[s] # "awaiting"
    BY <1>8 DEF TimedOutEnds, vars
  <2> QED BY <1>4, <2>1
<1>9. CASE StartSweep \/ ServeReturns
  <2>1. phase \in {"closing", "sweeping"} /\ phase' \in {"sweeping", "stopped"} /\ UNCHANGED <<td, snapshot>>
    BY <1>9 DEF StartSweep, ServeReturns, vars
  <2> QED BY <2>1
<1>10. CASE SweptOne \/ RunEnds \/ UNCHANGED serveVars \/ UNCHANGED allVars
  BY <1>3, <1>10 DEF SweptOne, RunEnds, serveVars, allVars
<1>11. ASSUME NEW u \in Usernames, NEW k \in Sessions, SweepNext(u, k) PROVE OutwaitInv'
  BY <1>3, <1>11 DEF SweepNext
<1>12. ASSUME NEW s \in Sessions, SessionGoesOn(s) \/ DrainForces(s) \/ DrainCancels(s) PROVE OutwaitInv'
  BY <1>3, <1>12 DEF SessionGoesOn, DrainForces, DrainCancels, serveVars
<1> QED BY <1>5, <1>6, <1>7, <1>8, <1>9, <1>10, <1>11, <1>12 DEF ShutdownNext, ServeStep

(* Whatever the clients do and however slow the backend is, a _drain that  *)
(* goes on to the sweep leaves no teardown running: its time limit cancels *)
(* what force_close awaits, and a teardown that swallows the cancellation  *)
(* is waited for (_drain, asyncio.wait_for).                               *)
THEOREM NoneRunsOn == ShutdownSpec => []DrainOutwaitsTeardowns
<1>1. ShutdownInit => OutwaitInv
  BY DEF ShutdownInit, OutwaitInv, DrainOutwaitsTeardowns
<1>2. ShutdownTypeOK /\ ForcedInv /\ OutwaitInv /\ [ShutdownNext]_allVars => OutwaitInv'
  BY NextOutwait
<1>3. OutwaitInv => DrainOutwaitsTeardowns
  BY DEF OutwaitInv
<1> QED BY <1>1, <1>2, <1>3, ShutdownTypeCorrect, ShutdownKeepsSessions, Forced, PTL DEF ShutdownSpec

(* A session's step touches no channel but its own, which opens once.      *)
LEMMA SessionKeepsOthers ==
    ASSUME TypeOK, NEW s \in Sessions, SessionNext(s)
    PROVE  chan' = [chan EXCEPT ![s] = chan'[s]] /\ (chan[s] = "none" => chan'[s] \in {"none", "open"})
<1> USE DEF TypeOK, chanVars
<1>1. CASE Channel(s)
  BY <1>1 DEF Channel, ConnectionMade, SessionStarted, Mute, ConnectionLost
<1>2. CASE PumpStep(s)
  BY <1>2 DEF PumpStep, RunPump, Opened, OpenFails, ResumeFails, Refuse, LateDone, Goodbye, Exit
<1>3. CASE TeardownStep(s)
  BY <1>3 DEF TeardownStep, RunTeardown, Keep, PauseFails, CheckedOut
<1>4. CASE CloserStep(s)
  BY <1>4 DEF CloserStep, IdleCloses, ForceCloses, Exit
<1>5. CASE BoxEnds(s) \/ ReadEnds(s) \/ IdleFires(s) \/ Expire(s)
  BY <1>5 DEF BoxEnds, BoxPaused, BoxDestroyed, BoxOpened, BoxStep, ReadEnds, IdleFires, Expire
<1> QED BY <1>1, <1>2, <1>3, <1>4, <1>5 DEF SessionNext

(* No step of serve() or of a session lets a room in behind the sweep.     *)
LEMMA NextLast ==
    ASSUME "late_session" \notin Late, ShutdownTypeOK, TypeOK, TypeOK', ActiveInv, ForcedInv, LastInv, [ShutdownNext]_allVars
    PROVE  LastInv'
<1>1. /\ \A s \in Sessions :
           /\ td[s] \in Ended => td'[s] = td[s]
           /\ force[s] \in {"awaiting", "done", "cancelled"} => force'[s] \in {"awaiting", "done", "cancelled"}
           /\ s \in active' => s \in active \/ (chan[s] = "none" /\ chan'[s] # "none")
      /\ \A u \in Usernames : byName'[u] \in {byName[u], None} \/ \E s \in Sessions : td[s] = "pausing"
  BY EndsStay, ServeStepIsStep
<1>2. snapshot \subseteq Sessions
  BY DEF ShutdownTypeOK
<1>3. phase \in Drained => \A s \in Sessions : td[s] # "pausing"
  BY DEF LastInv, ActiveInv, Ended, Released
<1>4. ASSUME phase # "serving", NEW x \in Sessions, chan[x] = "none" PROVE chan'[x] = "none"
  <2>1. ASSUME NEW s \in Sessions, SessionGoesOn(s) PROVE chan'[x] = "none"
    <3>1. chan' = [chan EXCEPT ![s] = chan'[s]]
      BY <2>1, SessionKeepsOthers DEF SessionGoesOn
    <3>2. chan'[s] # "open" \/ chan[s] = "open"
      BY <1>4, <2>1 DEF SessionGoesOn
    <3>3. chan[s] = "none" => chan'[s] \in {"none", "open"}
      BY <2>1, SessionKeepsOthers DEF SessionGoesOn
    <3> QED BY <1>4, <3>1, <3>2, <3>3 DEF TypeOK
  <2>2. ASSUME NEW s \in Sessions, DrainForces(s) \/ DrainCancels(s) PROVE chan' = chan
    BY <2>2 DEF DrainForces, DrainCancels, ForceClose, CancelForce, chanVars
  <2>3. ASSUME NEW u \in Usernames, NEW k \in Sessions, SweepNext(u, k) PROVE chan' = chan
    BY <2>3 DEF SweepNext, Sweep, chanVars, vars
  <2>4. CASE Signal \/ ForcingTimesOut \/ GraceEnds \/ ForcingEnds \/ TimedOutEnds \/ StartSweep \/ SweptOne \/ ServeReturns
    BY <1>4, <2>4 DEF Signal, ForcingTimesOut, GraceEnds, ForcingEnds, TimedOutEnds, StartSweep, SweptOne, ServeReturns, vars
  <2>5. CASE RunEnds \/ LoopStops \/ Stopped \/ UNCHANGED allVars
    BY <1>4, <2>5 DEF RunEnds, CancelAll, LoopStops, Stopped, chanVars, vars, allVars
  <2> QED BY <1>4, <2>1, <2>2, <2>3, <2>4, <2>5 DEF ShutdownNext, ServeStep
<1>5. phase # "serving" => active' \subseteq active
  BY <1>1, <1>4 DEF TypeOK
<1>6. ASSUME NEW p \in Drained, phase = p, \A s \in Sessions : chan[s] # "none" => td[s] \in Ended
      PROVE  \A s \in Sessions : chan'[s] # "none" => td'[s] \in Ended
  BY <1>1, <1>4, <1>6 DEF Drained
<1>7. ASSUME UNCHANGED serveVars PROVE LastInv'
  <2>1. UNCHANGED <<phase, snapshot, sweep>>
    BY <1>7 DEF serveVars
  <2>2. phase \in {"forcing", "timed_out"} => active' \subseteq snapshot'
    BY <1>5, <2>1 DEF LastInv
  <2>3. phase = "timed_out" => \A s \in snapshot : force'[s] \in {"awaiting", "done", "cancelled"}
    BY <1>1, <1>2 DEF LastInv
  <2>4. phase \in Drained => \A s \in Sessions : chan'[s] # "none" => td'[s] \in Ended
    BY <1>6 DEF LastInv
  <2>5. phase \in Drained => \A u \in Usernames : byName'[u] \in {byName[u], None}
    BY <1>1, <1>3
  <2> QED BY <2>1, <2>2, <2>3, <2>4, <2>5 DEF LastInv, Drained
<1>8. ASSUME UNCHANGED vars, active = {} \/ \A s \in snapshot : td[s] \in Ended,
             active \subseteq snapshot \/ active = {}
      PROVE  \A s \in Sessions : chan'[s] # "none" => td'[s] \in Ended
  BY <1>8 DEF ActiveInv, Ended, vars
<1>9. CASE Signal \/ GraceEnds
  <2>1. UNCHANGED vars /\ phase' \in {"closing", "forcing", "aborted", "grace"}
        /\ (phase' = "closing" => active = {}) /\ (phase' = "forcing" => snapshot' = active)
    BY <1>9 DEF Signal, GraceEnds
  <2>2. phase' = "closing" => \A s \in Sessions : chan'[s] # "none" => td'[s] \in Ended
    BY <1>8, <2>1
  <2> QED BY <2>1, <2>2 DEF LastInv, Drained, vars
<1>10. CASE ForcingEnds \/ TimedOutEnds
  <2>1. /\ UNCHANGED <<vars, snapshot>> /\ phase' \in {"closing", "aborted"} /\ active \subseteq snapshot
        /\ phase' = "closing" => \A s \in snapshot : force[s] \in {"done", "cancelled"}
    BY <1>10 DEF ForcingEnds, TimedOutEnds, Gathered, LastInv
  <2>2. phase' = "closing" => \A s \in Sessions : chan'[s] # "none" => td'[s] \in Ended
    BY <1>2, <1>8, <2>1 DEF ForcedInv
  <2> QED BY <2>1, <2>2 DEF LastInv, Drained, vars
<1>11. CASE ForcingTimesOut
  <2>1. /\ UNCHANGED <<vars, snapshot>> /\ phase' = "timed_out" /\ active \subseteq snapshot
        /\ \A s \in snapshot : force[s] \notin {"none", "failed", "cancelled"}
    BY <1>11 DEF ForcingTimesOut, GatherRaises, LastInv
  <2>2. \A s \in snapshot : force[s] \in {"awaiting", "done"}
    BY <1>2, <2>1 DEF TypeOK
  <2> QED BY <2>1, <2>2 DEF LastInv, Drained, vars
<1>12. CASE StartSweep
  <2>1. /\ UNCHANGED vars /\ phase = "closing" /\ phase' = "sweeping"
        /\ sweep' = {e \in Usernames \X Sessions : byName[e[1]] = e[2]}
    BY <1>12 DEF StartSweep
  <2>2. \A u \in Usernames : byName'[u] # None => <<u, byName'[u]>> \in sweep'
    BY <2>1 DEF vars, TypeOK
  <2>3. \A s \in Sessions : chan'[s] # "none" => td'[s] \in Ended
    BY <1>6, <2>1 DEF LastInv, Drained
  <2> QED BY <2>1, <2>2, <2>3 DEF LastInv, Drained
<1>13. ASSUME NEW u \in Usernames, NEW k \in Sessions, SweepNext(u, k) PROVE LastInv'
  <2>1. phase = "sweeping" /\ phase' = phase /\ sweep' = sweep \ {<<u, k>>}
    BY <1>13 DEF SweepNext
  <2>2. byName'[u] = None \/ byName'[u] # k
    BY <1>13 DEF SweepNext, Sweep, TypeOK, vars
  <2>3. \A v \in Usernames : byName'[v] \in {byName[v], None}
    BY <1>1, <1>3, <2>1 DEF Drained
  <2>4. \A v \in Usernames : byName'[v] # None => <<v, byName'[v]>> \in sweep'
    BY <2>1, <2>2, <2>3 DEF LastInv
  <2>5. \A s \in Sessions : chan'[s] # "none" => td'[s] \in Ended
    BY <1>6, <2>1 DEF LastInv, Drained
  <2> QED BY <2>1, <2>4, <2>5 DEF LastInv, Drained
<1>14. CASE SweptOne
  BY <1>14 DEF SweptOne, LastInv, Drained, vars
<1>15. CASE ServeReturns
  BY <1>15 DEF ServeReturns, LastInv, Drained, vars
<1>16. ASSUME NEW s \in Sessions, SessionGoesOn(s) \/ DrainForces(s) \/ DrainCancels(s) PROVE UNCHANGED serveVars
  BY <1>16 DEF SessionGoesOn, DrainForces, DrainCancels
<1>17. CASE RunEnds \/ (LoopStops /\ UNCHANGED serveVars) \/ (Stopped /\ UNCHANGED serveVars) \/ UNCHANGED allVars
  BY <1>7, <1>17 DEF RunEnds, allVars, serveVars
<1> QED BY <1>7, <1>9, <1>10, <1>11, <1>12, <1>13, <1>14, <1>15, <1>16, <1>17 DEF ShutdownNext, ServeStep

(* Closing first and sweeping after it is the right order, whatever hangs  *)
(* up, raises or runs out of time: when serve() returns no room is         *)
(* registered, and none is on its way to the registry.  Only a session     *)
(* that comes while the drain is closing the others gets in behind it (TLC *)
(* finds it).                                                              *)
THEOREM SweepMissesNone ==
    ASSUME "late_session" \notin Late
    PROVE  ShutdownSpec => []SweepSeesEveryRoom
<1>1. ShutdownInit => LastInv
  BY DEF ShutdownInit, Init, LastInv, Drained
<1>2. ShutdownTypeOK /\ TypeOK /\ TypeOK' /\ ActiveInv /\ ForcedInv /\ LastInv /\ [ShutdownNext]_allVars
        => LastInv'
  BY NextLast
<1>3. ActiveInv /\ LastInv => SweepSeesEveryRoom
  BY DEF ActiveInv, LastInv, SweepSeesEveryRoom, Drained, Ended, Released
<1> QED BY <1>1, <1>2, <1>3, ShutdownTypeCorrect, ShutdownKeepsSessions, TypeCorrect, Outcomes, Forced, PTL
        DEF ShutdownSpec
=============================================================================
