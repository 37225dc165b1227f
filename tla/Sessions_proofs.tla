--------------------------- MODULE Sessions_proofs --------------------------
(***************************************************************************)
(* Proofs about Sessions, for any number of sessions and usernames and any *)
(* choice of the environment's events.                                     *)
(***************************************************************************)
EXTENDS Sessions, TLAPS

-----------------------------------------------------------------------------
(* Types.                                                                  *)

(* What a cancellation leaves of a task is a state of that task.           *)
LEMMA CancelTypes ==
    ASSUME TypeOK, NEW s \in Sessions, NEW o
    PROVE  /\ CancelledTeardown(s, o) \in TeardownState
           /\ CancelledPump(s, o) \in PumpState
           /\ CancelledWaiter(watchdog[s], s, o) \in {"none", "sleeping", "awaiting", "done"}
BY DEF TypeOK, CancelledTeardown, CancelledPump, CancelledWaiter, TeardownState,
       PumpState, Ended, Released, Awaiting, PumpEnding

(* _begin_teardown yields a teardown state.                                *)
LEMMA BeginTypes ==
    ASSUME NEW t \in TeardownState, NEW keep \in BOOLEAN
    PROVE  BeginTeardown(t, keep) \in TeardownState
BY DEF BeginTeardown, TeardownState

(* A server that starts is well typed.                                     *)
LEMMA InitType == ASSUME Init PROVE TypeOK
BY SessionsAssumption DEF Init, TypeOK, ChanState, PumpState, TeardownState, BoxState

(* Every step between two awaits keeps the types.                          *)
LEMMA NextType == ASSUME TypeOK, [Next]_vars PROVE TypeOK'
<1> USE SessionsAssumption
<1> USE DEF chanVars, keptVars, activeVars
<1>1. ASSUME NEW s \in Sessions, Channel(s) PROVE TypeOK'
  <2>1. CASE ConnectionMade(s)
    BY <2>1 DEF TypeOK, ConnectionMade, Add, ChanState
  <2>2. CASE SessionStarted(s)
    BY <2>2 DEF TypeOK, SessionStarted, PumpState
  <2>3. CASE Mute(s)
    BY <2>3 DEF TypeOK, Mute, ChanState
  <2>4. CASE ConnectionLost(s)
    <3>1. PICK o \in CancelOutcomes(s) :
            LET cut == pump[s] \in Awaiting \/ watchdog[s] = "awaiting"
                t == IF cut THEN CancelledTeardown(s, o) ELSE td[s]
            IN /\ pump' = [pump EXCEPT ![s] = CancelledPump(s, o)]
               /\ watchdog' = [watchdog EXCEPT ![s] = CancelledWaiter(watchdog[s], s, o)]
               /\ td' = [td EXCEPT ![s] = BeginTeardown(t, TRUE)]
               /\ Discard({x \in {s} : t = "cancelled" /\ td[s] # "cancelled"})
               /\ box' = [r \in Sessions |->
                            IF \/ cut /\ r \in TeardownStrands(s, o)
                               \/ r \in PumpStrands(s, o)
                            THEN "stranded"
                            ELSE IF r \in Unwound(s) THEN "destroying"
                            ELSE box[r]]
      BY <2>4 DEF ConnectionLost
    <3> DEFINE t == IF pump[s] \in Awaiting \/ watchdog[s] = "awaiting"
                    THEN CancelledTeardown(s, o) ELSE td[s]
    <3>2. t \in TeardownState
      BY CancelTypes DEF TypeOK
    <3>3. BeginTeardown(t, TRUE) \in TeardownState
      BY <3>2, BeginTypes
    <3>4. td' \in [Sessions -> TeardownState]
      BY <3>1, <3>3 DEF TypeOK
    <3>5. pump' \in [Sessions -> PumpState] /\ watchdog' \in [Sessions -> {"none", "sleeping", "awaiting", "done"}]
      BY <3>1, CancelTypes DEF TypeOK
    <3>6. active' \subseteq Sessions /\ empty' \in BOOLEAN
      BY <3>1 DEF TypeOK, Discard
    <3>7. box' \in [Sessions -> BoxState]
      BY <3>1 DEF TypeOK, BoxState, Threads
    <3> QED BY <2>4, <3>4, <3>5, <3>6, <3>7 DEF TypeOK, ConnectionLost, ChanState
  <2> QED BY <1>1, <2>1, <2>2, <2>3, <2>4 DEF Channel
<1>2. ASSUME NEW s \in Sessions, PumpStep(s) PROVE TypeOK'
  <2>1. CASE RunPump(s)
    BY <2>1 DEF TypeOK, RunPump, Take, KeptFor, PumpState, BoxState, Threads
  <2>2. CASE Opened(s)
    BY <2>2 DEF TypeOK, Opened, PumpState, PumpEnding, BoxState, Threads
  <2>3. CASE OpenFails(s)
    BY <2>3 DEF TypeOK, OpenFails, PumpState, PumpEnding, BoxState, Threads
  <2>4. CASE ResumeFails(s)
    BY <2>4 DEF TypeOK, ResumeFails, PumpState, PumpEnding, BoxState, Threads
  <2>5. CASE Refuse(s)
    BY <2>5 DEF TypeOK, Refuse, Exit, PumpState, ChanState, ExitStatus
  <2>6. CASE LateDone(s)
    BY <2>6 DEF TypeOK, LateDone, PumpState
  <2>7. CASE Goodbye(s)
    BY <2>7 DEF TypeOK, Goodbye, Exit, PumpState, ChanState, ExitStatus
  <2> QED BY <1>2, <2>1, <2>2, <2>3, <2>4, <2>5, <2>6, <2>7 DEF PumpStep
<1>3. ASSUME NEW s \in Sessions, TeardownStep(s) PROVE TypeOK'
  <2>1. CASE RunTeardown(s)
    BY <2>1 DEF TypeOK, RunTeardown, Release, Discard, TeardownState, Ended, Released, BoxState, Threads
  <2>2. CASE Keep(s)
    BY <2>2 DEF TypeOK, Keep, Release, Discard, TeardownState, Ended, Released
  <2>3. CASE PauseFails(s)
    BY <2>3 DEF TypeOK, PauseFails, TeardownState, BoxState, Threads
  <2>4. CASE CheckedOut(s)
    BY <2>4 DEF TypeOK, CheckedOut, Release, Discard, TeardownState, Ended, Released
  <2> QED BY <1>3, <2>1, <2>2, <2>3, <2>4 DEF TeardownStep
<1>4. ASSUME NEW s \in Sessions, CloserStep(s) PROVE TypeOK'
  <2>1. CASE IdleCloses(s)
    BY <2>1 DEF TypeOK, IdleCloses, Exit, ChanState, ExitStatus
  <2>2. CASE ForceCloses(s)
    BY <2>2 DEF TypeOK, ForceCloses, Exit, ChanState, ExitStatus
  <2> QED BY <1>4, <2>1, <2>2 DEF CloserStep
<1>5. ASSUME NEW s \in Sessions, BoxEnds(s) PROVE TypeOK'
  BY <1>5 DEF TypeOK, BoxEnds, BoxPaused, BoxDestroyed, BoxOpened, BoxStep, BoxState
<1>6. ASSUME NEW s \in Sessions, ReadEnds(s) PROVE TypeOK'
  <2>1. BeginTeardown(td[s], FALSE) \in TeardownState
    BY BeginTypes DEF TypeOK
  <2> QED BY <1>6, <2>1 DEF TypeOK, ReadEnds, PumpState, Awaiting
<1>7. ASSUME NEW s \in Sessions, IdleFires(s) \/ ForceClose(s) PROVE TypeOK'
  <2>1. BeginTeardown(td[s], FALSE) \in TeardownState
    BY BeginTypes DEF TypeOK
  <2>2. CASE IdleFires(s)
    <3>1. td' \in [Sessions -> TeardownState]
      BY <2>1, <2>2 DEF TypeOK, IdleFires
    <3>2. watchdog' \in [Sessions -> {"none", "sleeping", "awaiting", "done"}]
      <4>1. \/ watchdog' = [watchdog EXCEPT ![s] = "done"]
            \/ watchdog' = [watchdog EXCEPT ![s] = "awaiting"]
        BY <2>2 DEF IdleFires
      <4> QED BY <4>1 DEF TypeOK
    <3> QED BY <2>2, <3>1, <3>2 DEF TypeOK, IdleFires
  <2>3. CASE ForceClose(s)
    <3>1. td' \in [Sessions -> TeardownState]
      BY <2>1, <2>3 DEF TypeOK, ForceClose
    <3>2. force' \in [Sessions -> {"none", "awaiting", "done", "failed", "cancelled"}]
      BY <2>3 DEF TypeOK, ForceClose
    <3> QED BY <2>3, <3>1, <3>2 DEF TypeOK, ForceClose
  <2> QED BY <1>7, <2>2, <2>3
<1>8. ASSUME NEW s \in Sessions, Expire(s) PROVE TypeOK'
  BY <1>8 DEF TypeOK, Expire, BoxState, Threads
<1>9. ASSUME NEW s \in Sessions, CancelForce(s) PROVE TypeOK'
  BY <1>9, CancelTypes DEF TypeOK, CancelForce, Discard, BoxState
<1>10. ASSUME NEW u \in Usernames, Sweep(u) PROVE TypeOK'
  BY <1>10 DEF TypeOK, Sweep, BoxState, Threads
<1>11. CASE CancelAll
  <2>1. PICK o \in [Sessions -> {"swallowed", "finishes", "stranded"}] :
          /\ pump' = [s \in Sessions |->
                        IF pump[s] = "reading" /\ td[s] = "none" THEN "await_ours"
                        ELSE CancelledPump(s, o[s])]
          /\ watchdog' = [s \in Sessions |-> CancelledWaiter(watchdog[s], s, o[s])]
          /\ force' = [s \in Sessions |->
                         IF force[s] = "awaiting" /\ ~SurvivesCancel(s, o[s])
                         THEN "cancelled" ELSE force[s]]
          /\ td' = [s \in Sessions |->
                      IF td[s] = "none" /\ pump[s] = "reading" THEN "begun"
                      ELSE CancelledTeardown(s, o[s])]
          /\ Discard({s \in Sessions : td[s] # "cancelled"
                                       /\ CancelledTeardown(s, o[s]) = "cancelled"})
          /\ box' = [r \in Sessions |->
                       IF \E s \in Sessions : r \in TeardownStrands(s, o[s]) \cup PumpStrands(s, o[s])
                       THEN "stranded"
                       ELSE IF \E s \in Sessions : r \in Unwound(s) THEN "destroying"
                       ELSE box[r]]
    BY <1>11 DEF CancelAll
  <2>2. pump' \in [Sessions -> PumpState] /\ watchdog' \in [Sessions -> {"none", "sleeping", "awaiting", "done"}]
    BY <2>1, CancelTypes DEF TypeOK, PumpState, Awaiting
  <2>3. td' \in [Sessions -> TeardownState]
    BY <2>1, CancelTypes DEF TypeOK, TeardownState
  <2>4. force' \in [Sessions -> {"none", "awaiting", "done", "failed", "cancelled"}]
    BY <2>1 DEF TypeOK
  <2>5. active' \subseteq Sessions /\ empty' \in BOOLEAN
    BY <2>1 DEF TypeOK, Discard
  <2>6. box' \in [Sessions -> BoxState]
    BY <2>1 DEF TypeOK, BoxState, Threads
  <2>7. expiry' \in [Sessions -> {"none", "sleeping", "done", "cancelled"}]
    BY <1>11 DEF TypeOK, CancelAll
  <2> QED BY <1>11, <2>2, <2>3, <2>4, <2>5, <2>6, <2>7 DEF TypeOK, CancelAll
<1>12. CASE LoopStops
  BY <1>12 DEF TypeOK, LoopStops
<1>13. CASE UNCHANGED vars
  BY <1>13 DEF TypeOK, vars
<1> QED
  BY <1>1, <1>2, <1>3, <1>4, <1>5, <1>6, <1>7, <1>8, <1>9, <1>10, <1>11, <1>12, <1>13
  DEF Next, SessionNext, Stopped

(* Every variable keeps its type, whatever the sessions, the users and the *)
(* environment do: the tasks of session.py are always in one of the states *)
(* the model names.                                                        *)
THEOREM TypeCorrect == Spec => []TypeOK
<1>1. Init => TypeOK
  BY InitType
<1>2. TypeOK /\ [Next]_vars => TypeOK'
  BY NextType
<1> QED BY <1>1, <1>2, PTL DEF Spec

-----------------------------------------------------------------------------
(***************************************************************************)
(* The inductive invariant.  SingleOwner alone is not inductive: a session *)
(* that opens a room becomes its holder because nobody can hold a sandbox  *)
(* that does not exist yet, and a resuming session takes over a room that  *)
(* the registry alone holds.  So the state of each box is tied to whoever  *)
(* holds it, and a box is absent until its session's pump has started.     *)
(***************************************************************************)
Exclusive ==
    \A r, s, t \in Sessions :
        /\ SessionHas(s, r) /\ SessionHas(t, r) => s = t
        /\ PumpHas(s, r) /\ PumpHas(t, r) => s = t
        /\ TeardownHas(s, r) /\ TeardownHas(t, r) => s = t
        /\ RegistryHas(s, r) /\ RegistryHas(t, r) => s = t
        /\ ~(SessionHas(s, r) /\ PumpHas(t, r))
        /\ ~(SessionHas(s, r) /\ TeardownHas(t, r))
        /\ ~(SessionHas(s, r) /\ RegistryHas(t, r))
        /\ ~(PumpHas(s, r) /\ TeardownHas(t, r))
        /\ ~(PumpHas(s, r) /\ RegistryHas(t, r))
        /\ ~(TeardownHas(s, r) /\ RegistryHas(t, r))

SessionInv ==
    \A s \in Sessions : room[s] # None => box[room[s]] = "live" /\ User[room[s]] = User[s]

PumpInv ==
    \A s \in Sessions :
        /\ pump[s] \in {"none", "created"} => box[s] = "absent"
        /\ pump[s] \in {"opening", "resuming"} =>
             mine[s] # None /\ box[mine[s]] = pump[s] /\ User[mine[s]] = User[s]
        /\ pump[s] \in PumpEnding =>
             /\ mine[s] # None /\ User[mine[s]] = User[s]
             /\ box[mine[s]] \in {"destroying", "gone", "live", "stranded"}

TeardownInv ==
    \A s \in Sessions :
        /\ td[s] = "pausing" =>
             /\ tdRoom[s] # None /\ User[tdRoom[s]] = User[s]
             /\ box[tdRoom[s]] \in {"pausing", "paused"}
        /\ td[s] = "destroying" =>
             /\ tdRoom[s] # None /\ User[tdRoom[s]] = User[s]
             /\ box[tdRoom[s]] \in {"destroying", "gone"}

RegistryInv ==
    \A u \in Usernames : byName[u] # None =>
        /\ td[byName[u]] = "kept" /\ User[byName[u]] = u
        /\ tdRoom[byName[u]] # None
        /\ User[tdRoom[byName[u]]] = u
        /\ box[tdRoom[byName[u]]] = "paused"

IInv == Exclusive /\ SessionInv /\ PumpInv /\ TeardownInv /\ RegistryInv

(* Nobody holds a room when the server starts.                             *)
LEMMA InitIInv == ASSUME Init PROVE IInv
BY SessionsAssumption DEF Init, IInv, Exclusive, SessionInv, PumpInv, TeardownInv, RegistryInv,
   SessionHas, PumpHas, TeardownHas, RegistryHas, PumpEnding

(* Nobody holds a sandbox that does not exist yet.                         *)
LEMMA AbsentUnheld ==
    ASSUME TypeOK, IInv, NEW r \in Sessions, box[r] = "absent", NEW s \in Sessions
    PROVE  ~SessionHas(s, r) /\ ~PumpHas(s, r) /\ ~TeardownHas(s, r) /\ ~RegistryHas(s, r)
BY SessionsAssumption DEF TypeOK, IInv, SessionInv, PumpInv, TeardownInv, RegistryInv,
   SessionHas, PumpHas, TeardownHas, RegistryHas, PumpEnding

(* A registered room is in no other hands.                                 *)
LEMMA RegisteredOnce ==
    ASSUME TypeOK, IInv, NEW u \in Usernames, byName[u] # None,
           NEW v \in Usernames, byName[v] # None, tdRoom[byName[v]] = tdRoom[byName[u]]
    PROVE  v = u
BY SessionsAssumption DEF TypeOK, IInv, Exclusive, RegistryInv, RegistryHas

(* A cancellation takes rooms out of hands and puts none into any: what it *)
(* does to a box, it does to a room whose holder it cancels.               *)
LEMMA CancelStep ==
    ASSUME TypeOK, TypeOK', IInv, UNCHANGED <<mine, room, tdRoom, byName>>,
           \A s \in Sessions :
              \/ pump'[s] = pump[s]
              \/ pump'[s] \in {"done"} \cup Awaiting
              \/ pump[s] = "opening" /\ pump'[s] = "unwinding" /\ box'[mine[s]] = "destroying",
           \A s \in Sessions :
              /\ td'[s] = td[s] \/ td'[s] \notin {"pausing", "destroying"}
              /\ td[s] = "kept" => td'[s] = "kept",
           \A r \in Sessions :
              \/ box'[r] = box[r]
              \/ \E s \in Sessions : TeardownHas(s, r) /\ td'[s] = "cancelled"
              \/ \E s \in Sessions : PumpHas(s, r) /\ pump'[s] = "done"
              \/ \E s \in Sessions : PumpHas(s, r) /\ pump[s] = "opening" /\ pump'[s] = "unwinding"
    PROVE  IInv'
<1> USE SessionsAssumption
<1> USE DEF TypeOK, IInv, Exclusive, SessionInv, PumpInv, TeardownInv, RegistryInv,
            SessionHas, PumpHas, TeardownHas, RegistryHas, PumpEnding, Awaiting
<1>1. \A x \in Sessions :
        /\ pump'[x] \in {"opening", "resuming"} \cup PumpEnding =>
             pump[x] \in {"opening", "resuming"} \cup PumpEnding
        /\ td'[x] \in {"pausing", "destroying"} => td'[x] = td[x]
  OBVIOUS
<1>2. Exclusive'
  <2>1. (\A r, x, y \in Sessions : SessionHas(x, r) /\ SessionHas(y, r) => x = y)'
    BY <1>1
  <2>2. (\A r, x, y \in Sessions : PumpHas(x, r) /\ PumpHas(y, r) => x = y)'
    <3>1. \A r, x \in Sessions : PumpHas(x, r)' => PumpHas(x, r)
      BY <1>1
    <3>2. ASSUME NEW r \in Sessions, NEW x \in Sessions, NEW y \in Sessions, PumpHas(x, r)', PumpHas(y, r)'
          PROVE  x = y
      <4>1. PumpHas(x, r) /\ PumpHas(y, r)
        BY <3>1, <3>2
      <4> QED BY <4>1
    <3> QED BY <3>2
  <2>3. (\A r, x, y \in Sessions : TeardownHas(x, r) /\ TeardownHas(y, r) => x = y)'
    BY <1>1
  <2>4. (\A r, x, y \in Sessions : RegistryHas(x, r) /\ RegistryHas(y, r) => x = y)'
    BY <1>1
  <2>5. (\A r, x, y \in Sessions : ~(SessionHas(x, r) /\ PumpHas(y, r)))'
    BY <1>1
  <2>6. (\A r, x, y \in Sessions : ~(SessionHas(x, r) /\ TeardownHas(y, r)))'
    BY <1>1
  <2>7. (\A r, x, y \in Sessions : ~(SessionHas(x, r) /\ RegistryHas(y, r)))'
    BY <1>1
  <2>8. (\A r, x, y \in Sessions : ~(PumpHas(x, r) /\ TeardownHas(y, r)))'
    BY <1>1
  <2>9. (\A r, x, y \in Sessions : ~(PumpHas(x, r) /\ RegistryHas(y, r)))'
    BY <1>1
  <2>10. (\A r, x, y \in Sessions : ~(TeardownHas(x, r) /\ RegistryHas(y, r)))'
    BY <1>1
  <2> QED BY <2>1, <2>2, <2>3, <2>4, <2>5, <2>6, <2>7, <2>8, <2>9, <2>10
<1>3. ASSUME NEW x \in Sessions, NEW r \in Sessions,
             \/ SessionHas(x, r)
             \/ RegistryHas(x, r)
             \/ TeardownHas(x, r) /\ td'[x] = td[x]
             \/ PumpHas(x, r) /\ pump'[x] = pump[x]
      PROVE  box'[r] = box[r]
  <2>1. ~\E s \in Sessions : TeardownHas(s, r) /\ td'[s] = "cancelled"
    <3> SUFFICES ASSUME NEW s \in Sessions, TeardownHas(s, r), td'[s] = "cancelled" PROVE FALSE
      OBVIOUS
    <3>1. s # x \/ ~(TeardownHas(x, r) /\ td'[x] = td[x])
      OBVIOUS
    <3> QED BY <1>3, <3>1
  <2>2. ~\E s \in Sessions : PumpHas(s, r) /\ pump'[s] = "done"
    <3> SUFFICES ASSUME NEW s \in Sessions, PumpHas(s, r), pump'[s] = "done" PROVE FALSE
      OBVIOUS
    <3>1. s # x \/ ~(PumpHas(x, r) /\ pump'[x] = pump[x])
      OBVIOUS
    <3> QED BY <1>3, <3>1
  <2>3. ~\E s \in Sessions : PumpHas(s, r) /\ pump[s] = "opening" /\ pump'[s] = "unwinding"
    <3> SUFFICES ASSUME NEW s \in Sessions, PumpHas(s, r), pump[s] = "opening", pump'[s] = "unwinding"
                 PROVE FALSE
      OBVIOUS
    <3>1. s # x \/ ~(PumpHas(x, r) /\ pump'[x] = pump[x])
      OBVIOUS
    <3> QED BY <1>3, <3>1
  <2>4. \/ box'[r] = box[r]
        \/ \E s \in Sessions : TeardownHas(s, r) /\ td'[s] = "cancelled"
        \/ \E s \in Sessions : PumpHas(s, r) /\ pump'[s] = "done"
        \/ \E s \in Sessions : PumpHas(s, r) /\ pump[s] = "opening" /\ pump'[s] = "unwinding"
    OBVIOUS
  <2> HIDE DEF TeardownHas, PumpHas
  <2> QED BY ONLY <2>1, <2>2, <2>3, <2>4
<1>4. SessionInv'
  BY <1>3
<1>5. PumpInv'
  <2>1. ASSUME NEW s \in Sessions, pump'[s] \in {"none", "created"} PROVE box'[s] = "absent"
    <3>1. pump[s] = pump'[s] /\ box[s] = "absent"
      BY <2>1
    <3>2. \A x \in Sessions : ~TeardownHas(x, s) /\ ~PumpHas(x, s)
      BY <3>1, AbsentUnheld
    <3> QED BY <3>1, <3>2
  <2>2. ASSUME NEW s \in Sessions, pump'[s] \in {"opening", "resuming"} \cup PumpEnding, pump'[s] = pump[s]
        PROVE  box'[mine[s]] = box[mine[s]]
    BY <2>2, <1>3
  <2>3. ASSUME NEW s \in Sessions, pump'[s] \in {"opening", "resuming"} \cup PumpEnding, pump'[s] # pump[s]
        PROVE  pump[s] = "opening" /\ pump'[s] = "unwinding" /\ box'[mine[s]] = "destroying"
    BY <2>3
  <2> QED BY <2>1, <2>2, <2>3
<1>6. TeardownInv'
  BY <1>1, <1>3
<1>7. RegistryInv'
  BY <1>3
<1> QED BY <1>2, <1>4, <1>5, <1>6, <1>7

(* What a lost connection and the end of the loop do to tasks and rooms.    *)
LEMMA LostEffect ==
    ASSUME NEW s \in Sessions, ConnectionLost(s)
    PROVE  /\ UNCHANGED <<mine, room, tdRoom, byName>>
           /\ \E o \in CancelOutcomes(s) :
                LET cut == pump[s] \in Awaiting \/ watchdog[s] = "awaiting"
                    t == IF cut THEN CancelledTeardown(s, o) ELSE td[s]
                IN /\ pump' = [pump EXCEPT ![s] = CancelledPump(s, o)]
                   /\ td' = [td EXCEPT ![s] = BeginTeardown(t, TRUE)]
                   /\ box' = [r \in Sessions |->
                                IF \/ cut /\ r \in TeardownStrands(s, o)
                                   \/ r \in PumpStrands(s, o)
                                THEN "stranded"
                                ELSE IF r \in Unwound(s) THEN "destroying"
                                ELSE box[r]]
BY DEF ConnectionLost, keptVars

(* The same for the end of asyncio.run, which cancels every session's tasks.*)
LEMMA CancelAllEffect ==
    ASSUME CancelAll
    PROVE  /\ UNCHANGED <<mine, room, tdRoom, byName>>
           /\ \E o \in [Sessions -> {"swallowed", "finishes", "stranded"}] :
                /\ pump' = [s \in Sessions |->
                              IF pump[s] = "reading" /\ td[s] = "none" THEN "await_ours"
                              ELSE CancelledPump(s, o[s])]
                /\ td' = [s \in Sessions |->
                            IF td[s] = "none" /\ pump[s] = "reading" THEN "begun"
                            ELSE CancelledTeardown(s, o[s])]
                /\ box' = [r \in Sessions |->
                             IF \E s \in Sessions : r \in TeardownStrands(s, o[s]) \cup PumpStrands(s, o[s])
                             THEN "stranded"
                             ELSE IF \E s \in Sessions : r \in Unwound(s) THEN "destroying"
                             ELSE box[r]]
BY DEF CancelAll

(* Every step keeps the inductive invariant, action by action.             *)
LEMMA NextIInv == ASSUME TypeOK, TypeOK', IInv, [Next]_vars PROVE IInv'
<1> USE SessionsAssumption
<1> USE DEF chanVars, keptVars, activeVars, TypeOK, IInv, Exclusive, SessionInv, PumpInv, TeardownInv,
            RegistryInv, SessionHas, PumpHas, TeardownHas, RegistryHas, PumpEnding
<1>1. ASSUME NEW s \in Sessions, RunPump(s) PROVE IInv'
  <2>1. Exclusive'
    <3>1. CASE byName[User[s]] = None
      <4>1. box[s] = "absent"
        BY <1>1 DEF RunPump
      <4>2. UNCHANGED <<room, td, tdRoom>> /\ byName' = byName
        BY <1>1, <3>1 DEF RunPump, Take
      <4>3. \A x, r \in Sessions : PumpHas(x, r)' => (PumpHas(x, r) /\ x # s) \/ (x = s /\ r = s)
        BY <1>1, <3>1 DEF RunPump, KeptFor
      <4> QED BY <4>1, <4>2, <4>3, AbsentUnheld
    <3>2. CASE byName[User[s]] # None
      <4>0. byName[User[s]] \in Sessions /\ tdRoom[byName[User[s]]] \in Sessions /\ User[byName[User[s]]] = User[s]
        BY <3>2
      <4>1. (\A r, x, y \in Sessions : SessionHas(x, r) /\ SessionHas(y, r) => x = y)'
        BY <1>1, <3>2, <4>0 DEF RunPump, Take, KeptFor
      <4>2. (\A r, x, y \in Sessions : PumpHas(x, r) /\ PumpHas(y, r) => x = y)'
        BY <1>1, <3>2, <4>0 DEF RunPump, Take, KeptFor
      <4>3. (\A r, x, y \in Sessions : TeardownHas(x, r) /\ TeardownHas(y, r) => x = y)'
        BY <1>1, <3>2, <4>0 DEF RunPump, Take, KeptFor
      <4>4. (\A r, x, y \in Sessions : RegistryHas(x, r) /\ RegistryHas(y, r) => x = y)'
        BY <1>1, <3>2, <4>0 DEF RunPump, Take, KeptFor
      <4>5. (\A r, x, y \in Sessions : ~(SessionHas(x, r) /\ PumpHas(y, r)))'
        BY <1>1, <3>2, <4>0 DEF RunPump, Take, KeptFor
      <4>6. (\A r, x, y \in Sessions : ~(SessionHas(x, r) /\ TeardownHas(y, r)))'
        BY <1>1, <3>2, <4>0 DEF RunPump, Take, KeptFor
      <4>7. (\A r, x, y \in Sessions : ~(SessionHas(x, r) /\ RegistryHas(y, r)))'
        BY <1>1, <3>2, <4>0 DEF RunPump, Take, KeptFor
      <4>8. (\A r, x, y \in Sessions : ~(PumpHas(x, r) /\ TeardownHas(y, r)))'
        BY <1>1, <3>2, <4>0 DEF RunPump, Take, KeptFor
      <4>9. (\A r, x, y \in Sessions : ~(PumpHas(x, r) /\ RegistryHas(y, r)))'
        BY <1>1, <3>2, <4>0 DEF RunPump, Take, KeptFor
      <4>10. (\A r, x, y \in Sessions : ~(TeardownHas(x, r) /\ RegistryHas(y, r)))'
        BY <1>1, <3>2, <4>0 DEF RunPump, Take, KeptFor
      <4> QED BY <4>1, <4>2, <4>3, <4>4, <4>5, <4>6, <4>7, <4>8, <4>9, <4>10
    <3> QED BY <3>1, <3>2
  <2>2. SessionInv'
    BY <1>1 DEF RunPump, Take, KeptFor
  <2>3. PumpInv'
    BY <1>1 DEF RunPump, Take, KeptFor
  <2>4. TeardownInv'
    BY <1>1 DEF RunPump, Take, KeptFor
  <2>5. RegistryInv'
    BY <1>1 DEF RunPump, Take, KeptFor
  <2> QED BY <2>1, <2>2, <2>3, <2>4, <2>5
<1>2. ASSUME NEW s \in Sessions, Opened(s) PROVE IInv'
  <2>1. Exclusive'
    BY <1>2 DEF Opened, SessionEnded
  <2>2. SessionInv'
    <3>1. CASE SessionEnded(s)
      BY <1>2, <3>1 DEF Opened
    <3>2. CASE ~SessionEnded(s)
      <4>1. mine[s] \in Sessions /\ User[mine[s]] = User[s]
        BY <1>2 DEF Opened
      <4>2. room' = [room EXCEPT ![s] = mine[s]] /\ box' = [box EXCEPT ![mine[s]] = "live"]
        BY <1>2, <3>2 DEF Opened
      <4> QED BY <4>1, <4>2
    <3> QED BY <3>1, <3>2
  <2>3. PumpInv'
    BY <1>2 DEF Opened, SessionEnded
  <2>4. TeardownInv'
    BY <1>2 DEF Opened, SessionEnded
  <2>5. RegistryInv'
    BY <1>2 DEF Opened, SessionEnded
  <2> QED BY <2>1, <2>2, <2>3, <2>4, <2>5
<1>3. ASSUME NEW k \in Sessions, Expire(k) PROVE IInv'
  <2>1. Exclusive'
    BY <1>3 DEF Expire, StillKept
  <2>2. SessionInv'
    BY <1>3 DEF Expire, StillKept
  <2>3. PumpInv'
    BY <1>3 DEF Expire, StillKept
  <2>4. TeardownInv'
    BY <1>3 DEF Expire, StillKept
  <2>5. RegistryInv'
    <3>1. CASE StillKept(k)
      <4>1. \A v \in Usernames : byName'[v] # None =>
              byName'[v] = byName[v] /\ tdRoom[byName[v]] # tdRoom[k]
        <5>1. byName' = [byName EXCEPT ![User[k]] = None] /\ byName[User[k]] = k
          BY <1>3, <3>1 DEF Expire, StillKept
        <5> SUFFICES ASSUME NEW v \in Usernames, byName'[v] # None
                     PROVE  byName'[v] = byName[v] /\ tdRoom[byName[v]] # tdRoom[k]
          OBVIOUS
        <5>2. v # User[k] /\ byName'[v] = byName[v]
          BY <5>1
        <5> QED BY <5>1, <5>2, RegisteredOnce
      <4> QED BY <1>3, <3>1, <4>1 DEF Expire
    <3>2. CASE ~StillKept(k)
      BY <1>3, <3>2 DEF Expire
    <3> QED BY <3>1, <3>2
  <2> QED BY <2>1, <2>2, <2>3, <2>4, <2>5
<1>4. ASSUME NEW s \in Sessions, RunTeardown(s) PROVE IInv'
  <2>1. Exclusive'
    BY <1>4 DEF RunTeardown
  <2>2. SessionInv'
    BY <1>4 DEF RunTeardown
  <2>3. PumpInv'
    BY <1>4 DEF RunTeardown
  <2>4. TeardownInv'
    BY <1>4 DEF RunTeardown
  <2>5. RegistryInv'
    BY <1>4 DEF RunTeardown
  <2> QED BY <2>1, <2>2, <2>3, <2>4, <2>5
<1>5. ASSUME NEW s \in Sessions, Keep(s) PROVE IInv'
  BY <1>5 DEF Keep
<1>6. ASSUME NEW s \in Sessions, OpenFails(s) PROVE IInv'
  <2>1. Exclusive'
    BY <1>6 DEF OpenFails
  <2>2. SessionInv'
    BY <1>6 DEF OpenFails
  <2>3. PumpInv'
    BY <1>6 DEF OpenFails
  <2>4. TeardownInv'
    BY <1>6 DEF OpenFails
  <2>5. RegistryInv'
    BY <1>6 DEF OpenFails
  <2> QED BY <2>1, <2>2, <2>3, <2>4, <2>5
<1>7. ASSUME NEW s \in Sessions, ResumeFails(s) PROVE IInv'
  <2>1. Exclusive'
    BY <1>7 DEF ResumeFails
  <2>2. SessionInv'
    BY <1>7 DEF ResumeFails
  <2>3. PumpInv'
    BY <1>7 DEF ResumeFails
  <2>4. TeardownInv'
    BY <1>7 DEF ResumeFails
  <2>5. RegistryInv'
    BY <1>7 DEF ResumeFails
  <2> QED BY <2>1, <2>2, <2>3, <2>4, <2>5
<1>8. ASSUME NEW s \in Sessions, PauseFails(s) PROVE IInv'
  <2>1. Exclusive'
    BY <1>8 DEF PauseFails
  <2>2. SessionInv'
    BY <1>8 DEF PauseFails
  <2>3. PumpInv'
    BY <1>8 DEF PauseFails
  <2>4. TeardownInv'
    BY <1>8 DEF PauseFails
  <2>5. RegistryInv'
    BY <1>8 DEF PauseFails
  <2> QED BY <2>1, <2>2, <2>3, <2>4, <2>5
<1>9. ASSUME NEW u \in Usernames, Sweep(u) PROVE IInv'
  <2>1. Exclusive'
    BY <1>9 DEF Sweep
  <2>2. SessionInv'
    BY <1>9 DEF Sweep
  <2>3. PumpInv'
    BY <1>9 DEF Sweep
  <2>4. TeardownInv'
    BY <1>9 DEF Sweep
  <2>5. RegistryInv'
    BY <1>9 DEF Sweep
  <2> QED BY <2>1, <2>2, <2>3, <2>4, <2>5
<1>10. ASSUME NEW s \in Sessions, BoxPaused(s) PROVE IInv'
  <2>1. Exclusive'
    BY <1>10 DEF BoxPaused, BoxStep
  <2>2. SessionInv'
    BY <1>10 DEF BoxPaused, BoxStep
  <2>3. PumpInv'
    BY <1>10 DEF BoxPaused, BoxStep
  <2>4. TeardownInv'
    BY <1>10 DEF BoxPaused, BoxStep
  <2>5. RegistryInv'
    BY <1>10 DEF BoxPaused, BoxStep
  <2> QED BY <2>1, <2>2, <2>3, <2>4, <2>5
<1>11. ASSUME NEW s \in Sessions, BoxDestroyed(s) PROVE IInv'
  <2>1. Exclusive'
    BY <1>11 DEF BoxDestroyed, BoxStep
  <2>2. SessionInv'
    BY <1>11 DEF BoxDestroyed, BoxStep
  <2>3. PumpInv'
    BY <1>11 DEF BoxDestroyed, BoxStep
  <2>4. TeardownInv'
    BY <1>11 DEF BoxDestroyed, BoxStep
  <2>5. RegistryInv'
    BY <1>11 DEF BoxDestroyed, BoxStep
  <2> QED BY <2>1, <2>2, <2>3, <2>4, <2>5
<1>12. ASSUME NEW s \in Sessions, BoxOpened(s) PROVE IInv'
  <2>1. /\ box[s] \in {"opening", "resuming"}
        /\ box' = [box EXCEPT ![s] = "live"]
        /\ UNCHANGED <<mine, room, tdRoom, byName, pump, td>>
    BY <1>12 DEF BoxOpened, BoxStep
  <2>2. Exclusive' /\ SessionInv' /\ TeardownInv' /\ RegistryInv'
    BY <2>1
  <2>3. PumpInv'
    BY <1>12, <2>1 DEF BoxOpened, Awaited
  <2> QED BY <2>2, <2>3
<1>13. ASSUME NEW s \in Sessions, CancelForce(s) PROVE IInv'
  <2>1. Exclusive'
    BY <1>13 DEF CancelForce, CancelledTeardown, TeardownStrands
  <2>2. SessionInv'
    BY <1>13 DEF CancelForce, CancelledTeardown, TeardownStrands
  <2>3. PumpInv'
    BY <1>13 DEF CancelForce, CancelledTeardown, TeardownStrands
  <2>4. TeardownInv'
    BY <1>13 DEF CancelForce, CancelledTeardown, TeardownStrands
  <2>5. RegistryInv'
    BY <1>13 DEF CancelForce, CancelledTeardown, TeardownStrands
  <2> QED BY <2>1, <2>2, <2>3, <2>4, <2>5
<1>14. ASSUME NEW s \in Sessions, ConnectionLost(s) PROVE IInv'
  <2>1. PICK o \in CancelOutcomes(s) :
          LET cut == pump[s] \in Awaiting \/ watchdog[s] = "awaiting"
              t == IF cut THEN CancelledTeardown(s, o) ELSE td[s]
          IN /\ pump' = [pump EXCEPT ![s] = CancelledPump(s, o)]
             /\ td' = [td EXCEPT ![s] = BeginTeardown(t, TRUE)]
             /\ box' = [r \in Sessions |->
                          IF \/ cut /\ r \in TeardownStrands(s, o)
                             \/ r \in PumpStrands(s, o)
                          THEN "stranded"
                          ELSE IF r \in Unwound(s) THEN "destroying"
                          ELSE box[r]]
    BY <1>14, LostEffect
  <2>2. UNCHANGED <<mine, room, tdRoom, byName>>
    BY <1>14, LostEffect
  <2>3. \A x \in Sessions :
          \/ pump'[x] = pump[x]
          \/ pump'[x] \in {"done"} \cup Awaiting
          \/ pump[x] = "opening" /\ pump'[x] = "unwinding" /\ box'[mine[x]] = "destroying"
    BY <2>1 DEF CancelledPump, Unwound, TeardownStrands, PumpStrands, Awaiting
  <2>4. \A x \in Sessions :
          /\ td'[x] = td[x] \/ td'[x] \notin {"pausing", "destroying"}
          /\ td[x] = "kept" => td'[x] = "kept"
    BY <2>1 DEF CancelledTeardown, BeginTeardown
  <2>5. ASSUME NEW r \in Sessions
        PROVE  \/ box'[r] = box[r]
               \/ \E x \in Sessions : TeardownHas(x, r) /\ td'[x] = "cancelled"
               \/ \E x \in Sessions : PumpHas(x, r) /\ pump'[x] = "done"
               \/ \E x \in Sessions : PumpHas(x, r) /\ pump[x] = "opening" /\ pump'[x] = "unwinding"
    BY <2>1 DEF CancelledPump, Unwound, TeardownStrands, PumpStrands, CancelledTeardown,
                BeginTeardown, Awaiting, SurvivesCancel
  <2> QED BY <2>2, <2>3, <2>4, <2>5, CancelStep
<1>15. CASE CancelAll
  <2>1. PICK o \in [Sessions -> {"swallowed", "finishes", "stranded"}] :
          /\ pump' = [s \in Sessions |->
                        IF pump[s] = "reading" /\ td[s] = "none" THEN "await_ours"
                        ELSE CancelledPump(s, o[s])]
          /\ td' = [s \in Sessions |->
                      IF td[s] = "none" /\ pump[s] = "reading" THEN "begun"
                      ELSE CancelledTeardown(s, o[s])]
          /\ box' = [r \in Sessions |->
                       IF \E s \in Sessions : r \in TeardownStrands(s, o[s]) \cup PumpStrands(s, o[s])
                       THEN "stranded"
                       ELSE IF \E s \in Sessions : r \in Unwound(s) THEN "destroying"
                       ELSE box[r]]
    BY <1>15, CancelAllEffect
  <2>2. UNCHANGED <<mine, room, tdRoom, byName>>
    BY <1>15, CancelAllEffect
  <2>3. ASSUME NEW x \in Sessions
        PROVE  \/ pump'[x] = pump[x]
               \/ pump'[x] \in {"done"} \cup Awaiting
               \/ pump[x] = "opening" /\ pump'[x] = "unwinding" /\ box'[mine[x]] = "destroying"
    <3>1. CASE pump[x] = "opening" /\ ~Docker(x)
      <4>1. mine[x] \in Sessions /\ box[mine[x]] = "opening"
        BY <3>1
      <4>2. mine[x] \in Unwound(x)
        BY <3>1 DEF Unwound
      <4>3. \A s \in Sessions : mine[x] \notin TeardownStrands(s, o[s]) \cup PumpStrands(s, o[s])
        BY <4>1 DEF TeardownStrands, PumpStrands
      <4> QED BY <2>1, <3>1, <4>1, <4>2, <4>3 DEF CancelledPump
    <3>2. CASE ~(pump[x] = "opening" /\ ~Docker(x))
      BY <2>1, <3>2 DEF CancelledPump, Awaiting
    <3> QED BY <3>1, <3>2
  <2>4. \A x \in Sessions :
          /\ td'[x] = td[x] \/ td'[x] \notin {"pausing", "destroying"}
          /\ td[x] = "kept" => td'[x] = "kept"
    BY <2>1 DEF CancelledTeardown
  <2>5. ASSUME NEW r \in Sessions
        PROVE  \/ box'[r] = box[r]
               \/ \E x \in Sessions : TeardownHas(x, r) /\ td'[x] = "cancelled"
               \/ \E x \in Sessions : PumpHas(x, r) /\ pump'[x] = "done"
               \/ \E x \in Sessions : PumpHas(x, r) /\ pump[x] = "opening" /\ pump'[x] = "unwinding"
    <3>1. ASSUME NEW x \in Sessions, r \in TeardownStrands(x, o[x])
          PROVE  TeardownHas(x, r) /\ td'[x] = "cancelled"
      BY <2>1, <3>1 DEF TeardownStrands, CancelledTeardown
    <3>2. ASSUME NEW x \in Sessions, r \in PumpStrands(x, o[x])
          PROVE  PumpHas(x, r) /\ pump'[x] = "done"
      BY <2>1, <3>2 DEF PumpStrands, CancelledPump, Awaiting
    <3>3. ASSUME NEW x \in Sessions, r \in Unwound(x)
          PROVE  PumpHas(x, r) /\ pump[x] = "opening" /\ pump'[x] = "unwinding"
      <4>1. mine[x] = r /\ pump[x] = "opening" /\ ~Docker(x)
        BY <3>3 DEF Unwound
      <4>2. pump'[x] = CancelledPump(x, o[x])
        BY <2>1, <4>1
      <4>3. CancelledPump(x, o[x]) = "unwinding"
        BY <4>1 DEF CancelledPump, Awaiting, SurvivesCancel, Docker
      <4> QED BY <4>1, <4>2, <4>3
    <3> HIDE DEF TeardownHas, PumpHas
    <3> QED BY <2>1, <3>1, <3>2, <3>3
  <2> QED BY <2>2, <2>3, <2>4, <2>5, CancelStep
<1>16. ASSUME NEW s \in Sessions,
              \/ SessionStarted(s) \/ Refuse(s) \/ LateDone(s) \/ Goodbye(s)
       PROVE  IInv'
  <2>1. /\ UNCHANGED <<mine, room, tdRoom, byName, box, td>>
        /\ \/ pump' = [pump EXCEPT ![s] = "done"]
           \/ pump[s] = "none" /\ pump' = [pump EXCEPT ![s] = "created"]
    BY <1>16 DEF SessionStarted, Refuse, LateDone, Goodbye
  <2> QED BY <2>1
<1>17. ASSUME NEW s \in Sessions, ReadEnds(s) \/ IdleFires(s) \/ ForceClose(s) \/ CheckedOut(s)
       PROVE  IInv'
  <2>1. /\ UNCHANGED <<mine, room, tdRoom, byName, box>>
        /\ pump' = pump \/ (pump[s] = "reading" /\ \E a \in Awaiting : pump' = [pump EXCEPT ![s] = a])
        /\ td' = td \/ \E a \in {"begun", "destroyed"} : td[s] # "kept" /\ td' = [td EXCEPT ![s] = a]
    BY <1>17 DEF ReadEnds, IdleFires, ForceClose, CheckedOut, BeginTeardown, Awaiting
  <2> QED BY <2>1 DEF Awaiting
<1>18. CASE UNCHANGED <<mine, room, tdRoom, byName, box, td, pump>>
  BY <1>18
<1>19. ASSUME NEW s \in Sessions,
              ConnectionMade(s) \/ Mute(s) \/ IdleCloses(s) \/ ForceCloses(s)
       PROVE  IInv'
  BY <1>18, <1>19 DEF ConnectionMade, Mute, IdleCloses, ForceCloses
<1>20. CASE LoopStops
  BY <1>18, <1>20 DEF LoopStops
<1>21. CASE UNCHANGED vars
  BY <1>18, <1>21 DEF vars
<1> QED
  BY <1>1, <1>2, <1>3, <1>4, <1>5, <1>6, <1>7, <1>8, <1>9, <1>10, <1>11, <1>12, <1>13, <1>14,
     <1>15, <1>16, <1>17, <1>19, <1>20, <1>21
  DEF Next, SessionNext, Channel, PumpStep, TeardownStep, CloserStep, BoxEnds, Stopped

(* The rooms, their holders and the registry of kept rooms stay in step    *)
(* with the sandboxes: the invariant the theorems below rest on.           *)
THEOREM Invariance == Spec => []IInv
<1>1. Init => IInv
  BY InitIInv
<1>2. TypeOK /\ TypeOK' /\ IInv /\ [Next]_vars => IInv'
  BY NextIInv
<1> QED BY <1>1, <1>2, TypeCorrect, PTL DEF Spec

(* However many sessions log in under however many usernames, and whatever *)
(* hang-ups, failures, timeouts and cancellations race, no two of them     *)
(* ever hold one room: each owner clears its reference before it awaits    *)
(* (session.py, _run_teardown and KeptRooms.take).                         *)
THEOREM OneOwner == Spec => []SingleOwner
<1>1. ASSUME TypeOK, IInv PROVE SingleOwner
  <2> SUFFICES ASSUME NEW r \in Sessions, NEW a \in Holders(r), NEW b \in Holders(r)
               PROVE  a = b
    BY DEF SingleOwner
  <2>1. PICK i, s : /\ a = <<i, s>> /\ s \in Sessions
                    /\ i \in {"session", "pump", "teardown", "kept"}
    BY DEF Holders
  <2>2. PICK j, t : /\ b = <<j, t>> /\ t \in Sessions
                    /\ j \in {"session", "pump", "teardown", "kept"}
    BY DEF Holders
  <2>3. /\ i = "session" => SessionHas(s, r)
        /\ i = "pump" => PumpHas(s, r)
        /\ i = "teardown" => TeardownHas(s, r)
        /\ i = "kept" => RegistryHas(s, r)
    BY <2>1 DEF Holders
  <2>4. /\ j = "session" => SessionHas(t, r)
        /\ j = "pump" => PumpHas(t, r)
        /\ j = "teardown" => TeardownHas(t, r)
        /\ j = "kept" => RegistryHas(t, r)
    BY <2>2 DEF Holders
  <2>5. i = j /\ s = t
    BY <1>1, <2>1, <2>2, <2>3, <2>4 DEF IInv, Exclusive
  <2> QED BY <2>1, <2>2, <2>5
<1> QED BY <1>1, TypeCorrect, Invariance, PTL

(* A session's _room is a live sandbox, a registered room a paused one, and *)
(* a room some task awaits is in the state it awaits: no holder's record of *)
(* its room goes stale.                                                     *)
THEOREM NoStaleRoom == Spec => []HoldersSeeTheirRoom
<1>1. ASSUME TypeOK, IInv PROVE HoldersSeeTheirRoom
  BY <1>1 DEF TypeOK, IInv, SessionInv, PumpInv, TeardownInv, RegistryInv, HoldersSeeTheirRoom
<1> QED BY <1>1, TypeCorrect, Invariance, PTL

(* A room opened for one username never comes into the hands of a session  *)
(* of another, through any chain of keeping and resuming: KeptRooms.take   *)
(* is keyed by the name that authenticated.                                *)
THEOREM NoStranger == Spec => []RoomStaysWithItsName
<1>1. ASSUME TypeOK, IInv PROVE RoomStaysWithItsName
  <2>1. ASSUME NEW r \in Sessions, NEW h \in Holders(r) PROVE User[h[2]] = User[r]
    <3>1. PICK i, s : h = <<i, s>> /\ s \in Sessions
      BY DEF Holders
    <3>2. SessionHas(s, r) \/ PumpHas(s, r) \/ TeardownHas(s, r) \/ RegistryHas(s, r)
      BY <3>1 DEF Holders
    <3>3. User[s] = User[r]
      BY <1>1, <3>1, <3>2, SessionsAssumption
      DEF TypeOK, IInv, SessionInv, PumpInv, TeardownInv, RegistryInv,
          SessionHas, PumpHas, TeardownHas, RegistryHas
    <3> QED BY <3>1, <3>3
  <2>2. \A u \in Usernames : byName[u] # None => User[byName[u]] = u
    BY <1>1 DEF IInv, RegistryInv
  <2> QED BY <2>1, <2>2 DEF RoomStaysWithItsName
<1> QED BY <1>1, TypeCorrect, Invariance, PTL

-----------------------------------------------------------------------------
(***************************************************************************)
(* The drain's view.  ActiveSessions holds the sessions that connected and *)
(* whose teardown has not released them, and its event is set when there   *)
(* is none; a teardown that was cancelled before it ran releases nobody.   *)
(***************************************************************************)
ActiveInv ==
    /\ \A s \in Sessions : s \in active <=> chan[s] # "none" /\ td[s] \notin Released
    /\ empty <=> active = {}
    /\ \A s \in Sessions : chan[s] = "none" =>
         td[s] = "none" /\ pump[s] = "none" /\ watchdog[s] = "none" /\ force[s] = "none"

(***************************************************************************)
(* What has become of a room by the time its client is told.  A hang-up    *)
(* may keep a room, and a client that was refused hangs up too, but then   *)
(* there is no room to keep.                                               *)
(***************************************************************************)
OutcomeInv ==
    \A s \in Sessions :
        /\ td[s] = "empty" => tdRoom[s] = None
        /\ td[s] = "destroyed" => tdRoom[s] # None /\ box[tdRoom[s]] = "gone"
        /\ td[s] = "begun_keep" => chan[s] = "lost" /\ (room[s] # None => exit[s] = None)
        /\ td[s] \in {"pausing", "kept"} =>
             chan[s] = "lost" /\ exit[s] = None /\ tdRoom[s] # None /\ CanPause(tdRoom[s]) /\ KeepEnabled
        /\ room[s] # None => pump[s] \in {"reading", "done"} \cup Awaiting
        /\ exit[s] = "no_room" => room[s] = None /\ pump[s] = "done"
        /\ exit[s] # None => exit[s] = "no_room" \/ td[s] \in {"destroyed", "empty"}

(***************************************************************************)
(* Without the events that NoOrphan does not survive.                      *)
(***************************************************************************)
Sheltered == {"hangup_opening", "hangup_ending", "shared_name", "attach_fails", "slow_destroy"} \cap Env = {}

CollectInv ==
    loop = "running" =>
        /\ \A s \in Sessions : td[s] # "unrun"
        /\ \A s \in Sessions : room[s] # None => mine[s] # None /\ td[s] \in {"none", "begun", "begun_keep"}
        /\ \A s \in Sessions : td[s] = "pausing" => mine[s] # None
        /\ \A s, t \in active : User[s] = User[t] => s = t
        /\ \A s \in active : mine[s] # None => byName[User[s]] = None
        /\ \A s \in Sessions : pump[s] \in {"none", "created"} => mine[s] = None
        /\ \A u \in Usernames : byName[u] # None => expiry[byName[u]] = "sleeping"

(* Nobody is active when the server starts, and nothing has come to an end.*)
LEMMA InitDrain == ASSUME Init PROVE ActiveInv /\ OutcomeInv /\ CollectInv
<1> USE SessionsAssumption DEF Init, Released
<1>1. ActiveInv
  BY DEF ActiveInv
<1>2. OutcomeInv
  BY DEF OutcomeInv, ExitStatus
<1>3. CollectInv
  BY DEF CollectInv
<1> QED BY <1>1, <1>2, <1>3

(* ActiveSessions.discard sets the event when it removes the last one.     *)
LEMMA Discards ==
    ASSUME empty \in BOOLEAN, empty <=> active = {}, NEW S, Discard(S)
    PROVE  active' = active \ S /\ (empty' <=> active' = {})
<1>1. active' = active \ S /\ empty' = (empty \/ (S # {} /\ active \ S = {}))
  BY DEF Discard
<1>2. S = {} => active \ S = active
  OBVIOUS
<1> QED BY <1>1, <1>2

(* Every step keeps the set of active sessions true to their teardowns.    *)
LEMMA NextActiveInv == ASSUME TypeOK, ActiveInv, [Next]_vars PROVE ActiveInv'
<1> USE SessionsAssumption
<1> USE DEF chanVars, keptVars, activeVars, TypeOK, ActiveInv, Released
<1>1. ASSUME NEW s \in Sessions, ConnectionMade(s) PROVE ActiveInv'
  BY <1>1 DEF ConnectionMade, Add
<1>2. ASSUME NEW s \in Sessions, SessionStarted(s) PROVE ActiveInv'
  BY <1>2 DEF SessionStarted
<1>3. ASSUME NEW s \in Sessions, Mute(s) PROVE ActiveInv'
  BY <1>3 DEF Mute
<1>4. ASSUME NEW s \in Sessions, ConnectionLost(s) PROVE ActiveInv'
  <2>1. PICK o \in CancelOutcomes(s) :
          LET cut == pump[s] \in Awaiting \/ watchdog[s] = "awaiting"
              t == IF cut THEN CancelledTeardown(s, o) ELSE td[s]
          IN /\ pump' = [pump EXCEPT ![s] = CancelledPump(s, o)]
             /\ watchdog' = [watchdog EXCEPT ![s] = CancelledWaiter(watchdog[s], s, o)]
             /\ td' = [td EXCEPT ![s] = BeginTeardown(t, TRUE)]
             /\ Discard({x \in {s} : t = "cancelled" /\ td[s] # "cancelled"})
    BY <1>4 DEF ConnectionLost
  <2> DEFINE t == IF pump[s] \in Awaiting \/ watchdog[s] = "awaiting" THEN CancelledTeardown(s, o) ELSE td[s]
             S == {x \in {s} : t = "cancelled" /\ td[s] # "cancelled"}
  <2>2. chan' = [chan EXCEPT ![s] = "lost"] /\ chan[s] # "none" /\ force' = force
    BY <1>4 DEF ConnectionLost
  <2>3. t = td[s] \/ (t \in {"cancelled", "unrun"} /\ td[s] \notin Released)
    BY DEF CancelledTeardown
  <2>4. td' = [td EXCEPT ![s] = BeginTeardown(t, TRUE)] /\ Discard(S)
    BY <2>1
  <2>5. BeginTeardown(t, TRUE) \in Released <=> t \in Released
    BY DEF BeginTeardown
  <2>6. active' = active \ S /\ (empty' <=> active' = {})
    BY <2>4, Discards
  <2>7. \A x \in Sessions : x \in active' <=> chan'[x] # "none" /\ td'[x] \notin Released
    <3> HIDE DEF t
    <3> QED BY <2>2, <2>3, <2>4, <2>5, <2>6
  <2>8. \A x \in Sessions : chan'[x] = "none" =>
          td'[x] = "none" /\ pump'[x] = "none" /\ watchdog'[x] = "none" /\ force'[x] = "none"
    BY <2>1, <2>2
  <2> QED BY <2>6, <2>7, <2>8
<1>5. ASSUME NEW s \in Sessions, RunPump(s) PROVE ActiveInv'
  BY <1>5 DEF RunPump, Take, KeptFor
<1>6. ASSUME NEW s \in Sessions, Opened(s) PROVE ActiveInv'
  BY <1>6 DEF Opened, SessionEnded
<1>7. ASSUME NEW s \in Sessions, OpenFails(s) PROVE ActiveInv'
  BY <1>7 DEF OpenFails
<1>8. ASSUME NEW s \in Sessions, ResumeFails(s) PROVE ActiveInv'
  BY <1>8 DEF ResumeFails
<1>9. ASSUME NEW s \in Sessions, Refuse(s) PROVE ActiveInv'
  BY <1>9 DEF Refuse, Exit
<1>10. ASSUME NEW s \in Sessions, LateDone(s) PROVE ActiveInv'
  BY <1>10 DEF LateDone
<1>11. ASSUME NEW s \in Sessions, Goodbye(s) PROVE ActiveInv'
  <2>1. \A x \in Sessions : chan'[x] = "none" <=> chan[x] = "none"
    BY <1>11 DEF Goodbye, Exit
  <2>2. /\ UNCHANGED <<td, watchdog, force, active, empty>>
        /\ pump[s] # "none" /\ pump' = [pump EXCEPT ![s] = "done"]
    BY <1>11 DEF Goodbye, Awaiting
  <2> QED BY <2>1, <2>2
<1>12. ASSUME NEW s \in Sessions, RunTeardown(s) PROVE ActiveInv'
  <2>1. /\ td[s] \in {"begun", "begun_keep"} /\ UNCHANGED <<chan, pump, watchdog, force>>
        /\ \/ td' = [td EXCEPT ![s] = "empty"] /\ Discard({s})
           \/ \E a \in {"pausing", "destroying"} : td' = [td EXCEPT ![s] = a] /\ UNCHANGED activeVars
    BY <1>12 DEF RunTeardown, Release
  <2>2. CASE td' = [td EXCEPT ![s] = "empty"] /\ Discard({s})
    <3>1. active' = active \ {s} /\ (empty' <=> active' = {})
      BY <2>2, Discards
    <3> QED BY <2>1, <2>2, <3>1
  <2>3. CASE \E a \in {"pausing", "destroying"} : td' = [td EXCEPT ![s] = a] /\ UNCHANGED activeVars
    BY <2>1, <2>3
  <2> QED BY <2>1, <2>2, <2>3
<1>13. ASSUME NEW s \in Sessions, Keep(s) PROVE ActiveInv'
  BY <1>13 DEF Keep, Release, Discard
<1>14. ASSUME NEW s \in Sessions, PauseFails(s) PROVE ActiveInv'
  BY <1>14 DEF PauseFails
<1>15. ASSUME NEW s \in Sessions, CheckedOut(s) PROVE ActiveInv'
  BY <1>15 DEF CheckedOut, Release, Discard
<1>16. ASSUME NEW s \in Sessions, IdleCloses(s) PROVE ActiveInv'
  BY <1>16 DEF IdleCloses, Exit
<1>17. ASSUME NEW s \in Sessions, ForceCloses(s) PROVE ActiveInv'
  BY <1>17 DEF ForceCloses, Exit
<1>18. ASSUME NEW s \in Sessions, BoxPaused(s) PROVE ActiveInv'
  BY <1>18 DEF BoxPaused, BoxStep
<1>19. ASSUME NEW s \in Sessions, BoxDestroyed(s) PROVE ActiveInv'
  BY <1>19 DEF BoxDestroyed, BoxStep
<1>20. ASSUME NEW s \in Sessions, BoxOpened(s) PROVE ActiveInv'
  BY <1>20 DEF BoxOpened, BoxStep
<1>21. ASSUME NEW s \in Sessions, ReadEnds(s) PROVE ActiveInv'
  BY <1>21 DEF ReadEnds, BeginTeardown
<1>22. ASSUME NEW s \in Sessions, IdleFires(s) PROVE ActiveInv'
  BY <1>22 DEF IdleFires, BeginTeardown
<1>23. ASSUME NEW s \in Sessions, Expire(s) PROVE ActiveInv'
  BY <1>23 DEF Expire, StillKept
<1>24. ASSUME NEW s \in Sessions, ForceClose(s) PROVE ActiveInv'
  BY <1>24 DEF ForceClose, BeginTeardown
<1>25. ASSUME NEW s \in Sessions, CancelForce(s) PROVE ActiveInv'
  <2>1. PICK o \in CancelOutcomes(s) :
          /\ force' = [force EXCEPT ![s] = IF SurvivesCancel(s, o) THEN force[s] ELSE "cancelled"]
          /\ td' = [td EXCEPT ![s] = CancelledTeardown(s, o)]
          /\ Discard({x \in {s} : CancelledTeardown(s, o) = "cancelled"})
    BY <1>25 DEF CancelForce
  <2> DEFINE S == {x \in {s} : CancelledTeardown(s, o) = "cancelled"}
  <2>2. td[s] \in {"pausing", "destroying"} /\ UNCHANGED <<chan, pump, watchdog>>
    BY <1>25 DEF CancelForce
  <2>3. CancelledTeardown(s, o) \in {"cancelled", td[s]}
    BY <2>2 DEF CancelledTeardown
  <2>4. active' = active \ S /\ (empty' <=> active' = {})
    BY <2>1, Discards
  <2>5. \A x \in Sessions : x \in active' <=> chan'[x] # "none" /\ td'[x] \notin Released
    BY <2>1, <2>2, <2>3, <2>4
  <2> QED BY <2>1, <2>2, <2>4, <2>5
<1>26. ASSUME NEW u \in Usernames, Sweep(u) PROVE ActiveInv'
  BY <1>26 DEF Sweep
<1>27. CASE CancelAll
  <2>1. PICK o \in [Sessions -> {"swallowed", "finishes", "stranded"}] :
          /\ pump' = [s \in Sessions |->
                        IF pump[s] = "reading" /\ td[s] = "none" THEN "await_ours"
                        ELSE CancelledPump(s, o[s])]
          /\ watchdog' = [s \in Sessions |-> CancelledWaiter(watchdog[s], s, o[s])]
          /\ force' = [s \in Sessions |->
                         IF force[s] = "awaiting" /\ ~SurvivesCancel(s, o[s])
                         THEN "cancelled" ELSE force[s]]
          /\ td' = [s \in Sessions |->
                      IF td[s] = "none" /\ pump[s] = "reading" THEN "begun"
                      ELSE CancelledTeardown(s, o[s])]
          /\ Discard({s \in Sessions : td[s] # "cancelled"
                                       /\ CancelledTeardown(s, o[s]) = "cancelled"})
    BY <1>27 DEF CancelAll
  <2> DEFINE S == {s \in Sessions : td[s] # "cancelled" /\ CancelledTeardown(s, o[s]) = "cancelled"}
  <2>2. chan' = chan
    BY <1>27 DEF CancelAll
  <2>3. \A x \in Sessions :
          \/ CancelledTeardown(x, o[x]) = td[x]
          \/ CancelledTeardown(x, o[x]) \in {"cancelled", "unrun"} /\ td[x] \notin Released \cup {"none"}
    BY DEF CancelledTeardown
  <2>4. active' = active \ S /\ (empty' <=> active' = {})
    BY <2>1, Discards
  <2>5. \A x \in Sessions : td'[x] = CancelledTeardown(x, o[x]) \/ (td[x] = "none" /\ td'[x] = "begun")
    BY <2>1
  <2>6. \A x \in Sessions : x \in active' <=> chan'[x] # "none" /\ td'[x] \notin Released
    <3> SUFFICES ASSUME NEW x \in Sessions PROVE x \in active' <=> chan'[x] # "none" /\ td'[x] \notin Released
      OBVIOUS
    <3>1. td'[x] \in Released <=> td[x] \in Released \/ CancelledTeardown(x, o[x]) = "cancelled"
      BY <2>1, <2>3, <2>5
    <3> QED BY <2>2, <2>3, <2>4, <3>1
  <2>7. \A x \in Sessions : chan'[x] = "none" =>
          td'[x] = "none" /\ pump'[x] = "none" /\ watchdog'[x] = "none" /\ force'[x] = "none"
    BY <2>1, <2>2 DEF CancelledTeardown, CancelledPump, CancelledWaiter
  <2> QED BY <2>4, <2>6, <2>7
<1>28. CASE LoopStops
  BY <1>28 DEF LoopStops
<1>29. CASE UNCHANGED vars
  BY <1>29 DEF vars
<1> QED
  BY <1>1, <1>2, <1>3, <1>4, <1>5, <1>6, <1>7, <1>8, <1>9, <1>10, <1>11, <1>12, <1>13, <1>14,
     <1>15, <1>16, <1>17, <1>18, <1>19, <1>20, <1>21, <1>22, <1>23, <1>24, <1>25, <1>26, <1>27,
     <1>28, <1>29
  DEF Next, SessionNext, Channel, PumpStep, TeardownStep, CloserStep, BoxEnds, Stopped

(* Every step keeps what a client was told true to what became of its room.*)
LEMMA NextOutcomeInv == ASSUME TypeOK, TypeOK', IInv, ActiveInv, OutcomeInv, [Next]_vars PROVE OutcomeInv'
<1> USE SessionsAssumption
<1> USE DEF chanVars, keptVars, activeVars, TypeOK, IInv, SessionInv, PumpInv, TeardownInv, RegistryInv,
            OutcomeInv, Awaiting, PumpEnding
<1>1. ASSUME NEW s \in Sessions, ConnectionMade(s) PROVE OutcomeInv'
  BY <1>1 DEF ConnectionMade, Add
<1>2. ASSUME NEW s \in Sessions, SessionStarted(s) PROVE OutcomeInv'
  BY <1>2 DEF SessionStarted
<1>3. ASSUME NEW s \in Sessions, Mute(s) PROVE OutcomeInv'
  BY <1>3 DEF Mute
<1>4. ASSUME NEW s \in Sessions, ConnectionLost(s) PROVE OutcomeInv'
  <2>1. PICK o \in CancelOutcomes(s) :
          LET cut == pump[s] \in Awaiting \/ watchdog[s] = "awaiting"
              t == IF cut THEN CancelledTeardown(s, o) ELSE td[s]
          IN /\ pump' = [pump EXCEPT ![s] = CancelledPump(s, o)]
             /\ td' = [td EXCEPT ![s] = BeginTeardown(t, TRUE)]
             /\ box' = [r \in Sessions |->
                          IF \/ cut /\ r \in TeardownStrands(s, o)
                             \/ r \in PumpStrands(s, o)
                          THEN "stranded"
                          ELSE IF r \in Unwound(s) THEN "destroying"
                          ELSE box[r]]
    BY <1>4, LostEffect
  <2>2. /\ chan' = [chan EXCEPT ![s] = "lost"] /\ chan[s] # "lost"
        /\ UNCHANGED <<exit, mine, room, tdRoom>>
    BY <1>4 DEF ConnectionLost
  <2>3. \A r \in Sessions : box[r] = "gone" => box'[r] = "gone"
    BY <2>1 DEF TeardownStrands, PumpStrands, Unwound
  <2>4. \/ td'[s] = td[s] /\ td[s] # "none"
        \/ td[s] = "none" /\ td'[s] = "begun_keep"
        \/ td'[s] \in {"cancelled", "unrun"} /\ td[s] \notin {"empty", "destroyed"}
    BY <2>1 DEF CancelledTeardown, BeginTeardown
  <2>5. \A x \in Sessions : x # s => td'[x] = td[x] /\ pump'[x] = pump[x] /\ chan'[x] = chan[x]
    BY <2>1, <2>2
  <2>6. pump[s] \in {"reading", "done"} \cup Awaiting => pump'[s] \in {"done"} \cup Awaiting
    BY <2>1 DEF CancelledPump
  <2>7. pump[s] = "done" => pump'[s] = "done"
    BY <2>1 DEF CancelledPump
  <2>8. chan'[s] = "lost"
    BY <2>2
  <2>9. ASSUME NEW x \in Sessions, td'[x] = "destroyed" PROVE tdRoom[x] # None /\ box'[tdRoom[x]] = "gone"
    BY <2>3, <2>4, <2>5, <2>9
  <2> HIDE DEF IInv, SessionInv, PumpInv, TeardownInv, RegistryInv
  <2> QED BY <2>2, <2>4, <2>5, <2>6, <2>7, <2>8, <2>9
<1>5. ASSUME NEW s \in Sessions, RunPump(s) PROVE OutcomeInv'
  BY <1>5 DEF RunPump, Take, KeptFor
<1>6. ASSUME NEW s \in Sessions, Opened(s) PROVE OutcomeInv'
  BY <1>6 DEF Opened, SessionEnded
<1>7. ASSUME NEW s \in Sessions, OpenFails(s) PROVE OutcomeInv'
  BY <1>7 DEF OpenFails
<1>8. ASSUME NEW s \in Sessions, ResumeFails(s) PROVE OutcomeInv'
  BY <1>8 DEF ResumeFails
<1>9. ASSUME NEW s \in Sessions, Refuse(s) PROVE OutcomeInv'
  BY <1>9 DEF Refuse, Exit
<1>10. ASSUME NEW s \in Sessions, LateDone(s) PROVE OutcomeInv'
  BY <1>10 DEF LateDone
<1>11. ASSUME NEW s \in Sessions, Goodbye(s) PROVE OutcomeInv'
  BY <1>11 DEF Goodbye, Exit
<1>12. ASSUME NEW s \in Sessions, RunTeardown(s) PROVE OutcomeInv'
  BY <1>12 DEF RunTeardown, Release, Discard
<1>13. ASSUME NEW s \in Sessions, Keep(s) PROVE OutcomeInv'
  BY <1>13 DEF Keep, Release, Discard
<1>14. ASSUME NEW s \in Sessions, PauseFails(s) PROVE OutcomeInv'
  BY <1>14 DEF PauseFails
<1>15. ASSUME NEW s \in Sessions, CheckedOut(s) PROVE OutcomeInv'
  BY <1>15 DEF CheckedOut, Release, Discard
<1>16. ASSUME NEW s \in Sessions, IdleCloses(s) PROVE OutcomeInv'
  <2>1. UNCHANGED <<td, tdRoom, box, pump, room>>
    BY <1>16 DEF IdleCloses
  <2>2. \A x \in Sessions : chan[x] = "lost" => chan'[x] = "lost" /\ exit'[x] = exit[x]
    BY <1>16 DEF IdleCloses, Exit
  <2>3. \A x \in Sessions : exit'[x] = exit[x] \/ (exit'[x] = "idle" /\ td[x] \in {"empty", "destroyed"})
    BY <1>16 DEF IdleCloses, Exit, TeardownOver, Ended, Released
  <2> HIDE DEF IInv, SessionInv, PumpInv, TeardownInv, RegistryInv
  <2>4. None \notin {"idle", "no_room"}
    BY DEF ExitStatus
  <2> QED BY <2>1, <2>2, <2>3, <2>4
<1>17. ASSUME NEW s \in Sessions, ForceCloses(s) PROVE OutcomeInv'
  <2>1. UNCHANGED <<td, tdRoom, box, pump, room>>
    BY <1>17 DEF ForceCloses
  <2>2. \A x \in Sessions : chan[x] = "lost" => chan'[x] = "lost" /\ exit'[x] = exit[x]
    BY <1>17 DEF ForceCloses, Exit
  <2>3. \A x \in Sessions : exit'[x] = exit[x] \/ (exit'[x] = "shutdown" /\ td[x] \in {"empty", "destroyed"})
    BY <1>17 DEF ForceCloses, Exit, TeardownOver, Ended, Released
  <2> HIDE DEF IInv, SessionInv, PumpInv, TeardownInv, RegistryInv
  <2>4. None \notin {"shutdown", "no_room"}
    BY DEF ExitStatus
  <2> QED BY <2>1, <2>2, <2>3, <2>4
<1>18. ASSUME NEW s \in Sessions, BoxPaused(s) PROVE OutcomeInv'
  BY <1>18 DEF BoxPaused, BoxStep
<1>19. ASSUME NEW s \in Sessions, BoxDestroyed(s) PROVE OutcomeInv'
  BY <1>19 DEF BoxDestroyed, BoxStep
<1>20. ASSUME NEW s \in Sessions, BoxOpened(s) PROVE OutcomeInv'
  BY <1>20 DEF BoxOpened, BoxStep
<1>21. ASSUME NEW s \in Sessions, ReadEnds(s) PROVE OutcomeInv'
  BY <1>21 DEF ReadEnds, BeginTeardown
<1>22. ASSUME NEW s \in Sessions, IdleFires(s) PROVE OutcomeInv'
  BY <1>22 DEF IdleFires, BeginTeardown
<1>23. ASSUME NEW s \in Sessions, Expire(s) PROVE OutcomeInv'
  BY <1>23 DEF Expire, StillKept
<1>24. ASSUME NEW s \in Sessions, ForceClose(s) PROVE OutcomeInv'
  BY <1>24 DEF ForceClose, BeginTeardown
<1>25. ASSUME NEW s \in Sessions, CancelForce(s) PROVE OutcomeInv'
  <2>1. PICK o \in CancelOutcomes(s) :
          /\ td' = [td EXCEPT ![s] = CancelledTeardown(s, o)]
          /\ box' = [r \in Sessions |-> IF r \in TeardownStrands(s, o) THEN "stranded" ELSE box[r]]
    <3> HIDE DEF TypeOK, IInv, SessionInv, PumpInv, TeardownInv, RegistryInv, OutcomeInv
    <3> QED BY <1>25 DEF CancelForce
  <2>2. td[s] \in {"pausing", "destroying"} /\ UNCHANGED <<chan, exit, pump, mine, room, tdRoom>>
    BY <1>25 DEF CancelForce
  <2>3. CancelledTeardown(s, o) \in {"cancelled", td[s]}
    BY <2>2 DEF CancelledTeardown
  <2>4. \A r \in Sessions : box[r] = "gone" => box'[r] = "gone"
    BY <2>1 DEF TeardownStrands
  <2> HIDE DEF IInv, SessionInv, PumpInv, TeardownInv, RegistryInv
  <2> QED BY <2>1, <2>2, <2>3, <2>4
<1>26. ASSUME NEW u \in Usernames, Sweep(u) PROVE OutcomeInv'
  BY <1>26 DEF Sweep
<1>27. CASE CancelAll
  <2>1. PICK o \in [Sessions -> {"swallowed", "finishes", "stranded"}] :
          /\ pump' = [s \in Sessions |->
                        IF pump[s] = "reading" /\ td[s] = "none" THEN "await_ours"
                        ELSE CancelledPump(s, o[s])]
          /\ td' = [s \in Sessions |->
                      IF td[s] = "none" /\ pump[s] = "reading" THEN "begun"
                      ELSE CancelledTeardown(s, o[s])]
          /\ box' = [r \in Sessions |->
                       IF \E s \in Sessions : r \in TeardownStrands(s, o[s]) \cup PumpStrands(s, o[s])
                       THEN "stranded"
                       ELSE IF \E s \in Sessions : r \in Unwound(s) THEN "destroying"
                       ELSE box[r]]
    BY <1>27, CancelAllEffect
  <2>2. UNCHANGED <<chan, exit, mine, room, tdRoom>>
    BY <1>27 DEF CancelAll
  <2>3. ASSUME NEW r \in Sessions, box[r] = "gone" PROVE box'[r] = "gone"
    <3>1. \A s \in Sessions : r \notin TeardownStrands(s, o[s]) \cup PumpStrands(s, o[s])
      BY <2>3 DEF TeardownStrands, PumpStrands
    <3>2. \A s \in Sessions : r \notin Unwound(s)
      BY <2>3 DEF Unwound
    <3> QED BY <2>1, <2>3, <3>1, <3>2
  <2>4. ASSUME NEW x \in Sessions
        PROVE  td'[x] = td[x] \/ td'[x] = "begun" \/ td'[x] \in {"cancelled", "unrun"}
    BY <2>1 DEF CancelledTeardown
  <2>5. ASSUME NEW x \in Sessions, td[x] \in {"destroyed", "empty"} PROVE td'[x] = td[x]
    BY <2>1, <2>5 DEF CancelledTeardown
  <2>6. ASSUME NEW x \in Sessions
        PROVE  /\ pump[x] \in {"reading", "done"} \cup Awaiting => pump'[x] \in {"done"} \cup Awaiting
               /\ pump[x] = "done" => pump'[x] = "done"
    BY <2>1 DEF CancelledPump
  <2> HIDE DEF IInv, SessionInv, PumpInv, TeardownInv, RegistryInv
  <2>7. ASSUME NEW x \in Sessions, td'[x] = "destroyed" PROVE tdRoom[x] # None /\ box'[tdRoom[x]] = "gone"
    BY <2>3, <2>4, <2>7
  <2> QED BY <2>2, <2>4, <2>5, <2>6, <2>7
<1>28. CASE LoopStops
  BY <1>28 DEF LoopStops
<1>29. CASE UNCHANGED vars
  BY <1>29 DEF vars
<1> QED
  BY <1>1, <1>2, <1>3, <1>4, <1>5, <1>6, <1>7, <1>8, <1>9, <1>10, <1>11, <1>12, <1>13, <1>14,
     <1>15, <1>16, <1>17, <1>18, <1>19, <1>20, <1>21, <1>22, <1>23, <1>24, <1>25, <1>26, <1>27,
     <1>28, <1>29
  DEF Next, SessionNext, Channel, PumpStep, TeardownStep, CloserStep, BoxEnds, Stopped

(* A sheltered server loses a connection only while the pump reads or has  *)
(* nothing in hand: no call of a backend is cut short.                     *)
LEMMA ShelteredHangup ==
    ASSUME Sheltered, TypeOK, NEW s \in Sessions, ConnectionLost(s)
    PROVE  /\ td' = [td EXCEPT ![s] = BeginTeardown(td[s], TRUE)]
           /\ \A x \in Sessions :
                /\ pump[x] \in {"opening", "resuming"} => pump'[x] = pump[x]
                /\ pump'[x] \in {"none", "created", "opening", "resuming"} => pump'[x] = pump[x]
           /\ UNCHANGED <<active, mine, room, tdRoom, byName, expiry, loop, box>>
<1>1. pump[s] \in {"none", "created", "reading", "done"} /\ watchdog[s] # "awaiting"
  BY DEF ConnectionLost, HangupAllowed, Sheltered, TypeOK, PumpState, PumpEnding, Awaiting
<1>2. PICK o \in CancelOutcomes(s) :
        LET cut == pump[s] \in Awaiting \/ watchdog[s] = "awaiting"
            t == IF cut THEN CancelledTeardown(s, o) ELSE td[s]
        IN /\ pump' = [pump EXCEPT ![s] = CancelledPump(s, o)]
           /\ td' = [td EXCEPT ![s] = BeginTeardown(t, TRUE)]
           /\ Discard({x \in {s} : t = "cancelled" /\ td[s] # "cancelled"})
           /\ box' = [r \in Sessions |->
                        IF \/ cut /\ r \in TeardownStrands(s, o)
                           \/ r \in PumpStrands(s, o)
                        THEN "stranded"
                        ELSE IF r \in Unwound(s) THEN "destroying"
                        ELSE box[r]]
  BY DEF ConnectionLost
<1>3. ~(pump[s] \in Awaiting \/ watchdog[s] = "awaiting")
  BY <1>1 DEF Awaiting
<1>4. td' = [td EXCEPT ![s] = BeginTeardown(td[s], TRUE)] /\ active' = active
  BY <1>2, <1>3 DEF Discard
<1>5. box' = box
  BY <1>1, <1>2, <1>3 DEF PumpStrands, Unwound, PumpEnding, TypeOK
<1>6. CancelledPump(s, o) \in {pump[s], "await_other", "done"}
  BY <1>1 DEF CancelledPump
<1>7. UNCHANGED <<mine, room, tdRoom, byName, expiry, loop>>
  BY DEF ConnectionLost, keptVars
<1> QED BY <1>1, <1>2, <1>4, <1>5, <1>6, <1>7 DEF TypeOK

(* Every step of a sheltered server keeps a username's rooms apart: a room *)
(* is registered only when no other of the same name is.                   *)
LEMMA NextCollectInv ==
    ASSUME Sheltered, TypeOK, TypeOK', IInv, ActiveInv, OutcomeInv, CollectInv, [Next]_vars
    PROVE  CollectInv'
<1> USE SessionsAssumption
<1> USE DEF chanVars, keptVars, activeVars, TypeOK, IInv, RegistryInv, PumpInv, ActiveInv, OutcomeInv, CollectInv, Released, Sheltered
<1>1. ASSUME NEW s \in Sessions, ConnectionMade(s) PROVE CollectInv'
  BY <1>1 DEF ConnectionMade, Add, NameFree
<1>2. ASSUME NEW s \in Sessions, SessionStarted(s) PROVE CollectInv'
  BY <1>2 DEF SessionStarted
<1>3. ASSUME NEW s \in Sessions, Mute(s) PROVE CollectInv'
  BY <1>3 DEF Mute
<1>4. ASSUME NEW s \in Sessions, ConnectionLost(s) PROVE CollectInv'
  <2>1. /\ td' = [td EXCEPT ![s] = BeginTeardown(td[s], TRUE)]
        /\ \A x \in Sessions : pump'[x] \in {"none", "created"} => pump'[x] = pump[x]
        /\ UNCHANGED <<active, mine, room, tdRoom, byName, expiry, loop, box>>
    BY <1>4, ShelteredHangup
  <2>2. \A x \in Sessions : td'[x] = td[x] \/ (td[x] = "none" /\ td'[x] = "begun_keep")
    BY <2>1 DEF BeginTeardown
  <2> HIDE DEF TypeOK, IInv, RegistryInv, PumpInv, ActiveInv, OutcomeInv, Sheltered, Released
  <2> QED BY <2>1, <2>2
<1>5. ASSUME NEW s \in Sessions, RunPump(s) PROVE CollectInv'
  BY <1>5 DEF RunPump, Take, KeptFor
<1>6. ASSUME NEW s \in Sessions, Opened(s) PROVE CollectInv'
  BY <1>6 DEF Opened, SessionEnded
<1>7. ASSUME NEW s \in Sessions, OpenFails(s) PROVE CollectInv'
  BY <1>7 DEF OpenFails
<1>8. ASSUME NEW s \in Sessions, ResumeFails(s) PROVE CollectInv'
  BY <1>8 DEF ResumeFails
<1>9. ASSUME NEW s \in Sessions, Refuse(s) PROVE CollectInv'
  BY <1>9 DEF Refuse, Exit
<1>10. ASSUME NEW s \in Sessions, LateDone(s) PROVE CollectInv'
  BY <1>10 DEF LateDone
<1>11. ASSUME NEW s \in Sessions, Goodbye(s) PROVE CollectInv'
  BY <1>11 DEF Goodbye, Exit
<1>12. ASSUME NEW s \in Sessions, RunTeardown(s) PROVE CollectInv'
  BY <1>12 DEF RunTeardown, Release, Discard
<1>13. ASSUME NEW s \in Sessions, Keep(s) PROVE CollectInv'
  BY <1>13 DEF Keep, Release, Discard
<1>14. ASSUME NEW s \in Sessions, PauseFails(s) PROVE CollectInv'
  BY <1>14 DEF PauseFails
<1>15. ASSUME NEW s \in Sessions, CheckedOut(s) PROVE CollectInv'
  BY <1>15 DEF CheckedOut, Release, Discard
<1>16. ASSUME NEW s \in Sessions, IdleCloses(s) PROVE CollectInv'
  BY <1>16 DEF IdleCloses, Exit
<1>17. ASSUME NEW s \in Sessions, ForceCloses(s) PROVE CollectInv'
  BY <1>17 DEF ForceCloses, Exit
<1>18. ASSUME NEW s \in Sessions, BoxPaused(s) PROVE CollectInv'
  BY <1>18 DEF BoxPaused, BoxStep
<1>19. ASSUME NEW s \in Sessions, BoxDestroyed(s) PROVE CollectInv'
  BY <1>19 DEF BoxDestroyed, BoxStep
<1>20. ASSUME NEW s \in Sessions, BoxOpened(s) PROVE CollectInv'
  BY <1>20 DEF BoxOpened, BoxStep
<1>21. ASSUME NEW s \in Sessions, ReadEnds(s) PROVE CollectInv'
  BY <1>21 DEF ReadEnds, BeginTeardown
<1>22. ASSUME NEW s \in Sessions, IdleFires(s) PROVE CollectInv'
  BY <1>22 DEF IdleFires, BeginTeardown
<1>23. ASSUME NEW s \in Sessions, Expire(s) PROVE CollectInv'
  BY <1>23 DEF Expire, StillKept
<1>24. ASSUME NEW s \in Sessions, ForceClose(s) PROVE CollectInv'
  BY <1>24 DEF ForceClose, BeginTeardown
<1>25. ASSUME NEW s \in Sessions, CancelForce(s) PROVE CollectInv'
  BY <1>25 DEF CancelForce
<1>26. ASSUME NEW u \in Usernames, Sweep(u) PROVE CollectInv'
  BY <1>26 DEF Sweep
<1>27. CASE CancelAll
  BY <1>27 DEF CancelAll
<1>28. CASE LoopStops
  BY <1>28 DEF LoopStops
<1>29. CASE UNCHANGED vars
  BY <1>29 DEF vars
<1> QED
  BY <1>1, <1>2, <1>3, <1>4, <1>5, <1>6, <1>7, <1>8, <1>9, <1>10, <1>11, <1>12, <1>13, <1>14,
     <1>15, <1>16, <1>17, <1>18, <1>19, <1>20, <1>21, <1>22, <1>23, <1>24, <1>25, <1>26, <1>27,
     <1>28, <1>29
  DEF Next, SessionNext, Channel, PumpStep, TeardownStep, CloserStep, BoxEnds, Stopped

(* Every step of a sheltered server leaves each room with someone who will *)
(* collect it.                                                             *)
LEMMA NextNoOrphan ==
    ASSUME Sheltered, TypeOK, TypeOK', IInv, ActiveInv, OutcomeInv, CollectInv, NoOrphan, [Next]_vars
    PROVE  NoOrphan'
<1> USE SessionsAssumption
<1> USE DEF chanVars, keptVars, activeVars, TypeOK, IInv, RegistryInv, PumpInv, TeardownInv, ActiveInv, CollectInv, Released, Sheltered,
            NoOrphan, Collector
<1>1. ASSUME NEW s \in Sessions, ConnectionMade(s) PROVE NoOrphan'
  BY <1>1 DEF ConnectionMade, Add
<1>2. ASSUME NEW s \in Sessions, SessionStarted(s) PROVE NoOrphan'
  BY <1>2 DEF SessionStarted
<1>3. ASSUME NEW s \in Sessions, Mute(s) PROVE NoOrphan'
  BY <1>3 DEF Mute
<1>4. ASSUME NEW s \in Sessions, ConnectionLost(s) PROVE NoOrphan'
  <2>1. /\ td' = [td EXCEPT ![s] = BeginTeardown(td[s], TRUE)]
        /\ \A x \in Sessions : pump[x] \in {"opening", "resuming"} => pump'[x] = pump[x]
        /\ UNCHANGED <<active, mine, room, tdRoom, byName, expiry, loop, box>>
    BY <1>4, ShelteredHangup
  <2>2. \A x \in Sessions : td'[x] = td[x] \/ (td[x] = "none" /\ td'[x] = "begun_keep")
    BY <2>1 DEF BeginTeardown
  <2> HIDE DEF TypeOK, IInv, RegistryInv, PumpInv, TeardownInv, ActiveInv, CollectInv, Sheltered
  <2>3. ASSUME NEW r \in Sessions, NEW x \in Sessions, Collector(r, x) PROVE Collector(r, x)'
    BY <2>1, <2>2, <2>3
  <2> HIDE DEF Collector
  <2> QED BY <2>1, <2>3
<1>5. ASSUME NEW s \in Sessions, RunPump(s) PROVE NoOrphan'
  BY <1>5 DEF RunPump, Take, KeptFor
<1>6. ASSUME NEW s \in Sessions, Opened(s) PROVE NoOrphan'
  <2>1. pump[s] \in {"opening", "resuming"} /\ mine[s] \in Sessions /\ UNCHANGED <<mine, td, tdRoom, byName, expiry, loop>>
    BY <1>6 DEF Opened
  <2>2. CASE SessionEnded(s)
    <3>1. box' = [box EXCEPT ![mine[s]] = "destroying"] /\ room' = room
      BY <1>6, <2>2 DEF Opened
    <3>2. \A r, x \in Sessions : r # mine[s] /\ Collector(r, x) => Collector(r, x)'
      BY <1>6, <2>1, <2>2, <3>1 DEF Opened
    <3> QED BY <2>1, <3>1, <3>2
  <2>3. CASE ~SessionEnded(s)
    <3>1. box' = [box EXCEPT ![mine[s]] = "live"] /\ room' = [room EXCEPT ![s] = mine[s]] /\ td[s] = "none"
      BY <1>6, <2>3 DEF Opened, SessionEnded
    <3>2. Collector(mine[s], s)'
      BY <2>1, <3>1
    <3>3. room[s] = None /\ \A x \in Sessions : x # s => pump'[x] = pump[x] /\ room'[x] = room[x]
      BY <1>6, <2>1, <2>3, <3>1 DEF Opened, OutcomeInv, Awaiting
    <3>4. \A r, x \in Sessions : r # mine[s] /\ Collector(r, x) => Collector(r, x)'
      BY <2>1, <3>1, <3>3
    <3> QED BY <2>1, <3>1, <3>2, <3>4
  <2> QED BY <2>2, <2>3
<1>7. ASSUME NEW s \in Sessions, OpenFails(s) PROVE NoOrphan'
  BY <1>7 DEF OpenFails
<1>8. ASSUME NEW s \in Sessions, ResumeFails(s) PROVE NoOrphan'
  BY <1>8 DEF ResumeFails
<1>9. ASSUME NEW s \in Sessions, Refuse(s) PROVE NoOrphan'
  BY <1>9 DEF Refuse, Exit
<1>10. ASSUME NEW s \in Sessions, LateDone(s) PROVE NoOrphan'
  BY <1>10 DEF LateDone
<1>11. ASSUME NEW s \in Sessions, Goodbye(s) PROVE NoOrphan'
  <2>1. /\ UNCHANGED <<mine, room, td, tdRoom, byName, expiry, loop, box>>
        /\ pump[s] \notin {"opening", "resuming"} /\ pump' = [pump EXCEPT ![s] = "done"]
    BY <1>11 DEF Goodbye, Awaiting
  <2>2. \A r, x \in Sessions : Collector(r, x) => Collector(r, x)'
    BY <2>1
  <2> QED BY <2>1, <2>2
<1>12. ASSUME NEW s \in Sessions, RunTeardown(s) PROVE NoOrphan'
  BY <1>12 DEF RunTeardown, Release, Discard
<1>13. ASSUME NEW s \in Sessions, Keep(s) PROVE NoOrphan'
  BY <1>13 DEF Keep, Release, Discard
<1>14. ASSUME NEW s \in Sessions, PauseFails(s) PROVE NoOrphan'
  BY <1>14 DEF PauseFails
<1>15. ASSUME NEW s \in Sessions, CheckedOut(s) PROVE NoOrphan'
  BY <1>15 DEF CheckedOut, Release, Discard
<1>16. ASSUME NEW s \in Sessions, IdleCloses(s) PROVE NoOrphan'
  BY <1>16 DEF IdleCloses, Exit
<1>17. ASSUME NEW s \in Sessions, ForceCloses(s) PROVE NoOrphan'
  BY <1>17 DEF ForceCloses, Exit
<1>18. ASSUME NEW s \in Sessions, BoxPaused(s) PROVE NoOrphan'
  BY <1>18 DEF BoxPaused, BoxStep
<1>19. ASSUME NEW s \in Sessions, BoxDestroyed(s) PROVE NoOrphan'
  BY <1>19 DEF BoxDestroyed, BoxStep
<1>20. ASSUME NEW s \in Sessions, BoxOpened(s) PROVE NoOrphan'
  BY <1>20 DEF BoxOpened, BoxStep
<1>21. ASSUME NEW s \in Sessions, ReadEnds(s) PROVE NoOrphan'
  BY <1>21 DEF ReadEnds, BeginTeardown
<1>22. ASSUME NEW s \in Sessions, IdleFires(s) PROVE NoOrphan'
  BY <1>22 DEF IdleFires, BeginTeardown
<1>23. ASSUME NEW s \in Sessions, Expire(s) PROVE NoOrphan'
  BY <1>23 DEF Expire, StillKept
<1>24. ASSUME NEW s \in Sessions, ForceClose(s) PROVE NoOrphan'
  BY <1>24 DEF ForceClose, BeginTeardown
<1>25. ASSUME NEW s \in Sessions, CancelForce(s) PROVE NoOrphan'
  BY <1>25 DEF CancelForce
<1>26. ASSUME NEW u \in Usernames, Sweep(u) PROVE NoOrphan'
  BY <1>26 DEF Sweep
<1>27. CASE CancelAll
  BY <1>27 DEF CancelAll
<1>28. CASE LoopStops
  BY <1>28 DEF LoopStops
<1>29. CASE UNCHANGED vars
  BY <1>29 DEF vars
<1> QED
  BY <1>1, <1>2, <1>3, <1>4, <1>5, <1>6, <1>7, <1>8, <1>9, <1>10, <1>11, <1>12, <1>13, <1>14,
     <1>15, <1>16, <1>17, <1>18, <1>19, <1>20, <1>21, <1>22, <1>23, <1>24, <1>25, <1>26, <1>27,
     <1>28, <1>29
  DEF Next, SessionNext, Channel, PumpStep, TeardownStep, CloserStep, BoxEnds, Stopped

(* The drain's event is set exactly when every session that connected has  *)
(* come to the end of its teardown, so that no drain waits for a session   *)
(* that is gone or leaves before one that is not (ActiveSessions).         *)
THEOREM EventIsTrue == Spec => []EmptyMeansReleased
<1>1. Init => ActiveInv
  BY InitDrain
<1>2. TypeOK /\ ActiveInv /\ [Next]_vars => ActiveInv'
  BY NextActiveInv
<1>3. ASSUME TypeOK, ActiveInv PROVE EmptyMeansReleased
  <2>1. active = {} <=> \A s \in Sessions : s \notin active
    BY <1>3 DEF TypeOK
  <2> QED BY <1>3, <2>1 DEF ActiveInv, EmptyMeansReleased
<1> QED BY <1>1, <1>2, <1>3, TypeCorrect, PTL DEF Spec

(* The outcome of every teardown agrees with its room, its client's        *)
(* channel and the status sent on it, whatever hang-ups, idle timeouts and *)
(* forced closes race to begin it: the invariant of the next two theorems. *)
THEOREM Outcomes == Spec => [](ActiveInv /\ OutcomeInv)
<1>1. Init => ActiveInv /\ OutcomeInv
  BY InitDrain
<1>2. TypeOK /\ TypeOK' /\ IInv /\ ActiveInv /\ OutcomeInv /\ [Next]_vars => ActiveInv' /\ OutcomeInv'
  BY NextActiveInv, NextOutcomeInv
<1> QED BY <1>1, <1>2, TypeCorrect, Invariance, PTL DEF Spec

(* Only the room of a client that hung up, and was told nothing, is ever   *)
(* paused and kept: _begin_teardown's first caller decides, and exit, the  *)
(* idle timeout and shutdown say keep=False.                               *)
THEOREM HangupAloneKeeps == Spec => []KeptOnlyAfterHangup
<1>1. OutcomeInv => KeptOnlyAfterHangup
  BY DEF OutcomeInv, KeptOnlyAfterHangup
<1> QED BY <1>1, Outcomes, PTL

(* A status that announces the end of the room is sent only once the room  *)
(* is gone: the pump, the watchdog and force_close all await the teardown  *)
(* before chan.exit.                                                       *)
THEOREM GoneBeforeStatus == Spec => []StatusAfterCheckout
<1>1. ASSUME TypeOK, OutcomeInv PROVE StatusAfterCheckout
  BY <1>1, SessionsAssumption DEF TypeOK, OutcomeInv, StatusAfterCheckout, ExitStatus
<1> QED BY <1>1, TypeCorrect, Outcomes, PTL

(***************************************************************************)
(* Unless two live sessions may share a username, a session that has had a *)
(* room in its hands is alone with its name: nothing is registered for it  *)
(* until the session itself keeps its room.                                *)
(***************************************************************************)
SoleInv ==
    /\ "shared_name" \notin Env =>
         /\ \A s, t \in active : User[s] = User[t] => s = t
         /\ \A s \in active : mine[s] # None => byName[User[s]] = None
    /\ \A s \in Sessions : room[s] # None \/ td[s] = "pausing" => mine[s] # None
    /\ \A s \in Sessions : pump[s] \in {"none", "created"} => mine[s] = None

(* Every step keeps a username to one session that has had a room.         *)
LEMMA NextSoleInv == ASSUME TypeOK, IInv, ActiveInv, SoleInv, [Next]_vars PROVE SoleInv'
<1> USE SessionsAssumption
<1> USE DEF chanVars, keptVars, activeVars, TypeOK, PumpInv, ActiveInv, SoleInv, Released
<1>0. PumpInv
  BY DEF IInv
<1>1. ASSUME NEW s \in Sessions, ConnectionMade(s) PROVE SoleInv'
  BY <1>1 DEF ConnectionMade, Add, NameFree
<1>2. ASSUME NEW s \in Sessions, SessionStarted(s) PROVE SoleInv'
  BY <1>2 DEF SessionStarted
<1>3. ASSUME NEW s \in Sessions, Mute(s) PROVE SoleInv'
  BY <1>3 DEF Mute
<1>4. ASSUME NEW s \in Sessions, ConnectionLost(s) PROVE SoleInv'
  <2>1. PICK o \in CancelOutcomes(s) :
          /\ pump' = [pump EXCEPT ![s] = CancelledPump(s, o)]
          /\ td' = [td EXCEPT ![s] =
                      BeginTeardown(IF pump[s] \in Awaiting \/ watchdog[s] = "awaiting"
                                    THEN CancelledTeardown(s, o) ELSE td[s], TRUE)]
    BY <1>4 DEF ConnectionLost
  <2>2. active' \subseteq active /\ UNCHANGED <<mine, room, byName>>
    BY <1>4 DEF ConnectionLost, Discard
  <2>3. \A x \in Sessions : td'[x] = "pausing" => td[x] = "pausing"
    BY <2>1 DEF BeginTeardown, CancelledTeardown
  <2>4. \A x \in Sessions : pump'[x] \in {"none", "created"} => pump[x] \in {"none", "created"}
    BY <2>1 DEF CancelledPump
  <2> QED BY <2>2, <2>3, <2>4
<1>5. ASSUME NEW s \in Sessions, RunPump(s) PROVE SoleInv'
  BY <1>5 DEF RunPump, Take, KeptFor
<1>6. ASSUME NEW s \in Sessions, Opened(s) PROVE SoleInv'
  BY <1>0, <1>6 DEF Opened, SessionEnded
<1>7. ASSUME NEW s \in Sessions, OpenFails(s) \/ ResumeFails(s) \/ LateDone(s) PROVE SoleInv'
  BY <1>7 DEF OpenFails, ResumeFails, LateDone
<1>8. ASSUME NEW s \in Sessions, Refuse(s) \/ Goodbye(s) PROVE SoleInv'
  <2>1. /\ pump' = [pump EXCEPT ![s] = "done"]
        /\ UNCHANGED <<active, mine, room, td, byName>>
    BY <1>8 DEF Refuse, Goodbye
  <2> QED BY <2>1
<1>9. ASSUME NEW s \in Sessions, RunTeardown(s) PROVE SoleInv'
  <2>1. /\ room' = [room EXCEPT ![s] = None] /\ UNCHANGED <<pump, mine, byName>>
        /\ \A x \in Sessions : td'[x] = "pausing" => td[x] = "pausing" \/ (x = s /\ room[s] # None)
    BY <1>9 DEF RunTeardown
  <2>2. active' \subseteq active
    BY <1>9 DEF RunTeardown, Release, Discard
  <2> QED BY <2>1, <2>2
<1>10. ASSUME NEW s \in Sessions, Keep(s) PROVE SoleInv'
  <2>1. s \in active /\ active' = active \ {s}
    BY <1>10 DEF Keep, Release, Discard
  <2>2. /\ byName' = [byName EXCEPT ![User[s]] = s] /\ td' = [td EXCEPT ![s] = "kept"]
        /\ UNCHANGED <<pump, mine, room>>
    BY <1>10 DEF Keep
  <2> QED BY <2>1, <2>2
<1>11. ASSUME NEW s \in Sessions, PauseFails(s) PROVE SoleInv'
  BY <1>11 DEF PauseFails
<1>12. ASSUME NEW s \in Sessions, CheckedOut(s) PROVE SoleInv'
  <2>1. /\ active' \subseteq active /\ td' = [td EXCEPT ![s] = "destroyed"]
        /\ UNCHANGED <<pump, mine, room, byName>>
    BY <1>12 DEF CheckedOut, Release, Discard
  <2> QED BY <2>1
<1>13. ASSUME NEW s \in Sessions, CloserStep(s) \/ BoxEnds(s) PROVE SoleInv'
  <2>1. UNCHANGED <<active, pump, mine, room, td, byName>>
    BY <1>13 DEF CloserStep, IdleCloses, ForceCloses, BoxEnds, BoxPaused, BoxDestroyed, BoxOpened, BoxStep
  <2> QED BY <2>1
<1>14. ASSUME NEW s \in Sessions, ReadEnds(s) \/ IdleFires(s) \/ ForceClose(s) PROVE SoleInv'
  <2>1. /\ UNCHANGED <<active, mine, room, byName>>
        /\ \A x \in Sessions : td'[x] = "pausing" => td[x] = "pausing"
        /\ \A x \in Sessions : pump'[x] \in {"none", "created"} => pump'[x] = pump[x]
    BY <1>14 DEF ReadEnds, IdleFires, ForceClose, BeginTeardown
  <2> QED BY <2>1
<1>15. ASSUME NEW s \in Sessions, Expire(s) PROVE SoleInv'
  BY <1>15 DEF Expire, StillKept
<1>16. ASSUME NEW s \in Sessions, CancelForce(s) PROVE SoleInv'
  <2>1. /\ active' \subseteq active /\ UNCHANGED <<pump, mine, room, byName>>
        /\ \A x \in Sessions : td'[x] = "pausing" => td[x] = "pausing"
    BY <1>16 DEF CancelForce, Discard, CancelledTeardown
  <2> QED BY <2>1
<1>17. ASSUME NEW u \in Usernames, Sweep(u) PROVE SoleInv'
  BY <1>17 DEF Sweep
<1>18. CASE CancelAll
  <2>1. active' \subseteq active /\ UNCHANGED <<mine, room, byName>>
    BY <1>18 DEF CancelAll, Discard
  <2>2. \A x \in Sessions : td'[x] = "pausing" => td[x] = "pausing"
    BY <1>18 DEF CancelAll, CancelledTeardown
  <2>3. \A x \in Sessions : pump'[x] \in {"none", "created"} => pump[x] \in {"none", "created"}
    BY <1>18 DEF CancelAll, CancelledPump
  <2> QED BY <2>1, <2>2, <2>3
<1>19. CASE LoopStops \/ UNCHANGED vars
  BY <1>19 DEF LoopStops, vars
<1> QED
  BY <1>1, <1>2, <1>3, <1>4, <1>5, <1>6, <1>7, <1>8, <1>9, <1>10, <1>11, <1>12, <1>13, <1>14,
     <1>15, <1>16, <1>17, <1>18, <1>19
  DEF Next, SessionNext, Channel, PumpStep, TeardownStep, Stopped

(* A keep that finds an entry of its username overwrites it, which takes   *)
(* two live sessions under that name (KeptRooms.keep).                     *)
LEMMA KeepOverwrites ==
    ASSUME TypeOK, ActiveInv, SoleInv, NEW s \in Sessions, Keep(s), byName[User[s]] # None
    PROVE  "shared_name" \in Env
<1>1. s \in active /\ mine[s] # None
  BY DEF Keep, ActiveInv, SoleInv, Released
<1> QED BY <1>1 DEF SoleInv

(* A registered room leaves KeptRooms only with a session of its username  *)
(* that resumes it, destroyed by its own timer or by the sweep, or         *)
(* overwritten by the keep of a second session of the same username, which *)
(* leaves it to nobody; a timer left over from an earlier stay takes       *)
(* nothing (take, keep, _expire, destroy_all).                             *)
THEOREM OwnDoorOnly == Spec => LeavesByItsOwnDoor
<1> DEFINE Doors(u) ==
             \/ \E s \in Sessions : User[s] = u /\ pump'[s] = "resuming" /\ mine'[s] = tdRoom[byName[u]]
             \/ /\ byName'[u] = None /\ box'[tdRoom[byName[u]]] = "destroying"
                /\ \/ expiry[byName[u]] = "sleeping" /\ expiry'[byName[u]] = "done"
                   \/ UNCHANGED <<expiry, pump>>
             \/ "shared_name" \in Env /\ \E s \in Sessions : td[s] = "pausing" /\ byName'[u] = s
<1>1. ASSUME TypeOK, IInv, ActiveInv, SoleInv, [Next]_vars,
             NEW u \in Usernames, byName[u] # None, byName'[u] # byName[u]
      PROVE  Doors(u)
  <2> USE SessionsAssumption, <1>1 DEF TypeOK, keptVars
  <2>0. tdRoom[byName[u]] \in Sessions
    BY DEF IInv, RegistryInv
  <2>1. ASSUME NEW s \in Sessions, RunPump(s)
        PROVE  User[s] = u /\ pump'[s] = "resuming" /\ mine'[s] = tdRoom[byName[u]]
    BY <2>1 DEF RunPump, Take, KeptFor
  <2>2. ASSUME NEW k \in Sessions, Expire(k)
        PROVE  /\ byName[u] = k /\ expiry[k] = "sleeping" /\ expiry'[k] = "done"
               /\ byName'[u] = None /\ box'[tdRoom[k]] = "destroying"
    BY <2>0, <2>2 DEF Expire, StillKept
  <2>3. ASSUME NEW v \in Usernames, Sweep(v)
        PROVE  byName'[u] = None /\ box'[tdRoom[byName[u]]] = "destroying" /\ UNCHANGED <<expiry, pump>>
    BY <2>0, <2>3 DEF Sweep
  <2>4. ASSUME NEW s \in Sessions, Keep(s)
        PROVE  "shared_name" \in Env /\ td[s] = "pausing" /\ byName'[u] = s
    <3>1. User[s] = u /\ td[s] = "pausing" /\ byName'[u] = s
      BY <2>4 DEF Keep
    <3> QED BY <2>4, <3>1, KeepOverwrites
  <2>5. byName' # byName
    OBVIOUS
  <2>6. ASSUME NEW s \in Sessions, SessionNext(s) \/ ForceClose(s) \/ CancelForce(s)
        PROVE  RunPump(s) \/ Expire(s) \/ Keep(s)
    <3> HIDE DEF TypeOK
    <3>1. Channel(s) => byName' = byName
      BY DEF Channel, ConnectionMade, SessionStarted, Mute, ConnectionLost
    <3>2. PumpStep(s) => byName' = byName \/ RunPump(s)
      BY DEF PumpStep, Opened, OpenFails, ResumeFails, Refuse, LateDone, Goodbye
    <3>3. TeardownStep(s) => byName' = byName \/ Keep(s)
      BY DEF TeardownStep, RunTeardown, PauseFails, CheckedOut
    <3>4. CloserStep(s) \/ BoxEnds(s) \/ ReadEnds(s) \/ IdleFires(s) \/ ForceClose(s) \/ CancelForce(s)
            => byName' = byName
      BY DEF CloserStep, IdleCloses, ForceCloses, BoxEnds, BoxPaused, BoxDestroyed, BoxOpened, BoxStep,
             ReadEnds, IdleFires, ForceClose, CancelForce
    <3> QED BY <2>5, <2>6, <3>1, <3>2, <3>3, <3>4 DEF SessionNext
  <2>7. CancelAll \/ LoopStops \/ Stopped \/ UNCHANGED vars => byName' = byName
    BY DEF CancelAll, LoopStops, Stopped, vars
  <2> HIDE DEF TypeOK
  <2> QED BY <2>1, <2>2, <2>3, <2>4, <2>5, <2>6, <2>7 DEF Next
<1>2. TypeOK /\ IInv /\ ActiveInv /\ SoleInv /\ [Next]_vars =>
        [\A u \in Usernames : LET k == byName[u] IN
           k # None /\ byName'[u] # k =>
              \/ \E s \in Sessions : User[s] = u /\ pump'[s] = "resuming" /\ mine'[s] = tdRoom[k]
              \/ /\ byName'[u] = None /\ box'[tdRoom[k]] = "destroying"
                 /\ \/ expiry[k] = "sleeping" /\ expiry'[k] = "done"
                    \/ UNCHANGED <<expiry, pump>>
              \/ "shared_name" \in Env /\ \E s \in Sessions : td[s] = "pausing" /\ byName'[u] = s]_vars
  BY <1>1
<1>3. Init => SoleInv
  BY SessionsAssumption DEF Init, SoleInv
<1>4. TypeOK /\ IInv /\ ActiveInv /\ SoleInv /\ [Next]_vars => SoleInv'
  BY NextSoleInv
<1> QED BY <1>2, <1>3, <1>4, TypeCorrect, Invariance, Outcomes, PTL DEF Spec, LeavesByItsOwnDoor

(* The invariant behind it: in a sheltered server every sandbox that is    *)
(* not gone has a collector, and every collector goes on to collect.       *)
THEOREM Collectors == Sheltered => (Spec => [](CollectInv /\ NoOrphan))
<1> SUFFICES ASSUME Sheltered PROVE Spec => [](CollectInv /\ NoOrphan)
  OBVIOUS
<1>1. Init => CollectInv /\ NoOrphan
  BY InitDrain DEF Init, NoOrphan
<1>2. TypeOK /\ TypeOK' /\ IInv /\ ActiveInv /\ OutcomeInv /\ CollectInv /\ NoOrphan /\ [Next]_vars
        => CollectInv' /\ NoOrphan'
  BY NextCollectInv, NextNoOrphan
<1> QED BY <1>1, <1>2, TypeCorrect, Invariance, Outcomes, PTL DEF Spec

(* While the server runs, whatever sandbox exists has someone who will     *)
(* collect it, for any number of sessions, unless a client hangs up while  *)
(* a room is being opened, resumed or ended, two sessions share a username,*)
(* docker's attach fails or the drain runs out of time: each of those five *)
(* events alone leaves an orphan (TLC finds it; see orphan_hangup_opening).*)
THEOREM EveryRoomCollected == Sheltered => (Spec => []NoOrphan)
<1> SUFFICES ASSUME Sheltered PROVE Spec => []NoOrphan
  OBVIOUS
<1>1. Spec => [](CollectInv /\ NoOrphan)
  BY Collectors
<1> QED BY <1>1, PTL
=============================================================================
