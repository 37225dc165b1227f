--------------------------- MODULE Promise_proofs ---------------------------
(***************************************************************************)
(* Sessions implements RoomPromise, for any number of sessions and         *)
(* usernames: the safety half of KeepsPromise, in a sheltered server.      *)
(***************************************************************************)
EXTENDS Sessions_proofs

-----------------------------------------------------------------------------
(***************************************************************************)
(* Where a room is.  That nobody has a room twice (IInv) and that somebody *)
(* has it (NoOrphan) make its place and its guest in RoomPromise functions *)
(* of who has it in hand.                                                  *)
(***************************************************************************)
Orderly == TypeOK /\ IInv /\ ActiveInv /\ OutcomeInv /\ CollectInv /\ NoOrphan

Out == {"absent", "destroying", "gone"}

(* Two sessions never are guests of one room, and a room that has a guest  *)
(* or is kept is neither absent nor on its way out.                        *)
LEMMA OneGuest ==
    ASSUME Orderly, loop = "running", NEW r \in Sessions, NEW s \in Sessions
    PROVE  /\ GuestOf(r, s) => box[r] \notin Out /\ \A t \in Sessions : GuestOf(r, t) => t = s
           /\ KeptBy(r, s) => box[r] \notin Out /\ \A t \in Sessions : ~GuestOf(r, t)
<1> USE SessionsAssumption
<1> USE DEF Orderly, TypeOK, IInv, Exclusive, SessionInv, PumpInv, TeardownInv, RegistryInv,
            SessionHas, PumpHas, TeardownHas, RegistryHas, PumpEnding
<1>1. GuestOf(r, s) => box[r] \notin Out
  BY DEF GuestOf, Out
<1>2. KeptBy(r, s) => box[r] \notin Out
  BY DEF KeptBy, Out
<1>3. ASSUME NEW x \in Sessions, GuestOf(r, x)
      PROVE  SessionHas(x, r) \/ PumpHas(x, r) \/ TeardownHas(x, r)
  BY <1>3 DEF GuestOf
<1>4. KeptBy(r, s) => RegistryHas(s, r)
  BY DEF KeptBy
<1>5. Exclusive
  OBVIOUS
<1> HIDE DEF Orderly, TypeOK, IInv, SessionInv, PumpInv, TeardownInv, RegistryInv,
             SessionHas, PumpHas, TeardownHas, RegistryHas, PumpEnding
<1> QED BY <1>1, <1>2, <1>3, <1>4, <1>5 DEF Exclusive

(* Place and Guest, case by case.                                          *)
Found ==
    \A r \in Sessions :
        /\ loop # "running" => Place(r) = "down" /\ Guest(r) = None
        /\ loop = "running" =>
             /\ box[r] = "absent" => Place(r) = "none" /\ Guest(r) = None
             /\ box[r] = "destroying" => Place(r) = "leaving" /\ Guest(r) = None
             /\ box[r] = "gone" => Place(r) = "gone" /\ Guest(r) = None
             /\ \A s \in Sessions : GuestOf(r, s) => Place(r) = "guest" /\ Guest(r) = s
             /\ \A s \in Sessions : KeptBy(r, s) => Place(r) = "kept" /\ Guest(r) = None
             /\ box[r] \in Out \/ \E s \in Sessions : GuestOf(r, s) \/ KeptBy(r, s)

(* So they are in every orderly state.                                     *)
LEMMA Whereabouts == ASSUME Orderly PROVE Found
<1> SUFFICES ASSUME NEW r \in Sessions
             PROVE  /\ loop # "running" => Place(r) = "down" /\ Guest(r) = None
                    /\ loop = "running" =>
                         /\ box[r] = "absent" => Place(r) = "none" /\ Guest(r) = None
                         /\ box[r] = "destroying" => Place(r) = "leaving" /\ Guest(r) = None
                         /\ box[r] = "gone" => Place(r) = "gone" /\ Guest(r) = None
                         /\ \A s \in Sessions : GuestOf(r, s) => Place(r) = "guest" /\ Guest(r) = s
                         /\ \A s \in Sessions : KeptBy(r, s) => Place(r) = "kept" /\ Guest(r) = None
                         /\ box[r] \in Out \/ \E s \in Sessions : GuestOf(r, s) \/ KeptBy(r, s)
  BY DEF Found
<1>1. CASE loop # "running"
  BY <1>1 DEF Place, Guest, Guests
<1>2. CASE loop = "running"
  <2>1. ASSUME \A s \in Sessions : ~GuestOf(r, s) PROVE Guests(r) = {} /\ Guest(r) = None
    BY <2>1 DEF Guest, Guests
  <2>2. ASSUME NEW s \in Sessions, GuestOf(r, s) PROVE Guests(r) = {s} /\ Guest(r) = s
    <3>1. Guests(r) = {s}
      BY <1>2, <2>2, OneGuest DEF Guests
    <3> QED BY <3>1 DEF Guest
  <2>3. box[r] \in Out =>
          Guests(r) = {} /\ Guest(r) = None /\ \A s \in Sessions : ~KeptBy(r, s)
    BY <1>2, <2>1, OneGuest
  <2>4. /\ box[r] = "absent" => Place(r) = "none" /\ Guest(r) = None
        /\ box[r] = "destroying" => Place(r) = "leaving" /\ Guest(r) = None
        /\ box[r] = "gone" => Place(r) = "gone" /\ Guest(r) = None
    BY <1>2, <2>3 DEF Place, Out
  <2>7. ASSUME NEW s \in Sessions, GuestOf(r, s) PROVE Place(r) = "guest" /\ Guest(r) = s
    BY <1>2, <2>2, <2>7, OneGuest DEF Place, Out
  <2>8. ASSUME NEW s \in Sessions, KeptBy(r, s) PROVE Place(r) = "kept" /\ Guest(r) = None
    <3>1. box[r] \notin Out /\ Guests(r) = {} /\ Guest(r) = None
      BY <1>2, <2>1, <2>8, OneGuest
    <3> QED BY <1>2, <2>8, <3>1 DEF Place, Out
  <2>9. box[r] \in Out \/ \E s \in Sessions : GuestOf(r, s) \/ KeptBy(r, s)
    BY <1>2 DEF Orderly, NoOrphan, Collector, GuestOf, KeptBy, Out, IInv, TeardownInv
  <2> QED BY <1>2, <2>4, <2>7, <2>8, <2>9
<1> QED BY <1>1, <1>2

Stays(r) == Place(r)' = Place(r) /\ Guest(r)' = Guest(r)

(* A room stays where it is if whoever has it still has it.                *)
LEMMA SameRoom ==
    ASSUME Found, Found', loop = "running", loop' = "running", NEW r \in Sessions,
           box[r] \in Out => box'[r] = box[r],
           \A s \in Sessions : GuestOf(r, s) => GuestOf(r, s)',
           \A s \in Sessions : KeptBy(r, s) => KeptBy(r, s)'
    PROVE  Stays(r)
<1>1. CASE box[r] \in Out
  BY <1>1 DEF Found, Stays, Out
<1>2. ASSUME NEW s \in Sessions, GuestOf(r, s) PROVE Stays(r)
  BY <1>2 DEF Found, Stays
<1>3. ASSUME NEW s \in Sessions, KeptBy(r, s) PROVE Stays(r)
  BY <1>3 DEF Found, Stays
<1> QED BY <1>1, <1>2, <1>3 DEF Found

-----------------------------------------------------------------------------
(* The steps of RoomPromise, room by room.                                 *)

(* When every room stays, nothing happens in RoomPromise.                  *)
LEMMA NothingMoves ==
    ASSUME \A x \in Sessions : Stays(x)
    PROVE  UNCHANGED Promised!promiseVars
BY DEF Stays, Promised!promiseVars

(* One room moves, the others stay.                                        *)
LEMMA OneMoves ==
    ASSUME NEW r \in Sessions, \A x \in Sessions : x # r => Stays(x)
    PROVE  /\ (Place(r) = "none" /\ Place(r)' = "guest" /\ Guest(r)' = r
                /\ \A x \in Sessions : Guest(x) # r)
             => Promised!CheckIn(r)
           /\ (Place(r) = "guest" /\ Place(r)' = "kept" /\ Guest(r)' = None)
             => Promised!Keep(r)
           /\ (Place(r) \in {"guest", "kept"} /\ Place(r)' = "leaving" /\ Guest(r)' = None)
             => Promised!CheckOut(r)
           /\ (Place(r) \in {"guest", "leaving"} /\ Place(r)' = "gone" /\ Guest(r)' = None)
             => Promised!Gone(r)
           /\ \A s \in Sessions :
                (Place(r) = "kept" /\ User[s] = User[r] /\ Place(r)' = "guest" /\ Guest(r)' = s
                  /\ \A x \in Sessions : Guest(x) # s)
                => Promised!Reclaim(r, s)
<1> DEFINE P == [x \in Sessions |-> Place(x)]
           G == [x \in Sessions |-> Guest(x)]
<1>1. \A v : Place(r)' = v => P' = [P EXCEPT ![r] = v]
  BY DEF Stays
<1>2. \A v : Guest(r)' = v => G' = [G EXCEPT ![r] = v]
  BY DEF Stays
<1> QED
  BY <1>1, <1>2
  DEF Promised!CheckIn, Promised!Keep, Promised!CheckOut, Promised!Gone, Promised!Reclaim,
      Promised!NoRoomYet, Promised!Rooms

(* Whoever has room r keeps it, whatever else the step does.               *)
Held(r) ==
    /\ box[r] \in Out => box'[r] = box[r]
    /\ \A s \in Sessions : GuestOf(r, s) => GuestOf(r, s)'
    /\ \A s \in Sessions : KeptBy(r, s) => KeptBy(r, s)'

(* A session whose pump has not run has no room yet.                       *)
LEMMA Roomless ==
    ASSUME Orderly, Found, loop = "running", NEW s \in Sessions, pump[s] = "created"
    PROVE  \A x \in Sessions : ~GuestOf(x, s) /\ Guest(x) # s
<1> USE SessionsAssumption
<1>1. \A x \in Sessions : ~GuestOf(x, s)
  BY DEF Orderly, OutcomeInv, CollectInv, GuestOf, Awaiting
<1> QED BY <1>1 DEF Found, Out, Orderly, TypeOK, BoxState

(* The steps of the channel, of the closers and of reading put no room     *)
(* into other hands.                                                       *)
LEMMA QuietSteps ==
    ASSUME Sheltered, Orderly, Orderly', loop = "running", NEW s \in Sessions,
           \/ Channel(s) \/ CloserStep(s) \/ ReadEnds(s) \/ IdleFires(s) \/ ForceClose(s)
           \/ Refuse(s) \/ LateDone(s) \/ Goodbye(s) \/ CheckedOut(s)
    PROVE  loop' = loop /\ \A x \in Sessions : Held(x)
<1> SUFFICES /\ UNCHANGED <<mine, room, tdRoom, byName, expiry, box, loop>>
             /\ \A x \in Sessions :
                  /\ td[x] \in {"none", "begun", "begun_keep"} => td'[x] \in {"none", "begun", "begun_keep"}
                  /\ td[x] = "pausing" => td'[x] = "pausing"
                  /\ pump[x] \in {"opening", "resuming"} => pump'[x] = pump[x]
  BY DEF Held, GuestOf, KeptBy
<1> USE DEF keptVars, chanVars, activeVars
<1>0. TypeOK
  BY DEF Orderly
<1>1. ASSUME ConnectionMade(s) \/ SessionStarted(s) \/ Mute(s)
      PROVE  /\ UNCHANGED <<mine, room, td, tdRoom, byName, expiry, box, loop>>
             /\ \A x \in Sessions : pump[x] \in {"opening", "resuming"} => pump'[x] = pump[x]
  BY <1>0, <1>1 DEF ConnectionMade, SessionStarted, Mute, TypeOK
<1>2. ASSUME ConnectionLost(s)
      PROVE  /\ UNCHANGED <<mine, room, tdRoom, byName, expiry, box, loop>>
             /\ td' = [td EXCEPT ![s] = BeginTeardown(td[s], TRUE)]
             /\ \A x \in Sessions : pump[x] \in {"opening", "resuming"} => pump'[x] = pump[x]
  BY <1>0, <1>2, ShelteredHangup
<1>3. ASSUME CloserStep(s)
      PROVE  UNCHANGED <<mine, room, td, tdRoom, byName, expiry, box, loop, pump>>
  BY <1>3 DEF CloserStep, IdleCloses, ForceCloses
<1>4. ASSUME ReadEnds(s) \/ IdleFires(s) \/ ForceClose(s)
      PROVE  /\ UNCHANGED <<mine, room, tdRoom, byName, expiry, box, loop>>
             /\ td' = td \/ td' = [td EXCEPT ![s] = BeginTeardown(td[s], FALSE)]
             /\ \A x \in Sessions : pump[x] \in {"opening", "resuming"} => pump'[x] = pump[x]
  BY <1>0, <1>4 DEF ReadEnds, IdleFires, ForceClose, TypeOK
<1>5. ASSUME Refuse(s) \/ LateDone(s) \/ Goodbye(s)
      PROVE  /\ UNCHANGED <<mine, room, td, tdRoom, byName, expiry, box, loop>>
             /\ \A x \in Sessions : pump[x] \in {"opening", "resuming"} => pump'[x] = pump[x]
  BY <1>0, <1>5 DEF Refuse, LateDone, Goodbye, TypeOK, Awaiting
<1>6. ASSUME CheckedOut(s)
      PROVE  /\ UNCHANGED <<mine, room, tdRoom, byName, expiry, box, loop, pump>>
             /\ \A x \in Sessions : td[x] # "destroying" => td'[x] = td[x]
  BY <1>0, <1>6 DEF CheckedOut, TypeOK
<1>7. \A keep \in BOOLEAN, x \in Sessions :
        td' = [td EXCEPT ![s] = BeginTeardown(td[s], keep)] =>
          /\ td[x] \in {"none", "begun", "begun_keep"} => td'[x] \in {"none", "begun", "begun_keep"}
          /\ td[x] = "pausing" => td'[x] = "pausing"
  BY <1>0 DEF BeginTeardown, TypeOK
<1> QED BY <1>1, <1>2, <1>3, <1>4, <1>5, <1>6, <1>7 DEF Channel

(* RunPump opens a room or takes a kept one.                               *)
LEMMA PumpStarts ==
    ASSUME Orderly, Orderly', Found, Found', loop = "running", NEW s \in Sessions, RunPump(s)
    PROVE  \E r \in Sessions : Promised!CheckIn(r) \/ Promised!Reclaim(r, s)
<1> USE SessionsAssumption
<1>0. TypeOK /\ IInv /\ CollectInv /\ pump[s] = "created" /\ loop' = "running"
  BY DEF Orderly, RunPump
<1>1. \A x \in Sessions : ~GuestOf(x, s) /\ Guest(x) # s
  BY <1>0, Roomless
<1>2. CASE byName[User[s]] = None
  <2>1. /\ mine' = [mine EXCEPT ![s] = s] /\ pump' = [pump EXCEPT ![s] = "opening"]
        /\ box' = [box EXCEPT ![s] = "opening"]
        /\ byName' = [byName EXCEPT ![User[s]] = None]
        /\ UNCHANGED <<room, td, tdRoom, expiry>>
    BY <1>2 DEF RunPump, KeptFor, Take
  <2>2. \A x \in Sessions : x # s => Held(x)
    BY <1>0, <1>1, <1>2, <2>1 DEF Held, GuestOf, KeptBy, TypeOK
  <2>3. \A x \in Sessions : x # s => Stays(x)
    BY <1>0, <2>2, SameRoom DEF Held
  <2>4. box[s] = "absent" /\ GuestOf(s, s)'
    BY <1>0, <2>1 DEF IInv, PumpInv, GuestOf, TypeOK
  <2>5. Place(s) = "none" /\ Place(s)' = "guest" /\ Guest(s)' = s
    BY <1>0, <2>4 DEF Found
  <2> QED BY <1>1, <2>3, <2>5, OneMoves
<1>3. CASE byName[User[s]] # None
  <2>0. PICK k \in Sessions, r \in Sessions :
          k = byName[User[s]] /\ r = tdRoom[k] /\ User[k] = User[s] /\ User[r] = User[s] /\ box[r] = "paused"
    BY <1>0, <1>3 DEF TypeOK, IInv, RegistryInv
  <2>1. /\ mine' = [mine EXCEPT ![s] = r] /\ pump' = [pump EXCEPT ![s] = "resuming"]
        /\ box' = [box EXCEPT ![r] = "resuming"]
        /\ byName' = [byName EXCEPT ![User[s]] = None]
        /\ UNCHANGED <<room, td, tdRoom, expiry>>
    BY <1>3, <2>0 DEF RunPump, KeptFor, Take
  <2>2. \A x \in Sessions : x # r => Held(x)
    BY <1>0, <1>1, <2>0, <2>1 DEF Held, GuestOf, KeptBy, TypeOK
  <2>3. \A x \in Sessions : x # r => Stays(x)
    BY <1>0, <2>2, SameRoom DEF Held
  <2>4. KeptBy(r, k) /\ GuestOf(r, s)'
    BY <1>0, <1>3, <2>0, <2>1 DEF CollectInv, KeptBy, GuestOf, TypeOK
  <2>5. Place(r) = "kept" /\ Place(r)' = "guest" /\ Guest(r)' = s
    BY <1>0, <2>0, <2>4 DEF Found
  <2> QED BY <1>1, <2>0, <2>3, <2>5, OneMoves
<1> QED BY <1>2, <1>3

(* A step that gives a room up: its destruction starts, or its open failed *)
(* and left nothing.                                                       *)
LEMMA GivenUp ==
    ASSUME Found, Found', TypeOK, loop = "running", loop' = "running", NEW r \in Sessions, NEW s \in Sessions,
           GuestOf(r, s) \/ KeptBy(r, s),
           box'[r] = "destroying" \/ (GuestOf(r, s) /\ box'[r] = "gone"),
           \A x \in Sessions : x # r => Held(x)
    PROVE  Promised!CheckOut(r) \/ Promised!Gone(r)
<1>1. \A x \in Sessions : x # r => Stays(x)
  BY SameRoom DEF Held
<1>2. Place(r) \in {"guest", "kept"} /\ (GuestOf(r, s) => Place(r) = "guest")
  BY DEF Found
<1>3. /\ box'[r] = "destroying" => Place(r)' = "leaving" /\ Guest(r)' = None
      /\ box'[r] = "gone" => Place(r)' = "gone" /\ Guest(r)' = None
  BY DEF Found
<1> QED BY <1>1, <1>2, <1>3, OneMoves

(* A pump whose open or resume has returned or raised.                     *)
LEMMA PumpGoesOn ==
    ASSUME Sheltered, Orderly, Orderly', Found, Found', loop = "running", NEW s \in Sessions,
           Opened(s) \/ OpenFails(s) \/ ResumeFails(s)
    PROVE  \/ UNCHANGED Promised!promiseVars
           \/ \E r \in Sessions : Promised!CheckOut(r) \/ Promised!Gone(r)
<1> USE SessionsAssumption
<1>0. TypeOK /\ IInv /\ OutcomeInv /\ pump[s] \in {"opening", "resuming"} /\ loop' = "running"
  BY DEF Orderly, Opened, OpenFails, ResumeFails
<1>1. PICK r \in Sessions : r = mine[s] /\ box[r] = pump[s] /\ GuestOf(r, s)
  BY <1>0 DEF TypeOK, IInv, PumpInv, GuestOf
<1>2. CASE Opened(s) /\ ~SessionEnded(s)
  <2>1. /\ td[s] = "none" /\ UNCHANGED <<mine, td, tdRoom, byName, expiry>>
        /\ box' = [box EXCEPT ![r] = "live"] /\ room' = [room EXCEPT ![s] = r]
        /\ \A x \in Sessions : x # s => pump'[x] = pump[x]
    BY <1>0, <1>1, <1>2 DEF Opened, SessionEnded, keptVars, TypeOK
  <2>2. room[s] = None
    BY <1>0 DEF OutcomeInv, Awaiting
  <2>3. \A x \in Sessions : Held(x)
    BY <1>0, <1>1, <2>1, <2>2 DEF Held, GuestOf, KeptBy, TypeOK, Out
  <2>4. \A x \in Sessions : Stays(x)
    BY <1>0, <2>3, SameRoom DEF Held
  <2> QED BY <2>4, NothingMoves
<1>3. CASE ~(Opened(s) /\ ~SessionEnded(s))
  <2>1. /\ UNCHANGED <<mine, room, td, tdRoom, byName, expiry>>
        /\ \A x \in Sessions : x # s => pump'[x] = pump[x]
        /\ box' = [box EXCEPT ![r] = "destroying"] \/ box' = [box EXCEPT ![r] = "gone"]
    BY <1>0, <1>1, <1>3 DEF Opened, OpenFails, ResumeFails, SessionEnded, keptVars, TypeOK, Sheltered
  <2>2. \A x \in Sessions : x # r => Held(x)
    BY <1>0, <1>1, <2>1 DEF Held, GuestOf, KeptBy, TypeOK, Out
  <2>3. box'[r] \in {"destroying", "gone"}
    BY <1>0, <1>1, <2>1 DEF TypeOK
  <2> QED BY <1>0, <1>1, <2>2, <2>3, GivenUp
<1> QED BY <1>2, <1>3

(* The teardown's first step, the registration, and a pause that raised.   *)
LEMMA TeardownMoves ==
    ASSUME Orderly, Orderly', Found, Found', loop = "running", NEW s \in Sessions,
           RunTeardown(s) \/ Keep(s) \/ PauseFails(s)
    PROVE  \/ UNCHANGED Promised!promiseVars
           \/ \E r \in Sessions : Promised!Keep(r) \/ Promised!CheckOut(r) \/ Promised!Gone(r)
<1> USE SessionsAssumption
<1>0. TypeOK /\ IInv /\ CollectInv /\ ActiveInv /\ loop' = "running"
  BY DEF Orderly, RunTeardown, Keep, PauseFails
<1>1. CASE RunTeardown(s)
  <2>0. /\ td[s] \in {"begun", "begun_keep"} /\ room' = [room EXCEPT ![s] = None]
        /\ tdRoom' = [tdRoom EXCEPT ![s] = room[s]] /\ UNCHANGED <<pump, mine, byName, expiry>>
        /\ \A x \in Sessions : byName[User[x]] = x => x # s
    BY <1>0, <1>1 DEF RunTeardown, keptVars, IInv, RegistryInv, TypeOK
  <2>1. CASE room[s] = None
    <3>1. td' = [td EXCEPT ![s] = "empty"] /\ box' = box
      BY <1>1, <2>1 DEF RunTeardown
    <3>2. \A x \in Sessions : Held(x)
      BY <1>0, <2>0, <2>1, <3>1 DEF Held, GuestOf, KeptBy, TypeOK
    <3>3. \A x \in Sessions : Stays(x)
      BY <1>0, <3>2, SameRoom DEF Held
    <3> QED BY <3>3, NothingMoves
  <2>2. CASE room[s] # None
    <3>0. PICK r \in Sessions : r = room[s] /\ GuestOf(r, s) /\ box[r] = "live"
      BY <1>0, <2>0, <2>2 DEF TypeOK, GuestOf, IInv, SessionInv
    <3>1. CASE td' = [td EXCEPT ![s] = "pausing"] /\ box' = [box EXCEPT ![r] = "pausing"]
      <4>1. \A x \in Sessions : Held(x)
        BY <1>0, <2>0, <3>0, <3>1 DEF Held, GuestOf, KeptBy, TypeOK, Out
      <4>2. \A x \in Sessions : Stays(x)
        BY <1>0, <4>1, SameRoom DEF Held
      <4> QED BY <4>2, NothingMoves
    <3>2. CASE td' = [td EXCEPT ![s] = "destroying"] /\ box' = [box EXCEPT ![r] = "destroying"]
      <4>1. \A x \in Sessions : x # r => Held(x)
        BY <1>0, <2>0, <3>0, <3>2 DEF Held, GuestOf, KeptBy, TypeOK, Out
      <4>2. box'[r] = "destroying"
        BY <1>0, <3>2 DEF TypeOK
      <4> QED BY <1>0, <3>0, <4>1, <4>2, GivenUp
    <3> QED BY <1>1, <2>2, <3>0, <3>1, <3>2 DEF RunTeardown
  <2> QED BY <2>1, <2>2
<1>2. CASE Keep(s) \/ PauseFails(s)
  <2>0. PICK r \in Sessions : r = tdRoom[s] /\ GuestOf(r, s) /\ td[s] = "pausing"
    BY <1>0, <1>2 DEF TypeOK, GuestOf, IInv, TeardownInv, Keep, PauseFails
  <2>1. CASE Keep(s)
    <3>1. /\ td' = [td EXCEPT ![s] = "kept"] /\ expiry' = [expiry EXCEPT ![s] = "sleeping"]
          /\ byName' = [byName EXCEPT ![User[s]] = s]
          /\ UNCHANGED <<mine, pump, room, tdRoom, box>>
      BY <2>1 DEF Keep
    <3>2. byName[User[s]] = None
      BY <1>0, <2>0 DEF CollectInv, ActiveInv, TypeOK, Released
    <3>3. \A x \in Sessions : x # r => Held(x)
      BY <1>0, <2>0, <3>1, <3>2 DEF Held, GuestOf, KeptBy, TypeOK, Out
    <3>4. \A x \in Sessions : x # r => Stays(x)
      BY <1>0, <3>3, SameRoom DEF Held
    <3>5. KeptBy(r, s)'
      BY <1>0, <2>0, <3>1 DEF KeptBy, TypeOK
    <3>6. Place(r) = "guest" /\ Place(r)' = "kept" /\ Guest(r)' = None
      BY <1>0, <2>0, <3>5 DEF Found
    <3> QED BY <3>4, <3>6, OneMoves
  <2>2. CASE PauseFails(s)
    <3>1. /\ td' = [td EXCEPT ![s] = "destroying"] /\ box' = [box EXCEPT ![r] = "destroying"]
          /\ UNCHANGED <<mine, pump, room, tdRoom, byName, expiry>>
      BY <2>0, <2>2 DEF PauseFails, keptVars
    <3>2. \A x \in Sessions : x # r => Held(x)
      BY <1>0, <2>0, <3>1 DEF Held, GuestOf, KeptBy, TypeOK, Out
    <3>3. box'[r] = "destroying"
      BY <1>0, <3>1 DEF TypeOK
    <3> QED BY <1>0, <2>0, <3>2, <3>3, GivenUp
  <2> QED BY <1>2, <2>1, <2>2
<1> QED BY <1>1, <1>2

(* A registered room whose time is up, or that destroy_all takes.          *)
LEMMA KeptGoes ==
    ASSUME Orderly, Orderly', Found, Found', loop = "running", NEW k \in Sessions,
           \/ Expire(k)
           \/ Sweep(User[k]) /\ byName[User[k]] = k
    PROVE  \/ UNCHANGED Promised!promiseVars
           \/ \E r \in Sessions : Promised!CheckOut(r) \/ Promised!Gone(r)
<1> USE SessionsAssumption
<1>0. /\ TypeOK /\ IInv /\ CollectInv /\ loop' = "running"
      /\ UNCHANGED <<mine, pump, room, td, tdRoom>>
      /\ \A x \in Sessions : x # k => expiry'[x] = expiry[x]
  BY DEF Orderly, Expire, Sweep, TypeOK
<1>1. CASE byName[User[k]] = k
  <2>0. PICK r \in Sessions : r = tdRoom[k] /\ KeptBy(r, k)
    BY <1>0, <1>1 DEF TypeOK, IInv, RegistryInv, KeptBy, CollectInv
  <2>1. box' = [box EXCEPT ![r] = "destroying"] /\ byName' = [byName EXCEPT ![User[k]] = None]
    BY <1>1, <2>0 DEF Expire, Sweep, StillKept
  <2>2. \A x \in Sessions : x # r => Held(x)
    BY <1>0, <1>1, <2>0, <2>1 DEF Held, GuestOf, KeptBy, TypeOK, Out
  <2>3. box'[r] = "destroying"
    BY <1>0, <2>1 DEF TypeOK
  <2> QED BY <1>0, <2>0, <2>2, <2>3, GivenUp
<1>2. CASE byName[User[k]] # k
  <2>1. UNCHANGED <<box, byName>>
    BY <1>2 DEF Expire, StillKept
  <2>2. \A x \in Sessions : Held(x)
    BY <1>0, <1>2, <2>1 DEF Held, GuestOf, KeptBy, TypeOK
  <2>3. \A x \in Sessions : Stays(x)
    BY <1>0, <2>2, SameRoom DEF Held
  <2> QED BY <2>3, NothingMoves
<1> QED BY <1>1, <1>2

(* A call that comes to its end in the sandbox.  No open or resume ends    *)
(* without a taker, since none is cancelled.                               *)
LEMMA BoxMoves ==
    ASSUME Orderly, Orderly', Found, Found', loop = "running", NEW r \in Sessions, BoxEnds(r)
    PROVE  UNCHANGED Promised!promiseVars \/ Promised!Gone(r)
<1> USE SessionsAssumption
<1>0. TypeOK /\ IInv /\ loop' = "running" /\ UNCHANGED <<mine, pump, room, td, tdRoom, byName, expiry>>
  BY DEF Orderly, BoxEnds, BoxPaused, BoxDestroyed, BoxOpened, BoxStep, keptVars
<1>1. \A x \in Sessions : x # r => Held(x)
  BY <1>0 DEF BoxEnds, BoxPaused, BoxDestroyed, BoxOpened, BoxStep, Held, GuestOf, KeptBy, TypeOK
<1>2. \A x \in Sessions : x # r => Stays(x)
  BY <1>0, <1>1, SameRoom DEF Held
<1>3. CASE BoxPaused(r)
  <2>1. Held(r)
    BY <1>0, <1>3 DEF BoxPaused, BoxStep, Held, GuestOf, KeptBy, Out
  <2>2. Stays(r)
    BY <1>0, <2>1, SameRoom DEF Held
  <2> QED BY <1>2, <2>2, NothingMoves
<1>4. CASE BoxDestroyed(r)
  <2>1. Place(r) = "leaving" /\ Place(r)' = "gone" /\ Guest(r)' = None
    BY <1>0, <1>4 DEF BoxDestroyed, BoxStep, Found, TypeOK
  <2> QED BY <1>2, <2>1, OneMoves
<1>5. CASE BoxOpened(r)
  <2>1. box[r] \in {"opening", "resuming"} /\ ~Awaited(r)
    BY <1>5 DEF BoxOpened, BoxStep
  <2>2. \E s \in Sessions : GuestOf(r, s) \/ KeptBy(r, s)
    BY <2>1 DEF Found, Out
  <2>3. FALSE
    BY <1>0, <2>1, <2>2 DEF IInv, SessionInv, TeardownInv, RegistryInv, GuestOf, KeptBy, Awaited, TypeOK
  <2> QED BY <2>3
<1> QED BY <1>3, <1>4, <1>5 DEF BoxEnds

(* Once the server is going down the promise is over.                      *)
LEMMA DownStays ==
    ASSUME Found, Found', [Next]_vars, loop # "running"
    PROVE  UNCHANGED Promised!promiseVars
<1>1. ASSUME NEW s \in Sessions, SessionNext(s) \/ ForceClose(s) \/ CancelForce(s) PROVE loop' = loop
  <2>1. Channel(s) => loop' = loop
    BY DEF Channel, ConnectionMade, SessionStarted, Mute, ConnectionLost
  <2>2. PumpStep(s) => loop' = loop
    BY DEF PumpStep, RunPump, Opened, OpenFails, ResumeFails, Refuse, LateDone, Goodbye
  <2>3. TeardownStep(s) => loop' = loop
    BY DEF TeardownStep, RunTeardown, Keep, PauseFails, CheckedOut
  <2>4. CloserStep(s) \/ BoxEnds(s) \/ ReadEnds(s) \/ IdleFires(s) \/ Expire(s) \/ ForceClose(s)
          \/ CancelForce(s) => loop' = loop
    BY DEF CloserStep, IdleCloses, ForceCloses, BoxEnds, BoxPaused, BoxDestroyed, BoxOpened, BoxStep,
           ReadEnds, IdleFires, Expire, ForceClose, CancelForce
  <2> QED BY <1>1, <2>1, <2>2, <2>3, <2>4 DEF SessionNext
<1>2. loop' # "running"
  BY <1>1 DEF Next, Sweep, CancelAll, LoopStops, Stopped, vars
<1>3. \A x \in Sessions : Stays(x)
  BY <1>2 DEF Found, Stays
<1> QED BY <1>3, NothingMoves

(* Every step of a sheltered server is a step of RoomPromise or none.      *)
LEMMA StepKept ==
    ASSUME Sheltered, Orderly, Orderly', Found, Found', [Next]_vars
    PROVE  [Promised!PromiseNext]_(Promised!promiseVars)
<1> USE SessionsAssumption
<1> SUFFICES ASSUME loop = "running"
             PROVE  Promised!PromiseNext \/ UNCHANGED Promised!promiseVars
  BY DownStays
<1>1. ASSUME NEW s \in Sessions,
             \/ Channel(s) \/ CloserStep(s) \/ ReadEnds(s) \/ IdleFires(s) \/ ForceClose(s)
             \/ Refuse(s) \/ LateDone(s) \/ Goodbye(s) \/ CheckedOut(s)
      PROVE  UNCHANGED Promised!promiseVars
  <2>1. loop' = "running" /\ \A x \in Sessions : Held(x)
    BY <1>1, QuietSteps
  <2>2. \A x \in Sessions : Stays(x)
    BY <2>1, SameRoom DEF Held
  <2> QED BY <2>2, NothingMoves
<1>2. ASSUME NEW s \in Sessions, RunPump(s) PROVE Promised!PromiseNext
  BY <1>2, PumpStarts DEF Promised!PromiseNext, Promised!Rooms
<1>3. ASSUME NEW s \in Sessions, Opened(s) \/ OpenFails(s) \/ ResumeFails(s)
      PROVE  Promised!PromiseNext \/ UNCHANGED Promised!promiseVars
  BY <1>3, PumpGoesOn DEF Promised!PromiseNext, Promised!Rooms
<1>4. ASSUME NEW s \in Sessions, RunTeardown(s) \/ Keep(s) \/ PauseFails(s)
      PROVE  Promised!PromiseNext \/ UNCHANGED Promised!promiseVars
  BY <1>4, TeardownMoves DEF Promised!PromiseNext, Promised!Rooms
<1>5. ASSUME NEW s \in Sessions, Expire(s) PROVE Promised!PromiseNext \/ UNCHANGED Promised!promiseVars
  BY <1>5, KeptGoes DEF Promised!PromiseNext, Promised!Rooms
<1>6. ASSUME NEW u \in Usernames, Sweep(u) PROVE Promised!PromiseNext \/ UNCHANGED Promised!promiseVars
  <2>1. PICK k \in Sessions : k = byName[u] /\ User[k] = u
    BY <1>6 DEF Sweep, Orderly, TypeOK, IInv, RegistryInv
  <2> QED BY <1>6, <2>1, KeptGoes DEF Promised!PromiseNext, Promised!Rooms
<1>7. ASSUME NEW s \in Sessions, BoxEnds(s) PROVE Promised!PromiseNext \/ UNCHANGED Promised!promiseVars
  BY <1>7, BoxMoves DEF Promised!PromiseNext, Promised!Rooms
<1>8. ASSUME NEW s \in Sessions PROVE ~CancelForce(s)
  BY DEF CancelForce, Sheltered
<1>9. CASE CancelAll
  <2>1. \A x \in Sessions : Place(x)' = "down" /\ Guest(x)' = None
    BY <1>9 DEF CancelAll, Found
  <2>2. Promised!Down
    BY <2>1 DEF Promised!Down, Promised!Rooms
  <2> QED BY <2>2 DEF Promised!PromiseNext
<1>10. ~LoopStops /\ ~Stopped
  BY DEF LoopStops, Stopped
<1>11. CASE UNCHANGED vars
  <2>1. \A x \in Sessions : Held(x)
    BY <1>11 DEF vars, Held, GuestOf, KeptBy
  <2>2. \A x \in Sessions : Stays(x)
    BY <1>11, <2>1, SameRoom DEF Held, vars
  <2> QED BY <2>2, NothingMoves
<1> QED
  BY <1>1, <1>2, <1>3, <1>4, <1>5, <1>6, <1>7, <1>8, <1>9, <1>10, <1>11
  DEF Next, SessionNext, PumpStep, TeardownStep

(* A room of a sheltered server is with one guest, kept for its username,  *)
(* on its way out or gone, it never is anywhere else and never comes back, *)
(* for any number of sessions: session.py keeps the promise of module      *)
(* RoomPromise, but for its liveness.                                      *)
THEOREM PromiseKept == Sheltered => (Spec => Promised!Promise)
<1> SUFFICES ASSUME Sheltered PROVE Spec => Promised!Promise
  OBVIOUS
<1>1. Init /\ Found => Promised!PromiseInit
  BY DEF Init, Found, Promised!PromiseInit, Promised!Rooms
<1>2. Orderly => Found
  BY Whereabouts
<1>3. Sheltered /\ Orderly /\ Orderly' /\ Found /\ Found' /\ [Next]_vars
        => [Promised!PromiseNext]_(Promised!promiseVars)
  BY StepKept
<1>4. Spec => [](CollectInv /\ NoOrphan)
  BY Collectors
<1>5. Spec => []Orderly
  BY <1>4, TypeCorrect, Invariance, Outcomes, PTL DEF Orderly
<1> QED BY <1>1, <1>2, <1>3, <1>5, PTL DEF Spec, Promised!Promise
=============================================================================
