---------------------------- MODULE RoomPromise -----------------------------
(***************************************************************************)
(* What keycard promises of a room while the server is up, without any of  *)
(* the tasks that keep the promise: a room is with one guest, or kept for  *)
(* the username it was opened for, or on its way out, or gone.  It never   *)
(* is anywhere else, it never comes back, and what is kept or on its way   *)
(* out does not stay so.                                                   *)
(***************************************************************************)
CONSTANTS Sessions, Usernames, User, None

VARIABLES
    place,      \* where each room is; a room is named after the session that opens it
    guest       \* the session that has it

promiseVars == <<place, guest>>

Rooms == Sessions

NoRoomYet(s) == \A r \in Rooms : guest[r] # s

PromiseInit ==
    /\ place = [r \in Rooms |-> "none"]
    /\ guest = [r \in Rooms |-> None]

(* A session opens a room of its own.                                      *)
CheckIn(r) ==
    /\ place[r] = "none"
    /\ NoRoomYet(r)
    /\ place' = [place EXCEPT ![r] = "guest"]
    /\ guest' = [guest EXCEPT ![r] = r]

(* The guest hung up and the room is paused.                               *)
Keep(r) ==
    /\ place[r] = "guest"
    /\ place' = [place EXCEPT ![r] = "kept"]
    /\ guest' = [guest EXCEPT ![r] = None]

(* A guest of the same username gets the paused room.                      *)
Reclaim(r, s) ==
    /\ place[r] = "kept"
    /\ User[s] = User[r]
    /\ NoRoomYet(s)
    /\ place' = [place EXCEPT ![r] = "guest"]
    /\ guest' = [guest EXCEPT ![r] = s]

(* The room's destruction starts.                                          *)
CheckOut(r) ==
    /\ place[r] \in {"guest", "kept"}
    /\ place' = [place EXCEPT ![r] = "leaving"]
    /\ guest' = [guest EXCEPT ![r] = None]

(* It is gone, or could not be opened.                                     *)
Gone(r) ==
    /\ place[r] \in {"guest", "leaving"}
    /\ place' = [place EXCEPT ![r] = "gone"]
    /\ guest' = [guest EXCEPT ![r] = None]

(* The server goes down; what becomes of the rooms is module Shutdown's.   *)
Down ==
    /\ place' = [r \in Rooms |-> "down"]
    /\ guest' = [r \in Rooms |-> None]

PromiseNext ==
    \/ \E r \in Rooms : CheckIn(r) \/ Keep(r) \/ CheckOut(r) \/ Gone(r)
    \/ \E r, s \in Rooms : Reclaim(r, s)
    \/ Down

PromiseFairness ==
    \A r \in Rooms :
        /\ WF_promiseVars(place[r] = "leaving" /\ Gone(r))
        /\ WF_promiseVars(place[r] = "kept" /\ (CheckOut(r) \/ \E s \in Rooms : Reclaim(r, s)))

Promise == PromiseInit /\ [][PromiseNext]_promiseVars
FairPromise == Promise /\ PromiseFairness
=============================================================================
