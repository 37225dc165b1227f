---------------------------- MODULE RoomContract ----------------------------
(***************************************************************************)
(* What base.py asks of every backend, whatever a room is made of.  A room *)
(* that is opened is either handed over or given up; it is closed once, or *)
(* frozen; and only a room that stayed frozen is ever handed back, with    *)
(* its shell where it was.  No call stays under way for ever.              *)
(***************************************************************************)
VARIABLES
    room,       \* the room, as the session layer sees it
    life        \* the shell in it

contractVars == <<room, life>>

ContractInit == room = "none" /\ life = "none"

Begin == /\ room = "none"
         /\ room' = "opening"
         /\ UNCHANGED life

(* The shell starts, ends by itself or is ended, whoever is looking.       *)
Starts == /\ room \in {"opening", "open", "closing"}
          /\ life = "none"
          /\ life' = "running"
          /\ UNCHANGED room

Ends == /\ life \in {"running", "frozen"}
        /\ life' = "ended"
        /\ UNCHANGED room

Opened == /\ room \in {"opening", "resuming"}
          /\ room' = "open"
          /\ UNCHANGED life

(* Freezing is best effort: a shell that cannot be frozen goes on.         *)
Keep == /\ room = "open"
        /\ room' = "kept"
        /\ life' \in IF life = "running" THEN {"running", "frozen"} ELSE {life}

Wake == /\ room = "kept"
        /\ life = "frozen"
        /\ room' = "resuming"
        /\ life' = "running"

Close == /\ room \in {"open", "kept", "resuming"}
         /\ room' = "closing"
         /\ UNCHANGED life

Gone == /\ room \in {"opening", "closing"}
        /\ room' = "gone"
        /\ life' \in {life, "ended"}

ContractNext ==
    \/ Begin \/ Starts \/ Ends \/ Opened \/ Keep \/ Wake \/ Close \/ Gone

ContractSteps == ContractInit /\ [][ContractNext]_contractVars

Contract ==
    /\ ContractSteps
    /\ WF_contractVars(Opened \/ (room = "opening" /\ Gone))
    /\ WF_contractVars(room = "closing" /\ Gone)
=============================================================================
