------------------------------ MODULE Terminal ------------------------------
(***************************************************************************)
(* What a client types and the size of its window on their way to a room   *)
(* (RoomSession in src/keycard/session.py): data_received queues input     *)
(* from the moment the session starts, _feed delivers it in order once     *)
(* there is a room, terminal_size_changed records a size and, if there is  *)
(* a room, forwards it in a task of its own.  docker runs that task's call *)
(* in an executor thread, firecracker sends it down the control channel.   *)
(* Neither backend lets a failed write or resize be seen above base.py.    *)
(*                                                                         *)
(* Chunks of input are numbered as they are typed.  A size is one number,  *)
(* since the code treats width and height alike.  As in Sessions, a        *)
(* definition that follows a variant of itself is the code's.              *)
(***************************************************************************)
EXTENDS Naturals, Sequences

CONSTANTS
    Backlog,        \* INPUT_BACKLOG
    MaxChunks,      \* bound on what the client types
    MaxResizes,     \* bound on how often its window changes
    Sizes,          \* the sizes its window may have
    Default         \* the size a room has when it was not told any

ASSUME TerminalAssumption ==
    /\ Backlog \in Nat \ {0}
    /\ MaxChunks \in Nat
    /\ MaxResizes \in Nat
    /\ Sizes \subseteq Nat \ {0}
    /\ Default \in Nat \ {0}

VARIABLES
    phase,      \* where the session is
    threaded,   \* the room's backend resizes in threads (docker)
    size,       \* RoomSession._size
    given,      \* the size open or resume was called with
    roomSize,   \* the size of the room's pty
    resizing,   \* the resize tasks that have not reached the room, oldest first
    resizes,    \* how often the window has changed
    last,       \* history: the last size reported, and where the session was
    fate,       \* history: what became of the last size the room was told
    typed,      \* how many chunks have arrived
    dropped,    \* those that found the queue full
    lost,       \* those whose write failed
    tty,        \* how the room takes input
    queue,      \* RoomSession._input
    feeding,    \* the chunk _feed is writing, 0 for none
    received    \* what the room has got

sizeVars == <<threaded, size, given, roomSize, resizing, resizes, last, fate>>
inputVars == <<typed, dropped, lost, tty, queue, feeding, received>>
terminalVars == <<phase, sizeVars, inputVars>>

Phases == {"connected", "created", "opening", "open", "ended"}

(* A size of 0 means that the client does not know it.                     *)
Reported == Sizes \cup {0}

(* Waiting for the room, taken by it, failed there, or taken and then      *)
(* replaced by an older one.                                               *)
Fates == {"pending", "landed", "refused", "overtaken"}

TerminalTypeOK ==
    /\ phase \in Phases
    /\ threaded \in BOOLEAN
    /\ size \in Sizes \cup {Default}
    /\ given \in Sizes \cup {Default}
    /\ roomSize \in Reported \cup {Default}
    /\ resizing \in Seq(Reported)
    /\ resizes \in 0..MaxResizes
    /\ last \in [at : Phases, size : Reported \cup {Default}]
    /\ fate \in Fates
    /\ typed \in 0..MaxChunks
    /\ dropped \subseteq 1..typed
    /\ lost \subseteq 1..typed
    /\ tty \in {"reads", "wedged", "broken"}
    /\ queue \in Seq(1..typed)
    /\ Len(queue) <= Backlog
    /\ feeding \in 0..typed
    /\ received \in Seq(1..typed)

TerminalInit ==
    /\ phase = "connected"
    /\ threaded \in BOOLEAN
    /\ size = Default
    /\ given = Default
    /\ roomSize \in Sizes \cup {Default}    \* a kept room has one already
    /\ resizing = <<>>
    /\ resizes = 0
    /\ last = [at |-> "connected", size |-> Default]
    /\ fate = "pending"
    /\ typed = 0
    /\ dropped = {}
    /\ lost = {}
    /\ tty = "reads"
    /\ queue = <<>>
    /\ feeding = 0
    /\ received = <<>>

-----------------------------------------------------------------------------
(* The life of the session, as far as it matters here.                     *)

PtyRequested(n) ==
    /\ phase = "connected"
    /\ size' = IF n = 0 THEN Default ELSE n
    /\ last' = [at |-> phase, size |-> n]
    /\ UNCHANGED <<phase, threaded, given, roomSize, resizing, resizes, fate, inputVars>>

SessionStarted ==
    /\ phase = "connected"
    /\ phase' = "created"
    /\ UNCHANGED <<sizeVars, inputVars>>

(* _run calls open or resume with the size there is.                       *)
RunPump ==
    /\ phase = "created"
    /\ phase' = "opening"
    /\ given' = size
    /\ UNCHANGED <<threaded, size, roomSize, resizing, resizes, last, fate, inputVars>>

OpenedUnsized ==
    /\ phase = "opening"
    /\ phase' = "open"
    /\ fate' = "landed"
    /\ UNCHANGED <<threaded, size, given, roomSize, resizing, resizes, last, inputVars>>

(* The room is attached and sized, then _feed starts.                      *)
Opened ==
    /\ phase = "opening"
    /\ phase' = "open"
    /\ roomSize' = given
    /\ fate' = "landed"
    /\ UNCHANGED <<threaded, size, given, resizing, resizes, last, inputVars>>

(* Its resize fails, which _attach logs and goes on from.                  *)
OpenedResizeFails ==
    /\ phase = "opening"
    /\ phase' = "open"
    /\ fate' = "refused"
    /\ UNCHANGED <<threaded, size, given, roomSize, resizing, resizes, last, inputVars>>

(* The open fails, or the session ends: the feeder is cancelled, whatever  *)
(* it holds, and a resize no longer finds the room.                        *)
Ends ==
    /\ phase \in {"created", "opening", "open"}
    /\ phase' = "ended"
    /\ feeding' = 0
    /\ resizing' = <<>>
    /\ UNCHANGED <<threaded, size, given, roomSize, resizes, last, fate>>
    /\ UNCHANGED <<typed, dropped, lost, tty, queue, received>>

-----------------------------------------------------------------------------
(* The window.                                                             *)

TerminalSizeChanged(n) ==
    /\ phase # "ended"
    /\ resizes < MaxResizes
    /\ resizes' = resizes + 1
    /\ last' = [at |-> phase, size |-> n]
    /\ size' = IF n = 0 THEN size ELSE n
    /\ IF phase = "open"
       THEN resizing' = Append(resizing, n) /\ fate' = "pending"
       ELSE UNCHANGED <<resizing, fate>>
    /\ UNCHANGED <<phase, threaded, given, roomSize, inputVars>>

(* Resizes come to their end in any order in threads, in their own on a    *)
(* channel.  The last one sent is still pending if it is among them.       *)
Without(i) == SubSeq(resizing, 1, i - 1) \o SubSeq(resizing, i + 1, Len(resizing))

IsLastSent(i) == fate = "pending" /\ i = Len(resizing)

ResizeEnds(i) ==
    /\ phase = "open"
    /\ i \in DOMAIN resizing
    /\ threaded \/ i = 1
    /\ resizing' = Without(i)
    /\ UNCHANGED <<phase, threaded, size, given, resizes, last, inputVars>>

ResizeLands(i) ==
    /\ ResizeEnds(i)
    /\ roomSize' = resizing[i]
    /\ fate' = IF IsLastSent(i) THEN "landed" ELSE IF fate = "landed" THEN "overtaken" ELSE fate

(* An exception of docker, or of the control socket, is swallowed.         *)
ResizeFails(i) ==
    /\ ResizeEnds(i)
    /\ fate' = IF IsLastSent(i) THEN "refused" ELSE fate
    /\ UNCHANGED roomSize

-----------------------------------------------------------------------------
(* Input.                                                                  *)

(* put_nowait: what finds the queue full is dropped.                       *)
DropOldest(n) ==
    IF Len(queue) < Backlog
    THEN queue' = Append(queue, n) /\ UNCHANGED dropped
    ELSE queue' = Append(Tail(queue), n) /\ dropped' = dropped \cup {Head(queue)}

NoLimit(n) == queue' = Append(queue, n) /\ UNCHANGED dropped

PutNowait(n) ==
    IF Len(queue) < Backlog
    THEN queue' = Append(queue, n) /\ UNCHANGED dropped
    ELSE dropped' = dropped \cup {n} /\ UNCHANGED queue

DataReceived ==
    /\ phase \notin {"connected", "ended"}
    /\ typed < MaxChunks
    /\ typed' = typed + 1
    /\ PutNowait(typed')
    /\ UNCHANGED <<phase, sizeVars, lost, tty, feeding, received>>

(* _feed takes a chunk and awaits its write.                               *)
FeedTakesNewest ==
    /\ phase = "open"
    /\ feeding = 0
    /\ queue # <<>>
    /\ feeding' = queue[Len(queue)]
    /\ queue' = SubSeq(queue, 1, Len(queue) - 1)
    /\ UNCHANGED <<phase, sizeVars, typed, dropped, lost, tty, received>>

FeedTakes ==
    /\ phase = "open"
    /\ feeding = 0
    /\ queue # <<>>
    /\ feeding' = Head(queue)
    /\ queue' = Tail(queue)
    /\ UNCHANGED <<phase, sizeVars, typed, dropped, lost, tty, received>>

FeedWrites ==
    /\ feeding # 0
    /\ tty = "reads"
    /\ received' = Append(received, feeding)
    /\ feeding' = 0
    /\ UNCHANGED <<phase, sizeVars, typed, dropped, lost, tty, queue>>

(* The socket refuses: write swallows the error and _feed goes on.  What   *)
(* may have got through of the chunk before is lost with the rest of it.   *)
FeedWriteFails ==
    /\ feeding # 0
    /\ tty = "broken"
    /\ lost' = lost \cup {feeding}
    /\ feeding' = 0
    /\ UNCHANGED <<phase, sizeVars, typed, dropped, tty, queue, received>>

-----------------------------------------------------------------------------
(* The room (external): it may stop reading for good, in which case a write*)
(* is awaited for ever, and its end of the socket may go.                  *)
RoomWedges ==
    /\ phase = "open"
    /\ tty = "reads"
    /\ tty' = "wedged"
    /\ UNCHANGED <<phase, sizeVars, typed, dropped, lost, queue, feeding, received>>

RoomBreaks ==
    /\ phase = "open"
    /\ tty # "broken"
    /\ tty' = "broken"
    /\ UNCHANGED <<phase, sizeVars, typed, dropped, lost, queue, feeding, received>>

-----------------------------------------------------------------------------
Feed == FeedTakes \/ FeedWrites \/ FeedWriteFails

Over == phase = "ended" /\ UNCHANGED terminalVars

TerminalNext ==
    \/ SessionStarted \/ RunPump \/ Opened \/ OpenedResizeFails \/ Ends
    \/ \E n \in Reported : PtyRequested(n) \/ TerminalSizeChanged(n)
    \/ \E i \in 1..MaxResizes : ResizeLands(i) \/ ResizeFails(i)
    \/ DataReceived \/ Feed
    \/ RoomWedges \/ RoomBreaks
    \/ Over

(* The event loop runs the pump and the feeder; an open returns or fails;  *)
(* a room that reads takes a write in the end.                             *)
TerminalFairness ==
    /\ WF_terminalVars(RunPump)
    /\ WF_terminalVars(phase = "opening" /\ (Opened \/ OpenedResizeFails \/ Ends))
    /\ WF_terminalVars(Feed)

TerminalSpec == TerminalInit /\ [][TerminalNext]_terminalVars
FairTerminalSpec == TerminalSpec /\ TerminalFairness

-----------------------------------------------------------------------------
(* Properties.                                                             *)

Held == IF feeding = 0 THEN <<>> ELSE <<feeding>>

Pipeline == received \o Held \o queue

(* The room gets what was typed in the order it was typed, nothing twice;  *)
(* and while the session lasts each chunk is with the room, in the feeder's*)
(* hands or in the queue, or it is one of two kinds that are lost.  What is*)
(* dropped is the newest: of a flood, what was typed first stays.  What a  *)
(* write lost (its error is swallowed in write) comes after all that the   *)
(* room got: a room that broke gets nothing more, but never a later chunk. *)
InputInOrder ==
    /\ \A i, j \in DOMAIN Pipeline : i < j => Pipeline[i] < Pipeline[j]
    /\ phase # "ended" => 1..typed = dropped \cup lost \cup {Pipeline[i] : i \in DOMAIN Pipeline}
    /\ \A n \in dropped : n > Backlog
    /\ lost # {} => tty = "broken"
    /\ \A n \in lost, i \in DOMAIN received : received[i] < n

(* When no resize is under way the room has the size the client last       *)
(* reported, but for three cases, each of which lasts until the next       *)
(* report: it came while open or resume was awaited, and was recorded after*)
(* they had been given a size (against session.py:180-182, by which open   *)
(* "is about to be told what size to use", and CHANGELOG.md:252); the call *)
(* that told the room failed, which both backends swallow; or, in docker's *)
(* threads only, an older resize landed after it.                          *)
SizeSettles ==
    phase = "open" /\ resizing = <<>> /\ last.size # 0
        => \/ roomSize = last.size /\ size = last.size
           \/ last.at = "opening"
           \/ fate = "refused"
           \/ fate = "overtaken" /\ threaded

(* What was typed ahead reaches the room, unless the session ends first, or*)
(* the room stops reading or breaks: nothing in the session waits for ever *)
(* by itself.                                                              *)
TypedIsDelivered ==
    \A n \in 1..MaxChunks :
        (\E i \in DOMAIN queue : queue[i] = n)
            ~> \/ \E i \in DOMAIN received : received[i] = n
               \/ n \in lost
               \/ phase = "ended"
               \/ tty = "wedged"
=============================================================================
