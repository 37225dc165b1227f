--------------------------- MODULE Terminal_proofs --------------------------
(***************************************************************************)
(* Proofs about Terminal, for any backlog, any amount of input and any     *)
(* number of resizes.                                                      *)
(***************************************************************************)
EXTENDS Terminal, SequenceTheorems, TLAPS

USE TerminalAssumption
USE DEF sizeVars, inputVars

(***************************************************************************)
(* Where the chunks are.  Stated of the room's input, the feeder's chunk   *)
(* and the queue one by one rather than of their concatenation: each action*)
(* touches two of them at most.                                            *)
(***************************************************************************)
OrderInv ==
    /\ feeding # 0 => phase = "open"
    /\ \A i, j \in DOMAIN received : i < j => received[i] < received[j]
    /\ \A i, j \in DOMAIN queue : i < j => queue[i] < queue[j]
    /\ \A i \in DOMAIN received, j \in DOMAIN queue : received[i] < queue[j]
    /\ feeding # 0 => /\ \A i \in DOMAIN received : received[i] < feeding
                      /\ \A j \in DOMAIN queue : feeding < queue[j]
    /\ lost # {} => tty = "broken"
    /\ \A n \in lost : /\ \A i \in DOMAIN received : received[i] < n
                       /\ feeding # 0 => n < feeding
                       /\ \A j \in DOMAIN queue : n < queue[j]

Somewhere(n) ==
    \/ n \in dropped \cup lost
    \/ n = feeding
    \/ \E i \in DOMAIN received : received[i] = n
    \/ \E j \in DOMAIN queue : queue[j] = n

(* No more is queued than was typed, so a chunk that finds the queue full  *)
(* is beyond the first Backlog.                                            *)
NoneLostInv ==
    /\ Len(queue) <= typed
    /\ phase # "ended" => \A n \in 1..typed : Somewhere(n)
    /\ \A n \in dropped : n > Backlog

InputInv == OrderInv /\ NoneLostInv

(***************************************************************************)
(* What the room has, or will have once the resizes under way have come to *)
(* their end.  A pending resize is the last of them; one that landed and   *)
(* was not overtaken has left its size.                                    *)
(***************************************************************************)
SizeInv ==
    /\ last.size # 0 => size = last.size
    /\ phase # "open" => resizing = <<>>
    /\ last.at = "open" => phase \in {"open", "ended"}
    /\ last.at = "opening" => phase \in {"opening", "open", "ended"}
    /\ phase = "opening" /\ last.at # "opening" => given = size
    /\ phase = "open" /\ last.at # "open" => resizing = <<>> /\ fate \in {"landed", "refused"}
    /\ phase = "open" /\ last.at \notin {"open", "opening"} /\ fate = "landed" => roomSize = size
    /\ phase = "open" /\ last.at = "open" =>
         /\ fate = "pending" => resizing # <<>> /\ resizing[Len(resizing)] = last.size
         /\ fate = "landed" => roomSize = last.size
    /\ fate = "overtaken" => threaded
    /\ phase = "open" /\ fate = "landed" /\ ~threaded => resizing = <<>>

TerminalInv == TerminalTypeOK /\ InputInv

(* A session that has just been connected.                                 *)
LEMMA InitTerminalInv == ASSUME TerminalInit PROVE TerminalInv /\ SizeInv
BY DEF TerminalInit, TerminalInv, TerminalTypeOK, Phases, Reported, Fates, InputInv, OrderInv, NoneLostInv, Somewhere, SizeInv

(* A chunk arrives: it is queued, or dropped when the queue is full.       *)
LEMMA DataKept == ASSUME TerminalInv, DataReceived PROVE TerminalInv'
<1> USE DEF TerminalTypeOK, InputInv, OrderInv, NoneLostInv, TerminalInv
<1>1. /\ typed' = typed + 1 /\ typed' \in 0..MaxChunks
      /\ phase # "ended" /\ UNCHANGED <<phase, sizeVars, lost, tty, feeding, received>>
  BY DEF DataReceived
<1>2. CASE Len(queue) < Backlog
  <2>1. queue' = Append(queue, typed') /\ UNCHANGED dropped
    BY <1>2 DEF DataReceived, PutNowait
  <2>2. queue \in Seq(1..typed') /\ typed' \in 1..typed' /\ received \in Seq(1..typed')
    BY <1>1, SeqMonotonic
  <2>3. /\ queue' \in Seq(1..typed') /\ Len(queue') = Len(queue) + 1
        /\ \A j \in DOMAIN queue' : queue'[j] = IF j <= Len(queue) THEN queue[j] ELSE typed'
        /\ Len(queue) \in Nat /\ DOMAIN queue' = 1..Len(queue)+1 /\ DOMAIN queue = 1..Len(queue)
    BY <2>1, <2>2, AppendProperties, LenProperties
  <2>4. \A i \in DOMAIN received : received[i] \in 1..typed
    BY LenProperties, ElementOfSeq
  <2>5. \A j \in DOMAIN queue : queue[j] \in 1..typed
    BY LenProperties, ElementOfSeq
  <2>6. TerminalTypeOK'
    BY <1>1, <1>2, <2>1, <2>2, <2>3
  <2>7. OrderInv'
    <3>1. typed \in Nat /\ feeding \in 0..typed /\ lost \subseteq 1..typed /\ OrderInv
      OBVIOUS
    <3> HIDE DEF TerminalTypeOK, NoneLostInv, InputInv, TerminalInv
    <3>2. ASSUME NEW j \in DOMAIN queue'
          PROVE  \/ j \in DOMAIN queue /\ queue'[j] = queue[j]
                 \/ j = Len(queue) + 1 /\ queue'[j] = typed + 1
      <4>1. CASE j <= Len(queue)
        BY <4>1, <2>3
      <4>2. CASE ~(j <= Len(queue))
        BY <4>2, <1>1, <2>3
      <4> QED BY <4>1, <4>2
    <3>3. \A i, j \in DOMAIN queue' : i < j => queue'[i] < queue'[j]
      BY <2>3, <2>5, <3>1, <3>2
    <3>4. \A i \in DOMAIN received, j \in DOMAIN queue' : received[i] < queue'[j]
      BY <2>4, <3>1, <3>2
    <3>5. feeding # 0 => \A j \in DOMAIN queue' : feeding < queue'[j]
      BY <3>1, <3>2
    <3>6. \A n \in lost, j \in DOMAIN queue' : n < queue'[j]
      BY <3>1, <3>2
    <3> QED BY <1>1, <3>1, <3>3, <3>4, <3>5, <3>6
  <2>8. NoneLostInv'
    <3>1. ASSUME NEW n \in 1..typed' PROVE Somewhere(n)'
      <4>1. CASE n = typed'
        <5> HIDE DEF TerminalTypeOK, OrderInv, NoneLostInv, InputInv, TerminalInv
        <5>1. Len(queue) + 1 \in DOMAIN queue' /\ queue'[Len(queue) + 1] = n
          BY <4>1, <2>3
        <5> QED BY <5>1 DEF Somewhere
      <4>2. CASE n # typed'
        <5>1. Somewhere(n)
          BY <4>2, <1>1
        <5>2. \A j \in DOMAIN queue : j \in DOMAIN queue' /\ queue'[j] = queue[j]
          BY <2>3
        <5> QED BY <5>1, <5>2, <1>1, <2>1 DEF Somewhere
      <4> QED BY <4>1, <4>2
    <3> QED BY <3>1, <1>1, <2>1, <2>3
  <2> QED BY <2>6, <2>7, <2>8
<1>3. CASE ~(Len(queue) < Backlog)
  <2>1. dropped' = dropped \cup {typed'} /\ UNCHANGED queue
    BY <1>3 DEF DataReceived, PutNowait
  <2>2. queue \in Seq(1..typed') /\ received \in Seq(1..typed') /\ Len(queue) \in Nat
    BY <1>1, SeqMonotonic, LenProperties
  <2>3. TerminalTypeOK'
    BY <1>1, <2>1, <2>2
  <2>4. OrderInv'
    BY <1>1, <2>1
  <2>5. NoneLostInv'
    <3>1. ASSUME NEW n \in 1..typed' PROVE Somewhere(n)'
      <4>1. n = typed' \/ Somewhere(n)
        BY <1>1
      <4> HIDE DEF TerminalTypeOK, OrderInv, NoneLostInv, InputInv, TerminalInv
      <4> QED BY <1>1, <2>1, <4>1 DEF Somewhere
    <3>2. typed' > Backlog
      BY <1>1, <1>3, <2>2
    <3> QED BY <3>1, <3>2, <1>1, <2>1, <2>2
  <2> QED BY <2>3, <2>4, <2>5
<1> QED BY <1>2, <1>3

(* _feed takes the oldest chunk of the queue.                              *)
LEMMA TakesOldest == ASSUME TerminalInv, FeedTakes PROVE TerminalInv'
<1> USE DEF TerminalTypeOK, InputInv, OrderInv, NoneLostInv, TerminalInv
<1>1. /\ phase = "open" /\ feeding = 0 /\ queue # <<>>
      /\ feeding' = Head(queue) /\ queue' = Tail(queue)
      /\ UNCHANGED <<phase, sizeVars, typed, dropped, lost, tty, received>>
  BY DEF FeedTakes
<1>2. /\ Len(queue) \in Nat /\ Len(queue) > 0 /\ DOMAIN queue = 1..Len(queue)
      /\ feeding' = queue[1] /\ feeding' \in 1..typed
  BY <1>1, LenProperties, EmptySeq, ElementOfSeq
<1>3. /\ queue' \in Seq(1..typed) /\ Len(queue') = Len(queue) - 1
      /\ DOMAIN queue' = 1..Len(queue) - 1
      /\ \A j \in DOMAIN queue' : queue'[j] = queue[j + 1]
  BY <1>1, <1>2, HeadTailProperties, LenProperties
<1>4. \A j \in DOMAIN queue : queue[j] \in 1..typed
  BY LenProperties, ElementOfSeq
<1>5. \A i \in DOMAIN received : received[i] \in 1..typed
  BY LenProperties, ElementOfSeq
<1>6. TerminalTypeOK'
  BY <1>1, <1>2, <1>3
<1>7. OrderInv'
  <2>0. OrderInv
    OBVIOUS
  <2> HIDE DEF TerminalTypeOK, NoneLostInv, InputInv, TerminalInv
  <2>1. \A j \in DOMAIN queue' : j + 1 \in DOMAIN queue /\ 1 \in DOMAIN queue /\ 1 < j + 1
    BY <1>2, <1>3
  <2>2. \A i, j \in DOMAIN queue' : i < j => queue'[i] < queue'[j]
    <3>1. ASSUME NEW i \in DOMAIN queue', NEW j \in DOMAIN queue', i < j PROVE i + 1 < j + 1
      BY <3>1, <1>2, <1>3
    <3> QED BY <3>1, <2>0, <2>1, <1>3
  <2>3. \A j \in DOMAIN queue' : feeding' < queue'[j]
    BY <1>2, <1>3, <2>0, <2>1
  <2>4. \A i \in DOMAIN received, j \in DOMAIN queue' : received[i] < queue'[j]
    BY <1>3, <2>0, <2>1
  <2>5. \A i \in DOMAIN received : received[i] < feeding'
    <3>1. 1 \in DOMAIN queue
      BY <1>2
    <3> QED BY <1>2, <2>0, <3>1
  <2> QED BY <1>1, <2>0, <2>2, <2>3, <2>4, <2>5
<1>8. NoneLostInv'
  <2>1. ASSUME NEW n \in 1..typed PROVE Somewhere(n)'
    <3>1. ASSUME NEW j \in DOMAIN queue, queue[j] = n PROVE Somewhere(n)'
      <4>1. CASE j = 1
        BY <4>1, <3>1, <1>2 DEF Somewhere
      <4>2. CASE j # 1
        <5> HIDE DEF TerminalTypeOK, OrderInv, NoneLostInv, InputInv, TerminalInv
        <5>1. j - 1 \in DOMAIN queue' /\ (j - 1) + 1 = j
          BY <4>2, <3>1, <1>2, <1>3
        <5>2. queue'[j - 1] = n
          BY <5>1, <3>1, <1>3
        <5> QED BY <5>1, <5>2 DEF Somewhere
      <4> QED BY <4>1, <4>2
    <3>2. Somewhere(n) /\ n # 0
      BY <1>1
    <3> QED BY <3>1, <3>2, <1>1 DEF Somewhere
  <2> QED BY <2>1, <1>1, <1>3
<1> QED BY <1>6, <1>7, <1>8

(* The room has got the chunk that _feed was writing.                      *)
LEMMA WritesNext == ASSUME TerminalInv, FeedWrites PROVE TerminalInv'
<1> USE DEF TerminalTypeOK, InputInv, OrderInv, NoneLostInv, TerminalInv
<1>1. /\ feeding # 0 /\ feeding' = 0 /\ received' = Append(received, feeding) /\ tty = "reads" /\ lost = {}
      /\ UNCHANGED <<phase, sizeVars, typed, dropped, lost, tty, queue>>
  BY DEF FeedWrites
<1>2. feeding \in 1..typed
  BY <1>1
<1>3. /\ received' \in Seq(1..typed) /\ Len(received) \in Nat
      /\ DOMAIN received' = 1..Len(received) + 1 /\ DOMAIN received = 1..Len(received)
      /\ \A i \in DOMAIN received' : received'[i] = IF i <= Len(received) THEN received[i] ELSE feeding
  <2>1. received \in Seq(1..typed)
    OBVIOUS
  <2> HIDE DEF TerminalTypeOK, OrderInv, NoneLostInv, InputInv, TerminalInv
  <2>2. received' \in Seq(1..typed) /\ Len(received') = Len(received) + 1
    BY <1>1, <1>2, <2>1, AppendProperties
  <2>3. \A i \in 1..Len(received) : received'[i] = received[i]
    BY <1>1, <1>2, <2>1, AppendProperties
  <2>4. received'[Len(received) + 1] = feeding
    BY <1>1, <1>2, <2>1, AppendProperties
  <2>5. Len(received) \in Nat /\ DOMAIN received' = 1..Len(received') /\ DOMAIN received = 1..Len(received)
    BY <2>1, <2>2, LenProperties
  <2> QED BY <2>2, <2>3, <2>4, <2>5
<1>4. TerminalTypeOK'
  BY <1>1, <1>3
<1>5. OrderInv'
  <2>1. OrderInv /\ typed \in Nat
    OBVIOUS
  <2> HIDE DEF TerminalTypeOK, NoneLostInv, InputInv, TerminalInv
  <2>2. ASSUME NEW i \in DOMAIN received'
        PROVE  \/ i \in DOMAIN received /\ received'[i] = received[i]
               \/ i = Len(received) + 1 /\ received'[i] = feeding
    <3>1. CASE i <= Len(received)
      BY <3>1, <1>3
    <3>2. CASE ~(i <= Len(received))
      BY <3>2, <1>3
    <3> QED BY <3>1, <3>2
  <2>3. \A i, j \in DOMAIN received' : i < j => received'[i] < received'[j]
    BY <1>1, <1>3, <2>1, <2>2
  <2>4. \A i \in DOMAIN received', j \in DOMAIN queue : received'[i] < queue[j]
    BY <1>1, <2>1, <2>2
  <2> QED BY <1>1, <2>1, <2>3, <2>4
<1>6. NoneLostInv'
  <2>1. ASSUME NEW n \in 1..typed, Somewhere(n) PROVE Somewhere(n)'
    <3> HIDE DEF TerminalTypeOK, OrderInv, NoneLostInv, InputInv, TerminalInv
    <3>1. Len(received) + 1 \in DOMAIN received' /\ received'[Len(received) + 1] = feeding
      BY <1>3
    <3>2. \A i \in DOMAIN received : i \in DOMAIN received' /\ received'[i] = received[i]
      BY <1>3
    <3> QED BY <2>1, <3>1, <3>2, <1>1 DEF Somewhere
  <2> QED BY <2>1, <1>1
<1> QED BY <1>4, <1>5, <1>6

(* The room has lost the chunk that _feed was writing.                     *)
LEMMA LosesNext == ASSUME TerminalInv, FeedWriteFails PROVE TerminalInv'
<1> USE DEF TerminalTypeOK, InputInv, OrderInv, NoneLostInv, TerminalInv
<1>1. /\ feeding # 0 /\ feeding' = 0 /\ lost' = lost \cup {feeding} /\ tty = "broken"
      /\ UNCHANGED <<phase, sizeVars, typed, dropped, tty, queue, received>>
  BY DEF FeedWriteFails
<1>2. TerminalTypeOK'
  BY <1>1
<1>3. OrderInv'
  <2>1. OrderInv
    OBVIOUS
  <2> HIDE DEF TerminalTypeOK, NoneLostInv, InputInv, TerminalInv
  <2> QED BY <1>1, <2>1
<1>4. NoneLostInv'
  BY <1>1 DEF Somewhere
<1> QED BY <1>2, <1>3, <1>4

(* The feeder is cancelled, whatever it holds.                             *)
LEMMA EndKeeps == ASSUME TerminalInv, Ends PROVE TerminalInv'
BY EmptySeq DEF Ends, TerminalInv, TerminalTypeOK, Phases, InputInv, OrderInv, NoneLostInv

(* A resize that ends leaves the others in their order, the last one last. *)
LEMMA OthersWait ==
    ASSUME NEW S, resizing \in Seq(S), NEW i \in 1..Len(resizing)
    PROVE  /\ Without(i) \in Seq(S)
           /\ i # Len(resizing) => /\ Without(i) # <<>>
                                   /\ Without(i)[Len(Without(i))] = resizing[Len(resizing)]
           /\ Len(resizing) = 1 => Without(i) = <<>>
<1> DEFINE n == Len(resizing)
           a == SubSeq(resizing, 1, i - 1)
           b == SubSeq(resizing, i + 1, n)
<1>1. n \in Nat /\ i \in 1..n /\ \A j \in 1..n : resizing[j] \in S
  BY LenProperties, ElementOfSeq
<1>2. a \in Seq(S) /\ Len(a) = i - 1
  BY <1>1, SubSeqProperties
<1>3. b \in Seq(S) /\ Len(b) = n - i /\ \A j \in 1..n - i : b[j] = resizing[i + j]
  <2> HIDE DEF a
  <2>1. CASE i = n
    BY <2>1, <1>1, SubSeqProperties, EmptySeq
  <2>2. CASE i # n
    <3>1. i + 1 \in Int /\ n \in Int /\ i + 1 <= n /\ n - (i + 1) + 1 = n - i
      BY <2>2, <1>1
    <3>2. \A j \in i + 1..n : resizing[j] \in S
      BY <1>1
    <3>3. \A j \in 1..n - i : (i + 1) + j - 1 = i + j
      BY <1>1
    <3>4. /\ b \in Seq(S) /\ Len(b) = n - (i + 1) + 1
          /\ \A j \in 1..n - (i + 1) + 1 : b[j] = resizing[(i + 1) + j - 1]
      <4> HIDE DEF n
      <4> QED BY <3>1, <3>2, SubSeqProperties
    <3> HIDE DEF b, n
    <3> QED BY <3>1, <3>3, <3>4
  <2> QED BY <2>1, <2>2
<1>4. Without(i) = a \o b
  BY DEF Without
<1> HIDE DEF a, b, n
<1>5. /\ a \o b \in Seq(S) /\ Len(a \o b) = n - 1
      /\ \A j \in 1..n - 1 : (a \o b)[j] = IF j <= i - 1 THEN a[j] ELSE b[j - (i - 1)]
  <2>1. Len(a) + Len(b) = n - 1
    BY <1>1, <1>2, <1>3
  <2>2. /\ a \o b \in Seq(S) /\ Len(a \o b) = Len(a) + Len(b)
        /\ \A j \in 1..Len(a) + Len(b) : (a \o b)[j] = IF j <= Len(a) THEN a[j] ELSE b[j - Len(a)]
    BY <1>2, <1>3, ConcatProperties
  <2> QED BY <2>1, <2>2, <1>2
<1>6. ASSUME i # n PROVE a \o b # <<>> /\ (a \o b)[n - 1] = resizing[n]
  <2>1. n - 1 \in 1..n - 1 /\ ~(n - 1 <= i - 1) /\ (n - 1) - (i - 1) = n - i /\ n - i \in 1..n - i /\ i + (n - i) = n
    BY <1>1, <1>6
  <2>2. (a \o b)[n - 1] = b[n - i] /\ b[n - i] = resizing[n]
    BY <2>1, <1>3, <1>5
  <2>3. n - 1 # 0
    BY <2>1
  <2> QED BY <2>2, <2>3, <1>5, EmptySeq
<1>7. n = 1 => a \o b = <<>>
  BY <1>5, EmptySeq
<1>8. n = Len(resizing)
  BY DEF n
<1> QED BY <1>4, <1>5, <1>6, <1>7, <1>8

(* Every step keeps the input in order and loses none of it.               *)
LEMMA NextTerminalInv == ASSUME TerminalInv, [TerminalNext]_terminalVars PROVE TerminalInv'
<1> USE DEF TerminalInv
<1>1. ASSUME TerminalTypeOK', UNCHANGED inputVars, phase' = "open" \/ phase' = phase \/ feeding = 0,
             phase = "ended" => phase' = "ended"
      PROVE  TerminalInv'
  BY <1>1 DEF InputInv, OrderInv, NoneLostInv, Somewhere
<1>2. CASE SessionStarted
  BY <1>1, <1>2 DEF SessionStarted, TerminalTypeOK, Phases, InputInv, OrderInv
<1>3. CASE RunPump
  BY <1>1, <1>3 DEF RunPump, TerminalTypeOK, Phases, InputInv, OrderInv
<1>4. CASE Opened \/ OpenedResizeFails
  BY <1>1, <1>4 DEF Opened, OpenedResizeFails, TerminalTypeOK, Phases, Reported, Fates
<1>5. CASE Ends
  BY <1>5, EndKeeps
<1>6. ASSUME NEW n \in Reported, PtyRequested(n) PROVE TerminalInv'
  BY <1>1, <1>6 DEF PtyRequested, TerminalTypeOK, Reported
<1>7. ASSUME NEW n \in Reported, TerminalSizeChanged(n) PROVE TerminalInv'
  <2>1. Append(resizing, n) \in Seq(Reported)
    BY AppendProperties DEF TerminalTypeOK
  <2>2. resizing' \in Seq(Reported) /\ fate' \in Fates
    BY <2>1, <1>7 DEF TerminalSizeChanged, TerminalTypeOK, Fates
  <2> QED BY <2>2, <1>1, <1>7 DEF TerminalSizeChanged, TerminalTypeOK, Reported
<1>8. ASSUME NEW i \in 1..MaxResizes, ResizeLands(i) \/ ResizeFails(i) PROVE TerminalInv'
  <2>1. i \in 1..Len(resizing) /\ resizing[i] \in Reported
    BY <1>8, LenProperties, ElementOfSeq DEF ResizeLands, ResizeFails, ResizeEnds, TerminalTypeOK
  <2>2. resizing' \in Seq(Reported)
    BY <1>8, <2>1, OthersWait DEF ResizeLands, ResizeFails, ResizeEnds, TerminalTypeOK
  <2>3. fate' \in Fates /\ roomSize' \in Reported \cup {Default}
    BY <1>8, <2>1 DEF ResizeLands, ResizeFails, Fates, TerminalTypeOK
  <2> QED BY <2>2, <2>3, <1>1, <1>8 DEF ResizeLands, ResizeFails, ResizeEnds, TerminalTypeOK
<1>9. CASE UNCHANGED terminalVars
  BY <1>1, <1>9 DEF terminalVars, TerminalTypeOK
<1>10. CASE RoomWedges \/ RoomBreaks
  <2>1. tty' \in {"wedged", "broken"} /\ (tty' # "broken" => tty = "reads" /\ lost = {})
        /\ UNCHANGED <<phase, sizeVars, typed, dropped, lost, queue, feeding, received>>
    BY <1>10 DEF RoomWedges, RoomBreaks, InputInv, OrderInv
  <2> QED BY <2>1 DEF TerminalTypeOK, InputInv, OrderInv, NoneLostInv, Somewhere
<1> QED BY <1>10, LosesNext, <1>2, <1>3, <1>4, <1>5, <1>6, <1>7, <1>8, <1>9, DataKept, TakesOldest, WritesNext
        DEF TerminalNext, Feed, Over

(* Nothing is queued beyond INPUT_BACKLOG, whatever the client sends.      *)
THEOREM TypedWithinBounds == TerminalSpec => []TerminalTypeOK
<1>1. TerminalInit => TerminalInv
  BY InitTerminalInv
<1>2. TerminalInv /\ [TerminalNext]_terminalVars => TerminalInv'
  BY NextTerminalInv
<1>3. TerminalInv => TerminalTypeOK
  BY DEF TerminalInv
<1> QED BY <1>1, <1>2, <1>3, PTL DEF TerminalSpec

(* The chunks of the pipeline are the room's, the feeder's and the queue's.*)
LEMMA PipelineParts ==
    ASSUME TerminalTypeOK
    PROVE  LET r == Len(received)
               h == IF feeding = 0 THEN 0 ELSE 1
           IN  /\ r \in Nat /\ Len(queue) \in Nat
               /\ DOMAIN received = 1..r /\ DOMAIN queue = 1..Len(queue)
               /\ DOMAIN Pipeline = 1..r + h + Len(queue)
               /\ \A i \in 1..r : Pipeline[i] = received[i]
               /\ feeding # 0 => Pipeline[r + 1] = feeding
               /\ \A j \in 1..Len(queue) : Pipeline[r + h + j] = queue[j]
<1> DEFINE S == 1..typed
<1>1. received \in Seq(S) /\ queue \in Seq(S)
  BY DEF TerminalTypeOK
<1>2. Held \in Seq(S) /\ Len(Held) = (IF feeding = 0 THEN 0 ELSE 1) /\ (feeding # 0 => Held[1] = feeding)
  <2>1. feeding \in 0..typed /\ typed \in Nat
    BY DEF TerminalTypeOK
  <2>2. CASE feeding = 0
    BY <2>2, EmptySeq DEF Held
  <2>3. CASE feeding # 0
    <3>1. feeding \in S /\ Held = <<feeding>>
      BY <2>1, <2>3 DEF Held
    <3> HIDE DEF S
    <3> QED BY <2>3, <3>1
  <2> QED BY <2>2, <2>3
<1> DEFINE p == received \o Held
<1>3. /\ p \in Seq(S) /\ Len(p) = Len(received) + Len(Held)
      /\ \A i \in 1..Len(received) + Len(Held) : p[i] =
           IF i <= Len(received) THEN received[i] ELSE Held[i - Len(received)]
  BY <1>1, <1>2, ConcatProperties
<1>4. /\ Pipeline \in Seq(S) /\ Len(Pipeline) = Len(p) + Len(queue)
      /\ \A i \in 1..Len(p) + Len(queue) : Pipeline[i] = IF i <= Len(p) THEN p[i] ELSE queue[i - Len(p)]
  <2> HIDE DEF p
  <2>1. Pipeline = p \o queue
    BY DEF p, Pipeline
  <2> QED BY <2>1, <1>1, <1>3, ConcatProperties
<1>5. /\ Len(received) \in Nat /\ Len(queue) \in Nat
      /\ DOMAIN received = 1..Len(received) /\ DOMAIN queue = 1..Len(queue)
      /\ DOMAIN Pipeline = 1..Len(Pipeline)
  BY <1>1, <1>4, LenProperties
<1> HIDE DEF p, S
<1> DEFINE r == Len(received)
           h == Len(Held)
<1>6. h = (IF feeding = 0 THEN 0 ELSE 1) /\ Len(p) = r + h /\ r \in Nat /\ h \in Nat
  BY <1>2, <1>3, <1>5
<1>7. \A i \in 1..r : Pipeline[i] = received[i]
  BY <1>3, <1>4, <1>5, <1>6
<1>8. feeding # 0 => Pipeline[r + 1] = feeding
  BY <1>2, <1>3, <1>4, <1>5, <1>6
<1>9. ASSUME NEW j \in 1..Len(queue) PROVE Pipeline[r + h + j] = queue[j]
  <2> HIDE DEF r, h
  <2> DEFINE k == r + h + j
  <2>1. k \in 1..Len(p) + Len(queue) /\ ~(k <= Len(p)) /\ k - Len(p) = j
    BY <1>5, <1>6
  <2> HIDE DEF k
  <2>2. Pipeline[k] = queue[k - Len(p)]
    BY <1>4, <2>1
  <2>3. Pipeline[k] = queue[j]
    BY <2>1, <2>2
  <2> QED BY <2>3 DEF k
<1> HIDE DEF r, h
<1>10. DOMAIN Pipeline = 1..r + h + Len(queue)
  BY <1>4, <1>5, <1>6
<1>11. h = (IF feeding = 0 THEN 0 ELSE 1) /\ r = Len(received)
  BY <1>6 DEF r
<1> QED BY <1>5, <1>7, <1>8, <1>9, <1>10, <1>11

(* However typing interleaves with the opening of the room, the feeder and *)
(* a flood, the room gets what was typed in order and nothing twice.  What *)
(* it does not get found the queue full (data_received), or comes after all*)
(* that it did get and was written to a room that had broken (write, whose *)
(* error is swallowed).                                                    *)
THEOREM InputKeepsOrder == TerminalSpec => []InputInOrder
<1>1. ASSUME TerminalInv PROVE InputInOrder
  <2> USE DEF TerminalInv, InputInv, OrderInv, NoneLostInv
  <2> DEFINE r == Len(received)
             h == IF feeding = 0 THEN 0 ELSE 1
  <2>1. /\ r \in Nat /\ Len(queue) \in Nat /\ h \in {0, 1} /\ (h = 1) = (feeding # 0)
        /\ DOMAIN received = 1..r /\ DOMAIN queue = 1..Len(queue)
        /\ DOMAIN Pipeline = 1..r + h + Len(queue)
        /\ \A i \in 1..r : Pipeline[i] = received[i]
        /\ feeding # 0 => Pipeline[r + 1] = feeding
        /\ \A j \in 1..Len(queue) : Pipeline[r + h + j] = queue[j]
    BY <1>1, PipelineParts
  <2> HIDE DEF r, h
  <2>2. ASSUME NEW i \in DOMAIN Pipeline
        PROVE  \/ i \in 1..r /\ Pipeline[i] = received[i]
               \/ feeding # 0 /\ i = r + 1 /\ Pipeline[i] = feeding
               \/ i - (r + h) \in 1..Len(queue) /\ Pipeline[i] = queue[i - (r + h)]
    <3>1. CASE i <= r
      BY <2>1, <3>1
    <3>2. CASE i > r /\ i <= r + h
      BY <2>1, <3>2
    <3>3. CASE i > r + h
      <4>1. i \in Nat /\ i - (r + h) \in 1..Len(queue)
        BY <2>1, <3>3
      <4>2. r + h + (i - (r + h)) = i
        BY <2>1, <4>1
      <4> QED BY <2>1, <4>1, <4>2
    <3> QED BY <3>1, <3>2, <3>3, <2>1
  <2>3. ASSUME NEW i \in DOMAIN Pipeline, NEW j \in DOMAIN Pipeline, i < j PROVE Pipeline[i] < Pipeline[j]
    <3>1. CASE i \in 1..r /\ Pipeline[i] = received[i]
      BY <3>1, <2>1, <2>2, <2>3, <1>1
    <3>2. CASE feeding # 0 /\ i = r + 1 /\ Pipeline[i] = feeding
      BY <3>2, <2>1, <2>2, <2>3, <1>1
    <3>3. CASE i - (r + h) \in 1..Len(queue) /\ Pipeline[i] = queue[i - (r + h)]
      BY <3>3, <2>1, <2>2, <2>3, <1>1
    <3> QED BY <3>1, <3>2, <3>3, <2>2
  <2>4. ASSUME phase # "ended" PROVE 1..typed = dropped \cup lost \cup {Pipeline[i] : i \in DOMAIN Pipeline}
    <3>1. ASSUME NEW n \in 1..typed PROVE n \in dropped \cup lost \cup {Pipeline[i] : i \in DOMAIN Pipeline}
      <4>1. Somewhere(n) /\ n # 0
        BY <1>1, <2>4
      <4>2. ASSUME NEW i \in DOMAIN received, received[i] = n PROVE i \in DOMAIN Pipeline /\ Pipeline[i] = n
        BY <4>2, <2>1
      <4>3. ASSUME NEW j \in DOMAIN queue, queue[j] = n
            PROVE  r + h + j \in DOMAIN Pipeline /\ Pipeline[r + h + j] = n
        BY <4>3, <2>1
      <4>4. ASSUME n = feeding PROVE r + 1 \in DOMAIN Pipeline /\ Pipeline[r + 1] = n
        BY <4>1, <4>4, <2>1
      <4> QED BY <4>1, <4>2, <4>3, <4>4 DEF Somewhere
    <3>2. ASSUME NEW i \in DOMAIN Pipeline PROVE Pipeline[i] \in 1..typed
      <4>1. /\ \A k \in 1..r : received[k] \in 1..typed
            /\ \A k \in 1..Len(queue) : queue[k] \in 1..typed
            /\ feeding # 0 => feeding \in 1..typed
        BY <1>1, ElementOfSeq DEF TerminalTypeOK, r
      <4> QED BY <2>2, <4>1
    <3>3. dropped \cup lost \subseteq 1..typed
      BY <1>1 DEF TerminalTypeOK
    <3> QED BY <3>1, <3>2, <3>3
  <2> QED BY <1>1, <2>3, <2>4 DEF InputInOrder
<1>2. TerminalInit => TerminalInv
  BY InitTerminalInv
<1>3. TerminalInv /\ [TerminalNext]_terminalVars => TerminalInv'
  BY NextTerminalInv
<1> QED BY <1>1, <1>2, <1>3, PTL DEF TerminalSpec

(* Every step keeps account of the last size that the room was told.       *)
LEMMA NextSizeInv == ASSUME TerminalTypeOK, SizeInv, [TerminalNext]_terminalVars PROVE SizeInv'
<1> USE DEF SizeInv, Phases, Fates
<1>1. CASE SessionStarted
  BY <1>1 DEF SessionStarted, TerminalTypeOK
<1>2. CASE RunPump
  BY <1>2 DEF RunPump, TerminalTypeOK
<1>3. CASE Opened \/ OpenedResizeFails
  BY <1>3 DEF Opened, OpenedResizeFails, TerminalTypeOK
<1>4. CASE Ends
  BY <1>4 DEF Ends, TerminalTypeOK
<1>5. ASSUME NEW n \in Reported, PtyRequested(n) PROVE SizeInv'
  BY <1>5 DEF PtyRequested, TerminalTypeOK
<1>6. ASSUME NEW n \in Reported, TerminalSizeChanged(n) PROVE SizeInv'
  <2> DEFINE q == Append(resizing, n)
  <2>1. q # <<>> /\ q[Len(q)] = n
    <3>1. resizing \in Seq(Reported) /\ Len(resizing) \in Nat
      BY LenProperties DEF TerminalTypeOK
    <3>2. Len(q) = Len(resizing) + 1 /\ q[Len(resizing) + 1] = n
      BY <3>1, AppendProperties
    <3> HIDE DEF q
    <3>3. q # <<>>
      BY <3>1, <3>2
    <3> QED BY <3>2, <3>3
  <2> QED BY <1>6, <2>1 DEF TerminalSizeChanged, TerminalTypeOK
<1>7. ASSUME NEW i \in 1..MaxResizes, ResizeLands(i) \/ ResizeFails(i) PROVE SizeInv'
  <2>1. /\ phase = "open" /\ resizing # <<>> /\ i \in 1..Len(resizing) /\ (threaded \/ i = 1)
        /\ resizing' = Without(i) /\ resizing \in Seq(Reported) /\ Len(resizing) \in Nat
        /\ UNCHANGED <<phase, threaded, size, given, resizes, last, inputVars>>
    BY <1>7, LenProperties DEF ResizeLands, ResizeFails, ResizeEnds, TerminalTypeOK
  <2>2. last.at = "open"
    BY <2>1
  <2>3. /\ i # Len(resizing) => resizing' # <<>> /\ resizing'[Len(resizing')] = resizing[Len(resizing)]
        /\ Len(resizing) = 1 => resizing' = <<>>
    BY <2>1, OthersWait
  <2>4. IsLastSent(i) /\ ~threaded => Len(resizing) = 1
    BY <2>1 DEF IsLastSent
  <2>5. IsLastSent(i) => resizing[i] = last.size
    BY <2>1, <2>2 DEF IsLastSent
  <2>6. fate = "pending" /\ ~IsLastSent(i) => i # Len(resizing)
    BY DEF IsLastSent
  <2>7. CASE ResizeLands(i)
    <3>1. /\ roomSize' = resizing[i]
          /\ fate' = IF IsLastSent(i) THEN "landed" ELSE IF fate = "landed" THEN "overtaken" ELSE fate
      BY <2>7 DEF ResizeLands
    <3>2. fate = "landed" => threaded
      BY <2>1
    <3> QED BY <3>1, <3>2, <2>1, <2>2, <2>3, <2>4, <2>5, <2>6 DEF TerminalTypeOK
  <2>8. CASE ResizeFails(i)
    <3>1. fate' = (IF IsLastSent(i) THEN "refused" ELSE fate) /\ roomSize' = roomSize
      BY <2>8 DEF ResizeFails
    <3> QED BY <3>1, <2>1, <2>2, <2>3, <2>6 DEF TerminalTypeOK
  <2> QED BY <1>7, <2>7, <2>8
<1>8. ASSUME UNCHANGED sizeVars, UNCHANGED phase PROVE SizeInv'
  BY <1>8
<1>9. CASE DataReceived \/ Feed \/ RoomWedges \/ RoomBreaks \/ Over \/ UNCHANGED terminalVars
  BY <1>8, <1>9 DEF DataReceived, Feed, FeedTakes, FeedWrites, FeedWriteFails, RoomWedges, RoomBreaks, Over, terminalVars
<1> QED BY <1>1, <1>2, <1>3, <1>4, <1>5, <1>6, <1>7, <1>9 DEF TerminalNext

(* On either backend the room ends up with the size the client last        *)
(* reported, once no resize is under way, unless that was reported while   *)
(* open or resume was awaited (terminal_size_changed), or the room refused *)
(* it, or a thread of docker's overtook it with an older one.              *)
THEOREM SizeSettled == TerminalSpec => []SizeSettles
<1>1. TerminalInit => SizeInv
  BY InitTerminalInv
<1>2. TerminalTypeOK /\ SizeInv /\ [TerminalNext]_terminalVars => SizeInv'
  BY NextSizeInv
<1>3. TerminalTypeOK /\ SizeInv => SizeSettles
  BY DEF TerminalTypeOK, Phases, Fates, SizeInv, SizeSettles
<1> QED BY <1>1, <1>2, <1>3, TypedWithinBounds, PTL DEF TerminalSpec
=============================================================================
