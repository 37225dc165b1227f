--------------------------- MODULE Backends_proofs --------------------------
(***************************************************************************)
(* Proofs about Backends: what both backends promise of a room, for any    *)
(* number of dials and whatever goes wrong outside keycard.                *)
(***************************************************************************)
EXTENDS Backends, TLAPS

USE DEF DockerCall, VmCall, Goto, Suffers, Cut, Guest, Reachable,
        boxVars, exitVars, roomVars, guestVars

-----------------------------------------------------------------------------
(***************************************************************************)
(* The inductive invariant.  Each property needs to know how far the       *)
(* sandbox is when a call comes to it: a container that has stopped was    *)
(* not killed before destroy asks for its status, a container that is gone *)
(* was removed by hand unless a call removed it, the line of a microVM's   *)
(* control channel is the work of a shell that has ended, and only a late  *)
(* answer makes the host dial twice.                                       *)
(***************************************************************************)
ContainerInv ==
    kind = "docker" =>
        /\ guest = "off" /\ line = "none"
        /\ box \in {"running", "paused"} => shell = "running"
        /\ shell = "ended" => box \in {"stopped", "gone"}
        /\ box = "stopped" /\ call \notin {"removing", "over"} => shell = "ended"
        /\ box = "gone" => call = "over" \/ "by_hand" \in hurt

GuestInv ==
    /\ kind = "firecracker" => box # "paused"
    /\ kind = "firecracker" /\ guest \notin {"serving", "closed", "dead"} => shell = "none"
    /\ line # "none" => guest \in {"serving", "closed", "dead"} /\ shell = "ended"
    /\ guest = "closed" => line # "none"
    /\ guest = "dead" => box \in {"stopped", "gone"}
    /\ guest = "dead" => "died" \in hurt \/ call \in {"removing", "cleaning", "failed", "over"}

CallInv ==
    /\ call \in {"none", "creating"} => box = "none" /\ shell = "none" /\ guest = "off"
    /\ call = "configuring" => guest \in {"off", "dead"}
    /\ call \in {"none", "configuring"} => "InstanceStart" \notin api
    /\ call \in {"dialing", "dialing_ctrl", "open"} /\ kind = "firecracker" => "vsock" \in api
    /\ call \in {"unwinding", "cleaning", "failed"} => hurt # {}
    /\ status # "none" => call \in {"removing", "stopping", "over"}
    /\ sooner => call \in {"polling", "removing", "over", "exit_wait", "stopping"}

EndInv ==
    /\ sooner /\ call = "polling" => shell = "ended"
    /\ sooner /\ kind = "firecracker" => line # "none"
    /\ sooner /\ call \in {"removing", "stopping"} =>
         status = "code" \/ hurt \cap {"reload", "by_hand", "died", "slow_line"} # {}

DialInv ==
    "late_answer" \notin hurt =>
        dials <= 1 /\ (call \in {"none", "configuring", "dialing"} => dials = 0)

RoomInv ==
    /\ BackendsTypeOK /\ ContainerInv /\ GuestInv /\ CallInv /\ EndInv /\ DialInv
    /\ ReleasedIsGone /\ StatusIsTheShells

(* Nothing is there before open is called.                                 *)
LEMMA InitRoomInv == ASSUME BackendsInit PROVE RoomInv
<1> USE DEF BackendsInit, RoomInit, MicroVMInit
<1>1. RoomTypeOK
  BY DEF RoomTypeOK, Kinds, Calls
<1>2. MicroVMTypeOK
  BY MicroVMAssumption DEF MicroVMTypeOK
<1>3. BackendsTypeOK
  BY <1>1, <1>2 DEF BackendsTypeOK
<1>4. ContainerInv /\ GuestInv /\ CallInv /\ EndInv /\ DialInv
  BY DEF ContainerInv, GuestInv, CallInv, EndInv, DialInv
<1> QED BY <1>3, <1>4 DEF RoomInv, ReleasedIsGone, StatusIsTheShells

(* Every step of a call, of the daemon, of the VMM and of the guest keeps  *)
(* the types.                                                              *)
LEMMA NextRoomType == ASSUME RoomInv, [BackendsNext]_vars PROVE BackendsTypeOK'
<1> USE MicroVMAssumption
<1> USE DEF RoomInv, BackendsTypeOK, RoomTypeOK, MicroVMTypeOK, Kinds, Calls, Opening, Closing, Mishaps
<1>1. CASE DockerOpen /\ UNCHANGED guestVars
  BY <1>1 DEF DockerOpen
<1>2. CASE Create /\ UNCHANGED guestVars
  BY <1>2 DEF Create
<1>3. CASE CreateFails /\ UNCHANGED guestVars
  BY <1>3 DEF CreateFails
<1>4. CASE Attach /\ UNCHANGED guestVars
  BY <1>4 DEF Attach
<1>5. CASE AttachFails /\ UNCHANGED guestVars
  BY <1>5 DEF AttachFails
<1>6. CASE DockerDestroy /\ UNCHANGED guestVars
  BY <1>6 DEF DockerDestroy, CloseAttachment
<1>7. CASE Overdue /\ UNCHANGED guestVars
  BY <1>7 DEF Overdue
<1>8. CASE StatusRead /\ UNCHANGED guestVars
  BY <1>8 DEF StatusRead
<1>9. CASE ReloadFails /\ UNCHANGED guestVars
  BY <1>9 DEF ReloadFails
<1>10. CASE StillRunning /\ UNCHANGED guestVars
  BY <1>10 DEF StillRunning
<1>11. CASE Kill /\ UNCHANGED guestVars
  BY <1>11 DEF Kill
<1>12. CASE Remove /\ UNCHANGED guestVars
  BY <1>12 DEF Remove
<1>13. CASE RemoveFails /\ UNCHANGED guestVars
  BY <1>13 DEF RemoveFails
<1>14. CASE DockerPause /\ UNCHANGED guestVars
  BY <1>14 DEF DockerPause, CloseAttachment
<1>15. CASE Pause /\ UNCHANGED guestVars
  BY <1>15 DEF Pause
<1>16. CASE PauseFails /\ UNCHANGED guestVars
  BY <1>16 DEF PauseFails
<1>17. CASE DockerResume /\ UNCHANGED guestVars
  BY <1>17 DEF DockerResume
<1>18. CASE Unpause /\ UNCHANGED guestVars
  BY <1>18 DEF Unpause
<1>19. CASE DockerDestroyKept /\ UNCHANGED guestVars
  BY <1>19 DEF DockerDestroyKept
<1>20. CASE ContainerEnds /\ UNCHANGED guestVars
  BY <1>20 DEF ContainerEnds
<1>21. CASE RemovedByHand /\ UNCHANGED guestVars
  BY <1>21 DEF RemovedByHand
<1>22. CASE VmOpen
  BY <1>22 DEF VmOpen
<1>23. CASE ApiCall
  BY <1>23 DEF ApiCall, NextCall, Accepted
<1>24. CASE ApiFails
  BY <1>24 DEF ApiFails
<1>25. CASE DialData
  BY <1>25 DEF DialData, Dial
<1>26. CASE DialDropped
  BY <1>26 DEF DialDropped, Dial
<1>27. CASE GiveUp
  <2>1. hurt' \in {hurt, hurt \cup {"died"}, hurt \cup {"no_boot"}}
    BY <1>27 DEF GiveUp
  <2> QED BY <1>27, <2>1 DEF GiveUp
<1>28. CASE DialCtrl
  BY <1>28 DEF DialCtrl
<1>29. CASE CtrlRefused
  BY <1>29 DEF CtrlRefused
<1>30. CASE BindData
  BY <1>30 DEF BindData
<1>31. CASE BindCtrl
  BY <1>31 DEF BindCtrl
<1>32. CASE AcceptData
  BY <1>32 DEF AcceptData
<1>33. CASE AcceptCtrl
  BY <1>33 DEF AcceptCtrl
<1>34. CASE GuestShellEnds
  BY <1>34 DEF GuestShellEnds
<1>35. CASE AgentReports
  BY <1>35 DEF AgentReports
<1>36. CASE AgentCloses
  BY <1>36 DEF AgentCloses
<1>37. CASE VmmDies
  BY <1>37 DEF VmmDies
<1>38. CASE VmDestroy
  BY <1>38 DEF VmDestroy
<1>39. CASE Hears
  BY <1>39 DEF Hears
<1>40. CASE WatchEnds
  BY <1>40 DEF WatchEnds, VmCloses
<1>41. CASE WatchOverdue
  BY <1>41 DEF WatchOverdue, VmCloses
<1>42. CASE Stop
  BY <1>42 DEF Stop
<1>43. CASE RemoveDir
  BY <1>43 DEF RemoveDir
<1>44. CASE UNCHANGED vars
  BY <1>44 DEF vars
<1>45. CASE StartFails /\ UNCHANGED guestVars
  BY <1>45 DEF StartFails
<1>46. CASE UnpauseFails /\ UNCHANGED guestVars
  BY <1>46 DEF UnpauseFails
<1> QED
  BY <1>1, <1>2, <1>3, <1>4, <1>5, <1>6, <1>7, <1>8, <1>9, <1>10, <1>11, <1>12, <1>13, <1>14, <1>15, <1>16, <1>17, <1>18, <1>19, <1>20, <1>21, <1>22, <1>23, <1>24, <1>25, <1>26, <1>27, <1>28, <1>29, <1>30, <1>31, <1>32, <1>33, <1>34, <1>35, <1>36, <1>37, <1>38, <1>39, <1>40, <1>41, <1>42, <1>43, <1>44, <1>45, <1>46
  DEF BackendsNext, DockerNext, DockerCalls, DockerStep, VmNext, VmStep, GuestStep, Rests

(* Every such step keeps the rest of the invariant.                        *)
LEMMA NextRoomInv == ASSUME RoomInv, BackendsTypeOK', [BackendsNext]_vars PROVE RoomInv'
<1> USE MicroVMAssumption
<1> USE DEF RoomInv, BackendsTypeOK, RoomTypeOK, MicroVMTypeOK, ContainerInv, GuestInv, CallInv,
            EndInv, DialInv, ReleasedIsGone, StatusIsTheShells
<1>1. CASE DockerOpen /\ UNCHANGED guestVars
  BY <1>1 DEF DockerOpen
<1>2. CASE Create /\ UNCHANGED guestVars
  BY <1>2 DEF Create
<1>3. CASE CreateFails /\ UNCHANGED guestVars
  BY <1>3 DEF CreateFails
<1>4. CASE Attach /\ UNCHANGED guestVars
  BY <1>4 DEF Attach
<1>5. CASE AttachFails /\ UNCHANGED guestVars
  BY <1>5 DEF AttachFails
<1>6. CASE DockerDestroy /\ UNCHANGED guestVars
  BY <1>6 DEF DockerDestroy, CloseAttachment
<1>7. CASE Overdue /\ UNCHANGED guestVars
  BY <1>7 DEF Overdue
<1>8. CASE StatusRead /\ UNCHANGED guestVars
  BY <1>8 DEF StatusRead
<1>9. CASE ReloadFails /\ UNCHANGED guestVars
  BY <1>9 DEF ReloadFails
<1>10. CASE StillRunning /\ UNCHANGED guestVars
  BY <1>10 DEF StillRunning
<1>11. CASE Kill /\ UNCHANGED guestVars
  BY <1>11 DEF Kill
<1>12. CASE Remove /\ UNCHANGED guestVars
  BY <1>12 DEF Remove
<1>13. CASE RemoveFails /\ UNCHANGED guestVars
  BY <1>13 DEF RemoveFails
<1>14. CASE DockerPause /\ UNCHANGED guestVars
  BY <1>14 DEF DockerPause, CloseAttachment
<1>15. CASE Pause /\ UNCHANGED guestVars
  BY <1>15 DEF Pause
<1>16. CASE PauseFails /\ UNCHANGED guestVars
  BY <1>16 DEF PauseFails
<1>17. CASE DockerResume /\ UNCHANGED guestVars
  BY <1>17 DEF DockerResume
<1>18. CASE Unpause /\ UNCHANGED guestVars
  BY <1>18 DEF Unpause
<1>19. CASE DockerDestroyKept /\ UNCHANGED guestVars
  BY <1>19 DEF DockerDestroyKept
<1>20. CASE ContainerEnds /\ UNCHANGED guestVars
  BY <1>20 DEF ContainerEnds
<1>21. CASE RemovedByHand /\ UNCHANGED guestVars
  BY <1>21 DEF RemovedByHand
<1>22. CASE VmOpen
  BY <1>22 DEF VmOpen
<1>23. CASE ApiCall
  <2>1. Accepted(NextCall)
    BY <1>23 DEF ApiCall, NextCall, Accepted
  <2>2. CASE NextCall = "InstanceStart"
    <3>1. /\ "vsock" \in api /\ api' = api \cup {"InstanceStart"}
          /\ guest' = "booting" /\ call' = "dialing"
      BY <1>23, <2>1, <2>2 DEF ApiCall, NextCall
    <3> QED BY <1>23, <3>1 DEF ApiCall
  <2>3. CASE NextCall # "InstanceStart"
    <3>1. /\ api' = api \cup {NextCall} /\ "InstanceStart" \notin api'
          /\ guest' = guest /\ call' = call
      BY <1>23, <2>1, <2>3 DEF ApiCall
    <3> QED BY <1>23, <3>1 DEF ApiCall
  <2> QED BY <2>2, <2>3
<1>24. CASE ApiFails
  BY <1>24 DEF ApiFails
<1>25. CASE DialData
  BY <1>25 DEF DialData, Dial
<1>26. CASE DialDropped
  BY <1>26 DEF DialDropped, Dial
<1>27. CASE GiveUp
  BY <1>27 DEF GiveUp
<1>28. CASE DialCtrl
  BY <1>28 DEF DialCtrl
<1>29. CASE CtrlRefused
  BY <1>29 DEF CtrlRefused
<1>30. CASE BindData
  BY <1>30 DEF BindData
<1>31. CASE BindCtrl
  BY <1>31 DEF BindCtrl
<1>32. CASE AcceptData
  BY <1>32 DEF AcceptData
<1>33. CASE AcceptCtrl
  BY <1>33 DEF AcceptCtrl
<1>34. CASE GuestShellEnds
  BY <1>34 DEF GuestShellEnds
<1>35. CASE AgentReports
  BY <1>35 DEF AgentReports
<1>36. CASE AgentCloses
  BY <1>36 DEF AgentCloses
<1>37. CASE VmmDies
  BY <1>37 DEF VmmDies
<1>38. CASE VmDestroy
  BY <1>38 DEF VmDestroy
<1>39. CASE Hears
  BY <1>39 DEF Hears
<1>40. CASE WatchEnds
  BY <1>40 DEF WatchEnds, VmCloses
<1>41. CASE WatchOverdue
  BY <1>41 DEF WatchOverdue, VmCloses
<1>42. CASE Stop
  BY <1>42 DEF Stop
<1>43. CASE RemoveDir
  BY <1>43 DEF RemoveDir
<1>44. CASE UNCHANGED vars
  BY <1>44 DEF vars
<1>45. CASE StartFails /\ UNCHANGED guestVars
  BY <1>45 DEF StartFails
<1>46. CASE UnpauseFails /\ UNCHANGED guestVars
  BY <1>46 DEF UnpauseFails
<1> QED
  BY <1>1, <1>2, <1>3, <1>4, <1>5, <1>6, <1>7, <1>8, <1>9, <1>10, <1>11, <1>12, <1>13, <1>14, <1>15, <1>16, <1>17, <1>18, <1>19, <1>20, <1>21, <1>22, <1>23, <1>24, <1>25, <1>26, <1>27, <1>28, <1>29, <1>30, <1>31, <1>32, <1>33, <1>34, <1>35, <1>36, <1>37, <1>38, <1>39, <1>40, <1>41, <1>42, <1>43, <1>44, <1>45, <1>46
  DEF BackendsNext, DockerNext, DockerCalls, DockerStep, VmNext, VmStep, GuestStep, Rests

(* A room's sandbox, shell and sockets stay in step with the call that is  *)
(* under way: the invariant the theorems below rest on.                    *)
THEOREM RoomInvariance == BackendsSpec => []RoomInv
<1>1. BackendsInit => RoomInv
  BY InitRoomInv
<1>2. RoomInv /\ [BackendsNext]_vars => RoomInv'
  BY NextRoomType, NextRoomInv
<1> QED BY <1>1, <1>2, PTL DEF BackendsSpec

(* The variables have their types, and no call of docker.py or             *)
(* firecracker.py ends with a socket of a room it does not hand out.       *)
THEOREM NoSocketLeft == BackendsSpec => []BackendsTypeOK
<1>1. RoomInv => BackendsTypeOK
  BY DEF RoomInv
<1> QED BY <1>1, RoomInvariance, PTL

(* When destroy or destroy_kept has returned, or open has failed, container *)
(* or VMM and directory are gone, but for what docker refused to remove and *)
(* for a container that open made and could then not start or attach to.    *)
THEOREM NothingIsLeft == BackendsSpec => []ReleasedIsGone
<1>1. RoomInv => ReleasedIsGone
  BY DEF RoomInv
<1> QED BY <1>1, RoomInvariance, PTL

(* destroy returns the shell's own status, and does not lose one that was   *)
(* there to be seen: DockerRoom.destroy asks before it kills, and           *)
(* FirecrackerRoom.destroy waits for _watch_exit.                           *)
THEOREM StatusIsTrue == BackendsSpec => []StatusIsTheShells
<1>1. RoomInv => StatusIsTheShells
  BY DEF RoomInv
<1> QED BY <1>1, RoomInvariance, PTL

(* Without a mishap an open does not fail, however often the host may dial, *)
(* and without a late answer the agent pairs the two connections that the   *)
(* host holds (FirecrackerBackend._attach, main.rs).                        *)
THEOREM Connected == BackendsSpec => []OpensConnected
<1>1. ASSUME RoomInv PROVE OpensConnected
  <2>1. call = "failed" => hurt # {}
    BY <1>1 DEF RoomInv, CallInv
  <2>2. ASSUME paired # 0, data # 0, "late_answer" \notin hurt PROVE paired = data
    <3>1. dials \in Nat /\ dials <= 1
      BY <1>1, <2>2, MicroVMAssumption DEF RoomInv, DialInv, BackendsTypeOK, MicroVMTypeOK
    <3>2. data \in 0..dials /\ paired \in 0..dials
      BY <1>1 DEF RoomInv, BackendsTypeOK, MicroVMTypeOK
    <3> QED BY <2>2, <3>1, <3>2
  <2> QED BY <2>1, <2>2 DEF OpensConnected
<1> QED BY <1>1, RoomInvariance, PTL

-----------------------------------------------------------------------------
(* Every step of either backend is a step of base.py's contract, or none   *)
(* that the session layer sees.                                            *)
LEMMA ContractStep == ASSUME RoomInv, RoomInv', [BackendsNext]_vars
                      PROVE  [Seam!ContractNext]_(Seam!contractVars)
<1> USE DEF RoomInv, BackendsTypeOK, RoomTypeOK, MicroVMTypeOK, ContainerInv, GuestInv, CallInv,
            SeenRoom, SeenShell, Opening, Closing, Kinds, Calls,
            Seam!contractVars, Seam!ContractNext, Seam!Begin, Seam!Starts, Seam!Ends, Seam!Opened,
            Seam!Keep, Seam!Wake, Seam!Close, Seam!Gone
<1>1. CASE DockerOpen /\ UNCHANGED guestVars
  BY <1>1 DEF DockerOpen
<1>2. CASE Create /\ UNCHANGED guestVars
  BY <1>2 DEF Create
<1>3. CASE CreateFails /\ UNCHANGED guestVars
  BY <1>3 DEF CreateFails
<1>4. CASE Attach /\ UNCHANGED guestVars
  BY <1>4 DEF Attach
<1>5. CASE AttachFails /\ UNCHANGED guestVars
  BY <1>5 DEF AttachFails
<1>6. CASE DockerDestroy /\ UNCHANGED guestVars
  BY <1>6 DEF DockerDestroy, CloseAttachment
<1>7. CASE Overdue /\ UNCHANGED guestVars
  BY <1>7 DEF Overdue
<1>8. CASE StatusRead /\ UNCHANGED guestVars
  BY <1>8 DEF StatusRead
<1>9. CASE ReloadFails /\ UNCHANGED guestVars
  BY <1>9 DEF ReloadFails
<1>10. CASE StillRunning /\ UNCHANGED guestVars
  BY <1>10 DEF StillRunning
<1>11. CASE Kill /\ UNCHANGED guestVars
  BY <1>11 DEF Kill
<1>12. CASE Remove /\ UNCHANGED guestVars
  BY <1>12 DEF Remove
<1>13. CASE RemoveFails /\ UNCHANGED guestVars
  BY <1>13 DEF RemoveFails
<1>14. CASE DockerPause /\ UNCHANGED guestVars
  BY <1>14 DEF DockerPause, CloseAttachment
<1>15. CASE Pause /\ UNCHANGED guestVars
  BY <1>15 DEF Pause
<1>16. CASE PauseFails /\ UNCHANGED guestVars
  BY <1>16 DEF PauseFails
<1>17. CASE DockerResume /\ UNCHANGED guestVars
  BY <1>17 DEF DockerResume
<1>18. CASE Unpause /\ UNCHANGED guestVars
  BY <1>18 DEF Unpause
<1>19. CASE DockerDestroyKept /\ UNCHANGED guestVars
  BY <1>19 DEF DockerDestroyKept
<1>20. CASE ContainerEnds /\ UNCHANGED guestVars
  BY <1>20 DEF ContainerEnds
<1>21. CASE RemovedByHand /\ UNCHANGED guestVars
  BY <1>21 DEF RemovedByHand
<1>22. CASE VmOpen
  BY <1>22 DEF VmOpen
<1>23. CASE ApiCall
  BY <1>23 DEF ApiCall, NextCall, Accepted
<1>24. CASE ApiFails
  BY <1>24 DEF ApiFails
<1>25. CASE DialData
  BY <1>25 DEF DialData, Dial
<1>26. CASE DialDropped
  BY <1>26 DEF DialDropped, Dial
<1>27. CASE GiveUp
  BY <1>27 DEF GiveUp
<1>28. CASE DialCtrl
  BY <1>28 DEF DialCtrl
<1>29. CASE CtrlRefused
  BY <1>29 DEF CtrlRefused
<1>30. CASE BindData
  BY <1>30 DEF BindData
<1>31. CASE BindCtrl
  BY <1>31 DEF BindCtrl
<1>32. CASE AcceptData
  BY <1>32 DEF AcceptData
<1>33. CASE AcceptCtrl
  BY <1>33 DEF AcceptCtrl
<1>34. CASE GuestShellEnds
  BY <1>34 DEF GuestShellEnds
<1>35. CASE AgentReports
  BY <1>35 DEF AgentReports
<1>36. CASE AgentCloses
  BY <1>36 DEF AgentCloses
<1>37. CASE VmmDies
  BY <1>37 DEF VmmDies
<1>38. CASE VmDestroy
  BY <1>38 DEF VmDestroy
<1>39. CASE Hears
  BY <1>39 DEF Hears
<1>40. CASE WatchEnds
  BY <1>40 DEF WatchEnds, VmCloses
<1>41. CASE WatchOverdue
  BY <1>41 DEF WatchOverdue, VmCloses
<1>42. CASE Stop
  BY <1>42 DEF Stop
<1>43. CASE RemoveDir
  BY <1>43 DEF RemoveDir
<1>44. CASE UNCHANGED vars
  BY <1>44 DEF vars
<1>45. CASE StartFails /\ UNCHANGED guestVars
  BY <1>45 DEF StartFails
<1>46. CASE UnpauseFails /\ UNCHANGED guestVars
  BY <1>46 DEF UnpauseFails
<1> QED
  BY <1>1, <1>2, <1>3, <1>4, <1>5, <1>6, <1>7, <1>8, <1>9, <1>10, <1>11, <1>12, <1>13, <1>14, <1>15, <1>16, <1>17, <1>18, <1>19, <1>20, <1>21, <1>22, <1>23, <1>24, <1>25, <1>26, <1>27, <1>28, <1>29, <1>30, <1>31, <1>32, <1>33, <1>34, <1>35, <1>36, <1>37, <1>38, <1>39, <1>40, <1>41, <1>42, <1>43, <1>44, <1>45, <1>46
  DEF BackendsNext, DockerNext, DockerCalls, DockerStep, VmNext, VmStep, GuestStep, Rests

(* Both backends keep the contract of base.py: a room that is opened is    *)
(* handed over or given up, it is closed once, and only a room that stayed *)
(* frozen is handed back.                                                  *)
THEOREM BackendsKeepContract == BackendsSpec => Seam!ContractSteps
<1>1. BackendsInit => Seam!ContractInit
  BY DEF BackendsInit, RoomInit, MicroVMInit, Seam!ContractInit, SeenRoom, SeenShell, Opening, Closing
<1>2. RoomInv /\ RoomInv' /\ [BackendsNext]_vars => [Seam!ContractNext]_(Seam!contractVars)
  BY ContractStep
<1> QED BY <1>1, <1>2, RoomInvariance, PTL DEF BackendsSpec, Seam!ContractSteps
=============================================================================
