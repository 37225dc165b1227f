-------------------------- MODULE GuestAgent_proofs -------------------------
(***************************************************************************)
(* Proofs about GuestAgent, for any number of connections and shells.      *)
(***************************************************************************)
EXTENDS GuestAgent, TLAPS

USE DEF hostVars, loopVars, shellVars, slotVars

Reported == {"aborting", "clear_data", "clear_ctrl", "done"}

(***************************************************************************)
(* Where the tasks of a session are, relative to each other and to the     *)
(* accept loop.  The exit task touches the slots only after it has aborted *)
(* the pump, so no write is under way then; and the loop reattaches only   *)
(* to a session whose flag says that the exit task still waits.            *)
(***************************************************************************)
TasksInv ==
    /\ \A x \in Shells : exiter[x] \in {"reporting"} \cup Reported => pump[x] = "ended"
    /\ serving # "failed" => \A x \in running : exiter[x] = "waiting"
    /\ (live = None) = (latest = None)
    /\ serving \in AttachState => live # None
    /\ live # None => exiter[live] # "none"

(***************************************************************************)
(* How far attach is, in terms of the halves of the live session.  The     *)
(* exit task may clear a slot at any moment, so a slot that attach has set *)
(* is the newest connection's or empty.                                    *)
(***************************************************************************)
HalvesInv ==
    /\ \A x \in Shells : \A a, b \in Attached(x) : a = b
    /\ serving \in AttachState \ {"aborting"} => readers[live] = {}
    /\ serving \in {"clear_ctrl", "set_data"} => dataOut[live] = None
    /\ serving \in {"set_data", "set_ctrl"} => ctrlOut[live] = None
    /\ serving \in {"set_ctrl", "register"} => dataOut[live] \in {None, latest}
    /\ serving = "register" => ctrlOut[live] \in {None, latest}

(***************************************************************************)
(* What the newest connection knows: until the exit task has reported, an  *)
(* attached connection has both slots, unless its host closed it; and once *)
(* it has reported, the connection was told, or overtaken while it was     *)
(* being attached.                                                         *)
(***************************************************************************)
StatusInv ==
    live # None =>
        /\ serving \in {"set_ctrl", "register", "accepting"} /\ exiter[live] \notin Reported =>
             dataOut[live] = latest \/ host[latest] = "closed"
        /\ serving \in {"register", "accepting"} /\ exiter[live] \notin Reported =>
             ctrlOut[live] = latest
        /\ serving \in AttachState /\ exiter[live] \in Reported => latest \in overtaken
        /\ serving = "accepting" /\ exiter[live] \in Reported => latest \in told \cup overtaken

AgentInv == AgentTypeOK /\ TasksInv /\ HalvesInv /\ StatusInv

(* An agent that has just booted.                                          *)
LEMMA InitAgentInv == ASSUME AgentInit PROVE AgentInv
BY AgentAssumption
DEF AgentInit, AgentInv, AgentTypeOK, TasksInv, HalvesInv, StatusInv, Attached, AttachState, Reported

(* Every step keeps the types, and the order of the tasks.                 *)
LEMMA NextAgentType == ASSUME AgentTypeOK, TasksInv, [AgentNext]_agentVars PROVE AgentTypeOK' /\ TasksInv'
<1> USE AgentAssumption
<1> USE DEF AgentTypeOK, TasksInv, AttachState, Reported
<1>1. ASSUME NEW c \in Conns, Reattach(c), serving # "failed" PROVE AgentTypeOK' /\ TasksInv'
  BY <1>1 DEF Reattach
<1>2. ASSUME NEW c \in Conns, StartFails(c), serving # "failed" PROVE AgentTypeOK' /\ TasksInv'
  BY <1>2 DEF StartFails
<1>3. ASSUME NEW c \in Conns, NEW x \in Shells, StartSession(c, x), serving # "failed" PROVE AgentTypeOK' /\ TasksInv'
  BY <1>3 DEF StartSession
<1>4. CASE AttachAborts
  BY <1>4 DEF AttachAborts
<1>5. CASE AttachClearsData
  BY <1>5 DEF AttachClearsData, DataLockFree
<1>6. CASE AttachClearsCtrl
  BY <1>6 DEF AttachClearsCtrl
<1>7. CASE AttachSetsData
  BY <1>7 DEF AttachSetsData, DataLockFree
<1>8. CASE AttachSetsCtrl
  BY <1>8 DEF AttachSetsCtrl
<1>9. CASE AttachRegisters
  BY <1>9 DEF AttachRegisters, Freed
<1>10. ASSUME NEW c \in Conns, Connect(c), serving # "failed" PROVE AgentTypeOK' /\ TasksInv'
  BY <1>10 DEF Connect
<1>11. ASSUME NEW c \in Conns, HostCloses(c), serving # "failed" PROVE AgentTypeOK' /\ TasksInv'
  BY <1>11 DEF HostCloses
<1>12. ASSUME NEW c \in Conns, GoesSilent(c), serving # "failed" PROVE AgentTypeOK' /\ TasksInv'
  BY <1>12 DEF GoesSilent
<1>13. ASSUME NEW x \in Shells, PumpReads(x), serving # "failed" PROVE AgentTypeOK' /\ TasksInv'
  BY <1>13 DEF PumpReads
<1>14. ASSUME NEW x \in Shells, PumpWrites(x), serving # "failed" PROVE AgentTypeOK' /\ TasksInv'
  BY <1>14 DEF PumpWrites, PumpStuck
<1>15. ASSUME NEW x \in Shells, PumpEnds(x), serving # "failed" PROVE AgentTypeOK' /\ TasksInv'
  BY <1>15 DEF PumpEnds
<1>16. ASSUME NEW x \in Shells, ShellExits(x), serving # "failed" PROVE AgentTypeOK' /\ TasksInv'
  BY <1>16 DEF ShellExits
<1>17. ASSUME NEW x \in Shells, ExitNoticed(x), serving # "failed" PROVE AgentTypeOK' /\ TasksInv'
  BY <1>17 DEF ExitNoticed
<1>18. ASSUME NEW x \in Shells, Drained(x), serving # "failed" PROVE AgentTypeOK' /\ TasksInv'
  BY <1>18 DEF Drained
<1>19. ASSUME NEW x \in Shells, Reports(x), serving # "failed" PROVE AgentTypeOK' /\ TasksInv'
  BY <1>19 DEF Reports
<1>20. ASSUME NEW x \in Shells, ExitAborts(x), serving # "failed" PROVE AgentTypeOK' /\ TasksInv'
  BY <1>20 DEF ExitAborts
<1>21. ASSUME NEW x \in Shells, ExitClearsData(x), serving # "failed" PROVE AgentTypeOK' /\ TasksInv'
  BY <1>21 DEF ExitClearsData
<1>22. ASSUME NEW x \in Shells, ExitClearsCtrl(x), serving # "failed" PROVE AgentTypeOK' /\ TasksInv'
  BY <1>22 DEF ExitClearsCtrl
<1>23. ASSUME NEW x \in Shells, NEW c \in Conns, ReadersEnd(x, c), serving # "failed" PROVE AgentTypeOK' /\ TasksInv'
  BY <1>23 DEF ReadersEnd
<1>24. CASE UNCHANGED agentVars
  BY <1>24 DEF agentVars
<1> QED
  BY <1>1, <1>2, <1>3, <1>4, <1>5, <1>6, <1>7, <1>8, <1>9, <1>10, <1>11, <1>12, <1>13, <1>14, <1>15, <1>16, <1>17, <1>18, <1>19, <1>20, <1>21, <1>22, <1>23, <1>24
  DEF AgentNext, Serve, Attach, ExitTask, Waits

(* Every step keeps the halves of a session with one connection.           *)
LEMMA NextHalves == ASSUME AgentTypeOK, AgentTypeOK', TasksInv, HalvesInv, [AgentNext]_agentVars PROVE HalvesInv'
<1> USE AgentAssumption
<1> USE DEF AgentTypeOK, TasksInv, HalvesInv, Attached, AttachState, Reported
<1>1. ASSUME NEW c \in Conns, Reattach(c), serving # "failed" PROVE HalvesInv'
  BY <1>1 DEF Reattach
<1>2. ASSUME NEW c \in Conns, StartFails(c), serving # "failed" PROVE HalvesInv'
  BY <1>2 DEF StartFails
<1>3. ASSUME NEW c \in Conns, NEW x \in Shells, StartSession(c, x), serving # "failed" PROVE HalvesInv'
  BY <1>3 DEF StartSession
<1>4. CASE AttachAborts
  BY <1>4 DEF AttachAborts
<1>5. CASE AttachClearsData
  BY <1>5 DEF AttachClearsData, DataLockFree
<1>6. CASE AttachClearsCtrl
  BY <1>6 DEF AttachClearsCtrl
<1>7. CASE AttachSetsData
  BY <1>7 DEF AttachSetsData, DataLockFree
<1>8. CASE AttachSetsCtrl
  BY <1>8 DEF AttachSetsCtrl
<1>9. CASE AttachRegisters
  <2>1. ASSUME NEW x \in Shells PROVE \A a, b \in Attached(x)' : a = b
    <3>1. CASE x = live
      <4>1. dataOut'[x] \in {None, latest} /\ ctrlOut'[x] \in {None, latest} /\ readers'[x] = {latest}
        BY <1>9, <3>1 DEF AttachRegisters, Freed
      <4> QED BY <4>1
    <3>2. CASE x # live
      <4>1. dataOut'[x] \in {None, dataOut[x]} /\ ctrlOut'[x] \in {None, ctrlOut[x]} /\ readers'[x] = {}
        BY <1>9, <3>2 DEF AttachRegisters, Freed
      <4> HIDE DEF AgentTypeOK, TasksInv
      <4> QED BY <4>1
    <3> QED BY <3>1, <3>2
  <2>2. serving' = "accepting"
    BY <1>9 DEF AttachRegisters
  <2> HIDE DEF AgentTypeOK, TasksInv
  <2> QED BY <2>1, <2>2
<1>10. ASSUME NEW c \in Conns, Connect(c), serving # "failed" PROVE HalvesInv'
  BY <1>10 DEF Connect
<1>11. ASSUME NEW c \in Conns, HostCloses(c), serving # "failed" PROVE HalvesInv'
  BY <1>11 DEF HostCloses
<1>12. ASSUME NEW c \in Conns, GoesSilent(c), serving # "failed" PROVE HalvesInv'
  BY <1>12 DEF GoesSilent
<1>13. ASSUME NEW x \in Shells, PumpReads(x), serving # "failed" PROVE HalvesInv'
  BY <1>13 DEF PumpReads
<1>14. ASSUME NEW x \in Shells, PumpWrites(x), serving # "failed" PROVE HalvesInv'
  BY <1>14 DEF PumpWrites, PumpStuck
<1>15. ASSUME NEW x \in Shells, PumpEnds(x), serving # "failed" PROVE HalvesInv'
  BY <1>15 DEF PumpEnds
<1>16. ASSUME NEW x \in Shells, ShellExits(x), serving # "failed" PROVE HalvesInv'
  BY <1>16 DEF ShellExits
<1>17. ASSUME NEW x \in Shells, ExitNoticed(x), serving # "failed" PROVE HalvesInv'
  BY <1>17 DEF ExitNoticed
<1>18. ASSUME NEW x \in Shells, Drained(x), serving # "failed" PROVE HalvesInv'
  BY <1>18 DEF Drained
<1>19. ASSUME NEW x \in Shells, Reports(x), serving # "failed" PROVE HalvesInv'
  BY <1>19 DEF Reports
<1>20. ASSUME NEW x \in Shells, ExitAborts(x), serving # "failed" PROVE HalvesInv'
  BY <1>20 DEF ExitAborts
<1>21. ASSUME NEW x \in Shells, ExitClearsData(x), serving # "failed" PROVE HalvesInv'
  BY <1>21 DEF ExitClearsData
<1>22. ASSUME NEW x \in Shells, ExitClearsCtrl(x), serving # "failed" PROVE HalvesInv'
  <2>1. ASSUME NEW y \in Shells PROVE \A a, b \in Attached(y)' : a = b
    <3>1. dataOut'[y] = dataOut[y] /\ ctrlOut'[y] \in {None, ctrlOut[y]} /\ readers'[y] = readers[y]
      BY <1>22 DEF ExitClearsCtrl
    <3> HIDE DEF AgentTypeOK, TasksInv
    <3> QED BY <3>1
  <2>2. serving \in AttachState => live \in Shells /\ ctrlOut'[live] \in {None, ctrlOut[live]}
    BY <1>22 DEF ExitClearsCtrl
  <2>3. UNCHANGED <<serving, live, latest, dataOut, readers>>
    BY <1>22 DEF ExitClearsCtrl
  <2> HIDE DEF AgentTypeOK, TasksInv, Attached
  <2> QED BY <2>1, <2>2, <2>3
<1>23. ASSUME NEW x \in Shells, NEW c \in Conns, ReadersEnd(x, c), serving # "failed" PROVE HalvesInv'
  <2>1. ASSUME NEW y \in Shells PROVE \A a, b \in Attached(y)' : a = b
    <3>1. dataOut'[y] = dataOut[y] /\ ctrlOut'[y] = ctrlOut[y] /\ readers'[y] \subseteq readers[y]
      BY <1>23 DEF ReadersEnd
    <3> HIDE DEF AgentTypeOK, TasksInv
    <3> QED BY <3>1
  <2>2. serving \in AttachState => live \in Shells /\ readers'[live] \subseteq readers[live]
    BY <1>23 DEF ReadersEnd
  <2>3. UNCHANGED <<serving, live, latest, dataOut, ctrlOut>>
    BY <1>23 DEF ReadersEnd
  <2> HIDE DEF AgentTypeOK, TasksInv, Attached
  <2> QED BY <2>1, <2>2, <2>3
<1>24. CASE UNCHANGED agentVars
  BY <1>24 DEF agentVars
<1> QED
  BY <1>1, <1>2, <1>3, <1>4, <1>5, <1>6, <1>7, <1>8, <1>9, <1>10, <1>11, <1>12, <1>13, <1>14, <1>15, <1>16, <1>17, <1>18, <1>19, <1>20, <1>21, <1>22, <1>23, <1>24
  DEF AgentNext, Serve, Attach, ExitTask, Waits

(* Every step keeps what the newest connection knows.                      *)
LEMMA NextStatus == ASSUME AgentTypeOK, AgentTypeOK', TasksInv, TasksInv', HalvesInv, StatusInv, [AgentNext]_agentVars
                    PROVE  StatusInv'
<1> USE AgentAssumption
<1> USE DEF AgentTypeOK, TasksInv, StatusInv, AttachState, Reported
<1>1. ASSUME NEW c \in Conns, Reattach(c), serving # "failed" PROVE StatusInv'
  BY <1>1 DEF Reattach
<1>2. ASSUME NEW c \in Conns, StartFails(c), serving # "failed" PROVE StatusInv'
  BY <1>2 DEF StartFails
<1>3. ASSUME NEW c \in Conns, NEW x \in Shells, StartSession(c, x), serving # "failed" PROVE StatusInv'
  BY <1>3 DEF StartSession
<1>4. CASE AttachAborts
  BY <1>4 DEF AttachAborts
<1>5. CASE AttachClearsData
  BY <1>5 DEF AttachClearsData, DataLockFree
<1>6. CASE AttachClearsCtrl
  BY <1>6 DEF AttachClearsCtrl
<1>7. CASE AttachSetsData
  BY <1>7 DEF AttachSetsData, DataLockFree
<1>8. CASE AttachSetsCtrl
  BY <1>8 DEF AttachSetsCtrl
<1>9. CASE AttachRegisters
  BY <1>9 DEF AttachRegisters, Freed
<1>10. ASSUME NEW c \in Conns, Connect(c), serving # "failed" PROVE StatusInv'
  BY <1>10 DEF Connect
<1>11. ASSUME NEW c \in Conns, HostCloses(c), serving # "failed" PROVE StatusInv'
  BY <1>11 DEF HostCloses
<1>12. ASSUME NEW c \in Conns, GoesSilent(c), serving # "failed" PROVE StatusInv'
  BY <1>12 DEF GoesSilent
<1>13. ASSUME NEW x \in Shells, PumpReads(x), serving # "failed" PROVE StatusInv'
  BY <1>13 DEF PumpReads
<1>14. ASSUME NEW x \in Shells, PumpWrites(x), serving # "failed" PROVE StatusInv'
  BY <1>14 DEF PumpWrites, PumpStuck
<1>15. ASSUME NEW x \in Shells, PumpEnds(x), serving # "failed" PROVE StatusInv'
  BY <1>15 DEF PumpEnds
<1>16. ASSUME NEW x \in Shells, ShellExits(x), serving # "failed" PROVE StatusInv'
  BY <1>16 DEF ShellExits
<1>17. ASSUME NEW x \in Shells, ExitNoticed(x), serving # "failed" PROVE StatusInv'
  BY <1>17 DEF ExitNoticed
<1>18. ASSUME NEW x \in Shells, Drained(x), serving # "failed" PROVE StatusInv'
  BY <1>18 DEF Drained
<1>19. ASSUME NEW x \in Shells, Reports(x), serving # "failed" PROVE StatusInv'
  BY <1>19 DEF Reports
<1>20. ASSUME NEW x \in Shells, ExitAborts(x), serving # "failed" PROVE StatusInv'
  BY <1>20 DEF ExitAborts
<1>21. ASSUME NEW x \in Shells, ExitClearsData(x), serving # "failed" PROVE StatusInv'
  BY <1>21 DEF ExitClearsData
<1>22. ASSUME NEW x \in Shells, ExitClearsCtrl(x), serving # "failed" PROVE StatusInv'
  BY <1>22 DEF ExitClearsCtrl
<1>23. ASSUME NEW x \in Shells, NEW c \in Conns, ReadersEnd(x, c), serving # "failed" PROVE StatusInv'
  BY <1>23 DEF ReadersEnd
<1>24. CASE UNCHANGED agentVars
  BY <1>24 DEF agentVars
<1> QED
  BY <1>1, <1>2, <1>3, <1>4, <1>5, <1>6, <1>7, <1>8, <1>9, <1>10, <1>11, <1>12, <1>13, <1>14, <1>15, <1>16, <1>17, <1>18, <1>19, <1>20, <1>21, <1>22, <1>23, <1>24
  DEF AgentNext, Serve, Attach, ExitTask, Waits

(* The tasks of a session, its two slots and the accept loop stay in step: *)
(* the invariant the theorems below rest on.                               *)
THEOREM AgentInvariance == AgentSpec => []AgentInv
<1>1. AgentInit => AgentInv
  BY InitAgentInv
<1>2. AgentInv /\ [AgentNext]_agentVars => AgentInv'
  BY NextAgentType, NextHalves, NextStatus DEF AgentInv
<1> QED BY <1>1, <1>2, PTL DEF AgentSpec

(* The variables have their types, and the writer that the pump writes to  *)
(* is not taken from its slot while it writes (session.rs, the lock).      *)
THEOREM SlotStaysPut == AgentSpec => []AgentTypeOK
<1>1. AgentInv => AgentTypeOK
  BY DEF AgentInv
<1> QED BY <1>1, AgentInvariance, PTL

(* However many connections displace each other and however their attaches *)
(* interleave with the exit of the shell, a session's halves are those of  *)
(* one connection (Session::attach, detach).                               *)
THEOREM Displaced == AgentSpec => []OneConnection
<1>1. AgentInv => OneConnection
  BY DEF AgentInv, HalvesInv, OneConnection
<1> QED BY <1>1, AgentInvariance, PTL

(* The connection in use is told the shell's status before it is dropped,  *)
(* unless its attach was overtaken by the exit task.                       *)
THEOREM StatusComesFirst == AgentSpec => []StatusBeforeEnd
<1>1. ASSUME AgentInv PROVE StatusBeforeEnd
  BY <1>1, AgentAssumption DEF AgentInv, AgentTypeOK, TasksInv, StatusInv, StatusBeforeEnd
<1> QED BY <1>1, AgentInvariance, PTL
=============================================================================
