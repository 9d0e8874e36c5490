--------------------------- MODULE NodeMonitorProofs ---------------------------
(***************************************************************************)
(* Proofs about the node monitor, for any nodes, addresses, timeout and    *)
(* bounds: what the shared and the exclusive lock protect.                 *)
(***************************************************************************)
EXTENDS NodeMonitor, TLAPS

\* Who holds the lock shared began as the master, and the role cannot change before the
\* lock is released.
ReadersAreMaster ==
    /\ \A n \in Nodes : register[n] # "idle" => Master = NoMaster
    /\ checker.pc # "idle" => Master = NoMaster

\* Between its steps, a loop or a call relies on what it has read: the loop has rows to
\* visit only while it runs, a node to be inserted has no row, and a node to be buried
\* is still silent.
ReadersAreRight ==
    /\ checker.pc = "idle" => checker.todo = {}
    /\ \A n \in Nodes : register[n] = "insert" => node[n] = NoRow
    /\ checker.pc = "bury" => Silent(checker.at)

\* A keep-alive that reached a row was noted, and none counts for a standby.
HeardIsNoted ==
    /\ \A n \in Nodes : heard[n] <= LastTime[n] /\ LastTime[n] <= now
    /\ Master # NoMaster => \A n \in Nodes : heard[n] = 0

\* The file never names a third controller.
FileIsOfMasterIp == file \in {NoMaster, masterIp, Broken}

IInv ==
    /\ TypeOK /\ ReadersAreMaster /\ ReadersAreRight /\ HeardIsNoted /\ FileIsOfMasterIp
    /\ HeardNodeStaysAlive /\ RoleIsInFile /\ StandbyFollowsMasterIp

\* Counting a failure keeps the count in its bound.
LEMMA FailType ==
    ASSUME TypeOK, Fail \/ UNCHANGED failures
    PROVE  failures' \in 0..MaxFailures
  BY MonitorAssumption DEF TypeOK, Fail

\* A row marked alive or dead keeps the table typed and takes no row away.
LEMMA MarkType ==
    ASSUME TypeOK, NEW n \in Nodes, NEW b \in BOOLEAN,
           node' = node \/ node' = [node EXCEPT ![n] = b]
    PROVE  node' \in [Nodes -> BOOLEAN \cup {NoRow}] /\ Rows \subseteq Rows'
<1>1. node \in [Nodes -> BOOLEAN \cup {NoRow}] /\ b # NoRow
  BY MonitorAssumption, Zenon DEF TypeOK
<1>2. node' \in [Nodes -> BOOLEAN \cup {NoRow}]
  BY <1>1, Zenon
<1>3. ASSUME NEW k \in Nodes, node[k] # NoRow
      PROVE  node'[k] # NoRow
  BY <1>1, <1>3, Zenon
<1>. QED
  BY <1>2, <1>3 DEF Rows

\* The first start satisfies the invariant.
LEMMA InitInv == Init => IInv
<1>. SUFFICES ASSUME Init PROVE IInv
  OBVIOUS
<1>1. unsaved \in BOOLEAN
  BY Zenon DEF Init
<1>2. TypeOK
  BY <1>1, MonitorAssumption DEF Init, TypeOK, Rows
<1>. QED
  BY <1>2, MonitorAssumption
  DEF Init, IInv, ReadersAreMaster, ReadersAreRight, HeardIsNoted, FileIsOfMasterIp,
      HeardNodeStaysAlive, RoleIsInFile, StandbyFollowsMasterIp, Silent, Rows

\* The Exists query of Register keeps the invariant: it changes only what the call
\* knows.
LEMMA RegisterInv ==
    ASSUME NEW n \in Nodes, IInv, Register(n)
    PROVE  IInv'
<1>1. TypeOK' /\ ReadersAreMaster'
  BY MonitorAssumption DEF IInv, TypeOK, ReadersAreMaster, Register, Rows, role
<1>2. ReadersAreRight'
  BY DEF IInv, TypeOK, ReadersAreRight, Register, Rows, Silent, role
<1>. QED
  BY <1>1, <1>2 DEF IInv, Register, HeardIsNoted, FileIsOfMasterIp, HeardNodeStaysAlive,
                    RoleIsInFile, StandbyFollowsMasterIp, role

\* A row that Register inserts belongs to a node no keep-alive has reached.
LEMMA RegisterWriteInv ==
    ASSUME NEW n \in Nodes, IInv, RegisterWrite(n)
    PROVE  IInv'
<1>1. /\ register[n] = "insert" => node[n] = NoRow
      /\ node' = node \/ (register[n] = "insert" /\ node' = [node EXCEPT ![n] = FALSE])
  <2>1. register[n] = "insert" => node[n] = NoRow
    BY DEF IInv, ReadersAreRight
  <2>2. node' = node \/ (register[n] = "insert" /\ node' = [node EXCEPT ![n] = FALSE])
    BY Zenon DEF RegisterWrite
  <2>. QED
    BY <2>1, <2>2, Zenon
<1>2. TypeOK'
  <2>1. node' \in [Nodes -> BOOLEAN \cup {NoRow}] /\ Rows \subseteq Rows'
    BY <1>1, MarkType, Zenon DEF IInv
  <2>2. failures' \in 0..MaxFailures
    BY FailType DEF IInv, RegisterWrite
  <2>. QED
    BY <2>1, <2>2 DEF IInv, TypeOK, RegisterWrite, role
<1>3. ReadersAreMaster' /\ ReadersAreRight'
  BY <1>1 DEF IInv, TypeOK, ReadersAreMaster, ReadersAreRight, RegisterWrite, Silent, role
<1>4. HeardNodeStaysAlive'
  BY <1>1, MonitorAssumption DEF IInv, TypeOK, HeardNodeStaysAlive, RegisterWrite, role
<1>. QED
  BY <1>2, <1>3, <1>4 DEF IInv, RegisterWrite, HeardIsNoted, FileIsOfMasterIp,
                    RoleIsInFile, StandbyFollowsMasterIp, role

\* KeepAlive runs when nobody holds the lock shared.
LEMMA KeepAliveInv ==
    ASSUME NEW n \in Nodes, IInv, KeepAlive(n)
    PROVE  IInv'
<1>1. checker.pc = "idle" /\ \A m \in Nodes : register[m] = "idle"
  BY DEF KeepAlive, NoReaders
<1>2. TypeOK'
  <2>1. node' = node \/ node' = [node EXCEPT ![n] = TRUE]
    BY Zenon DEF KeepAlive
  <2>2. node' \in [Nodes -> BOOLEAN \cup {NoRow}] /\ Rows \subseteq Rows'
    BY <2>1, MarkType, Zenon DEF IInv
  <2>3. failures' \in 0..MaxFailures
    BY FailType DEF IInv, KeepAlive
  <2>4. heard' = heard \/ heard' = [heard EXCEPT ![n] = now]
    BY DEF KeepAlive
  <2>5. heard' \in [Nodes -> Nat] /\ LastTime' \in [Nodes -> Nat]
    BY <2>4 DEF IInv, TypeOK, KeepAlive
  <2>. QED
    BY <2>2, <2>3, <2>5 DEF IInv, TypeOK, KeepAlive, role
<1>3. ReadersAreMaster' /\ ReadersAreRight'
  BY <1>1 DEF IInv, ReadersAreMaster, ReadersAreRight, KeepAlive, role
<1>4. HeardIsNoted'
  <2>1. heard' = heard \/ heard' = [heard EXCEPT ![n] = now]
    BY DEF KeepAlive
  <2>. QED
    BY <2>1 DEF IInv, TypeOK, HeardIsNoted, KeepAlive, role
<1>5. HeardNodeStaysAlive'
  BY MonitorAssumption DEF IInv, TypeOK, HeardNodeStaysAlive, KeepAlive, Rows, role
<1>. QED
  BY <1>2, <1>3, <1>4, <1>5 DEF IInv, KeepAlive, FileIsOfMasterIp,
                    RoleIsInFile, StandbyFollowsMasterIp, role

\* The loop of CheckAlive buries who was silent when it looked, and no keep-alive can
\* come before the update.
LEMMA CheckStepInv ==
    ASSUME IInv, CheckStep
    PROVE  IInv'
<1>1. CASE CheckAlive
  <2>1. TypeOK'
    BY <1>1, MonitorAssumption DEF IInv, TypeOK, CheckAlive, Rows, role, Fail
  <2>2. ReadersAreMaster' /\ ReadersAreRight'
    BY <1>1 DEF IInv, ReadersAreMaster, ReadersAreRight, CheckAlive, role
  <2>. QED
    BY <1>1, <2>1, <2>2 DEF IInv, CheckAlive, HeardIsNoted, FileIsOfMasterIp,
                    HeardNodeStaysAlive, RoleIsInFile, StandbyFollowsMasterIp, role
<1>2. ASSUME NEW n \in Nodes, Visit(n)
      PROVE  IInv'
  <2>1. TypeOK'
    BY <1>2, MonitorAssumption DEF IInv, TypeOK, Visit, Rows, role
  <2>2. ReadersAreMaster' /\ ReadersAreRight'
    BY <1>2 DEF IInv, TypeOK, ReadersAreMaster, ReadersAreRight, Visit, Silent, role
  <2>. QED
    BY <1>2, <2>1, <2>2 DEF IInv, Visit, HeardIsNoted, FileIsOfMasterIp,
                    HeardNodeStaysAlive, RoleIsInFile, StandbyFollowsMasterIp, role
<1>3. CASE Bury
  <2>1. /\ checker.at \in Rows /\ Silent(checker.at)
        /\ node' = node \/ node' = [node EXCEPT ![checker.at] = FALSE]
    BY <1>3 DEF IInv, TypeOK, ReadersAreRight, Bury
  <2>2. TypeOK'
    <3>1. node' \in [Nodes -> BOOLEAN \cup {NoRow}] /\ Rows \subseteq Rows'
      BY <2>1, MarkType, Zenon DEF IInv, Rows
    <3>2. failures' \in 0..MaxFailures
      BY <1>3, FailType DEF IInv, Bury
    <3>. QED
      BY <1>3, <2>1, <3>1, <3>2 DEF IInv, TypeOK, Bury, role
  <2>3. ReadersAreMaster' /\ ReadersAreRight'
    BY <1>3, <2>1 DEF IInv, TypeOK, ReadersAreMaster, ReadersAreRight, Bury, Rows, role
  <2>4. HeardNodeStaysAlive'
    <3>1. ~(heard[checker.at] # 0 /\ now - heard[checker.at] <= timeout)
      BY <2>1, MonitorAssumption DEF IInv, TypeOK, HeardIsNoted, Silent, Rows
    <3>. QED
      BY <1>3, <2>1, <3>1 DEF IInv, TypeOK, HeardNodeStaysAlive, Bury, Rows
  <2>. QED
    BY <1>3, <2>2, <2>3, <2>4 DEF IInv, Bury, HeardIsNoted, FileIsOfMasterIp,
                    RoleIsInFile, StandbyFollowsMasterIp, role
<1>4. CASE CheckDone
  BY <1>4 DEF IInv, TypeOK, CheckDone, ReadersAreMaster, ReadersAreRight, HeardIsNoted,
              FileIsOfMasterIp, HeardNodeStaysAlive, RoleIsInFile, StandbyFollowsMasterIp,
              Silent, Rows, role
<1>. QED
  BY <1>1, <1>2, <1>3, <1>4 DEF CheckStep

\* Whatever becomes of the file, MasterOper leaves the role it names, the master's own or
\* the one this process was started with.
LEMMA MasterOperInv ==
    ASSUME NEW m \in {masterIp, NoMaster}, masterIp \in Addresses, IInv, MasterOper(m)
    PROVE  IInv'
<1>1. checker.pc = "idle" /\ \A n \in Nodes : register[n] = "idle"
  BY DEF MasterOper, NoReaders
<1>2. /\ file' \in {m, file, Broken}
      /\ Master' \in {m, NoMaster} \/ Master' = Master \/ (Master' = file' /\ file' # Broken)
      /\ heard' = [n \in Nodes |-> 0] \/ (Master' = NoMaster /\ heard' = heard)
      /\ UNCHANGED <<masterIp, node, LastTime, checker, register, now>>
      /\ failures' \in 0..MaxFailures /\ unsaved' \in BOOLEAN
      /\ RoleIsInFile'
  <2>1. failures' \in 0..MaxFailures
    BY FailType DEF IInv, MasterOper, ChangeRole, WriteAndReload
  <2>2. /\ file' \in {m, file, Broken}
        /\ UNCHANGED <<masterIp, node, LastTime, checker, register, now>>
    BY DEF MasterOper, ChangeRole, WriteAndReload
  <2>3. /\ Master' \in {m, NoMaster} \/ Master' = Master \/ (Master' = file' /\ file' # Broken)
    BY DEF MasterOper, ChangeRole, WriteAndReload, Reload
  <2>4. heard' = [n \in Nodes |-> 0] \/ (Master' = NoMaster /\ heard' = heard)
    BY Zenon DEF MasterOper
  <2>5. unsaved' \in BOOLEAN
    BY Zenon DEF MasterOper, ChangeRole, WriteAndReload, IInv, TypeOK
  <2>6. RoleIsInFile'
    <3>1. CASE UNCHANGED <<Master, file, unsaved>>
      BY <3>1 DEF IInv, RoleIsInFile
    <3>2. CASE unsaved' = TRUE
      BY <3>2, Zenon DEF RoleIsInFile
    <3>3. CASE Reload \/ (file' = m /\ Master' = m)
      BY <3>3 DEF RoleIsInFile, Reload
    <3>. QED
      BY <3>1, <3>2, <3>3 DEF MasterOper, ChangeRole, WriteAndReload
  <2>. QED
    BY <2>1, <2>2, <2>3, <2>4, <2>5, <2>6, Zenon
<1>3. TypeOK'
  BY <1>2 DEF IInv, TypeOK, FileIsOfMasterIp, Rows
<1>4. ReadersAreMaster' /\ ReadersAreRight'
  BY <1>1, <1>2 DEF IInv, ReadersAreMaster, ReadersAreRight
<1>5. HeardIsNoted' /\ HeardNodeStaysAlive'
  BY <1>2 DEF IInv, TypeOK, HeardIsNoted, HeardNodeStaysAlive
<1>6. FileIsOfMasterIp' /\ StandbyFollowsMasterIp'
  BY <1>2, MonitorAssumption DEF IInv, FileIsOfMasterIp, StandbyFollowsMasterIp
<1>. QED
  BY <1>2, <1>3, <1>4, <1>5, <1>6 DEF IInv

\* A restart, the replication of the master's table on a standby, and time.
LEMMA OtherStepsInv ==
    ASSUME IInv, Restart \/ Pass \/ \E n \in Nodes : Replicate(n)
    PROVE  IInv'
<1>1. CASE Restart
  <2>1. unsaved' \in BOOLEAN
    BY <1>1, Zenon DEF Restart
  <2>2. TypeOK'
    BY <1>1, <2>1, MonitorAssumption DEF IInv, TypeOK, Restart, Fail, Rows
  <2>. QED
    BY <1>1, <2>2, MonitorAssumption
    DEF IInv, TypeOK, Restart, ReadersAreMaster, ReadersAreRight, HeardIsNoted,
      FileIsOfMasterIp, HeardNodeStaysAlive, RoleIsInFile, StandbyFollowsMasterIp, Fail, Rows
<1>2. CASE Pass
  BY <1>2, MonitorAssumption
  DEF IInv, TypeOK, Pass, ReadersAreMaster, ReadersAreRight, HeardIsNoted,
      FileIsOfMasterIp, HeardNodeStaysAlive, RoleIsInFile, StandbyFollowsMasterIp, Silent,
      Rows, role
<1>3. ASSUME NEW n \in Nodes, Replicate(n)
      PROVE  IInv'
  <2>1. /\ checker.pc = "idle" /\ checker.todo = {}
        /\ \A k \in Nodes : register[k] = "idle" /\ heard[k] = 0
    BY <1>3 DEF IInv, TypeOK, Replicate, ReadersAreMaster, ReadersAreRight, HeardIsNoted
  <2>2. TypeOK'
    BY <1>3, <2>1 DEF IInv, TypeOK, Replicate, Rows, role
  <2>. QED
    BY <1>3, <2>1, <2>2 DEF IInv, Replicate, ReadersAreMaster, ReadersAreRight, HeardIsNoted,
        FileIsOfMasterIp, HeardNodeStaysAlive, RoleIsInFile, StandbyFollowsMasterIp, role
<1>. QED
  BY <1>1, <1>2, <1>3

\* Every step keeps the invariant.
LEMMA NextInv == IInv /\ [Next]_vars => IInv'
<1>. SUFFICES ASSUME IInv, [Next]_vars
              PROVE  IInv'
  OBVIOUS
<1>1. ASSUME NEW n \in Nodes, Register(n) \/ RegisterWrite(n) \/ KeepAlive(n)
      PROVE  IInv'
  BY <1>1, RegisterInv, RegisterWriteInv, KeepAliveInv
<1>2. CASE CheckStep
  BY <1>2, CheckStepInv
<1>3. ASSUME NEW ip \in Addresses, MasterUp(ip) \/ MasterDown(ip)
      PROVE  IInv'
  BY <1>3, MasterOperInv DEF MasterUp, MasterDown
<1>4. CASE Restart \/ Pass \/ \E n \in Nodes : Replicate(n)
  BY <1>4, OtherStepsInv
<1>5. CASE UNCHANGED vars
  BY <1>5 DEF IInv, TypeOK, ReadersAreMaster, ReadersAreRight, HeardIsNoted,
              FileIsOfMasterIp, HeardNodeStaysAlive, RoleIsInFile, StandbyFollowsMasterIp,
              Silent, Rows, vars, role
<1>. QED
  BY <1>1, <1>2, <1>3, <1>4, <1>5 DEF Next

\* The invariant holds in every reachable state.
THEOREM Invariant == Spec => []IInv
  BY InitInv, NextInv, PTL DEF Spec

\* Types, with the rows the ticker's loop still has to visit (CheckAlive).
THEOREM TypeCorrect == Spec => []TypeOK
<1>1. IInv => TypeOK
  BY DEF IInv
<1>. QED
  BY <1>1, Invariant, PTL

\* A node whose keep-alive was written stays alive until the timeout (KeepAlive holds
\* the lock exclusively, CheckAlive shared).
THEOREM HeardNodesLive == Spec => []HeardNodeStaysAlive
<1>1. IInv => HeardNodeStaysAlive
  BY DEF IInv
<1>. QED
  BY <1>1, Invariant, PTL

\* The role in memory is the one in the file, or the file is invalid, or the last change
\* could not be marshalled, or neither written nor undone (MasterOper).
THEOREM RoleSurvivesRestart == Spec => []RoleIsInFile
<1>1. IInv => RoleIsInFile
  BY DEF IInv
<1>. QED
  BY <1>1, Invariant, PTL

\* A standby follows the master it was started with (MasterUp, MasterDown).
THEOREM StandbyObeys == Spec => []StandbyFollowsMasterIp
<1>1. IInv => StandbyFollowsMasterIp
  BY DEF IInv
<1>. QED
  BY <1>1, Invariant, PTL

\* A standby writes no row (Register, KeepAlive and CheckAlive hold the lock from the test
\* of the role to their last statement).
THEOREM StandbyIsSilent == Spec => StandbyDoesNotWrite
<1>1. IInv => ((\E n \in Nodes : RegisterWrite(n) \/ KeepAlive(n)) \/ Bury => Master = NoMaster)
  BY DEF IInv, ReadersAreMaster, RegisterWrite, KeepAlive, Bury
<1>. QED
  BY <1>1, Invariant, PTL DEF StandbyDoesNotWrite
================================================================================
