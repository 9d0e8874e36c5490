----------------------------- MODULE NodeMonitor -----------------------------
(***************************************************************************)
(* The node monitor of a controller (src/pkg/metric/service).              *)
(*                                                                         *)
(* Nodes register and send keep-alives over gRPC; a ticker marks the nodes *)
(* dead that have been silent for too long.  A controller whose            *)
(* configuration names a master stands by and leaves the node table        *)
(* alone; the high-availability service tells it when that master goes     *)
(* down or comes up, and the controller then rewrites and reloads its      *)
(* configuration file.                                                     *)
(*                                                                         *)
(* One read-write lock covers all of this: Register and CheckAlive hold it *)
(* shared, from the test of the role to their last statement, KeepAlive    *)
(* and MasterOper exclusively, so each of these two is one step taken when *)
(* no reader is inside.  Of a node's row, only node_is_alive is kept.      *)
(***************************************************************************)
EXTENDS Integers

CONSTANTS Nodes,        \* ids of the nodes
          Addresses,    \* addresses of other controllers
          NoMaster,     \* the empty address: this controller is the master
          Broken,       \* a configuration file that is not valid
          NoRow,        \* absence of a node's row
          timeout,      \* monitor_node.timeout, in units of time
          MaxTime,      \* bound on the time that passes
          MaxFailures   \* bound on the operations that fail and on restarts

ASSUME MonitorAssumption ==
    /\ timeout \in Nat /\ MaxTime \in Nat /\ MaxFailures \in Nat
    /\ NoMaster \notin Addresses /\ Broken \notin Addresses /\ Broken # NoMaster
    /\ NoRow \notin BOOLEAN

VARIABLES Master,    \* Conf.Server.Master
          file,      \* the master the configuration file names
          masterIp,  \* the master it named when the process started
          node,      \* gr_node: node_is_alive of each row
          LastTime,  \* when the last keep-alive of each node came, 0 for never
          checker,   \* CheckAlive: its step and the rows it has yet to visit
          register,  \* the Register call of each node
          now,       \* the clock
          failures,  \* how much has failed (the bound)
          heard,     \* history: the last keep-alive that reached a node's row since
                     \* this process last became the master, 0 if none
          unsaved    \* history: no file could be made of the last change of the role, or
                     \* the file could be neither written nor read back

role == <<Master, file, masterIp, unsaved>>
vars == <<role, node, LastTime, checker, register, now, failures, heard>>

Rows == {n \in Nodes : node[n] # NoRow}

\* Nobody holds the lock shared.
NoReaders == checker.pc = "idle" /\ \A n \in Nodes : register[n] = "idle"

Fail == failures < MaxFailures /\ failures' = failures + 1

--------------------------------------------------------------------------------
(* Calls of the nodes *)

\* Register under the shared lock: nothing on a standby, else the Exists query.
Register(n) ==
    /\ register[n] = "idle"
    /\ Master = NoMaster
    /\ register' = [register EXCEPT ![n] = IF n \in Rows THEN "update" ELSE "insert"]
    /\ UNCHANGED <<role, node, LastTime, checker, now, failures, heard>>

\* The insert or the update; neither says that the node is alive.
RegisterWrite(n) ==
    /\ register[n] # "idle"
    /\ register' = [register EXCEPT ![n] = "idle"]
    /\ \/ /\ node' = IF register[n] = "insert" THEN [node EXCEPT ![n] = FALSE] ELSE node
          /\ UNCHANGED failures
       \/ Fail /\ UNCHANGED node
    /\ UNCHANGED <<role, LastTime, checker, now, heard>>

\* Mutant: KeepAlive takes the lock shared.
KeepAliveShared(n) ==
    /\ Master = NoMaster
    /\ LastTime' = [LastTime EXCEPT ![n] = now]
    /\ \/ /\ node' = IF n \in Rows THEN [node EXCEPT ![n] = TRUE] ELSE node
          /\ heard' = IF n \in Rows THEN [heard EXCEPT ![n] = now] ELSE heard
          /\ UNCHANGED failures
       \/ Fail /\ UNCHANGED <<node, heard>>
    /\ UNCHANGED <<role, checker, register, now>>

\* KeepAlive under the exclusive lock.  The time is noted in the body of the
\* transaction, so it stays when the update or the commit fails.
KeepAlive(n) ==
    /\ NoReaders
    /\ Master = NoMaster
    /\ LastTime' = [LastTime EXCEPT ![n] = now]
    /\ \/ /\ node' = IF n \in Rows THEN [node EXCEPT ![n] = TRUE] ELSE node
          /\ heard' = IF n \in Rows THEN [heard EXCEPT ![n] = now] ELSE heard
          /\ UNCHANGED failures
       \/ Fail /\ UNCHANGED <<node, heard>>
    /\ UNCHANGED <<role, checker, register, now>>

--------------------------------------------------------------------------------
(* CheckAlive *)

\* Mutant: the loop visits the nodes that have sent a keep-alive, not the rows.
CheckAliveByLastTime ==
    /\ checker.pc = "idle"
    /\ Master = NoMaster
    /\ \/ checker' = [pc |-> "visit", todo |-> {n \in Nodes : LastTime[n] # 0}, at |-> NoRow] /\ UNCHANGED failures
       \/ Fail /\ UNCHANGED checker
    /\ UNCHANGED <<role, node, LastTime, register, now, heard>>

\* The ticker fires: the shared lock, the test of the role and the select.  When the
\* select fails the loop has nothing to visit.
CheckAlive ==
    /\ checker.pc = "idle"
    /\ Master = NoMaster
    /\ \/ checker' = [pc |-> "visit", todo |-> Rows, at |-> NoRow] /\ UNCHANGED failures
       \/ Fail /\ UNCHANGED checker
    /\ UNCHANGED <<role, node, LastTime, register, now, heard>>

Silent(n) == now - LastTime[n] > timeout

\* Mutant: a node is given one unit of time more.
VisitOneLate(n) ==
    /\ checker.pc = "visit"
    /\ n \in checker.todo
    /\ checker' = IF now - LastTime[n] > timeout + 1
                  THEN [pc |-> "bury", todo |-> checker.todo \ {n}, at |-> n]
                  ELSE [checker EXCEPT !.todo = @ \ {n}]
    /\ UNCHANGED <<role, node, LastTime, register, now, failures, heard>>

\* The loop comes to a node and looks at the clock.
Visit(n) ==
    /\ checker.pc = "visit"
    /\ n \in checker.todo
    /\ checker' = IF Silent(n)
                  THEN [pc |-> "bury", todo |-> checker.todo \ {n}, at |-> n]
                  ELSE [checker EXCEPT !.todo = @ \ {n}]
    /\ UNCHANGED <<role, node, LastTime, register, now, failures, heard>>

\* The update of a silent node; after an error the loop goes on.
Bury ==
    /\ checker.pc = "bury"
    /\ checker' = [checker EXCEPT !.pc = "visit", !.at = NoRow]
    /\ \/ node' = [node EXCEPT ![checker.at] = FALSE] /\ UNCHANGED failures
       \/ Fail /\ UNCHANGED node
    /\ UNCHANGED <<role, LastTime, register, now, heard>>

\* The loop ends and the lock is released.
CheckDone ==
    /\ checker.pc = "visit"
    /\ checker.todo = {}
    /\ checker' = [checker EXCEPT !.pc = "idle"]
    /\ UNCHANGED <<role, node, LastTime, register, now, failures, heard>>

--------------------------------------------------------------------------------
(* The role *)

\* Reload takes the role of the file, an empty one where a broken file still parses.
Reload == Master' = IF file' = Broken THEN NoMaster ELSE file'

\* Mutant: no reload.
WriteOnly(m) ==
    /\ \/ file' = m /\ UNCHANGED failures
       \/ file' \in {file, Broken} /\ Fail
    /\ Master' = m
    /\ unsaved' = FALSE

\* The configuration in memory names m already.  The file is written, ignoring an error
\* that leaves it as it was or invalid, and reloaded, ignoring the error of a file that
\* cannot be read or parsed: the configuration is then kept.
WriteAndReload(m) ==
    \/ /\ file' = m /\ UNCHANGED failures
       /\ Reload \/ Master' = m
       /\ unsaved' = FALSE
    \/ /\ file' \in {file, Broken} /\ Fail
       /\ \/ Reload /\ unsaved' = FALSE
          \/ Master' = m /\ unsaved' = TRUE

\* What an operation on the file can end with: it cannot be read first and nothing
\* happens; the configuration, changed already, cannot be marshalled; or it is written.
ChangeRole(m) ==
    \/ Fail /\ UNCHANGED <<Master, file, unsaved>>
    \/ Fail /\ Master' = m /\ unsaved' = TRUE /\ UNCHANGED file
    \/ WriteAndReload(m)

\* Mutant: no lock.
MasterOperUnlocked(m) ==
    /\ ChangeRole(m)
    /\ heard' = IF Master = NoMaster /\ Master' = NoMaster THEN heard
                ELSE [n \in Nodes |-> 0]
    /\ UNCHANGED <<masterIp, node, LastTime, checker, register, now>>

\* MasterOper changes the role in memory and in the file under the exclusive lock.
MasterOper(m) ==
    /\ NoReaders
    /\ ChangeRole(m)
    /\ heard' = IF Master = NoMaster /\ Master' = NoMaster THEN heard
                ELSE [n \in Nodes |-> 0]
    /\ UNCHANGED <<masterIp, node, LastTime, checker, register, now>>

\* Mutant: any master that comes up is followed.
MasterUpAny(ip) == MasterOper(ip)

\* The service reports on the master with address ip; only the one this controller
\* was started with counts.
MasterUp(ip) == ip = masterIp /\ MasterOper(ip)

MasterDown(ip) == ip = masterIp /\ MasterOper(NoMaster)

\* The process starts again from its file.
Restart ==
    /\ file # Broken
    /\ Fail
    /\ Master' = file /\ masterIp' = file /\ unsaved' = FALSE
    /\ LastTime' = [n \in Nodes |-> 0]
    /\ heard' = [n \in Nodes |-> 0]
    /\ checker' = [pc |-> "idle", todo |-> {}, at |-> NoRow]
    /\ register' = [n \in Nodes |-> "idle"]
    /\ UNCHANGED <<file, node, now>>

\* While this controller stands by, its database replicates the master's.
Replicate(n) ==
    /\ Master # NoMaster
    /\ \E row \in BOOLEAN \cup {NoRow} : node' = [node EXCEPT ![n] = row]
    /\ UNCHANGED <<role, LastTime, checker, register, now, failures, heard>>

Pass ==
    /\ now < MaxTime
    /\ now' = now + 1
    /\ UNCHANGED <<role, node, LastTime, checker, register, failures, heard>>

--------------------------------------------------------------------------------
(* The specification *)

\* A time that is no keep-alive is 0, long before the process started.
Init ==
    /\ file \in Addresses \cup {NoMaster}
    /\ Master = file /\ masterIp = file /\ unsaved = FALSE
    /\ node \in [Nodes -> BOOLEAN \cup {NoRow}]
    /\ LastTime = [n \in Nodes |-> 0]
    /\ checker = [pc |-> "idle", todo |-> {}, at |-> NoRow]
    /\ register = [n \in Nodes |-> "idle"]
    /\ now = timeout + 1
    /\ failures = 0
    /\ heard = [n \in Nodes |-> 0]

CheckStep == CheckAlive \/ (\E n \in Nodes : Visit(n)) \/ Bury \/ CheckDone

Next ==
    \/ \E n \in Nodes : Register(n) \/ RegisterWrite(n) \/ KeepAlive(n) \/ Replicate(n)
    \/ CheckStep
    \/ \E ip \in Addresses : MasterUp(ip) \/ MasterDown(ip)
    \/ Restart
    \/ Pass

\* The ticker fires again and again and its loop runs; calls need not come.
Fairness == WF_vars(CheckStep)

Spec == Init /\ [][Next]_vars /\ Fairness

--------------------------------------------------------------------------------
(* Properties *)

\* Types; a loop that is about to bury a node works on one that has a row.
TypeOK ==
    /\ Master \in Addresses \cup {NoMaster}
    /\ file \in Addresses \cup {NoMaster, Broken}
    /\ masterIp \in Addresses \cup {NoMaster}
    /\ node \in [Nodes -> BOOLEAN \cup {NoRow}]
    /\ LastTime \in [Nodes -> Nat]
    /\ checker \in [pc : {"idle", "visit", "bury"}, todo : SUBSET Nodes,
                    at : Nodes \cup {NoRow}]
    /\ checker.pc = "bury" => checker.at \in Rows
    /\ checker.todo \subseteq Rows
    /\ register \in [Nodes -> {"idle", "insert", "update"}]
    /\ now \in Nat
    /\ failures \in 0..MaxFailures
    /\ heard \in [Nodes -> Nat]
    /\ unsaved \in BOOLEAN

\* A node whose keep-alive was written is shown alive until the timeout has passed:
\* a keep-alive never comes between CheckAlive's look at the clock and its update.
HeardNodeStaysAlive ==
    \A n \in Nodes : heard[n] # 0 /\ now - heard[n] <= timeout => node[n] = TRUE

\* A standby leaves the node table to the database's replication: no register and no
\* check that began as the master's writes after the role has changed.
StandbyDoesNotWrite ==
    [][(\E n \in Nodes : RegisterWrite(n) \/ KeepAlive(n)) \/ Bury => Master = NoMaster]_vars

\* A restart resumes the role: the file is invalid or names the role in memory, unless the
\* last change could not be marshalled, or its write and the reload that would have undone
\* it both failed.  No other failure of MasterOper, and no later change, parts the two.
RoleIsInFile == file # Broken /\ ~unsaved => Master = file

\* A standby obeys the reports on the master it stands by for: no report can make it
\* follow another one, whose fall it would ignore.
StandbyFollowsMasterIp == Master # NoMaster => Master = masterIp

\* The master notices a node that fell silent, through failed selects and updates.
SilentNodeIsBuried ==
    \A n \in Nodes :
        node[n] = TRUE /\ Silent(n) /\ Master = NoMaster
            ~> node[n] # TRUE \/ ~Silent(n) \/ Master # NoMaster
================================================================================
