----------------------------- MODULE SessionProofs -----------------------------
(***************************************************************************)
(* Proofs about sessions, for any users, addresses, workers and bounds:    *)
(* types, the administrator can log in, the audit log explains the table   *)
(* of users, a login lasts, and the entries of ActivityUsers have rows.    *)
(***************************************************************************)
EXTENDS Session, TLAPS

--------------------------------------------------------------------------------
(* The inductive invariant *)

PasswordOps == {"createUser", "changePassword", "resetPassword"}
AllOps == PasswordOps \cup {"none", "login", "updateUser", "deleteUser", "logout", "updateWhiteList"}

Args == Passwords \cup {Empty, NoRow} \cup WhiteLists \cup Names

ReqType == [pc : Pcs, op : AllOps, user : Names \cup {NoRow}, id : Names \cup {NoRow},
            arg : Args, err : BOOLEAN, stale : BOOLEAN]

\* The body of a request is of the kind its handler reads, only its record is left once it
\* has an error, and a delete is never the victim of another one.
ReqOK(r) ==
    /\ r.pc # "idle" => phase = "up" /\ r.user \in Names /\ r.id \in Names /\ r.op \in Ops
    /\ r.op = "updateUser" => r.arg \in Names
    /\ r.op \in PasswordOps => r.arg \in Passwords \cup {Empty}
    /\ r.op = "updateWhiteList" => r.arg \in WhiteLists
    /\ r.op = "deleteUser" => ~r.stale
    /\ r.err => r.pc = "audit"

ReqsOK ==
    /\ req \in [Workers -> ReqType]
    /\ \A p \in Workers : ReqOK(req[p])

\* A row has a password, and the row of the white list the privileged address, once
\* they are there; each start puts them there.
Rows ==
    /\ row \in [Names -> Passwords \cup {NoRow}]
    /\ white = NoRow \/ white \in [enabled : BOOLEAN, ips : SUBSET Subnets, privilege : {ServerIP}]
    /\ phase \in {"users", "whitelist", "up"}
    /\ phase # "users" => row[Admin] # NoRow
    /\ phase = "up" => white # NoRow

Memory ==
    /\ activity \subseteq Names /\ tokens \subseteq Names /\ session \subseteq Names
    /\ raced \subseteq activity
    /\ phase # "up" => raced = {}

Counts ==
    /\ started \in 0..MaxRequests /\ failures \in 0..MaxFailures
    /\ had \subseteq Users /\ lost \subseteq Changes
    /\ log \subseteq [user : Names, op : Ops, id : Names, succeed : BOOLEAN]

IInv == ReqsOK /\ Rows /\ Memory /\ Counts /\ AuditExplainsTable

\* The invariant gives the type invariant.
LEMMA InvTypes == IInv => TypeOK
<1>. SUFFICES ASSUME IInv PROVE TypeOK
  OBVIOUS
<1>1. white \in {NoRow} \cup [enabled : BOOLEAN, ips : SUBSET Subnets, privilege : Addresses]
  BY SessionAssumption DEF IInv, Rows
<1>2. \A p \in Workers :
        /\ req[p].pc \in Pcs
        /\ req[p].pc # "idle" => phase = "up" /\ req[p].id \in Names
        /\ req[p].pc # "idle" /\ req[p].op = "updateUser" => req[p].arg \in Names
  BY DEF IInv, ReqsOK, ReqOK, ReqType
<1>. QED
  BY <1>1, <1>2 DEF IInv, TypeOK, Rows, Memory, Counts

\* And that the administrator can log in: both rows are there when the process is up.
LEMMA InvAdmin == IInv => AdminCanLogIn
  BY SessionAssumption DEF IInv, Rows, AdminCanLogIn, Passes, Names

\* The state of a worker without a request.
LEMMA IdleOK == Idle \in ReqType /\ ReqOK(Idle) /\ Idle.pc = "idle"
  BY DEF Idle, ReqType, Args, ReqOK, Pcs, AllOps, PasswordOps

\* The rows at a first start, or at one on an earlier process's database.
LEMMA InitInv == Init => IInv
<1>. SUFFICES ASSUME Init PROVE IInv
  OBVIOUS
<1>1. white = NoRow \/ white \in [enabled : BOOLEAN, ips : SUBSET Subnets, privilege : {ServerIP}]
  BY DEF Init, WhiteLists
<1>2. ReqsOK
  BY IdleOK DEF Init, ReqsOK
<1>3. Rows
  BY <1>1 DEF Init, Rows
<1>4. Memory /\ Counts
  BY SessionAssumption DEF Init, Memory, Counts
<1>5. AuditExplainsTable
  BY IdleOK DEF Init, AuditExplainsTable, Accounted, Unrecorded, Carries
<1>. QED
  BY <1>2, <1>3, <1>4, <1>5 DEF IInv

--------------------------------------------------------------------------------
(* Requests go on *)

\* A request that goes on keeps what it asks for.
LEMMA GotoFields ==
    ASSUME IInv, NEW p \in Workers, NEW pc, Goto(p, pc)
    PROVE  \A q \in Workers :
             /\ req'[q].op = req[q].op /\ req'[q].id = req[q].id /\ req'[q].user = req[q].user
             /\ req'[q].arg = req[q].arg
             /\ (req'[q].stale = req[q].stale) /\ (req'[q].err = req[q].err)
             /\ req'[q].pc = IF q = p THEN pc ELSE req[q].pc
             /\ q # p => req'[q] = req[q]
<1>1. \A q \in Workers : /\ req'[q].op = req[q].op /\ req'[q].id = req[q].id
                         /\ req'[q].user = req[q].user /\ req'[q].arg = req[q].arg
                         /\ req'[q].pc = IF q = p THEN pc ELSE req[q].pc
                         /\ q # p => req'[q] = req[q]
  BY DEF IInv, ReqsOK, ReqType, Goto
<1>2. \A q \in Workers : (req'[q].stale = req[q].stale) /\ (req'[q].err = req[q].err)
  BY Zenon DEF IInv, ReqsOK, ReqType, Goto
<1>. QED
  BY <1>1, <1>2

LEMMA EndFields ==
    ASSUME IInv, NEW p \in Workers, End(p)
    PROVE  \A q \in Workers : req'[q] = IF q = p THEN Idle ELSE req[q]
  BY DEF IInv, ReqsOK, End

\* So does one whose handler returns an error, and it says so.
LEMMA ErrorFields ==
    ASSUME IInv, NEW p \in Workers, Error(p), Audited(req[p].op)
    PROVE  \A q \in Workers :
             /\ req'[q].op = req[q].op /\ req'[q].id = req[q].id /\ req'[q].user = req[q].user
             /\ req'[q].arg = req[q].arg
             /\ (req'[q].stale = req[q].stale)
             /\ req'[q].pc = IF q = p THEN "audit" ELSE req[q].pc
             /\ q # p => req'[q] = req[q]
             /\ q = p => (req'[q].err = TRUE)
<1>1. req' = [req EXCEPT ![p].pc = "audit", ![p].err = TRUE]
  BY DEF Error
<1>2. \A q \in Workers : /\ req'[q].op = req[q].op /\ req'[q].id = req[q].id
                         /\ req'[q].user = req[q].user /\ req'[q].arg = req[q].arg
                         /\ req'[q].pc = IF q = p THEN "audit" ELSE req[q].pc
                         /\ q # p => req'[q] = req[q]
  BY <1>1 DEF IInv, ReqsOK, ReqType
<1>3. \A q \in Workers : (req'[q].stale = req[q].stale) /\ (q = p => (req'[q].err = TRUE))
  BY <1>1, Zenon DEF IInv, ReqsOK, ReqType
<1>. QED
  BY <1>2, <1>3

\* What a request asks for stays good until it ends.
LEMMA FieldsKeepReqs ==
    ASSUME IInv, UNCHANGED phase, req' \in [Workers -> ReqType],
           \A q \in Workers :
             \/ req'[q] = Idle
             \/ /\ req'[q].op = req[q].op /\ req'[q].id = req[q].id /\ req'[q].user = req[q].user
                /\ req'[q].arg = req[q].arg
                /\ req[q].op = "deleteUser" => (req'[q].stale = req[q].stale)
                /\ req'[q].pc # "idle" => req[q].pc # "idle"
                /\ req'[q].err => req'[q].pc = "audit"
    PROVE  ReqsOK'
<1>1. ASSUME NEW q \in Workers
      PROVE  ReqOK(req[q])'
  <2>1. ReqOK(req[q]) /\ ReqOK(Idle)
    BY IdleOK DEF IInv, ReqsOK
  <2>2. CASE req'[q] = Idle
    BY <2>1, <2>2 DEF ReqOK
  <2>3. CASE /\ req'[q].op = req[q].op /\ req'[q].id = req[q].id /\ req'[q].user = req[q].user
             /\ req'[q].arg = req[q].arg
             /\ req[q].op = "deleteUser" => (req'[q].stale = req[q].stale)
             /\ req'[q].pc # "idle" => req[q].pc # "idle"
             /\ req'[q].err => req'[q].pc = "audit"
    <3>1. /\ req'[q].op = "deleteUser" => ~req'[q].stale
          /\ req'[q].err => req'[q].pc = "audit"
      BY <2>1, <2>3, Zenon DEF ReqOK
    <3>2. req'[q].pc # "idle" => /\ phase' = "up" /\ req'[q].op \in Ops
                                 /\ req'[q].user \in Names /\ req'[q].id \in Names
      BY <2>1, <2>3 DEF ReqOK
    <3>3. /\ req'[q].op \in PasswordOps => req'[q].arg \in Passwords \cup {Empty}
          /\ req'[q].op = "updateWhiteList" => req'[q].arg \in WhiteLists
          /\ req'[q].op = "updateUser" => req'[q].arg \in Names
      BY <2>1, <2>3 DEF ReqOK
    <3>. QED
      BY <3>1, <3>2, <3>3 DEF ReqOK
  <2>. QED
    BY <2>2, <2>3
<1>. QED
  BY <1>1 DEF ReqsOK

\* Requests that go on, end or return an error.
LEMMA MoveKeepsReqs ==
    ASSUME IInv, NEW p \in Workers, req[p].pc # "idle", UNCHANGED phase,
           req[p].pc # "audit" \/ End(p),
           (\E pc \in Pcs : Goto(p, pc) \/ Finish(p, pc)) \/ Error(p) \/ End(p)
    PROVE  ReqsOK'
<1>1. ASSUME End(p)
      PROVE  ReqsOK'
  <2>1. req' \in [Workers -> ReqType]
    BY <1>1, IdleOK DEF IInv, ReqsOK, End
  <2>2. \A q \in Workers : req'[q] = Idle \/ (req'[q] = req[q] /\ ReqOK(req[q]))
    BY <1>1, EndFields DEF IInv, ReqsOK
  <2>3. \A q \in Workers : req'[q] = req[q] /\ req[q].err /\ ReqOK(req[q]) => req'[q].pc = "audit"
    BY Zenon DEF ReqOK
  <2>. QED
    BY <1>1, <2>1, <2>2, <2>3, FieldsKeepReqs
<1>2. ASSUME NEW pc \in Pcs, Goto(p, pc), req[p].pc # "audit"
      PROVE  ReqsOK'
  <2>1. req' \in [Workers -> ReqType]
    BY <1>2 DEF IInv, ReqsOK, ReqType, Goto
  <2>2. \A q \in Workers : req'[q].err => req'[q].pc = "audit"
    <3>1. \A q \in Workers : req[q].err => req[q].pc = "audit"
      BY Zenon DEF IInv, ReqsOK, ReqOK
    <3>. QED
      BY <1>2, <3>1, GotoFields
  <2>. QED
    BY <1>2, <2>1, <2>2, GotoFields, FieldsKeepReqs
<1>3. ASSUME Error(p), Audited(req[p].op)
      PROVE  ReqsOK'
  <2>1. req' \in [Workers -> ReqType]
    BY <1>3 DEF IInv, ReqsOK, ReqType, Error, Pcs
  <2>2. \A q \in Workers : req'[q].err => req'[q].pc = "audit"
    <3>1. \A q \in Workers : req[q].err => req[q].pc = "audit"
      BY Zenon DEF IInv, ReqsOK, ReqOK
    <3>. QED
      BY <1>3, <3>1, ErrorFields
  <2>. QED
    BY <1>3, <2>1, <2>2, ErrorFields, FieldsKeepReqs
<1>. QED
  BY <1>1, <1>2, <1>3 DEF Finish, Error

\* The log goes on explaining the table while nobody comes or goes, and the changes that
\* are under way are the same.
LEMMA AuditStays ==
    ASSUME IInv, UNCHANGED <<log, had, lost>>,
           \A u \in Users : row'[u] = NoRow <=> row[u] = NoRow,
           \A q \in Workers, op \in {"createUser", "deleteUser"}, u \in Users :
             Carries(req'[q], op, u) <=> Carries(req[q], op, u)
    PROVE  AuditExplainsTable'
<1>1. \A op \in {"createUser", "deleteUser"}, u \in Users : Accounted(op, u)' <=> Accounted(op, u)
  BY DEF Accounted, Unrecorded
<1>. QED
  BY <1>1 DEF IInv, AuditExplainsTable

\* The counts and the log, when only failures are counted.
LEMMA CountsStay ==
    ASSUME IInv, failures' \in 0..MaxFailures, UNCHANGED <<log, had, lost, started>>
    PROVE  Counts'
  BY DEF IInv, Counts

--------------------------------------------------------------------------------
(* Steps *)

\* The steps of a start: there is no request, and the rows that are missing are put in.
LEMMA StartKeepsInv ==
    ASSUME IInv, StartUsers \/ StartWhiteList
    PROVE  IInv'
<1>1. /\ phase \in {"users", "whitelist"}
      /\ \A p \in Workers : req[p].pc = "idle"
      /\ raced = {}
  BY DEF IInv, ReqsOK, ReqOK, Memory, StartUsers, StartWhiteList
<1>2. ReqsOK' /\ Counts'
  BY <1>1 DEF IInv, ReqsOK, ReqOK, Counts, StartUsers, StartWhiteList, history
<1>9. AuditExplainsTable'
  <2>1. \A u \in Users : row'[u] = NoRow <=> row[u] = NoRow
    BY SessionAssumption DEF IInv, Rows, StartUsers, StartWhiteList, Names
  <2>2. UNCHANGED <<log, had, lost, req>>
    BY DEF StartUsers, StartWhiteList, history
  <2>. QED
    BY <2>1, <2>2, AuditStays
<1>3. CASE StartUsers
  <2>1. row' \in [Names -> Passwords \cup {NoRow}] /\ row'[Admin] # NoRow
    BY <1>3, SessionAssumption DEF IInv, Rows, StartUsers, Names
  <2>2. Rows'
    BY <1>3, <2>1 DEF IInv, Rows, StartUsers
  <2>3. Memory'
    BY <1>1, <1>3 DEF IInv, Memory, StartUsers, history
  <2>. QED
    BY <1>2, <1>9, <2>2, <2>3 DEF IInv
<1>4. CASE StartWhiteList
  <2>1. \/ white # NoRow /\ white' = white
        \/ white' = [enabled |-> FALSE, ips |-> {}, privilege |-> ServerIP]
    BY <1>4 DEF StartWhiteList
  <2>2. white' \in [enabled : BOOLEAN, ips : SUBSET Subnets, privilege : {ServerIP}]
    <3>1. CASE white # NoRow /\ white' = white
      BY <3>1, Zenon DEF IInv, Rows
    <3>2. CASE white' = [enabled |-> FALSE, ips |-> {}, privilege |-> ServerIP]
      BY <3>2, SMT
    <3>. QED
      BY <2>1, <3>1, <3>2
  <2>3. white' # NoRow
    BY <2>2, SessionAssumption
  <2>4. Rows'
    BY <1>4, <2>2, <2>3 DEF IInv, Rows, StartWhiteList
  <2>5. Memory'
    BY <1>1, <1>4 DEF IInv, Memory, StartWhiteList, history
  <2>. QED
    BY <1>2, <1>9, <2>4, <2>5 DEF IInv
<1>. QED
  BY <1>3, <1>4

\* A crash leaves the rows and the log, and what was about to be recorded is lost.
LEMMA CrashKeepsInv ==
    ASSUME IInv, Crash
    PROVE  IInv'
<1>1. \A p \in Workers : req'[p] = Idle
  BY DEF Crash
<1>2. ReqsOK'
  <2>1. req' \in [Workers -> ReqType]
    BY IdleOK DEF Crash
  <2>2. ReqOK(Idle)'
    BY DEF ReqOK, Idle, PasswordOps
  <2>. QED
    BY <1>1, <2>1, <2>2 DEF ReqsOK
<1>3. Rows'
  BY DEF IInv, Rows, Crash, data
<1>4. Memory' /\ Counts'
  BY SessionAssumption DEF IInv, Memory, Counts, Crash, Fail, data
<1>5. AuditExplainsTable'
  <2>1. /\ UNCHANGED <<row, log, had>>
        /\ lost' = lost \cup {c \in Changes : Unrecorded(c[1], c[2])}
    BY DEF Crash, data
  <2>2. ASSUME NEW op \in {"createUser", "deleteUser"}, NEW u \in Users
        PROVE  Accounted(op, u)' <=> Accounted(op, u)
    <3>1. <<op, u>> \in Changes /\ <<op, u>>[1] = op /\ <<op, u>>[2] = u
      BY DEF Changes
    <3>2. <<op, u>> \in lost' <=> <<op, u>> \in lost \/ Unrecorded(op, u)
      BY <2>1, <3>1
    <3>3. ~Unrecorded(op, u)'
      BY <1>1, IdleOK DEF Unrecorded, Carries
    <3>. QED
      BY <2>1, <3>2, <3>3 DEF Accounted
  <2>. QED
    BY <2>1, <2>2 DEF IInv, AuditExplainsTable
<1>. QED
  BY <1>2, <1>3, <1>4, <1>5 DEF IInv

\* A new request has changed nothing.
LEMMA BeginKeepsInv ==
    ASSUME IInv, NEW p \in Workers, Arrives(p), NEW pc \in {"password", "load"},
           NEW op \in AllOps, NEW u \in Names, NEW v \in Names,
           NEW arg \in Args, op = "updateUser" => arg \in Names,
           op \in PasswordOps => arg \in Passwords \cup {Empty},
           op = "updateWhiteList" => arg \in WhiteLists,
           Begin(p, pc, op, u, v, arg)
    PROVE  IInv'
<1>. DEFINE r == [pc |-> pc, op |-> op, user |-> u, id |-> v, arg |-> arg,
                  err |-> FALSE, stale |-> FALSE]
<1>1. started \in Nat /\ started + 1 \in 1..MaxRequests
  BY SessionAssumption DEF IInv, Counts, Arrives
<1>2. r \in ReqType /\ r.pc \in {"password", "load"}
  BY DEF ReqType, Pcs
<1>3. /\ req' = [req EXCEPT ![p] = r] /\ started' = started + 1
      /\ UNCHANGED <<phase, data, activity, tokens, failures, history>>
      /\ op \in Ops
  BY DEF Begin
<1>4. /\ req' \in [Workers -> ReqType]
      /\ \A q \in Workers : req'[q] = IF q = p THEN r ELSE req[q]
  BY <1>2, <1>3 DEF IInv, ReqsOK
<1>5. ReqOK(req[p])'
  <2>1. /\ req'[p].user = u /\ req'[p].id = v /\ req'[p].op = op
        /\ req'[p].arg = arg /\ (req'[p].stale = FALSE) /\ (req'[p].err = FALSE)
    BY <1>4
  <2>2. phase' = "up"
    BY <1>3 DEF Arrives
  <2>. QED
    BY <1>3, <2>1, <2>2, Zenon DEF ReqOK
<1>6. ASSUME NEW q \in Workers \ {p}
      PROVE  ReqOK(req[q])'
  <2>1. ReqOK(req[q]) /\ req'[q] = req[q]
    BY <1>4 DEF IInv, ReqsOK
  <2>. QED
    BY <1>3, <2>1, Zenon DEF ReqOK
<1>7. ReqsOK'
  BY <1>4, <1>5, <1>6 DEF ReqsOK
<1>8. Rows' /\ Memory' /\ Counts'
  BY <1>1, <1>3 DEF IInv, Rows, Memory, Counts, data, history
<1>9. AuditExplainsTable'
  <2>1. UNCHANGED <<row, log, had, lost>>
    BY <1>3 DEF data, history
  <2>2. \A q \in Workers : \A o, i : Carries(req'[q], o, i) <=> Carries(req[q], o, i)
    BY <1>2, <1>4 DEF Carries, Arrives
  <2>. QED
    BY <2>1, <2>2, AuditStays
<1>. QED
  BY <1>7, <1>8, <1>9 DEF IInv

\* A client's request of any kind.
LEMMA ArriveKeepsInv ==
    ASSUME IInv, NEW p \in Workers, Arrive(p)
    PROVE  IInv'
<1>. USE DEF AllOps, PasswordOps, Args
<1>1. ASSUME NEW u \in Names, NEW password \in Passwords \cup {Empty}, Login(p, u, password)
      PROVE  IInv'
  BY <1>1, BeginKeepsInv DEF Arrive, Login
<1>2. ASSUME NEW u \in Names, NEW v \in Names, NEW op \in {"deleteUser", "logout"},
             Ask(p, op, u, v, NoRow)
      PROVE  IInv'
  BY <1>2, BeginKeepsInv DEF Arrive, Ask
<1>5. ASSUME NEW u \in Names, NEW v \in Names, NEW name \in Names,
             Ask(p, "updateUser", u, v, name)
      PROVE  IInv'
  BY <1>5, BeginKeepsInv DEF Arrive, Ask
<1>3. ASSUME NEW u \in Names, NEW v \in Names, NEW op \in PasswordOps,
             NEW password \in Passwords \cup {Empty}, Ask(p, op, u, v, password)
      PROVE  IInv'
  BY <1>3, BeginKeepsInv DEF Arrive, Ask
<1>4. ASSUME NEW u \in Names, NEW w \in WhiteLists, Ask(p, "updateWhiteList", u, u, w)
      PROVE  IInv'
  BY <1>4, BeginKeepsInv DEF Arrive, Ask
<1>. QED
  BY <1>1, <1>2, <1>3, <1>4, <1>5 DEF Arrive

\* A step that only moves a request (the checks of a login and of a token, refusals,
\* failing transactions).
LEMMA MovesKeepInv ==
    ASSUME IInv, NEW p \in Workers,
           CheckPassword(p) \/ GetUserInfo(p) \/ Load(p) \/ Refuse(p) \/ TxFails(p)
    PROVE  IInv'
<1>1. /\ req[p].pc # "idle"
      /\ UNCHANGED <<phase, data, activity, tokens, started, history>>
  BY DEF CheckPassword, GetUserInfo, Load, Refuse, TxFails, At
<1>2. failures' \in 0..MaxFailures
  BY SessionAssumption
  DEF IInv, Counts, CheckPassword, GetUserInfo, Load, Refuse, TxFails, Fail
<1>3. /\ req[p].pc \in {"password", "info", "load", "run"}
      /\ \/ \E pc \in {"info", "store", "run"} : Goto(p, pc)
         \/ Error(p) \/ End(p)
  BY DEF CheckPassword, GetUserInfo, Load, Refuse, TxFails, At
<1>4. ReqsOK'
  BY <1>1, <1>3, MoveKeepsReqs DEF Pcs
<1>5. AuditExplainsTable'
  <2>1. \A q \in Workers : q # p => req'[q] = req[q]
    BY <1>3, GotoFields, EndFields, ErrorFields DEF Error
  <2>2. req'[p].pc \notin {"after", "audit"} \/ (req'[p].err = TRUE)
    BY <1>3, GotoFields, EndFields, ErrorFields, IdleOK DEF Error
  <2>3. \A q \in Workers : \A op, u : Carries(req'[q], op, u) <=> Carries(req[q], op, u)
    BY <1>3, <2>1, <2>2 DEF Carries
  <2>. QED
    BY <1>1, <2>3, AuditStays DEF data, history
<1>6. Rows' /\ Memory' /\ Counts'
  BY <1>1, <1>2, CountsStay DEF IInv, Rows, Memory, data, history
<1>. QED
  BY <1>4, <1>5, <1>6 DEF IInv

\* ActivityUsers keeps the users of requests, and an entry that is raced is there.
LEMMA StoresKeepInv ==
    ASSUME IInv, NEW p \in Workers, StoreUser(p) \/ StoreOrRemove(p)
    PROVE  IInv'
<1>1. /\ req[p].pc \in {"store", "after"}
      /\ UNCHANGED <<phase, data, started, failures, had, lost>>
  BY DEF StoreUser, StoreOrRemove, At
<1>2. ReqsOK'
  BY <1>1, MoveKeepsReqs DEF StoreUser, StoreOrRemove, Pcs
<1>3. AuditExplainsTable' /\ Counts'
  <2>1. \A q \in Workers : \A op, u : Carries(req'[q], op, u) <=> Carries(req[q], op, u)
    <3>1. CASE StoreUser(p)
      BY <3>1, EndFields, IdleOK DEF StoreUser, At, Carries
    <3>2. CASE StoreOrRemove(p)
      BY <3>2, GotoFields DEF StoreOrRemove, At, Carries
    <3>. QED
      BY <3>1, <3>2
  <2>2. failures' \in 0..MaxFailures
    BY <1>1 DEF IInv, Counts
  <2>. QED
    BY <1>1, <2>1, <2>2, AuditStays, CountsStay DEF data
<1>4. Rows'
  BY <1>1 DEF IInv, Rows, data
<1>5. Memory'
  <2>1. /\ req[p].user \in Names /\ Entry(req[p]) \in Names /\ phase = "up"
        /\ req[p].op = "deleteUser" => ~req[p].stale
    BY <1>1 DEF IInv, ReqsOK, ReqOK, ReqType, Entry
  <2>2. CASE StoreUser(p)
    <3>1. raced' \subseteq raced \cup {req[p].user}
      BY <2>2 DEF StoreUser
    <3>2. activity' = activity \cup {req[p].user} /\ tokens' = tokens \cup {req[p].user}
      BY <2>2 DEF StoreUser
    <3>3. session' \subseteq session \cup {req[p].user}
      BY <2>2 DEF StoreUser
    <3>. QED
      BY <1>1, <2>1, <3>1, <3>2, <3>3 DEF IInv, Memory
  <2>3. CASE StoreOrRemove(p)
    <3>1. CASE req[p].op = "deleteUser"
      <4>1. ~req[p].stale
        BY <2>1, <3>1
      <4>2. activity' = activity \ {Entry(req[p])} /\ raced' = raced \ {Entry(req[p])}
        BY <2>3, <3>1, <4>1, Zenon DEF StoreOrRemove
      <4>. QED
        BY <1>1, <2>1, <2>3, <4>2 DEF IInv, Memory, StoreOrRemove
    <3>2. CASE req[p].op # "deleteUser"
      <4>1. /\ activity' = activity \cup {Entry(req[p])}
            /\ raced' \subseteq raced \cup {Entry(req[p])}
        BY <2>3, <3>2 DEF StoreOrRemove
      <4>. QED
        BY <1>1, <2>1, <2>3, <4>1 DEF IInv, Memory, StoreOrRemove
    <3>. QED
      BY <3>1, <3>2
  <2>. QED
    BY <2>2, <2>3
<1>. QED
  BY <1>2, <1>3, <1>4, <1>5 DEF IInv

\* A logout takes the user's entry and is not recorded.
LEMMA LogoutKeepsInv ==
    ASSUME IInv, NEW p \in Workers, Logout(p)
    PROVE  IInv'
<1>1. /\ req[p].pc = "run" /\ End(p)
      /\ UNCHANGED <<phase, data, started, failures, had, lost>>
  BY DEF Logout, Running, At
<1>2. ReqsOK'
  BY <1>1, MoveKeepsReqs
<1>3. AuditExplainsTable' /\ Counts'
  <2>1. failures' \in 0..MaxFailures
    BY <1>1 DEF IInv, Counts
  <2>2. \A q \in Workers : \A op, u : Carries(req'[q], op, u) <=> Carries(req[q], op, u)
    BY <1>1, EndFields, IdleOK DEF Carries
  <2>. QED
    BY <1>1, <2>1, <2>2, AuditStays, CountsStay DEF data
<1>4. Rows'
  BY <1>1 DEF IInv, Rows, data
<1>5. Memory'
  BY <1>1 DEF IInv, Memory, Logout
<1>. QED
  BY <1>2, <1>3, <1>4, <1>5 DEF IInv

\* Create and the password actions write passwords that are not empty.
LEMMA PasswordsKeepInv ==
    ASSUME IInv, NEW p \in Workers, CreateUser(p) \/ SetPassword(p)
    PROVE  IInv'
<1>1. /\ req[p].pc = "run" /\ req[p].op \in PasswordOps /\ ~Refused(req[p])
      /\ UNCHANGED <<phase, white, log, activity, tokens, started, failures, history>>
      /\ \/ CreateUser(p) /\ Goto(p, "after")
         \/ SetPassword(p) /\ End(p)
  BY DEF CreateUser, SetPassword, Running, At, PasswordOps, Finish, Audited
<1>2. ReqsOK'
  BY <1>1, MoveKeepsReqs DEF Pcs
<1>3. req[p].id \in Names /\ req[p].arg \in Passwords /\ (req[p].err = FALSE)
  <2>1. req[p].err \in BOOLEAN
    BY DEF IInv, ReqsOK, ReqType
  <2>2. ~req[p].err
    BY <1>1, Zenon DEF IInv, ReqsOK, ReqOK
  <2>. QED
    BY <1>1, <2>1, <2>2 DEF IInv, ReqsOK, ReqOK, Refused, PasswordOps
<1>4. /\ row' = row \/ row' = [row EXCEPT ![req[p].id] = req[p].arg]
      /\ SetPassword(p) => row' = row \/ row[req[p].id] # NoRow
      /\ CreateUser(p) => req[p].op = "createUser"
  BY DEF CreateUser, SetPassword, Running
<1>5. Rows'
  BY <1>1, <1>3, <1>4, SessionAssumption DEF IInv, Rows, Names
<1>6. Memory' /\ Counts'
  <2>1. failures' \in 0..MaxFailures
    BY <1>1 DEF IInv, Counts
  <2>. QED
    BY <1>1, <2>1, CountsStay DEF IInv, Memory, history
<1>7. AuditExplainsTable'
  <2>1. CASE SetPassword(p)
    <3>1. End(p)
      BY <1>1, <2>1 DEF CreateUser, SetPassword, Running
    <3>2. \A u \in Users : row'[u] = NoRow <=> row[u] = NoRow
      BY <1>3, <1>4, <2>1, SessionAssumption DEF IInv, Rows, Names
    <3>3. \A q \in Workers : \A op, u : Carries(req'[q], op, u) <=> Carries(req[q], op, u)
      BY <1>1, <3>1, EndFields, IdleOK DEF Carries
    <3>. QED
      BY <1>1, <3>2, <3>3, AuditStays DEF history
  <2>2. CASE CreateUser(p)
    <3>1. Goto(p, "after") /\ req[p].op = "createUser"
      BY <1>1, <1>4, <2>2 DEF CreateUser, SetPassword, Running
    <3>2. \A q \in Workers : \A op, u : Carries(req[q], op, u) => Carries(req'[q], op, u)
      BY <1>1, <3>1, GotoFields DEF Carries
    <3>3. ASSUME NEW q \in Workers, NEW op, NEW u, Carries(req'[q], op, u)
          PROVE  Carries(req[q], op, u) \/ (op = "createUser" /\ u = req[p].id)
      <4>1. CASE q = p
        BY <3>1, <3>3, <4>1, GotoFields DEF Carries
      <4>2. CASE q # p
        BY <3>1, <3>3, <4>2, GotoFields
      <4>. QED
        BY <4>1, <4>2
    <3>4. PICK v \in Names : v = req[p].id
      BY <1>3
    <3>5. Carries(req'[p], "createUser", v)
      BY <1>1, <1>3, <3>1, <3>4, GotoFields DEF Carries
    <3>. HIDE DEF Carries
    <3>6. /\ Accounted("createUser", v)'
          /\ \A op, u : op # "createUser" \/ u # v => (Accounted(op, u)' <=> Accounted(op, u))
      BY <1>1, <3>2, <3>3, <3>4, <3>5 DEF Accounted, Unrecorded, history
    <3>7. row' = [row EXCEPT ![req[p].id] = req[p].arg] /\ req[p].arg # NoRow
      BY <1>3, <2>2, SessionAssumption DEF CreateUser
    <3>8. (\A u \in Users : u # v => row'[u] = row[u]) /\ row'[v] # NoRow
      BY <3>4, <3>7 DEF IInv, Rows, Names
    <3>9. had' = had
      BY <1>1 DEF history
    <3>. QED
      BY <3>6, <3>8, <3>9 DEF IInv, AuditExplainsTable
  <2>. QED
    BY <2>1, <2>2
<1>. QED
  BY <1>2, <1>5, <1>6, <1>7 DEF IInv

\* An update of a user leaves the rows of this module alone.
LEMMA UpdateUserKeepsInv ==
    ASSUME IInv, NEW p \in Workers, UpdateUser(p)
    PROVE  IInv'
<1>. DEFINE gone == row[req[p].arg] = NoRow
            r == [req[p] EXCEPT !.pc = "after", !.stale = gone]
<1>1. /\ req[p].pc = "run" /\ req[p].op = "updateUser"
      /\ UNCHANGED <<phase, data, activity, tokens, started, failures, history>>
  BY DEF UpdateUser, Running, At
<1>2. gone \in BOOLEAN
  OBVIOUS
<1>3. req' = [req EXCEPT ![p] = r]
  BY Zenon DEF UpdateUser, IInv, ReqsOK
<1>4. r \in ReqType
  BY <1>2, Zenon DEF IInv, ReqsOK, ReqType, Pcs
<1>5. /\ r.user = req[p].user /\ r.id = req[p].id /\ r.arg = req[p].arg /\ r.op = req[p].op
      /\ r.pc = "after"
  BY DEF IInv, ReqsOK, ReqType
<1>6. (r.err = req[p].err) /\ ~req[p].err
  BY <1>1, Zenon DEF IInv, ReqsOK, ReqOK, ReqType
<1>7. req' \in [Workers -> ReqType] /\ \A q \in Workers : req'[q] = IF q = p THEN r ELSE req[q]
  BY <1>3, <1>4 DEF IInv, ReqsOK
<1>. HIDE DEF r
<1>8. ReqsOK'
  <2>1. \A q \in Workers : req[q].err => req[q].pc = "audit"
    BY Zenon DEF IInv, ReqsOK, ReqOK
  <2>2. \A q \in Workers : req'[q].err => req'[q].pc = "audit"
    BY <1>6, <1>7, <2>1
  <2>. QED
    BY <1>1, <1>5, <1>7, <2>2, FieldsKeepReqs
<1>9. AuditExplainsTable' /\ Counts'
  <2>1. failures' \in 0..MaxFailures
    BY <1>1 DEF IInv, Counts
  <2>2. \A q \in Workers, op \in {"createUser", "deleteUser"}, u \in Users :
          Carries(req'[q], op, u) <=> Carries(req[q], op, u)
    BY <1>1, <1>5, <1>7 DEF Carries
  <2>. QED
    BY <1>1, <2>1, <2>2, AuditStays, CountsStay DEF data, history
<1>10. Rows' /\ Memory'
  BY <1>1 DEF IInv, Rows, Memory, data, history
<1>. QED
  BY <1>8, <1>9, <1>10 DEF IInv

\* A delete spares the administrator; it marks requests that will store the user, and no
\* delete.
LEMMA DeleteUserKeepsInv ==
    ASSUME IInv, NEW p \in Workers, DeleteUser(p)
    PROVE  IInv'
<1>. DEFINE u == req[p].id
            after == [req[p] EXCEPT !.pc = "after"]
            marked(q) == [req[q] EXCEPT !.stale = @ \/ q \in Storing(u)]
<1>1. /\ req[p].pc = "run" /\ req[p].op = "deleteUser" /\ ~Refused(req[p])
      /\ UNCHANGED <<phase, white, log, activity, tokens, started, failures, had, lost, raced>>
  BY DEF DeleteUser, Running, At
<1>2. req' = [q \in Workers |-> IF q = p THEN after ELSE marked(q)]
  BY Zenon DEF DeleteUser
<1>3. after \in ReqType /\ after.pc = "after" /\ after.user = req[p].user
      /\ after.id = req[p].id /\ after.op = req[p].op /\ after.arg = req[p].arg
  BY DEF IInv, ReqsOK, ReqType, Pcs
<1>4. (after.stale = req[p].stale) /\ (after.err = req[p].err) /\ ~req[p].err
  BY <1>1, Zenon DEF IInv, ReqsOK, ReqOK, ReqType
<1>5. ASSUME NEW q \in Workers
      PROVE  /\ marked(q) \in ReqType /\ marked(q).pc = req[q].pc
             /\ marked(q).user = req[q].user /\ marked(q).id = req[q].id
             /\ marked(q).op = req[q].op /\ marked(q).arg = req[q].arg
             /\ (marked(q).err = req[q].err)
             /\ req[q].op = "deleteUser" => (marked(q).stale = req[q].stale)
  <2>. DEFINE s == req[q].stale \/ q \in Storing(u)
  <2>1. s \in BOOLEAN
    BY Zenon
  <2>2. marked(q) = [req[q] EXCEPT !.stale = s]
    OBVIOUS
  <2>3. req[q] \in ReqType
    BY DEF IInv, ReqsOK
  <2>4. [req[q] EXCEPT !.stale = s] \in ReqType
    BY <2>1, <2>3, Zenon DEF ReqType
  <2>5. req[q].op = "deleteUser" => (s = req[q].stale)
    BY <2>1, <2>3, Zenon DEF Storing, ReqType
  <2>6. /\ ([req[q] EXCEPT !.stale = s].stale = s)
        /\ ([req[q] EXCEPT !.stale = s].err = req[q].err)
    BY <2>3, Zenon DEF ReqType
  <2>. QED
    BY <2>2, <2>3, <2>4, <2>5, <2>6 DEF ReqType
<1>. HIDE DEF after, marked
<1>6. ASSUME NEW q \in Workers
      PROVE  /\ req'[q] \in ReqType
             /\ req'[q].pc # "idle" => req[q].pc # "idle"
             /\ req'[q].user = req[q].user /\ req'[q].id = req[q].id
             /\ req'[q].op = req[q].op /\ req'[q].arg = req[q].arg
             /\ (req'[q].err = req[q].err)
             /\ q = p => req'[q].pc = "after" /\ ~req'[q].err
             /\ q # p => req'[q].pc = req[q].pc
             /\ req[q].op = "deleteUser" => (req'[q].stale = req[q].stale)
  <2>1. req'[q] = IF q = p THEN after ELSE marked(q)
    BY <1>2
  <2>. QED
    BY <1>1, <1>3, <1>4, <1>5, <2>1
<1>7. ReqsOK'
  <2>1. \A q \in Workers : req[q].err => req[q].pc = "audit"
    BY Zenon DEF IInv, ReqsOK, ReqOK
  <2>2. \A q \in Workers : req'[q].err => req'[q].pc = "audit"
    BY <1>6, <2>1
  <2>3. req' \in [Workers -> ReqType]
    BY <1>2, <1>6
  <2>. QED
    BY <1>1, <1>6, <2>2, <2>3, FieldsKeepReqs
<1>8. Counts'
  <2>1. failures' \in 0..MaxFailures
    BY <1>1 DEF IInv, Counts
  <2>. QED
    BY <1>1, <2>1, CountsStay
<1>9. u \in Names /\ u # Admin /\ row' = [row EXCEPT ![u] = NoRow]
  BY <1>1 DEF DeleteUser, Refused, IInv, ReqsOK, ReqOK
<1>10. AuditExplainsTable'
  <2>1. \A q \in Workers : \A op, i : Carries(req[q], op, i) => Carries(req'[q], op, i)
    BY <1>1, <1>6 DEF Carries
  <2>2. ASSUME NEW q \in Workers, NEW op, NEW i, Carries(req'[q], op, i)
        PROVE  Carries(req[q], op, i) \/ (op = "deleteUser" /\ i = u)
    <3>1. CASE q = p
      BY <1>1, <1>6, <2>2, <3>1 DEF Carries
    <3>2. CASE q # p
      BY <1>6, <2>2, <3>2 DEF Carries
    <3>. QED
      BY <3>1, <3>2
  <2>3. PICK v \in Names : v = u
    BY <1>9
  <2>4. Carries(req'[p], "deleteUser", v)
    BY <1>1, <1>6, <2>3 DEF Carries
  <2>5. /\ Accounted("deleteUser", v)'
        /\ \A op, i : op # "deleteUser" \/ i # v => (Accounted(op, i)' <=> Accounted(op, i))
    <3>. HIDE DEF Carries, u
    <3>. QED
      BY <1>1, <2>1, <2>2, <2>3, <2>4 DEF Accounted, Unrecorded
  <2>6. (\A i \in Users : i # v => row'[i] = row[i]) /\ row'[v] = NoRow
    BY <1>9, <2>3 DEF IInv, Rows, Names
  <2>. QED
    BY <1>1, <2>5, <2>6 DEF IInv, AuditExplainsTable
<1>11. Rows'
  BY <1>1, <1>9 DEF IInv, Rows, Names
<1>12. Memory'
  <2>1. session' = session \ {u}
    BY DEF DeleteUser
  <2>. QED
    BY <1>1, <2>1 DEF IInv, Memory
<1>. QED
  BY <1>7, <1>8, <1>10, <1>11, <1>12 DEF IInv

\* The update of the white list names its columns and leaves the privileged address.
LEMMA UpdateWhiteListKeepsInv ==
    ASSUME IInv, NEW p \in Workers, UpdateWhiteList(p)
    PROVE  IInv'
<1>1. /\ req[p].pc = "run" /\ req[p].op = "updateWhiteList"
      /\ white' = [white EXCEPT !.enabled = req[p].arg.enabled, !.ips = req[p].arg.ips]
      /\ UNCHANGED <<phase, row, log, activity, tokens, started, failures, history>>
      /\ Goto(p, "audit")
  BY DEF UpdateWhiteList, Running, At, Finish, Audited
<1>2. ReqsOK'
  BY <1>1, MoveKeepsReqs DEF Pcs
<1>3. AuditExplainsTable' /\ Counts'
  <2>1. failures' \in 0..MaxFailures
    BY <1>1 DEF IInv, Counts
  <2>2. \A q \in Workers, op \in {"createUser", "deleteUser"}, u \in Users :
          Carries(req'[q], op, u) <=> Carries(req[q], op, u)
    BY <1>1, GotoFields DEF Carries
  <2>. QED
    BY <1>1, <2>1, <2>2, AuditStays, CountsStay DEF history
<1>4. Rows'
  <2>. DEFINE R == [enabled : BOOLEAN, ips : SUBSET Subnets, privilege : {ServerIP}]
  <2>1. white \in R
    <3>1. phase = "up"
      BY <1>1 DEF IInv, ReqsOK, ReqOK
    <3>. QED
      BY <3>1, Zenon DEF IInv, Rows
  <2>2. req[p].arg.enabled \in BOOLEAN /\ req[p].arg.ips \in SUBSET Subnets
    <3>1. req[p].arg \in WhiteLists
      BY <1>1 DEF IInv, ReqsOK, ReqOK
    <3>. QED
      BY <3>1, Zenon DEF WhiteLists
  <2>3. white' \in R
    BY <1>1, <2>1, <2>2, Zenon
  <2>4. white' # NoRow
    BY <2>3, SessionAssumption
  <2>. QED
    BY <1>1, <2>3, <2>4 DEF IInv, Rows
<1>5. Memory'
  BY <1>1 DEF IInv, Memory, history
<1>. QED
  BY <1>2, <1>3, <1>4, <1>5 DEF IInv

\* What a request changed goes to the log, or its client learns that it is not there.
LEMMA AuditLoggerKeepsInv ==
    ASSUME IInv, NEW p \in Workers, AuditLogger(p)
    PROVE  IInv'
<1>. DEFINE kept == log' = log \cup {Record(p)} /\ lost' = lost
            gone == /\ log' = log
                    /\ lost' = IF req[p].err THEN lost
                               ELSE lost \cup ({<<req[p].op, req[p].id>>} \cap Changes)
<1>1. /\ req[p].pc = "audit" /\ End(p)
      /\ UNCHANGED <<phase, row, white, activity, tokens, started, had, session, raced>>
      /\ kept \/ gone
  BY DEF AuditLogger, At
<1>2. req[p].user \in Names /\ req[p].id \in Names /\ req[p].op \in Ops
  BY <1>1 DEF IInv, ReqsOK, ReqOK
<1>3. ReqsOK'
  BY <1>1, MoveKeepsReqs
<1>4. Rows' /\ Memory' /\ Counts'
  <2>1. failures' \in 0..MaxFailures
    BY SessionAssumption DEF IInv, Counts, AuditLogger, Fail
  <2>2. Record(p) \in [user : Names, op : Ops, id : Names, succeed : BOOLEAN]
    BY <1>2, Zenon DEF Record
  <2>3. /\ log' \subseteq [user : Names, op : Ops, id : Names, succeed : BOOLEAN]
        /\ lost' \subseteq Changes
    BY <1>1, <2>2 DEF IInv, Counts
  <2>. QED
    BY <1>1, <2>1, <2>3 DEF IInv, Rows, Memory, Counts
<1>5. ASSUME NEW o \in {"createUser", "deleteUser"}, NEW u \in Users
      PROVE  Accounted(o, u)' <=> Accounted(o, u)
  <2>. DEFINE mine == ~req[p].err /\ req[p].op = o /\ req[p].id = u
  <2>1. Unrecorded(o, u) <=> Unrecorded(o, u)' \/ mine
    BY <1>1, EndFields, IdleOK DEF Unrecorded, Carries
  <2>2. CASE kept
    <3>1. /\ Record(p).op = req[p].op /\ Record(p).id = req[p].id
          /\ Record(p).succeed <=> ~req[p].err
      BY DEF Record
    <3>2. (\E r \in log' : r.op = o /\ r.id = u /\ r.succeed)
            <=> (\E r \in log : r.op = o /\ r.id = u /\ r.succeed) \/ mine
      BY <2>2, <3>1
    <3>. QED
      BY <2>1, <2>2, <3>2 DEF Accounted
  <2>3. CASE gone
    <3>1. <<o, u>> \in Changes
      BY DEF Changes
    <3>2. <<o, u>> = <<req[p].op, req[p].id>> <=> req[p].op = o /\ req[p].id = u
      OBVIOUS
    <3>3. <<o, u>> \in lost' <=> <<o, u>> \in lost \/ mine
      BY <2>3, <3>1, <3>2
    <3>. QED
      BY <2>1, <2>3, <3>3 DEF Accounted
  <2>. QED
    BY <1>1, <2>2, <2>3
<1>6. AuditExplainsTable'
  BY <1>1, <1>5 DEF IInv, AuditExplainsTable
<1>. QED
  BY <1>3, <1>4, <1>6 DEF IInv

--------------------------------------------------------------------------------
(* Logins *)

\* A login is about the user that logs in; a request that will store an entry has seen
\* its row there, or is marked.
LoginOK(r) == r.pc \in {"password", "info", "store"} => r.op = "login" /\ r.id = r.user
StoringOK(r) == r.pc \in {"store", "after"} /\ r.op # "deleteUser" => r.stale \/ row[Entry(r)] # NoRow

Logins == \A q \in Workers : LoginOK(req[q]) /\ StoringOK(req[q])

\* A user with a session has a row, which no delete has just taken, and an entry from the
\* first step of a start on.
Sessions ==
    /\ \A u \in session : row[u] # NoRow /\ ~Deleting(u)
    /\ phase # "users" => session \subseteq activity

JInv == Logins /\ Sessions /\ NoEntryWithoutRow

\* A step at which rows stay, and no delete begins or ends.
LEMMA QuietSteps ==
    ASSUME IInv, JInv, Logins', UNCHANGED <<phase, activity, session, raced>>,
           \A u \in Names : row[u] # NoRow => row'[u] # NoRow,
           \A q \in Workers : At(q, "after") /\ req[q].op = "deleteUser" => req'[q] = req[q],
           \A q \in Workers : At(q, "after")' /\ req'[q].op = "deleteUser" => req'[q] = req[q]
    PROVE  JInv'
<1>1. \A u : Deleting(u)' <=> Deleting(u)
  BY DEF Deleting, At
<1>2. session \subseteq Names /\ activity \subseteq Names
  BY DEF IInv, Memory
<1>3. Sessions'
  BY <1>1, <1>2 DEF JInv, Sessions
<1>4. NoEntryWithoutRow'
  BY <1>1, <1>2 DEF JInv, NoEntryWithoutRow
<1>. QED
  BY <1>3, <1>4 DEF JInv

\* The steps of a start store an entry for each row.
LEMMA StartKeepsLogins ==
    ASSUME IInv, JInv, StartUsers \/ StartWhiteList
    PROVE  JInv'
<1>1. \A q \in Workers : req[q].pc = "idle"
  BY DEF IInv, ReqsOK, ReqOK, StartUsers, StartWhiteList
<1>2. UNCHANGED <<req, session, raced>>
  BY DEF StartUsers, StartWhiteList, history
<1>3. Logins'
  BY <1>1, <1>2 DEF Logins, LoginOK, StoringOK, Entry
<1>4. CASE StartUsers
  <2>1. \A u \in Names : row[u] # NoRow => row'[u] # NoRow
    BY <1>4, SessionAssumption DEF StartUsers, IInv, Rows
  <2>2. activity' = {u \in Names : row'[u] # NoRow} /\ session \subseteq Names
    BY <1>4 DEF StartUsers, IInv, Memory
  <2>3. Sessions'
    BY <1>1, <1>2, <2>1, <2>2 DEF JInv, Sessions, Deleting, At
  <2>4. NoEntryWithoutRow'
    BY <2>2 DEF NoEntryWithoutRow
  <2>. QED
    BY <1>3, <2>3, <2>4 DEF JInv
<1>5. CASE StartWhiteList
  <2>1. UNCHANGED <<row, activity>> /\ phase # "users"
    BY <1>5 DEF StartWhiteList
  <2>. QED
    BY <1>2, <1>3, <2>1 DEF JInv, Sessions, NoEntryWithoutRow, Deleting, At
<1>. QED
  BY <1>4, <1>5

LEMMA CrashKeepsLogins ==
    ASSUME IInv, JInv, Crash
    PROVE  JInv'
<1>1. /\ phase' = "users" /\ activity' = {} /\ UNCHANGED <<row, session>>
      /\ \A q \in Workers : req'[q] = Idle
  BY DEF Crash, data
<1>2. Logins' /\ NoEntryWithoutRow'
  BY <1>1 DEF Logins, LoginOK, StoringOK, Entry, Idle, NoEntryWithoutRow
<1>3. Sessions'
  BY <1>1 DEF JInv, Sessions, Deleting, At, Idle
<1>. QED
  BY <1>2, <1>3 DEF JInv

LEMMA ArriveKeepsLogins ==
    ASSUME IInv, JInv, NEW p \in Workers, Arrive(p)
    PROVE  JInv'
<1>1. PICK pc \in {"password", "load"}, op \in AllOps, u \in Names, v \in Names,
           arg \in Args :
        Begin(p, pc, op, u, v, arg) /\ (pc = "password" => op = "login" /\ u = v)
  <2>. USE DEF AllOps, PasswordOps, Args
  <2>1. CASE \E a \in Names, password \in Passwords \cup {Empty} : Login(p, a, password)
    BY <2>1 DEF Login
  <2>2. CASE \E a, b \in Names, o \in AllOps, x \in Args : Ask(p, o, a, b, x)
    BY <2>2 DEF Ask
  <2>. QED
    BY <2>1, <2>2, Zenon DEF Arrive
<1>2. /\ req[p].pc = "idle"
      /\ UNCHANGED <<phase, row, activity, session, raced>>
      /\ \A q \in Workers : req'[q] = IF q = p THEN [pc |-> pc, op |-> op, user |-> u, id |-> v,
                                          arg |-> arg, err |-> FALSE, stale |-> FALSE]
                                     ELSE req[q]
  BY <1>1 DEF Arrive, Arrives, Begin, data, history, IInv, ReqsOK
<1>3. req'[p].pc = pc /\ req'[p].op = op /\ req'[p].user = u /\ req'[p].id = v
  BY <1>2
<1>4. Logins'
  BY <1>1, <1>2, <1>3 DEF JInv, Logins, LoginOK, StoringOK, Entry
<1>5. \A q \in Workers : req[q].pc = "after" \/ req'[q].pc = "after" => req'[q] = req[q]
  BY <1>2, <1>3
<1>. QED
  BY <1>2, <1>4, <1>5, QuietSteps DEF At

\* The steps that only move a request: one that will store an entry has seen the row.
LEMMA MovesKeepLogins ==
    ASSUME IInv, JInv, NEW p \in Workers,
           CheckPassword(p) \/ GetUserInfo(p) \/ Load(p) \/ Refuse(p) \/ TxFails(p)
    PROVE  JInv'
<1>1. /\ req[p].pc \in {"password", "info", "load", "run"}
      /\ UNCHANGED <<phase, row, activity, session, raced>>
  BY DEF CheckPassword, GetUserInfo, Load, Refuse, TxFails, At, data, history
<1>2. \/ End(p)
      \/ Goto(p, "run")
      \/ Error(p) /\ Audited(req[p].op)
      \/ Goto(p, "info") /\ req[p].pc = "password"
      \/ Goto(p, "store") /\ req[p].pc = "info" /\ row[req[p].user] # NoRow
  <2>1. Error(p) => End(p) \/ (Error(p) /\ Audited(req[p].op))
    BY DEF Error
  <2>. QED
    BY <2>1 DEF CheckPassword, GetUserInfo, Load, Refuse, TxFails, At
<1>3. \A q \in Workers : q # p => req'[q] = req[q]
  <2>1. CASE End(p)
    BY <2>1, EndFields
  <2>2. CASE Error(p) /\ Audited(req[p].op)
    BY <2>2, ErrorFields
  <2>3. CASE \E pc : Goto(p, pc)
    BY <2>3, GotoFields
  <2>. QED
    BY <1>2, <2>1, <2>2, <2>3
<1>4. LoginOK(req[p])' /\ StoringOK(req[p])'
  <2>1. CASE End(p)
    BY <2>1, EndFields DEF LoginOK, StoringOK, Entry, Idle
  <2>2. CASE Goto(p, "run")
    BY <2>2, GotoFields DEF LoginOK, StoringOK
  <2>5. CASE Error(p) /\ Audited(req[p].op)
    BY <2>5, ErrorFields DEF LoginOK, StoringOK
  <2>3. CASE Goto(p, "info") /\ req[p].pc = "password"
    BY <2>3, GotoFields DEF JInv, Logins, LoginOK, StoringOK, Entry
  <2>4. CASE Goto(p, "store") /\ req[p].pc = "info" /\ row[req[p].user] # NoRow
    BY <1>1, <2>4, GotoFields DEF JInv, Logins, LoginOK, StoringOK, Entry
  <2>. QED
    BY <1>2, <2>1, <2>2, <2>3, <2>4, <2>5
<1>5. Logins'
  BY <1>1, <1>3, <1>4 DEF JInv, Logins, LoginOK, StoringOK, Entry
<1>6. req'[p].pc # "after"
  <2>1. CASE End(p)
    BY <2>1, EndFields, IdleOK
  <2>2. CASE Error(p) /\ Audited(req[p].op)
    BY <2>2, ErrorFields
  <2>. QED
    BY <1>2, <2>1, <2>2, GotoFields
<1>. QED
  BY <1>1, <1>3, <1>5, <1>6, QuietSteps DEF At

\* The end of a login, and what the handlers of users do after their transaction.
LEMMA StoresKeepLogins ==
    ASSUME IInv, JInv, NEW p \in Workers, StoreUser(p) \/ StoreOrRemove(p)
    PROVE  JInv'
<1>1. /\ req[p].pc \in {"store", "after"} /\ phase = "up"
      /\ UNCHANGED <<phase, row>>
      /\ req[p].pc = "after" /\ req[p].op = "deleteUser" => ~req[p].stale
  BY DEF StoreUser, StoreOrRemove, At, data, IInv, ReqsOK, ReqOK
<1>2. /\ \A q \in Workers : q # p => req'[q] = req[q]
      /\ req'[p].pc \in {"idle", "audit"}
  <2>1. End(p) \/ Goto(p, "audit")
    BY DEF StoreUser, StoreOrRemove
  <2>2. CASE End(p)
    BY <2>2, EndFields DEF Idle
  <2>3. CASE Goto(p, "audit")
    <3>1. \A q \in Workers : q # p => req'[q] = req[q]
      BY <2>3 DEF Goto, IInv, ReqsOK
    <3>. QED
      BY <2>3, <3>1, GotoFields
  <2>. QED
    BY <2>1, <2>2, <2>3
<1>3. Logins'
  <2>1. LoginOK(req[p])' /\ StoringOK(req[p])'
    BY <1>2 DEF LoginOK, StoringOK, Entry
  <2>. QED
    BY <1>1, <1>2, <2>1 DEF JInv, Logins, LoginOK, StoringOK, Entry
<1>4. \A v : Deleting(v)' => Deleting(v)
  BY <1>2 DEF Deleting, At
<1>5. \A v : Deleting(v) => Deleting(v)' \/ (req[p].op = "deleteUser" /\ v = req[p].id)
  BY <1>2 DEF Deleting, At
<1>6. CASE StoreUser(p)
  <2>. DEFINE u == req[p].user
  <2>1. /\ req[p].op = "login" /\ req[p].id = u /\ Entry(req[p]) = u
        /\ req[p].stale \/ row[u] # NoRow
    BY <1>6 DEF StoreUser, At, JInv, Logins, LoginOK, StoringOK, Entry
  <2>2. /\ activity' = activity \cup {u}
        /\ session' = session \/ (session' = session \cup {u} /\ row[u] # NoRow /\ ~Deleting(u))
        /\ raced \ {u} \subseteq raced'
        /\ req[p].stale => u \in raced'
    BY <1>6 DEF StoreUser
  <2>3. Sessions'
    BY <1>1, <1>4, <2>2 DEF JInv, Sessions
  <2>4. NoEntryWithoutRow'
    BY <1>1, <1>5, <2>1, <2>2 DEF JInv, NoEntryWithoutRow
  <2>. QED
    BY <1>3, <2>3, <2>4 DEF JInv
<1>7. CASE StoreOrRemove(p) /\ req[p].op = "deleteUser"
  <2>. DEFINE u == req[p].id
  <2>1. ~req[p].stale /\ Deleting(u) /\ Entry(req[p]) = u
    BY <1>1, <1>7 DEF StoreOrRemove, Deleting, At, Entry
  <2>2. activity' = activity \ {u} /\ raced' = raced \ {u} /\ session' = session
    BY <1>7, <2>1, Zenon DEF StoreOrRemove
  <2>3. Sessions'
    BY <1>1, <1>4, <2>1, <2>2 DEF JInv, Sessions
  <2>4. NoEntryWithoutRow'
    BY <1>1, <1>5, <2>2 DEF JInv, NoEntryWithoutRow
  <2>. QED
    BY <1>3, <2>3, <2>4 DEF JInv
<1>8. CASE StoreOrRemove(p) /\ req[p].op # "deleteUser"
  <2>. DEFINE u == Entry(req[p])
  <2>1. req[p].stale \/ row[u] # NoRow
    BY <1>8 DEF StoreOrRemove, At, JInv, Logins, StoringOK
  <2>2. /\ activity' = activity \cup {u} /\ session' = session
        /\ raced \ {u} \subseteq raced'
        /\ req[p].stale => u \in raced'
    BY <1>8 DEF StoreOrRemove
  <2>3. Sessions'
    BY <1>1, <1>4, <2>2 DEF JInv, Sessions
  <2>4. NoEntryWithoutRow'
    BY <1>1, <1>5, <1>8, <2>1, <2>2 DEF JInv, NoEntryWithoutRow
  <2>. QED
    BY <1>3, <2>3, <2>4 DEF JInv
<1>. QED
  BY <1>6, <1>7, <1>8

\* A logout ends the session with the entry.
LEMMA LogoutKeepsLogins ==
    ASSUME IInv, JInv, NEW p \in Workers, Logout(p)
    PROVE  JInv'
<1>. DEFINE u == req[p].user
<1>1. /\ req[p].pc = "run" /\ UNCHANGED <<phase, row>>
      /\ activity' = activity \ {u} /\ session' = session \ {u} /\ raced' = raced \ {u}
  BY DEF Logout, Running, At, data
<1>2. \A q \in Workers : req'[q] = IF q = p THEN Idle ELSE req[q]
  BY EndFields DEF Logout
<1>3. \A v : Deleting(v)' <=> Deleting(v)
  BY <1>1, <1>2 DEF Deleting, At, Idle
<1>4. Logins'
  BY <1>1, <1>2 DEF JInv, Logins, LoginOK, StoringOK, Entry, Idle
<1>5. Sessions' /\ NoEntryWithoutRow'
  BY <1>1, <1>3 DEF JInv, Sessions, NoEntryWithoutRow
<1>. QED
  BY <1>4, <1>5 DEF JInv

\* Handlers that write passwords or the white list: a created user has a row.
LEMMA WritesKeepLogins ==
    ASSUME IInv, JInv, NEW p \in Workers,
           CreateUser(p) \/ SetPassword(p) \/ UpdateWhiteList(p) \/ AuditLogger(p)
    PROVE  JInv'
<1>1. /\ req[p].pc \in {"run", "audit"} /\ UNCHANGED <<phase, activity, session, raced>>
  BY DEF CreateUser, SetPassword, UpdateWhiteList, AuditLogger, Running, At, history
<1>2. \/ End(p)
      \/ Goto(p, "audit")
      \/ Goto(p, "after") /\ req[p].op = "createUser" /\ CreateUser(p)
  BY DEF CreateUser, SetPassword, UpdateWhiteList, AuditLogger, Finish, Running
<1>3. /\ \A u \in Names : row[u] # NoRow => row'[u] # NoRow
      /\ CreateUser(p) => row'[req[p].id] # NoRow
  <2>1. CASE CreateUser(p) \/ SetPassword(p)
    <3>1. req[p].arg \in Passwords /\ req[p].id \in Names
      BY <2>1 DEF CreateUser, SetPassword, Running, At, Refused, IInv, ReqsOK, ReqOK, PasswordOps
    <3>2. req[p].arg # NoRow
      BY <3>1, SessionAssumption
    <3>3. row' = row \/ row' = [row EXCEPT ![req[p].id] = req[p].arg]
      BY <2>1 DEF CreateUser, SetPassword
    <3>4. CreateUser(p) => row' = [row EXCEPT ![req[p].id] = req[p].arg]
      BY DEF CreateUser
    <3>5. row \in [Names -> Passwords \cup {NoRow}]
      BY DEF IInv, Rows
    <3>. QED
      BY <3>1, <3>2, <3>3, <3>4, <3>5
  <2>2. CASE UpdateWhiteList(p) \/ AuditLogger(p)
    <3>1. row' = row /\ ~CreateUser(p)
      BY <2>2 DEF UpdateWhiteList, AuditLogger, CreateUser, Running, At
    <3>. QED
      BY <3>1
  <2>. QED
    BY <2>1, <2>2
<1>4. \A q \in Workers : q # p => req'[q] = req[q]
  BY <1>2 DEF Goto, End, IInv, ReqsOK
<1>5. LoginOK(req[p])' /\ StoringOK(req[p])'
  <2>1. CASE End(p)
    BY <2>1, EndFields DEF LoginOK, StoringOK, Entry, Idle
  <2>2. CASE Goto(p, "audit")
    BY <2>2, GotoFields DEF LoginOK, StoringOK, Entry
  <2>3. CASE Goto(p, "after") /\ req[p].op = "createUser" /\ CreateUser(p)
    BY <1>3, <2>3, GotoFields DEF LoginOK, StoringOK, Entry
  <2>. QED
    BY <1>2, <2>1, <2>2, <2>3
<1>6. Logins'
  <2>1. \A q \in Workers : req[q].pc # "idle" => Entry(req[q]) \in Names
    BY DEF IInv, ReqsOK, ReqOK, Entry
  <2>. QED
    BY <1>3, <1>4, <1>5, <2>1 DEF JInv, Logins, LoginOK, StoringOK, Entry
<1>7. /\ req[p].pc # "after"
      /\ req'[p].pc = "after" => req'[p].op # "deleteUser"
  BY <1>1, <1>2, GotoFields, EndFields DEF Idle
<1>. QED
  BY <1>1, <1>3, <1>4, <1>6, <1>7, QuietSteps DEF At

\* An update of a user without a row is marked.
LEMMA UpdateUserKeepsLogins ==
    ASSUME IInv, JInv, NEW p \in Workers, UpdateUser(p)
    PROVE  JInv'
<1>. DEFINE gone == row[req[p].arg] = NoRow
<1>1. /\ req[p].pc = "run" /\ req[p].op = "updateUser"
      /\ UNCHANGED <<phase, row, activity, session, raced>>
      /\ req' = [req EXCEPT ![p].pc = "after", ![p].stale = gone]
  BY DEF UpdateUser, Running, At, data, history
<1>2. \A q \in Workers : q # p => req'[q] = req[q]
  BY <1>1 DEF IInv, ReqsOK
<1>3. req'[p].pc = "after" /\ req'[p].op = "updateUser" /\ req'[p].arg = req[p].arg
  BY <1>1 DEF IInv, ReqsOK, ReqType
<1>4. req'[p].stale = gone
  BY <1>1, Zenon DEF IInv, ReqsOK, ReqType
<1>5. LoginOK(req[p])' /\ StoringOK(req[p])'
  BY <1>1, <1>3, <1>4 DEF LoginOK, StoringOK, Entry
<1>6. Logins'
  <2>1. ASSUME NEW q \in Workers, q # p
        PROVE  LoginOK(req[q])' /\ StoringOK(req[q])'
    <3>1. LoginOK(req[q]) /\ StoringOK(req[q])
      BY DEF JInv, Logins
    <3>2. req'[q] = req[q] /\ row' = row
      BY <1>1, <1>2, <2>1
    <3>. QED
      BY <3>1, <3>2 DEF LoginOK, StoringOK, Entry
  <2>. QED
    BY <1>5, <2>1 DEF Logins
<1>. QED
  BY <1>1, <1>2, <1>3, <1>6, QuietSteps DEF At

\* A delete ends the session of the user and marks the requests that will store it.
LEMMA DeleteUserKeepsLogins ==
    ASSUME IInv, JInv, NEW p \in Workers, DeleteUser(p)
    PROVE  JInv'
<1>. DEFINE u == req[p].id
<1>1. /\ req[p].pc = "run" /\ req[p].op = "deleteUser" /\ u \in Names
      /\ UNCHANGED <<phase, activity, raced>> /\ phase = "up"
      /\ row' = [row EXCEPT ![u] = NoRow] /\ session' = session \ {u}
  BY DEF DeleteUser, Running, At, IInv, ReqsOK, ReqOK
<1>2. ASSUME NEW q \in Workers
      PROVE  /\ req'[q].op = req[q].op /\ req'[q].id = req[q].id /\ req'[q].user = req[q].user
             /\ req'[q].arg = req[q].arg
             /\ req'[q].pc = IF q = p THEN "after" ELSE req[q].pc
  <2>1. req[q] \in ReqType
    BY DEF IInv, ReqsOK
  <2>2. CASE q = p
    <3>1. req'[p] = [req[p] EXCEPT !.pc = "after"]
      BY Zenon DEF DeleteUser
    <3>. QED
      BY <2>1, <2>2, <3>1 DEF ReqType
  <2>3. CASE q # p
    <3>1. req'[q] = [req[q] EXCEPT !.stale = @ \/ q \in Storing(u)]
      BY <2>3, Zenon DEF DeleteUser
    <3>. HIDE DEF Storing
    <3>. QED
      BY <2>1, <2>3, <3>1, Zenon DEF ReqType
  <2>. QED
    BY <2>2, <2>3
<1>3. ASSUME NEW q \in Workers, q # p, req[q].stale \/ q \in Storing(u)
      PROVE  req'[q].stale
  <2>1. req'[q] = [req[q] EXCEPT !.stale = @ \/ q \in Storing(u)]
    BY <1>3, Zenon DEF DeleteUser
  <2>2. req[q] \in ReqType
    BY DEF IInv, ReqsOK
  <2>. QED
    BY <1>3, <2>1, <2>2, Zenon DEF ReqType
<1>4. \A v \in Names : v # u => row'[v] = row[v]
  BY <1>1 DEF IInv, Rows
<1>5. Logins'
  <2>1. ASSUME NEW q \in Workers
        PROVE  LoginOK(req[q])'
    BY <1>1, <1>2 DEF JInv, Logins, LoginOK
  <2>2. ASSUME NEW q \in Workers, req'[q].pc \in {"store", "after"}, req'[q].op # "deleteUser"
        PROVE  req'[q].stale \/ row'[Entry(req[q])'] # NoRow
    <3>1. q # p /\ req[q].pc \in {"store", "after"} /\ req[q].op # "deleteUser"
      BY <1>1, <1>2, <2>2
    <3>2. Entry(req[q]) \in Names /\ (req[q].stale \/ row[Entry(req[q])] # NoRow)
      BY <3>1 DEF JInv, Logins, StoringOK, Entry, IInv, ReqsOK, ReqOK
    <3>5. Entry(req[q])' = Entry(req[q])
      BY <1>2 DEF Entry
    <3>3. CASE Entry(req[q]) = u
      BY <1>3, <3>1, <3>3 DEF Storing
    <3>4. CASE Entry(req[q]) # u
      BY <1>3, <1>4, <3>1, <3>2, <3>4, <3>5
    <3>. QED
      BY <3>3, <3>4
  <2>. QED
    BY <2>1, <2>2 DEF Logins, StoringOK, Entry
<1>6. \A v : Deleting(v)' <=> Deleting(v) \/ v = u
  BY <1>1, <1>2 DEF Deleting, At
<1>7. session \subseteq Names /\ activity \subseteq Names
  BY DEF IInv, Memory
<1>8. Sessions'
  BY <1>1, <1>4, <1>6, <1>7 DEF JInv, Sessions
<1>9. NoEntryWithoutRow'
  BY <1>1, <1>4, <1>6, <1>7 DEF JInv, NoEntryWithoutRow
<1>. QED
  BY <1>5, <1>8, <1>9 DEF JInv

--------------------------------------------------------------------------------
(* Theorems *)

\* Every step keeps the invariant.
LEMMA NextInv == IInv /\ [Next]_vars => IInv'
<1>. SUFFICES ASSUME IInv, [Next]_vars
              PROVE  IInv'
  OBVIOUS
<1>1. CASE StartUsers \/ StartWhiteList \/ Crash
  BY <1>1, StartKeepsInv, CrashKeepsInv
<1>2. ASSUME NEW p \in Workers, Arrive(p)
      PROVE  IInv'
  BY <1>2, ArriveKeepsInv
<1>3. ASSUME NEW p \in Workers, Proceed(p)
      PROVE  IInv'
  BY <1>3, MovesKeepInv, StoresKeepInv, LogoutKeepsInv, PasswordsKeepInv, UpdateUserKeepsInv,
     DeleteUserKeepsInv, UpdateWhiteListKeepsInv, AuditLoggerKeepsInv DEF Proceed
<1>4. CASE UNCHANGED vars
  BY <1>4 DEF IInv, ReqsOK, ReqOK, Rows, Memory, Counts, AuditExplainsTable, Accounted,
              Unrecorded, vars, data, history
<1>. QED
  BY <1>1, <1>2, <1>3, <1>4 DEF Next

\* The invariant holds in every reachable state.
THEOREM Invariant == Spec => []IInv
  BY InitInv, NextInv, PTL DEF Spec

\* Every step keeps the facts about logins.
LEMMA NextLogins == IInv /\ JInv /\ [Next]_vars => JInv'
<1>. SUFFICES ASSUME IInv, JInv, [Next]_vars
              PROVE  JInv'
  OBVIOUS
<1>1. CASE StartUsers \/ StartWhiteList \/ Crash
  BY <1>1, StartKeepsLogins, CrashKeepsLogins
<1>2. ASSUME NEW p \in Workers, Arrive(p)
      PROVE  JInv'
  BY <1>2, ArriveKeepsLogins
<1>3. ASSUME NEW p \in Workers, Proceed(p)
      PROVE  JInv'
  BY <1>3, MovesKeepLogins, StoresKeepLogins, LogoutKeepsLogins, WritesKeepLogins,
     UpdateUserKeepsLogins, DeleteUserKeepsLogins DEF Proceed
<1>4. CASE UNCHANGED vars
  BY <1>4 DEF JInv, Logins, LoginOK, StoringOK, Entry, Sessions, NoEntryWithoutRow, Deleting, At, vars,
              data, history
<1>. QED
  BY <1>1, <1>2, <1>3, <1>4 DEF Next

\* And they hold in every reachable state.
THEOREM LoginInvariant == Spec => []JInv
<1>1. Init => JInv
  BY IdleOK DEF Init, JInv, Logins, LoginOK, StoringOK, Entry, Sessions, NoEntryWithoutRow, Deleting, At,
                Idle
<1>. QED
  BY <1>1, NextLogins, Invariant, PTL DEF Spec

\* Types; only a process that is up has requests.
THEOREM TypeCorrect == Spec => []TypeOK
  BY Invariant, InvTypes, PTL

\* Nothing users do, and no crash, locks the administrator out (NewUserHandler,
\* NewWhiteListHandler and the update of the white list).
THEOREM AdminStaysAble == Spec => []AdminCanLogIn
  BY Invariant, InvAdmin, PTL

\* The audit log explains the table of users, up to the losses that clients were told of
\* or that a crash brought (AuditLoggerHandler and the handlers' errors).
THEOREM TableIsExplained == Spec => []AuditExplainsTable
<1>1. IInv => AuditExplainsTable
  BY DEF IInv
<1>. QED
  BY <1>1, Invariant, PTL

\* No other request ends a login, and no restart does (StoreUser, DeleteUser, Logout,
\* StoreOrRemove).
THEOREM LoginLasts == Spec => []LoginLastsUntilLogout
<1>1. JInv => LoginLastsUntilLogout
  BY DEF JInv, Sessions, LoginLastsUntilLogout
<1>. QED
  BY <1>1, LoginInvariant, PTL

\* An entry without a row was stored by a request that overlapped the delete.
THEOREM EntriesHaveRows == Spec => []NoEntryWithoutRow
<1>1. JInv => NoEntryWithoutRow
  BY DEF JInv
<1>. QED
  BY <1>1, LoginInvariant, PTL
================================================================================
