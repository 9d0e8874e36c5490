-------------------------------- MODULE Session --------------------------------
(***************************************************************************)
(* The life of a request: white list, login or token, the entry of the     *)
(* user in ActivityUsers, the handler of users, passwords and the white    *)
(* list, and the audit record at the end (authentification.go,             *)
(* user_handler.go, whitelist_handler.go, auditlog_handler.go).            *)
(*                                                                         *)
(* Every request is a worker of its own.  Its transactions hold one write  *)
(* at most, so each is a step; what lies between two of them is open to    *)
(* the other workers, to a crash and to the steps of the next start.       *)
(* Here a user row is its password, decrypted, and ActivityUsers is the    *)
(* set of its keys (the values are module Directory's subject).  An entry  *)
(* of the white list is the set of addresses it matches: one, or a         *)
(* subnet.  Left out: the encryption, which is a bijection; the expiry of  *)
(* tokens, which only takes requests away; and an update of a white list   *)
(* of another id, which finds no row.                                      *)
(***************************************************************************)
EXTENDS Naturals

CONSTANTS Users,        \* names of the normal users
          Admin,        \* the administrator's name
          Passwords,    \* passwords that are not empty
          AdminPassword,\* the one the administrator is created with
          Empty,        \* the empty password
          Addresses,    \* addresses of clients
          ServerIP,     \* the address of the controller in its configuration, which stays
          Subnets,      \* the sets of addresses an entry of the white list can match
          Workers,      \* request goroutines
          NoRow,        \* absence of a row
          Ops,          \* which operations the clients use
          MaxRequests,  \* bound on the requests of one behaviour
          MaxFailures   \* bound on failing transactions and on crashes

Names == Users \cup {Admin}

ASSUME SessionAssumption ==
    /\ Admin \notin Users /\ AdminPassword \in Passwords /\ ServerIP \in Addresses
    /\ Empty \notin Passwords /\ NoRow \notin Passwords \cup {Empty}
    /\ Subnets \subseteq SUBSET Addresses
    /\ \A w \in [enabled : BOOLEAN, ips : SUBSET Subnets, privilege : Addresses] : w # NoRow
    /\ MaxRequests \in Nat /\ MaxFailures \in Nat

VARIABLES phase,     \* of the process: it sets up users, then the white list, then serves
          row,       \* gr_ddiuser: the password of each row
          white,     \* gr_white_list: its only row
          activity,  \* the keys of ActivityUsers
          tokens,    \* the names clients hold a token for
          req,       \* the request of each worker
          log,       \* gr_audit_log
          started,   \* requests so far (the bound)
          failures,  \* failures so far (the bound)
          had,       \* history: the users with a row before the first request
          lost,      \* history: creates and deletes that are committed and have no record,
                     \* and whose client was answered with an error or not at all
          session,   \* history: users with a login and neither logout nor delete since
          raced      \* history: entries stored by a request that overlapped a delete

data == <<row, white, log>>
history == <<had, lost, session, raced>>
vars == <<phase, data, activity, tokens, req, started, failures, history>>

Idle == [pc |-> "idle", op |-> "none", user |-> NoRow, id |-> NoRow, arg |-> NoRow,
         err |-> FALSE, stale |-> FALSE]

\* What happens to the rows of normal users.
Changes == {"createUser", "deleteUser"} \X Users

Fail == failures < MaxFailures /\ failures' = failures + 1

\* checkWhiteList: the row must be there; a list that is off lets everyone pass.
Passes(ip) ==
    /\ white # NoRow
    /\ \/ ~white.enabled
       \/ ip = white.privilege
       \/ \E subnet \in white.ips : ip \in subnet

--------------------------------------------------------------------------------
(* Start and crash *)

\* NewUserHandler: every user becomes active, and the administrator is inserted when
\* it is missing.
StartUsers ==
    /\ phase = "users"
    /\ row' = IF row[Admin] = NoRow THEN [row EXCEPT ![Admin] = AdminPassword] ELSE row
    /\ activity' = {u \in Names : row'[u] # NoRow}
    /\ phase' = "whitelist"
    /\ UNCHANGED <<white, log, tokens, req, started, failures, history>>

\* NewWhiteListHandler: the row is inserted when it is missing.
StartWhiteList ==
    /\ phase = "whitelist"
    /\ white' = IF white = NoRow
                THEN [enabled |-> FALSE, ips |-> {}, privilege |-> ServerIP]
                ELSE white
    /\ phase' = "up"
    /\ UNCHANGED <<row, log, activity, tokens, req, started, failures, history>>

\* A create or delete of user u has committed and has yet to be recorded.
Carries(r, op, u) == r.pc \in {"after", "audit"} /\ ~r.err /\ r.op = op /\ r.id = u
Unrecorded(op, u) == \E p \in Workers : Carries(req[p], op, u)

\* The process stops, or its start fails: memory is gone and the tokens are valid
\* when it comes back.
Crash ==
    /\ Fail
    /\ phase' = "users"
    /\ activity' = {}
    /\ req' = [p \in Workers |-> Idle]
    /\ raced' = {}
    /\ lost' = lost \cup {c \in Changes : Unrecorded(c[1], c[2])}
    /\ UNCHANGED <<data, tokens, started, had, session>>

--------------------------------------------------------------------------------
(* Login *)

\* A client connects, from an address the white list lets pass.
Arrives(p) ==
    /\ phase = "up"
    /\ req[p].pc = "idle"
    /\ started < MaxRequests
    /\ \E ip \in Addresses : Passes(ip)

Begin(p, pc, op, u, v, arg) ==
    /\ op \in Ops
    /\ started' = started + 1
    /\ req' = [req EXCEPT ![p] = [pc |-> pc, op |-> op, user |-> u, id |-> v, arg |-> arg,
                                  err |-> FALSE, stale |-> FALSE]]
    /\ UNCHANGED <<phase, data, activity, tokens, failures, history>>

\* checkLogin up to the body of the request.
Login(p, u, password) == Begin(p, "password", "login", u, u, password)

At(p, pc) == req[p].pc = pc
Goto(p, pc) == req' = [req EXCEPT ![p].pc = pc]
End(p) == req' = [req EXCEPT ![p] = Idle]

\* CheckPassword; a wrong one ends the request.
CheckPassword(p) ==
    /\ At(p, "password")
    /\ IF row[req[p].user] = req[p].arg THEN Goto(p, "info") ELSE End(p)
    /\ UNCHANGED <<phase, data, activity, tokens, started, failures, history>>

\* GetUserInfo; without the row the index of the result panics, and the server ends the
\* request.
GetUserInfo(p) ==
    /\ At(p, "info")
    /\ IF row[req[p].user] # NoRow THEN Goto(p, "store") ELSE End(p)
    /\ UNCHANGED <<phase, data, activity, tokens, started, failures, history>>

\* A delete of u has committed and not yet removed its entry.
Deleting(u) == \E q \in Workers : At(q, "after") /\ req[q].op = "deleteUser" /\ req[q].id = u

\* The entry is stored and the token returned.
StoreUser(p) ==
    LET u == req[p].user IN
    /\ At(p, "store")
    /\ activity' = activity \cup {u}
    /\ tokens' = tokens \cup {u}
    /\ raced' = IF req[p].stale THEN raced \cup {u} ELSE raced \ {u}
    /\ session' = IF row[u] # NoRow /\ ~Deleting(u) THEN session \cup {u} ELSE session
    /\ End(p)
    /\ UNCHANGED <<phase, data, started, failures, had, lost>>

--------------------------------------------------------------------------------
(* The authenticated request *)

\* What the template lets a normal user do with users: GET, POST and actions.
NormalOps == {"createUser", "logout", "changePassword", "resetPassword"}

\* authentification up to the token.
Ask(p, op, u, v, arg) ==
    /\ u \in tokens
    /\ Begin(p, "load", op, u, v, arg)

\* ActivityUsers.Load and the check of the authority.
Load(p) ==
    /\ At(p, "load")
    /\ IF req[p].user \in activity /\ (req[p].user = Admin \/ req[p].op \in NormalOps)
       THEN Goto(p, "run") ELSE End(p)
    /\ UNCHANGED <<phase, data, activity, tokens, started, failures, history>>

\* Conditions on which a handler returns an error before its transaction, or the
\* insert fails.
Refused(r) ==
    \/ r.op = "createUser" /\ (r.arg = Empty \/ row[r.id] # NoRow)
    \/ r.op = "updateUser" /\ r.user \notin {Admin, r.id}
    \/ r.op = "deleteUser" /\ r.id = Admin
    \/ r.op = "changePassword" /\ (r.user \notin {Admin, r.id} \/ r.arg = Empty)
    \/ r.op = "resetPassword" /\ (r.user # Admin \/ r.arg = Empty)
    \/ r.op = "updateWhiteList" /\ r.arg.enabled /\ r.arg.ips = {}

\* Action sets AuditlogIgnore.
Audited(op) == op \notin {"logout", "changePassword", "resetPassword"}

\* Where a request goes on when its handler is through, and when it returns an error.
Finish(p, pc) == IF Audited(req[p].op) THEN Goto(p, pc) ELSE End(p)
Error(p) == IF Audited(req[p].op) THEN req' = [req EXCEPT ![p].pc = "audit", ![p].err = TRUE]
                                  ELSE End(p)

Running(p, op) == At(p, "run") /\ req[p].op = op /\ ~Refused(req[p])

Refuse(p) ==
    /\ At(p, "run")
    /\ Refused(req[p])
    /\ Error(p)
    /\ UNCHANGED <<phase, data, activity, tokens, started, failures, history>>

\* Mutant: the handler does not look at the error of its transaction.
TxFailsUnseen(p) ==
    /\ At(p, "run")
    /\ ~Refused(req[p]) /\ req[p].op # "logout"
    /\ Fail
    /\ Finish(p, "audit")
    /\ UNCHANGED <<phase, data, activity, tokens, started, history>>

\* The transaction fails and is rolled back.
TxFails(p) ==
    /\ At(p, "run")
    /\ ~Refused(req[p]) /\ req[p].op # "logout"
    /\ Fail
    /\ Error(p)
    /\ UNCHANGED <<phase, data, activity, tokens, started, history>>

CreateUser(p) ==
    /\ Running(p, "createUser")
    /\ row' = [row EXCEPT ![req[p].id] = req[p].arg]
    /\ Finish(p, "after")
    /\ UNCHANGED <<phase, white, log, activity, tokens, started, failures, history>>

\* Mutant: the update writes the whole user of the request's body.
UpdateUserWhole(p) ==
    /\ Running(p, "updateUser")
    /\ row' = IF row[req[p].id] = NoRow THEN row ELSE [row EXCEPT ![req[p].id] = Empty]
    /\ req' = [req EXCEPT ![p].pc = "after", ![p].stale = row[req[p].arg] = NoRow]
    /\ UNCHANGED <<phase, white, log, activity, tokens, started, failures, history>>

\* Update writes groups and roles and leaves the password; no row is no error, and
\* the user that the body names is stored all the same.
UpdateUser(p) ==
    /\ Running(p, "updateUser")
    /\ req' = [req EXCEPT ![p].pc = "after", ![p].stale = row[req[p].arg] = NoRow]
    /\ UNCHANGED <<phase, data, activity, tokens, started, failures, history>>

\* The user whose entry a request stores or removes: an update takes it from its body.
Entry(r) == IF r.op = "updateUser" THEN r.arg ELSE r.id

\* Requests that have seen the row of u and will store u.
Storing(u) ==
    {q \in Workers : /\ Entry(req[q]) = u
                     /\ req[q].pc \in {"store", "after"} /\ req[q].op # "deleteUser"}

DeleteUser(p) ==
    LET u == req[p].id IN
    /\ Running(p, "deleteUser")
    /\ row' = [row EXCEPT ![u] = NoRow]
    /\ session' = session \ {u}
    /\ req' = [q \in Workers |-> IF q = p THEN [req[q] EXCEPT !.pc = "after"]
                                  ELSE [req[q] EXCEPT !.stale = @ \/ q \in Storing(u)]]
    /\ UNCHANGED <<phase, white, log, activity, tokens, started, failures, had, lost, raced>>

\* Mutant: the entry is removed only when a row was deleted.
StoreOrRemoveIfRow(p) ==
    LET u == Entry(req[p])
        keep == req[p].op # "deleteUser" \/ row[u] = NoRow
    IN
    /\ At(p, "after")
    /\ activity' = IF keep THEN activity \cup {u} ELSE activity \ {u}
    /\ raced' = IF req[p].stale THEN raced \cup {u} ELSE raced \ {u}
    /\ Goto(p, "audit")
    /\ UNCHANGED <<phase, data, tokens, started, failures, had, lost, session>>

\* What Create, Update and Delete do to ActivityUsers after their transaction.
StoreOrRemove(p) ==
    LET u == Entry(req[p]) IN
    /\ At(p, "after")
    /\ activity' = IF req[p].op = "deleteUser" THEN activity \ {u} ELSE activity \cup {u}
    /\ raced' = IF req[p].stale THEN raced \cup {u} ELSE raced \ {u}
    /\ Goto(p, "audit")
    /\ UNCHANGED <<phase, data, tokens, started, failures, had, lost, session>>

\* Mutant: the user named in the request is logged out.
LogoutNamed(p) ==
    /\ Running(p, "logout")
    /\ activity' = activity \ {req[p].id}
    /\ session' = session \ {req[p].user}
    /\ raced' = raced \ {req[p].id}
    /\ End(p)
    /\ UNCHANGED <<phase, data, tokens, started, failures, had, lost>>

\* The user of the token is logged out, whatever user the request names.
Logout(p) ==
    LET u == req[p].user IN
    /\ Running(p, "logout")
    /\ activity' = activity \ {u}
    /\ session' = session \ {u}
    /\ raced' = raced \ {u}
    /\ End(p)
    /\ UNCHANGED <<phase, data, tokens, started, failures, had, lost>>

\* changePassword and resetPassword; no row is no error.
SetPassword(p) ==
    LET u == req[p].id IN
    /\ Running(p, "changePassword") \/ Running(p, "resetPassword")
    /\ row' = IF row[u] = NoRow THEN row ELSE [row EXCEPT ![u] = req[p].arg]
    /\ End(p)
    /\ UNCHANGED <<phase, white, log, activity, tokens, started, failures, history>>

\* Mutant: the update writes the whole resource, whose privilege no client can set.
UpdateWhiteListWhole(p) ==
    /\ Running(p, "updateWhiteList")
    /\ white' = [enabled |-> req[p].arg.enabled, ips |-> req[p].arg.ips, privilege |-> Empty]
    /\ Finish(p, "audit")
    /\ UNCHANGED <<phase, row, log, activity, tokens, started, failures, history>>

UpdateWhiteList(p) ==
    /\ Running(p, "updateWhiteList")
    /\ white' = [white EXCEPT !.enabled = req[p].arg.enabled, !.ips = req[p].arg.ips]
    /\ Finish(p, "audit")
    /\ UNCHANGED <<phase, row, log, activity, tokens, started, failures, history>>

--------------------------------------------------------------------------------
(* The end of a request *)

Record(p) == [user |-> req[p].user, op |-> req[p].op, id |-> req[p].id, succeed |-> ~req[p].err]

\* AuditLoggerHandler: the record is inserted, or the client gets an error.
AuditLogger(p) ==
    /\ At(p, "audit")
    /\ End(p)
    /\ \/ log' = log \cup {Record(p)} /\ UNCHANGED <<failures, lost>>
       \/ /\ Fail /\ UNCHANGED log
          /\ lost' = IF req[p].err THEN lost
                     ELSE lost \cup ({<<req[p].op, req[p].id>>} \cap Changes)
    /\ UNCHANGED <<phase, row, white, activity, tokens, started, had, session, raced>>

--------------------------------------------------------------------------------
(* The specification *)

WhiteLists == [enabled : BOOLEAN, ips : SUBSET Subnets]

\* The first start, or one on the database of an earlier process and with clients
\* that hold tokens of it.
Init ==
    /\ phase = "users"
    /\ row \in [Names -> Passwords \cup {NoRow}]
    /\ white \in {NoRow} \cup {[enabled |-> w.enabled, ips |-> w.ips, privilege |-> ServerIP] :
                                 w \in {v \in WhiteLists : v.enabled => v.ips # {}}}
    /\ tokens \in SUBSET Names
    /\ white = NoRow => tokens = {} /\ \A u \in Users : row[u] = NoRow
    /\ row[Admin] = NoRow => white = NoRow
    /\ activity = {}
    /\ req = [p \in Workers |-> Idle]
    /\ log = {}
    /\ started = 0 /\ failures = 0
    /\ had = {u \in Users : row[u] # NoRow} /\ lost = {} /\ session = {} /\ raced = {}

Arrive(p) ==
    /\ Arrives(p)
    /\ \E u, v \in Names :
        \/ v = u /\ \E password \in Passwords \cup {Empty} : Login(p, u, password)
        \/ \E op \in {"deleteUser", "logout"} : Ask(p, op, u, v, NoRow)
        \/ \E name \in Names : Ask(p, "updateUser", u, v, name)
        \/ \E op \in {"createUser", "changePassword", "resetPassword"} :
             \E password \in Passwords \cup {Empty} : Ask(p, op, u, v, password)
        \/ v = u /\ \E w \in WhiteLists : Ask(p, "updateWhiteList", u, v, w)

Proceed(p) ==
    \/ CheckPassword(p) \/ GetUserInfo(p) \/ StoreUser(p)
    \/ Load(p) \/ Refuse(p) \/ TxFails(p)
    \/ CreateUser(p) \/ UpdateUser(p) \/ DeleteUser(p) \/ StoreOrRemove(p)
    \/ Logout(p) \/ SetPassword(p) \/ UpdateWhiteList(p)
    \/ AuditLogger(p)

Next ==
    \/ StartUsers \/ StartWhiteList \/ Crash
    \/ \E p \in Workers : Arrive(p) \/ Proceed(p)

Spec == Init /\ [][Next]_vars

--------------------------------------------------------------------------------
(* Properties *)

Pcs == {"idle", "password", "info", "store", "load", "run", "after", "audit"}
\* Types; only a process that is up has requests.
TypeOK ==
    /\ phase \in {"users", "whitelist", "up"}
    /\ row \in [Names -> Passwords \cup {NoRow}]
    /\ white \in {NoRow} \cup [enabled : BOOLEAN, ips : SUBSET Subnets, privilege : Addresses]
    /\ activity \subseteq Names /\ tokens \subseteq Names
    /\ \A p \in Workers :
        /\ req[p].pc \in Pcs
        /\ req[p].pc # "idle" => phase = "up" /\ req[p].id \in Names
        /\ req[p].pc # "idle" /\ req[p].op = "updateUser" => req[p].arg \in Names
    /\ started \in 0..MaxRequests /\ failures \in 0..MaxFailures
    /\ had \subseteq Users /\ lost \subseteq Changes
    /\ log \subseteq [user : Names, op : Ops, id : Names, succeed : BOOLEAN]
    /\ session \subseteq Names /\ raced \subseteq activity

\* Whatever users do to each other and to the white list, and wherever the process
\* stopped before, the administrator can log in from the controller's own address: its
\* row is there with a password, and so are the white list and its privileged address.
AdminCanLogIn == phase = "up" => row[Admin] \in Passwords /\ Passes(ServerIP)

\* A login lasts until the user logs out or is deleted: no other request removes its
\* entry, and a restart stores it again.
LoginLastsUntilLogout == phase = "up" => session \subseteq activity

\* ActivityUsers has no user that is gone, unless a request had seen the row before the
\* delete and stored the entry after it (or the body of an update named a user that did
\* not exist).
NoEntryWithoutRow ==
    \A u \in activity : row[u] # NoRow \/ u \in raced \/ Deleting(u)

\* A create or delete of user u is in the log as a success, or about to be, or its client
\* knows that something went wrong.
Accounted(op, u) ==
    \/ \E r \in log : r.op = op /\ r.id = u /\ r.succeed
    \/ Unrecorded(op, u)
    \/ <<op, u>> \in lost

\* The audit log explains the table of users, whatever handlers, records, failures and
\* crashes interleave: a user who has a row, and was not there at first or has a delete
\* accounted for, has a create accounted for; a user who has none, and was there at first
\* or has a create accounted for, has a delete accounted for.
AuditExplainsTable ==
    \A u \in Users :
      /\ row[u] # NoRow /\ (u \notin had \/ Accounted("deleteUser", u)) => Accounted("createUser", u)
      /\ row[u] = NoRow /\ (u \in had \/ Accounted("createUser", u)) => Accounted("deleteUser", u)
================================================================================
