---------------------------- MODULE DirectoryChoices ----------------------------
(***************************************************************************)
(* The directory with a record of what the administrator chose: the roles  *)
(* listed in the last create or update of each user.  The role_ids column  *)
(* also receives the roles of the groups a user is put in, and the two are *)
(* not told apart afterwards.                                              *)
(***************************************************************************)
EXTENDS MCDirectory

VARIABLE chosen  \* history: the roles chosen for each user in its own form

ChoicesInit ==
    /\ SmallSite
    /\ chosen = [u \in Users |-> db[u].roles]

\* The worker commits the create or update of user u.
CommitsUser(u) ==
    \E p \in Workers :
        Commit(p) /\ tx[p].op \in {"createUser", "updateUser"} /\ tx[p].id = u

ChoicesNext ==
    /\ Next
    /\ chosen' = [u \in Users |->
                    IF CommitsUser(u) /\ db'[u] # NoRow THEN db'[u].roles ELSE chosen[u]]

ChoicesSpec == ChoicesInit /\ [][ChoicesNext]_<<vars, chosen>>

\* "The permissions of a user are the union of the user groups and the roles chosen
\* for it": what the next login computes is what those groups and roles grant.
AuthorityIsUnionOfChoices ==
    (\A p \in Workers : tx[p].pc = "idle") =>
      \A u \in Existing(db, Users) :
        Authority(db, db[u]) = RoleViews(db, chosen[u] \cup GroupRoles(db, db[u].groups))
================================================================================
